CONSTANTS
  None = None
  Programs <- MCPrograms
  QUEUE_DEPTH = 2
  HALF_WIDTH = 2
  MAX_LATENCY = 3
  COUNTER_MAX = 15
SPECIFICATION Spec
INVARIANTS WriteOnce AdmittedAsSubmitted CounterReadCoherent PolicyMirrored UnreadInterruptKept TimerPeriod
PROPERTY TimerFires

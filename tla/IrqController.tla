--------------------------- MODULE IrqController ----------------------------
(* The interrupt controller (rtl/irq/irq_controller.sv): pending sources,   *)
(* the interrupt line, and the time an interrupt waits for its service.     *)
EXTENDS Integers

CONSTANT MAX_LATENCY   \* where the latency counter saturates

VARIABLES
  irq_pending,
  latency_valid, latency_cycles,        \* the latency reported by a service
  latency_tracking, latency_counter

irqVars == <<irq_pending, latency_valid, latency_cycles, latency_tracking, latency_counter>>

irq(enable) == irq_pending \cap enable # {}

\* Faulty variant: a source in the cycle of its clear is lost.
ClearWins(sources, clear) == (irq_pending \cup sources) \ clear

next_pending(sources, clear) == (irq_pending \ clear) \cup sources

IrqInit ==
  /\ irq_pending = {}
  /\ latency_valid = FALSE
  /\ latency_cycles = 0
  /\ latency_tracking = FALSE
  /\ latency_counter = 0

IrqReset ==
  /\ irq_pending' = {}
  /\ latency_valid' = FALSE
  /\ latency_cycles' = 0
  /\ latency_tracking' = FALSE
  /\ latency_counter' = 0

\* An enabled pending source is cleared: its waiting time is reported.
Service(sources, enable, clear) ==
  /\ irq_pending \cap enable \cap clear # {}
  /\ latency_valid' = TRUE
  /\ latency_cycles' = latency_counter
  /\ latency_counter' = 0
  /\ latency_tracking' = (next_pending(sources, clear) \cap enable # {})

Track(enable, clear) ==
  /\ irq_pending \cap enable \cap clear = {}
  /\ latency_valid' = FALSE
  /\ latency_counter' = IF ~irq(enable) \/ ~latency_tracking THEN 0
                        ELSE IF latency_counter # MAX_LATENCY THEN latency_counter + 1
                        ELSE latency_counter
  /\ latency_tracking' = irq(enable)
  /\ UNCHANGED latency_cycles

IrqClock(sources, enable, clear) ==
  /\ irq_pending' = next_pending(sources, clear)
  /\ Service(sources, enable, clear) \/ Track(enable, clear)
=============================================================================

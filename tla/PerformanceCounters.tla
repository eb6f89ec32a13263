------------------------ MODULE PerformanceCounters -------------------------
(* The performance counters (rtl/perf/performance_counters.sv): saturating  *)
(* sums of events and two maxima.  events holds one increment per sum and   *)
(* one sample per maximum; the latency sample counts only when it is valid. *)
EXTENDS Integers, FiniteSetsExt

CONSTANT COUNTER_MAX   \* largest value of a counter

VARIABLE counters      \* by counter number; the unnamed numbers stay zero

PERF_TOTAL_CYCLES == 0
PERF_DMA_ACTIVE_CYCLES == 1
PERF_DMA_STALLED_CYCLES == 2
PERF_ACCEL_ACTIVE_CYCLES == 3
PERF_ACCEL_STALLED_CYCLES == 4
PERF_QUEUE_HIGH_WATER == 5
PERF_COMMANDS_COMPLETED == 6
PERF_BYTES_READ == 7
PERF_BYTES_WRITTEN == 8
PERF_IRQ_LATENCY == 9
PERF_SCHEDULER_STALLS == 10

Sums == {PERF_TOTAL_CYCLES, PERF_DMA_ACTIVE_CYCLES, PERF_DMA_STALLED_CYCLES,
         PERF_ACCEL_ACTIVE_CYCLES, PERF_ACCEL_STALLED_CYCLES, PERF_COMMANDS_COMPLETED,
         PERF_BYTES_READ, PERF_BYTES_WRITTEN, PERF_SCHEDULER_STALLS}
Maxima == {PERF_QUEUE_HIGH_WATER, PERF_IRQ_LATENCY}
Reserved == 11 .. 15

saturating_add(value, increment) ==
  IF increment > COUNTER_MAX - value THEN COUNTER_MAX ELSE value + increment

selected_value(select) == counters[select]

AllZero == [id \in Sums \cup Maxima \cup Reserved |-> 0]

CountersInit == counters = AllZero
CountersReset == counters' = AllZero

\* A clear discards the events of its cycle.
CountersClock(clear, events) ==
  counters' =
    IF clear THEN AllZero
    ELSE [id \in DOMAIN counters |->
            CASE id \in Sums -> saturating_add(counters[id], events[id])
              [] id \in Maxima -> Max({counters[id], events[id]})
              [] OTHER -> 0]
=============================================================================

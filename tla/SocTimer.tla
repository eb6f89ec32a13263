------------------------------ MODULE SocTimer ------------------------------
(* The timer (rtl/timer/soc_timer.sv).  One step is one clock edge; config  *)
(* is the enable, periodic and interval inputs.                             *)
EXTENDS Integers

VARIABLES
  previous,          \* the configuration of the last cycle
  value, armed,
  timer_tick         \* one-cycle event

timerVars == <<previous, value, armed, timer_tick>>

TimerOff == [enable |-> FALSE, periodic |-> FALSE, interval |-> 0]

TimerInit ==
  /\ previous = TimerOff
  /\ value = 0
  /\ armed = FALSE
  /\ timer_tick = FALSE

TimerReset ==
  /\ previous' = TimerOff
  /\ value' = 0
  /\ armed' = FALSE
  /\ timer_tick' = FALSE

Disabled(config) ==
  /\ ~config.enable
  /\ value' = 0
  /\ armed' = FALSE
  /\ timer_tick' = FALSE

\* Any change restarts the count; an interval of zero never expires.
ConfigurationChanged(config) ==
  /\ config.enable
  /\ config # previous
  /\ value' = 0
  /\ armed' = (config.interval # 0)
  /\ timer_tick' = FALSE

\* Faulty variant: the expired timer starts its count at one.
ExpireShort(config) ==
  /\ value' = IF config.periodic THEN 1 ELSE value
  /\ armed' = config.periodic
  /\ timer_tick' = TRUE

\* Faulty variant: a periodic timer is not armed again.
ExpireOnce(config) ==
  /\ value' = IF config.periodic THEN 0 ELSE value
  /\ armed' = FALSE
  /\ timer_tick' = TRUE

Expire(config) ==
  /\ value' = IF config.periodic THEN 0 ELSE value
  /\ armed' = config.periodic
  /\ timer_tick' = TRUE

Count(config) ==
  /\ config.enable
  /\ config = previous
  /\ IF armed /\ value = config.interval - 1
       THEN Expire(config)
       ELSE /\ value' = IF armed THEN value + 1 ELSE value
            /\ timer_tick' = FALSE
            /\ UNCHANGED armed

TimerClock(config) ==
  /\ Disabled(config) \/ ConfigurationChanged(config) \/ Count(config)
  /\ previous' = config
=============================================================================

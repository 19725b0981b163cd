------------------------- MODULE GlobalRateLimiter -------------------------
(***************************************************************************)
(* globalRateLimiter: one time.Ticker for all workers and all hosts.  Its  *)
(* channel keeps one tick nobody has received; Stop discards it and lets   *)
(* no other come.  A rate of 0 or less gives the noRateLimiter, whose Wait *)
(* returns at once.                                                        *)
(***************************************************************************)
VARIABLES limiter,  \* the limiter the runner was given
          tick,     \* a tick waits in the channel
          stopped   \* the ticker was stopped

limiterVars == <<limiter, tick, stopped>>

LimiterTypeOK ==
  /\ limiter \in {"none", "global"}
  /\ tick \in BOOLEAN
  /\ stopped \in BOOLEAN

LimiterInit(given) ==
  /\ limiter = given
  /\ tick = FALSE
  /\ stopped = FALSE

TickerFires ==
  /\ limiter = "global" /\ ~stopped
  /\ ~tick
  /\ tick' = TRUE
  /\ UNCHANGED <<limiter, stopped>>

\* Wait returns nil.
Granted ==
  /\ limiter = "global" => tick
  /\ tick' = FALSE
  /\ UNCHANGED <<limiter, stopped>>

\* Wait may return the context's error, once the context is cancelled.
MayBeCancelled == limiter = "global"

CloseLimiter ==
  /\ stopped' = (limiter = "global")
  /\ tick' = FALSE
  /\ UNCHANGED limiter
=============================================================================

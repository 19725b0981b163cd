------------------------- MODULE DomainRateLimiter -------------------------
(***************************************************************************)
(* runner.domainRateLimiter.Wait: a sliding window of grants per host.     *)
(* The window's lock is held from the moment a call reads the clock until  *)
(* it returns, across its sleep too, and the timestamp it records is the   *)
(* one it read before the sleep.  The limiter's own mutex guards only the  *)
(* lookup of the host's window, a step that changes nothing seen here.     *)
(*                                                                         *)
(* Time is a discrete clock that advances between any two steps.           *)
(***************************************************************************)
EXTENDS Integers, Sequences, FiniteSets

CONSTANTS Callers,      \* the goroutines that call Wait, the workers
          Hosts,        \* the domains
          maxRequests,  \* grants the limiter allows ...
          window,       \* ... in so much time
          Preemption,   \* time may pass while a call computes, not only in sleep
          MaxTime       \* bound: the clock stops there

\* With maxRequests <= 0 newDomainRateLimiter returns a noRateLimiter instead.
ASSUME LimitAssumption == maxRequests \in Nat \ {0}
ASSUME WindowAssumption == window \in Nat \ {0}
ASSUME PreemptionAssumption == Preemption \in BOOLEAN
ASSUME HorizonAssumption == MaxTime \in Nat

VARIABLES clock,       \* the time
          ctxDone,     \* the callers' context is cancelled
          timestamps,  \* domainTracker.timestamps, for each host
          owner,       \* who holds domainTracker.mu: a set of at most one caller
          pc,          \* where each caller is
          host,        \* the domain of its call
          now,         \* the time its call read
          grants       \* history: when the calls for each host returned nil

rateVars == <<clock, ctxDone, timestamps, owner, pc, host, now, grants>>

Times == 0 .. MaxTime

RateInit ==
  /\ clock = 0
  /\ ctxDone = FALSE
  /\ timestamps = [h \in Hosts |-> <<>>]
  /\ owner = [h \in Hosts |-> {}]
  /\ pc = [c \in Callers |-> "idle"]
  /\ host \in [Callers -> Hosts]
  /\ now = [c \in Callers |-> 0]
  /\ grants = [h \in Hosts |-> <<>>]

Goto(c, label) == pc' = [pc EXCEPT ![c] = label]
-----------------------------------------------------------------------------
Tick ==
  /\ clock < MaxTime
  /\ Preemption \/ \A c \in Callers : pc[c] # "locked"
  /\ clock' = clock + 1
  /\ UNCHANGED <<ctxDone, timestamps, owner, pc, host, now, grants>>

Cancel ==
  /\ ~ctxDone
  /\ ctxDone' = TRUE
  /\ UNCHANGED <<clock, timestamps, owner, pc, host, now, grants>>

Call(c, h) ==
  /\ pc[c] = "idle"
  /\ host' = [host EXCEPT ![c] = h]
  /\ Goto(c, "lock")
  /\ UNCHANGED <<clock, ctxDone, timestamps, owner, now, grants>>

\* The loop that keeps the timestamps after the cutoff.  They are in order, so
\* that it drops the first k.
Expired(ts, k, cutoff) ==
  /\ \A i \in 1 .. k : ts[i] <= cutoff
  /\ \A i \in k + 1 .. Len(ts) : ts[i] > cutoff

\* The call gets the window's lock, reads the clock and drops what is too old.
Lock(c) ==
  LET h == host[c] IN
  /\ pc[c] = "lock"
  /\ owner[h] = {}
  /\ owner' = [owner EXCEPT ![h] = {c}]
  /\ now' = [now EXCEPT ![c] = clock]
  /\ \E k \in 0 .. Len(timestamps[h]) :
       /\ Expired(timestamps[h], k, clock - window)
       /\ timestamps' = [timestamps EXCEPT ![h] = SubSeq(@, k + 1, Len(@))]
  /\ Goto(c, "locked")
  /\ UNCHANGED <<clock, ctxDone, host, grants>>

\* Mutants of the test on the length, off by one either way.
Full_OneMore(ts) == Len(ts) > maxRequests
Full_OneLess(ts) == Len(ts) >= maxRequests - 1 /\ ts # <<>>

Full(ts) == Len(ts) >= maxRequests

\* The call returns nil: it records the time it read, on top of `kept`.
Return(c, kept) ==
  LET h == host[c] IN
  /\ timestamps' = [timestamps EXCEPT ![h] = Append(kept, now[c])]
  /\ grants' = [grants EXCEPT ![h] = Append(@, clock)]
  /\ owner' = [owner EXCEPT ![h] = {}]
  /\ Goto(c, "idle")
  /\ UNCHANGED <<clock, ctxDone, host, now>>

GrantFree(c) ==
  LET ts == timestamps[host[c]] IN
  /\ pc[c] = "locked"
  /\ ~Full(ts)
  /\ Return(c, ts)

\* The oldest timestamp has left the window since the filter ran.
GrantEvicting(c) ==
  LET ts == timestamps[host[c]] IN
  /\ pc[c] = "locked"
  /\ Full(ts)
  /\ ts[1] + window <= clock
  /\ Return(c, Tail(ts))

Sleep(c) ==
  LET ts == timestamps[host[c]] IN
  /\ pc[c] = "locked"
  /\ Full(ts)
  /\ ts[1] + window > clock
  /\ Goto(c, "sleep")
  /\ UNCHANGED <<clock, ctxDone, timestamps, owner, host, now, grants>>

\* A mutant of Wake: the oldest timestamp stays.
Wake_Kept(c) ==
  LET ts == timestamps[host[c]] IN
  /\ pc[c] = "sleep"
  /\ ts[1] + window <= clock
  /\ Return(c, ts)

\* time.After fires, on time or late.
Wake(c) ==
  LET ts == timestamps[host[c]] IN
  /\ pc[c] = "sleep"
  /\ ts[1] + window <= clock
  /\ Return(c, Tail(ts))

\* A mutant of Cancelled: the deferred unlock is forgotten.
Cancelled_Locked(c) ==
  /\ pc[c] = "sleep"
  /\ ctxDone
  /\ Goto(c, "gone")
  /\ UNCHANGED <<clock, ctxDone, timestamps, owner, host, now, grants>>

\* The context ends the sleep: the call returns its error, and the worker ends.
Cancelled(c) ==
  /\ pc[c] = "sleep"
  /\ ctxDone
  /\ owner' = [owner EXCEPT ![host[c]] = {}]
  /\ Goto(c, "gone")
  /\ UNCHANGED <<clock, ctxDone, timestamps, host, now, grants>>

\* The bound on the clock is not a deadlock of the limiter.
Horizon == clock = MaxTime /\ UNCHANGED rateVars

RateNext ==
  \/ Tick \/ Cancel \/ Horizon
  \/ \E c \in Callers :
       \/ \E h \in Hosts : Call(c, h)
       \/ Lock(c) \/ GrantFree(c) \/ GrantEvicting(c) \/ Sleep(c) \/ Wake(c) \/ Cancelled(c)

RateSpec == RateInit /\ [][RateNext]_rateVars

\* Time goes on, a call that can go on does, and a Go mutex starves nobody.
RateFairness ==
  /\ WF_rateVars(Tick)
  /\ \A c \in Callers :
       /\ SF_rateVars(Lock(c))
       /\ WF_rateVars(GrantFree(c) \/ GrantEvicting(c) \/ Sleep(c) \/ Wake(c) \/ Cancelled(c))

FairRateSpec == RateSpec /\ RateFairness
-----------------------------------------------------------------------------
\* Types; a window never holds more than maxRequests timestamps, and they are in
\* order; its lock has the owner the program counters say.
RateTypeOK ==
  /\ clock \in Times
  /\ ctxDone \in BOOLEAN
  /\ timestamps \in [Hosts -> Seq(Times)]
  /\ owner \in [Hosts -> SUBSET Callers]
  /\ pc \in [Callers -> {"idle", "lock", "locked", "sleep", "gone"}]
  /\ host \in [Callers -> Hosts]
  /\ now \in [Callers -> Times]
  /\ grants \in [Hosts -> Seq(Times)]
  /\ \A h \in Hosts : Len(timestamps[h]) <= maxRequests

\* The most the limiter really guarantees: any maxRequests + 2 successive grants
\* for a host span at least the window.
MaxPlusOnePerWindow ==
  \A h \in Hosts : \A i \in 1 .. Len(grants[h]) - maxRequests - 1 :
     grants[h][i + maxRequests + 1] >= grants[h][i] + window

\* What it is asked for: any maxRequests + 1 successive grants span the window.
MaxPerWindow ==
  \A h \in Hosts : \A i \in 1 .. Len(grants[h]) - maxRequests :
     grants[h][i + maxRequests] >= grants[h][i] + window

\* A call sleeps only if maxRequests grants were given for its host within a
\* window before it read the clock.
SleepIsJustified ==
  \A c \in Callers : pc[c] = "sleep" =>
     Cardinality({i \in 1 .. Len(grants[host[c]]) : grants[host[c]][i] > now[c] - window})
       >= maxRequests

\* Every call returns, although one that waits for the lock does not look at its
\* context and waits behind all the sleepers of its host: they wake or are
\* cancelled one after the other.  (A clock that stands still wakes nobody.)
CallReturns ==
  \A c \in Callers :
     pc[c] # "idle" ~> pc[c] \in {"idle", "gone"} \/ (clock = MaxTime /\ ~ctxDone)
-----------------------------------------------------------------------------
\* The inductive invariant behind MaxPlusOnePerWindow.
LockHeld ==
  \A c \in Callers, h \in Hosts :
     c \in owner[h] <=> host[c] = h /\ pc[c] \in {"locked", "sleep"}

OneOwner == \A h \in Hosts : \A c, d \in owner[h] : c = d

GrantsInOrder ==
  \A h \in Hosts :
    /\ \A i \in 1 .. Len(grants[h]) : grants[h][i] <= clock
    /\ \A i, j \in 1 .. Len(grants[h]) : i <= j => grants[h][i] <= grants[h][j]

\* A recorded timestamp was read after the previous grant, which released the
\* lock: the last timestamp belongs to the last grant, and so on back.
ReadAfterPreviousGrant ==
  \A h \in Hosts : \E n \in 0 .. Len(grants[h]) :
    /\ Len(grants[h]) = n + Len(timestamps[h])
    /\ \A i \in 1 .. Len(timestamps[h]) :
         n + i - 1 >= 1 => grants[h][n + i - 1] <= timestamps[h][i]

\* The grants before the one whose timestamp was last dropped are out of the
\* window.
DroppedAreOld ==
  \A h \in Hosts : \A n \in 2 .. Len(grants[h]) :
    Len(grants[h]) = n + Len(timestamps[h]) => grants[h][n - 1] + window <= clock

\* The call in the lock read the clock after every grant given so far.
ReadAfterGrants ==
  \A h \in Hosts : \A c \in owner[h] :
    /\ now[c] <= clock
    /\ \A i \in 1 .. Len(grants[h]) : grants[h][i] <= now[c]

SleeperIsFull ==
  \A c \in Callers : pc[c] = "sleep" => Len(timestamps[host[c]]) = maxRequests

RateInv ==
  /\ RateTypeOK /\ LockHeld /\ OneOwner /\ GrantsInOrder /\ ReadAfterPreviousGrant
  /\ DroppedAreOld /\ ReadAfterGrants /\ SleeperIsFull /\ MaxPlusOnePerWindow
=============================================================================

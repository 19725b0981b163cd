---------------------- MODULE DomainRateLimiterProofs ----------------------
(* The bound on the grants per window holds for every number of callers and *)
(* hosts, every limit and every window.                                     *)
EXTENDS DomainRateLimiter, SequenceTheorems, FiniteSetTheorems, TLAPS

\* The time a call reads and the clock are times; so is a recorded timestamp.
LEMMA InvTimes ==
  ASSUME RateInv
  PROVE  /\ MaxTime \in Nat /\ clock \in Nat
         /\ maxRequests \in Nat \ {0} /\ window \in Nat \ {0}
         /\ \A h \in Hosts :
              /\ Len(timestamps[h]) \in Nat /\ Len(grants[h]) \in Nat
              /\ \A i \in 1 .. Len(timestamps[h]) : timestamps[h][i] \in Nat
              /\ \A i \in 1 .. Len(grants[h]) : grants[h][i] \in Nat
<1>1. Times \subseteq Nat
  BY HorizonAssumption DEF Times
<1>2. ASSUME NEW s \in Seq(Times)
      PROVE  Len(s) \in Nat /\ \A i \in 1 .. Len(s) : s[i] \in Nat
  BY <1>1, LenProperties, ElementOfSeq
<1>3. clock \in Times /\ timestamps \in [Hosts -> Seq(Times)] /\ grants \in [Hosts -> Seq(Times)]
  BY DEF RateInv, RateTypeOK
<1>4. ASSUME NEW h \in Hosts
      PROVE  /\ Len(timestamps[h]) \in Nat /\ Len(grants[h]) \in Nat
             /\ \A i \in 1 .. Len(timestamps[h]) : timestamps[h][i] \in Nat
             /\ \A i \in 1 .. Len(grants[h]) : grants[h][i] \in Nat
  <2>1. timestamps[h] \in Seq(Times) /\ grants[h] \in Seq(Times)
    BY <1>3
  <2> QED
    BY <1>2, <2>1
<1>5. clock \in Nat
  BY <1>1, <1>3
<1> QED
  BY <1>4, <1>5, HorizonAssumption, LimitAssumption, WindowAssumption

LEMMA InitRateInv == RateInit => RateInv
<1> SUFFICES ASSUME RateInit
             PROVE  RateInv
  OBVIOUS
<1> USE DEF RateInit
<1>1. RateTypeOK
  <2>1. 0 \in Times
    BY HorizonAssumption DEF Times
  <2>2. <<>> \in Seq(Times) /\ Len(<<>>) <= maxRequests
    BY LimitAssumption
  <2> QED
    BY <2>1, <2>2 DEF RateTypeOK
<1>2. LockHeld /\ OneOwner /\ ReadAfterGrants /\ SleeperIsFull
  BY DEF LockHeld, OneOwner, ReadAfterGrants, SleeperIsFull
<1>3. GrantsInOrder /\ ReadAfterPreviousGrant /\ DroppedAreOld
  BY DEF GrantsInOrder, ReadAfterPreviousGrant, DroppedAreOld
<1>4. MaxPlusOnePerWindow
  BY LimitAssumption DEF MaxPlusOnePerWindow
<1> QED
  BY <1>1, <1>2, <1>3, <1>4 DEF RateInv

\* Nothing happens to a window but the passing of time.
LEMMA WaitingInv ==
  ASSUME RateInv, Tick \/ Cancel \/ (\E c \in Callers, h \in Hosts : Call(c, h))
  PROVE  RateInv'
<1> USE DEF RateInv
<1>1. UNCHANGED <<timestamps, owner, now, grants>> /\ clock' \in Times /\ clock' >= clock
  BY InvTimes DEF Tick, Cancel, Call, Times, RateTypeOK
<1>2. RateTypeOK'
  BY <1>1 DEF Tick, Cancel, Call, Goto, RateTypeOK
<1>3. LockHeld' /\ OneOwner'
  <2>1. CASE Tick \/ Cancel
    BY <1>1, <2>1 DEF Tick, Cancel, LockHeld, OneOwner
  <2>2. ASSUME NEW c \in Callers, NEW h \in Hosts, Call(c, h)
        PROVE  LockHeld' /\ OneOwner'
    <3>1. \A d \in Callers \ {c} : pc'[d] = pc[d] /\ host'[d] = host[d]
      BY <2>2 DEF Call, Goto, RateTypeOK
    <3>2. pc[c] = "idle" /\ pc'[c] = "lock"
      BY <2>2 DEF Call, Goto, RateTypeOK
    <3> QED
      BY <1>1, <3>1, <3>2 DEF LockHeld, OneOwner
  <2> QED
    BY <2>1, <2>2
<1>4. ReadAfterPreviousGrant' /\ MaxPlusOnePerWindow'
  BY <1>1 DEF ReadAfterPreviousGrant, MaxPlusOnePerWindow
<1>5. GrantsInOrder'
  <2>1. ASSUME NEW h \in Hosts, NEW i \in 1 .. Len(grants[h])
        PROVE  grants[h][i] <= clock'
    <3>1. grants[h][i] <= clock /\ grants[h][i] \in Nat
      BY InvTimes DEF GrantsInOrder
    <3> QED
      BY <1>1, <3>1, InvTimes DEF Times
  <2> QED
    BY <1>1, <2>1 DEF GrantsInOrder
<1>6. DroppedAreOld'
  <2> SUFFICES ASSUME NEW h \in Hosts, NEW n \in 2 .. Len(grants[h]),
                      Len(grants[h]) = n + Len(timestamps[h])
               PROVE  grants[h][n - 1] + window <= clock'
    BY <1>1 DEF DroppedAreOld
  <2>1. grants[h][n - 1] + window <= clock
    BY DEF DroppedAreOld
  <2>2. Len(grants[h]) \in Nat /\ \A i \in 1 .. Len(grants[h]) : grants[h][i] \in Nat
    BY InvTimes
  <2>3. grants[h][n - 1] \in Nat
    BY <2>2
  <2>4. clock \in Nat /\ clock' \in Nat /\ window \in Nat
    BY <1>1, InvTimes, HorizonAssumption DEF Times
  <2> QED
    BY <1>1, <2>1, <2>3, <2>4
<1>7. ReadAfterGrants'
  <2> SUFFICES ASSUME NEW h \in Hosts, NEW c \in owner[h]
               PROVE  now[c] <= clock'
    BY <1>1 DEF ReadAfterGrants
  <2>1. now[c] <= clock /\ now[c] \in Times
    BY DEF ReadAfterGrants, RateTypeOK
  <2> QED
    BY <1>1, <2>1, InvTimes DEF Times
<1>8. SleeperIsFull'
  BY <1>1 DEF Tick, Cancel, Call, Goto, RateTypeOK, SleeperIsFull
<1> QED
  BY <1>2, <1>3, <1>4, <1>5, <1>6, <1>7, <1>8

-----------------------------------------------------------------------------
\* The call gets the lock: the filter drops the first k timestamps, and with
\* them grants that are out of the window.
LEMMA LockInv ==
  ASSUME RateInv, NEW c \in Callers, Lock(c)
  PROVE  RateInv'
<1> USE DEF RateInv
<1>0. PICK h \in Hosts : h = host[c]
  BY DEF RateTypeOK
<1> DEFINE ts == timestamps[h]
<1>1. PICK k \in 0 .. Len(ts) :
        /\ Expired(ts, k, clock - window)
        /\ timestamps' = [timestamps EXCEPT ![h] = SubSeq(ts, k + 1, Len(ts))]
  BY <1>0 DEF Lock
<1>2. /\ pc[c] = "lock" /\ owner[h] = {}
      /\ owner' = [owner EXCEPT ![h] = {c}]
      /\ now' = [now EXCEPT ![c] = clock]
      /\ pc' = [pc EXCEPT ![c] = "locked"]
      /\ UNCHANGED <<clock, ctxDone, host, grants>>
  BY <1>0 DEF Lock, Goto
<1>3. /\ ts \in Seq(Times) /\ Len(ts) \in Nat /\ Len(grants[h]) \in Nat
      /\ Len(ts) <= maxRequests
      /\ clock \in Nat /\ window \in Nat /\ maxRequests \in Nat
      /\ \A i \in 1 .. Len(ts) : ts[i] \in Nat
      /\ \A i \in 1 .. Len(grants[h]) : grants[h][i] \in Nat
  BY InvTimes DEF RateTypeOK
<1>4. /\ SubSeq(ts, k + 1, Len(ts)) \in Seq(Times)
      /\ Len(SubSeq(ts, k + 1, Len(ts))) = Len(ts) - k
      /\ \A i \in 1 .. Len(ts) - k : SubSeq(ts, k + 1, Len(ts))[i] = ts[i + k]
  BY <1>3
<1>5. /\ timestamps'[h] \in Seq(Times)
      /\ Len(timestamps'[h]) = Len(ts) - k
      /\ \A i \in 1 .. Len(ts) - k : timestamps'[h][i] = ts[i + k]
      /\ \A g \in Hosts \ {h} : timestamps'[g] = timestamps[g]
  BY <1>1, <1>4 DEF RateTypeOK
<1>6. RateTypeOK'
  <2>1. Len(timestamps'[h]) <= maxRequests
    BY <1>3, <1>5, InvTimes
  <2> QED
    BY <1>1, <1>2, <1>4, <1>5, <2>1 DEF RateTypeOK
<1>7. LockHeld' /\ OneOwner'
  BY <1>0, <1>2 DEF RateTypeOK, LockHeld, OneOwner
<1>8. GrantsInOrder' /\ MaxPlusOnePerWindow'
  BY <1>2 DEF GrantsInOrder, MaxPlusOnePerWindow
<1>9. PICK m \in Nat : m = Len(ts)
  BY <1>3
<1>10. PICK n \in Nat :
        /\ m = Len(ts) /\ Len(grants[h]) = n + m
        /\ \A i \in 1 .. m : n + i - 1 >= 1 => grants[h][n + i - 1] <= ts[i]
  <2>1. PICK n \in 0 .. Len(grants[h]) :
          /\ Len(grants[h]) = n + Len(ts)
          /\ \A i \in 1 .. Len(ts) : n + i - 1 >= 1 => grants[h][n + i - 1] <= ts[i]
    BY DEF ReadAfterPreviousGrant
  <2>2. n \in Nat
    BY <1>3
  <2> QED
    BY <1>9, <2>1, <2>2
<1>11. k \in 0 .. m /\ n + k \in 0 .. Len(grants[h])
  BY <1>10
<1>12. Len(grants'[h]) = (n + k) + Len(timestamps'[h]) /\ Len(timestamps'[h]) = m - k
  <2>1. \A x, y \in Nat : \A z \in 0 .. y : x + y = (x + z) + (y - z)
    OBVIOUS
  <2>2. n + m = (n + k) + (m - k)
    BY <1>10, <1>11, <2>1
  <2>3. Len(timestamps'[h]) = m - k
    BY <1>5, <1>10
  <2> QED
    BY <1>2, <1>10, <2>2, <2>3
<1>13. ReadAfterPreviousGrant'
  <2>1. ASSUME NEW i \in 1 .. m - k, n + k + i - 1 >= 1
        PROVE  grants[h][n + k + i - 1] <= timestamps'[h][i]
    <3>1. i + k \in 1 .. m /\ n + (i + k) - 1 = n + k + i - 1
      BY <1>10, <1>11
    <3> QED
      BY <1>5, <1>10, <2>1, <3>1
  <2>2. ASSUME NEW g \in Hosts \ {h}
        PROVE  timestamps'[g] = timestamps[g] /\ grants'[g] = grants[g]
    BY <1>2, <1>5
  <2>3. grants'[h] = grants[h]
    BY <1>2
  <2> QED
    BY <1>11, <1>12, <2>1, <2>2, <2>3 DEF ReadAfterPreviousGrant
<1>14. DroppedAreOld'
  <2>1. ASSUME n + k >= 2
        PROVE  grants[h][n + k - 1] + window <= clock
    <3>1. CASE k = 0
      <4>1. n \in 2 .. Len(grants[h]) /\ n + k = n
        BY <1>10, <1>11, <2>1, <3>1
      <4> QED
        BY <1>10, <4>1 DEF DroppedAreOld
    <3>2. CASE k # 0
      <4>1. k \in 1 .. m /\ n + k - 1 >= 1 /\ n + k - 1 \in 1 .. n + m
        BY <1>10, <1>11, <2>1, <3>2
      <4>2. grants[h][n + k - 1] <= ts[k] /\ grants[h][n + k - 1] \in Nat /\ ts[k] \in Nat
        BY <1>3, <1>10, <4>1
      <4>3. ts[k] <= clock - window
        BY <1>1, <1>10, <4>1 DEF Expired
      <4>4. \A x, y, t, v \in Nat : x <= y /\ y <= t - v => x + v <= t
        OBVIOUS
      <4> QED
        BY <1>3, <4>2, <4>3, <4>4
    <3> QED
      BY <3>1, <3>2
  <2> SUFFICES ASSUME NEW g \in Hosts, NEW l \in 2 .. Len(grants[g]),
                      Len(grants[g]) = l + Len(timestamps'[g])
               PROVE  grants[g][l - 1] + window <= clock
    BY <1>2 DEF DroppedAreOld
  <2>2. CASE g = h
    <3>1. l = n + k
      BY <1>2, <1>10, <1>11, <1>12, <2>2
    <3> QED
      BY <2>1, <2>2, <3>1
  <2>3. CASE g # h
    BY <1>5, <2>3 DEF DroppedAreOld
  <2> QED
    BY <2>2, <2>3
<1>15. ReadAfterGrants'
  <2>1. \A g \in Hosts \ {h} : c \notin owner[g]
    BY <1>0, <1>2 DEF LockHeld
  <2> QED
    BY <1>2, <2>1, InvTimes DEF ReadAfterGrants, GrantsInOrder, RateTypeOK
<1>16. SleeperIsFull'
  <2>1. \A d \in Callers : pc[d] = "sleep" => host[d] # h /\ host[d] \in Hosts
    BY <1>2 DEF LockHeld, RateTypeOK
  <2> QED
    BY <1>2, <1>5, <2>1 DEF SleeperIsFull, RateTypeOK
<1> QED
  BY <1>6, <1>7, <1>8, <1>13, <1>14, <1>15, <1>16

-----------------------------------------------------------------------------
\* A call returns nil, having dropped no timestamp or the oldest one, which only
\* leaves a full window.
LEMMA ReturnInv ==
  ASSUME RateInv, NEW c \in Callers, NEW h \in Hosts, h = host[c],
         pc[c] \in {"locked", "sleep"},
         NEW kept \in Seq(Times), NEW k \in {0, 1},
         Len(kept) = Len(timestamps[h]) - k, Len(kept) < maxRequests,
         \A i \in 1 .. Len(kept) : kept[i] = timestamps[h][i + k],
         k = 1 => /\ Len(timestamps[h]) = maxRequests
                  /\ timestamps[h][1] + window <= clock,
         Return(c, kept)
  PROVE  RateInv'
<1> USE DEF RateInv
<1> DEFINE ts == timestamps[h]
           gs == grants[h]
<1>1. /\ timestamps' = [timestamps EXCEPT ![h] = Append(kept, now[c])]
      /\ grants' = [grants EXCEPT ![h] = Append(gs, clock)]
      /\ owner' = [owner EXCEPT ![h] = {}]
      /\ pc' = [pc EXCEPT ![c] = "idle"]
      /\ UNCHANGED <<clock, ctxDone, host, now>>
  BY DEF Return, Goto
<1>2. /\ clock \in Nat /\ window \in Nat /\ maxRequests \in Nat \ {0}
      /\ clock \in Times /\ now[c] \in Times /\ now[c] \in Nat
      /\ gs \in Seq(Times) /\ ts \in Seq(Times)
      /\ \A i \in 1 .. Len(gs) : gs[i] \in Nat
      /\ \A i \in 1 .. Len(ts) : ts[i] \in Nat
  BY InvTimes DEF RateTypeOK, Times
<1>3. PICK n \in Nat, m \in Nat :
        /\ Len(ts) = m /\ Len(gs) = n + m
        /\ \A i \in 1 .. m : n + i - 1 >= 1 => gs[n + i - 1] <= ts[i]
  <2>1. PICK n \in 0 .. Len(gs) :
          /\ Len(gs) = n + Len(ts)
          /\ \A i \in 1 .. Len(ts) : n + i - 1 >= 1 => gs[n + i - 1] <= ts[i]
    BY DEF ReadAfterPreviousGrant
  <2>2. n \in Nat /\ Len(ts) \in Nat
    BY <1>2
  <2> QED
    BY <2>1, <2>2
<1>4. m - k \in Nat /\ Len(kept) = m - k /\ m <= maxRequests
      /\ (k = 0 => m < maxRequests) /\ (k = 1 => m = maxRequests /\ m >= 1)
  <2>1. m <= maxRequests
    BY <1>3 DEF RateTypeOK
  <2> QED
    BY <1>2, <1>3, <2>1
<1>5. c \in owner[h] /\ \A d \in owner[h] : d = c
  BY DEF LockHeld, OneOwner
<1>6. /\ timestamps'[h] \in Seq(Times)
      /\ Len(timestamps'[h]) = m - k + 1
      /\ \A i \in 1 .. m - k : timestamps'[h][i] = ts[i + k]
      /\ timestamps'[h][m - k + 1] = now[c]
      /\ \A g \in Hosts \ {h} : timestamps'[g] = timestamps[g]
  <2>1. timestamps'[h] = Append(kept, now[c]) /\ \A g \in Hosts \ {h} : timestamps'[g] = timestamps[g]
    BY <1>1 DEF RateTypeOK
  <2> QED
    BY <1>2, <1>4, <2>1
<1>7. /\ grants'[h] \in Seq(Times)
      /\ Len(grants'[h]) = n + m + 1
      /\ \A i \in 1 .. n + m : grants'[h][i] = gs[i]
      /\ grants'[h][n + m + 1] = clock
      /\ \A g \in Hosts \ {h} : grants'[g] = grants[g]
  <2>1. grants'[h] = Append(gs, clock) /\ \A g \in Hosts \ {h} : grants'[g] = grants[g]
    BY <1>1 DEF RateTypeOK
  <2>2. /\ Append(gs, clock) \in Seq(Times) /\ Len(Append(gs, clock)) = Len(gs) + 1
        /\ \A i \in 1 .. Len(gs) : Append(gs, clock)[i] = gs[i]
        /\ Append(gs, clock)[Len(gs) + 1] = clock
    BY <1>2, AppendProperties
  <2> QED
    BY <1>3, <2>1, <2>2
<1>8. RateTypeOK'
  <2>1. Len(timestamps'[h]) <= maxRequests
    BY <1>2, <1>4, <1>6
  <2>2. timestamps' \in [Hosts -> Seq(Times)] /\ grants' \in [Hosts -> Seq(Times)]
    BY <1>1, <1>6, <1>7 DEF RateTypeOK
  <2> QED
    BY <1>1, <1>6, <2>1, <2>2 DEF RateTypeOK
<1>9. LockHeld' /\ OneOwner'
  BY <1>1, <1>5 DEF RateTypeOK, LockHeld, OneOwner
<1>10. /\ \A i \in 1 .. n + m : gs[i] <= clock /\ gs[i] <= now[c]
       /\ \A i, j \in 1 .. n + m : i <= j => gs[i] <= gs[j]
  BY <1>3, <1>5 DEF GrantsInOrder, ReadAfterGrants
<1>11. GrantsInOrder'
  <2>1. ASSUME NEW i \in 1 .. n + m + 1
        PROVE  grants'[h][i] <= clock
    <3>1. CASE i = n + m + 1
      <4>1. clock <= clock
        BY <1>2
      <4> QED
        BY <1>7, <3>1, <4>1
    <3>2. CASE i # n + m + 1
      <4>1. i \in 1 .. n + m
        BY <1>3, <3>2
      <4> QED
        BY <1>7, <1>10, <4>1
    <3> QED
      BY <3>1, <3>2
  <2>2. ASSUME NEW i \in 1 .. n + m + 1, NEW j \in 1 .. n + m + 1, i <= j
        PROVE  grants'[h][i] <= grants'[h][j]
    <3>1. CASE j = n + m + 1
      BY <1>7, <2>1, <3>1
    <3>2. CASE j # n + m + 1
      <4>1. i \in 1 .. n + m /\ j \in 1 .. n + m
        BY <2>2, <3>2
      <4> QED
        BY <1>7, <1>10, <2>2, <4>1
    <3> QED
      BY <3>1, <3>2
  <2>3. clock' = clock
    BY <1>1
  <2> QED
    BY <1>7, <2>1, <2>2, <2>3 DEF GrantsInOrder
<1>12. n + k \in 0 .. n + m + 1 /\ n + m + 1 = (n + k) + (m - k + 1)
  BY <1>4
<1>13. ReadAfterPreviousGrant'
  <2>1. ASSUME NEW i \in 1 .. m - k + 1, n + k + i - 1 >= 1
        PROVE  grants'[h][n + k + i - 1] <= timestamps'[h][i]
    <3>1. CASE i = m - k + 1
      <4>1. n + k + i - 1 = n + m /\ n + m \in 1 .. n + m
        BY <1>4, <2>1, <3>1
      <4> QED
        BY <1>6, <1>7, <1>10, <3>1, <4>1
    <3>2. CASE i # m - k + 1
      <4>1. /\ i \in 1 .. m - k /\ i + k \in 1 .. m
            /\ n + k + i - 1 \in 1 .. n + m /\ n + (i + k) - 1 = n + k + i - 1
        BY <1>4, <2>1, <3>2
      <4> QED
        BY <1>3, <1>6, <1>7, <4>1
    <3> QED
      BY <3>1, <3>2
  <2>2. ASSUME NEW g \in Hosts \ {h}
        PROVE  timestamps'[g] = timestamps[g] /\ grants'[g] = grants[g]
    BY <1>6, <1>7
  <2>3. /\ n + k \in 0 .. Len(grants'[h])
        /\ Len(grants'[h]) = (n + k) + Len(timestamps'[h])
        /\ \A i \in 1 .. Len(timestamps'[h]) :
             n + k + i - 1 >= 1 => grants'[h][n + k + i - 1] <= timestamps'[h][i]
    BY <1>6, <1>7, <1>12, <2>1
  <2> QED
    BY <2>2, <2>3 DEF ReadAfterPreviousGrant
<1>14. ASSUME n + k >= 2 PROVE gs[n + k - 1] + window <= clock
  <2>1. CASE k = 0
    <3>1. n \in 2 .. n + m /\ n + k - 1 = n - 1
      BY <1>3, <1>14, <2>1
    <3> QED
      BY <1>3, <2>1, <3>1 DEF DroppedAreOld
  <2>2. CASE k = 1
    <3>1. n >= 1 /\ n \in 1 .. n + m /\ 1 \in 1 .. m
      BY <1>4, <1>14, <2>2
    <3>2. gs[n] \in Nat /\ ts[1] \in Nat
      BY <1>2, <1>3, <3>1
    <3>3. gs[n + 1 - 1] <= ts[1]
      BY <1>3, <3>1
    <3>4. n + 1 - 1 = n /\ n + k - 1 = n
      BY <1>3, <2>2
    <3>5. ts[1] + window <= clock
      BY <2>2
    <3>6. gs[n] <= ts[1]
      BY <3>3, <3>4, Zenon
    <3>7. gs[n] + window <= clock
      <4>1. clock \in Nat /\ window \in Nat
        BY <1>2
      <4> HIDE DEF gs, ts, RateInv
      <4> QED
        BY <3>2, <3>5, <3>6, <4>1
    <3> QED
      BY <3>4, <3>7, Zenon
  <2> QED
    BY <2>1, <2>2
<1>15. DroppedAreOld'
  <2> SUFFICES ASSUME NEW g \in Hosts, NEW l \in 2 .. Len(grants'[g]),
                      Len(grants'[g]) = l + Len(timestamps'[g])
               PROVE  grants'[g][l - 1] + window <= clock
    BY <1>1 DEF DroppedAreOld
  <2>1. CASE g = h
    <3>1. l \in Nat /\ l >= 2 /\ n + m + 1 = l + (m - k + 1)
      BY <1>3, <1>6, <1>7, <2>1
    <3>2. l = n + k /\ l - 1 \in 1 .. n + m /\ l - 1 = n + k - 1
      BY <1>3, <1>4, <3>1
    <3>3. gs[n + k - 1] + window <= clock
      BY <1>14, <3>1, <3>2
    <3> QED
      BY <1>7, <2>1, <3>2, <3>3
  <2>2. CASE g # h
    BY <1>6, <1>7, <2>2 DEF DroppedAreOld
  <2> QED
    BY <2>1, <2>2
<1>16. ReadAfterGrants'
  BY <1>1, <1>7 DEF ReadAfterGrants, RateTypeOK
<1>17. SleeperIsFull'
  <2>1. \A d \in Callers : pc'[d] = "sleep" => pc[d] = "sleep" /\ d # c /\ host[d] \in Hosts \ {h}
    BY <1>1, <1>5 DEF LockHeld, RateTypeOK
  <2> QED
    BY <1>1, <1>6, <2>1 DEF SleeperIsFull
<1>18. MaxPlusOnePerWindow'
  <2>1. ASSUME NEW i \in Nat, i >= 1, i + maxRequests + 1 = n + m + 1
        PROVE  gs[i] + window <= clock
    <3>1. i <= n + k - 1 /\ i \in 1 .. n + m /\ n + k - 1 \in 1 .. n + m /\ n + k >= 2
      BY <1>2, <1>4, <2>1
    <3>2. gs[i] <= gs[n + k - 1] /\ gs[n + k - 1] + window <= clock
      BY <1>10, <1>14, <3>1
    <3>3. PICK x \in Nat, y \in Nat : x = gs[i] /\ y = gs[n + k - 1]
      BY <1>2, <1>3, <3>1
    <3>4. x <= y /\ y + window <= clock
      BY <3>2, <3>3
    <3>5. window \in Nat /\ clock \in Nat
      BY <1>2
    <3>6. x + window <= clock
      BY <3>4, <3>5
    <3> QED
      BY <3>3, <3>6
  <2>2. ASSUME NEW i \in 1 .. n + m + 1 - maxRequests - 1
        PROVE  grants'[h][i + maxRequests + 1] >= grants'[h][i] + window
    <3>1. i \in Nat /\ i >= 1 /\ i \in 1 .. n + m /\ i + maxRequests + 1 \in 1 .. n + m + 1
      BY <1>2, <2>2
    <3>2. CASE i + maxRequests + 1 = n + m + 1
      BY <1>2, <1>3, <1>7, <2>1, <3>1, <3>2
    <3>3. CASE i + maxRequests + 1 # n + m + 1
      <4>1. i \in 1 .. (n + m) - maxRequests - 1 /\ i + maxRequests + 1 \in 1 .. n + m
        BY <1>2, <1>3, <3>1, <3>3
      <4>2. gs[i + maxRequests + 1] >= gs[i] + window
        BY <1>3, <4>1 DEF MaxPlusOnePerWindow
      <4> QED
        BY <1>7, <3>1, <4>1, <4>2
    <3> QED
      BY <3>2, <3>3
  <2>3. ASSUME NEW i \in 1 .. Len(grants'[h]) - maxRequests - 1
        PROVE  grants'[h][i + maxRequests + 1] >= grants'[h][i] + window
    <3>1. Len(grants'[h]) = n + m + 1
      BY <1>3, <1>7
    <3>2. i \in 1 .. n + m + 1 - maxRequests - 1
      BY <1>2, <3>1, <2>3
    <3> QED
      BY <2>2, <3>2
  <2>4. ASSUME NEW g \in Hosts \ {h}, NEW i \in 1 .. Len(grants'[g]) - maxRequests - 1
        PROVE  grants'[g][i + maxRequests + 1] >= grants'[g][i] + window
    BY <1>7 DEF MaxPlusOnePerWindow
  <2> QED
    BY <2>3, <2>4 DEF MaxPlusOnePerWindow
<1> QED
  BY <1>8, <1>9, <1>11, <1>13, <1>15, <1>16, <1>17, <1>18

\* The three ways to return nil.
LEMMA GrantInv ==
  ASSUME RateInv, NEW c \in Callers, GrantFree(c) \/ GrantEvicting(c) \/ Wake(c)
  PROVE  RateInv'
<1>1. PICK h \in Hosts : h = host[c]
  BY DEF RateInv, RateTypeOK
<1> DEFINE ts == timestamps[h]
<1>2. /\ ts \in Seq(Times) /\ Len(ts) \in Nat /\ maxRequests \in Nat \ {0}
      /\ Len(ts) <= maxRequests
  BY InvTimes DEF RateInv, RateTypeOK
<1>3. CASE GrantFree(c)
  <2>1. pc[c] = "locked" /\ Len(ts) < maxRequests /\ Return(c, ts)
    BY <1>1, <1>2, <1>3 DEF GrantFree, Full
  <2>2. Len(ts) = Len(ts) - 0 /\ \A i \in 1 .. Len(ts) : ts[i] = ts[i + 0]
    BY <1>2
  <2> QED
    BY <1>1, <1>2, <2>1, <2>2, ReturnInv
<1>4. CASE GrantEvicting(c) \/ Wake(c)
  <2>1. /\ pc[c] \in {"locked", "sleep"} /\ Len(ts) = maxRequests
        /\ ts[1] + window <= clock /\ Return(c, Tail(ts))
    BY <1>1, <1>2, <1>4 DEF GrantEvicting, Wake, Full, RateInv, SleeperIsFull
  <2>2. ts # <<>>
    BY <1>2, <2>1
  <2>3. /\ Tail(ts) \in Seq(Times) /\ Len(Tail(ts)) = Len(ts) - 1
        /\ \A i \in 1 .. Len(Tail(ts)) : Tail(ts)[i] = ts[i + 1]
    BY <1>2, <2>2, HeadTailProperties
  <2>4. Len(Tail(ts)) < maxRequests
    BY <1>2, <2>1, <2>3
  <2> QED
    BY <1>1, <2>1, <2>3, <2>4, ReturnInv
<1> QED
  BY <1>3, <1>4

\* A call goes to sleep with the lock, or gives the lock back with its error.
LEMMA SleeperInv ==
  ASSUME RateInv, NEW c \in Callers, Sleep(c) \/ Cancelled(c)
  PROVE  RateInv'
<1> USE DEF RateInv
<1>1. /\ UNCHANGED <<clock, ctxDone, timestamps, host, now, grants>>
      /\ pc[c] \in {"locked", "sleep"}
  BY DEF Sleep, Cancelled
<1>2. GrantsInOrder' /\ ReadAfterPreviousGrant' /\ DroppedAreOld' /\ MaxPlusOnePerWindow'
  BY <1>1 DEF GrantsInOrder, ReadAfterPreviousGrant, DroppedAreOld, MaxPlusOnePerWindow
<1>3. CASE Sleep(c)
  <2>1. pc' = [pc EXCEPT ![c] = "sleep"] /\ owner' = owner /\ pc[c] = "locked"
    BY <1>3 DEF Sleep, Goto
  <2>2. Len(timestamps[host[c]]) = maxRequests
    BY <1>3, InvTimes DEF Sleep, Full, RateTypeOK
  <2>3. RateTypeOK' /\ OneOwner' /\ ReadAfterGrants'
    BY <1>1, <2>1 DEF RateTypeOK, OneOwner, ReadAfterGrants
  <2>4. LockHeld'
    BY <1>1, <2>1 DEF LockHeld, RateTypeOK
  <2>5. SleeperIsFull'
    BY <1>1, <2>1, <2>2 DEF SleeperIsFull, RateTypeOK
  <2> QED
    BY <1>2, <2>3, <2>4, <2>5
<1>4. CASE Cancelled(c)
  <2>1. pc' = [pc EXCEPT ![c] = "gone"] /\ owner' = [owner EXCEPT ![host[c]] = {}]
    BY <1>4 DEF Cancelled, Goto
  <2>2. RateTypeOK' /\ OneOwner' /\ ReadAfterGrants' /\ SleeperIsFull'
    BY <1>1, <2>1 DEF RateTypeOK, OneOwner, ReadAfterGrants, SleeperIsFull
  <2>3. host[c] \in Hosts /\ \A d \in owner[host[c]] : d = c
    BY <1>1 DEF LockHeld, OneOwner, RateTypeOK
  <2>4. LockHeld'
    BY <1>1, <2>1, <2>3 DEF LockHeld, RateTypeOK
  <2> QED
    BY <1>2, <2>2, <2>4
<1> QED
  BY <1>3, <1>4

LEMMA NextRateInv == RateInv /\ [RateNext]_rateVars => RateInv'
<1> SUFFICES ASSUME RateInv, [RateNext]_rateVars
             PROVE  RateInv'
  OBVIOUS
<1>1. CASE Horizon \/ UNCHANGED rateVars
  <2>1. UNCHANGED rateVars
    BY <1>1 DEF Horizon
  <2> QED
    BY <2>1 DEF rateVars, RateInv, RateTypeOK, LockHeld, OneOwner, GrantsInOrder,
       ReadAfterPreviousGrant, DroppedAreOld, ReadAfterGrants, SleeperIsFull, MaxPlusOnePerWindow
<1>2. CASE Tick \/ Cancel \/ (\E c \in Callers, h \in Hosts : Call(c, h))
  BY <1>2, WaitingInv
<1>3. ASSUME NEW c \in Callers, Lock(c)
      PROVE  RateInv'
  BY <1>3, LockInv
<1>4. ASSUME NEW c \in Callers, GrantFree(c) \/ GrantEvicting(c) \/ Wake(c)
      PROVE  RateInv'
  BY <1>4, GrantInv
<1>5. ASSUME NEW c \in Callers, Sleep(c) \/ Cancelled(c)
      PROVE  RateInv'
  BY <1>5, SleeperInv
<1> QED
  BY <1>1, <1>2, <1>3, <1>4, <1>5 DEF RateNext

\* The inductive invariant of the limiter.
THEOREM RateInvariance == RateSpec => []RateInv
<1>1. RateInit => RateInv
  BY InitRateInv
<1>2. RateInv /\ [RateNext]_rateVars => RateInv'
  BY NextRateInv
<1> QED
  BY <1>1, <1>2, PTL DEF RateSpec

\* Between a grant and the (maxRequests + 1)st after it the window passes, however
\* long the scheduler keeps a call from running after it has read the clock.
THEOREM BoundsGrants == RateSpec => []MaxPlusOnePerWindow
<1>1. RateInv => MaxPlusOnePerWindow
  BY DEF RateInv
<1> QED
  BY <1>1, RateInvariance, PTL

-----------------------------------------------------------------------------
(* A call that sleeps has reason to: its full window is one of grants.      *)

\* A recorded timestamp is no later than its grant.
RecordedBeforeGrant ==
  \A h \in Hosts : \A n \in Nat : Len(grants[h]) = n + Len(timestamps[h]) =>
    \A i \in 1 .. Len(timestamps[h]) : timestamps[h][i] <= grants[h][n + i]

\* What a call finds in the window, once it has filtered it, is not expired.
HolderSeesWindow ==
  \A c \in Callers : pc[c] \in {"locked", "sleep"} =>
    \A i \in 1 .. Len(timestamps[host[c]]) : timestamps[host[c]][i] > now[c] - window

SleepInv == RecordedBeforeGrant /\ HolderSeesWindow

\* There are at least as many grants for a host as timestamps in its window.
LEMMA GrantsCoverWindow ==
  ASSUME RateInv, NEW h \in Hosts
  PROVE  \E n, m \in Nat : Len(timestamps[h]) = m /\ Len(grants[h]) = n + m
<1>1. PICK n \in 0 .. Len(grants[h]) : Len(grants[h]) = n + Len(timestamps[h])
  BY DEF RateInv, ReadAfterPreviousGrant
<1>2. n \in Nat /\ Len(timestamps[h]) \in Nat
  BY InvTimes
<1> QED
  BY <1>1, <1>2

LEMMA LockSleepInv ==
  ASSUME RateInv, SleepInv, NEW c \in Callers, Lock(c)
  PROVE  SleepInv'
<1>0. PICK h \in Hosts : h = host[c]
  BY DEF RateInv, RateTypeOK
<1> DEFINE ts == timestamps[h]
<1>1. PICK k \in 0 .. Len(ts) :
        /\ Expired(ts, k, clock - window)
        /\ timestamps' = [timestamps EXCEPT ![h] = SubSeq(ts, k + 1, Len(ts))]
  BY <1>0 DEF Lock
<1>2. /\ owner[h] = {}
      /\ now' = [now EXCEPT ![c] = clock]
      /\ pc' = [pc EXCEPT ![c] = "locked"]
      /\ UNCHANGED <<clock, host, grants>>
  BY <1>0 DEF Lock, Goto
<1>3. /\ ts \in Seq(Times) /\ Len(ts) \in Nat /\ Len(grants[h]) \in Nat /\ k \in Nat
      /\ clock \in Nat /\ window \in Nat
  BY <1>1, InvTimes DEF RateInv, RateTypeOK
<1>4. /\ Len(timestamps'[h]) = Len(ts) - k
      /\ \A i \in 1 .. Len(ts) - k : timestamps'[h][i] = ts[i + k] /\ i + k \in 1 .. Len(ts)
      /\ \A g \in Hosts \ {h} : timestamps'[g] = timestamps[g]
  <2>1. /\ Len(SubSeq(ts, k + 1, Len(ts))) = Len(ts) - k
        /\ \A i \in 1 .. Len(ts) - k : SubSeq(ts, k + 1, Len(ts))[i] = ts[i + k] /\ i + k \in 1 .. Len(ts)
    BY <1>3
  <2> QED
    BY <1>1, <2>1 DEF RateInv, RateTypeOK
<1>5. PICK n \in Nat : Len(grants[h]) = n + Len(ts)
  BY GrantsCoverWindow
<1>6. RecordedBeforeGrant'
  <2>1. ASSUME NEW j \in Nat, Len(grants'[h]) = j + Len(timestamps'[h]),
               NEW i \in 1 .. Len(timestamps'[h])
        PROVE  timestamps'[h][i] <= grants'[h][j + i]
    <3>1. j = n + k
      BY <1>2, <1>3, <1>4, <1>5, <2>1
    <3>2. timestamps'[h][i] = ts[i + k] /\ i + k \in 1 .. Len(ts)
      BY <1>4, <2>1
    <3>3. ts[i + k] <= grants[h][n + (i + k)]
      BY <1>5, <3>2 DEF SleepInv, RecordedBeforeGrant
    <3>4. n + (i + k) = j + i
      BY <1>3, <1>4, <3>1
    <3> QED
      BY <1>2, <3>2, <3>3, <3>4
  <2>2. ASSUME NEW g \in Hosts \ {h}, NEW j \in Nat,
               Len(grants'[g]) = j + Len(timestamps'[g]), NEW i \in 1 .. Len(timestamps'[g])
        PROVE  timestamps'[g][i] <= grants'[g][j + i]
    BY <1>2, <1>4, <2>2 DEF SleepInv, RecordedBeforeGrant
  <2> QED
    BY <2>1, <2>2 DEF RecordedBeforeGrant
<1>7. HolderSeesWindow'
  <2>1. ASSUME NEW i \in 1 .. Len(timestamps'[h])
        PROVE  timestamps'[h][i] > now'[c] - window
    <3>1. \A j \in k + 1 .. Len(ts) : ts[j] > clock - window
      BY <1>1 DEF Expired
    <3>2. i + k \in k + 1 .. Len(ts)
      BY <1>3, <1>4
    <3>3. now'[c] = clock
      BY <1>2 DEF RateInv, RateTypeOK
    <3> QED
      BY <1>4, <3>1, <3>2, <3>3
  <2>2. ASSUME NEW d \in Callers \ {c}, pc'[d] \in {"locked", "sleep"}
        PROVE  \A i \in 1 .. Len(timestamps'[host'[d]]) : timestamps'[host'[d]][i] > now'[d] - window
    <3>1. pc[d] \in {"locked", "sleep"} /\ host'[d] = host[d] /\ now'[d] = now[d]
      BY <1>2, <2>2 DEF RateInv, RateTypeOK
    <3>2. host[d] \in Hosts /\ host[d] # h
      BY <1>2, <3>1 DEF RateInv, RateTypeOK, LockHeld
    <3>3. timestamps'[host[d]] = timestamps[host[d]]
      BY <1>4, <3>2
    <3> QED
      BY <3>1, <3>3 DEF SleepInv, HolderSeesWindow
  <2> QED
    BY <1>0, <1>2, <2>1, <2>2 DEF HolderSeesWindow
<1> QED
  BY <1>6, <1>7 DEF SleepInv

LEMMA ReturnSleepInv ==
  ASSUME RateInv, SleepInv, NEW c \in Callers, NEW h \in Hosts, h = host[c],
         pc[c] \in {"locked", "sleep"},
         NEW kept \in Seq(Times), NEW k \in {0, 1},
         Len(kept) = Len(timestamps[h]) - k,
         \A i \in 1 .. Len(kept) : kept[i] = timestamps[h][i + k],
         Return(c, kept)
  PROVE  SleepInv'
<1> DEFINE ts == timestamps[h]
           gs == grants[h]
<1>1. /\ timestamps' = [timestamps EXCEPT ![h] = Append(kept, now[c])]
      /\ grants' = [grants EXCEPT ![h] = Append(gs, clock)]
      /\ pc' = [pc EXCEPT ![c] = "idle"]
      /\ UNCHANGED <<clock, host, now>>
  BY DEF Return, Goto
<1>2. /\ clock \in Times /\ now[c] \in Times
      /\ gs \in Seq(Times) /\ Len(gs) \in Nat /\ Len(ts) \in Nat /\ Len(kept) \in Nat
  BY InvTimes DEF RateInv, RateTypeOK
<1>3. /\ Len(timestamps'[h]) = Len(kept) + 1
      /\ \A i \in 1 .. Len(kept) : timestamps'[h][i] = ts[i + k]
      /\ timestamps'[h][Len(kept) + 1] = now[c]
      /\ \A g \in Hosts \ {h} : timestamps'[g] = timestamps[g]
  <2>1. timestamps'[h] = Append(kept, now[c]) /\ \A g \in Hosts \ {h} : timestamps'[g] = timestamps[g]
    BY <1>1 DEF RateInv, RateTypeOK
  <2> QED
    BY <1>2, <2>1, AppendProperties
<1>4. /\ Len(grants'[h]) = Len(gs) + 1
      /\ \A i \in 1 .. Len(gs) : grants'[h][i] = gs[i]
      /\ grants'[h][Len(gs) + 1] = clock
      /\ \A g \in Hosts \ {h} : grants'[g] = grants[g]
  <2>1. grants'[h] = Append(gs, clock) /\ \A g \in Hosts \ {h} : grants'[g] = grants[g]
    BY <1>1 DEF RateInv, RateTypeOK
  <2> QED
    BY <1>2, <2>1, AppendProperties
<1>5. PICK n, m \in Nat : Len(ts) = m /\ Len(gs) = n + m /\ Len(kept) = m - k
  BY GrantsCoverWindow
<1>6. c \in owner[h] /\ now[c] <= clock
  BY DEF RateInv, LockHeld, ReadAfterGrants
<1>7. RecordedBeforeGrant'
  <2>1. ASSUME NEW j \in Nat, Len(grants'[h]) = j + Len(timestamps'[h]),
               NEW i \in 1 .. Len(timestamps'[h])
        PROVE  timestamps'[h][i] <= grants'[h][j + i]
    <3>1. j = n + k
      BY <1>2, <1>3, <1>4, <1>5, <2>1
    <3> HIDE DEF ts, gs
    <3>2. CASE i = Len(kept) + 1
      <4>1. j + i = Len(gs) + 1
        BY <1>2, <1>5, <3>1, <3>2
      <4> QED
        BY <1>3, <1>4, <1>6, <3>2, <4>1
    <3>3. CASE i \in 1 .. Len(kept)
      <4>1. i + k \in 1 .. Len(ts) /\ n + (i + k) = j + i /\ j + i \in 1 .. Len(gs)
        BY <1>2, <1>5, <3>1, <3>3
      <4>2. ts[i + k] <= gs[n + (i + k)]
        BY <1>5, <4>1 DEF ts, gs, SleepInv, RecordedBeforeGrant
      <4> QED
        BY <1>3, <1>4, <3>3, <4>1, <4>2
    <3> QED
      BY <1>2, <1>3, <3>2, <3>3
  <2>2. ASSUME NEW g \in Hosts \ {h}, NEW j \in Nat,
               Len(grants'[g]) = j + Len(timestamps'[g]), NEW i \in 1 .. Len(timestamps'[g])
        PROVE  timestamps'[g][i] <= grants'[g][j + i]
    BY <1>3, <1>4, <2>2 DEF SleepInv, RecordedBeforeGrant
  <2> QED
    BY <2>1, <2>2 DEF RecordedBeforeGrant
<1>8. HolderSeesWindow'
  <2> SUFFICES ASSUME NEW d \in Callers, pc'[d] \in {"locked", "sleep"}
               PROVE  \A i \in 1 .. Len(timestamps'[host[d]]) :
                        timestamps'[host[d]][i] > now[d] - window
    BY <1>1 DEF HolderSeesWindow
  <2>1. d # c /\ pc[d] \in {"locked", "sleep"}
    BY <1>1 DEF RateInv, RateTypeOK
  <2>2. host[d] \in Hosts /\ host[d] # h
    BY <1>6, <2>1 DEF RateInv, RateTypeOK, LockHeld, OneOwner
  <2> QED
    BY <1>3, <2>1, <2>2 DEF SleepInv, HolderSeesWindow
<1> QED
  BY <1>7, <1>8 DEF SleepInv

LEMMA GrantSleepInv ==
  ASSUME RateInv, SleepInv, NEW c \in Callers, GrantFree(c) \/ GrantEvicting(c) \/ Wake(c)
  PROVE  SleepInv'
<1>1. PICK h \in Hosts : h = host[c]
  BY DEF RateInv, RateTypeOK
<1> DEFINE ts == timestamps[h]
<1>2. /\ ts \in Seq(Times) /\ Len(ts) \in Nat /\ maxRequests \in Nat \ {0}
      /\ Len(ts) <= maxRequests
  BY InvTimes DEF RateInv, RateTypeOK
<1>3. CASE GrantFree(c)
  <2>1. pc[c] = "locked" /\ Return(c, ts)
    BY <1>1, <1>3 DEF GrantFree
  <2>2. Len(ts) = Len(ts) - 0 /\ \A i \in 1 .. Len(ts) : ts[i] = ts[i + 0]
    BY <1>2
  <2> QED
    BY <1>1, <1>2, <2>1, <2>2, ReturnSleepInv
<1>4. CASE GrantEvicting(c) \/ Wake(c)
  <2>1. /\ pc[c] \in {"locked", "sleep"} /\ Len(ts) = maxRequests /\ Return(c, Tail(ts))
    BY <1>1, <1>2, <1>4 DEF GrantEvicting, Wake, Full, RateInv, SleeperIsFull
  <2>2. ts # <<>>
    BY <1>2, <2>1
  <2>3. /\ Tail(ts) \in Seq(Times) /\ Len(Tail(ts)) = Len(ts) - 1
        /\ \A i \in 1 .. Len(Tail(ts)) : Tail(ts)[i] = ts[i + 1]
    BY <1>2, <2>2, HeadTailProperties
  <2> QED
    BY <1>1, <2>1, <2>3, ReturnSleepInv
<1> QED
  BY <1>3, <1>4

LEMMA NextSleepInv == RateInv /\ SleepInv /\ [RateNext]_rateVars => SleepInv'
<1> SUFFICES ASSUME RateInv, SleepInv, [RateNext]_rateVars
             PROVE  SleepInv'
  OBVIOUS
<1>1. CASE UNCHANGED <<timestamps, grants>> /\ ~\E c \in Callers : Lock(c)
  <2>1. RecordedBeforeGrant'
    BY <1>1 DEF SleepInv, RecordedBeforeGrant
  <2>2. ASSUME NEW c \in Callers, pc'[c] \in {"locked", "sleep"}
        PROVE  pc[c] \in {"locked", "sleep"} /\ host'[c] = host[c] /\ now'[c] = now[c]
    BY <1>1, <2>2 DEF RateNext, Tick, Cancel, Horizon, Call, GrantFree, GrantEvicting, Sleep, Wake,
       Cancelled, Return, Goto, rateVars, RateInv, RateTypeOK
  <2> QED
    BY <1>1, <2>1, <2>2 DEF SleepInv, HolderSeesWindow
<1>2. ASSUME NEW c \in Callers, Lock(c)
      PROVE  SleepInv'
  BY <1>2, LockSleepInv
<1>3. ASSUME NEW c \in Callers, GrantFree(c) \/ GrantEvicting(c) \/ Wake(c)
      PROVE  SleepInv'
  BY <1>3, GrantSleepInv
<1>4. \/ UNCHANGED <<timestamps, grants>>
      \/ \E c \in Callers : Lock(c) \/ GrantFree(c) \/ GrantEvicting(c) \/ Wake(c)
  BY DEF RateNext, Tick, Cancel, Horizon, Call, Sleep, Cancelled, rateVars
<1> QED
  BY <1>1, <1>2, <1>3, <1>4

\* A set of positions that holds the last k of l has at least k members.
LEMMA HoldsLast ==
  ASSUME NEW n \in Nat, NEW k \in Nat, NEW S,
         S \subseteq 1 .. n + k, n + 1 .. n + k \subseteq S
  PROVE  Cardinality(S) >= k
<1>1. n + k \in Int /\ 1 \in Int /\ n + 1 \in Int
  OBVIOUS
<1>2. IsFiniteSet(1 .. n + k)
  BY <1>1, FS_Interval
<1>3. IsFiniteSet(S)
  BY <1>2, FS_Subset
<1>4. Cardinality(S) \in Nat
  BY <1>3, FS_CardinalityType
<1>5. Cardinality(n + 1 .. n + k) <= Cardinality(S)
  BY <1>3, FS_Subset
<1>6. Cardinality(n + 1 .. n + k) = IF n + 1 > n + k THEN 0 ELSE n + k - (n + 1) + 1
  BY <1>1, FS_Interval
<1> QED
  BY <1>4, <1>5, <1>6

\* Wait sleeps only if maxRequests grants for its host were given less than a
\* window before it read the clock: it never delays a request for nothing.
THEOREM SleepsForAReason == RateSpec => []SleepIsJustified
<1>1. RateInit => SleepInv
  BY DEF RateInit, SleepInv, RecordedBeforeGrant, HolderSeesWindow
<1>2. RateInv /\ SleepInv => SleepIsJustified
  <2> SUFFICES ASSUME RateInv, SleepInv, NEW c \in Callers, pc[c] = "sleep"
               PROVE  Cardinality({i \in 1 .. Len(grants[host[c]]) :
                        grants[host[c]][i] > now[c] - window}) >= maxRequests
    BY DEF SleepIsJustified
  <2>1. PICK h \in Hosts : h = host[c]
    BY DEF RateInv, RateTypeOK
  <2> DEFINE gs == grants[h]
             recent == {i \in 1 .. Len(gs) : gs[i] > now[c] - window}
  <2>2. /\ Len(timestamps[h]) = maxRequests /\ maxRequests \in Nat \ {0}
        /\ Len(gs) \in Nat /\ window \in Nat /\ now[c] \in Nat
        /\ \A i \in 1 .. Len(timestamps[h]) : timestamps[h][i] \in Nat
        /\ \A i \in 1 .. Len(gs) : gs[i] \in Nat
    BY <2>1, InvTimes DEF RateInv, RateTypeOK, SleeperIsFull, Times
  <2>3. PICK n \in Nat : Len(gs) = n + maxRequests
    BY <2>2, GrantsCoverWindow
  <2>4. ASSUME NEW j \in n + 1 .. n + maxRequests
        PROVE  j \in recent
    <3>1. j - n \in 1 .. maxRequests /\ n + (j - n) = j /\ j \in 1 .. Len(gs)
      BY <2>2, <2>3
    <3>2. timestamps[h][j - n] <= gs[n + (j - n)]
      BY <2>2, <2>3, <3>1 DEF SleepInv, RecordedBeforeGrant
    <3>3. timestamps[h][j - n] > now[c] - window
      BY <2>1, <2>2, <3>1 DEF SleepInv, HolderSeesWindow
    <3> QED
      BY <2>2, <3>1, <3>2, <3>3
  <2>5. recent \subseteq 1 .. n + maxRequests /\ n + 1 .. n + maxRequests \subseteq recent
    BY <2>3, <2>4
  <2>8. Cardinality(recent) >= maxRequests
    <3> HIDE DEF recent
    <3> QED
      BY <2>2, <2>5, HoldsLast
  <2> QED
    BY <2>1, <2>8
<1> QED
  BY <1>1, <1>2, NextSleepInv, RateInvariance, PTL DEF RateSpec
=============================================================================

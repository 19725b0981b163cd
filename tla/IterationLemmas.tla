-------------------------- MODULE IterationLemmas --------------------------
(* Induction over an interval of numbers, and the loops it lets us define:  *)
(* what a function says that is defined by its own value one step before.   *)
EXTENDS Integers, WellFoundedInduction, TLAPS

\* A set of numbers that is not empty has a least element.
LEMMA LeastNumber ==
  ASSUME NEW T \in SUBSET Nat, T # {}
  PROVE  \E n \in T : \A m \in T : n <= m
<1>1. PICK n \in T : \A m \in T : ~ (<<m, n>> \in OpToRel(<, Nat))
  BY NatLessThanWellFounded, WFMin
<1>2. \A m \in T : m < n => <<m, n>> \in OpToRel(<, Nat)
  BY DEF OpToRel
<1>3. \A m \in T : ~(m < n)
  BY <1>1, <1>2, Zenon
<1> QED
  BY <1>3

\* What holds of 0, and of every number up to n if of the one before, holds of
\* them all.
LEMMA Induction ==
  ASSUME NEW T, 0 \in T, NEW n \in Nat, \A i \in 1 .. n : i - 1 \in T => i \in T
  PROVE  \A i \in 0 .. n : i \in T
<1> SUFFICES ASSUME NEW j \in 0 .. n, j \notin T
             PROVE  FALSE
  OBVIOUS
<1> DEFINE B == {i \in 0 .. n : i \notin T}
<1>1. PICK i \in B : \A m \in B : i <= m
  <2>1. B \in SUBSET Nat /\ B # {}
    OBVIOUS
  <2> HIDE DEF B
  <2> QED
    BY <2>1, LeastNumber
<1> QED
  BY <1>1

-----------------------------------------------------------------------------
\* f shows the run of a loop that is in state `first` before its first iteration.
IsRun(f, n, first, step) == f[0] = first /\ \A i \in 1 .. n : f[i] = step[i][f[i - 1]]

\* Every loop over 1 .. n has a run: a function that is defined along its
\* argument exists.
LEMMA IterationExists ==
  ASSUME NEW S, NEW n \in Nat, NEW first \in S, NEW step \in [1 .. n -> [S -> S]]
  PROVE  \E f \in [0 .. n -> S] : IsRun(f, n, first, step)
<1> DEFINE Runs(f, m) == IsRun(f, m, first, step)
           T == {m \in 0 .. n : \E f \in [0 .. n -> S] : Runs(f, m)}
<1>0. \A m \in 0 .. n : m \in T <=> \E f \in [0 .. n -> S] : Runs(f, m)
  <2> HIDE DEF Runs
  <2> QED
    OBVIOUS
<1>1. 0 \in T
  <2>1. [i \in 0 .. n |-> first] \in [0 .. n -> S] /\ Runs([i \in 0 .. n |-> first], 0)
    BY DEF IsRun
  <2> HIDE DEF T, Runs
  <2> QED
    BY <1>0, <2>1
<1>2. ASSUME NEW m \in 1 .. n, m - 1 \in T
      PROVE  m \in T
  <2>1. PICK f \in [0 .. n -> S] : Runs(f, m - 1)
    BY <1>2
  <2> DEFINE g == [f EXCEPT ![m] = step[m][f[m - 1]]]
  <2>2. g \in [0 .. n -> S]
    OBVIOUS
  <2>3. Runs(g, m)
    BY <2>1 DEF IsRun
  <2> HIDE DEF T, Runs, g
  <2> QED
    BY <1>0, <2>2, <2>3
<1>3. \A i \in 0 .. n : i \in T
  <2> HIDE DEF T
  <2> QED
    BY <1>1, <1>2, Induction
<1>4. n \in T
  <2> HIDE DEF T
  <2> QED
    BY <1>3
<1> QED
  BY <1>0, <1>4
=============================================================================

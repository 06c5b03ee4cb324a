-------------------------- MODULE FdLeakGuardProofs --------------------------
(***************************************************************************)
(* Theorems about UniqueFd and FdLeakGuard, for any number of objects and  *)
(* any size of the descriptor table.                                       *)
(***************************************************************************)
EXTENDS FdLeakGuard, FiniteSetTheorems, TLAPS

USE FdAssumption DEF FdAssumption, Numbers, None

(* Types and ownership are invariant together: that no close() hits a      *)
(* descriptor of somebody else is what keeps table, raw and fd in step.    *)
FdInv == FdTypeOK /\ OneOwner

(* A process starts with its standard descriptors and no UniqueFd.         *)
LEMMA FdInvInit == FdInit => FdInv
  BY DEF FdInit, FdInv, FdTypeOK, OneOwner, Held

(* Every operation of UniqueFd, and of a program that uses ints, keeps it. *)
LEMMA FdInvStep ==
  ASSUME FdInv, FdNext
  PROVE  FdInv'
<1> USE DEF FdInv, FdTypeOK, OneOwner, Held, IsLowest, Free
<1>1. CASE RawOpen
  BY <1>1 DEF RawOpen
<1>2. ASSUME NEW n \in Numbers, RawClose(n) PROVE FdInv'
  BY <1>2 DEF RawClose
<1>3. ASSUME NEW o \in Objs, OpenFd(o) PROVE FdInv'
  BY <1>3 DEF OpenFd
<1>4. ASSUME NEW o \in Objs, Destroy(o) PROVE FdInv'
  BY <1>4 DEF Destroy
<1>5. ASSUME NEW o \in Objs, Release(o) PROVE FdInv'
  BY <1>5 DEF Release
<1>6. ASSUME NEW o \in Objs, NEW n \in Numbers \cup {None}, Construct(o, n)
      PROVE  FdInv'
  BY <1>6 DEF Construct
<1>7. ASSUME NEW o \in Objs, NEW n \in Numbers \cup {None}, Reset(o, n)
      PROVE  FdInv'
  BY <1>7 DEF Reset
<1>8. ASSUME NEW o \in Objs, NEW other \in Objs, MoveConstruct(o, other)
      PROVE  FdInv'
  BY <1>8 DEF MoveConstruct
<1>9. ASSUME NEW o \in Objs, NEW other \in Objs, MoveAssign(o, other)
      PROVE  FdInv'
  BY <1>9 DEF MoveAssign
<1>10. QED
  BY <1>1, <1>2, <1>3, <1>4, <1>5, <1>6, <1>7, <1>8, <1>9 DEF FdNext

(* The guard: its baseline is what was open and the lowest number that was *)
(* free.                                                                   *)
GuardInv ==
  /\ baseline \subseteq Numbers /\ reported \subseteq Numbers
  /\ before \subseteq Numbers /\ seen \subseteq Numbers
  /\ guarded \in BOOLEAN
  /\ verdict \in {"none", "clean", "thrown"}
  /\ ~guarded => verdict = "none"
  /\ guarded /\ before # Numbers =>
       \E d \in Numbers \ before :
         /\ \A m \in Numbers \ before : d <= m
         /\ baseline = before \cup {d}
  /\ guarded /\ before = Numbers => baseline = {}

\* What a verdict must say.
Verdicts == NoFalseAlarm /\ NoMissedLeak

(* Making the guard takes the baseline.                                    *)
LEMMA MakeGuardKeeps ==
  ASSUME FdInv, GuardInv, Verdicts, MakeGuard
  PROVE  GuardInv' /\ Verdicts'
<1> USE DEF FdInv, FdTypeOK, GuardInv, MakeGuard, Free, IsLowest
<1>1. PICK s \in Snapshots : Snapshot(s) /\ baseline' = s
  OBVIOUS
<1>2. CASE Free = {} /\ s = {}
  <2>1. table = Numbers
    BY <1>2
  <2>2. GuardInv'
    BY <1>1, <1>2, <2>1
  <2>3. QED
    BY <2>2 DEF Verdicts, NoFalseAlarm, NoMissedLeak
<1>3. ASSUME NEW n \in Numbers, IsLowest(n), s = table \cup {n}
      PROVE  GuardInv' /\ Verdicts'
  <2>1. GuardInv'
    BY <1>1, <1>3
  <2>2. QED
    BY <2>1 DEF Verdicts, NoFalseAlarm, NoMissedLeak
<1>4. QED
  BY <1>1, <1>2, <1>3 DEF Snapshot

(* The verdict of one require_clean.  If the scope left nothing open, the  *)
(* table is part of what it was, so its lowest free number is at most the  *)
(* old one: if lower it was open then, if equal the baseline has it.       *)
LEMMA RequireCleanIsRight ==
  ASSUME FdInv, GuardInv, Verdicts, RequireClean
  PROVE  GuardInv' /\ Verdicts'
<1> USE DEF FdInv, FdTypeOK, GuardInv, RequireClean, Free, IsLowest
<1>1. PICK s \in Snapshots : Snapshot(s) /\ reported' = s \ baseline
  OBVIOUS
<1>2. s \subseteq Numbers
  BY DEF Snapshots
<1>3. GuardInv'
  BY <1>1, <1>2
<1>4. NoFalseAlarm'
  <2> SUFFICES ASSUME before # Numbers, table \subseteq before
               PROVE  reported' = {}
    BY DEF NoFalseAlarm
  <2>1. PICK d \in Numbers \ before :
          /\ \A m \in Numbers \ before : d <= m
          /\ baseline = before \cup {d}
    OBVIOUS
  <2>2. ASSUME NEW n \in Numbers, IsLowest(n), s = table \cup {n}
        PROVE  n \in baseline
    BY <2>1, <2>2
  <2>3. s \subseteq baseline
    <3>1. s = {} \/ \E n \in Numbers : IsLowest(n) /\ s = table \cup {n}
      BY <1>1 DEF Snapshot
    <3>2. table \subseteq baseline
      BY <2>1
    <3>3. QED
      BY <2>2, <3>1, <3>2
  <2>4. QED
    BY <1>1, <2>3
<1>5. NoMissedLeak'
  <2> SUFFICES ASSUME reported' = {}, before \subseteq table, table # Numbers
               PROVE  table = before
    BY DEF NoMissedLeak
  <2>1. PICK n \in Numbers : IsLowest(n) /\ s = table \cup {n}
    BY <1>1 DEF Snapshot
  <2>2. table \cup {n} \subseteq baseline /\ n \notin table
    BY <1>1, <2>1
  <2>3. PICK d \in Numbers \ before : baseline = before \cup {d}
    OBVIOUS
  <2>4. n = d
    BY <2>2, <2>3
  <2>5. QED
    BY <2>2, <2>3, <2>4
<1>6. QED
  BY <1>3, <1>4, <1>5 DEF Verdicts

(* All three hold in every reachable state.                                *)
LEMMA GuardedInvariant == Spec => [](FdInv /\ GuardInv /\ Verdicts)
<1>1. Init => FdInv /\ GuardInv /\ Verdicts
  BY FdInvInit DEF Init, GuardInv, Verdicts, NoFalseAlarm, NoMissedLeak
<1>2. FdInv /\ GuardInv /\ Verdicts /\ [Next]_vars
        => (FdInv /\ GuardInv /\ Verdicts)'
  <2> SUFFICES ASSUME FdInv, GuardInv, Verdicts, [Next]_vars
               PROVE  FdInv' /\ GuardInv' /\ Verdicts'
    OBVIOUS
  <2>1. CASE FdNext /\ UNCHANGED gvars
    <3>1. FdInv'
      BY <2>1, FdInvStep
    <3>2. QED
      BY <2>1, <3>1
         DEF gvars, GuardInv, Verdicts, NoFalseAlarm, NoMissedLeak
  <2>2. CASE MakeGuard
    BY <2>2, MakeGuardKeeps
       DEF MakeGuard, fvars, FdInv, FdTypeOK, OneOwner, Held
  <2>3. CASE RequireClean
    BY <2>3, RequireCleanIsRight
       DEF RequireClean, fvars, FdInv, FdTypeOK, OneOwner, Held
  <2>4. CASE UNCHANGED vars
    BY <2>4 DEF vars, fvars, gvars, FdInv, FdTypeOK, OneOwner, Held, GuardInv,
                Verdicts, NoFalseAlarm, NoMissedLeak
  <2>5. QED
    BY <2>1, <2>2, <2>3, <2>4 DEF Next
<1>3. QED
  BY <1>1, <1>2, PTL DEF Spec

-----------------------------------------------------------------------------
(* The variables keep their types.                                         *)
THEOREM TypeCorrect == Spec => []TypeOK
<1>1. FdInv /\ GuardInv => TypeOK
  BY DEF FdInv, GuardInv, TypeOK
<1>2. QED
  BY <1>1, GuardedInvariant, PTL

(* UniqueFd: one owner for every descriptor, through every sequence of     *)
(* constructions, moves, releases, resets and destructions.                *)
THEOREM OwnershipHolds == Spec => []OneOwner
<1>1. FdInv => OneOwner
  BY DEF FdInv
<1>2. QED
  BY <1>1, GuardedInvariant, PTL

(* FdLeakGuard never fails a scope that left nothing open.                 *)
THEOREM GuardIsSound == Spec => []NoFalseAlarm
<1>1. Verdicts => NoFalseAlarm
  BY DEF Verdicts
<1>2. QED
  BY <1>1, GuardedInvariant, PTL

(* FdLeakGuard passes no scope that kept what it found and left more open, *)
(* unless the table is full.                                               *)
THEOREM GuardIsComplete == Spec => []NoMissedLeak
<1>1. Verdicts => NoMissedLeak
  BY DEF Verdicts
<1>2. QED
  BY <1>1, GuardedInvariant, PTL

-----------------------------------------------------------------------------
(* The count in the message.                                               *)
\* Trading one element of a finite set for one outside of it.
LEMMA SwapKeepsCount ==
  ASSUME NEW S, IsFiniteSet(S), NEW d \in S, NEW n, n \notin S
  PROVE  Cardinality((S \ {d}) \cup {n}) = Cardinality(S)
<1>1. IsFiniteSet(S \ {d}) /\ Cardinality(S \ {d}) = Cardinality(S) - 1
  BY FS_RemoveElement
<1>2. Cardinality((S \ {d}) \cup {n}) = Cardinality(S \ {d}) + 1
  BY <1>1, FS_AddElement
<1>3. Cardinality(S) \in Nat
  BY FS_CardinalityType
<1>4. QED
  BY <1>1, <1>2, <1>3

\* What is reported is what leaked, or that with the first snapshot's own
\* number, which a leak has taken, traded for the second one's.
CountInv ==
  guarded /\ verdict = "thrown" /\ before \subseteq seen /\ before # Numbers /\ seen # Numbers
    => \/ reported = seen \ before
       \/ \E d \in seen \ before, n \in Numbers \ seen :
            reported = ((seen \ before) \ {d}) \cup {n}

LEMMA CountKept ==
  ASSUME FdInv, GuardInv, CountInv, [Next]_vars PROVE CountInv'
<1> USE DEF CountInv
<1>1. CASE RequireClean
  <2> USE DEF FdInv, FdTypeOK, GuardInv, RequireClean, Free, IsLowest
  <2> SUFFICES ASSUME guarded, before \subseteq table, before # Numbers, table # Numbers
               PROVE  \/ reported' = table \ before
                      \/ \E d \in table \ before, n \in Numbers \ table :
                           reported' = ((table \ before) \ {d}) \cup {n}
      BY <1>1
  <2>1. PICK d \in Numbers \ before :
          /\ \A m \in Numbers \ before : d <= m
          /\ baseline = before \cup {d}
      OBVIOUS
  <2>2. PICK n \in Numbers \ table :
          /\ \A m \in Numbers \ table : n <= m
          /\ reported' = (table \cup {n}) \ baseline
      BY <1>1 DEF Snapshot
  <2>3. CASE d \in table
      BY <2>1, <2>2, <2>3
  <2>4. CASE d \notin table
    <3>1. n = d
      BY <2>1, <2>2, <2>4
    <3>2. QED
      BY <2>1, <2>2, <3>1
  <2>5. QED
      BY <2>3, <2>4
<1>2. CASE MakeGuard
  BY <1>2 DEF MakeGuard, GuardInv
<1>3. CASE FdNext /\ UNCHANGED gvars
  BY <1>3 DEF gvars
<1>4. CASE UNCHANGED vars
  BY <1>4 DEF vars, gvars
<1>5. QED
  BY <1>1, <1>2, <1>3, <1>4 DEF Next

(* The message counts as many descriptors as leaked, though it may name    *)
(* the snapshot's own instead of one of them (fdtrack.hpp:29-43).          *)
THEOREM CountIsExact == Spec => []CountIsRight
<1>1. Init => CountInv
  BY DEF Init, CountInv
<1>2. FdInv /\ GuardInv /\ CountInv => CountIsRight
  <2> SUFFICES ASSUME GuardInv, CountInv, verdict = "thrown", before \subseteq seen,
                      before # Numbers, seen # Numbers
               PROVE  Cardinality(reported) = Cardinality(seen \ before)
    BY DEF CountIsRight
  <2>1. IsFiniteSet(seen \ before)
    <3>1. IsFiniteSet(Numbers)
      BY FS_Interval
    <3>2. seen \ before \in SUBSET Numbers
      BY DEF GuardInv
    <3>3. QED
      BY <3>1, <3>2, FS_Subset
  <2>2. CASE reported = seen \ before
    BY <2>2
  <2>3. CASE \E d \in seen \ before, n \in Numbers \ seen :
               reported = ((seen \ before) \ {d}) \cup {n}
    <3>1. PICK d \in seen \ before, n \in Numbers \ seen :
            reported = ((seen \ before) \ {d}) \cup {n}
      BY <2>3
    <3>2. QED
      BY <2>1, <3>1, SwapKeepsCount
  <2>4. QED
    BY <2>2, <2>3 DEF GuardInv, CountInv
<1>3. QED
  BY <1>1, <1>2, CountKept, GuardedInvariant, PTL DEF Spec
=============================================================================

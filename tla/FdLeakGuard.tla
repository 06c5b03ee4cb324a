------------------------------ MODULE FdLeakGuard ------------------------------
(***************************************************************************)
(* ftest::FdLeakGuard (fdtrack.hpp) over fd_snapshot() (core/fd.hpp): the  *)
(* guard remembers the descriptors open when it is made, and require_clean *)
(* reports those open later that are not among them.  A snapshot opens a   *)
(* descriptor of its own, finds it in /proc/self/fd like any other, and    *)
(* closes it again.                                                        *)
(***************************************************************************)
EXTENDS UniqueFd, FiniteSets

VARIABLES
  guarded,   \* the guard exists
  baseline,  \* baseline_
  verdict,   \* how the last require_clean ended: none, clean or thrown
  reported,  \* the descriptors its message names
  before,    \* HISTORY: the descriptors open when the guard was made
  seen       \* HISTORY: those open at the last require_clean

gvars == <<guarded, baseline, verdict, reported, before, seen>>
vars  == <<fvars, gvars>>

Init ==
  /\ FdInit
  /\ guarded = FALSE /\ baseline = {}
  /\ verdict = "none" /\ reported = {}
  /\ before = {} /\ seen = {}

\* fd_snapshot() returns s: everything that is open and the descriptor of
\* the directory it reads, or nothing when there is no descriptor for that.
Snapshot(s) ==
  \/ Free = {} /\ s = {}
  \/ \E n \in Numbers : IsLowest(n) /\ s = table \cup {n}

Snapshots == {table \cup {n} : n \in Numbers} \cup {{}}

\* MUTANT of MakeGuard: the baseline leaves out the snapshot's own descriptor.
MakeGuardWithoutOwn ==
  /\ ~guarded
  /\ guarded' = TRUE
  /\ baseline' = table
  /\ before' = table
  /\ UNCHANGED <<fvars, verdict, reported, seen>>

MakeGuard ==
  /\ ~guarded
  /\ guarded' = TRUE
  /\ \E s \in Snapshots : Snapshot(s) /\ baseline' = s
  /\ before' = table
  /\ UNCHANGED <<fvars, verdict, reported, seen>>

\* MUTANT of RequireClean: counts are compared, with one to spare.
RequireCleanByCount ==
  /\ guarded
  /\ \E now \in Snapshots :
       /\ Snapshot(now)
       /\ reported' = IF Cardinality(now) <= Cardinality(baseline) + 1 THEN {}
                      ELSE now \ baseline
  /\ verdict' = IF reported' = {} THEN "clean" ELSE "thrown"
  /\ seen' = table
  /\ UNCHANGED <<fvars, guarded, baseline, before>>

\* MUTANT of RequireClean: the second snapshot leaves out its own descriptor.
RequireCleanSkipsOwn ==
  /\ guarded
  /\ reported' = table \ baseline
  /\ verdict' = IF reported' = {} THEN "clean" ELSE "thrown"
  /\ seen' = table
  /\ UNCHANGED <<fvars, guarded, baseline, before>>

RequireClean ==
  /\ guarded
  /\ \E now \in Snapshots : Snapshot(now) /\ reported' = now \ baseline
  /\ verdict' = IF reported' = {} THEN "clean" ELSE "thrown"
  /\ seen' = table
  /\ UNCHANGED <<fvars, guarded, baseline, before>>

Next ==
  \/ FdNext /\ UNCHANGED gvars
  \/ MakeGuard
  \/ RequireClean

Spec == Init /\ [][Next]_vars

-----------------------------------------------------------------------------
(* Type invariant. *)
TypeOK ==
  /\ FdTypeOK
  /\ guarded \in BOOLEAN
  /\ baseline \subseteq Numbers
  /\ verdict \in {"none", "clean", "thrown"}
  /\ reported \subseteq Numbers
  /\ before \subseteq Numbers
  /\ seen \subseteq Numbers

(* A guard made while the table had room never accuses a scope that left   *)
(* nothing open: the transient descriptor of the second snapshot is either *)
(* that of the first one or was open at the time (fdtrack.hpp:24-43).      *)
NoFalseAlarm ==
  before # Numbers /\ verdict = "thrown" => ~(seen \subseteq before)

(* A guard whose scope closed nothing it found open misses no leak, except *)
(* one that fills the table, which leaves no descriptor to look with.      *)
NoMissedLeak ==
  /\ verdict = "clean"
  /\ before \subseteq seen
  /\ seen # Numbers
  => seen = before

(* The count in the message is the number of leaked descriptors, although  *)
(* the list may have swapped one of them for the snapshot's own.           *)
CountIsRight ==
  /\ verdict = "thrown"
  /\ before \subseteq seen
  /\ before # Numbers /\ seen # Numbers
  => Cardinality(reported) = Cardinality(seen \ before)
=============================================================================

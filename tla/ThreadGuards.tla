----------------------------- MODULE ThreadGuards -----------------------------
(***************************************************************************)
(* A test program whose main thread makes workers and uses both thread     *)
(* guards on them, in any order.  The main thread does one thing at a      *)
(* time: while a guard's call is under way only the workers, the kernel    *)
(* and the clock move beside it.                                           *)
(***************************************************************************)
EXTENDS StuckThreadGuard, ThreadLeakGuard

vars == <<tvars, svars, lvars>>

MainIsFree == ~Calling /\ ~InRequireClean

Init == ThreadsInit /\ StuckInit /\ LeakInit

\* A worker created while there is a leak guard is one of its scope.
CreateWorker(w) ==
  /\ Create(w)
  /\ made' = IF lpc = "none" THEN made ELSE made \cup {w}

UseThreads ==
  /\ MainIsFree
  /\ \E w \in Workers :
       \/ CreateWorker(w)
       \/ (Join(w) \/ Detach(w)) /\ UNCHANGED made
  /\ UNCHANGED <<svars, guardv>>

UseStuckGuard ==
  /\ MainIsFree
  /\ RequireAllFinished \/ \E w \in Workers : Watch(w)
  /\ UNCHANGED lvars

UseLeakGuard ==
  /\ MainIsFree
  /\ MakeLeakGuard \/ \E n \in 0 .. 1 : RequireClean(n)
  /\ UNCHANGED svars

StuckCall == StuckStep /\ UNCHANGED lvars
LeakCall  == LeakStep /\ UNCHANGED svars
Clock     == \/ StuckTick /\ UNCHANGED lvars
             \/ LeakTick /\ UNCHANGED svars
Others    == WorkerStep /\ UNCHANGED <<svars, lvars>>
Unlisting == (\E w \in Workers : Unlist(w)) /\ UNCHANGED <<svars, lvars>>

Next ==
  \/ UseThreads
  \/ UseStuckGuard
  \/ UseLeakGuard
  \/ StuckCall
  \/ LeakCall
  \/ Clock
  \/ Others

Spec == Init /\ [][Next]_vars

\* The calls go on, the clock too, and ended threads leave /proc; nothing is
\* assumed of the workers, which may run forever, nor of the program.
FairSpec ==
  /\ Spec
  /\ WF_vars(StuckCall)
  /\ WF_vars(LeakCall)
  /\ WF_vars(Clock)
  /\ WF_vars(Unlisting)

-----------------------------------------------------------------------------
(* Type invariant. *)
TypeOK == ThreadsTypeOK /\ StuckTypeOK /\ LeakTypeOK

(* Both guards come back, whatever the workers do: require_all_finished    *)
(* when the deadline that all its workers share has passed, require_clean  *)
(* when its grace is over (thread_count.hpp:81-109, guards.hpp:39-55).     *)
CallsEnd ==
  /\ Calling ~> pc \in {"returned", "threw"}
  /\ lpc = "loop" ~> lpc \in {"clean", "thrown"}
=============================================================================

------------------------------- MODULE Threads -------------------------------
(***************************************************************************)
(* The threads of a test program, as the two thread guards see them: the   *)
(* workers it creates with pthread_create, what it may do with them, and   *)
(* the entries of /proc/self/task, where a thread stays listed for a       *)
(* moment after it has ended, even after it has been joined.               *)
(* None of this is code of the library; the guards are in the modules that *)
(* extend this one.                                                        *)
(***************************************************************************)
EXTENDS Integers, FiniteSets, Sequences

CONSTANT Workers

ASSUME WorkersAssumption == IsFiniteSet(Workers)

VARIABLES
  thread,  \* none, running, exited, joined, detached (running) or gone
  task     \* the workers listed in /proc/self/task

tvars == <<thread, task>>

ThreadStates == {"none", "running", "exited", "joined", "detached", "gone"}

ThreadsTypeOK ==
  /\ thread \in [Workers -> ThreadStates]
  /\ task \subseteq Workers

ThreadsInit ==
  /\ thread = [w \in Workers |-> "none"]
  /\ task = {}

Becomes(w, from, to) ==
  /\ thread[w] = from
  /\ thread' = [thread EXCEPT ![w] = to]

\* By the test program.
Create(w) == Becomes(w, "none", "running") /\ task' = task \cup {w}
Join(w)   == Becomes(w, "exited", "joined") /\ UNCHANGED task
Detach(w) ==
  /\ Becomes(w, "running", "detached") \/ Becomes(w, "exited", "gone")
  /\ UNCHANGED task

\* By the worker, and by the kernel some time after its end.
Exits(w) ==
  /\ Becomes(w, "running", "exited") \/ Becomes(w, "detached", "gone")
  /\ UNCHANGED task
Ended(w) == thread[w] \in {"exited", "joined", "gone"}
Unlist(w) ==
  /\ w \in task
  /\ Ended(w)
  /\ task' = task \ {w}
  /\ UNCHANGED thread

WorkerStep == \E w \in Workers : Exits(w) \/ Unlist(w)
=============================================================================

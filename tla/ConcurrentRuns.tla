---------------------------- MODULE ConcurrentRuns ----------------------------
(***************************************************************************)
(* Several threads of one program in Subprocess::run() at once.  They share*)
(* the program's descriptor table, and no pipe end is close-on-exec: a     *)
(* fork gives the child every end that is open at that moment, those of    *)
(* the other runs included, and child_exec closes only its own run's.      *)
(* A run is seen here by its system calls on pipe ends, its child and its  *)
(* deadline; the poll loop itself is in Subprocess.  The payload fits the  *)
(* pipe, and the output is read as it comes.                               *)
(***************************************************************************)
EXTENDS Integers, FiniteSets

CONSTANT Runs

VARIABLES
  pc,         \* the call each run is about to make, or how it ended
  ends,       \* pipe ends open in the program, as <<run, pipe, r or w>>
  child,      \* none, forked, running, dying, zombie or reaped
  filter,     \* the child runs until its stdin ends
  held,       \* pipe ends each child holds
  status,     \* how each child ended
  expired,    \* the deadline has passed
  killed,     \* result.timed_out, SIGKILL has been sent
  reported,   \* result.status
  overlapped  \* HISTORY: the runs that forked while one's write ends were open

vars == <<pc, ends, child, filter, held, status, expired, killed, reported, overlapped>>
childv == <<child, held, status>>
timev  == <<expired, killed>>

In(r, x)  == <<r, "in", x>>
Out(r, x) == <<r, "out", x>>
Own(r)    == {In(r, "r"), In(r, "w"), Out(r, "r"), Out(r, "w")}
Writes(r) == {In(r, "w"), Out(r, "w")}
AllEnds    == Runs \X {"in", "out"} \X {"r", "w"}
Streams(r) == {In(r, "r"), Out(r, "w")}  \* the child's standard streams

Finished == {"returned", "threw"}
Steps == {"pipe_in", "pipe_out", "fork", "close_ends", "write", "collect", "wait"}
           \cup Finished
ChildStates == {"none", "forked", "running", "dying", "zombie", "reaped"}
Statuses == {"unset", "exited", "exec127", "sigkilled"}

Init ==
  /\ pc = [r \in Runs |-> "pipe_in"]
  /\ ends = {}
  /\ child = [r \in Runs |-> "none"]
  /\ filter \in [Runs -> BOOLEAN]
  /\ held = [r \in Runs |-> {}]
  /\ status = [r \in Runs |-> "unset"]
  /\ expired = [r \in Runs |-> FALSE]
  /\ killed = [r \in Runs |-> FALSE]
  /\ reported = [r \in Runs |-> "unset"]
  /\ overlapped = [r \in Runs |-> {}]

\* Somebody, of whichever run, still has the end open.
Open(e) == e \in ends \/ \E s \in Runs : e \in held[s]

Becomes(r, from, to) == pc[r] = from /\ pc' = [pc EXCEPT ![r] = to]

-----------------------------------------------------------------------------
(* run(), in thread r.                                                     *)
CreateIn(r) ==
  /\ Becomes(r, "pipe_in", "pipe_out")
  /\ ends' = ends \cup {In(r, "r"), In(r, "w")}
  /\ UNCHANGED <<childv, filter, timev, reported, overlapped>>

CreateOut(r) ==
  /\ Becomes(r, "pipe_out", "fork")
  /\ ends' = ends \cup {Out(r, "r"), Out(r, "w")}
  /\ UNCHANGED <<childv, filter, timev, reported, overlapped>>

SetupFails(r) ==
  /\ \E at \in {"pipe_in", "pipe_out", "fork"} : Becomes(r, at, "threw")
  /\ ends' = ends \ Own(r)
  /\ UNCHANGED <<childv, filter, timev, reported, overlapped>>

Fork(r) ==
  /\ Becomes(r, "fork", "close_ends")
  /\ child' = [child EXCEPT ![r] = "forked"]
  /\ held' = [held EXCEPT ![r] = ends]
  /\ overlapped' = [q \in Runs |-> IF q # r /\ Writes(q) \cap ends # {}
                                   THEN overlapped[q] \cup {r} ELSE overlapped[q]]
  /\ UNCHANGED <<ends, filter, status, timev, reported>>

\* MUTANT of ChildsEnds: the write end of stdout stays open.
ChildsEndsForgotten(r) == {In(r, "r")}

ChildsEnds(r) == Streams(r)

CloseChildEnds(r) ==
  /\ Becomes(r, "close_ends", "write")
  /\ ends' = ends \ ChildsEnds(r)
  /\ UNCHANGED <<childv, filter, timev, reported, overlapped>>

\* write_all and the end of stdin; collect() computes the deadline.
FeedStdin(r) ==
  /\ Becomes(r, "write", "collect")
  /\ ends' = ends \ {In(r, "w")}
  /\ UNCHANGED <<childv, filter, timev, reported, overlapped>>

DeadlineComes(r) ==
  /\ pc[r] \in {"collect", "wait"} /\ ~expired[r]
  /\ expired' = [expired EXCEPT ![r] = TRUE]
  /\ UNCHANGED <<pc, ends, childv, filter, killed, reported, overlapped>>

EndOfOutput(r) ==
  /\ Becomes(r, "collect", "wait")
  /\ ~Open(Out(r, "w"))
  /\ UNCHANGED <<ends, childv, filter, timev, reported, overlapped>>

\* MUTANT of Signalled: the process group.
AllSignalled(r) == Runs

\* MUTANT of Signalled: the kill is forgotten.
NoneSignalled(r) == {}

\* The runs whose children kill() hits.
Signalled(r) == {r}

KillAtDeadline(r) ==
  /\ Becomes(r, "collect", "wait")
  /\ expired[r]
  /\ killed' = [killed EXCEPT ![r] = TRUE]
  /\ child' = [s \in Runs |-> IF s \in Signalled(r) /\ child[s] \in {"forked", "running"}
                             THEN "dying" ELSE child[s]]
  /\ UNCHANGED <<ends, filter, held, status, expired, reported, overlapped>>

Reap(r) ==
  /\ Becomes(r, "wait", "returned")
  /\ child[r] = "zombie"
  /\ child' = [child EXCEPT ![r] = "reaped"]
  /\ reported' = [reported EXCEPT ![r] = status[r]]
  /\ ends' = ends \ Own(r)
  /\ UNCHANGED <<filter, held, status, timev, overlapped>>

-----------------------------------------------------------------------------
(* The child of run r, and the kernel.                                     *)
\* MUTANT of AfterExec: stdin's write end is not closed.
AfterExecKept(r) == (held[r] \ {Out(r, "r")}) \cup Streams(r)

\* child_exec: its own run's ends become its streams or are closed.
AfterExec(r) == (held[r] \ Own(r)) \cup Streams(r)

Exec(r) ==
  /\ child[r] = "forked"
  /\ child' = [child EXCEPT ![r] = "running"]
  /\ held' = [held EXCEPT ![r] = AfterExec(r)]
  /\ UNCHANGED <<pc, ends, filter, status, timev, reported, overlapped>>

ChildEnds(r, how) ==
  /\ child' = [child EXCEPT ![r] = "zombie"]
  /\ status' = [status EXCEPT ![r] = how]
  /\ held' = [held EXCEPT ![r] = {}]
  /\ UNCHANGED <<pc, ends, filter, timev, reported, overlapped>>

ExecFails(r) == child[r] = "forked" /\ ChildEnds(r, "exec127")

\* A filter ends when its stdin has ended, another child when it likes.
MayExit(r) == child[r] = "running" /\ (filter[r] => ~Open(In(r, "w")))
Exits(r)   == MayExit(r) /\ ChildEnds(r, "exited")
Gone(r)    == child[r] = "dying" /\ ChildEnds(r, "sigkilled")

-----------------------------------------------------------------------------
RunProgress(r) ==
  \/ CreateIn(r) \/ CreateOut(r) \/ Fork(r) \/ CloseChildEnds(r) \/ FeedStdin(r)
  \/ EndOfOutput(r) \/ KillAtDeadline(r) \/ Reap(r)

ChildStep(r) == Exec(r) \/ ExecFails(r) \/ Exits(r) \/ Gone(r)

Done == (\A r \in Runs : pc[r] \in Finished) /\ UNCHANGED vars

Next ==
  \/ \E r \in Runs : RunProgress(r) \/ SetupFails(r) \/ DeadlineComes(r) \/ ChildStep(r)
  \/ Done

Spec == Init /\ [][Next]_vars

\* The threads are scheduled, their deadlines come, SIGKILL is carried out.
\* Nothing is assumed of the children.
FairSpec ==
  /\ Spec
  /\ \A r \in Runs : /\ WF_vars(RunProgress(r))
                     /\ WF_vars(DeadlineComes(r))
                     /\ WF_vars(Gone(r))

-----------------------------------------------------------------------------
(* Type invariant. *)
TypeOK ==
  /\ pc \in [Runs -> Steps]
  /\ ends \subseteq AllEnds
  /\ child \in [Runs -> ChildStates]
  /\ filter \in [Runs -> BOOLEAN]
  /\ held \in [Runs -> SUBSET AllEnds]
  /\ status \in [Runs -> Statuses]
  /\ expired \in [Runs -> BOOLEAN]
  /\ killed \in [Runs -> BOOLEAN]
  /\ reported \in [Runs -> Statuses]
  /\ overlapped \in [Runs -> SUBSET Runs]

Waits(r) ==
  /\ pc[r] = "collect"
  /\ \/ child[r] = "running" /\ Open(In(r, "w"))
     \/ child[r] = "zombie" /\ Open(Out(r, "w"))

(* A run whose child waits for the end of its stdin, or which waits for    *)
(* the end of the output of a child that has ended, owes it to the living  *)
(* child of another run, forked while the write ends were open; a run that *)
(* was alone until it had closed them is never held up                     *)
(* (subprocess.hpp:168-194, 220-233).                                      *)
HeldUpByOverlap ==
  \A r \in Runs : Waits(r) =>
    \E s \in overlapped[r] \ {r} : child[s] \in {"forked", "running", "dying"}

(* Nothing moves but the deadlines: every run that is not over waits for   *)
(* output, and no child can go on.                                         *)
AllStuck ==
  /\ \E r \in Runs : pc[r] \notin Finished
  /\ \A r \in Runs : pc[r] \notin Finished =>
       /\ pc[r] = "collect" /\ Open(Out(r, "w"))
       /\ child[r] \in {"running", "zombie"} /\ ~MayExit(r)

(* Without deadlines, overlapping runs can only come to a standstill when  *)
(* at least two children wait for the end of a stdin that other children   *)
(* hold open; output ends held by others only delay                        *)
(* (subprocess.hpp:189-194, 203-233).                                      *)
StandstillNeedsTwoFilters ==
  AllStuck =>
    \E r, s \in Runs : /\ r # s
                       /\ filter[r] /\ child[r] = "running" /\ Open(In(r, "w"))
                       /\ filter[s] /\ child[s] = "running" /\ Open(In(s, "w"))

-----------------------------------------------------------------------------
\* What the caller of run r sees, as in Subprocess.
Contract(r) == INSTANCE RunContract WITH
  Causes  <- Statuses \ {"unset"},
  phase   <- IF child[r] = "none" /\ pc[r] # "threw" THEN "setup"
             ELSE IF pc[r] \in Finished THEN pc[r] ELSE "running",
  proc    <- IF child[r] = "none" THEN "none"
             ELSE IF status[r] = "unset" THEN "alive" ELSE status[r],
  reaped  <- child[r] = "reaped",
  expired <- expired[r],
  killed  <- killed[r],
  result  <- [status |-> reported[r],
              timedOut |-> pc[r] = "returned" /\ killed[r]]

(* Each run keeps its contract, whatever the others and their children do: *)
(* it kills nobody else's child and reports on its own.                    *)
EachKeepsContract ==
  /\ \A r \in Runs : Contract(r)!Init
  /\ [][\A r \in Runs : [Contract(r)!Next]_(Contract(r)!cvars)]_vars

(* Every run comes back (subprocess.hpp:73-74), if need be at its deadline:*)
(* held-open ends of its pipes can delay it, but no longer than that.      *)
EveryRunReturns == \A r \in Runs : <>(pc[r] \in Finished)
=============================================================================

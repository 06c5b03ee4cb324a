------------------------------ MODULE Subprocess ------------------------------
(***************************************************************************)
(* ftl::Subprocess::run() and collect(): create the pipes, fork, feed      *)
(* stdin, collect the output with poll() against a deadline, reap.  The    *)
(* child and the kernel are in ChildWorld.                                 *)
(*                                                                         *)
(* A step of the parent is one system call and the code up to the next.    *)
(* Time is the counter left: the deadline minus now, in milliseconds,      *)
(* from the moment collect() computes the deadline.                        *)
(***************************************************************************)
EXTENDS ChildWorld

CONSTANTS
  StdinSize,  \* units of stdin_data
  Timeout,    \* timeout_ms_
  IntMax,     \* largest value of the int that poll() takes
  Chunk,      \* units drain_once reads at most (4096 bytes)
  Faults      \* which calls of the parent may fail

Fallible == {"pipe", "fork", "poll", "append", "wait"}

ASSUME RunAssumption ==
  /\ StdinSize \in Nat
  /\ Timeout \in Nat \ {0}
  /\ IntMax \in Nat \ {0}
  /\ Chunk \in Nat \ {0}
  /\ Faults \subseteq Fallible

VARIABLES
  pc,        \* the system call run() is about to make, or how it ended
  sent,      \* units of stdin_data written
  left,      \* deadline - now
  slice,     \* what is left of poll()'s own timeout, negative: no timeout
  open,      \* the sources still open
  ready,     \* sources poll() reported that are still to be drained
  timedOut,  \* result.timed_out
  got,       \* units appended to result.output and result.error_output
  reported,  \* result.status
  runOwns,     \* pipe ends held by the UniqueFds of run() ...
  collectOwns  \* ... and by those of collect(), owned_out and owned_err

rvars == <<pc, sent, left, slice, open, ready, timedOut, got, reported, runOwns,
           collectOwns>>
vars  == <<wvars, rvars>>
loopv == <<left, slice, open, ready>>
resultv == <<timedOut, got, reported>>
ownv  == <<runOwns, collectOwns>>

Collecting == {"loop", "poll", "drain"}
Finished   == {"returned", "threw"}
Steps == {"pipe_in", "pipe_out", "pipe_err", "fork", "close_ends", "write",
          "wait"} \cup Collecting \cup Finished

Init ==
  /\ WorldInit
  /\ pc = "pipe_in"
  /\ sent = 0
  /\ left = 0
  /\ slice = 0
  /\ open = {}
  /\ ready = {}
  /\ timedOut = FALSE
  /\ got = [p \in OutPipes |-> 0]
  /\ reported = "unset"
  /\ runOwns = {} /\ collectOwns = {}

\* static_cast<int>(remaining_ms): a value that does not fit keeps its low
\* bits, the top one becomes the sign.
ToInt(x) ==
  LET width == 2 * (IntMax + 1)
  IN  IF x <= IntMax THEN x
      ELSE IF x % width <= IntMax THEN x % width ELSE (x % width) - width

\* MUTANT of Sources: the stdin pipe is polled too.
SourcesAll == Std
\* What collect() polls.
Sources == IF Split THEN OutPipes ELSE {"out"}

AtMost(n, bound) == IF n <= bound THEN n ELSE bound

-----------------------------------------------------------------------------
(* run(): the pipes and the fork.                                          *)

\* The frames of collect() and run() are left: each UniqueFd closes what it
\* holds at that time, and nobody closes an end that no UniqueFd holds.
Destructors ==
  /\ parentEnds' = parentEnds \ (collectOwns \cup runOwns)
  /\ runOwns' = {} /\ collectOwns' = {}

\* An exception leaves run().
Throw == pc' = "threw" /\ Destructors

CreatePipe(at, p, next) ==
  /\ pc = at
  /\ pc' = next
  /\ parentEnds' = parentEnds \cup {R(p), W(p)}
  /\ runOwns' = runOwns \cup {R(p), W(p)}
  /\ UNCHANGED <<child, procv, bufv, sent, loopv, resultv, collectOwns>>

CreateIn  == CreatePipe("pipe_in", "in", "pipe_out")
CreateOut == CreatePipe("pipe_out", "out", IF Split THEN "pipe_err" ELSE "fork")
CreateErr == CreatePipe("pipe_err", "err", "fork")

SetupFails ==
  /\ \/ "pipe" \in Faults /\ pc \in {"pipe_in", "pipe_out", "pipe_err"}
     \/ "fork" \in Faults /\ pc = "fork"
  /\ Throw
  /\ UNCHANGED <<child, procv, bufv, sent, loopv, resultv>>

Fork ==
  /\ pc = "fork"
  /\ ForkChild
  /\ pc' = "close_ends"
  /\ UNCHANGED <<status, parentEnds, childStd, heirStd, bufv, sent, loopv,
                 resultv, ownv>>

\* reset(): an object closes what it holds, if it holds any.
ResetRun(ends) ==
  /\ parentEnds' = parentEnds \ (runOwns \cap ends)
  /\ runOwns' = runOwns \ ends

\* The ends that are the child's.
CloseChildEnds ==
  /\ pc = "close_ends"
  /\ ResetRun({R("in"), W("out"), W("err")})
  /\ pc' = "write"
  /\ UNCHANGED <<child, procv, bufv, sent, loopv, resultv, collectOwns>>

-----------------------------------------------------------------------------
(* write_all(stdin_data_): a write to a full pipe blocks.                  *)
WriteSome ==
  /\ pc = "write"
  /\ sent < StdinSize
  /\ StdinHasReader
  /\ buf["in"] < PipeCap
  /\ buf' = [buf EXCEPT !["in"] = @ + 1]
  /\ sent' = sent + 1
  /\ UNCHANGED <<child, procv, parentEnds, wrote, todo, pc, loopv, resultv,
                 ownv>>

\* MUTANT of TakenOver: there is no owned_err.
TakenOverOutOnly == {R("out")} \cap runOwns

\* release() gives up an end without closing it; owned_out and owned_err own
\* what collect() is passed (err_read holds none unless the output is split).
Released  == {R("out"), R("err")} \cap runOwns
TakenOver == Released

\* write_all is done, or gave up on EPIPE; close stdin; hand the read ends
\* to collect(), which computes the deadline and sets up its sources.
CloseStdin ==
  /\ pc = "write"
  /\ sent = StdinSize \/ ~StdinHasReader
  /\ parentEnds' = parentEnds \ (runOwns \cap {W("in")})
  /\ runOwns' = runOwns \ ({W("in")} \cup Released)
  /\ collectOwns' = TakenOver
  /\ left' = Timeout
  /\ open' = Sources
  /\ pc' = "loop"
  /\ UNCHANGED <<child, procv, bufv, sent, slice, ready, resultv>>

-----------------------------------------------------------------------------
(* collect(): the poll loop.                                               *)
\* MUTANT of KillAtDeadline: timed_out is not set.
KillUnmarked ==
  /\ timedOut' = timedOut
  /\ child' = AfterKill
  /\ pc' = "wait"
  /\ UNCHANGED <<procv, parentEnds, bufv, sent, loopv, got, reported, ownv>>

KillAtDeadline ==
  /\ timedOut' = TRUE
  /\ child' = AfterKill
  /\ pc' = "wait"
  /\ UNCHANGED <<procv, parentEnds, bufv, sent, loopv, got, reported, ownv>>

\* MUTANT of LoopEnds: the loop stops when the child has ended.
LoopEndsWithChild ==
  /\ pc = "loop"
  /\ open = {} \/ child = "zombie"
  /\ pc' = "wait"
  /\ UNCHANGED <<wvars, sent, loopv, resultv, ownv>>

LoopEnds ==
  /\ pc = "loop"
  /\ open = {}
  /\ pc' = "wait"
  /\ UNCHANGED <<wvars, sent, loopv, resultv, ownv>>

DeadlinePassed ==
  /\ pc = "loop"
  /\ open # {}
  /\ left <= 0
  /\ KillAtDeadline

CallPoll ==
  /\ pc = "loop"
  /\ open # {}
  /\ left > 0
  /\ slice' = ToInt(left)
  /\ pc' = "poll"
  /\ UNCHANGED <<wvars, sent, left, open, ready, resultv, ownv>>

\* MUTANT of ReadySources: revents is not looked at.
SourcesPolled == open

ReadySources == {p \in open : Readable(p)}

PollReady ==
  /\ pc = "poll"
  /\ ReadySources # {}
  /\ ready' = ReadySources
  /\ pc' = "drain"
  /\ UNCHANGED <<wvars, sent, left, slice, open, resultv, ownv>>

PollTimesOut ==
  /\ pc = "poll"
  /\ slice = 0
  /\ ReadySources = {}
  /\ KillAtDeadline

\* MUTANT of PollInterrupted: EINTR is taken for a timeout.
InterruptIsTimeout ==
  /\ pc = "poll"
  /\ ReadySources = {}
  /\ KillAtDeadline

\* poll() fails with EINTR: the loop starts over.
PollInterrupted ==
  /\ pc = "poll"
  /\ ReadySources = {}
  /\ pc' = "loop"
  /\ UNCHANGED <<wvars, sent, loopv, resultv, ownv>>

PollFails ==
  /\ "poll" \in Faults
  /\ pc = "poll"
  /\ Throw
  /\ UNCHANGED <<child, procv, bufv, sent, loopv, resultv>>

\* The ready sources are drained in the order of the array.
NextSource == IF "out" \in ready THEN "out" ELSE "err"

\* drain_once: one read; got = 0 is end-of-file, which closes the source.
Drain ==
  LET p == NextSource
      n == AtMost(buf[p], Chunk)
  IN  /\ pc = "drain"
      /\ Readable(p)
      /\ buf' = [buf EXCEPT ![p] = @ - n]
      /\ got' = [got EXCEPT ![p] = @ + n]
      /\ open' = IF n = 0 THEN open \ {p} ELSE open
      /\ ready' = ready \ {p}
      /\ pc' = IF ready = {p} THEN "loop" ELSE "drain"
      /\ UNCHANGED <<child, procv, parentEnds, wrote, todo, sent, left, slice,
                     timedOut, reported, ownv>>

\* sink->append runs out of memory: the units read are gone.
AppendFails ==
  LET p == NextSource
  IN  /\ "append" \in Faults
      /\ pc = "drain"
      /\ buf[p] > 0
      /\ buf' = [buf EXCEPT ![p] = @ - AtMost(@, Chunk)]
      /\ Throw
      /\ UNCHANGED <<child, procv, wrote, todo, sent, loopv, resultv>>

-----------------------------------------------------------------------------
(* waitpid(pid, &result.status, 0), and the destructors of the read ends.  *)
Reap ==
  /\ pc = "wait"
  /\ child = "zombie"
  /\ child' = "reaped"
  /\ reported' = status
  /\ Destructors
  /\ pc' = "returned"
  /\ UNCHANGED <<procv, bufv, sent, loopv, timedOut, got>>

\* A signal handler ran: waitpid fails with EINTR, which is not looked at.
WaitInterrupted ==
  /\ "wait" \in Faults
  /\ pc = "wait"
  /\ child # "zombie"
  /\ Destructors
  /\ pc' = "returned"
  /\ UNCHANGED <<child, procv, bufv, sent, loopv, resultv>>

-----------------------------------------------------------------------------
\* What run() does as soon as it can, ...
ParentProgress ==
  \/ CreateIn \/ CreateOut \/ CreateErr
  \/ Fork \/ CloseChildEnds \/ WriteSome \/ CloseStdin
  \/ LoopEnds \/ DeadlinePassed \/ CallPoll
  \/ PollReady \/ PollTimesOut \/ Drain \/ Reap

\* ... and what may befall it.
ParentTrouble ==
  \/ SetupFails \/ PollInterrupted \/ PollFails \/ AppendFails
  \/ WaitInterrupted

ParentStep == ParentProgress \/ ParentTrouble

\* A millisecond passes.
Tick ==
  /\ pc \in Collecting
  /\ left > 0
  /\ left' = left - 1
  /\ slice' = IF pc = "poll" /\ slice > 0 THEN slice - 1 ELSE slice
  /\ UNCHANGED <<wvars, pc, sent, open, ready, resultv, ownv>>

\* run() is over.
Done == pc \in Finished /\ UNCHANGED vars

Next == ParentStep \/ (ChildStep /\ UNCHANGED rvars) \/ Tick \/ Done

Spec == Init /\ [][Next]_vars

\* run() is scheduled, time goes on, the kernel carries a SIGKILL out.
\* Nothing is assumed of the child, nor that a call is ever interrupted.
FairSpec ==
  /\ Spec
  /\ WF_vars(ParentProgress)
  /\ WF_vars(Tick)
  /\ WF_vars(ChildGone /\ UNCHANGED rvars)

\* A child that keeps reading and writing, under a timeout too long to play
\* a part.
FilterSpec ==
  /\ Init
  /\ [][ParentStep \/ (ChildStep /\ UNCHANGED rvars) \/ Done]_vars
  /\ WF_vars(ParentProgress)
  /\ WF_vars(ChildStep /\ UNCHANGED rvars)

-----------------------------------------------------------------------------
(* Type invariant. *)
TypeOK ==
  /\ WorldTypeOK
  /\ pc \in Steps
  /\ sent \in 0 .. StdinSize
  /\ left \in 0 .. Timeout
  /\ slice \in Int
  /\ open \subseteq OutPipes
  /\ ready \subseteq OutPipes
  /\ timedOut \in BOOLEAN
  /\ got \in [OutPipes -> Nat]
  /\ reported \in Statuses
  /\ runOwns \subseteq Ends /\ collectOwns \subseteq Ends

(* Why no output is lost, and no read blocks: every unit written is in the *)
(* pipe or in the result; a source that was closed is empty and has no     *)
(* writer left, nor can it get one; what poll() reported stays readable.   *)
OutputInv ==
  /\ pc = "pipe_err" => W("out") \in parentEnds
  /\ pc = "fork" => \A p \in Sources : W(p) \in parentEnds
  /\ child = "forked" => \A p \in Sources : W(p) \in inherited
  /\ pc # "threw" => \A p \in OutPipes : got[p] + buf[p] = wrote[p]
  /\ \A p \in OutPipes \ Sources : wrote[p] = 0
  /\ open \subseteq Sources
  /\ pc \in Collecting \cup {"wait", "returned"} =>
       \A p \in Sources \ open : buf[p] = 0 /\ ~HasWriter(p)
  /\ pc = "drain" =>
       /\ ready # {} /\ ready \subseteq open
       /\ \A p \in ready : Readable(p)
  /\ pc \in {"wait", "returned"} /\ ~timedOut => open = {}

(* When run() returns without a timeout, the result holds everything that  *)
(* the child and its descendants ever wrote: the loop stops at end-of-file *)
(* of both pipes, never at the end of the child (subprocess.hpp:360-411).  *)
NoOutputLost ==
  pc = "returned" /\ ~timedOut => got = wrote

(* drain_once reads only what poll() reported, so that no read can block   *)
(* past the deadline: what was readable at the poll is still readable when *)
(* its turn comes, after the other source (subprocess.hpp:402-410).        *)
DrainNeverBlocks ==
  pc = "drain" => Readable(NextSource)

(* SIGKILL is only ever sent when the deadline has been reached            *)
(* (subprocess.hpp:368-371, 395-398).                                      *)
KillOnlyAtDeadline ==
  [][child # "dying" /\ child' = "dying" => left = 0]_vars

(* At every call that may fail or block, each open pipe end is held by     *)
(* exactly one UniqueFd, of run() or of collect(): one held by none would  *)
(* stay open, one held by two would be closed twice.  And so none is left  *)
(* when run() ends, whichever call failed (subprocess.hpp:168-198,         *)
(* 346-347: reset() and release() in the right order on every path).       *)
EndsHaveOneOwner ==
  /\ parentEnds = runOwns \cup collectOwns
  /\ runOwns \cap collectOwns = {}
  /\ pc \in Finished => parentEnds = {}

(* The status in the result is the way this child ended; SIGKILL shows     *)
(* only together with timed_out, since nobody else sends it here.          *)
ReportIsTruth ==
  pc = "returned" =>
    /\ reported = status /\ status # "unset"
    /\ reported = "sigkilled" => timedOut

(* write() blocks: the pipe is full, and those who could read it do not.   *)
PayloadUnread ==
  pc = "write" /\ sent < StdinSize /\ StdinHasReader /\ buf["in"] = PipeCap

(* waitpid() blocks: the child has closed its output, which ended the loop *)
(* without a SIGKILL, and runs on.                                         *)
WaitsUnkilled ==
  /\ pc = "wait" /\ ~timedOut /\ child \in Alive
  /\ \A p \in Sources : ~HasWriter(p)

(* Whatever the child and its descendants do and whichever call fails,     *)
(* run() comes to its end but for two cases, in which it never does: the   *)
(* payload is more than a pipe holds and is not read, which blocks before  *)
(* the deadline is set (subprocess.hpp:193); the child runs on without its *)
(* output streams (subprocess.hpp:413).                                    *)
ComesBack ==
  <>(pc \in Finished) \/ <>[]PayloadUnread \/ <>[]WaitsUnkilled

(* run() always returns (subprocess.hpp:73-74).                            *)
RunReturns == <>(pc \in Finished)

(* A filter that needs less time than its timeout sees the end of its      *)
(* stdin, runs to completion, and what it was given comes back whole.      *)
FilterCompletes ==
  <>(/\ pc = "returned" /\ reported = "exited" /\ ~timedOut
     /\ got["out"] + got["err"] = StdinSize)

-----------------------------------------------------------------------------
(* The contract of run(), and what of this module it sees.                 *)
Armed == pc \in Collecting \cup {"wait", "returned"}

Contract == INSTANCE RunContract WITH
  Causes  <- Statuses \ {"unset"},
  phase   <- IF child = "none" /\ pc # "threw" THEN "setup"
             ELSE IF pc \in Finished THEN pc ELSE "running",
  proc    <- IF child = "none" THEN "none"
             ELSE IF status = "unset" THEN "alive" ELSE status,
  reaped  <- child = "reaped",
  expired <- Armed /\ left = 0,
  killed  <- timedOut,
  result  <- [status |-> reported,
              timedOut |-> pc = "returned" /\ timedOut]

(* Every step of run(), its child and the kernel is a step the contract    *)
(* allows or changes nothing the caller can see.                           *)
ImplementsContract == Contract!Spec

(* ... and under the scheduling of FairSpec the contract's promise to come *)
(* back is kept too.                                                       *)
ImplementsFairContract == Contract!FairSpec
=============================================================================

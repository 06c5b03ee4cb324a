---------------------------- MODULE FtlRunCommand ----------------------------
(***************************************************************************)
(* ftl_run_command() of the C API (ftl.h): the same job as                 *)
(* Subprocess::run(), written again with int pipe ends closed by hand, one *)
(* pipe for stdout and stderr, a growing malloc'd buffer, and a poll loop  *)
(* that measures the time elapsed instead of the time left.                *)
(*                                                                         *)
(* A step is one system call and the code up to the next one.              *)
(***************************************************************************)
EXTENDS ChildWorld

CONSTANTS
  StdinSize,       \* units of stdin_data
  Timeout,         \* timeout_ms, once 0 and less have become 5000
  MaxSlice,        \* the longest single poll(): 1000000 ms
  MaxNow,          \* BOUND: the clock stops here, past the deadline
  Capacity,        \* first size of the buffer: 4096
  Chunk,           \* units read at once: 4096
  Faults           \* which calls of the parent may fail

Fallible == {"pipe", "fork", "poll", "read", "malloc", "wait"}

ASSUME CommandAssumption ==
  /\ ~Split
  /\ StdinSize \in Nat
  /\ Timeout \in Nat \ {0}
  /\ MaxSlice \in Nat \ {0}
  /\ MaxNow \in Nat /\ MaxNow >= Timeout
  /\ Capacity \in Nat \ {0}
  /\ Chunk \in 1 .. Capacity
  /\ Faults \subseteq Fallible

VARIABLES
  sigpipeIgnored,  \* what the calling program does with SIGPIPE
  pc,        \* the system call about to be made, or how the function ended
  sent,      \* units of stdin_data written
  now,       \* milliseconds since start
  elapsed,   \* elapsed_ms: now, when the last poll() came back
  slice,     \* what is left of poll()'s own timeout
  capacity,  \* size of the buffer, 0 when buffer is NULL
  length,    \* units in the buffer
  killed,    \* SIGKILL has been sent
  timedOut,  \* result->timed_out
  reported,  \* result->status
  mishaps    \* HISTORY: the calls that failed once the child ran

cvars == <<sigpipeIgnored, pc, sent, now, elapsed, slice, capacity, length, killed,
           timedOut, reported, mishaps>>
vars  == <<wvars, cvars>>
clockv  == <<now, elapsed, slice>>
memv    == <<capacity, length>>
resultv == <<sigpipeIgnored, killed, timedOut, reported, mishaps>>

Collecting == {"loop", "poll", "read"}
Finished   == {"returned", "failed", "sigpipe"}
Steps == {"pipe_in", "pipe_out", "fork", "close_ends", "write", "wait"}
           \cup Collecting \cup Finished

Init ==
  /\ WorldInit
  /\ sigpipeIgnored \in BOOLEAN
  /\ pc = "pipe_in"
  /\ sent = 0
  /\ now = 0 /\ elapsed = 0 /\ slice = 0
  /\ capacity = 0 /\ length = 0
  /\ killed = FALSE /\ timedOut = FALSE
  /\ reported = "unset" /\ mishaps = {}

AtMost(n, bound) == IF n <= bound THEN n ELSE bound

-----------------------------------------------------------------------------
CreatePipe(at, p, next) ==
  /\ pc = at
  /\ pc' = next
  /\ parentEnds' = parentEnds \cup {R(p), W(p)}
  /\ UNCHANGED <<child, procv, bufv, sent, clockv, memv, resultv>>

CreateIn  == CreatePipe("pipe_in", "in", "pipe_out")
CreateOut == CreatePipe("pipe_out", "out", "fork")

\* The ends that each failure path closes are named one by one in the code.
Fail(at, call, closed) ==
  /\ call \in Faults
  /\ pc = at
  /\ pc' = "failed"
  /\ parentEnds' = parentEnds \ closed
  /\ UNCHANGED <<child, procv, bufv, sent, clockv, memv, resultv>>

\* MUTANT of SetupFails: a close is missing after fork.
SetupFailsKeepsOne ==
  \/ Fail("pipe_in", "pipe", {})
  \/ Fail("pipe_out", "pipe", {R("in"), W("in")})
  \/ Fail("fork", "fork", {R("in"), W("in"), R("out")})

SetupFails ==
  \/ Fail("pipe_in", "pipe", {})
  \/ Fail("pipe_out", "pipe", {R("in"), W("in")})
  \/ Fail("fork", "fork", {R("in"), W("in"), R("out"), W("out")})

Fork ==
  /\ pc = "fork"
  /\ ForkChild
  /\ pc' = "close_ends"
  /\ UNCHANGED <<status, parentEnds, childStd, heirStd, bufv, sent, clockv,
                 memv, resultv>>

CloseChildEnds ==
  /\ pc = "close_ends"
  /\ parentEnds' = parentEnds \ {R("in"), W("out")}
  /\ pc' = "write"
  /\ UNCHANGED <<child, procv, bufv, sent, clockv, memv, resultv>>

-----------------------------------------------------------------------------
(* The stdin payload.                                                      *)
WriteSome ==
  /\ pc = "write"
  /\ sent < StdinSize
  /\ StdinHasReader
  /\ buf["in"] < PipeCap
  /\ buf' = [buf EXCEPT !["in"] = @ + 1]
  /\ sent' = sent + 1
  /\ UNCHANGED <<child, procv, parentEnds, wrote, todo, pc, clockv, memv,
                 resultv>>

\* Nobody reads the payload, and nothing was done about SIGPIPE: it ends the
\* calling program.
DieOfSigpipe ==
  /\ pc = "write"
  /\ sent < StdinSize
  /\ ~StdinHasReader
  /\ ~sigpipeIgnored
  /\ pc' = "sigpipe"
  /\ parentEnds' = {}
  /\ UNCHANGED <<child, procv, bufv, sent, clockv, memv, resultv>>

\* All is written, or EPIPE; close stdin, start the clock, malloc the buffer.
CloseStdin ==
  /\ pc = "write"
  /\ sent = StdinSize \/ (~StdinHasReader /\ sigpipeIgnored)
  /\ parentEnds' = parentEnds \ {W("in")}
  /\ capacity' \in {Capacity} \cup (IF "malloc" \in Faults THEN {0} ELSE {})
  /\ pc' = "loop"
  /\ UNCHANGED <<child, procv, bufv, sent, clockv, length, resultv>>

-----------------------------------------------------------------------------
(* The poll loop.  Leaving it closes the read end.                         *)
LeaveLoop ==
  /\ pc' = "wait"
  /\ parentEnds' = parentEnds \ {R("out")}

DeadlinePassed ==
  /\ pc = "loop"
  /\ Timeout - elapsed <= 0
  /\ killed' = TRUE
  /\ child' = AfterKill
  /\ LeaveLoop
  /\ UNCHANGED <<procv, bufv, sent, clockv, memv, sigpipeIgnored, timedOut, reported, mishaps>>

CallPoll ==
  /\ pc = "loop"
  /\ Timeout - elapsed > 0
  /\ slice' = AtMost(Timeout - elapsed, MaxSlice)
  /\ pc' = "poll"
  /\ UNCHANGED <<wvars, sent, now, elapsed, memv, resultv>>

\* MUTANT of Measured: the clock is read before poll(), not after it.
MeasuredBefore == elapsed

\* The clock is read as soon as poll() is back, whatever it returned.
Measured == now

PollReady ==
  /\ pc = "poll"
  /\ Readable("out")
  /\ elapsed' = Measured
  /\ pc' = "read"
  /\ UNCHANGED <<wvars, sent, now, slice, memv, resultv>>

\* MUTANT of AtDeadline: ready == 0 alone means timeout.
EverySlice == TRUE

AtDeadline == now >= Timeout

\* poll() returned 0 at the deadline ...
PollTimesOut ==
  /\ pc = "poll"
  /\ slice = 0 /\ ~Readable("out")
  /\ elapsed' = Measured
  /\ AtDeadline
  /\ killed' = TRUE
  /\ child' = AfterKill
  /\ LeaveLoop
  /\ UNCHANGED <<procv, bufv, sent, now, slice, memv, sigpipeIgnored, timedOut,
                 reported, mishaps>>

\* ... or before it, the slice having been cut short; or was interrupted.
PollAgain ==
  /\ pc = "poll"
  /\ ~Readable("out")
  /\ slice = 0 => ~AtDeadline
  /\ elapsed' = Measured
  /\ pc' = "loop"
  /\ UNCHANGED <<wvars, sent, now, slice, memv, resultv>>

\* Any other failure ends the loop, and no signal is sent.
PollFails ==
  /\ "poll" \in Faults
  /\ pc = "poll"
  /\ elapsed' = Measured
  /\ LeaveLoop
  /\ mishaps' = mishaps \cup {"poll"}
  /\ UNCHANGED <<child, procv, bufv, sent, now, slice, memv, sigpipeIgnored, killed,
                 timedOut, reported>>

\* MUTANT of Grown: exactly what is needed.
GrownToFit(need) == need

\* The loop that goes on doubling.
Redoubled(need) ==
  LET sizes == {capacity * 2^k : k \in 2 .. need}
  IN  CHOOSE m \in sizes : m >= need /\ \A o \in sizes : o >= need => m <= o

\* The buffer doubles until what was read and the final NUL fit.
Grown(need) == IF need <= 2 * capacity THEN 2 * capacity ELSE Redoubled(need)

\* MUTANT of Need: the NUL is forgotten.
NeedNoNul(n) == length + n

\* Room for n more units and the final NUL.
Need(n) == length + n + 1

ReadSome ==
  LET n    == AtMost(buf["out"], Chunk)
      need == Need(n)
  IN  /\ pc = "read"
      /\ n > 0
      /\ buf' = [buf EXCEPT !["out"] = @ - n]
      /\ \/ capacity = 0 /\ UNCHANGED <<capacity, length>>
         \/ /\ 0 < capacity /\ need <= capacity
            /\ length' = length + n
            /\ UNCHANGED capacity
         \/ /\ 0 < capacity /\ capacity < need
            /\ \/ capacity' = Grown(need) /\ length' = length + n
               \/ "malloc" \in Faults /\ capacity' = 0 /\ UNCHANGED length
      /\ pc' = "loop"
      /\ UNCHANGED <<child, procv, parentEnds, wrote, todo, sent, clockv,
                     resultv>>

\* MUTANT of EndOfOutput: the child's end is taken for it.
ChildHasEnded == child = "zombie"

EndOfOutput == buf["out"] = 0 /\ ~HasWriter("out")

\* End-of-file, or a failing read.
ReadEnds ==
  /\ pc = "read"
  /\ \/ EndOfOutput /\ UNCHANGED mishaps
     \/ "read" \in Faults /\ mishaps' = mishaps \cup {"read"}
  /\ LeaveLoop
  /\ UNCHANGED <<child, procv, bufv, sent, clockv, memv, sigpipeIgnored, killed,
                 timedOut, reported>>

-----------------------------------------------------------------------------
\* MUTANT of WaitReturns: waitpid with WNOHANG.
WaitNoHang == TRUE

WaitReturns == child = "zombie"

\* timed_out is what the clock said last, before the child is waited for.
Reap ==
  /\ pc = "wait"
  /\ WaitReturns
  /\ child' = IF child = "zombie" THEN "reaped" ELSE child
  /\ reported' = status
  /\ timedOut' = (elapsed >= Timeout)
  /\ pc' = "returned"
  /\ UNCHANGED <<procv, parentEnds, bufv, sent, clockv, memv, sigpipeIgnored, killed,
                 mishaps>>

WaitInterrupted ==
  /\ "wait" \in Faults
  /\ pc = "wait"
  /\ child # "zombie"
  /\ timedOut' = (elapsed >= Timeout)
  /\ mishaps' = mishaps \cup {"wait"}
  /\ pc' = "returned"
  /\ UNCHANGED <<wvars, sent, clockv, memv, sigpipeIgnored, killed, reported>>

-----------------------------------------------------------------------------
CallerProgress ==
  \/ CreateIn \/ CreateOut \/ Fork \/ CloseChildEnds
  \/ WriteSome \/ DieOfSigpipe \/ CloseStdin
  \/ DeadlinePassed \/ CallPoll \/ PollReady \/ PollTimesOut
  \/ (slice = 0 /\ PollAgain)
  \/ ReadSome \/ ReadEnds \/ Reap

CallerTrouble ==
  \/ SetupFails \/ (slice > 0 /\ PollAgain) \/ PollFails \/ WaitInterrupted

\* A millisecond passes.
Tick ==
  /\ pc \in Collecting
  /\ now < MaxNow \/ (pc = "poll" /\ slice > 0)
  /\ now' = AtMost(now + 1, MaxNow)
  /\ slice' = IF pc = "poll" /\ slice > 0 THEN slice - 1 ELSE slice
  /\ UNCHANGED <<wvars, pc, sent, elapsed, memv, resultv>>

Done == pc \in Finished /\ UNCHANGED vars

Next ==
  \/ CallerProgress \/ CallerTrouble
  \/ (ChildStep /\ UNCHANGED cvars)
  \/ Tick \/ Done

Spec == Init /\ [][Next]_vars

\* The caller is scheduled, time goes on, the kernel carries a SIGKILL out.
FairSpec ==
  /\ Spec
  /\ WF_vars(CallerProgress)
  /\ WF_vars(Tick)
  /\ WF_vars(ChildGone /\ UNCHANGED cvars)

-----------------------------------------------------------------------------
(* Type invariant. *)
TypeOK ==
  /\ WorldTypeOK
  /\ sigpipeIgnored \in BOOLEAN
  /\ pc \in Steps
  /\ sent \in 0 .. StdinSize
  /\ now \in 0 .. MaxNow
  /\ elapsed \in 0 .. now
  /\ slice \in 0 .. MaxSlice
  /\ capacity \in Nat
  /\ length \in Nat
  /\ killed \in BOOLEAN
  /\ timedOut \in BOOLEAN
  /\ reported \in Statuses
  /\ mishaps \subseteq {"poll", "read", "wait"}

(* What was read fits the buffer and leaves room for the NUL that is       *)
(* stored after the loop (ftl.h:206-227, 237).                             *)
BufferInBounds ==
  pc \in Collecting \cup {"wait", "returned"} /\ capacity > 0
    => length + 1 <= capacity

(* One doubling is always enough, because no read is longer than the       *)
(* buffer was to begin with: the loop at ftl.h:209-210 never runs.         *)
OneDoublingIsEnough ==
  [][capacity > 0 => capacity' \in {0, capacity, 2 * capacity}]_vars

(* Unless SIGKILL was sent, memory ran out or a call failed the caller     *)
(* gets everything the child and its descendants ever wrote.               *)
NoOutputLost ==
  pc = "returned" /\ ~killed /\ capacity > 0 /\ mishaps \cap {"poll", "read"} = {}
    => length = wrote["out"]

(* A negative return closed every pipe end made so far and forked nobody;  *)
(* a result closed the two that were left (ftl.h:83-100, 230).             *)
NothingLeaks ==
  /\ pc \in Finished => parentEnds = {}
  /\ pc = "failed" => child = "none"

(* However it returns, no child is left behind, running or zombie, unless  *)
(* waitpid was interrupted (ftl.h:234); a failing poll or read is no excuse.*)
NoChildLeftBehind ==
  pc \in {"returned", "failed"} /\ "wait" \notin mishaps => child \in {"none", "reaped"}

(* The status is the way this child ended; SIGKILL shows only together     *)
(* with timed_out.                                                         *)
ReportIsTruth ==
  pc = "returned" /\ "wait" \notin mishaps =>
    /\ reported = status /\ status # "unset"
    /\ reported = "sigkilled" => timedOut

(* SIGKILL is only ever sent when the deadline has been reached.           *)
KillOnlyAtDeadline ==
  [][~killed /\ killed' => now >= Timeout]_vars

(* write() blocks: the pipe is full, and those who could read it do not.   *)
PayloadUnread ==
  pc = "write" /\ sent < StdinSize /\ StdinHasReader /\ buf["in"] = PipeCap

(* waitpid() blocks, no SIGKILL having been sent: a poll or read error made *)
(* it leave the loop, or the child runs on without its output streams.     *)
WaitsUnkilled ==
  /\ pc = "wait" /\ ~killed /\ child \in Alive
  /\ mishaps \cap {"poll", "read"} # {} \/ ~HasWriter("out")

(* The function comes back with a result or an error, unless one of three  *)
(* things happens, after each of which it never does: its payload is more  *)
(* than a pipe holds and is not read, which blocks it before the clock     *)
(* starts (ftl.h:131-148); SIGPIPE ends the caller; it waits for a child   *)
(* that it did not kill (ftl.h:178-183, 234).  In particular a child that  *)
(* hangs in any other way is killed at the deadline (guide.md:465-466).    *)
CommandReturns ==
  \/ <>(pc \in {"returned", "failed"})
  \/ <>[]PayloadUnread
  \/ <>(pc = "sigpipe")
  \/ <>[]WaitsUnkilled
=============================================================================

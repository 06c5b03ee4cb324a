------------------------------ MODULE ChildWorld ------------------------------
(***************************************************************************)
(* What both subprocess runners (ftl::Subprocess::run and the C function   *)
(* ftl_run_command) talk to: the kernel's pipes and the child process.     *)
(* The runners are in the modules that extend this one; here are the       *)
(* steps that are not theirs.  Only ChildExec and ExecFails are code of    *)
(* the library (it runs in the child, between fork and exec).              *)
(*                                                                         *)
(* Data is counted in units: a pipe holds PipeCap of them, a writer of a   *)
(* full pipe blocks, a reader of an empty pipe blocks while somebody still *)
(* holds the write end and sees end-of-file otherwise.                     *)
(***************************************************************************)
EXTENDS Integers

CONSTANTS
  PipeCap,  \* units a pipe holds (64 KiB on Linux)
  OutMax,   \* BOUND: units of output an arbitrary child produces
  Split,    \* split_output(): stderr has a pipe of its own
  Filter,   \* TRUE: the child copies stdin to its output and exits at EOF
  ChildMay  \* which awkward things an arbitrary child may do

Awkward == {"exec_fails", "close_in", "close_out", "spawn", "crash"}

ASSUME WorldAssumption ==
  /\ PipeCap \in Nat \ {0}
  /\ OutMax \in Nat
  /\ Split \in BOOLEAN
  /\ Filter \in BOOLEAN
  /\ ChildMay \subseteq Awkward

VARIABLES
  child,       \* none, forked, running, dying, zombie or reaped
  status,      \* how the child ended, "unset" (-1) until it has
  parentEnds,  \* pipe ends open in the calling process
  inherited,   \* pipe ends the child still holds from fork
  childStd,    \* which of its three standard streams the child has open
  heirStd,     \* those of them that descendants of the child hold open
  buf,         \* units in each pipe
  wrote,       \* units ever written to each output pipe
  todo         \* units the child has yet to write

wvars == <<child, status, parentEnds, inherited, childStd, heirStd,
           buf, wrote, todo>>
procv == <<status, inherited, childStd, heirStd>>
bufv  == <<buf, wrote, todo>>

Pipes    == {"in", "out", "err"}
OutPipes == {"out", "err"}
Std      == {"in", "out", "err"}
Statuses == {"unset", "exited", "exec127", "crashed", "sigkilled"}
Alive    == {"forked", "running"}

R(p) == <<p, "r">>
W(p) == <<p, "w">>
Ends == Pipes \X {"r", "w"}

WorldTypeOK ==
  /\ child \in {"none", "forked", "running", "dying", "zombie", "reaped"}
  /\ status \in Statuses
  /\ parentEnds \subseteq Ends
  /\ inherited \subseteq Ends
  /\ childStd \subseteq Std
  /\ heirStd \subseteq Std
  /\ buf \in [Pipes -> 0 .. PipeCap]
  /\ wrote \in [OutPipes -> Nat]
  /\ todo \in Nat

WorldInit ==
  /\ child = "none"
  /\ status = "unset"
  /\ parentEnds = {}
  /\ inherited = {}
  /\ childStd = {}
  /\ heirStd = {}
  /\ buf = [p \in Pipes |-> 0]
  /\ wrote = [p \in OutPipes |-> 0]
  /\ todo = IF Filter THEN 0 ELSE OutMax

-----------------------------------------------------------------------------
\* The pipe behind standard stream s: stderr shares stdout's unless split.
PipeOf(s) == IF s = "err" /\ ~Split THEN "out" ELSE s

\* Somebody can still write to output pipe p.
HasWriter(p) ==
  \/ W(p) \in parentEnds \cup inherited
  \/ \E s \in (childStd \cup heirStd) \ {"in"} : PipeOf(s) = p

\* Somebody can still read the child's stdin, or still write to it.
StdinHasReader ==
  \/ R("in") \in parentEnds \cup inherited
  \/ "in" \in childStd \cup heirStd
StdinHasWriter == W("in") \in parentEnds \cup inherited

\* A read of p returns at once: there is data, or end-of-file.
Readable(p) == buf[p] > 0 \/ ~HasWriter(p)

\* fork(): the child gets a copy of every descriptor of the caller.
ForkChild ==
  /\ child' = "forked"
  /\ inherited' = parentEnds

\* MUTANT of AfterKill: no signal is sent.
KillForgotten == child

\* kill(pid, SIGKILL): an ended child that was not reaped is not affected.
AfterKill == IF child \in Alive THEN "dying" ELSE child

-----------------------------------------------------------------------------
(* child_exec: dup2 the three streams, close every inherited end, exec.    *)
\* MUTANT of ChildExec: in_write_fd is not closed.
ExecKeepsStdinWriter ==
  /\ child = "forked"
  /\ child' = "running"
  /\ inherited' = inherited \cap {W("in")}
  /\ childStd' = Std
  /\ UNCHANGED <<status, parentEnds, heirStd, buf, wrote, todo>>

ChildExec ==
  /\ child = "forked"
  /\ child' = "running"
  /\ inherited' = {}
  /\ childStd' = Std
  /\ UNCHANGED <<status, parentEnds, heirStd, buf, wrote, todo>>

\* exec failed: _exit(127).
ExecFails ==
  /\ "exec_fails" \in ChildMay
  /\ child = "forked"
  /\ child' = "zombie"
  /\ status' = "exec127"
  /\ inherited' = {}
  /\ UNCHANGED <<parentEnds, childStd, heirStd, buf, wrote, todo>>

\* The child reads a unit of stdin.  A filter reads when it has written out
\* what it read before.
ChildRead ==
  /\ child = "running" /\ "in" \in childStd
  /\ buf["in"] > 0
  /\ Filter => todo = 0
  /\ buf' = [buf EXCEPT !["in"] = @ - 1]
  /\ todo' = IF Filter THEN todo + 1 ELSE todo
  /\ UNCHANGED <<child, status, parentEnds, inherited, childStd, heirStd, wrote>>

\* The child, or a descendant that inherited the stream, writes a unit.
Produce(s) ==
  /\ s \in OutPipes
  /\ (child = "running" /\ s \in childStd) \/ s \in heirStd
  /\ todo > 0
  /\ R(PipeOf(s)) \in parentEnds
  /\ buf[PipeOf(s)] < PipeCap
  /\ buf' = [buf EXCEPT ![PipeOf(s)] = @ + 1]
  /\ wrote' = [wrote EXCEPT ![PipeOf(s)] = @ + 1]
  /\ todo' = todo - 1
  /\ UNCHANGED <<child, status, parentEnds, inherited, childStd, heirStd>>

\* Nobody reads the pipe any more: the writer is killed by SIGPIPE, or its
\* write fails with EPIPE where it inherited an ignored SIGPIPE.
BrokenPipe(s) ==
  /\ s \in OutPipes
  /\ child = "running" /\ s \in childStd
  /\ todo > 0
  /\ R(PipeOf(s)) \notin parentEnds
  /\ todo' = todo - 1
  /\ \/ UNCHANGED <<child, status, childStd>>
     \/ child' = "zombie" /\ status' = "crashed" /\ childStd' = {}
  /\ UNCHANGED <<parentEnds, inherited, heirStd, buf, wrote>>

\* The child closes one of its standard streams and keeps running.
ChildCloses(s) ==
  /\ child = "running" /\ s \in childStd
  /\ (IF s = "in" THEN "close_in" ELSE "close_out") \in ChildMay
  /\ childStd' = childStd \ {s}
  /\ UNCHANGED <<child, status, parentEnds, inherited, heirStd, buf, wrote, todo>>

\* The child starts a descendant, which inherits its standard streams ...
ChildSpawns ==
  /\ "spawn" \in ChildMay
  /\ child = "running" /\ ~(childStd \subseteq heirStd)
  /\ heirStd' = heirStd \cup childStd
  /\ UNCHANGED <<child, status, parentEnds, inherited, childStd, buf, wrote, todo>>

\* ... and which ends when it likes, or never.
HeirsExit ==
  /\ heirStd # {}
  /\ heirStd' = {}
  /\ UNCHANGED <<child, status, parentEnds, inherited, childStd, buf, wrote, todo>>

ChildEnds(how) ==
  /\ child' = "zombie"
  /\ status' = how
  /\ inherited' = {}
  /\ childStd' = {}
  /\ UNCHANGED <<parentEnds, heirStd, buf, wrote, todo>>

\* An arbitrary child may exit at any time, a filter only once it has seen
\* the end of its input and written everything out.
ChildExits ==
  /\ child = "running"
  /\ Filter => todo = 0 /\ buf["in"] = 0 /\ ~StdinHasWriter
  /\ ChildEnds("exited")

ChildCrashes ==
  /\ "crash" \in ChildMay
  /\ child = "running"
  /\ ChildEnds("crashed")

\* The kernel carries out a pending SIGKILL.
ChildGone ==
  /\ child = "dying"
  /\ ChildEnds("sigkilled")

ChildStep ==
  \/ ChildExec \/ ExecFails
  \/ ChildRead \/ (\E s \in OutPipes : Produce(s) \/ BrokenPipe(s))
  \/ (\E s \in Std : ChildCloses(s))
  \/ ChildSpawns \/ HeirsExit
  \/ ChildExits \/ ChildCrashes \/ ChildGone
=============================================================================

------------------------ MODULE FtlRunCommandProofs ------------------------
(***************************************************************************)
(* Theorems about ftl_run_command (ftl.h), for every size of pipe, payload,*)
(* read and buffer, every timeout, and every set of calls that may fail.   *)
(*                                                                         *)
(* The inductive invariant CmdInv has four parts besides the types: what   *)
(* the buffer holds, which pipe ends are open at each call, how far the    *)
(* child is, and where the output is.                                      *)
(***************************************************************************)
EXTENDS FtlRunCommand, TLAPS

USE WorldAssumption, CommandAssumption
  DEF WorldAssumption, CommandAssumption, procv, bufv, clockv, memv, resultv, Measured

\* The calls before the buffer is allocated.
Early == {"pipe_in", "pipe_out", "fork", "close_ends", "write"}

(* The buffer: there from malloc on, or gone for good.  It is never        *)
(* smaller than a read, and what it holds leaves room for the NUL.         *)
MemInv ==
  /\ pc \in Early => capacity = 0 /\ length = 0
  /\ capacity > 0 => capacity >= Capacity /\ length + 1 <= capacity

\* The child and its descendants keep the types of the world.
LEMMA ChildTyped ==
  ASSUME WorldTypeOK, ChildStep PROVE WorldTypeOK'
<1> USE DEF WorldTypeOK, Pipes, OutPipes, Std, Statuses, Ends, R, W
<1>1. CASE ChildExec
  BY <1>1 DEF ChildExec
<1>2. CASE ExecFails
  BY <1>2 DEF ExecFails
<1>3. CASE ChildRead
  BY <1>3 DEF ChildRead
<1>4. ASSUME NEW s \in OutPipes, Produce(s) PROVE WorldTypeOK'
  <2>1. PipeOf(s) \in OutPipes
    BY DEF PipeOf
  <2>2. QED
    BY <1>4, <2>1 DEF Produce
<1>5. ASSUME NEW s \in OutPipes, BrokenPipe(s) PROVE WorldTypeOK'
  <2>1. CASE UNCHANGED <<child, status, childStd>>
    BY <1>5, <2>1 DEF BrokenPipe
  <2>2. CASE child' = "zombie" /\ status' = "crashed" /\ childStd' = {}
    BY <1>5, <2>2 DEF BrokenPipe
  <2>3. QED
    BY <1>5, <2>1, <2>2 DEF BrokenPipe
<1>6. ASSUME NEW s \in Std, ChildCloses(s) PROVE WorldTypeOK'
  BY <1>6 DEF ChildCloses
<1>7. CASE ChildSpawns
  BY <1>7 DEF ChildSpawns
<1>8. CASE HeirsExit
  BY <1>8 DEF HeirsExit
<1>9. CASE ChildExits \/ ChildCrashes \/ ChildGone
  BY <1>9 DEF ChildExits, ChildCrashes, ChildGone, ChildEnds
<1>10. QED
  BY <1>1, <1>2, <1>3, <1>4, <1>5, <1>6, <1>7, <1>8, <1>9 DEF ChildStep

(* A read is no longer than the first buffer, so that what it needs is at  *)
(* most twice the buffer of now (ftl.h:206-211).                           *)
LEMMA GrowthIsOneDoubling ==
  ASSUME TypeOK, MemInv, capacity > 0, NEW n \in 1 .. Chunk
  PROVE  Grown(Need(n)) = 2 * capacity
  BY DEF TypeOK, MemInv, Grown, Need

(* Every step keeps the types and the room in the buffer, the step that    *)
(* reads and reallocates included (ftl.h:199-228).                         *)
LEMMA Typed ==
  ASSUME TypeOK, MemInv, [Next]_vars PROVE TypeOK' /\ MemInv'
<1> USE DEF TypeOK, WorldTypeOK, MemInv, Pipes, OutPipes, Std, Statuses, Ends, R, W,
            Steps, Collecting, Finished, Early, AtMost
<1>1. CASE CreateIn
  BY <1>1 DEF CreateIn, CreatePipe
<1>2. CASE CreateOut
  BY <1>2 DEF CreateOut, CreatePipe
<1>3. ASSUME NEW at \in Early, NEW call, NEW closed, Fail(at, call, closed)
      PROVE  TypeOK' /\ MemInv'
  BY <1>3 DEF Fail
<1>4. CASE Fork
  BY <1>4 DEF Fork, ForkChild
<1>5. CASE CloseChildEnds
  BY <1>5 DEF CloseChildEnds
<1>6. CASE WriteSome
  BY <1>6 DEF WriteSome
<1>7. CASE DieOfSigpipe
  BY <1>7 DEF DieOfSigpipe
<1>8. CASE CloseStdin
  BY <1>8 DEF CloseStdin
<1>9. CASE DeadlinePassed
  BY <1>9 DEF DeadlinePassed, LeaveLoop, AfterKill
<1>10. CASE CallPoll
  BY <1>10 DEF CallPoll, wvars
<1>11. CASE PollReady
  BY <1>11 DEF PollReady, wvars
<1>12. CASE PollTimesOut
  BY <1>12 DEF PollTimesOut, LeaveLoop, AfterKill
<1>13. CASE PollAgain
  BY <1>13 DEF PollAgain, wvars
<1>14. CASE PollFails
  BY <1>14 DEF PollFails, LeaveLoop
<1>16. CASE ReadEnds
  <2>1. mishaps' \in {mishaps, mishaps \cup {"read"}}
    BY <1>16 DEF ReadEnds
  <2>2. QED
    BY <1>16, <2>1 DEF ReadEnds, LeaveLoop
<1>17. CASE Reap
  BY <1>17 DEF Reap
<1>18. CASE WaitInterrupted
  BY <1>18 DEF WaitInterrupted, wvars
<1>19. CASE ChildStep /\ UNCHANGED cvars
  BY <1>19, ChildTyped DEF cvars
<1>20. CASE Tick
  BY <1>20 DEF Tick, wvars
<1>21. CASE UNCHANGED vars
  BY <1>21 DEF vars, cvars, wvars
<1>15. CASE ReadSome
  <2> DEFINE n == AtMost(buf["out"], Chunk)
  <2>1. n \in 1 .. Chunk /\ n <= buf["out"]
    BY <1>15 DEF ReadSome
  <2>2. capacity > 0 => Grown(Need(n)) = 2 * capacity
    BY <2>1, GrowthIsOneDoubling
  <2>3. /\ buf' = [buf EXCEPT !["out"] = @ - n]
        /\ \/ capacity = 0 /\ UNCHANGED <<capacity, length>>
           \/ 0 < capacity /\ length + n + 1 <= capacity
                /\ length' = length + n /\ UNCHANGED capacity
           \/ 0 < capacity /\ capacity < length + n + 1
                /\ capacity' = Grown(Need(n)) /\ length' = length + n
           \/ capacity' = 0 /\ UNCHANGED length
    BY <1>15 DEF ReadSome, Need
  <2>4. /\ pc' = "loop"
        /\ UNCHANGED <<child, procv, parentEnds, wrote, todo, sent, clockv, resultv>>
    BY <1>15 DEF ReadSome
  <2> HIDE DEF n
  <2>5. MemInv' /\ capacity' \in Nat /\ length' \in Nat
    BY <2>1, <2>2, <2>3, <2>4
  <2>6. buf' \in [Pipes -> 0 .. PipeCap]
    BY <2>1, <2>3
  <2>7. WorldTypeOK'
    BY <2>4, <2>6
  <2>8. QED
    BY <2>4, <2>5, <2>7
<1>22. QED
  BY <1>1, <1>2, <1>3, <1>4, <1>5, <1>6, <1>7, <1>8, <1>9, <1>10, <1>11, <1>12,
     <1>13, <1>14, <1>15, <1>16, <1>17, <1>18, <1>19, <1>20, <1>21
     DEF Next, CallerProgress, CallerTrouble, Done, SetupFails, Early

-----------------------------------------------------------------------------
(* The pipe ends open before each call.                                    *)
OpenAt ==
  CASE pc = "pipe_in"                -> {}
    [] pc = "pipe_out"               -> {R("in"), W("in")}
    [] pc \in {"fork", "close_ends"} -> {R("in"), W("in"), R("out"), W("out")}
    [] pc = "write"                  -> {W("in"), R("out")}
    [] pc \in Collecting             -> {R("out")}
    [] OTHER                         -> {}

EndsInv == parentEnds = OpenAt

\* The child closes no pipe end of the caller.
LEMMA ChildKeepsEnds == ASSUME ChildStep PROVE UNCHANGED parentEnds
  BY DEF ChildStep, ChildExec, ExecFails, ChildRead, Produce, BrokenPipe, ChildCloses,
         ChildSpawns, HeirsExit, ChildExits, ChildCrashes, ChildGone, ChildEnds

(* At each call of the function exactly the ends of OpenAt are open, since *)
(* every failure path and every exit closes what was made (ftl.h:83-230).  *)
LEMMA EndsAccounted ==
  ASSUME TypeOK, EndsInv, [Next]_vars PROVE EndsInv'
<1> USE DEF TypeOK, EndsInv, OpenAt, Collecting, R, W
<1>1. CASE CreateIn
  BY <1>1 DEF CreateIn, CreatePipe
<1>2. CASE CreateOut
  BY <1>2 DEF CreateOut, CreatePipe
<1>3. CASE SetupFails
  BY <1>3 DEF SetupFails, Fail
<1>4. CASE Fork
  BY <1>4 DEF Fork
<1>5. CASE CloseChildEnds
  BY <1>5 DEF CloseChildEnds
<1>6. CASE WriteSome
  BY <1>6 DEF WriteSome
<1>7. CASE DieOfSigpipe
  BY <1>7 DEF DieOfSigpipe
<1>8. CASE CloseStdin
  BY <1>8 DEF CloseStdin
<1>9. CASE DeadlinePassed
  BY <1>9 DEF DeadlinePassed, LeaveLoop
<1>10. CASE CallPoll
  BY <1>10 DEF CallPoll, wvars
<1>11. CASE PollReady
  BY <1>11 DEF PollReady, wvars
<1>12. CASE PollTimesOut
  BY <1>12 DEF PollTimesOut, LeaveLoop
<1>13. CASE PollAgain
  BY <1>13 DEF PollAgain, wvars
<1>14. CASE PollFails
  BY <1>14 DEF PollFails, LeaveLoop
<1>15. CASE ReadSome
  BY <1>15 DEF ReadSome
<1>16. CASE ReadEnds
  BY <1>16 DEF ReadEnds, LeaveLoop
<1>17. CASE Reap
  BY <1>17 DEF Reap
<1>18. CASE WaitInterrupted
  BY <1>18 DEF WaitInterrupted, wvars
<1>19. CASE ChildStep /\ UNCHANGED cvars
  BY <1>19, ChildKeepsEnds DEF cvars
<1>20. CASE Tick
  BY <1>20 DEF Tick, wvars
<1>21. CASE UNCHANGED vars
  BY <1>21 DEF vars, cvars, wvars
<1>22. QED
  BY <1>1, <1>2, <1>3, <1>4, <1>5, <1>6, <1>7, <1>8, <1>9, <1>10, <1>11, <1>12,
     <1>13, <1>14, <1>15, <1>16, <1>17, <1>18, <1>19, <1>20, <1>21
     DEF Next, CallerProgress, CallerTrouble, Done

-----------------------------------------------------------------------------
(* The child, and what is known of its end.                                *)
\* No child yet, or never.
Unborn == {"pipe_in", "pipe_out", "fork", "failed"}

LifeInv ==
  /\ child = "none" <=> pc \in Unborn
  /\ child = "reaped" => pc = "returned"
  /\ pc = "returned" /\ "wait" \notin mishaps => child = "reaped" /\ reported = status
  /\ status = "unset" <=> child \in {"none", "forked", "running", "dying"}
  /\ status = "sigkilled" \/ child = "dying" => killed
  /\ killed => pc \in {"wait", "returned"} /\ elapsed >= Timeout
  /\ pc = "returned" => timedOut = (elapsed >= Timeout)

\* A child that lives may end, by itself or because it was killed.
LEMMA ChildLives ==
  ASSUME WorldTypeOK, ChildStep
  PROVE  \/ UNCHANGED <<child, status>>
         \/ child = "forked" /\ child' = "running" /\ UNCHANGED status
         \/ /\ child \in {"forked", "running"} /\ child' = "zombie"
            /\ status' \in {"exited", "exec127", "crashed"}
         \/ child = "dying" /\ child' = "zombie" /\ status' = "sigkilled"
<1>1. CASE ChildExec \/ ExecFails
  BY <1>1 DEF ChildExec, ExecFails
<1>2. CASE ChildRead \/ ChildSpawns \/ HeirsExit
  BY <1>2 DEF ChildRead, ChildSpawns, HeirsExit
<1>3. CASE \E s \in OutPipes : Produce(s) \/ BrokenPipe(s)
  BY <1>3 DEF Produce, BrokenPipe
<1>4. CASE \E s \in Std : ChildCloses(s)
  BY <1>4 DEF ChildCloses
<1>5. CASE ChildExits \/ ChildCrashes \/ ChildGone
  BY <1>5 DEF ChildExits, ChildCrashes, ChildGone, ChildEnds
<1>6. QED
  BY <1>1, <1>2, <1>3, <1>4, <1>5 DEF ChildStep

(* Call, child, status, kill and elapsed time go together as LifeInv says, *)
(* from fork to waitpid (ftl.h:92-236).                                    *)
LEMMA ChildAccounted ==
  ASSUME TypeOK, LifeInv, [Next]_vars PROVE LifeInv'
<1> USE DEF TypeOK, WorldTypeOK, LifeInv, Unborn, Steps, Collecting, Finished, Statuses
<1>1. CASE CreateIn
  BY <1>1 DEF CreateIn, CreatePipe
<1>2. CASE CreateOut
  BY <1>2 DEF CreateOut, CreatePipe
<1>3. CASE SetupFails
  BY <1>3 DEF SetupFails, Fail
<1>4. CASE Fork
  BY <1>4 DEF Fork, ForkChild
<1>5. CASE CloseChildEnds
  BY <1>5 DEF CloseChildEnds
<1>6. CASE WriteSome
  BY <1>6 DEF WriteSome
<1>7. CASE DieOfSigpipe
  BY <1>7 DEF DieOfSigpipe
<1>8. CASE CloseStdin
  BY <1>8 DEF CloseStdin
<1>9. CASE DeadlinePassed
  BY <1>9 DEF DeadlinePassed, LeaveLoop, AfterKill, Alive
<1>10. CASE CallPoll
  BY <1>10 DEF CallPoll, wvars
<1>11. CASE PollReady
  BY <1>11 DEF PollReady, wvars
<1>12. CASE PollTimesOut
  BY <1>12 DEF PollTimesOut, LeaveLoop, AfterKill, Alive, AtDeadline
<1>13. CASE PollAgain
  BY <1>13 DEF PollAgain, wvars
<1>14. CASE PollFails
  BY <1>14 DEF PollFails, LeaveLoop
<1>15. CASE ReadSome
  BY <1>15 DEF ReadSome
<1>16. CASE ReadEnds
  BY <1>16 DEF ReadEnds, LeaveLoop
<1>17. CASE Reap
  BY <1>17 DEF Reap, WaitReturns
<1>18. CASE WaitInterrupted
  BY <1>18 DEF WaitInterrupted, wvars
<1>19. CASE ChildStep /\ UNCHANGED cvars
  BY <1>19, ChildLives DEF cvars
<1>20. CASE Tick
  BY <1>20 DEF Tick, wvars
<1>21. CASE UNCHANGED vars
  BY <1>21 DEF vars, cvars, wvars
<1>22. QED
  BY <1>1, <1>2, <1>3, <1>4, <1>5, <1>6, <1>7, <1>8, <1>9, <1>10, <1>11, <1>12,
     <1>13, <1>14, <1>15, <1>16, <1>17, <1>18, <1>19, <1>20, <1>21
     DEF Next, CallerProgress, CallerTrouble, Done

-----------------------------------------------------------------------------
(* The output: in the buffer or in the pipe, and after end-of-file none is *)
(* left in the pipe, to which nobody can write any more.                   *)
OutInv ==
  /\ pc \in Early \cup Unborn \/ capacity > 0 => length + buf["out"] = wrote["out"]
  /\ pc \in {"wait", "returned"} /\ ~killed /\ mishaps \cap {"poll", "read"} = {}
       => buf["out"] = 0

\* The child writes into an output pipe only while the caller reads it.
LEMMA ChildWrites ==
  ASSUME TypeOK, ChildStep
  PROVE  \/ UNCHANGED <<buf["out"], wrote["out"]>>
         \/ /\ R("out") \in parentEnds
            /\ buf["out"]' = buf["out"] + 1 /\ wrote["out"]' = wrote["out"] + 1
<1> USE DEF TypeOK, WorldTypeOK, Pipes, OutPipes
<1>1. CASE ChildRead
  BY <1>1 DEF ChildRead
<1>2. ASSUME NEW s \in OutPipes, Produce(s)
      PROVE  /\ R("out") \in parentEnds
             /\ buf["out"]' = buf["out"] + 1 /\ wrote["out"]' = wrote["out"] + 1
  <2>1. PipeOf(s) = "out"
    BY DEF PipeOf
  <2>2. QED
    BY <1>2, <2>1 DEF Produce
<1>3. CASE ChildExec \/ ExecFails \/ ChildSpawns \/ HeirsExit
  BY <1>3 DEF ChildExec, ExecFails, ChildSpawns, HeirsExit
<1>4. CASE (\E s \in OutPipes : BrokenPipe(s)) \/ (\E s \in Std : ChildCloses(s))
  BY <1>4 DEF BrokenPipe, ChildCloses
<1>5. CASE ChildExits \/ ChildCrashes \/ ChildGone
  BY <1>5 DEF ChildExits, ChildCrashes, ChildGone, ChildEnds
<1>6. QED
  BY <1>1, <1>2, <1>3, <1>4, <1>5 DEF ChildStep

(* No step loses output: what a read takes from the pipe is stored, and    *)
(* once the read end is closed nobody can write (ftl.h:199-230).           *)
LEMMA OutputAccounted ==
  ASSUME TypeOK, MemInv, EndsInv, LifeInv, OutInv, [Next]_vars PROVE OutInv'
<1> USE DEF TypeOK, WorldTypeOK, OutInv, Early, Unborn, Steps, Collecting, Finished, Pipes, OutPipes
<1>1. CASE CreateIn
  BY <1>1 DEF CreateIn, CreatePipe
<1>2. CASE CreateOut
  BY <1>2 DEF CreateOut, CreatePipe
<1>3. CASE SetupFails
  BY <1>3 DEF SetupFails, Fail
<1>4. CASE Fork
  BY <1>4 DEF Fork, ForkChild
<1>5. CASE CloseChildEnds
  BY <1>5 DEF CloseChildEnds
<1>6. CASE WriteSome
  BY <1>6 DEF WriteSome
<1>7. CASE DieOfSigpipe
  BY <1>7 DEF DieOfSigpipe, MemInv
<1>8. CASE CloseStdin
  BY <1>8 DEF CloseStdin
<1>9. CASE DeadlinePassed
  BY <1>9 DEF DeadlinePassed, LeaveLoop
<1>10. CASE CallPoll
  BY <1>10 DEF CallPoll, wvars
<1>11. CASE PollReady
  BY <1>11 DEF PollReady, wvars
<1>12. CASE PollTimesOut
  BY <1>12 DEF PollTimesOut, LeaveLoop
<1>13. CASE PollAgain
  BY <1>13 DEF PollAgain, wvars
<1>14. CASE PollFails
  BY <1>14 DEF PollFails, LeaveLoop
<1>15. CASE ReadSome
  <2> DEFINE n == AtMost(buf["out"], Chunk)
  <2>1. n \in 1 .. Chunk /\ n <= buf["out"]
    BY <1>15 DEF ReadSome, AtMost
  <2>2. buf["out"]' = buf["out"] - n /\ UNCHANGED wrote
    BY <1>15 DEF ReadSome
  <2>3. pc = "read" /\ pc' = "loop"
    BY <1>15 DEF ReadSome
  <2>4. capacity' = 0 \/ (capacity > 0 /\ length' = length + n)
    BY <1>15 DEF ReadSome
  <2> HIDE DEF n
  <2>5. QED
    BY <2>1, <2>2, <2>3, <2>4
<1>16. CASE ReadEnds
  BY <1>16 DEF ReadEnds, LeaveLoop, EndOfOutput
<1>17. CASE Reap
  BY <1>17 DEF Reap
<1>18. CASE WaitInterrupted
  BY <1>18 DEF WaitInterrupted, wvars
<1>19. CASE ChildStep /\ UNCHANGED cvars
  <2>1. R("out") \in parentEnds => pc \notin {"wait", "returned"}
    BY DEF EndsInv, OpenAt, R, W
  <2>2. QED
    BY <1>19, <2>1, ChildWrites DEF cvars
<1>20. CASE Tick
  BY <1>20 DEF Tick, wvars
<1>21. CASE UNCHANGED vars
  BY <1>21 DEF vars, cvars, wvars
<1>22. QED
  BY <1>1, <1>2, <1>3, <1>4, <1>5, <1>6, <1>7, <1>8, <1>9, <1>10, <1>11, <1>12,
     <1>13, <1>14, <1>15, <1>16, <1>17, <1>18, <1>19, <1>20, <1>21
     DEF Next, CallerProgress, CallerTrouble, Done

-----------------------------------------------------------------------------
\* The inductive invariant.
CmdInv == TypeOK /\ MemInv /\ EndsInv /\ LifeInv /\ OutInv

\* The function starts with nothing open, forked, sent or read.
LEMMA CmdInitial == Init => CmdInv
<1> SUFFICES ASSUME Init PROVE CmdInv
  OBVIOUS
<1> USE DEF Init, WorldInit
<1>1. WorldTypeOK
  BY DEF WorldTypeOK, Statuses, Ends, Std, Pipes, OutPipes
<1>2. pc \in Steps /\ reported \in Statuses
  BY DEF Steps, Statuses
<1>3. sigpipeIgnored \in BOOLEAN /\ killed \in BOOLEAN /\ timedOut \in BOOLEAN
  OBVIOUS
<1>4. TypeOK
  BY <1>1, <1>2, <1>3 DEF TypeOK
<1>5. MemInv /\ EndsInv
  BY DEF MemInv, EndsInv, OpenAt, Early, Collecting
<1>6. LifeInv
  BY DEF LifeInv, Unborn
<1>7. OutInv
  BY DEF OutInv, Pipes, OutPipes
<1>8. QED
  BY <1>4, <1>5, <1>6, <1>7 DEF CmdInv

\* The parts need each other: OutInv uses the room, the ends and the child.
LEMMA CmdInvariant == Spec => []CmdInv
<1>1. CmdInv /\ [Next]_vars => CmdInv'
  BY Typed, EndsAccounted, ChildAccounted, OutputAccounted DEF CmdInv
<1>2. QED
  BY <1>1, CmdInitial, PTL DEF Spec

(* Every reachable state of ftl_run_command has its type; the elapsed time *)
(* is never ahead of the clock.                                            *)
THEOREM TypeCorrect == Spec => []TypeOK
  BY CmdInvariant, PTL DEF CmdInv

(* The buffer is never written past its end, the NUL included              *)
(* (ftl.h:206-227, 237).                                                   *)
THEOREM BufferBounded == Spec => []BufferInBounds
<1>1. CmdInv => BufferInBounds
  BY DEF CmdInv, MemInv, BufferInBounds
<1>2. QED
  BY <1>1, CmdInvariant, PTL

(* However the function ends, no pipe end stays open, and if it failed     *)
(* nobody was forked (ftl.h:83-100, 230).                                  *)
THEOREM EndsAreClosed == Spec => []NothingLeaks
<1>1. CmdInv => NothingLeaks
  BY DEF CmdInv, EndsInv, OpenAt, LifeInv, Unborn, NothingLeaks, Finished, Collecting
<1>2. QED
  BY <1>1, CmdInvariant, PTL

(* Without kill, failed call or lack of memory the caller gets all that    *)
(* was ever written to the pipe.                                           *)
THEOREM OutputComplete == Spec => []NoOutputLost
<1>1. CmdInv => NoOutputLost
  BY DEF CmdInv, TypeOK, WorldTypeOK, OutInv, NoOutputLost, OutPipes, Pipes
<1>2. QED
  BY <1>1, CmdInvariant, PTL

(* The child of a call that came back has been reaped, unless waitpid was  *)
(* interrupted (ftl.h:234).                                                *)
THEOREM NoOrphan == Spec => []NoChildLeftBehind
<1>1. CmdInv => NoChildLeftBehind
  BY DEF CmdInv, LifeInv, Unborn, NoChildLeftBehind
<1>2. QED
  BY <1>1, CmdInvariant, PTL

(* The status is the one the child ended with, and a SIGKILL of the        *)
(* function's own goes with timed_out.                                     *)
THEOREM ReportTrue == Spec => []ReportIsTruth
<1>1. CmdInv => ReportIsTruth
  BY DEF CmdInv, LifeInv, Unborn, ReportIsTruth
<1>2. QED
  BY <1>1, CmdInvariant, PTL

\* SIGKILL is sent at the deadline or later (ftl.h:162-188), for any slice.
THEOREM NoEarlyKill == Spec => KillOnlyAtDeadline
<1>1. ASSUME CmdInv, [Next]_vars, ~killed, killed' PROVE now >= Timeout
  <2> USE DEF CmdInv, TypeOK
  <2>1. CASE DeadlinePassed
    BY <1>1, <2>1 DEF DeadlinePassed
  <2>2. CASE PollTimesOut
    BY <1>1, <2>2 DEF PollTimesOut, AtDeadline
  <2>3. CASE UNCHANGED killed
    BY <1>1, <2>3
  <2>4. DeadlinePassed \/ PollTimesOut \/ UNCHANGED killed
    BY <1>1 DEF Next, CallerProgress, CallerTrouble, Done, vars, cvars, CreateIn, CreateOut,
       CreatePipe, SetupFails, Fail, Fork, CloseChildEnds, WriteSome, DieOfSigpipe,
       CloseStdin, CallPoll, PollReady, PollAgain, PollFails, ReadSome, ReadEnds, Reap,
       WaitInterrupted, Tick
  <2>5. QED
    BY <2>1, <2>2, <2>3, <2>4
<1>2. QED
  BY <1>1, CmdInvariant, PTL DEF Spec, KillOnlyAtDeadline

(* The buffer stays, doubles once or is given up: the inner loop at        *)
(* ftl.h:209-210 never has work, for any size of buffer and read.          *)
THEOREM DoublingSuffices == Spec => OneDoublingIsEnough
<1>1. ASSUME CmdInv, [Next]_vars, capacity > 0
      PROVE  capacity' \in {0, capacity, 2 * capacity}
  <2>1. CASE CloseStdin
    BY <1>1, <2>1 DEF CmdInv, MemInv, Early, CloseStdin
  <2>2. CASE ReadSome
    <3> DEFINE n == AtMost(buf["out"], Chunk)
    <3>1. n \in 1 .. Chunk
      BY <1>1, <2>2 DEF ReadSome, AtMost, CmdInv, TypeOK, WorldTypeOK, Pipes
    <3>2. capacity' \in {0, capacity, Grown(Need(n))}
      BY <2>2 DEF ReadSome
    <3> HIDE DEF n
    <3>3. QED
      BY <1>1, <3>1, <3>2, GrowthIsOneDoubling DEF CmdInv
  <2>3. CloseStdin \/ ReadSome \/ UNCHANGED capacity
    BY <1>1 DEF Next, CallerProgress, CallerTrouble, Done, vars, cvars, CreateIn, CreateOut,
       CreatePipe, SetupFails, Fail, Fork, CloseChildEnds, WriteSome, DieOfSigpipe,
       DeadlinePassed, CallPoll, PollReady, PollTimesOut, PollAgain, PollFails, ReadEnds,
       Reap, WaitInterrupted, Tick
  <2>4. QED
    BY <2>1, <2>2, <2>3
<1>2. QED
  BY <1>1, CmdInvariant, PTL DEF Spec, OneDoublingIsEnough
=============================================================================

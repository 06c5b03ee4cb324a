--------------------------- MODULE SubprocessProofs ---------------------------
(***************************************************************************)
(* Theorems about Subprocess, for every pipe capacity, payload, timeout,   *)
(* chunk size and set of faults.                                           *)
(***************************************************************************)
EXTENDS Subprocess, TLAPS

USE WorldAssumption, RunAssumption
  DEF WorldAssumption, RunAssumption, procv, bufv, loopv, resultv, ownv

(* Every action of the parent, its child and the kernel keeps the types:   *)
(* in particular no counter of collect() leaves its range.                 *)
THEOREM TypeCorrect == Spec => []TypeOK
<1> USE DEF TypeOK, WorldTypeOK, Pipes, OutPipes, Std, Statuses, Ends, R, W,
            Steps, Collecting, Finished, Destructors
<1>1. Init => TypeOK
  <2> SUFFICES ASSUME Init PROVE TypeOK
    OBVIOUS
  <2> USE DEF Init, WorldInit
  <2>1. WorldTypeOK
    <3>1. todo \in Nat
      BY DEF WorldInit
    <3>2. QED
      BY <3>1
  <2>2. timedOut \in BOOLEAN
    OBVIOUS
  <2>3. got \in [OutPipes -> Nat]
    OBVIOUS
  <2>4. pc \in Steps /\ reported \in Statuses
    OBVIOUS
  <2>5. open \subseteq OutPipes /\ ready \subseteq OutPipes
    OBVIOUS
  <2>6. slice \in Int /\ left \in 0 .. Timeout /\ sent \in 0 .. StdinSize
    OBVIOUS
  <2>7. runOwns \subseteq Ends /\ collectOwns \subseteq Ends
    OBVIOUS
  <2>8. QED
    BY <2>1, <2>2, <2>3, <2>4, <2>5, <2>6, <2>7
<1>2. TypeOK /\ [Next]_vars => TypeOK'
  <2> SUFFICES ASSUME TypeOK, [Next]_vars PROVE TypeOK'
    OBVIOUS
  <2>1. CASE CreateIn
    BY <2>1 DEF CreateIn, CreatePipe
  <2>2. CASE CreateOut
    BY <2>2 DEF CreateOut, CreatePipe
  <2>3. CASE CreateErr
    BY <2>3 DEF CreateErr, CreatePipe
  <2>4. CASE SetupFails
    BY <2>4 DEF SetupFails, Throw
  <2>5. CASE Fork
    BY <2>5 DEF Fork, ForkChild
  <2>6. CASE CloseChildEnds
    BY <2>6 DEF CloseChildEnds, ResetRun
  <2>7. CASE WriteSome
    BY <2>7 DEF WriteSome
  <2>8. CASE CloseStdin
    BY <2>8 DEF CloseStdin, Sources, Released, TakenOver
  <2>9. CASE LoopEnds
    BY <2>9 DEF LoopEnds, wvars
  <2>10. CASE DeadlinePassed
    BY <2>10 DEF DeadlinePassed, KillAtDeadline, AfterKill
  <2>11. CASE CallPoll
    <3>1. ToInt(left) \in Int
      BY DEF ToInt
    <3>2. QED
      BY <2>11, <3>1 DEF CallPoll, wvars
  <2>12. CASE PollReady
    BY <2>12 DEF PollReady, ReadySources, wvars
  <2>13. CASE PollTimesOut
    BY <2>13 DEF PollTimesOut, KillAtDeadline, AfterKill
  <2>14. CASE PollInterrupted
    BY <2>14 DEF PollInterrupted, wvars
  <2>15. CASE PollFails
    BY <2>15 DEF PollFails, Throw
  <2>16. CASE Drain
    BY <2>16 DEF Drain, NextSource, AtMost
  <2>17. CASE AppendFails
    BY <2>17 DEF AppendFails, Throw, NextSource, AtMost
  <2>18. CASE Reap
    BY <2>18 DEF Reap
  <2>19. CASE WaitInterrupted
    BY <2>19 DEF WaitInterrupted
  <2>20. CASE ChildStep /\ UNCHANGED rvars
    <3> USE <2>20 DEF rvars
    <3>1. CASE ChildExec
      BY <3>1 DEF ChildExec
    <3>2. CASE ExecFails
      BY <3>2 DEF ExecFails
    <3>3. CASE ChildRead
      BY <3>3 DEF ChildRead
    <3>4. ASSUME NEW s \in OutPipes, Produce(s) PROVE TypeOK'
      <4>1. PipeOf(s) \in OutPipes
        BY DEF PipeOf
      <4>2. QED
        BY <3>4, <4>1 DEF Produce
    <3>5. ASSUME NEW s \in OutPipes, BrokenPipe(s) PROVE TypeOK'
      <4>1. CASE UNCHANGED <<child, status, childStd>>
        BY <3>5, <4>1 DEF BrokenPipe
      <4>2. CASE child' = "zombie" /\ status' = "crashed" /\ childStd' = {}
        BY <3>5, <4>2 DEF BrokenPipe
      <4>3. QED
        BY <3>5, <4>1, <4>2 DEF BrokenPipe
    <3>6. ASSUME NEW s \in Std, ChildCloses(s) PROVE TypeOK'
      BY <3>6 DEF ChildCloses
    <3>7. CASE ChildSpawns
      BY <3>7 DEF ChildSpawns
    <3>8. CASE HeirsExit
      BY <3>8 DEF HeirsExit
    <3>9. CASE ChildExits \/ ChildCrashes \/ ChildGone
      BY <3>9 DEF ChildExits, ChildCrashes, ChildGone, ChildEnds
    <3>10. QED
      BY <3>1, <3>2, <3>3, <3>4, <3>5, <3>6, <3>7, <3>8, <3>9 DEF ChildStep
  <2>21. CASE Tick
    BY <2>21 DEF Tick, wvars
  <2>22. CASE UNCHANGED vars
    BY <2>22 DEF vars, rvars, wvars
  <2>23. QED
    BY <2>1, <2>2, <2>3, <2>4, <2>5, <2>6, <2>7, <2>8, <2>9, <2>10, <2>11,
       <2>12, <2>13, <2>14, <2>15, <2>16, <2>17, <2>18, <2>19, <2>20, <2>21,
       <2>22 DEF Next, ParentStep, ParentProgress, ParentTrouble, Done
<1>3. QED
  BY <1>1, <1>2, PTL DEF Spec

-----------------------------------------------------------------------------
Before == {"pipe_in", "pipe_out", "pipe_err", "fork"}

(* After the fork nobody gets a pipe end that he did not have: the parent  *)
(* and the child only drop theirs, except that exec turns the inherited    *)
(* ends into standard streams; descendants get what the child has.         *)
LEMMA EndsOnlyDrop ==
  ASSUME pc \notin Before, [Next]_vars
  PROVE  /\ parentEnds' \subseteq parentEnds
         /\ inherited' \subseteq inherited
         /\ heirStd' \subseteq heirStd \cup childStd
         /\ childStd' \subseteq childStd \/ child = "forked"
<1> USE DEF Before
<1>1. CASE ParentTrouble
  BY <1>1 DEF ParentTrouble, SetupFails, PollInterrupted, PollFails,
              AppendFails, WaitInterrupted, Throw, Destructors, wvars
<1>2. CASE CreateIn \/ CreateOut \/ CreateErr \/ Fork
  BY <1>2 DEF CreateIn, CreateOut, CreateErr, CreatePipe, Fork
<1>3. CASE CloseChildEnds \/ WriteSome \/ CloseStdin \/ LoopEnds \/ CallPoll
  BY <1>3 DEF CloseChildEnds, ResetRun, WriteSome, CloseStdin, LoopEnds, CallPoll,
              wvars
<1>4. CASE DeadlinePassed \/ PollTimesOut
  BY <1>4 DEF DeadlinePassed, PollTimesOut, KillAtDeadline
<1>5. CASE PollReady \/ Drain \/ Reap
  BY <1>5 DEF PollReady, Drain, Reap, Destructors, wvars
<1>6. CASE ChildExec \/ ExecFails \/ ChildRead \/ ChildSpawns \/ HeirsExit
  BY <1>6 DEF ChildExec, ExecFails, ChildRead, ChildSpawns, HeirsExit
<1>7. CASE ChildExits \/ ChildCrashes \/ ChildGone
  BY <1>7 DEF ChildExits, ChildCrashes, ChildGone, ChildEnds
<1>8. ASSUME NEW s \in Std, Produce(s) \/ BrokenPipe(s) \/ ChildCloses(s)
      PROVE  /\ parentEnds' \subseteq parentEnds
             /\ inherited' \subseteq inherited
             /\ heirStd' \subseteq heirStd \cup childStd
             /\ childStd' \subseteq childStd \/ child = "forked"
  BY <1>8 DEF Produce, BrokenPipe, ChildCloses
<1>9. CASE Tick \/ UNCHANGED vars
  BY <1>9 DEF Tick, vars, wvars
<1>10. QED
  BY <1>1, <1>2, <1>3, <1>4, <1>5, <1>6, <1>7, <1>8, <1>9
     DEF Next, ParentStep, ParentProgress, ChildStep, Done, Std, OutPipes

(* An output pipe that lost its last writer never has one again.           *)
LEMMA WritersStayAway ==
  ASSUME TypeOK, OutputInv, [Next]_vars, pc \notin Before,
         NEW p \in Sources, ~HasWriter(p)
  PROVE  ~HasWriter(p)'
<1>1. /\ parentEnds' \subseteq parentEnds
      /\ inherited' \subseteq inherited
      /\ heirStd' \subseteq heirStd \cup childStd
      /\ childStd' \subseteq childStd \/ child = "forked"
  BY EndsOnlyDrop
<1>2. child # "forked"
  BY DEF OutputInv, HasWriter
<1>3. QED
  BY <1>1, <1>2 DEF HasWriter, PipeOf

\* The source that is read next is a ready one.
LEMMA NextIsReady ==
  ASSUME ready # {}, ready \subseteq {"out", "err"}
  PROVE  NextSource \in ready
BY DEF NextSource

(* One step keeps OutputInv.  <2>1 is all that is needed about writers.    *)
LEMMA OutputStep ==
  ASSUME TypeOK, OutputInv, [Next]_vars
  PROVE  OutputInv'
<1>1. pc \notin Before =>
        \A p \in Sources : ~HasWriter(p) => ~HasWriter(p)'
  BY WritersStayAway
<1> USE <1>1 DEF OutputInv, TypeOK, WorldTypeOK, Before, Sources, OutPipes,
               Pipes, Collecting, Readable
<1>2. CASE CreateIn \/ CreateOut \/ CreateErr
  BY <1>2 DEF CreateIn, CreateOut, CreateErr, CreatePipe, Sources
<1>3. CASE SetupFails \/ PollFails
  BY <1>3 DEF SetupFails, PollFails, Throw, Destructors
<1>4. CASE Fork
  BY <1>4 DEF Fork, ForkChild
<1>5. CASE CloseChildEnds \/ WriteSome
  <2>1. CASE CloseChildEnds
    BY <2>1 DEF CloseChildEnds, ResetRun
  <2>2. CASE WriteSome
    BY <2>2 DEF WriteSome
  <2>3. QED
    BY <1>5, <2>1, <2>2
<1>6. CASE CloseStdin
  BY <1>6 DEF CloseStdin
<1>7. CASE LoopEnds \/ CallPoll \/ PollInterrupted
  BY <1>7 DEF LoopEnds, CallPoll, PollInterrupted, wvars
<1>8. CASE DeadlinePassed \/ PollTimesOut
  BY <1>8 DEF DeadlinePassed, PollTimesOut, KillAtDeadline, AfterKill, Alive
<1>9. CASE PollReady
  BY <1>9 DEF PollReady, ReadySources, wvars
<1>10. CASE Drain
  <2> DEFINE p == NextSource
             n == AtMost(buf[p], Chunk)
  <2>1. p \in ready /\ p \in open /\ p \in Sources /\ Readable(p)
    <3>1. /\ pc = "drain" /\ ready # {} /\ ready \subseteq open /\ open \subseteq Sources
          /\ \A q \in ready : Readable(q)
      BY <1>10 DEF Drain
    <3>2. p \in ready
      <4>1. ready \subseteq {"out", "err"}
        BY <3>1
      <4>2. QED
        BY <3>1, <4>1, NextIsReady
    <3>3. QED
      BY <3>1, <3>2
  <2>2. n \in Nat /\ n <= buf[p] /\ (n = 0 => buf[p] = 0)
    BY <2>1 DEF AtMost
  <2>3. /\ pc = "drain" /\ pc' \in {"loop", "drain"}
        /\ buf' = [buf EXCEPT ![p] = @ - n]
        /\ got' = [got EXCEPT ![p] = @ + n]
        /\ open' = IF n = 0 THEN open \ {p} ELSE open
        /\ ready' = ready \ {p}
        /\ pc' = "drain" => ready' # {}
        /\ UNCHANGED <<child, parentEnds, inherited, wrote, timedOut>>
    BY <1>10, <2>1 DEF Drain
  <2> HIDE DEF p, n
  <2>4. \A q \in OutPipes : got'[q] + buf'[q] = wrote'[q]
    BY <2>1, <2>2, <2>3
  <2>5. \A q \in Sources \ open' : buf'[q] = 0 /\ ~HasWriter(q)'
    BY <2>1, <2>2, <2>3
  <2>6. pc' = "drain" => \A q \in ready' : Readable(q)'
    BY <2>1, <2>2, <2>3
  <2>7. QED
    BY <2>1, <2>2, <2>3, <2>4, <2>5, <2>6
<1>11. CASE AppendFails
  BY <1>11 DEF AppendFails, Throw, Destructors
<1>12. CASE Reap \/ WaitInterrupted
  BY <1>12 DEF Reap, WaitInterrupted, Destructors
<1>13. CASE ChildStep /\ UNCHANGED rvars
  <2> USE <1>13 DEF rvars
  <2>1. CASE ChildExec \/ ExecFails
    BY <2>1 DEF ChildExec, ExecFails
  <2>2. CASE ChildRead
    BY <2>2 DEF ChildRead
  <2>3. ASSUME NEW s \in OutPipes, Produce(s) PROVE OutputInv'
    <3>1. PipeOf(s) \in Sources /\ HasWriter(PipeOf(s))
      BY <2>3 DEF Produce, PipeOf, HasWriter
    <3>2. QED
      BY <2>3, <3>1 DEF Produce
  <2>4. ASSUME NEW s \in OutPipes, BrokenPipe(s) PROVE OutputInv'
    BY <2>4 DEF BrokenPipe
  <2>5. ASSUME NEW s \in Std, ChildCloses(s) PROVE OutputInv'
    BY <2>5 DEF ChildCloses
  <2>6. CASE ChildSpawns \/ HeirsExit
    BY <2>6 DEF ChildSpawns, HeirsExit
  <2>7. CASE ChildExits \/ ChildCrashes \/ ChildGone
    BY <2>7 DEF ChildExits, ChildCrashes, ChildGone, ChildEnds
  <2>8. QED
    BY <2>1, <2>2, <2>3, <2>4, <2>5, <2>6, <2>7 DEF ChildStep
<1>14. CASE Tick
  BY <1>14 DEF Tick, wvars
<1>15. CASE UNCHANGED vars
  BY <1>15 DEF vars, rvars, wvars
<1>16. QED
  BY <1>2, <1>3, <1>4, <1>5, <1>6, <1>7, <1>8, <1>9, <1>10, <1>11, <1>12,
     <1>13, <1>14, <1>15
     DEF Next, ParentStep, ParentProgress, ParentTrouble, Done

(* Every unit is accounted for, and end-of-file is final.                  *)
THEOREM OutputAccounted == Spec => []OutputInv
<1>1. Init => OutputInv
  BY DEF Init, WorldInit, OutputInv, Sources, OutPipes, Pipes, Collecting
<1>2. TypeOK /\ OutputInv /\ [Next]_vars => OutputInv'
  BY OutputStep
<1>3. QED
  BY <1>1, <1>2, TypeCorrect, PTL DEF Spec

(* A run that does not time out returns all of the output, whoever wrote   *)
(* it, and whichever stream was closed first (subprocess.hpp:360-411).     *)
THEOREM OutputComplete == Spec => []NoOutputLost
<1>1. TypeOK /\ OutputInv => NoOutputLost
  <2> SUFFICES ASSUME TypeOK, OutputInv, pc = "returned", ~timedOut
               PROVE  got = wrote
    BY DEF NoOutputLost
  <2>1. open = {}
    BY DEF OutputInv
  <2>2. \A p \in Sources : buf[p] = 0
    BY <2>1 DEF OutputInv
  <2>3. \A p \in OutPipes : got[p] = wrote[p]
    BY <2>2 DEF OutputInv, TypeOK, WorldTypeOK, OutPipes, Pipes
  <2>4. QED
    BY <2>3 DEF TypeOK, WorldTypeOK
<1>2. QED
  BY <1>1, TypeCorrect, OutputAccounted, PTL

(* The read in drain_once never blocks (subprocess.hpp:402-410).           *)
THEOREM ReadsNeverBlock == Spec => []DrainNeverBlocks
<1>1. TypeOK /\ OutputInv => DrainNeverBlocks
  BY DEF TypeOK, OutputInv, DrainNeverBlocks, NextSource, OutPipes
<1>2. QED
  BY <1>1, TypeCorrect, OutputAccounted, PTL

-----------------------------------------------------------------------------
\* poll()'s timeout runs out when the deadline is reached, not before.
SliceIsLeft == pc = "poll" => slice = left

(* One step keeps the two together, and kills only at the deadline.        *)
LEMMA SliceStep ==
  ASSUME Timeout <= IntMax, TypeOK, SliceIsLeft, [Next]_vars
  PROVE  /\ SliceIsLeft'
         /\ child # "dying" /\ child' = "dying" => left = 0
<1> USE DEF TypeOK, SliceIsLeft
<1>1. CASE CallPoll
  BY <1>1 DEF CallPoll, ToInt, wvars
<1>2. CASE DeadlinePassed \/ PollTimesOut
  BY <1>2 DEF DeadlinePassed, PollTimesOut, KillAtDeadline
<1>3. CASE Tick
  BY <1>3 DEF Tick, wvars
<1>4. CASE CreateIn \/ CreateOut \/ CreateErr \/ Fork \/ CloseChildEnds
  BY <1>4 DEF CreateIn, CreateOut, CreateErr, CreatePipe, Fork,
              ForkChild, CloseChildEnds
<1>5. CASE WriteSome \/ CloseStdin \/ LoopEnds \/ PollReady \/ Drain \/ Reap
  BY <1>5 DEF WriteSome, CloseStdin, LoopEnds, PollReady, Drain, Reap,
              wvars
<1>6. CASE ParentTrouble
  BY <1>6 DEF ParentTrouble, SetupFails, PollInterrupted, PollFails,
              AppendFails, WaitInterrupted, Throw, Destructors, wvars
<1>7. CASE ChildStep /\ UNCHANGED rvars
  BY <1>7
     DEF ChildStep, ChildExec, ExecFails, ChildRead, Produce, BrokenPipe,
         ChildCloses, ChildSpawns, HeirsExit, ChildExits, ChildCrashes,
         ChildGone, ChildEnds, rvars
<1>8. CASE UNCHANGED vars
  BY <1>8 DEF vars, rvars, wvars
<1>9. QED
  BY <1>1, <1>2, <1>3, <1>4, <1>5, <1>6, <1>7, <1>8
     DEF Next, ParentStep, ParentProgress, Done

(* Whenever run() is in poll(), the timeout it gave is what is left.       *)
LEMMA SliceTracksDeadline ==
  ASSUME Timeout <= IntMax
  PROVE  Spec => []SliceIsLeft
<1>1. Init => SliceIsLeft
  BY DEF Init, SliceIsLeft
<1>2. TypeOK /\ SliceIsLeft /\ [Next]_vars => SliceIsLeft'
  BY SliceStep
<1>3. QED
  BY <1>1, <1>2, TypeCorrect, PTL DEF Spec

(* As long as the timeout fits the int that poll() takes, nobody is killed *)
(* before the deadline.  The assumption is needed: the cast of a long long *)
(* at subprocess.hpp:387-388 turns a longer one into a short one.          *)
THEOREM NoEarlyKill ==
  ASSUME Timeout <= IntMax
  PROVE  Spec => KillOnlyAtDeadline
<1>1. TypeOK /\ SliceIsLeft /\ [Next]_vars
        => [child # "dying" /\ child' = "dying" => left = 0]_vars
  BY SliceStep
<1>2. QED
  BY <1>1, TypeCorrect, SliceTracksDeadline, PTL DEF Spec, KillOnlyAtDeadline

-----------------------------------------------------------------------------
(* The life of the child against the steps of run().                       *)
ReapInv ==
  /\ pc \in Before => child = "none"
  /\ pc \notin Before \cup Finished => child \notin {"none", "reaped"}
  /\ pc = "threw" => child = "none"
  /\ pc = "returned" => child = "reaped" /\ reported = status
  /\ pc # "returned" => reported = "unset"
  /\ pc \notin {"wait", "returned"} => ~timedOut
  /\ (status = "unset") = (child \notin {"zombie", "reaped"})
  /\ child = "dying" \/ status = "sigkilled" => timedOut

(* Where no call fails after the fork, every child is reaped and the       *)
(* status in the result is the way it ended.  A failing poll(), append or  *)
(* waitpid leaves the child behind, so those faults are excluded.          *)
LEMMA ChildAccounted ==
  ASSUME Faults \subseteq {"pipe", "fork"}
  PROVE  Spec => []ReapInv
<1> USE DEF ReapInv, TypeOK, WorldTypeOK, Before, Finished, Statuses
<1>1. Init => ReapInv
  BY DEF Init, WorldInit
<1>2. ASSUME TypeOK, ReapInv, [Next]_vars PROVE ReapInv'
  <2> USE <1>2
  <2>1. CASE CreateIn \/ CreateOut \/ CreateErr
    BY <2>1 DEF CreateIn, CreateOut, CreateErr, CreatePipe
  <2>2. CASE Fork \/ CloseChildEnds
    BY <2>2 DEF Fork, ForkChild, CloseChildEnds
  <2>3. CASE WriteSome \/ CloseStdin
    BY <2>3 DEF WriteSome, CloseStdin
  <2>4. CASE LoopEnds \/ CallPoll \/ PollReady
    BY <2>4 DEF LoopEnds, CallPoll, PollReady, wvars
  <2>5. CASE DeadlinePassed \/ PollTimesOut
    BY <2>5 DEF DeadlinePassed, PollTimesOut, KillAtDeadline, AfterKill, Alive
  <2>6. CASE Drain
    BY <2>6 DEF Drain
  <2>7. CASE Reap
    BY <2>7 DEF Reap
  <2>8. CASE ParentTrouble
    BY <2>8 DEF ParentTrouble, SetupFails, PollInterrupted, PollFails,
                AppendFails, WaitInterrupted, Throw, Destructors, wvars
  <2>9. CASE ChildStep /\ UNCHANGED rvars
    <3> USE <2>9 DEF rvars
    <3>1. CASE ChildExec \/ ExecFails \/ ChildRead \/ ChildSpawns \/ HeirsExit
      BY <3>1 DEF ChildExec, ExecFails, ChildRead, ChildSpawns, HeirsExit
    <3>2. ASSUME NEW s \in Std, Produce(s) \/ BrokenPipe(s) \/ ChildCloses(s)
          PROVE  ReapInv'
      BY <3>2 DEF Produce, BrokenPipe, ChildCloses
    <3>3. CASE ChildExits \/ ChildCrashes \/ ChildGone
      BY <3>3 DEF ChildExits, ChildCrashes, ChildGone, ChildEnds
    <3>4. QED
      BY <3>1, <3>2, <3>3 DEF ChildStep, Std, OutPipes
  <2>10. CASE Tick \/ UNCHANGED vars
    BY <2>10 DEF Tick, vars, rvars, wvars
  <2>11. QED
    BY <2>1, <2>2, <2>3, <2>4, <2>5, <2>6, <2>7, <2>8, <2>9, <2>10
       DEF Next, ParentStep, ParentProgress, Done
<1>3. QED
  BY <1>1, <1>2, TypeCorrect, PTL DEF Spec

(* The status the caller is given is the child's (subprocess.hpp:413).     *)
THEOREM ReportTrue ==
  ASSUME Faults \subseteq {"pipe", "fork"}
  PROVE  Spec => []ReportIsTruth
<1>1. ReapInv => ReportIsTruth
  BY DEF ReapInv, ReportIsTruth
<1>2. QED
  BY <1>1, ChildAccounted, PTL

-----------------------------------------------------------------------------
(* The pipe ends that the UniqueFds of run() hold before each call: both   *)
(* ends of every pipe up to the fork, and while output is collected the    *)
(* read ends alone, so that end-of-file can come.                          *)
Reads == {R(p) : p \in Sources}

OpenAt ==
  CASE pc = "pipe_in"                -> {}
    [] pc = "pipe_out"               -> {R("in"), W("in")}
    [] pc = "pipe_err"               -> {R("in"), W("in"), R("out"), W("out")}
    [] pc \in {"fork", "close_ends"} -> {R("in"), W("in")} \cup Reads \cup {W(p) : p \in Sources}
    [] pc = "write"                  -> {W("in")} \cup Reads
    [] pc \in Collecting \cup {"wait"} -> Reads
    [] OTHER                         -> {}

InCollect == pc \in Collecting \cup {"wait"}

(* ... and which of the two frames holds them.                             *)
EndsInv ==
  /\ runOwns = IF InCollect THEN {} ELSE OpenAt
  /\ collectOwns = IF InCollect THEN OpenAt ELSE {}
  /\ parentEnds = OpenAt
  /\ pc = "pipe_err" => Split

(* Each call leaves exactly the ends that the next one expects, in the     *)
(* right hands, whatever fails (subprocess.hpp:168-198, 346-347).          *)
LEMMA EndsAccounted ==
  ASSUME TypeOK, EndsInv, [Next]_vars PROVE EndsInv'
<1> USE DEF EndsInv, InCollect, OpenAt, Reads, Sources, OutPipes, Collecting, R, W
<1>1. CASE CreateIn \/ CreateOut \/ CreateErr
  BY <1>1 DEF CreateIn, CreateOut, CreateErr, CreatePipe
<1>2. CASE Fork
  BY <1>2 DEF Fork
<1>3. CASE CloseChildEnds
  BY <1>3 DEF CloseChildEnds, ResetRun
<1>4. CASE WriteSome
  BY <1>4 DEF WriteSome
<1>5. CASE CloseStdin
  <2>1. /\ pc = "write" /\ pc' = "loop"
        /\ runOwns = {W("in")} \cup Reads /\ parentEnds = {W("in")} \cup Reads
        /\ runOwns' = runOwns \ ({W("in")} \cup Released) /\ collectOwns' = Released
        /\ parentEnds' = parentEnds \ (runOwns \cap {W("in")})
    BY <1>5 DEF CloseStdin, TakenOver
  <2>2. Released = Reads /\ W("in") \notin Reads
    BY <2>1 DEF Released
  <2>3. runOwns' = {} /\ collectOwns' = Reads /\ parentEnds' = Reads
    BY <2>1, <2>2
  <2>4. QED
    BY <2>1, <2>3
<1>6. CASE LoopEnds \/ CallPoll \/ PollReady \/ PollInterrupted \/ Drain
  BY <1>6 DEF LoopEnds, CallPoll, PollReady, PollInterrupted, Drain, wvars
<1>7. CASE DeadlinePassed \/ PollTimesOut
  BY <1>7 DEF DeadlinePassed, PollTimesOut, KillAtDeadline
<1>8. CASE Reap \/ WaitInterrupted \/ SetupFails \/ PollFails \/ AppendFails
  <2>1. pc' \in Finished /\ Destructors
    BY <1>8 DEF Reap, WaitInterrupted, SetupFails, PollFails, AppendFails, Throw, Finished
  <2>2. collectOwns \cup runOwns = parentEnds
    OBVIOUS
  <2>3. QED
    BY <2>1, <2>2 DEF Destructors, Finished
<1>9. CASE ChildStep /\ UNCHANGED rvars
  <2>1. UNCHANGED <<parentEnds, pc, runOwns, collectOwns>>
    BY <1>9 DEF rvars, ChildStep, ChildExec, ExecFails, ChildRead, Produce, BrokenPipe,
       ChildCloses, ChildSpawns, HeirsExit, ChildExits, ChildCrashes, ChildGone, ChildEnds
  <2>2. QED
    BY <2>1
<1>10. CASE Tick \/ UNCHANGED vars
  BY <1>10 DEF Tick, vars, rvars, wvars
<1>11. QED
  BY <1>1, <1>2, <1>3, <1>4, <1>5, <1>6, <1>7, <1>8, <1>9, <1>10
     DEF Next, ParentStep, ParentProgress, ParentTrouble, Done

(* From pipe() to the return or the exception, whichever call failed, each *)
(* open pipe end is held by exactly one UniqueFd, across the release() of  *)
(* the read ends into collect(); so none is left open, none closed twice.  *)
THEOREM EndsAreClosed == Spec => []EndsHaveOneOwner
<1>1. Init => EndsInv
  <2>1. Init => pc = "pipe_in" /\ parentEnds = {} /\ runOwns = {} /\ collectOwns = {}
    BY DEF Init, WorldInit
  <2>2. QED
    BY <2>1 DEF EndsInv, InCollect, OpenAt, Collecting
<1>2. EndsInv => EndsHaveOneOwner
  BY DEF EndsInv, InCollect, OpenAt, EndsHaveOneOwner, Finished, Collecting
<1>3. QED
  BY <1>1, <1>2, EndsAccounted, TypeCorrect, PTL DEF Spec

-----------------------------------------------------------------------------
(* Subprocess implements RunContract.                                      *)
USE DEF Armed

(* Steps of the parent.  Forking is Start, the kill is Kill, reaping is    *)
(* Return, a failed set-up is SetupFails; everything else is internal.     *)
LEMMA ParentRefines ==
  ASSUME TypeOK, ReapInv, SliceIsLeft, Timeout <= IntMax,
         Faults \subseteq {"pipe", "fork"}, ParentStep
  PROVE  [Contract!Next]_(Contract!cvars)
<1> USE DEF TypeOK, WorldTypeOK, ReapInv, SliceIsLeft, Before, Collecting,
            Finished, Statuses, Contract!cvars
<1>1. CASE CreateIn \/ CreateOut \/ CreateErr
  BY <1>1 DEF CreateIn, CreateOut, CreateErr, CreatePipe
<1>2. CASE SetupFails
  <2>1. Contract!SetupFails
    BY <1>2 DEF SetupFails, Throw, Contract!SetupFails
  <2>2. QED
    BY <2>1 DEF Contract!Next
<1>3. CASE Fork
  <2>1. Contract!Start
    BY <1>3 DEF Fork, ForkChild, Contract!Start
  <2>2. QED
    BY <2>1 DEF Contract!Next
<1>4. CASE CloseChildEnds \/ WriteSome \/ CloseStdin
  BY <1>4 DEF CloseChildEnds, WriteSome, CloseStdin
<1>5. CASE LoopEnds \/ CallPoll \/ PollReady \/ PollInterrupted \/ Drain
  BY <1>5 DEF LoopEnds, CallPoll, PollReady, PollInterrupted, Drain, wvars
<1>6. CASE DeadlinePassed \/ PollTimesOut
  <2>1. Contract!Kill
    BY <1>6 DEF DeadlinePassed, PollTimesOut, KillAtDeadline, AfterKill, Alive,
                Contract!Kill
  <2>2. QED
    BY <2>1 DEF Contract!Next
<1>7. CASE Reap
  <2>1. Contract!Return
    BY <1>7 DEF Reap, Contract!Return
  <2>2. QED
    BY <2>1 DEF Contract!Next
<1>8. QED
  BY <1>1, <1>2, <1>3, <1>4, <1>5, <1>6, <1>7
     DEF ParentStep, ParentProgress, ParentTrouble, PollFails, AppendFails,
         WaitInterrupted

(* Steps of the child: its end is ChildEnds, and it is killed only after   *)
(* Kill; the rest is invisible.                                            *)
LEMMA ChildRefines ==
  ASSUME TypeOK, ReapInv, ChildStep, UNCHANGED rvars
  PROVE  [Contract!Next]_(Contract!cvars)
<1> USE DEF TypeOK, WorldTypeOK, ReapInv, Before, Collecting, Finished,
            Statuses, Contract!cvars, rvars
<1>1. CASE ChildExec \/ ChildRead \/ ChildSpawns \/ HeirsExit
  BY <1>1 DEF ChildExec, ChildRead, ChildSpawns, HeirsExit
<1>2. ASSUME NEW s \in Std, Produce(s) \/ ChildCloses(s)
      PROVE  [Contract!Next]_(Contract!cvars)
  BY <1>2 DEF Produce, ChildCloses
<1>3. ASSUME NEW how \in Statuses \ {"unset"},
             child \in {"forked", "running", "dying"},
             child' = "zombie", status' = how,
             how = "sigkilled" => child = "dying"
      PROVE  Contract!Next
  <2>1. Contract!ChildEnds(how)
    BY <1>3 DEF Contract!ChildEnds
  <2>2. QED
    BY <2>1 DEF Contract!Next
<1>4. CASE ExecFails
  BY <1>3, <1>4 DEF ExecFails
<1>5. CASE ChildExits \/ ChildCrashes \/ ChildGone
  BY <1>3, <1>5 DEF ChildExits, ChildCrashes, ChildGone, ChildEnds
<1>6. ASSUME NEW s \in OutPipes, BrokenPipe(s)
      PROVE  [Contract!Next]_(Contract!cvars)
  <2>1. CASE UNCHANGED <<child, status, childStd>>
    BY <1>6, <2>1 DEF BrokenPipe
  <2>2. CASE child' = "zombie" /\ status' = "crashed" /\ childStd' = {}
    BY <1>3, <1>6, <2>2 DEF BrokenPipe
  <2>3. QED
    BY <1>6, <2>1, <2>2 DEF BrokenPipe
<1>7. QED
  BY <1>1, <1>2, <1>4, <1>5, <1>6 DEF ChildStep, Std, OutPipes

(* run() keeps its contract when no call fails after the fork and the      *)
(* timeout fits an int.                                                    *)
THEOREM RunKeepsContract ==
  ASSUME Timeout <= IntMax, Faults \subseteq {"pipe", "fork"}
  PROVE  Spec => ImplementsContract
<1>1. Init => Contract!Init
  BY DEF Init, WorldInit, Contract!Init, Contract!Nothing, Collecting, Finished
<1>2. ASSUME TypeOK, ReapInv, SliceIsLeft, [Next]_vars
      PROVE  [Contract!Next]_(Contract!cvars)
  <2>1. CASE ParentStep
    BY <1>2, <2>1, ParentRefines
  <2>2. CASE ChildStep /\ UNCHANGED rvars
    BY <1>2, <2>2, ChildRefines
  <2>3. CASE Tick
    <3>1. CASE left = 1
      <4>1. Contract!Expire
        BY <1>2, <2>3, <3>1
           DEF Tick, wvars, Contract!Expire, TypeOK, WorldTypeOK, ReapInv,
               Before, Collecting, Finished
      <4>2. QED
        BY <4>1 DEF Contract!Next
    <3>2. CASE left # 1
      BY <1>2, <2>3, <3>2
         DEF Tick, wvars, Contract!cvars, TypeOK, Collecting
    <3>3. QED
      BY <3>1, <3>2
  <2>4. CASE UNCHANGED vars
    BY <2>4 DEF vars, rvars, wvars, Contract!cvars
  <2>5. QED
    BY <1>2, <2>1, <2>2, <2>3, <2>4 DEF Next, Done
<1>3. QED
  BY <1>1, <1>2, TypeCorrect, ChildAccounted, SliceTracksDeadline, PTL
     DEF Spec, ImplementsContract, Contract!Spec
=============================================================================

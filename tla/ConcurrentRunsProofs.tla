------------------------- MODULE ConcurrentRunsProofs -------------------------
(***************************************************************************)
(* Theorems about ConcurrentRuns, for any number of threads in run().      *)
(***************************************************************************)
EXTENDS ConcurrentRuns, TLAPS

LEMMA TypePreserved == TypeOK /\ [Next]_vars => TypeOK'
<1> SUFFICES ASSUME TypeOK, [Next]_vars PROVE TypeOK'
    OBVIOUS
<1> USE DEF TypeOK, childv, timev, Steps, Finished, ChildStates, Statuses, AllEnds
<1>1. ASSUME NEW r \in Runs, RunProgress(r) PROVE TypeOK'
  <2>1. CASE CreateIn(r)
        BY <2>1 DEF CreateIn, Becomes, In
  <2>2. CASE CreateOut(r)
        BY <2>2 DEF CreateOut, Becomes, Out
  <2>3. CASE Fork(r)
    <3>1. overlapped' \in [Runs -> SUBSET Runs]
          BY <2>3 DEF Fork
    <3>2. held' \in [Runs -> SUBSET AllEnds]
          BY <2>3 DEF Fork
    <3>  QED  BY <2>3, <3>1, <3>2 DEF Fork, Becomes
  <2>4. CASE CloseChildEnds(r)
        BY <2>4 DEF CloseChildEnds, Becomes
  <2>5. CASE FeedStdin(r)
        BY <2>5 DEF FeedStdin, Becomes
  <2>6. CASE EndOfOutput(r)
        BY <2>6 DEF EndOfOutput, Becomes
  <2>7. CASE KillAtDeadline(r)
        BY <2>7 DEF KillAtDeadline, Becomes
  <2>8. CASE Reap(r)
        BY <2>8 DEF Reap, Becomes
  <2>  QED  BY <1>1, <2>1, <2>2, <2>3, <2>4, <2>5, <2>6, <2>7, <2>8 DEF RunProgress
<1>2. ASSUME NEW r \in Runs, SetupFails(r) PROVE TypeOK'
      BY <1>2 DEF SetupFails, Becomes
<1>3. ASSUME NEW r \in Runs, DeadlineComes(r) PROVE TypeOK'
      BY <1>3 DEF DeadlineComes
<1>4. ASSUME NEW r \in Runs, ChildStep(r) PROVE TypeOK'
  <2>1. CASE Exec(r)
    <3>1. AfterExec(r) \in SUBSET AllEnds
          BY DEF AfterExec, Streams, In, Out
    <3>  QED  BY <2>1, <3>1 DEF Exec
  <2>2. ASSUME NEW how \in Statuses, ChildEnds(r, how) PROVE TypeOK'
        BY <2>2 DEF ChildEnds
  <2>  QED  BY <1>4, <2>1, <2>2 DEF ChildStep, ExecFails, Exits, Gone
<1>5. CASE UNCHANGED vars
      BY <1>5 DEF vars
<1>  QED  BY <1>1, <1>2, <1>3, <1>4, <1>5 DEF Next, Done

(* Type correctness, for any number of runs. *)
THEOREM TypeCorrect == Spec => []TypeOK
<1>1. Init => TypeOK
      BY DEF Init, TypeOK, Steps, Finished, ChildStates, Statuses, AllEnds
<1>  QED  BY <1>1, TypePreserved, PTL DEF Spec

-----------------------------------------------------------------------------
(* Who can hold a write end of run r: the program until r has closed it,   *)
(* r's own child until it has execed, and living children of other runs    *)
(* forked before that.                                                     *)
ClosedByThen(r) ==
  /\ pc[r] \notin {"pipe_in", "pipe_out", "fork", "close_ends", "write"} =>
       In(r, "w") \notin ends
  /\ pc[r] \notin {"pipe_in", "pipe_out", "fork", "close_ends"} =>
       Out(r, "w") \notin ends

HoldersLive(s) ==
  held[s] # {} => child[s] \in {"forked", "running", "dying"}

OthersOverlap(s) == \A r \in Runs \ {s} : Writes(r) \cap held[s] # {} => s \in overlapped[r]

OwnIsClosed(r) == child[r] = "running" => In(r, "w") \notin held[r]

HeldInv ==
  /\ TypeOK
  /\ \A r \in Runs : ClosedByThen(r) /\ HoldersLive(r) /\ OthersOverlap(r) /\ OwnIsClosed(r)

LEMMA HeldInitial == Init => HeldInv
  BY DEF Init, HeldInv, TypeOK, ClosedByThen, HoldersLive, OthersOverlap, OwnIsClosed,
         Steps, Finished, ChildStates, Statuses, AllEnds

\* An end that the program acquires belongs to a run that is being set up.
LEMMA ClosedStays ==
  ASSUME HeldInv, [Next]_vars, NEW q \in Runs PROVE ClosedByThen(q)'
<1> USE DEF Becomes, ClosedByThen, In, Out, Own
<1>0. ClosedByThen(q) /\ TypeOK
      BY DEF HeldInv
<1>1. ASSUME NEW r \in Runs, RunProgress(r) PROVE ClosedByThen(q)'
  <2>1. CASE CreateIn(r)
        BY <1>0, <2>1 DEF CreateIn, TypeOK
  <2>2. CASE CreateOut(r)
        BY <1>0, <2>2 DEF CreateOut, TypeOK
  <2>3. CASE Fork(r) \/ EndOfOutput(r) \/ KillAtDeadline(r)
        BY <1>0, <2>3 DEF Fork, EndOfOutput, KillAtDeadline, TypeOK
  <2>4. CASE CloseChildEnds(r)
        BY <1>0, <2>4 DEF CloseChildEnds, ChildsEnds, Streams, TypeOK
  <2>5. CASE FeedStdin(r)
        BY <1>0, <2>5 DEF FeedStdin, TypeOK
  <2>6. CASE Reap(r)
        BY <1>0, <2>6 DEF Reap, TypeOK
  <2>  QED  BY <1>1, <2>1, <2>2, <2>3, <2>4, <2>5, <2>6 DEF RunProgress
<1>2. ASSUME NEW r \in Runs, SetupFails(r) PROVE ClosedByThen(q)'
      BY <1>0, <1>2 DEF SetupFails, TypeOK
<1>3. ASSUME NEW r \in Runs, DeadlineComes(r) \/ ChildStep(r) PROVE ClosedByThen(q)'
      BY <1>0, <1>3 DEF DeadlineComes, ChildStep, Exec, ExecFails, Exits, Gone, ChildEnds
<1>4. CASE UNCHANGED vars
      BY <1>0, <1>4 DEF vars
<1>  QED  BY <1>1, <1>2, <1>3, <1>4 DEF Next, Done

\* What a child holds it got when it was forked.
LEMMA HoldersStay ==
  ASSUME HeldInv, [Next]_vars, NEW s \in Runs
  PROVE  (HoldersLive(s) /\ OthersOverlap(s) /\ OwnIsClosed(s))'
<1> DEFINE P == HoldersLive(s) /\ OthersOverlap(s) /\ OwnIsClosed(s)
<1> USE DEF HoldersLive, OthersOverlap, OwnIsClosed
<1>0. P /\ TypeOK
      BY DEF HeldInv
<1>1. ASSUME NEW r \in Runs, RunProgress(r) PROVE P'
  <2>1. CASE CreateIn(r) \/ CreateOut(r) \/ CloseChildEnds(r) \/ FeedStdin(r) \/ EndOfOutput(r)
        BY <1>0, <2>1 DEF CreateIn, CreateOut, CloseChildEnds, FeedStdin, EndOfOutput,
                          childv, Writes, In, Out
  <2>2. CASE Fork(r)
    <3>1. CASE s = r
          BY <1>0, <2>2, <3>1 DEF Fork, TypeOK, Writes, In, Out
    <3>2. CASE s # r
          BY <1>0, <2>2, <3>2 DEF Fork, TypeOK, Writes, In, Out
    <3>  QED  BY <3>1, <3>2
  <2>3. CASE KillAtDeadline(r)
        BY <1>0, <2>3 DEF KillAtDeadline, TypeOK, Writes, In, Out
  <2>4. CASE Reap(r)
        BY <1>0, <2>4 DEF Reap, TypeOK, Writes, In, Out
  <2>  QED  BY <1>1, <2>1, <2>2, <2>3, <2>4 DEF RunProgress
<1>2. ASSUME NEW r \in Runs, SetupFails(r) \/ DeadlineComes(r) PROVE P'
      BY <1>0, <1>2 DEF SetupFails, DeadlineComes, childv, Writes, In, Out
<1>3. ASSUME NEW r \in Runs, ChildStep(r) PROVE P'
  <2>1. CASE Exec(r)
    <3>1. CASE s = r
      <4>1. In(r, "w") \notin AfterExec(r)
            BY DEF AfterExec, Own, Streams, In, Out
      <4>2. \A q \in Runs \ {r} : Writes(q) \cap AfterExec(r) \subseteq Writes(q) \cap held[r]
            BY DEF AfterExec, Own, Streams, Writes, In, Out
      <4>3. held'[r] = AfterExec(r) /\ child'[r] = "running" /\ UNCHANGED overlapped
            BY <1>0, <2>1 DEF Exec, TypeOK
      <4>  QED  BY <1>0, <3>1, <4>1, <4>2, <4>3 DEF Writes, In, Out
    <3>2. CASE s # r
          BY <1>0, <2>1, <3>2 DEF Exec, TypeOK, Writes, In, Out
    <3>  QED  BY <3>1, <3>2
  <2>2. ASSUME NEW how \in Statuses, ChildEnds(r, how) PROVE P'
        BY <1>0, <2>2 DEF ChildEnds, TypeOK, Writes, In, Out
  <2>  QED  BY <1>3, <2>1, <2>2 DEF ChildStep, ExecFails, Exits, Gone, Statuses
<1>4. CASE UNCHANGED vars
      BY <1>0, <1>4 DEF vars, Writes, In, Out
<1>  QED  BY <1>1, <1>2, <1>3, <1>4 DEF Next, Done

LEMMA HeldPreserved == HeldInv /\ [Next]_vars => HeldInv'
<1> SUFFICES ASSUME HeldInv, [Next]_vars PROVE HeldInv'
    OBVIOUS
<1>1. TypeOK'
      BY TypePreserved DEF HeldInv
<1>  QED  BY <1>1, ClosedStays, HoldersStay DEF HeldInv

\* A run that waits is held up by the child of an overlapping run.
LEMMA HeldUp == HeldInv => HeldUpByOverlap
<1> SUFFICES ASSUME HeldInv, NEW r \in Runs, Waits(r)
             PROVE  \E s \in overlapped[r] \ {r} : child[s] \in {"forked", "running", "dying"}
    BY DEF HeldUpByOverlap
<1>1. In(r, "w") \notin ends /\ Out(r, "w") \notin ends
      BY DEF HeldInv, ClosedByThen, Waits
<1>2. \E s \in Runs \ {r} : Writes(r) \cap held[s] # {}
  <2>1. CASE child[r] = "running" /\ Open(In(r, "w"))
        BY <1>1, <2>1 DEF Open, HeldInv, OwnIsClosed, Writes
  <2>2. CASE child[r] = "zombie" /\ Open(Out(r, "w"))
        BY <1>1, <2>2 DEF Open, HeldInv, HoldersLive, Writes
  <2>  QED  BY <2>1, <2>2 DEF Waits
<1>  QED  BY <1>2 DEF HeldInv, OthersOverlap, HoldersLive

(* However many threads are in run(), a run can only be held up, at the    *)
(* end of its child's stdin or at the end of its output, by the living     *)
(* child of a run that forked while it had its write ends open             *)
(* (subprocess.hpp:168-194, 220-233).                                      *)
THEOREM OnlyOverlapHoldsUp == Spec => []HeldUpByOverlap
  BY HeldInitial, HeldPreserved, HeldUp, PTL DEF Spec

-----------------------------------------------------------------------------
(* Each run is on its own as far as its caller can see.                    *)
Accounted(r) ==
  /\ child[r] = "none" <=> pc[r] \in {"pipe_in", "pipe_out", "fork", "threw"}
  /\ child[r] = "reaped" <=> pc[r] = "returned"
  /\ status[r] = "unset" <=> child[r] \in {"none", "forked", "running", "dying"}
  /\ status[r] = "sigkilled" \/ child[r] = "dying" => killed[r]
  /\ killed[r] => expired[r] /\ pc[r] \in {"wait", "returned"}
  /\ expired[r] => pc[r] \in {"collect", "wait", "returned"}
  /\ reported[r] = IF pc[r] = "returned" THEN status[r] ELSE "unset"

AccountInv == TypeOK /\ \A r \in Runs : Accounted(r)

LEMMA AccountInitial == Init => AccountInv
  BY DEF Init, AccountInv, Accounted, TypeOK, Steps, Finished, ChildStates, Statuses, AllEnds

\* A step of run r or of its child: the account of r is kept, and r's caller
\* sees a step of the contract; the callers of the other runs see nothing.
LEMMA StepKeepsContract ==
  ASSUME AccountInv, NEW q \in Runs, [Next]_vars
  PROVE  Accounted(q)' /\ [Contract(q)!Next]_(Contract(q)!cvars)
<1> USE DEF Becomes, Accounted, Finished, Contract!cvars
<1>0. Accounted(q) /\ TypeOK
      BY DEF AccountInv
<1>1. ASSUME NEW r \in Runs, RunProgress(r)
      PROVE  Accounted(q)' /\ [Contract(q)!Next]_(Contract(q)!cvars)
  <2>1. CASE CreateIn(r) \/ CreateOut(r) \/ CloseChildEnds(r) \/ FeedStdin(r) \/ EndOfOutput(r)
        BY <1>0, <2>1 DEF CreateIn, CreateOut, CloseChildEnds, FeedStdin, EndOfOutput,
                          childv, timev, TypeOK
  <2>2. CASE Fork(r)
        BY <1>0, <2>2 DEF Fork, TypeOK, timev, Contract!Start, Contract!Next
  <2>3. CASE KillAtDeadline(r)
        BY <1>0, <2>3 DEF KillAtDeadline, Signalled, TypeOK, Contract!Kill, Contract!Next
  <2>4. CASE Reap(r)
    <3>1. Accounted(q)'
          BY <1>0, <2>4 DEF Reap, TypeOK, timev
    <3>2. CASE q = r
      <4>1. Contract(q)!Return
            BY <1>0, <2>4, <3>2 DEF Reap, TypeOK, timev, Statuses, Contract!Return
      <4>  QED  BY <3>1, <4>1 DEF Contract!Next
    <3>3. CASE q # r
          BY <1>0, <2>4, <3>1, <3>3 DEF Reap, TypeOK, timev
    <3>  QED  BY <3>2, <3>3
  <2>  QED  BY <1>1, <2>1, <2>2, <2>3, <2>4 DEF RunProgress
<1>2. ASSUME NEW r \in Runs, SetupFails(r)
      PROVE  Accounted(q)' /\ [Contract(q)!Next]_(Contract(q)!cvars)
      BY <1>0, <1>2 DEF SetupFails, childv, timev, TypeOK, Contract!SetupFails, Contract!Next
<1>3. ASSUME NEW r \in Runs, DeadlineComes(r)
      PROVE  Accounted(q)' /\ [Contract(q)!Next]_(Contract(q)!cvars)
      BY <1>0, <1>3 DEF DeadlineComes, childv, TypeOK, Contract!Expire, Contract!Next
<1>4. ASSUME NEW r \in Runs, ChildStep(r)
      PROVE  Accounted(q)' /\ [Contract(q)!Next]_(Contract(q)!cvars)
  <2>1. CASE Exec(r)
        BY <1>0, <2>1 DEF Exec, TypeOK, timev
  <2>2. ASSUME NEW how \in Statuses \ {"unset"}, ChildEnds(r, how),
               child[r] \in {"forked", "running", "dying"},
               how = "sigkilled" => child[r] = "dying"
        PROVE  Accounted(q)' /\ [Contract(q)!Next]_(Contract(q)!cvars)
    <3>1. Accounted(q)'
          BY <1>0, <2>2 DEF ChildEnds, TypeOK, timev, Statuses
    <3>2. CASE q = r
      <4>1. Contract(q)!ChildEnds(how)
            BY <1>0, <2>2, <3>2 DEF ChildEnds, TypeOK, timev, Statuses, Contract!ChildEnds
      <4>  QED  BY <2>2, <3>1, <4>1 DEF Contract!Next
    <3>3. CASE q # r
          BY <1>0, <2>2, <3>1, <3>3 DEF ChildEnds, TypeOK, timev
    <3>  QED  BY <3>2, <3>3
  <2>  QED  BY <1>4, <2>1, <2>2 DEF ChildStep, ExecFails, Exits, MayExit, Gone, Statuses
<1>5. CASE UNCHANGED vars
      BY <1>0, <1>5 DEF vars
<1>  QED  BY <1>1, <1>2, <1>3, <1>4, <1>5 DEF Next, Done

LEMMA AccountPreserved == AccountInv /\ [Next]_vars => AccountInv'
  BY TypePreserved, StepKeepsContract DEF AccountInv

(* However many runs overlap, each keeps its contract: nobody kills or     *)
(* reaps the child of another run, or reports on it.                       *)
THEOREM EachRunKeepsContract == Spec => EachKeepsContract
<1>1. Init => \A r \in Runs : Contract(r)!Init
      BY DEF Init, Contract!Init, Contract!Nothing, Finished
<1>2. AccountInv /\ [Next]_vars => [\A r \in Runs : [Contract(r)!Next]_(Contract(r)!cvars)]_vars
      BY StepKeepsContract
<1>3. Spec => []AccountInv
      BY AccountInitial, AccountPreserved, PTL DEF Spec
<1>  QED  BY <1>1, <1>2, <1>3, PTL DEF Spec, EachKeepsContract

-----------------------------------------------------------------------------
\* Whoever is held up by another run's child, when nothing moves, is held up
\* by a filter that waits itself: the child with the end open is no zombie.
LEMMA HolderIsAFilter ==
  ASSUME HeldInv, AccountInv, AllStuck, NEW r \in Runs, pc[r] \notin Finished
  PROVE  \E s \in Runs \ {r} : filter[s] /\ child[s] = "running" /\ Open(In(s, "w"))
<1>1. Waits(r)
      BY DEF AllStuck, Waits, MayExit
<1>2. PICK s \in overlapped[r] \ {r} : child[s] \in {"forked", "running", "dying"}
      BY <1>1, HeldUp DEF HeldUpByOverlap
<1>3. s \in Runs
      BY <1>2 DEF HeldInv, TypeOK
<1>4. pc[s] \notin Finished
      BY <1>2, <1>3 DEF AccountInv, Accounted, Finished
<1>5. child[s] = "running" /\ ~MayExit(s)
      BY <1>2, <1>3, <1>4 DEF AllStuck
<1>  QED  BY <1>2, <1>3, <1>5 DEF MayExit

(* Of any number of overlapping runs, at least two must be filters waiting *)
(* for the end of their stdin before nothing moves any more until a        *)
(* deadline: a filter alone, or output ends held open, cannot do it        *)
(* (subprocess.hpp:189-194, 203-233).                                      *)
THEOREM StandstillTakesTwo == Spec => []StandstillNeedsTwoFilters
<1>1. HeldInv /\ AccountInv => StandstillNeedsTwoFilters
  <2> SUFFICES ASSUME HeldInv, AccountInv, AllStuck
               PROVE  \E r, s \in Runs :
                        /\ r # s
                        /\ filter[r] /\ child[r] = "running" /\ Open(In(r, "w"))
                        /\ filter[s] /\ child[s] = "running" /\ Open(In(s, "w"))
      BY DEF StandstillNeedsTwoFilters
  <2>1. PICK r \in Runs : pc[r] \notin Finished
        BY DEF AllStuck
  <2>2. PICK s \in Runs \ {r} : filter[s] /\ child[s] = "running" /\ Open(In(s, "w"))
        BY <2>1, HolderIsAFilter
  <2>3. pc[s] \notin Finished
        BY <2>2 DEF AccountInv, Accounted, Finished
  <2>4. PICK t \in Runs \ {s} : filter[t] /\ child[t] = "running" /\ Open(In(t, "w"))
        BY <2>3, HolderIsAFilter
  <2>  QED  BY <2>2, <2>4
<1>  QED  BY <1>1, HeldInitial, HeldPreserved, AccountInitial, AccountPreserved, PTL DEF Spec
=============================================================================

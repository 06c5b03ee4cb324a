-------------------------- MODULE ThreadGuardsProofs --------------------------
(***************************************************************************)
(* Theorems about the two thread guards, for any finite set of workers and *)
(* any timeout and grace.                                                  *)
(***************************************************************************)
EXTENDS ThreadGuards, FiniteSetTheorems, TLAPS

USE WorkersAssumption, TimeoutAssumption, GraceAssumption
    DEF WorkersAssumption, TimeoutAssumption, GraceAssumption

(* Only a thread that was created is listed, and every one that runs is.   *)
ListInv ==
  /\ ThreadsTypeOK
  /\ \A w \in Workers : thread[w] \in {"running", "detached"} => w \in task
  /\ \A w \in task : thread[w] # "none"

(* The main thread is inside at most one of the guards.                    *)
Alone == Calling => ~InRequireClean

(* The workers passed on the way through watched_ are accounted for, and   *)
(* while the clock is read nobody else joins the worker asked for.         *)
StuckInv ==
  /\ StuckTypeOK
  /\ \A i, j \in DOMAIN watched : watched[i] = watched[j] => i = j
  /\ \A w \in reaped : thread[w] = "joined"
  /\ ~reaps => reaped = {}
  /\ stuck \cap reaped = {}
  /\ Calling => stuck \subseteq {watched[i] : i \in 1 .. index - 1}
  /\ Calling /\ reaps => \A i \in 1 .. index - 1 :
       watched[i] \in stuck \cup reaped \/ thread[watched[i]] \in {"detached", "gone"}
  /\ Calling /\ reaps => \A w \in early : w \in reaped \/ thread[w] \in {"exited", "gone"}
  /\ pc = "check" => /\ index <= Len(watched) /\ thread[Current] # "joined"
                     /\ reaps => Current \notin early

(* The guard's workers are those of the baseline and those of its scope;   *)
(* what a snapshot counted is more than allowed, and once the grace is     *)
(* over no joined thread is listed, or counted, any more.                  *)
LeakInv ==
  /\ LeakTypeOK
  /\ \A w \in before \cup made : thread[w] # "none"
  /\ made \cap before = {}
  /\ IF lpc = "none" THEN made = {}
     ELSE /\ baseline \in {0, 1 + Cardinality(before)}
          /\ ~blind => baseline # 0
          /\ task \subseteq before \cup made
  /\ InRequireClean /\ grace = 0 => \A w \in task : thread[w] # "joined"
  /\ lpc = "counted" =>
       /\ listed \subseteq before \cup made
       /\ 1 + Cardinality(listed) > baseline + expected
       /\ seenAt = 0 => \A w \in listed : thread[w] # "joined"

Inv ==
  /\ ListInv /\ Alone /\ StuckInv /\ LeakInv
  /\ HandlesHaveOneOwner /\ EndedIsNotNamed

-----------------------------------------------------------------------------
LEMMA Initially == Init => Inv
<1> SUFFICES ASSUME Init PROVE Inv
    OBVIOUS
<1> USE DEF Init, ThreadsInit, StuckInit, LeakInit
<1>1. ListInv /\ Alone
      BY DEF ListInv, Alone, ThreadsTypeOK, ThreadStates, Calling, InRequireClean
<1>2. watched = <<>> /\ Len(watched) = 0 /\ Watched = {}
      BY DEF Watched
<1>3. StuckInv /\ HandlesHaveOneOwner /\ EndedIsNotNamed
      BY <1>2 DEF StuckInv, StuckTypeOK, Calling, HandlesHaveOneOwner, EndedIsNotNamed
<1>4. Cardinality(Workers) \in Nat
      BY FS_CardinalityType
<1>5. LeakTypeOK
  <2>1. 0 \in 0 .. Cardinality(Workers) + 1
        BY <1>4
  <2>2. 0 \in 0 .. Grace
        OBVIOUS
  <2>   QED  BY <2>1, <2>2 DEF LeakTypeOK
<1>6. LeakInv
      BY <1>5 DEF LeakInv, InRequireClean
<1>   QED  BY <1>1, <1>3, <1>6 DEF Inv

\* What a step of the threads themselves does to the list.
LEMMA ListKept ==
  ASSUME ListInv, NEW w \in Workers,
         Create(w) \/ Join(w) \/ Detach(w) \/ Exits(w) \/ Unlist(w)
  PROVE  ListInv'
<1> USE DEF ListInv, ThreadsTypeOK, ThreadStates, Becomes
<1>1. CASE Create(w)
      BY <1>1 DEF Create
<1>2. CASE Join(w)
      BY <1>2 DEF Join
<1>3. CASE Detach(w)
      BY <1>3 DEF Detach
<1>4. CASE Exits(w)
      BY <1>4 DEF Exits
<1>5. CASE Unlist(w)
      BY <1>5 DEF Unlist, Ended
<1>   QED  BY <1>1, <1>2, <1>3, <1>4, <1>5

\* How one thread's state may move while the main thread is in a guard: it
\* ends, and that is all.
Beside(w) ==
  \/ thread'[w] = thread[w]
  \/ thread[w] = "running" /\ thread'[w] = "exited"
  \/ thread[w] = "detached" /\ thread'[w] = "gone"

LEMMA WorkersOnlyEnd ==
  ASSUME ListInv, WorkerStep
  PROVE  ListInv' /\ (\A w \in Workers : Beside(w)) /\ task' \subseteq task
<1>1. PICK w \in Workers : Exits(w) \/ Unlist(w)
      BY DEF WorkerStep
<1>2. thread \in [Workers -> ThreadStates]
      BY DEF ListInv, ThreadsTypeOK
<1>3. ASSUME NEW v \in Workers PROVE Beside(v)
  <2>1. CASE Exits(w)
        BY <1>2, <2>1 DEF Beside, Exits, Becomes
  <2>2. CASE Unlist(w)
        BY <2>2 DEF Beside, Unlist
  <2>   QED  BY <1>1, <2>1, <2>2
<1>4. task' \subseteq task
      BY <1>1 DEF Exits, Unlist
<1>5. ListInv'
      BY <1>1, ListKept
<1>   QED  BY <1>3, <1>4, <1>5

\* In such a step both guards' invariants hold on.
LEMMA OthersKeep ==
  ASSUME Inv, Others
  PROVE  Inv'
<1>1. /\ ListInv' /\ (\A w \in Workers : Beside(w)) /\ task' \subseteq task
      /\ UNCHANGED <<svars, lvars>>
      BY WorkersOnlyEnd DEF Others, Inv
<1>2. Watched' = Watched /\ Watched \subseteq Workers /\ (Current = Current)' /\ Calling' = Calling
      BY <1>1 DEF svars, Watched, Calling, Inv, StuckInv, StuckTypeOK
<1>3. \A i \in 1 .. Len(watched) : watched[i] \in Workers
      BY DEF Inv, StuckInv, StuckTypeOK
<1>4. StuckTypeOK' /\ Alone'
      BY <1>1, <1>2 DEF svars, lvars, guardv, StuckTypeOK, Inv, StuckInv, Alone, InRequireClean
<1>5. StuckInv'
  <2>1. \A w \in reaped : thread'[w] = "joined"
        BY <1>1, <1>2 DEF Beside, Inv, StuckInv, StuckTypeOK
  <2>2. Calling /\ reaps => \A i \in 1 .. index - 1 :
          watched[i] \in stuck \cup reaped \/ thread'[watched[i]] \in {"detached", "gone"}
        BY <1>1, <1>3 DEF Beside, Inv, StuckInv, StuckTypeOK
  <2>3. Calling /\ reaps => \A w \in early : w \in reaped \/ thread'[w] \in {"exited", "gone"}
        BY <1>1, <1>2 DEF Beside, Inv, StuckInv, StuckTypeOK
  <2>4. pc = "check" => thread'[Current] # "joined"
    <3>1. pc = "check" => Current \in Workers /\ thread[Current] # "joined"
          BY <1>3 DEF Inv, StuckInv, StuckTypeOK, Current
    <3>   QED  BY <1>1, <3>1 DEF Beside
  <2>   QED  BY <1>1, <1>2, <1>4, <2>1, <2>2, <2>3, <2>4 DEF svars, Inv, StuckInv, Current
<1>6. LeakInv'
  <2>1. /\ before \subseteq Workers /\ made \subseteq Workers /\ listed \subseteq Workers
        /\ task \subseteq Workers
        BY DEF Inv, LeakInv, LeakTypeOK, ListInv, ThreadsTypeOK
  <2>2. \A w \in Workers : /\ thread[w] # "none" => thread'[w] # "none"
                           /\ thread[w] # "joined" => thread'[w] # "joined"
        BY <1>1 DEF Beside
  <2>3. LeakTypeOK'
        BY <1>1 DEF lvars, guardv, Inv, LeakInv, LeakTypeOK
  <2>   QED  BY <1>1, <2>1, <2>2, <2>3 DEF lvars, guardv, Inv, LeakInv, InRequireClean
<1>7. HandlesHaveOneOwner' /\ EndedIsNotNamed'
      BY <1>1, <1>2 DEF svars, Beside, Inv, HandlesHaveOneOwner, EndedIsNotNamed
<1>   QED  BY <1>1, <1>4, <1>5, <1>6, <1>7 DEF Inv

\* The main thread makes, joins and detaches workers only outside the guards,
\* where little is claimed of threads: reaped ones are joined for good.
LEMMA UsesKeep ==
  ASSUME Inv, UseThreads
  PROVE  Inv'
<1>1. PICK w \in Workers : CreateWorker(w) \/ ((Join(w) \/ Detach(w)) /\ UNCHANGED made)
      BY DEF UseThreads
<1>2. ~Calling /\ ~InRequireClean /\ UNCHANGED <<svars, guardv>>
      BY DEF UseThreads, MainIsFree
<1>3. ListInv'
      BY <1>1, ListKept DEF Inv, CreateWorker
<1>4. thread \in [Workers -> ThreadStates] /\ thread' \in [Workers -> ThreadStates]
      BY <1>3 DEF Inv, ListInv, ThreadsTypeOK
<1>5. \A v \in Workers : /\ thread[v] # "none" => thread'[v] # "none"
                         /\ thread[v] \in {"joined", "gone"} => thread'[v] = thread[v]
                         /\ thread[v] = "detached" => thread'[v] = "detached"
  <2>1. CASE CreateWorker(w)
        BY <1>4, <2>1 DEF CreateWorker, Create, Becomes
  <2>2. CASE Join(w)
        BY <1>4, <2>2 DEF Join, Becomes
  <2>3. CASE Detach(w)
        BY <1>4, <2>3 DEF Detach, Becomes
  <2>   QED  BY <1>1, <2>1, <2>2, <2>3
<1>6. Watched' = Watched /\ Watched \subseteq Workers /\ Calling' = Calling
      BY <1>2 DEF svars, Watched, Calling, Inv, StuckInv, StuckTypeOK
<1>7. StuckTypeOK' /\ Alone'
      BY <1>2, <1>6 DEF svars, guardv, StuckTypeOK, Inv, StuckInv, Alone, InRequireClean
<1>8. pc # "check"
      BY <1>2 DEF Calling
<1>9. reaped \subseteq Workers
      BY <1>6 DEF Inv, StuckInv, StuckTypeOK
<1>10. \A v \in reaped : thread'[v] = "joined"
      BY <1>5, <1>9 DEF Inv, StuckInv
<1>11. StuckInv'
      BY <1>2, <1>6, <1>7, <1>8, <1>10 DEF svars, Inv, StuckInv
<1>12. LeakInv'
  <2>1. /\ \/ made' = made /\ task' = task
           \/ /\ task' = task \cup {w}
              /\ made' = IF lpc = "none" THEN made ELSE made \cup {w}
              /\ thread[w] = "none" /\ thread'[w] = "running"
        BY <1>1, <1>4 DEF CreateWorker, Create, Join, Detach, Becomes
  <2>2. w \in before \cup made => thread[w] # "none"
        BY DEF Inv, LeakInv
  <2>3. before \subseteq Workers /\ made \subseteq Workers
        BY DEF Inv, LeakInv, LeakTypeOK
  <2>4. LeakTypeOK'
        BY <1>2, <2>1 DEF guardv, Inv, LeakInv, LeakTypeOK
  <2>5. \A v \in (before \cup made)' : thread'[v] # "none"
        BY <1>2, <1>5, <2>1, <2>3 DEF guardv, Inv, LeakInv
  <2>6. (made \cap before = {})'
        BY <1>2, <2>1, <2>2 DEF guardv, Inv, LeakInv
  <2>   QED  BY <1>2, <2>1, <2>4, <2>5, <2>6 DEF guardv, Inv, LeakInv, InRequireClean
<1>13. HandlesHaveOneOwner' /\ EndedIsNotNamed'
      BY <1>2, <1>5, <1>6 DEF svars, Inv, HandlesHaveOneOwner, EndedIsNotNamed
<1>   QED  BY <1>3, <1>7, <1>11, <1>12, <1>13 DEF Inv

\* A handle more to ask for; nothing is claimed of it before a call.
LEMMA WatchKeeps ==
  ASSUME Inv, NEW w \in Workers, Watch(w), MainIsFree, UNCHANGED lvars
  PROVE  Inv'
<1>1. /\ watched' = Append(watched, w) /\ pc' = "idle" /\ w \notin Watched
      /\ UNCHANGED <<tvars, reaps, index, left, stuck, reaped, early>>
      BY DEF Watch
<1>2. watched \in Seq(Workers)
      BY DEF Inv, StuckInv, StuckTypeOK
<1>3. /\ watched' \in Seq(Workers) /\ Len(watched') = Len(watched) + 1
      /\ watched'[Len(watched) + 1] = w
      /\ \A i \in 1 .. Len(watched) : watched'[i] = watched[i]
      BY <1>1, <1>2
<1>4. Watched \subseteq Watched'
      BY <1>3 DEF Watched
<1>5. StuckTypeOK'
      BY <1>1, <1>3, <1>4 DEF Inv, StuckInv, StuckTypeOK
<1>6. \A i, j \in DOMAIN watched' : watched'[i] = watched'[j] => i = j
      BY <1>1, <1>2, <1>3 DEF Watched, Inv, StuckInv
<1>7. ~Calling' /\ pc' # "check"
      BY <1>1 DEF Calling
<1>8. StuckInv'
      BY <1>1, <1>5, <1>6, <1>7 DEF tvars, Inv, StuckInv
<1>9. HandlesHaveOneOwner' /\ EndedIsNotNamed'
      BY <1>1 DEF Inv, HandlesHaveOneOwner, EndedIsNotNamed
<1>10. ListInv' /\ Alone' /\ LeakInv'
      BY <1>1, <1>7 DEF tvars, lvars, guardv, Inv, ListInv, ThreadsTypeOK, Alone, LeakInv,
                        LeakTypeOK, InRequireClean
<1>   QED  BY <1>8, <1>9, <1>10 DEF Inv

\* The call starts with no worker passed and none stuck.
LEMMA RequireAllKeeps ==
  ASSUME Inv, RequireAllFinished, MainIsFree, UNCHANGED lvars
  PROVE  Inv'
<1>1. /\ pc' = "probe" /\ index' = 1 /\ left' = Timeout /\ stuck' = {}
      /\ early' = {w \in Watched : thread[w] \in {"exited", "gone"}}
      /\ UNCHANGED <<tvars, reaps, watched, reaped>>
      BY DEF RequireAllFinished
<1>2. Watched' = Watched
      BY <1>1 DEF Watched
<1>3. Len(watched) \in Nat
      BY DEF Inv, StuckInv, StuckTypeOK
<1>4. StuckTypeOK'
      BY <1>1, <1>2, <1>3 DEF Inv, StuckInv, StuckTypeOK
<1>5. StuckInv'
      BY <1>1, <1>2, <1>4 DEF tvars, Inv, StuckInv
<1>6. HandlesHaveOneOwner' /\ EndedIsNotNamed'
      BY <1>1 DEF HandlesHaveOneOwner, EndedIsNotNamed
<1>7. ListInv' /\ Alone' /\ LeakInv'
      BY <1>1 DEF MainIsFree, tvars, lvars, guardv, Inv, ListInv, ThreadsTypeOK, Alone,
                  LeakInv, LeakTypeOK, InRequireClean
<1>   QED  BY <1>5, <1>6, <1>7 DEF Inv

\* What the steps of a call have in common: the handle asked for is the index-th
\* of a sequence without repetition, and the leak guard is not in a call.
LEMMA InACall ==
  ASSUME Inv, Calling
  PROVE  /\ watched \in Seq(Workers) /\ Len(watched) \in Nat
         /\ index \in 1 .. Len(watched) + 1
         /\ stuck \subseteq Watched /\ reaped \subseteq Watched /\ early \subseteq Watched
         /\ ~InRequireClean
         /\ index <= Len(watched) =>
              /\ Current \in Workers /\ Current \in Watched
              /\ \A i \in 1 .. index - 1 : watched[i] # Current /\ watched[i] \in Workers
              /\ Current \notin stuck
<1>1. /\ watched \in Seq(Workers) /\ Len(watched) \in Nat
      /\ index \in 1 .. Len(watched) + 1
      /\ stuck \subseteq Watched /\ reaped \subseteq Watched /\ early \subseteq Watched
      BY DEF Inv, StuckInv, StuckTypeOK
<1>2. ~InRequireClean
      BY DEF Inv, Alone
<1>3. ASSUME index <= Len(watched)
      PROVE  /\ Current \in Workers /\ Current \in Watched
             /\ \A i \in 1 .. index - 1 : watched[i] # Current /\ watched[i] \in Workers
      BY <1>1, <1>3 DEF Inv, StuckInv, Current, Watched
<1>4. index <= Len(watched) => Current \notin stuck
      BY <1>3 DEF Inv, StuckInv
<1>   QED  BY <1>1, <1>2, <1>3, <1>4

\* A step of a call that changes neither threads nor the leak guard.
LEMMA CallLeavesOthers ==
  ASSUME Inv, Calling, UNCHANGED <<tvars, lvars>>
  PROVE  ListInv' /\ Alone' /\ LeakInv'
<1>1. ~InRequireClean
      BY DEF Inv, Alone
<1>   QED  BY <1>1 DEF tvars, lvars, guardv, Inv, ListInv, ThreadsTypeOK, Alone, LeakInv,
                       LeakTypeOK, InRequireClean

\* The timed join got the worker.
LEMMA ReapKeeps ==
  ASSUME Inv, Reap, UNCHANGED lvars
  PROVE  Inv'
<1>1. /\ pc = "probe" /\ reaps /\ index <= Len(watched) /\ Calling
      /\ Becomes(Current, "exited", "joined") /\ reaped' = reaped \cup {Current}
      /\ index' = index + 1 /\ pc' = "probe"
      /\ UNCHANGED <<task, reaps, watched, left, stuck, early>>
      BY DEF Reap, NextWorker, Calling
<1>2. /\ watched \in Seq(Workers) /\ Len(watched) \in Nat /\ index \in 1 .. Len(watched) + 1
      /\ reaped \subseteq Watched /\ stuck \subseteq Watched /\ early \subseteq Watched
      /\ Current \in Workers /\ Current \in Watched /\ Current \notin stuck
      /\ \A i \in 1 .. index - 1 : watched[i] # Current /\ watched[i] \in Workers
      /\ ~InRequireClean
      BY <1>1, InACall
<1>3. thread \in [Workers -> ThreadStates] /\ thread[Current] = "exited"
      /\ thread' = [thread EXCEPT ![Current] = "joined"]
      BY <1>1 DEF Inv, ListInv, ThreadsTypeOK, Becomes
<1>4. ListInv'
      BY <1>1, <1>2, <1>3 DEF Inv, ListInv, ThreadsTypeOK, ThreadStates
<1>5. Watched' = Watched /\ Watched \subseteq Workers
      BY <1>1, <1>2 DEF Watched
<1>6. StuckTypeOK'
      BY <1>1, <1>2, <1>5 DEF Inv, StuckInv, StuckTypeOK
<1>7. \A w \in reaped' : thread'[w] = "joined"
      BY <1>1, <1>2, <1>3, <1>5 DEF Inv, StuckInv
<1>8. stuck' \cap reaped' = {}
      BY <1>1, <1>2 DEF Inv, StuckInv
<1>9. \A i \in 1 .. index : watched[i] \in stuck \cup reaped'
        \/ thread'[watched[i]] \in {"detached", "gone"}
  <2>1. ASSUME NEW i \in 1 .. index - 1
        PROVE  watched[i] \in stuck \cup reaped' \/ thread'[watched[i]] \in {"detached", "gone"}
        BY <1>1, <1>2, <1>3 DEF Inv, StuckInv
  <2>2. watched[index] \in reaped'
        BY <1>1 DEF Current
  <2>   QED  BY <1>2, <2>1, <2>2
<1>10. \A w \in early : w \in reaped' \/ thread'[w] \in {"exited", "gone"}
      BY <1>1, <1>2, <1>3, <1>5 DEF Inv, StuckInv
<1>11. stuck' \subseteq {watched'[i] : i \in 1 .. index' - 1}
      BY <1>1, <1>2 DEF Inv, StuckInv
<1>12. StuckInv'
      BY <1>1, <1>2, <1>5, <1>6, <1>7, <1>8, <1>9, <1>10, <1>11 DEF Inv, StuckInv
<1>13. HandlesHaveOneOwner' /\ EndedIsNotNamed' /\ Alone'
      BY <1>1, <1>2 DEF lvars, guardv, Inv, HandlesHaveOneOwner, EndedIsNotNamed, Alone,
                        StuckInv, InRequireClean
<1>14. LeakInv'
  <2>1. ~InRequireClean /\ ~InRequireClean' /\ UNCHANGED lvars
        BY <1>2 DEF lvars, guardv, InRequireClean
  <2>2. LeakTypeOK'
        BY <2>1 DEF lvars, guardv, Inv, LeakInv, LeakTypeOK
  <2>   QED  BY <1>1, <1>3, <2>1, <2>2 DEF lvars, guardv, Inv, LeakInv, InRequireClean
<1>   QED  BY <1>4, <1>12, <1>13, <1>14 DEF Inv

\* The worker is gone without the guard, or its time is over.
LEMMA PassedByKeeps ==
  ASSUME Inv, AlreadyGone \/ GiveUp, UNCHANGED lvars
  PROVE  Inv'
<1>1. /\ Calling /\ pc' = "probe" /\ index' = index + 1 /\ index <= Len(watched)
      /\ UNCHANGED <<tvars, reaps, watched, left, reaped, early>>
      /\ stuck' \subseteq stuck \cup {Current} /\ stuck \subseteq stuck'
      BY DEF AlreadyGone, GiveUp, NextWorker, Calling, Inv, StuckInv
<1>2. /\ watched \in Seq(Workers) /\ Len(watched) \in Nat /\ index \in 1 .. Len(watched) + 1
      /\ reaped \subseteq Watched /\ stuck \subseteq Watched /\ early \subseteq Watched
      /\ Current \in Workers /\ Current \in Watched
      BY <1>1, InACall
<1>3. /\ reaps => Current \in stuck' \/ thread[Current] \in {"detached", "gone"}
      /\ Current \in stuck' =>
           Current \in stuck \/ (thread[Current] # "joined" /\ (reaps => Current \notin early))
  <2>1. CASE AlreadyGone
        BY <2>1 DEF AlreadyGone
  <2>2. CASE GiveUp
        BY <2>2 DEF GiveUp, Inv, StuckInv
  <2>   QED  BY <2>1, <2>2
<1>4. Watched' = Watched /\ Calling'
      BY <1>1 DEF Watched, Calling
<1>5. ListInv' /\ Alone' /\ LeakInv'
      BY <1>1, CallLeavesOthers
<1>6. StuckTypeOK'
      BY <1>1, <1>2, <1>4 DEF Inv, StuckInv, StuckTypeOK
<1>7. stuck' \cap reaped' = {}
      BY <1>1, <1>3 DEF Inv, StuckInv
<1>8. reaps => stuck' \cap early = {}
      BY <1>1, <1>3 DEF Inv, EndedIsNotNamed
<1>9. reaps => \A i \in 1 .. index :
        watched[i] \in stuck' \cup reaped \/ thread[watched[i]] \in {"detached", "gone"}
  <2>1. ASSUME reaps, NEW i \in 1 .. index - 1
        PROVE  watched[i] \in stuck' \cup reaped \/ thread[watched[i]] \in {"detached", "gone"}
        BY <1>1, <2>1 DEF Inv, StuckInv
  <2>2. reaps => watched[index] \in stuck' \/ thread[watched[index]] \in {"detached", "gone"}
        BY <1>3 DEF Current
  <2>   QED  BY <1>2, <2>1, <2>2
<1>10. stuck' \subseteq {watched'[i] : i \in 1 .. index' - 1}
  <2>1. stuck \subseteq {watched[i] : i \in 1 .. index - 1}
        BY <1>1 DEF Inv, StuckInv
  <2>2. Current = watched[index]
        BY DEF Current
  <2>   QED  BY <1>1, <1>2, <2>1, <2>2
<1>11. StuckInv'
      BY <1>1, <1>2, <1>4, <1>6, <1>7, <1>9, <1>10 DEF tvars, Inv, StuckInv
<1>12. HandlesHaveOneOwner' /\ EndedIsNotNamed'
      BY <1>1, <1>8 DEF HandlesHaveOneOwner, EndedIsNotNamed
<1>   QED  BY <1>5, <1>11, <1>12 DEF Inv

\* The worker was asked and had not ended, or the clock allows another look.
LEMMA LooksKeep ==
  ASSUME Inv, NotYet \/ TryAgain, UNCHANGED lvars
  PROVE  Inv'
<1>1. /\ Calling /\ Calling' /\ pc' \in {"probe", "check"}
      /\ UNCHANGED <<tvars, reaps, watched, index, left, stuck, reaped, early>>
      BY DEF NotYet, TryAgain, Calling
<1>2. /\ index <= Len(watched) => Current \in Workers /\ Current \in Watched
      /\ early \subseteq Watched
      BY <1>1, InACall
<1>3. pc' = "check" => /\ index <= Len(watched) /\ thread[Current] # "joined"
                       /\ reaps => Current \notin early
  <2> SUFFICES ASSUME pc' = "check" PROVE /\ index <= Len(watched) /\ thread[Current] # "joined"
                                          /\ reaps => Current \notin early
      OBVIOUS
  <2>1. NotYet
      BY DEF TryAgain
  <2>2. index <= Len(watched) /\ thread[Current] # "joined"
        /\ (reaps => thread[Current] = "running")
      BY <2>1 DEF NotYet
  <2>3. reaps /\ Current \in early => Current \in reaped \/ thread[Current] \in {"exited", "gone"}
      BY <1>1 DEF Inv, StuckInv
  <2>4. Current \in reaped => thread[Current] = "joined"
      BY DEF Inv, StuckInv
  <2>   QED  BY <2>2, <2>3, <2>4
<1>4. ListInv' /\ Alone' /\ LeakInv'
      BY <1>1, CallLeavesOthers
<1>5. Watched' = Watched /\ Current' = Current
      BY <1>1 DEF Watched, Current
<1>6. StuckTypeOK'
      BY <1>1, <1>5 DEF Inv, StuckInv, StuckTypeOK
<1>7. StuckInv'
      BY <1>1, <1>3, <1>5, <1>6 DEF tvars, Inv, StuckInv
<1>8. HandlesHaveOneOwner' /\ EndedIsNotNamed'
      BY <1>1 DEF HandlesHaveOneOwner, Inv, EndedIsNotNamed
<1>   QED  BY <1>4, <1>7, <1>8 DEF Inv

\* All were passed: what was claimed on the way holds of all of them.
LEMMA VerdictKeeps ==
  ASSUME Inv, AllAsked, UNCHANGED lvars
  PROVE  Inv'
<1>1. /\ Calling /\ index = Len(watched) + 1
      /\ pc' = IF stuck = {} THEN "returned" ELSE "threw"
      /\ index' = 1 /\ left' = 0
      /\ UNCHANGED <<tvars, reaps, watched, stuck, reaped, early>>
      BY DEF AllAsked, Calling
<1>2. watched \in Seq(Workers) /\ Len(watched) \in Nat
      BY <1>1, InACall
<1>3. Watched' = Watched /\ ~Calling'
      BY <1>1 DEF Watched, Calling
<1>4. ListInv' /\ Alone' /\ LeakInv'
      BY <1>1, CallLeavesOthers
<1>5. StuckTypeOK'
      BY <1>1, <1>2, <1>3 DEF Inv, StuckInv, StuckTypeOK
<1>6. StuckInv'
      BY <1>1, <1>3, <1>5 DEF tvars, Inv, StuckInv, Calling
<1>7. reaps => \A w \in Watched \ stuck : w \in reaped \/ thread[w] \in {"detached", "gone"}
      BY <1>1, <1>2 DEF Inv, StuckInv, Watched
<1>8. HandlesHaveOneOwner' /\ EndedIsNotNamed'
      BY <1>1, <1>3, <1>7 DEF tvars, Inv, StuckInv, HandlesHaveOneOwner, EndedIsNotNamed
<1>   QED  BY <1>4, <1>6, <1>8 DEF Inv

LEMMA StuckClockKeeps ==
  ASSUME Inv, StuckTick, UNCHANGED lvars
  PROVE  Inv'
<1>1. /\ Calling /\ left > 0 /\ left' = left - 1
      /\ UNCHANGED <<tvars, reaps, watched, pc, index, stuck, reaped, early, lvars>>
      BY DEF StuckTick
<1>2. Watched' = Watched /\ Current' = Current /\ Calling'
      BY <1>1 DEF Watched, Current, Calling
<1>3. ListInv' /\ Alone' /\ LeakInv'
      BY <1>1, CallLeavesOthers
<1>4. StuckTypeOK'
      BY <1>1, <1>2 DEF Inv, StuckInv, StuckTypeOK
<1>5. StuckInv'
      BY <1>1, <1>2, <1>4 DEF tvars, Inv, StuckInv
<1>6. HandlesHaveOneOwner' /\ EndedIsNotNamed'
      BY <1>1, <1>2 DEF tvars, HandlesHaveOneOwner, Inv, EndedIsNotNamed
<1>   QED  BY <1>3, <1>5, <1>6 DEF Inv

-----------------------------------------------------------------------------
\* A step of the leak guard: of the rest only Alone is at stake.
LEMMA LeakGuardStep ==
  ASSUME Inv, UNCHANGED <<tvars, svars>>, LeakInv', ~Calling \/ ~InRequireClean'
  PROVE  Inv'
<1>1. Watched' = Watched /\ Current' = Current /\ Calling' = Calling
      BY DEF svars, Watched, Current, Calling
<1>2. StuckTypeOK' /\ ListInv' /\ Alone'
      BY <1>1 DEF tvars, svars, Inv, StuckInv, StuckTypeOK, ListInv, ThreadsTypeOK, Alone
<1>3. StuckInv'
      BY <1>1, <1>2 DEF tvars, svars, Inv, StuckInv
<1>4. HandlesHaveOneOwner' /\ EndedIsNotNamed'
      BY <1>1 DEF tvars, svars, HandlesHaveOneOwner, Inv, EndedIsNotNamed
<1>   QED  BY <1>2, <1>3, <1>4 DEF Inv

LEMMA ListedCount ==
  ASSUME Inv
  PROVE  /\ \A S \in SUBSET Workers : /\ IsFiniteSet(S) /\ Cardinality(S) \in Nat
                                      /\ Cardinality(S) <= Cardinality(Workers)
         /\ task \in SUBSET Workers /\ before \in SUBSET Workers
         /\ made \in SUBSET Workers /\ listed \in SUBSET Workers
         /\ Snapshots \subseteq 0 .. Cardinality(Workers) + 1
<1>1. \A S \in SUBSET Workers : /\ IsFiniteSet(S) /\ Cardinality(S) \in Nat
                                /\ Cardinality(S) <= Cardinality(Workers)
      BY FS_Subset, FS_CardinalityType
<1>2. /\ task \in SUBSET Workers /\ before \in SUBSET Workers
      /\ made \in SUBSET Workers /\ listed \in SUBSET Workers
      BY DEF Inv, ListInv, ThreadsTypeOK, LeakInv, LeakTypeOK
<1>3. Cardinality(task) \in Nat /\ Cardinality(Workers) \in Nat
      /\ Cardinality(task) <= Cardinality(Workers)
      BY <1>1, <1>2
<1>   QED  BY <1>1, <1>2, <1>3 DEF Snapshots

\* The guard is made: the baseline is the number of threads, or unknown.
LEMMA MakeKeeps ==
  ASSUME Inv, MakeLeakGuard, MainIsFree, UNCHANGED svars
  PROVE  Inv'
<1>1. /\ lpc = "none" /\ lpc' = "idle" /\ baseline' \in Snapshots /\ before' = task
      /\ blind' = (baseline' = 0)
      /\ UNCHANGED <<tvars, expected, grace, made, listed, seenAt>>
      BY DEF MakeLeakGuard
<1>2. LeakTypeOK'
      BY <1>1, ListedCount DEF Inv, LeakInv, LeakTypeOK
<1>3. made = {}
      BY <1>1 DEF Inv, LeakInv
<1>4. LeakInv'
      BY <1>1, <1>2, <1>3 DEF LeakInv, Snapshots, Inv, ListInv, tvars, InRequireClean
<1>   QED  BY <1>1, <1>4, LeakGuardStep DEF InRequireClean

\* require_clean starts with the whole grace, which is not zero.
LEMMA RequireCleanKeeps ==
  ASSUME Inv, NEW n \in 0 .. 1, RequireClean(n), MainIsFree, UNCHANGED svars
  PROVE  Inv'
<1>1. /\ lpc # "none" /\ lpc' = "loop" /\ expected' = n /\ grace' = Grace
      /\ blind' = (baseline = 0)
      /\ UNCHANGED <<tvars, baseline, before, made, listed, seenAt>>
      BY DEF RequireClean
<1>2. LeakTypeOK'
      BY <1>1 DEF Inv, LeakInv, LeakTypeOK
<1>3. LeakInv'
      BY <1>1, <1>2 DEF LeakInv, Inv, tvars
<1>   QED  BY <1>1, <1>3, LeakGuardStep DEF MainIsFree

\* Its steps, and the clock beside them: nobody joins a thread meanwhile, and
\* none that was joined before is listed when the grace runs out.
LEMMA LeakCallKeeps ==
  ASSUME Inv, LeakCall
  PROVE  Inv'
<1>1. ~Calling /\ UNCHANGED <<tvars, svars, baseline, before, made>>
      BY DEF LeakCall, LeakStep, FewEnough, TooMany, GraceIsOver, LookAgain, Sleep, Inv, Alone,
             InRequireClean
<1>2. LeakTypeOK /\ lpc # "none" /\ InRequireClean
      BY DEF Inv, LeakInv, LeakCall, LeakStep, FewEnough, TooMany, GraceIsOver, LookAgain,
             Sleep, InRequireClean
<1>3. CASE FewEnough
  <2>1. /\ lpc = "loop" /\ lpc' = "clean" /\ LocalsEnd
        /\ \E now \in Snapshots : blind' = (blind \/ now = 0)
        BY <1>3 DEF FewEnough
  <2>2. blind' \in BOOLEAN /\ (blind => blind')
        BY <1>2, <2>1 DEF LeakTypeOK
  <2>3. LeakTypeOK'
        BY <1>1, <1>2, <2>1, <2>2 DEF LeakTypeOK, LocalsEnd
  <2>4. LeakInv'
        BY <1>1, <2>1, <2>2, <2>3 DEF LeakInv, Inv, tvars, InRequireClean
  <2>   QED  BY <1>1, <2>4, LeakGuardStep
<1>4. CASE TooMany
  <2>1. /\ lpc = "loop" /\ lpc' = "counted" /\ listed' = task /\ seenAt' = grace
        /\ UNCHANGED <<expected, grace, blind>>
        BY <1>4 DEF TooMany
  <2>2. PICK now \in Snapshots : now > baseline + expected
        BY <1>4 DEF TooMany
  <2>3. 1 + Cardinality(task) > baseline + expected
        BY <1>2, <2>2 DEF Snapshots, LeakTypeOK
  <2>4. LeakTypeOK'
        BY <1>1, <1>2, <2>1, ListedCount DEF LeakTypeOK
  <2>5. LeakInv'
        BY <1>1, <1>2, <2>1, <2>3, <2>4 DEF LeakInv, Inv, tvars, InRequireClean
  <2>   QED  BY <1>1, <2>5, LeakGuardStep
<1>5. CASE GraceIsOver
  <2>1. lpc' = "thrown" /\ LocalsEnd /\ UNCHANGED blind
        BY <1>5 DEF GraceIsOver
  <2>2. LeakTypeOK'
        BY <1>1, <1>2, <2>1 DEF LeakTypeOK, LocalsEnd
  <2>3. LeakInv'
        BY <1>1, <1>2, <2>1, <2>2 DEF LeakInv, Inv, tvars, InRequireClean
  <2>   QED  BY <1>1, <2>3, LeakGuardStep
<1>6. CASE LookAgain
  <2>1. /\ lpc' = "sleep" /\ grace > 0 /\ listed' = {} /\ seenAt' = 0
        /\ UNCHANGED <<expected, grace, blind>>
        BY <1>6 DEF LookAgain
  <2>2. LeakTypeOK'
        BY <1>1, <1>2, <2>1 DEF LeakTypeOK
  <2>3. LeakInv'
        BY <1>1, <1>2, <2>1, <2>2 DEF LeakInv, Inv, tvars, InRequireClean, LeakTypeOK
  <2>   QED  BY <1>1, <2>3, LeakGuardStep
<1>7. CASE Sleep
  <2>1. /\ lpc' = "loop" /\ grace' = grace - 1 /\ grace > 0
        /\ grace = 1 => \A w \in task : thread[w] # "joined"
        /\ UNCHANGED <<expected, listed, seenAt, blind>>
        BY <1>7 DEF Sleep, GracePasses
  <2>2. LeakTypeOK'
        BY <1>1, <1>2, <2>1 DEF LeakTypeOK
  <2>3. grace' = 0 => \A w \in task : thread[w] # "joined"
        BY <1>2, <2>1 DEF LeakTypeOK
  <2>4. LeakInv'
        BY <1>1, <1>2, <2>1, <2>2, <2>3 DEF LeakInv, Inv, tvars, InRequireClean
  <2>   QED  BY <1>1, <2>4, LeakGuardStep
<1>   QED  BY <1>3, <1>4, <1>5, <1>6, <1>7 DEF LeakCall, LeakStep

LEMMA LeakClockKeeps ==
  ASSUME Inv, LeakTick, UNCHANGED svars
  PROVE  Inv'
<1>1. /\ grace' = grace - 1 /\ grace > 0 /\ InRequireClean /\ lpc \in {"loop", "counted"}
      /\ grace = 1 => \A w \in task : thread[w] # "joined"
      /\ UNCHANGED <<tvars, lpc, baseline, expected, before, made, listed, seenAt, blind>>
      BY DEF LeakTick, GracePasses, InRequireClean
<1>2. LeakTypeOK /\ ~Calling
      BY <1>1 DEF Inv, LeakInv, Alone
<1>3. LeakTypeOK'
      BY <1>1, <1>2 DEF LeakTypeOK
<1>4. grace' = 0 => \A w \in task : thread[w] # "joined"
      BY <1>1, <1>2 DEF LeakTypeOK
<1>5. LeakInv'
      BY <1>1, <1>3, <1>4 DEF LeakInv, Inv, tvars, InRequireClean
<1>   QED  BY <1>1, <1>2, <1>5, LeakGuardStep

-----------------------------------------------------------------------------
LEMMA InvKept ==
  ASSUME Inv, [Next]_vars PROVE Inv'
<1>1. CASE UNCHANGED vars
  <2>1. /\ UNCHANGED <<tvars, svars, lvars>> /\ Watched' = Watched /\ Current' = Current
        /\ Calling' = Calling
        BY <1>1 DEF vars, svars, Watched, Current, Calling
  <2>   QED  BY <2>1 DEF tvars, svars, lvars, guardv, Inv, ListInv, ThreadsTypeOK, Alone,
                         StuckInv, StuckTypeOK, LeakInv, LeakTypeOK, InRequireClean,
                         HandlesHaveOneOwner, EndedIsNotNamed
<1>2. CASE UseThreads
      BY <1>2, UsesKeep
<1>3. CASE UseStuckGuard
      BY <1>3, WatchKeeps, RequireAllKeeps DEF UseStuckGuard
<1>4. CASE UseLeakGuard
      BY <1>4, MakeKeeps, RequireCleanKeeps DEF UseLeakGuard
<1>5. CASE StuckCall
      BY <1>5, ReapKeeps, PassedByKeeps, LooksKeep, VerdictKeeps DEF StuckCall, StuckStep
<1>6. CASE LeakCall
      BY <1>6, LeakCallKeeps
<1>7. CASE Clock
      BY <1>7, StuckClockKeeps, LeakClockKeeps DEF Clock
<1>8. CASE Others
      BY <1>8, OthersKeep
<1>   QED  BY <1>1, <1>2, <1>3, <1>4, <1>5, <1>6, <1>7, <1>8 DEF Next

LEMMA InvHolds == Spec => []Inv
BY Initially, InvKept, PTL DEF Spec

(* Types, for any number of workers.                                       *)
THEOREM ThreadGuardsTypes == Spec => []TypeOK
<1>1. Inv => TypeOK
      BY DEF Inv, ListInv, StuckInv, LeakInv, TypeOK
<1>   QED  BY <1>1, InvHolds, PTL

(* However many workers are watched, in whatever order they end, and with  *)
(* both builds of thread_finished: every handle is left with one owner, so *)
(* that the program may join exactly the named ones                        *)
(* (thread_count.hpp:59-62, 81-109).                                       *)
THEOREM OneOwnerAfterwards == Spec => []HandlesHaveOneOwner
<1>1. Inv => HandlesHaveOneOwner
      BY DEF Inv
<1>   QED  BY <1>1, InvHolds, PTL

(* Sharing one deadline never makes a worker pay for those before it: if   *)
(* it had ended when the call began it is not named as stuck               *)
(* (thread_count.hpp:125-135).                                             *)
THEOREM EndedNeverNamed == Spec => []EndedIsNotNamed
<1>1. Inv => EndedIsNotNamed
      BY DEF Inv
<1>   QED  BY <1>1, InvHolds, PTL

\* Which step the verdict of require_clean is.
LEMMA WhoDecides ==
  ASSUME [Next]_vars, lpc \in {"loop", "counted"}, lpc' \in {"clean", "thrown"}
  PROVE  /\ lpc' = "thrown" => GraceIsOver
         /\ lpc' = "clean" => FewEnough
<1>1. LeakCall
      BY DEF Next, vars, lvars, guardv, UseThreads, UseStuckGuard, UseLeakGuard, MainIsFree,
             InRequireClean, StuckCall, Clock, LeakTick, Others
<1>   QED  BY <1>1 DEF LeakCall, LeakStep, FewEnough, TooMany, GraceIsOver, LookAgain, Sleep

(* If the count that require_clean throws over was taken when the grace    *)
(* was over, whatever the scheduler did between the count and the look at  *)
(* the clock, a worker of the guarded scope was counted that nobody has    *)
(* joined: the kernel had unlisted all that were (guards.hpp:33-55).       *)
THEOREM JoinedNeverLeaked == Spec => JoinedIsNotLeaked
<1>1. ASSUME Inv, [Next]_vars, lpc = "counted", lpc' = "thrown", ~blind, seenAt = 0
      PROVE  \E w \in made \cap listed : thread[w] # "joined"
  <2>1. 1 + Cardinality(listed) > baseline + expected
        BY <1>1 DEF Inv, LeakInv
  <2>2. baseline = 1 + Cardinality(before) /\ expected \in Nat
        BY <1>1 DEF Inv, LeakInv, LeakTypeOK
  <2>3. Cardinality(listed) \in Nat /\ Cardinality(before) \in Nat
        BY <1>1, ListedCount
  <2>4. Cardinality(listed) > Cardinality(before)
        BY <2>1, <2>2, <2>3
  <2>5. ~(listed \subseteq before)
        BY <1>1, <2>3, <2>4, ListedCount, FS_Subset
  <2>   QED  BY <1>1, <2>5 DEF Inv, LeakInv
<1>2. Inv /\ [Next]_vars =>
        [lpc = "counted" /\ lpc' = "thrown" /\ ~blind /\ seenAt = 0 =>
           \E w \in made \cap listed : thread[w] # "joined"]_lvars
      BY <1>1
<1>   QED  BY <1>2, InvHolds, PTL DEF Spec, JoinedIsNotLeaked

(* The count that require_clean trusts is never lower than the threads     *)
(* that run: those made since the baseline that still do are at most the   *)
(* expected ones and as many as have ended of the baseline's own           *)
(* (guards.hpp:39-55).                                                     *)
THEOREM RunningNeverMissed == Spec => RunningIsNotMissed
<1> DEFINE New == {w \in made : thread[w] \in {"running", "detached"}}
           Over == {w \in before : Ended(w)}
<1>1. ASSUME Inv, [Next]_vars, lpc' = "clean", lpc = "loop", ~blind'
      PROVE  Cardinality(New) <= expected + Cardinality(Over)
  <2>1. FewEnough
        BY <1>1, WhoDecides
  <2>2. PICK now \in Snapshots : now <= baseline + expected /\ blind' = (blind \/ now = 0)
        BY <2>1 DEF FewEnough
  <2>3. now = 1 + Cardinality(task) /\ ~blind
        BY <1>1, <2>2 DEF Snapshots
  <2>4. baseline = 1 + Cardinality(before) /\ expected \in Nat
        BY <1>1, <2>3 DEF Inv, LeakInv, LeakTypeOK
  <2>5. New \in SUBSET Workers /\ Over \in SUBSET Workers /\ before \ Over \in SUBSET Workers
        /\ New \cup (before \ Over) \in SUBSET Workers /\ task \in SUBSET Workers
        /\ before \in SUBSET Workers
        BY <1>1, ListedCount
  <2>6. New \cup (before \ Over) \subseteq task
    <3>1. \A w \in before \ Over : thread[w] \in {"running", "detached"}
          BY <1>1, <2>5 DEF Ended, Inv, LeakInv, ListInv, ThreadsTypeOK, ThreadStates
    <3>   QED  BY <1>1, <2>5, <3>1 DEF Inv, ListInv
  <2>7. Cardinality(New \cup (before \ Over)) <= Cardinality(task)
        BY <1>1, <2>5, <2>6, ListedCount, FS_Subset
  <2>8. Cardinality(New \cup (before \ Over)) = Cardinality(New) + Cardinality(before \ Over)
    <3>1. New \cap (before \ Over) = {}
          BY <1>1 DEF Inv, LeakInv
    <3>2. Cardinality(New \cup (before \ Over))
            = Cardinality(New) + Cardinality(before \ Over) - Cardinality(New \cap (before \ Over))
          BY <1>1, <2>5, ListedCount, FS_Union
    <3>3. Cardinality(New) \in Nat /\ Cardinality(before \ Over) \in Nat
          BY <1>1, <2>5, ListedCount
    <3>4. Cardinality(New \cap (before \ Over)) = 0
          BY <3>1, FS_EmptySet
    <3>   HIDE DEF New, Over
    <3>   QED  BY <3>2, <3>3, <3>4
  <2>9. Cardinality(before) = Cardinality(before \ Over) + Cardinality(Over)
    <3>1. before \cap Over = Over
          BY DEF Ended
    <3>2. Cardinality(before \ Over) = Cardinality(before) - Cardinality(before \cap Over)
          BY <1>1, <2>5, ListedCount, FS_Difference
    <3>3. Cardinality(before) \in Nat /\ Cardinality(Over) \in Nat
          BY <1>1, <2>5, ListedCount
    <3>   QED  BY <3>1, <3>2, <3>3
  <2>   QED  BY <1>1, <2>2, <2>3, <2>4, <2>5, <2>7, <2>8, <2>9, ListedCount
<1>2. Inv /\ [Next]_vars =>
        [lpc' = "clean" /\ lpc = "loop" /\ ~blind' =>
           Cardinality(New) <= expected + Cardinality(Over)]_lvars
      BY <1>1
<1>   QED  BY <1>2, InvHolds, PTL DEF Spec, RunningIsNotMissed

===============================================================================

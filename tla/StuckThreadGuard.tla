--------------------------- MODULE StuckThreadGuard ---------------------------
(***************************************************************************)
(* ftl::StuckThreadGuard (thread/thread_count.hpp): waits for each watched *)
(* worker in turn until a deadline they share, and names those that did    *)
(* not finish.  With pthread_timedjoin_np (reaps) a finished worker is     *)
(* joined by the guard; the fallback only asks pthread_kill(handle, 0).    *)
(***************************************************************************)
EXTENDS Threads

CONSTANT Timeout  \* of require_all_finished

ASSUME TimeoutAssumption == Timeout \in Nat

VARIABLES
  reaps,    \* FTL_HAVE_TIMEDJOIN_NP: how the library was built
  watched,  \* watched_, in the order of the watch() calls
  pc,       \* idle (also after a watch), probe or check (inside thread_finished), returned, threw
  index,    \* the worker being waited for
  left,     \* deadline - now
  stuck,    \* the workers that did not finish
  reaped,   \* HISTORY: the workers joined by the guard
  early     \* HISTORY: the workers that had ended before the call

svars == <<reaps, watched, pc, index, left, stuck, reaped, early>>

Watched == {watched[i] : i \in 1 .. Len(watched)}

StuckInit ==
  /\ reaps \in BOOLEAN
  /\ watched = <<>>
  /\ pc = "idle" /\ index = 1 /\ left = 0
  /\ stuck = {} /\ reaped = {} /\ early = {}

Calling == pc \in {"probe", "check"}

Watch(w) ==
  /\ thread[w] \notin {"none", "joined"} /\ w \notin Watched
  /\ watched' = Append(watched, w)
  /\ pc' = "idle"
  /\ UNCHANGED <<tvars, reaps, index, left, stuck, reaped, early>>

\* require_all_finished.  A handle that was joined must not be used again, so
\* a program calls it again only as long as nothing was.
RequireAllFinished ==
  /\ \A w \in Watched : thread[w] # "joined"
  /\ pc' = "probe"
  /\ index' = 1
  /\ left' = Timeout
  /\ stuck' = {}
  /\ early' = {w \in Watched : thread[w] \in {"exited", "gone"}}
  /\ UNCHANGED <<tvars, reaps, watched, reaped>>

Current == watched[index]

\* thread_finished came back: on to the next worker.
NextWorker ==
  /\ index' = index + 1
  /\ pc' = "probe"

\* pthread_timedjoin_np returned 0: the guard has joined the worker.
Reap ==
  /\ pc = "probe" /\ reaps /\ index <= Len(watched)
  /\ Becomes(Current, "exited", "joined")
  /\ reaped' = reaped \cup {Current}
  /\ NextWorker
  /\ UNCHANGED <<task, reaps, watched, left, stuck, early>>

\* MUTANT of AlreadyGone: any error means that the thread is gone.
AnyErrorIsGone ==
  /\ pc = "probe" /\ index <= Len(watched)
  /\ \/ reaps /\ thread[Current] \in {"running", "detached", "gone"}
     \/ ~reaps /\ thread[Current] \in {"exited", "gone"}
  /\ NextWorker
  /\ UNCHANGED <<tvars, reaps, watched, left, stuck, reaped, early>>

\* EINVAL or ESRCH from pthread_timedjoin_np, ESRCH from pthread_kill: the
\* worker counts as gone.  pthread_kill says so of an ended thread that was
\* not joined with some C libraries, with others it does not.
AlreadyGone ==
  /\ pc = "probe" /\ index <= Len(watched)
  /\ \/ reaps /\ thread[Current] \in {"detached", "gone"}
     \/ ~reaps /\ thread[Current] \in {"exited", "gone"}
  /\ NextWorker
  /\ UNCHANGED <<tvars, reaps, watched, left, stuck, reaped, early>>

\* MUTANT of NotYet: the clock is read before the thread is asked.
ClockFirst ==
  /\ pc = "probe" /\ index <= Len(watched)
  /\ \/ thread[Current] = "running"
     \/ left = 0
     \/ ~reaps /\ thread[Current] \in {"detached", "exited"}
  /\ pc' = "check"
  /\ UNCHANGED <<tvars, reaps, watched, index, left, stuck, reaped, early>>

NotYet ==
  /\ pc = "probe" /\ index <= Len(watched)
  /\ \/ thread[Current] = "running"
     \/ ~reaps /\ thread[Current] \in {"detached", "exited"}
  /\ pc' = "check"
  /\ UNCHANGED <<tvars, reaps, watched, index, left, stuck, reaped, early>>

TryAgain ==
  /\ pc = "check" /\ left > 0
  /\ pc' = "probe"
  /\ UNCHANGED <<tvars, reaps, watched, index, left, stuck, reaped, early>>

GiveUp ==
  /\ pc = "check" /\ left = 0
  /\ stuck' = stuck \cup {Current}
  /\ NextWorker
  /\ UNCHANGED <<tvars, reaps, watched, left, reaped, early>>

AllAsked ==
  /\ pc = "probe" /\ index = Len(watched) + 1
  /\ pc' = IF stuck = {} THEN "returned" ELSE "threw"
  /\ index' = 1 /\ left' = 0
  /\ UNCHANGED <<tvars, reaps, watched, stuck, reaped, early>>

StuckStep ==
  Reap \/ AlreadyGone \/ NotYet \/ TryAgain \/ GiveUp \/ AllAsked

StuckTick ==
  /\ Calling /\ left > 0
  /\ left' = left - 1
  /\ UNCHANGED <<tvars, reaps, watched, pc, index, stuck, reaped, early>>

-----------------------------------------------------------------------------
StuckTypeOK ==
  /\ reaps \in BOOLEAN
  /\ watched \in Seq(Workers)
  /\ pc \in {"idle", "probe", "check", "returned", "threw"}
  /\ index \in 1 .. Len(watched) + 1
  /\ left \in 0 .. Timeout
  /\ stuck \subseteq Watched
  /\ reaped \subseteq Watched
  /\ early \subseteq Watched

(* However require_all_finished ends, every handle has exactly one owner:  *)
(* those not named were joined by the guard, unless the program had        *)
(* detached them, and those named are untouched (thread_count.hpp:59-62);  *)
(* the fallback never joins any.                                           *)
HandlesHaveOneOwner ==
  pc \in {"returned", "threw"} =>
    /\ stuck \cap reaped = {}
    /\ pc = "returned" => stuck = {}
    /\ IF reaps THEN \A w \in Watched \ stuck :
                       w \in reaped \/ thread[w] \in {"detached", "gone"}
       ELSE reaped = {}

(* A worker that had ended when require_all_finished was called is never   *)
(* named as stuck, however long the workers before it were waited for: the *)
(* question comes before the look at the clock (thread_count.hpp:125-135). *)
EndedIsNotNamed ==
  reaps => stuck \cap early = {}
=============================================================================

--------------------------- MODULE ThreadLeakGuard ---------------------------
(***************************************************************************)
(* ftest::ThreadLeakGuard (guards.hpp): compares the number of threads     *)
(* that /proc/self/task lists with what it was, and gives a thread that    *)
(* was just joined half a second to disappear from there.                  *)
(***************************************************************************)
EXTENDS Threads

CONSTANT Grace  \* the 500 ms, in units of a sleep, 10 ms

ASSUME GraceAssumption == Grace \in Nat \ {0}

VARIABLES
  lpc,       \* none (no guard), idle, loop, counted (before the look at the
             \* clock), sleep, clean or thrown
  baseline,  \* baseline_
  expected,  \* expected_new_threads
  grace,     \* deadline - now
  before,    \* HISTORY: the workers listed when the guard was made
  made,      \* HISTORY: the workers created since then
  listed,    \* HISTORY: the workers that the last snapshot of a call counted
  seenAt,    \* HISTORY: what was left of the grace at that snapshot
  blind      \* HISTORY: /proc/self/task could not be opened for the baseline
             \* or for the verdict, which then counts 0 threads

guardv == <<lpc, baseline, expected, grace, before, listed, seenAt, blind>>
lvars  == <<guardv, made>>

InRequireClean == lpc \in {"loop", "counted", "sleep"}

\* thread_snapshot().count: the main thread and the workers listed, or 0.
Snapshots == {1 + Cardinality(task), 0}

LeakInit ==
  /\ lpc = "none" /\ baseline = 0 /\ expected = 0 /\ grace = 0
  /\ before = {} /\ made = {} /\ listed = {} /\ seenAt = 0 /\ blind = FALSE

MakeLeakGuard ==
  /\ lpc = "none"
  /\ lpc' = "idle"
  /\ baseline' \in Snapshots
  /\ before' = task
  /\ blind' = (baseline' = 0)
  /\ UNCHANGED <<tvars, expected, grace, made, listed, seenAt>>

\* MUTANT of RequireClean: no grace.
RequireCleanAtOnce(n) ==
  /\ lpc \in {"idle", "clean", "thrown"}
  /\ lpc' = "loop"
  /\ expected' = n
  /\ grace' = 0
  /\ blind' = (baseline = 0)
  /\ UNCHANGED <<tvars, baseline, before, made, listed, seenAt>>

RequireClean(n) ==
  /\ lpc \in {"idle", "clean", "thrown"}
  /\ lpc' = "loop"
  /\ expected' = n
  /\ grace' = Grace
  /\ blind' = (baseline = 0)
  /\ UNCHANGED <<tvars, baseline, before, made, listed, seenAt>>

\* The parameter and the locals end with the call.
LocalsEnd == expected' = 0 /\ grace' = 0 /\ listed' = {} /\ seenAt' = 0

\* MUTANT of FewEnough: off by one.
FewEnoughOffByOne ==
  /\ lpc = "loop"
  /\ \E now \in Snapshots :
       /\ now <= baseline + expected + 1
       /\ blind' = (blind \/ now = 0)
  /\ lpc' = "clean"
  /\ LocalsEnd
  /\ UNCHANGED <<tvars, baseline, before, made>>

\* The snapshot shows no more than it should: return, without a look at the
\* clock.
FewEnough ==
  /\ lpc = "loop"
  /\ \E now \in Snapshots :
       /\ now <= baseline + expected
       /\ blind' = (blind \/ now = 0)
  /\ lpc' = "clean"
  /\ LocalsEnd
  /\ UNCHANGED <<tvars, baseline, before, made>>

\* It shows more: now ask the clock, which goes on in the meantime, as do the
\* workers and the kernel.
TooMany ==
  /\ lpc = "loop"
  /\ \E now \in Snapshots : now > baseline + expected
  /\ lpc' = "counted"
  /\ listed' = task /\ seenAt' = grace
  /\ UNCHANGED <<tvars, baseline, expected, grace, before, made, blind>>

\* The throw is over the threads counted then.
GraceIsOver ==
  /\ lpc = "counted" /\ grace = 0
  /\ lpc' = "thrown"
  /\ LocalsEnd
  /\ UNCHANGED <<tvars, baseline, before, made, blind>>

LookAgain ==
  /\ lpc = "counted" /\ grace > 0
  /\ lpc' = "sleep"
  /\ listed' = {} /\ seenAt' = 0
  /\ UNCHANGED <<tvars, baseline, expected, grace, before, made, blind>>

\* Time passes.  The kernel unlists a joined thread within the grace.
GracePasses ==
  /\ grace > 0
  /\ grace = 1 => \A w \in task : thread[w] # "joined"
  /\ grace' = grace - 1

\* MUTANT of Sleep: the deadline is computed in the loop.
SleepRenewsDeadline ==
  /\ lpc = "sleep"
  /\ grace' = Grace
  /\ lpc' = "loop"
  /\ UNCHANGED <<tvars, baseline, expected, before, made, listed, seenAt, blind>>

\* sleep_for(10 ms).
Sleep ==
  /\ lpc = "sleep"
  /\ GracePasses
  /\ lpc' = "loop"
  /\ UNCHANGED <<tvars, baseline, expected, before, made, listed, seenAt, blind>>

LeakStep == FewEnough \/ TooMany \/ GraceIsOver \/ LookAgain \/ Sleep

\* The thread is not running, or slept for longer.
LeakTick ==
  /\ lpc \in {"loop", "counted"}
  /\ GracePasses
  /\ UNCHANGED <<tvars, lpc, baseline, expected, before, made, listed, seenAt, blind>>

-----------------------------------------------------------------------------
LeakTypeOK ==
  /\ lpc \in {"none", "idle", "loop", "counted", "sleep", "clean", "thrown"}
  /\ baseline \in 0 .. Cardinality(Workers) + 1
  /\ expected \in Nat
  /\ grace \in 0 .. Grace
  /\ lpc = "sleep" => grace > 0
  /\ before \subseteq Workers /\ made \subseteq Workers
  /\ listed \subseteq Workers
  /\ seenAt \in 0 .. Grace
  /\ blind \in BOOLEAN

(* A joined thread may still be listed when require_clean starts; that is  *)
(* what the polling is for (guards.hpp:33-38).  If the last snapshot was   *)
(* taken when the grace was over, a throw is over some worker of the       *)
(* guarded scope that was counted and has not been joined.                 *)
JoinedIsNotLeaked ==
  [][lpc = "counted" /\ lpc' = "thrown" /\ ~blind /\ seenAt = 0 =>
       \E w \in made \cap listed : thread[w] # "joined"]_lvars

(* A thread that runs on is not missed: require_clean returns only if at   *)
(* most as many of the threads made since the baseline run as were         *)
(* expected and as have ended of the baseline's own, which hide others.    *)
RunningIsNotMissed ==
  [][lpc' = "clean" /\ lpc = "loop" /\ ~blind' =>
       Cardinality({w \in made : thread[w] \in {"running", "detached"}})
         <= expected + Cardinality({w \in before : Ended(w)})]_lvars

(* The comment at guards.hpp:14-19: the test fails when threads created in *)
(* the guarded scope "were not joined before require_clean() runs", and    *)
(* one that exited "still shows up" until it is joined.                    *)
CleanMeansJoined ==
  [][lpc' = "clean" /\ lpc = "loop" /\ ~blind' /\ expected = 0
       /\ (\A w \in before : ~Ended(w)) =>
       \A w \in made : thread[w] = "joined"]_lvars
=============================================================================

# A verification project for ftest / ftl

`ftl` is a header-only C++17 library of process and resource utilities (a
subprocess runner, pipes, descriptors, output capture, temporary files, thread
and descriptor probes), with a C rendition of its runner in `ftl.h`; `ftest` is
the test framework built on it.  Its users rely on it for what tests cannot do
for themselves: bounding a hanging child, collecting output without losing any,
noticing a leaked descriptor or thread.  The modules here model that logic as
state machines, TLC checks them on small instances, and TLAPS proves the main
safety results for every value of the constants.

## 1. Inventory

| Part | State it keeps | Operations | Talks to | What is hard | What makes it correct |
|---|---|---|---|---|---|
| `ftl::Subprocess` (`process/subprocess.hpp`, `io/pipe.hpp`) | pipe ends, deadline, two sources, `RunResult` | `run`, `write_all`, `collect`, `drain_once`, `child_exec` | kernel pipes, child, descendants, clock | the child runs beside it; EOF depends on who holds which pipe end; every call can fail | comes back, loses no output, kills at the deadline only, reaps, reports the truth |
| `ftl_run_command` (`ftl.h`) | int pipe ends, elapsed time, growing buffer | one function | the same | the same, with clean-up by hand | the same, and the buffer stays in bounds |
| `UniqueFd`, `open_fd`, `fd_snapshot` (`core/fd.hpp`) | one descriptor per object | construct, move, release, reset, destroy | the descriptor table | numbers are reused at once | one owner per descriptor |
| `FdLeakGuard` (`fdtrack.hpp`) | baseline of open numbers | construct, `require_clean` | the table, through a descriptor of its own | the probe disturbs what it measures | no false alarm, no missed leak |
| `StuckThreadGuard` (`thread/thread_count.hpp`, `guards.hpp`) | watched handles | `watch`, `require_all_finished` | threads, clock | who joins what; one deadline for all | handles keep one owner; nobody finished is named; comes back |
| `ThreadLeakGuard` (`guards.hpp`) | a thread count | construct, `require_clean` | `/proc/self/task` | a joined thread lingers there, an exited one vanishes | accuses no joined thread, misses no running one |
| `FdCapture` (`io/capture.hpp`) | saved descriptor, temporary file | construct, `content`, destroy | stdio, a file position shared by two users | stdio delivers late; captures nest | restores, keeps output apart, returns all of it |
| child set-up (`subprocess.hpp`, `ftl.h`) | override list, descriptor table | `env`, `build_child_env`, `execve_portable`, rlimit, `dup2`, `close_unused` | exec | order and precedence of entries; pipe ends with the numbers that `dup2` overwrites | the child sees what was asked for, its pipes on 0-2 and nothing else |
| several `run()`s in threads | the shared descriptor table | fork, close, kill, wait | each other's children | every fork copies the ends of the other runs | a run keeps its contract whatever the others do |
| temporary files (`io/temp.hpp`, `ftl.h`) | a path | create, destroy | the file system | partial failure, entries added during the removal | nothing remains, nothing else goes |
| `ScopeGuard` | an action, active or not | move, dismiss, destroy | - | moves | runs exactly once unless dismissed |
| `Suite`, `Runner` (`framework.hpp`) | cases, totals | `add`, `run`, `run_all` | test functions that throw | an exception of any kind | exit code 0 iff every case ran and passed |
| heap guard, matchers, `CommandRunner` | - | comparisons, a copy per run | glibc | - | - |

Parts work together by plain calls; what is concurrent is outside the library:
child processes, worker threads, the kernel, the clock.  The hazards, with the
line where each bites and the properties that cover it, are in `PROJECT.json`.

## 2. Modules

| Module | Models | Notes |
|---|---|---|
| `ChildWorld` | kernel pipes, the child, its descendants | shared by both runners; only the steps between fork and exec are library code |
| `Subprocess` | `run()` and `collect()` | extends `ChildWorld` |
| `RunContract` | what `run()` promises | abstract: no pipes, no polls |
| `SubprocessProofs` | theorems about `Subprocess` | includes the refinement of `RunContract` |
| `ConcurrentRuns` | several `run()`s of one program | by their calls on pipe ends; implements `RunContract` once per run |
| `ConcurrentRunsProofs` | theorems about it | for any number of runs |
| `ChildFds` | descriptor numbers from `pipe()` to exec, both runners | |
| `ExecEnv` | `env()`, `build_child_env`, the PATH search | |
| `ChildSetup`, `ChildSetupMC` | the two together; its small instance | |
| `ChildSetupProofs` | theorems about the three | |
| `FtlRunCommand` | `ftl_run_command` | extends `ChildWorld` |
| `FtlRunCommandProofs` | theorems about it | |
| `UniqueFd` | `UniqueFd` over the descriptor table | |
| `FdLeakGuard` | `fd_snapshot`, `FdLeakGuard` | extends `UniqueFd` |
| `FdLeakGuardProofs` | theorems about both | |
| `Threads` | workers and `/proc/self/task` | external |
| `StuckThreadGuard`, `ThreadLeakGuard` | the two thread guards | each extends `Threads` |
| `ThreadGuards` | a program that uses both | composes the three |
| `ThreadGuardsProofs` | theorems about it | any finite number of workers |
| `FdCapture` | `FdCapture`, `capture_stdout` | |
| `ScopeGuard` | `ScopeGuard` | |
| `TempDir` | `TempDir`, the walk of `nftw` | |
| `ScopesProofs` | theorems about these three, each by itself | |
| `TestRun` | `Suite`, `Runner`, the scopes of a case | composes `FdCapture`, `ScopeGuard` and `TempDir` |
| `TestRunProofs` | theorems about it | carries those of `ScopesProofs` over |

### How state and actions correspond to the code

*A step is one system call of the modelled code with the code up to the next
one.*  `pc` names the call about to be made.

* **Subprocess.** `parentEnds` is the set of pipe ends the program has open,
  `runOwns` and `collectOwns` those that the `UniqueFd`s in the frames of
  `run()` and `collect()` hold.  `ResetRun` is `reset()`; between `run()` and
  `collect()` the read ends are `Released` and `TakenOver`.  However the frames
  are left, `Destructors` closes what their objects hold, and nothing else: an
  end that no object holds stays open.  `open` is the `open` flags of the two
  `Source`s, `got` the lengths of the two sinks, `left` is `deadline - now`,
  `slice` what remains of the timeout handed to `poll`, after the cast to `int`
  (`ToInt` keeps its width).  `Throw` is stack unwinding.  Data is counted
  in units; a pipe holds `PipeCap` of them and a read takes up to `Chunk`.
  End-of-file is derived from who still holds a write end: the parent, the child
  between fork and exec, the child's streams, or a descendant that inherited
  them.  `Faults` says which calls may fail.
* **FtlRunCommand.** As above; `elapsed` is `elapsed_ms`, which is `Measured`
  after each `poll` and goes stale from there, `capacity` and `length` the buffer (`capacity = 0` is a `NULL`
  buffer), and `Fail` lists the ends that each failure path closes by name.
* **UniqueFd / FdLeakGuard.** `table` is the process's descriptor table, `raw`
  the descriptors the program holds as plain ints, `fd[o]` the member of object
  `o`.  New descriptors take the lowest free number, which is what makes the
  snapshot's own transient descriptor interesting.  `before` and `seen` are
  history.
* **Thread guards.** `reaps` chooses the build (`pthread_timedjoin_np` or the
  `pthread_kill` probe).  `task` is what `/proc/self/task` lists: an ended
  thread leaves it some time after its end, joined or not.  The main thread
  does one thing at a time; while a guard's call is under way, only workers,
  kernel and clock move.  `require_clean` counts (`FewEnough`, `TooMany`), and
  looks at the clock in a step of its own (`GraceIsOver`, `LookAgain`); in
  between the thread may be descheduled for as long as it takes (`LeakTick`).
  The rest is history: `early` and `reaped`; `before`, the workers of the
  baseline, and `made`, those created since; `listed`, what the last snapshot
  counted, and `seenAt`, what was left of the grace then; `blind`.
* **FdCapture.** Each level has a file (`data`), a position shared by the
  descriptor and the stream `file_` (`pos`), and what `ftell` remembers
  (`known`).  That `ftell` asks the kernel only before the stream was first
  positioned, and that rewinding and reading sets the shared position to the end
  of what was read (or past it, by read-ahead), is glibc's behaviour as the code
  uses it.
* **ConcurrentRuns.** `ends` is the one descriptor table the threads share, an
  end being named by run, pipe and direction; `held[r]` is what the child of `r`
  has of it: at the fork everything, after `child_exec` all but its own run's
  ends, which are its streams or closed.  The poll loop is one step per way of
  leaving it (`EndOfOutput`, `KillAtDeadline`); `Subprocess` has its inside.
  `overlapped[r]` is history: who forked while a write end of `r` was open.
* **ChildFds / ExecEnv.** `table` is the descriptor table, first the caller's
  and after the fork the child's; `pipe()` takes the two lowest free numbers.
  `inC` chooses `ftl_run_command`.  `SetEntry` is the loop that `env()` and
  `build_child_env` share: the first entry of a key is replaced or a new one
  appended.  The step `"build"` is `build_child_env` up to its loop, `"merge"`
  the loop, one override a step (`merged` counts them; a loop so written can be
  reasoned about), and then `exec`.  `calls` is history, from which `Asked` says
  what should come out.
* **ScopeGuard.** A slot holds a guard object; one that was moved from keeps its
  place with `active` false.  `ran` counts.
* **TempDir.** `walk` is the stack of directories `nftw` is in, each with the
  entries it had when it was read; `RemoveNode` is `remove_entry`, whose failure
  stops the walk.  Whoever a test leaves behind (`leftover`) adds entries beside
  it, and a locked directory gives up none.
* **TestRun.** `NextCase`, `Verdict`, `SuiteEnds`, `Report` are the loops of
  `Suite::run` and `Runner::run_all`.  The body of a case does what the three
  components allow and ends or throws at any point (`BodyEnds`); `Unwind`
  destroys what is left, then the verdict is counted and printed, through the
  stream that captures redirect.  At most one case of a run uses a tool, `tool`.

## 3. Runs

| Run | Question | Bounds |
|---|---|---|
| `RunFaults` | safety of `run()` with `split_output()`, against any child, every call failing; that it comes back, and when not | pipes of 2, 3 units of output, payload of 3 (more than a pipe), reads of 2, deadline 2 |
| `RunReturns` | refinement of `RunContract`, its liveness included: the result is true and comes | payload of 2, which fits the pipe; set-up may fail |
| `RunFilter` | a filter given a large payload completes and returns all of it | pipes of 3, payload 7: two full pipes and the unit the filter holds, the largest that completes |
| `Command` | safety and return of `ftl_run_command`, every call failing, SIGPIPE ignored by its caller or not | pipe of 2, payload of 3, so that one nobody reads blocks; buffer of 2, so it grows; slices of 1, so `poll` is called several times before the deadline of 2 |
| `ConcurrentRuns` | what overlapping runs can do to each other | 2 runs, each child a filter or not |
| `ChildSetup` | the child's descriptors and environment, in both runners and both builds | every subset of 0-2 closed in the caller, limits 2 and 3 or none, 2 keys, 2 values, 2 calls of `env()` |
| `LeakGuard` | ownership and the leak guard, over all sequences of operations | 5 descriptors, 2 objects, 2 standard descriptors: room for two leaks, a closed baseline number and a full table |
| `ThreadGuards` | both thread guards in one program | 2 workers, deadline 1, grace of 2 sleeps |
| `TestRun` | suites of cases with captures, guards and a temporary directory, thrown out of anywhere | 2 suites of at most 1 case; captures nested 2 deep with 5 units of output; 2 slots, 2 actions; a tree of two files, a subdirectory and a link |
| `RunUnreadStdin` *(violation)* | "`run()` always returns" | a payload that exceeds the pipe, a child that ignores it |
| `ExitedUnjoined` *(violation)* | "a thread that exited but was never joined still shows up" | 1 worker |
| `CaptureTwice` *(violation)* | `content()` "returns everything captured so far" | 1 level, 2 units |

The bounds are the smallest at which every quantity can be below, at and above
the limit it is compared with: payload against pipe, output against pipe and
read size, buffer against read, now against deadline, table against leaks.  Two
workers let one delay the other and one hide the other; two runs are the least
that overlap, two suites the least in which a count can be lost.  The proofs of
section 4 are for any number of runs, workers, captures, guards, suites and
cases, of any size.  Every passing run
completes the whole reachable state space.

A definition under a comment `MUTANT of X` is a mistake one could have made in
the code behind `X`.  Nothing uses it; put in the place of `X` it makes the
property it is listed with in `PROJECT.json` fail, which shows that the
property depends on that code.

Deadlock is checked in all runs; a finished `run()` stutters in `Done`.

### Fairness

`RunFaults`, `RunReturns`, `Command`: the caller is scheduled and its non-failing calls
return (weak fairness of `ParentProgress`, `CallerProgress`), time passes
(`Tick`), and the kernel carries out a SIGKILL (`ChildGone`).  *Nothing* is
assumed of the child: it may hang, write, spawn, close its stdin.  In
`RunReturns` it does not close its output streams and run on (`"close_out"`),
because then `run()` waits in `waitpid` with no deadline.  `ComesBack`
(`RunFaults`) and `CommandReturns` exclude nothing and name the ways not to come
back: a payload that nobody reads (`PayloadUnread`), a wait for a child that is
not going to be killed (`WaitsUnkilled`), and in C SIGPIPE.  `RunFilter` also assumes that the
filter is scheduled.  `ConcurrentRuns`: the same for every thread, its deadline
and a SIGKILL; nothing of the children, which may run for ever.
`ThreadGuards`: the guards' own steps, the clock, and the kernel unlisting
ended threads; workers may run for ever.  `GracePasses` further takes it that a
joined thread is unlisted within the grace of half a second, as
`guards.hpp:33-38` does.  `TestRun`: the framework goes on, the verdict is
printed, scopes are left (`Framework`, `PrintVerdict`, `Unwind`), which
includes that a case's body ends, as the framework itself has no timeout.

## 4. Proofs

**`SubprocessProofs`** (all sizes, timeouts, fault sets; assumptions of the
modules, `RunAssumption` and `WorldAssumption`):

* `TypeCorrect`: `TypeOK`, inductive as it stands.
* `OutputAccounted`: `[]OutputInv`, the inductive invariant behind everything
  about output.  For each pipe `wrote = got + buf` (unless an append failed), a
  source that was closed is empty and has no writer, and a source reported ready
  has data or no writer.  It needs that writers can only go away once the child
  has execed (`EndsOnlyDrop`, `WritersStayAway`): without that, an EOF seen
  once could be taken back.  `OutputComplete` (nothing lost) and
  `ReadsNeverBlock` follow.
* `NoEarlyKill` (`Timeout <= IntMax`): from `SliceIsLeft`, the timeout `poll`
  was given never runs out before the deadline.
* `EndsAreClosed` (any faults): `EndsInv`, which ends are open at each call
  (`OpenAt`) and which object holds each: those of `run()` until the read ends
  are handed over, those of `collect()` from then on (`InCollect`).  What the
  destructors close is therefore all there is.
* `ReportTrue` (`Faults \subseteq {"pipe", "fork"}`): from
  `ChildAccounted`, which ties `pc`, `child`, `status` and `timedOut`.
* `RunKeepsContract` (both assumptions): every step of `Spec` is a step of
  `RunContract` or a stutter under the mapping in `Subprocess`
  (`ParentRefines`, `ChildRefines`).

**`FtlRunCommandProofs`** (all sizes, timeouts, fault sets and dispositions of
SIGPIPE; `CommandAssumption` and `WorldAssumption`, the former with
`Chunk <= Capacity`, as 4096 and 4096 are): the inductive invariant is
`CmdInv`, the types and four parts:

* `MemInv`: a buffer is at least as large as it was first and has room for the
  NUL.  A read is no longer than the first buffer, hence `BufferBounded` and
  `DoublingSuffices`.
* `EndsInv`: which pipe ends are open at each call (`OpenAt`); gives
  `EndsAreClosed`.
* `LifeInv`: what `pc`, `child`, `status`, `killed` and `elapsed` have to do with
  each other; gives `NoOrphan` and `ReportTrue`.  That a child is `"dying"` only
  if it was killed is what rules out a SIGKILL without `timed_out`.
* `OutInv`: written is read plus in the pipe, and after end-of-file nothing is
  in the pipe.  The latter stays so because the read end is closed by then
  (`EndsInv`); gives `OutputComplete`.

`NoEarlyKill` needs `elapsed <= now`, which is part of `TypeOK` (`TypeCorrect`).

**`FdLeakGuardProofs`** (tables of any size, any set of objects):
`TypeCorrect`, `OwnershipHolds` (`OneOwner`, inductive with the type
invariant, preserved by each of the ten operations), `GuardIsSound`,
`GuardIsComplete`, `CountIsExact`.  The last three rest on `GuardInv`: the
baseline is `before` and the lowest number that was then free.  `CountIsExact`
adds `CountInv`: what is reported are the leaks, or these with the one that
took the first snapshot's own number exchanged for the second one's; so their
number is right either way (`FS_` theorems of cardinality).

**`ChildSetupProofs`** (any limits, keys, values, environments and number of
calls; `LimitsAssumption`, `EnvAssumption`):

* `ChildFdsCorrect`: `FdsInv` follows the ends from `pipe()` to `close_unused`.
  `MadeInv` says which are made and that their numbers grow; `PipesInv` that
  each is where `fd` says and nowhere else, below them nothing free; `DupsInv`
  that above 2 this still holds while `dup2` overwrites the standard ones, which
  are right as far as it has come.  No source is overwritten before its turn, because
  three ends at least have lower numbers than that of the second or third
  `dup2`, which is therefore above 2 (`SourcesAreHigh`).
* `EnvironmentIsAsAsked`, `ProgramOfChildPath`: `CallsInv`, the overrides are
  what the last of the calls still standing asked for, one per key; `MergeInv`,
  of the child's entries those for keys already merged have their value and the
  others the one from below.  Both use what the shared loop does to any list
  (`SetEntryEffect`), and that a bounded set has a least and a greatest member
  (`LeastAndGreatest`, from the well-foundedness of `<`).
* `ChildSetupTypes`: `TypeOK`, from these two and `HitIsListed`.

**`ThreadGuardsProofs`** (any finite set of workers, any timeout and grace;
`WorkersAssumption`, `TimeoutAssumption`, `GraceAssumption`).  The inductive
invariant `Inv` has four parts: `ListInv` (what is listed in `/proc/self/task`),
`Alone` (no guard's call runs inside the other's), `StuckInv` (where the handles
before `index` have gone: to `stuck`, reaped, or ended detached) and `LeakInv`
(the baseline counts the workers of `before` and the main thread, and all others
listed are in `made`; a count that was too high was taken of those in `listed`;
when the grace is over no joined thread is listed, and none is in a count taken
then, as nobody joins one meanwhile).  From it `ThreadGuardsTypes`,
`OneOwnerAfterwards`, `EndedNeverNamed`, and, with `WhoDecides`, that the
verdict falls in `GraceIsOver` or `FewEnough`, the action properties
`JoinedNeverLeaked`, for counts taken when the grace was over, and
`RunningNeverMissed`.  Of an older count the first is false (section 5).

**`ScopesProofs`** (captures of any depth, guards and actions of any number;
`CaptureAssumption`, `GuardAssumption`), each component by itself:

* `CapturesKeepOutput`: `CaptureInv` implies all four properties of `FdCapture`.
  `Nested`: each level has saved the one outside it.  `AtHome`: a unit is in the
  file of the level it was produced at, or still in the buffer.  `AtTheEnd`: a
  file's position is its end unless a `content()` came too early (`late`), and
  what `ftell` remembers is right until then.  `AllKept`: of what was captured
  nothing is lost; `IsInjective(data[0] \o pending)`: and nothing is doubled.
* `ActionsRunOnce`: `RunsOnce`; to be inductive it needs that the guard of an
  action not yet made is nowhere.
* `TempDirsGo`: in `TreeInv`, `WalkInv` says that the walk is in the directory
  (`InDirectory`) or its subdirectory (`InSubdirectory`), and that as long as
  nobody interfered what it has still to visit is what there is.

**`TestRunProofs`** (any number of suites of any size; in addition
`RunnerAssumption`): every step of a test run is a step or a stutter of each of
the three components (`StepOfObjects`), so their invariants hold in it:
`OutputRestored`, `OutputStaysHome`, `OutputNotLost`, `ContentShowsAll`,
`GuardsRunOnce`, `TempDirsRemoved`.  `ExitCodeTellsTheTruth` and `TestRunTypes`
have an invariant of their own, `RunInv`.  It says that the failures counted are
none exactly when all results so far are passes, and that these are as many as
the cases begun (`AllAccounted`).  As no proof can use a recursive sum, the
latter is stated by a function of prefix sums, whose existence is kept: `add`
extends it, `run_all` only reads it.

**`ConcurrentRunsProofs`** (any set of runs):

* `TypeCorrect`.
* `OnlyOverlapHoldsUp`: `HeldUpByOverlap`.  The inductive invariant (`HeldInv`)
  says where copies of a run's write ends can be: in the program until the run
  has closed them, in its own child, and in children of runs that overlapped
  and still live, since `held` is emptied when a child ends.
* `EachRunKeepsContract`: with `AccountInv`, which ties each run's call, child,
  status and kill, every step is a step of `Contract(r)` or a stutter, for every
  `r` at once: one run's kill or wait leaves another's contract state alone.
* `StandstillTakesTwo`: whoever keeps a run from its end is a filter of another
  run (`HolderIsAFilter`), and what keeps that one is a third, or the first.

Model-checked only: liveness under fairness, which the prover does not do
(`ComesBack`, `FilterCompletes`, `CommandReturns`, `CallsEnd`, `EveryRunReturns`, `RunEnds`,
and the liveness half of `ImplementsFairContract`, whose safety half is
`RunKeepsContract`).  Each safety property of a passing run has its
theorem.  An inductive invariant that is proved needs no run of its own.

## 5. Where the code and its documentation part

Shown by a run (see `findings`): an unread payload blocks `run()` before the
deadline exists; `ThreadLeakGuard` does not see a worker that exited unjoined; a
second `content()` misses later output.

Met while modelling.  The modules behave in these ways too; where a property
would fail by one, it names it or the assumption that rules it out:

* An unread payload blocks `ftl_run_command` in the same way before its clock is
  started, against guide.md:465-466 (`PayloadUnread`).
* A child that closes its output and runs on keeps `run()` and
  `ftl_run_command` in `waitpid` past the deadline, against subprocess.hpp:73-74
  (`WaitsUnkilled`; `"close_out"` is left out of `RunReturns`).
* `waitpid` is not retried on EINTR, against reference.md:132, and a `poll`
  error or `bad_alloc` in `collect` leaves the child running and unreaped,
  against reference.md:130-131.  No property of `run()` says that every child is
  reaped, as it would be false; of `ftl_run_command`, `NoChildLeftBehind` says
  so but for EINTR.  `ReportTrue` and `RunKeepsContract` are about failures of
  set-up for this reason.
* A timeout over `INT_MAX` ms wraps in the cast for `poll`, which then returns
  early, and the child is killed before its deadline (`Timeout <= IntMax`).
* `require_clean` counts the threads before it looks at the clock: descheduled
  past the deadline in between, it throws over a joined thread that has left
  `/proc/self/task` since, against guards.hpp:36-37 (`JoinedIsNotLeaked` is about
  counts taken when the grace was over).
* The output of `ftl_run_command` is `NULL` only when memory ran out; that of a
  child that wrote nothing is an empty string, against ftl.h:44-45 and
  reference.md:179.
* SIGPIPE can end the caller of `ftl_run_command` when exec fails before the
  payload is written, against ftl.h:63 (`CommandReturns` names it); a `poll`
  error leaves its loop without a kill (`WaitsUnkilled`).
* With `execvpe` the program is resolved in the parent's PATH, against
  reference.md:136-137 (`ResolvedInChildPath` is for the portable build).
* `FdLeakGuard` names its own descriptor in place of a leaked one that got the
  number of the first snapshot's, as any single leak may (`CountIsRight` states
  what holds, reference.md:239 more), and sees nothing with a full table.
* `timed_out` may be set for a child that had exited by itself, when a
  descendant holds its output, or in C when EOF arrives at the deadline
  (`ReportIsTruth` and `RunContract` state the direction that holds).
* The `pthread_kill` build may name a finished, unjoined worker
  (`EndedIsNotNamed` is for the other build); a detached worker that still runs
  counts as finished (`HandlesHaveOneOwner` exempts it).
* Two overlapping runs of filters can hold each other's stdin open until a
  deadline, and report timeouts that are none (`AllStuck` is reachable;
  `StandstillNeedsTwoFilters` says when).
* `ftl_run_command` closes its pipe ends even where they are numbered 0 to 2,
  so a caller without standard descriptors breaks its child's streams; a
  `rlimit_nofile` of 1 or 2 makes `dup2` fail unnoticed (`Sound`).
* `TempDir` makes no directory writable again: a locked one stops the walk and
  leaves the rest (`ExactlyTheTreeGoes` exempts it).
* An action of a `ScopeGuard` that throws ends the whole test program
  (`ActionThrows`, named by `RunEnds`).
* `require_throws<T>` accepts any exception, as guide.md:198 says and
  reference.md:214 does not; `ftl_temp_file_create` returns a path in spite of
  a failed write, and leaves the file if `strdup` fails.  Neither is modelled.

## 6. Not modelled, and the plan

Not modelled: read errors of the capture's temporary file; program names with a
slash and empty PATH components; `TempFile` and `ftl_temp_file_*`, the
`require_*` helpers, matchers and the heap guard, which are straight-line code
over one value; `CommandRunner`, a copy per run.  Message texts, colours and
`describe_exit` are formatting.

What could still be proved: that `FtlRunCommand` implements `RunContract` as
`Subprocess` does, for the results it shares with it; how long `require_all_finished`
and the slices of `poll` may take in all, as a bound on the clock rather than
as liveness; and, in `ThreadGuards`, that the two guards together miss no worker
that still runs.

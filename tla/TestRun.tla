-------------------------------- MODULE TestRun --------------------------------
(***************************************************************************)
(* ftest::Suite and ftest::Runner (framework.hpp) running test cases, and  *)
(* what the scopes of a case leave to destructors: captures (FdCapture),   *)
(* scope guards (ScopeGuard) and a temporary directory (TempDir).  A case  *)
(* passes or throws, anywhere in its body; either way its objects are      *)
(* destroyed, the last one first, before the framework goes on.            *)
(***************************************************************************)
EXTENDS FdCapture, ScopeGuard, TempDir

CONSTANTS
  MaxSuites,  \* BOUND: suites added to the runner
  MaxSize     \* BOUND: cases of a suite

ASSUME RunnerAssumption == MaxSuites \in Nat /\ MaxSize \in Nat

VARIABLES
  phase,    \* adding, suite, body, leave, returned or aborted
  suites,   \* the sizes of the suites added
  total,    \* total_
  suite,    \* the suite that is run,
  case,     \* and its case
  tool,     \* BOUND: the kind of object this case uses, one case of a run at most
  outcome,  \* how the body of the case ended
  failed,   \* failed, in Suite::run
  sum,      \* failed, in Runner::run_all
  results,  \* HISTORY: the outcomes of the cases run
  code      \* what run_all returns

runv == <<phase, suites, total, suite, case, tool, outcome, failed, sum, results, code>>
vars == <<capturev, guardv, treev, runv>>

Tools    == {"capture", "guard", "tempdir"}
Outcomes == {"pass", "TestFailure", "std::exception", "unknown"}

Init ==
  /\ CaptureInit /\ GuardInit /\ TreeInit
  /\ phase = "adding"
  /\ suites = <<>> /\ total = 0
  /\ suite = 1 /\ case = 0
  /\ tool = "none" /\ outcome = "none"
  /\ failed = 0 /\ sum = 0
  /\ results = <<>> /\ code = "none"

-----------------------------------------------------------------------------
(* The framework.                                                          *)
AddSuite(n) ==
  /\ phase = "adding" /\ Len(suites) < MaxSuites
  /\ suites' = Append(suites, n)
  /\ total' = total + n
  /\ UNCHANGED <<phase, suite, case, tool, outcome, failed, sum, results, code>>

RunAll ==
  /\ phase = "adding" /\ phase' = "suite"
  /\ UNCHANGED <<suites, total, suite, case, tool, outcome, failed, sum, results, code>>

NextCase ==
  /\ phase = "suite" /\ suite <= Len(suites) /\ case < suites[suite]
  /\ phase' = "body"
  /\ case' = case + 1
  /\ tool' \in IF tool = "used" THEN {tool} ELSE Tools \cup {"none"}
  /\ UNCHANGED <<suites, total, suite, outcome, failed, sum, results, code>>

\* MUTANT of AfterSuite: the runner keeps the last count only.
AfterSuiteLast == failed

AfterSuite == sum + failed

SuiteEnds ==
  /\ phase = "suite" /\ suite <= Len(suites) /\ case = suites[suite]
  /\ sum' = AfterSuite
  /\ failed' = 0
  /\ suite' = suite + 1 /\ case' = 0
  /\ UNCHANGED <<phase, suites, total, tool, outcome, results, code>>

Report ==
  /\ phase = "suite" /\ suite > Len(suites)
  /\ phase' = "returned"
  /\ code' = IF sum = 0 THEN "0" ELSE "1"
  /\ UNCHANGED <<suites, total, suite, case, tool, outcome, failed, sum, results>>

\* The body of the case comes to its end, or throws.
BodyEnds(how) ==
  /\ phase = "body" /\ phase' = "leave"
  /\ outcome' = how
  /\ UNCHANGED <<suites, total, suite, case, tool, failed, sum, results, code>>

\* The objects of the case are gone.
ScopesLeft ==
  /\ depth = 0
  /\ \A s \in Slots : fn[s] = NoFn
  /\ ~scratch

\* The three handlers count alike.
Counted(how) == IF how = "pass" THEN 0 ELSE 1

Verdict ==
  /\ phase = "leave" /\ ScopesLeft
  /\ phase' = "suite"
  /\ failed' = failed + Counted(outcome)
  /\ results' = Append(results, outcome)
  /\ tool' = (IF tool \in Tools THEN "used" ELSE tool) /\ outcome' = "none"
  /\ UNCHANGED <<suites, total, suite, case, sum, code>>

-----------------------------------------------------------------------------
(* The body of a case, and the scopes it leaves.                           *)
\* A unit for each verdict still to come is kept in hand.
RoomForOutput == Len(home) + total < MaxUnits + Len(results)

UseCapture ==
  /\ tool = "capture"
  /\ \/ RoomForOutput /\ (Write \/ Printf)
     \/ StdioFlush \/ Construct \/ ConstructFails \/ Destroy
     \/ \E c \in Levels : Content(c)
  /\ UNCHANGED <<guardv, treev>>

UseGuard ==
  /\ tool = "guard"
  /\ GuardStep
  /\ UNCHANGED <<capturev, treev>>

UseTempDir ==
  /\ tool = "tempdir"
  /\ \/ MakeTempDir \/ LeaveSomebody
     \/ \E n \in Nodes : scratch /\ (Add(n) \/ Lock(n))
  /\ UNCHANGED <<capturev, guardv>>

Body == phase = "body" /\ (UseCapture \/ UseGuard \/ UseTempDir) /\ UNCHANGED runv

Unwind ==
  /\ phase = "leave"
  /\ \/ Destroy /\ UNCHANGED <<guardv, treev>>
     \/ (\E s \in Slots : LeaveScope(s)) /\ UNCHANGED <<capturev, treev>>
     \/ (StartWalk \/ WalkStep) /\ UNCHANGED <<capturev, guardv>>
  /\ UNCHANGED runv

\* The action of a guard throws: a destructor must not, and the program ends.
ActionThrows ==
  /\ phase \in {"body", "leave"}
  /\ \E s \in Slots : active[s] /\ LeaveScope(s)
  /\ phase' = "aborted"
  /\ UNCHANGED <<capturev, treev, suites, total, suite, case, tool, outcome, failed,
                 sum, results, code>>

\* Whoever a test left behind goes on adding entries to the directory.
Leftover ==
  /\ leftover
  /\ \E n \in Nodes : Add(n)
  /\ UNCHANGED <<capturev, guardv, runv>>

\* The verdict is printed to the stream that the captures may be given.
PrintVerdict ==
  /\ Verdict
  /\ IF stream THEN Printf ELSE UNCHANGED capturev
  /\ UNCHANGED <<guardv, treev>>

Framework ==
  /\ \/ RunAll \/ NextCase \/ SuiteEnds \/ Report
     \/ \E how \in Outcomes : BodyEnds(how)
  /\ UNCHANGED <<capturev, guardv, treev>>

Adding == (\E n \in 0 .. MaxSize : AddSuite(n)) /\ UNCHANGED <<capturev, guardv, treev>>

Over == phase \in {"returned", "aborted"} /\ UNCHANGED vars

Next ==
  \/ Adding \/ Framework \/ PrintVerdict
  \/ Body \/ Unwind \/ ActionThrows \/ Leftover
  \/ Over

Spec == Init /\ [][Next]_vars

\* The program is scheduled and every test comes to its end.
FairSpec == Spec /\ WF_vars(Framework) /\ WF_vars(PrintVerdict) /\ WF_vars(Unwind)

-----------------------------------------------------------------------------
(* Type invariant. *)
TypeOK ==
  /\ CaptureTypeOK /\ GuardTypeOK /\ TreeTypeOK
  /\ phase \in {"adding", "suite", "body", "leave", "returned", "aborted"}
  /\ suites \in Seq(0 .. MaxSize) /\ total \in Nat
  /\ suite \in 1 .. MaxSuites + 1 /\ case \in 0 .. MaxSize
  /\ tool \in Tools \cup {"none", "used"} /\ outcome \in Outcomes \cup {"none"}
  /\ failed \in 0 .. MaxSize /\ sum \in 0 .. total
  /\ results \in Seq(Outcomes) /\ code \in {"none", "0", "1"}

(* The exit code is 0 if and only if every case that was added ran, once,  *)
(* and passed: neither a failure nor a suite is lost on the way from the   *)
(* handlers to main (framework.hpp:134-199, guide.md:166-169).             *)
ExitCodeIsTruth ==
  phase = "returned" =>
    /\ Len(results) = total
    /\ code = IF \A i \in DOMAIN results : results[i] = "pass" THEN "0" ELSE "1"

(* The run comes to its end, and only a guard's action cuts it short.      *)
RunEnds == phase = "suite" ~> phase \in {"returned", "aborted"}
=============================================================================

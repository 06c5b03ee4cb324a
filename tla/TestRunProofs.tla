----------------------------- MODULE TestRunProofs -----------------------------
(***************************************************************************)
(* Proofs about TestRun.  A step of a test run is, to each kind of object  *)
(* that a case can use, a step of that object's own specification or none: *)
(* so what ScopesProofs proves of each holds in every test run.  Of the    *)
(* framework: the exit code tells the truth.                               *)
(***************************************************************************)
EXTENDS TestRun, ScopesProofs

\* What a step of a test run is to the objects of its cases.
ObjectStep == [CaptureNext]_capturev /\ [GuardStep]_guardv /\ [TreeStep]_treev

LEMMA BodyOfObjects ==
  ASSUME UseCapture \/ UseGuard \/ UseTempDir
  PROVE  ObjectStep
<1>1. CASE UseCapture
  <2>1. CaptureNext
        BY <1>1 DEF UseCapture, CaptureNext
  <2>   QED  BY <1>1, <2>1 DEF UseCapture, ObjectStep
<1>2. CASE UseGuard
      BY <1>2 DEF UseGuard, ObjectStep
<1>3. CASE UseTempDir
  <2>1. TreeStep
        BY <1>3 DEF UseTempDir, TreeStep
  <2>   QED  BY <1>3, <2>1 DEF UseTempDir, ObjectStep
<1>   QED  BY <1>1, <1>2, <1>3

LEMMA UnwindOfObjects == Unwind => ObjectStep
<1>1. CASE Destroy /\ UNCHANGED <<guardv, treev>>
      BY <1>1 DEF CaptureNext, ObjectStep
<1>2. CASE (\E s \in Slots : LeaveScope(s)) /\ UNCHANGED <<capturev, treev>>
  <2>1. GuardStep
        BY <1>2 DEF GuardStep
  <2>   QED  BY <1>2, <2>1 DEF ObjectStep
<1>3. CASE (StartWalk \/ WalkStep) /\ UNCHANGED <<capturev, guardv>>
      BY <1>3 DEF TreeStep, ObjectStep
<1>   QED  BY <1>1, <1>2, <1>3 DEF Unwind

LEMMA StepOfObjects == [Next]_vars => ObjectStep
<1> SUFFICES ASSUME [Next]_vars PROVE ObjectStep
    OBVIOUS
<1>1. CASE Adding
      BY <1>1 DEF Adding, ObjectStep
<1>2. CASE Framework
      BY <1>2 DEF Framework, ObjectStep
<1>3. CASE PrintVerdict
  <2>1. CaptureNext \/ UNCHANGED capturev
        BY <1>3 DEF PrintVerdict, CaptureNext
  <2>   QED  BY <1>3, <2>1 DEF PrintVerdict, ObjectStep
<1>4. CASE Body
      BY <1>4, BodyOfObjects DEF Body
<1>5. CASE Unwind
      BY <1>5, UnwindOfObjects
<1>6. CASE ActionThrows
  <2>1. GuardStep
        BY <1>6 DEF ActionThrows, GuardStep
  <2>   QED  BY <1>6, <2>1 DEF ActionThrows, ObjectStep
<1>7. CASE Leftover
  <2>1. TreeStep
        BY <1>7 DEF Leftover, TreeStep
  <2>   QED  BY <1>7, <2>1 DEF Leftover, ObjectStep
<1>8. CASE UNCHANGED vars
      BY <1>8 DEF vars, ObjectStep
<1>   QED  BY <1>1, <1>2, <1>3, <1>4, <1>5, <1>6, <1>7, <1>8 DEF Next, Over

LEMMA ObjectsHold == Spec => [](CaptureInv /\ GuardInv /\ TreeInv)
<1>1. Init => CaptureInv /\ GuardInv /\ TreeInv
      BY CaptureInitial, GuardInitial, TreeInitial DEF Init
<1>2. CaptureInv /\ GuardInv /\ TreeInv /\ [Next]_vars => (CaptureInv /\ GuardInv /\ TreeInv)'
      BY StepOfObjects, CaptureKept, GuardPreserved, TreeInvPreserved DEF ObjectStep
<1>   QED  BY <1>1, <1>2, PTL DEF Spec

(* Whatever a case does with captures, and wherever it throws, afterwards  *)
(* the descriptor is the original one and none is left open                *)
(* (capture.hpp:26-38, 42-53).                                             *)
THEOREM OutputRestored == Spec => []Restored
BY ObjectsHold, CaptureInvShows, PTL

(* No output is captured that was printed before the capture, or after it. *)
THEOREM OutputStaysHome == Spec => []NoStray
BY ObjectsHold, CaptureInvShows, PTL

(* What is printed outside of captures is not lost, nor delivered twice.   *)
THEOREM OutputNotLost == Spec => []OriginalComplete
BY ObjectsHold, CaptureInvShows, PTL

(* content() shows everything captured, unless more came after the first.  *)
THEOREM ContentShowsAll == Spec => []ContentComplete
BY ObjectsHold, CaptureInvShows, PTL

(* The action of a scope guard in a case runs at most once, and once       *)
(* unless dismissed, however the case ends (scope_guard.hpp:11-29).        *)
THEOREM GuardsRunOnce == Spec => []RunsOnce
<1>1. GuardInv => RunsOnce
      BY DEF GuardInv
<1>   QED  BY ObjectsHold, <1>1, PTL

(* After a case its TempDir is gone with everything in it, unless somebody *)
(* was in the way, and what a link led to is untouched (temp.hpp:57-87).   *)
THEOREM TempDirsRemoved == Spec => []ExactlyTheTreeGoes
<1>1. TreeInv => ExactlyTheTreeGoes
      BY DEF TreeInv
<1>   QED  BY ObjectsHold, <1>1, PTL


-----------------------------------------------------------------------------
(* The framework: no verdict is lost on its way to the exit code.          *)
InFlight == IF phase \in {"body", "leave"} THEN 1 ELSE 0

RunTypes ==
  /\ phase \in {"adding", "suite", "body", "leave", "returned", "aborted"}
  /\ suites \in Seq(0 .. MaxSize) /\ Len(suites) <= MaxSuites
  /\ total \in Nat
  /\ suite \in 1 .. Len(suites) + 1 /\ case \in Nat
  /\ tool \in Tools \cup {"none", "used"} /\ outcome \in Outcomes \cup {"none"}
  /\ failed \in Nat /\ sum \in Nat
  /\ results \in Seq(Outcomes) /\ code \in {"none", "0", "1"}

\* Where the runner is in its suites.
Place ==
  /\ phase = "adding" => suite = 1 /\ results = <<>> /\ sum = 0 /\ case = 0
  /\ phase \in {"body", "leave"} => suite <= Len(suites)
  /\ phase = "leave" => outcome \in Outcomes
  /\ phase = "returned" => suite > Len(suites)
  /\ suite <= Len(suites) => case <= suites[suite]
  /\ suite > Len(suites) => case = 0
  /\ failed + InFlight <= case

(* acc[i] is the number of cases of the suites before the i-th.  All of    *)
(* those before this case have their results, and no failure of the suites *)
(* before this one is counted twice.                                       *)
Accounted(acc) ==
  /\ acc[1] = 0 /\ acc[Len(suites) + 1] = total
  /\ \A i \in 1 .. Len(suites) : acc[i + 1] = acc[i] + suites[i]
  /\ \A i \in 1 .. Len(suites) + 1 : acc[i] <= total
  /\ sum <= acc[suite]
  /\ phase # "aborted" => Len(results) + InFlight = acc[suite] + case

AllAccounted == \E acc \in [1 .. Len(suites) + 1 -> Nat] : Accounted(acc)

AllPassed == \A i \in DOMAIN results : results[i] = "pass"

RunInv ==
  /\ RunTypes /\ Place /\ AllAccounted
  /\ (sum = 0 /\ failed = 0) <=> AllPassed
  /\ phase = "returned" => code = IF sum = 0 THEN "0" ELSE "1"


LEMMA RunInitial == Init => RunInv
<1> SUFFICES ASSUME Init PROVE RunInv
    OBVIOUS
<1> USE DEF Init
<1>1. RunTypes
      BY RunnerAssumption DEF RunTypes
<1>2. Place /\ AllPassed
      BY DEF Place, InFlight, AllPassed
<1>3. AllAccounted
  <2>1. Accounted([i \in 1 .. Len(suites) + 1 |-> 0])
        BY DEF Accounted, InFlight
  <2>   QED  BY <2>1 DEF AllAccounted
<1>   QED  BY <1>1, <1>2, <1>3 DEF RunInv

\* The prefix sums of the suites grow by one.
LEMMA AddKeeps ==
  ASSUME RunInv, NEW n \in 0 .. MaxSize, AddSuite(n)
  PROVE  RunInv'
<1> USE DEF AddSuite
<1>1. PICK m \in Nat : m = Len(suites)
      BY DEF RunInv, RunTypes
<1>2. /\ suites \in Seq(0 .. MaxSize) /\ suites' = Append(suites, n)
      /\ n \in Nat /\ total \in Nat /\ total' = total + n
      BY RunnerAssumption DEF RunInv, RunTypes
<1>3. /\ suites' \in Seq(0 .. MaxSize) /\ Len(suites') = m + 1
      /\ \A i \in 1 .. m : suites'[i] = suites[i]
      /\ suites'[m + 1] = n
      BY <1>1, <1>2, AppendProperties
<1>4. suite = 1 /\ suite' = 1 /\ case = 0 /\ case' = 0 /\ results' = <<>> /\ results = <<>>
      /\ sum = 0 /\ phase = "adding"
      BY DEF RunInv, Place
<1>5. RunTypes'
      BY <1>1, <1>2, <1>3, <1>4, RunnerAssumption DEF RunInv, RunTypes
<1>6. Place'
  <2>1. 0 <= suites'[1]
        BY <1>3, <1>1, RunnerAssumption
  <2>   QED  BY <1>1, <1>3, <1>4, <2>1 DEF RunInv, Place, InFlight
<1>7. AllAccounted'
  <2>1. PICK acc \in [1 .. m + 1 -> Nat] : Accounted(acc)
        BY <1>1 DEF RunInv, AllAccounted
  <2>2. PICK more : more = [i \in 1 .. m + 2 |-> IF i = m + 2 THEN total + n ELSE acc[i]]
        OBVIOUS
  <2>3. more \in [1 .. m + 2 -> Nat] /\ more[m + 2] = total + n
        /\ \A i \in 1 .. m + 1 : more[i] = acc[i]
        BY <1>1, <1>2, <2>1, <2>2
  <2>4. more[1] = 0
        BY <1>1, <2>1, <2>3 DEF Accounted
  <2>5. \A i \in 1 .. m + 1 : more[i + 1] = more[i] + suites'[i]
    <3> SUFFICES ASSUME NEW i \in 1 .. m + 1 PROVE more[i + 1] = more[i] + suites'[i]
        OBVIOUS
    <3>1. CASE i = m + 1
      <4>1. more[i] = total
            BY <1>1, <2>1, <2>3, <3>1 DEF Accounted
      <4>   QED  BY <1>1, <1>3, <2>3, <3>1, <4>1
    <3>2. CASE i # m + 1
      <4>1. i \in 1 .. m /\ i + 1 \in 1 .. m + 1
            BY <1>1, <3>2
      <4>2. acc[i + 1] = acc[i] + suites[i]
            BY <1>1, <2>1, <4>1 DEF Accounted
      <4>   QED  BY <1>3, <2>3, <4>1, <4>2
    <3>   QED  BY <3>1, <3>2
  <2>6. \A i \in 1 .. m + 2 : more[i] <= total + n
    <3>1. \A i \in 1 .. m + 1 : acc[i] \in Nat /\ acc[i] <= total
          BY <1>1, <2>1 DEF Accounted
    <3>   QED  BY <1>1, <1>2, <2>2, <3>1
  <2>7. Len(results') = 0 /\ InFlight' = 0
        BY <1>4 DEF InFlight
  <2>8. Accounted(more)'
        BY <1>1, <1>2, <1>3, <1>4, <2>3, <2>4, <2>5, <2>6, <2>7 DEF Accounted
  <2>   QED  BY <1>1, <1>3, <2>3, <2>8 DEF AllAccounted
<1>   QED  BY <1>4, <1>5, <1>6, <1>7 DEF RunInv, AllPassed

\* A step that leaves the suites alone, and what is accounted for.
LEMMA StillAccounted ==
  ASSUME RunInv, UNCHANGED <<suites, total, suite, sum>>,
         phase # "aborted",
         phase' # "aborted" => Len(results') + InFlight' + case = Len(results) + InFlight + case',
         Len(results') \in Nat, case' \in Nat
  PROVE  AllAccounted'
<1>1. PICK acc \in [1 .. Len(suites) + 1 -> Nat] : Accounted(acc)
      BY DEF RunInv, AllAccounted
<1>2. acc[suite] \in Nat /\ Len(results) \in Nat /\ case \in Nat /\ InFlight \in Nat /\ InFlight' \in Nat
      BY DEF RunInv, RunTypes, InFlight
<1>3. phase' # "aborted" => Len(results') + InFlight' = acc[suite'] + case'
  <2>1. Len(results) + InFlight = acc[suite] + case
        BY <1>1 DEF Accounted
  <2>2. acc[suite'] = acc[suite]
        OBVIOUS
  <2>3. PICK a, b, c, d, e, f, g \in Nat :
          /\ a = acc[suite] /\ b = Len(results) /\ c = case /\ d = InFlight
          /\ e = Len(results') /\ f = case' /\ g = InFlight'
        BY <1>2
  <2>4. b + d = a + c
        BY <2>1, <2>3
  <2>5. phase' # "aborted" => e + g + c = b + d + f
        BY <2>3
  <2>6. phase' # "aborted" => e + g = a + f
        BY <2>4, <2>5
  <2>   QED  BY <2>2, <2>3, <2>6
<1>4. Accounted(acc)'
      BY <1>1, <1>3 DEF Accounted
<1>   QED  BY <1>4 DEF AllAccounted

LEMMA RunAllKeeps == RunInv /\ RunAll => RunInv'
<1> SUFFICES ASSUME RunInv, RunAll PROVE RunInv'
    OBVIOUS
<1> USE DEF RunAll
<1>1. RunTypes'
      BY DEF RunInv, RunTypes
<1>2. Place'
      BY DEF RunInv, Place, InFlight
<1>3. AllAccounted'
      BY StillAccounted DEF RunInv, RunTypes, InFlight
<1>   QED  BY <1>1, <1>2, <1>3 DEF RunInv, AllPassed

LEMMA NextCaseKeeps == RunInv /\ NextCase => RunInv'
<1> SUFFICES ASSUME RunInv, NextCase PROVE RunInv'
    OBVIOUS
<1> USE DEF NextCase
<1>1. RunTypes'
  <2>1. tool' \in Tools \cup {"none", "used"}
        BY DEF RunInv, RunTypes
  <2>   QED  BY <2>1 DEF RunInv, RunTypes
<1>2. suite \in Nat /\ Len(suites) \in Nat /\ suites[suite] \in Nat /\ case \in Nat /\ failed \in Nat
      BY RunnerAssumption DEF RunInv, RunTypes
<1>3. Place'
      BY <1>2 DEF RunInv, Place, InFlight
<1>4. AllAccounted'
      BY StillAccounted, <1>1 DEF RunInv, RunTypes, InFlight
<1>   QED  BY <1>1, <1>3, <1>4 DEF RunInv, AllPassed

LEMMA SuiteEndsKeeps == RunInv /\ SuiteEnds => RunInv'
<1> SUFFICES ASSUME RunInv, SuiteEnds PROVE RunInv'
    OBVIOUS
<1> USE DEF SuiteEnds, AfterSuite
<1>1. RunTypes'
      BY DEF RunInv, RunTypes
<1>2. /\ suite \in Nat /\ Len(suites) \in Nat /\ case \in Nat /\ failed \in Nat /\ sum \in Nat
      /\ suite' = suite + 1 /\ suite \in 1 .. Len(suites) /\ Len(results) \in Nat
      BY DEF RunInv, RunTypes
<1>3. Place'
  <2>1. suite' <= Len(suites) => suites[suite'] \in Nat
        BY <1>2, RunnerAssumption DEF RunInv, RunTypes
  <2>   QED  BY <1>2, <2>1 DEF RunInv, Place, InFlight
<1>4. AllAccounted'
  <2>1. PICK acc \in [1 .. Len(suites) + 1 -> Nat] : Accounted(acc)
        BY DEF RunInv, AllAccounted
  <2>2. acc[suite'] = acc[suite] + case /\ acc[suite] \in Nat /\ acc[suite'] \in Nat
        BY <1>2, <2>1 DEF Accounted
  <2>3. failed <= case
        BY <1>2 DEF RunInv, Place, InFlight
  <2>4. Accounted(acc)'
        BY <1>2, <2>1, <2>2, <2>3 DEF Accounted, InFlight
  <2>   QED  BY <2>4 DEF AllAccounted
<1>5. (sum' = 0 /\ failed' = 0) <=> AllPassed'
      BY <1>2 DEF RunInv, AllPassed
<1>   QED  BY <1>1, <1>3, <1>4, <1>5 DEF RunInv

LEMMA ReportKeeps == RunInv /\ Report => RunInv'
<1> SUFFICES ASSUME RunInv, Report PROVE RunInv'
    OBVIOUS
<1> USE DEF Report
<1>1. RunTypes'
      BY DEF RunInv, RunTypes
<1>2. Place'
      BY DEF RunInv, RunTypes, Place, InFlight
<1>3. AllAccounted'
      BY StillAccounted DEF RunInv, RunTypes, InFlight
<1>   QED  BY <1>1, <1>2, <1>3 DEF RunInv, AllPassed

LEMMA BodyEndsKeeps ==
  ASSUME RunInv, NEW how \in Outcomes, BodyEnds(how)
  PROVE  RunInv'
<1> USE DEF BodyEnds
<1>1. RunTypes'
      BY DEF RunInv, RunTypes
<1>2. Place'
      BY DEF RunInv, Place, InFlight
<1>3. AllAccounted'
      BY StillAccounted DEF RunInv, RunTypes, InFlight
<1>   QED  BY <1>1, <1>2, <1>3 DEF RunInv, AllPassed

\* The verdict of the case becomes a result, and a failure is counted.
LEMMA VerdictKeeps == RunInv /\ Verdict => RunInv'
<1> SUFFICES ASSUME RunInv, Verdict PROVE RunInv'
    OBVIOUS
<1> USE DEF Verdict, Counted
<1>1. /\ results \in Seq(Outcomes) /\ outcome \in Outcomes /\ results' = Append(results, outcome)
      /\ phase = "leave" /\ phase' = "suite"
      /\ failed \in Nat /\ sum \in Nat /\ sum' = sum
      BY DEF RunInv, RunTypes, Place
<1>2. PICK m \in Nat : m = Len(results)
      BY <1>1
<1>3. /\ results' \in Seq(Outcomes) /\ Len(results') = m + 1
      /\ \A i \in 1 .. m : results'[i] = results[i]
      /\ results'[m + 1] = outcome
      BY <1>1, <1>2, AppendProperties
<1>4. RunTypes'
  <2>1. tool' \in Tools \cup {"none", "used"}
        BY DEF RunInv, RunTypes
  <2>2. failed' \in Nat
        BY <1>1
  <2>   QED  BY <1>3, <2>1, <2>2 DEF RunInv, RunTypes
<1>5. Place'
  <2>1. failed' + InFlight' <= case'
        BY <1>1 DEF RunInv, RunTypes, Place, InFlight
  <2>   QED  BY <1>1, <2>1 DEF RunInv, Place
<1>6. AllAccounted'
      BY <1>1, <1>2, <1>3, StillAccounted DEF RunInv, RunTypes, InFlight
<1>7. AllPassed' <=> (AllPassed /\ outcome = "pass")
  <2>1. DOMAIN results = 1 .. m /\ DOMAIN results' = 1 .. m + 1
        BY <1>1, <1>2, <1>3
  <2>   QED  BY <1>2, <1>3, <2>1 DEF AllPassed
<1>8. failed' = 0 <=> failed = 0 /\ outcome = "pass"
      BY <1>1
<1>   QED  BY <1>1, <1>4, <1>5, <1>6, <1>7, <1>8 DEF RunInv

LEMMA AbortKeeps == RunInv /\ ActionThrows => RunInv'
<1> SUFFICES ASSUME RunInv, ActionThrows PROVE RunInv'
    OBVIOUS
<1>1. /\ phase \in {"body", "leave"} /\ phase' = "aborted"
      /\ UNCHANGED <<suites, total, suite, case, tool, outcome, failed, sum, results, code>>
      BY DEF ActionThrows
<1>2. RunTypes'
      BY <1>1 DEF RunInv, RunTypes
<1>3. Place'
      BY <1>1 DEF RunInv, RunTypes, Place, InFlight
<1>4. AllAccounted'
      BY <1>1, StillAccounted DEF RunInv, RunTypes, InFlight
<1>   QED  BY <1>1, <1>2, <1>3, <1>4 DEF RunInv, AllPassed

LEMMA RunInvPreserved == RunInv /\ [Next]_vars => RunInv'
<1> SUFFICES ASSUME RunInv, [Next]_vars PROVE RunInv'
    OBVIOUS
<1>1. CASE Adding
      BY <1>1, AddKeeps DEF Adding
<1>2. CASE Framework
      BY <1>2, RunAllKeeps, NextCaseKeeps, SuiteEndsKeeps, ReportKeeps, BodyEndsKeeps DEF Framework
<1>3. CASE PrintVerdict
      BY <1>3, VerdictKeeps DEF PrintVerdict
<1>4. CASE ActionThrows
      BY <1>4, AbortKeeps
<1>5. CASE UNCHANGED runv
      BY <1>5 DEF runv, RunInv, RunTypes, Place, InFlight, AllAccounted, Accounted, AllPassed
<1>   QED  BY <1>1, <1>2, <1>3, <1>4, <1>5 DEF Next, Body, Unwind, Leftover, Over, vars

LEMMA RunInvShows == RunInv => ExitCodeIsTruth
<1> SUFFICES ASSUME RunInv, phase = "returned" PROVE
      /\ Len(results) = total
      /\ code = IF \A i \in DOMAIN results : results[i] = "pass" THEN "0" ELSE "1"
    BY DEF ExitCodeIsTruth
<1>1. suite = Len(suites) + 1 /\ case = 0 /\ failed = 0 /\ InFlight = 0
      BY DEF RunInv, RunTypes, Place, InFlight
<1>2. PICK acc \in [1 .. Len(suites) + 1 -> Nat] : Accounted(acc)
      BY DEF RunInv, AllAccounted
<1>3. Len(results) = total
      BY <1>1, <1>2 DEF Accounted, RunInv, RunTypes
<1>4. sum = 0 <=> AllPassed
      BY <1>1 DEF RunInv
<1>5. code = IF AllPassed THEN "0" ELSE "1"
      BY <1>4 DEF RunInv
<1>   QED  BY <1>3, <1>5 DEF AllPassed

(* The exit code is 0 if and only if all the cases that were added ran     *)
(* and passed, for any number of suites and cases (framework.hpp:134-199). *)
THEOREM ExitCodeTellsTheTruth == Spec => []ExitCodeIsTruth
BY RunInitial, RunInvPreserved, RunInvShows, PTL DEF Spec

(* Every variable keeps its type, the counters their bounds.               *)
THEOREM TestRunTypes == Spec => []TypeOK
<1>1. RunInv => /\ suite \in 1 .. MaxSuites + 1 /\ case \in 0 .. MaxSize
                /\ failed \in 0 .. MaxSize /\ sum \in 0 .. total
  <2> SUFFICES ASSUME RunInv
               PROVE  /\ suite \in 1 .. MaxSuites + 1 /\ case \in 0 .. MaxSize
                      /\ failed \in 0 .. MaxSize /\ sum \in 0 .. total
      OBVIOUS
  <2>1. PICK acc \in [1 .. Len(suites) + 1 -> Nat] : Accounted(acc)
        BY DEF RunInv, AllAccounted
  <2>2. suite \in 1 .. MaxSuites + 1
        BY RunnerAssumption DEF RunInv, RunTypes
  <2>3. case \in 0 .. MaxSize
        BY RunnerAssumption DEF RunInv, RunTypes, Place
  <2>4. failed \in 0 .. MaxSize
        BY <2>3, RunnerAssumption DEF RunInv, RunTypes, Place, InFlight
  <2>5. sum \in 0 .. total
    <3>1. sum \in Nat /\ total \in Nat /\ suite \in 1 .. Len(suites) + 1
          BY DEF RunInv, RunTypes
    <3>2. acc[suite] \in Nat /\ acc[suite] <= total /\ sum <= acc[suite]
          BY <2>1, <3>1 DEF Accounted
    <3>   QED  BY <3>1, <3>2
  <2>   QED  BY <2>2, <2>3, <2>4, <2>5
<1>2. RunInv /\ CaptureInv /\ GuardInv /\ TreeInv => TypeOK
      BY <1>1 DEF RunInv, RunTypes, CaptureInv, GuardInv, TreeInv, TypeOK
<1>   QED  BY RunInitial, RunInvPreserved, ObjectsHold, <1>2, PTL DEF Spec


===============================================================================

----------------------------- MODULE RunContract -----------------------------
(***************************************************************************)
(* What Subprocess::run() promises its caller, without pipes or poll():    *)
(* at most one child, which ends by itself or is killed at the deadline,   *)
(* and a result that says how that child ended, handed over only when the  *)
(* child is reaped.  subprocess.hpp:65-74 and RunResult.                   *)
(***************************************************************************)
CONSTANT Causes  \* the ways a child ends; "sigkilled" is the kill's

VARIABLES
  phase,    \* setup, running, returned or threw
  proc,     \* none, alive, or how the child ended
  reaped,   \* the child has been waited for
  expired,  \* the deadline has been reached
  killed,   \* the child has been sent SIGKILL
  result    \* what the caller is given

cvars == <<phase, proc, reaped, expired, killed, result>>

Nothing == [status |-> "unset", timedOut |-> FALSE]

Init ==
  /\ phase = "setup" /\ proc = "none" /\ ~reaped
  /\ ~expired /\ ~killed
  /\ result = Nothing

SetupFails ==
  /\ phase = "setup" /\ phase' = "threw"
  /\ UNCHANGED <<proc, reaped, expired, killed, result>>

Start ==
  /\ phase = "setup" /\ phase' = "running"
  /\ proc' = "alive"
  /\ UNCHANGED <<reaped, expired, killed, result>>

Expire ==
  /\ phase = "running" /\ ~expired
  /\ expired' = TRUE
  /\ UNCHANGED <<phase, proc, reaped, killed, result>>

Kill ==
  /\ phase = "running" /\ expired /\ ~killed
  /\ killed' = TRUE
  /\ UNCHANGED <<phase, proc, reaped, expired, result>>

ChildEnds(how) ==
  /\ proc = "alive"
  /\ how = "sigkilled" => killed
  /\ proc' = how
  /\ UNCHANGED <<phase, reaped, expired, killed, result>>

Return ==
  /\ phase = "running" /\ proc \in Causes
  /\ phase' = "returned"
  /\ reaped' = TRUE
  /\ result' = [status |-> proc, timedOut |-> killed]
  /\ UNCHANGED <<proc, expired, killed>>

Next ==
  \/ SetupFails \/ Start \/ Expire \/ Kill \/ Return
  \/ \E how \in Causes : ChildEnds(how)

Spec == Init /\ [][Next]_cvars

\* ... and it always hands something over.
FairSpec == Spec /\ WF_cvars(Next)
=============================================================================

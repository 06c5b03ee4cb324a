------------------------------ MODULE ScopeGuard ------------------------------
(***************************************************************************)
(* ftl::ScopeGuard (core/scope_guard.hpp): an action that runs when its    *)
(* guard goes out of scope, unless dismissed.  Guards can be moved from;   *)
(* the object moved from stays, without the action.                        *)
(***************************************************************************)
EXTENDS Integers, FiniteSets

CONSTANTS
  Slots,      \* places where guard objects live
  MaxActions  \* BOUND: actions handed to guards

ASSUME GuardAssumption == MaxActions \in Nat

Actions == 1 .. MaxActions
NoFn    == 0

VARIABLES
  fn,      \* fn_ of the guard in each slot, NoFn where there is none
  active,  \* active_ of each
  made,    \* actions handed to guards so far
  ran,     \* how often each action ran
  letGo    \* HISTORY: the actions whose guard was dismissed while active

guardv == <<fn, active, made, ran, letGo>>

GuardInit ==
  /\ fn = [s \in Slots |-> NoFn]
  /\ active = [s \in Slots |-> FALSE]
  /\ made = 0
  /\ ran = [a \in Actions |-> 0]
  /\ letGo = {}

MakeGuard(s) ==
  /\ fn[s] = NoFn /\ made < MaxActions
  /\ made' = made + 1
  /\ fn' = [fn EXCEPT ![s] = made + 1]
  /\ active' = [active EXCEPT ![s] = TRUE]
  /\ UNCHANGED <<ran, letGo>>

\* MUTANT of MovedFrom: other.active_ is left alone.
MovedFromStays(s) == active[s]

MovedFrom(s) == FALSE

\* A guard is made in t from the one in s.
MoveGuard(s, t) ==
  /\ fn[s] # NoFn /\ fn[t] = NoFn
  /\ fn' = [fn EXCEPT ![t] = fn[s]]
  /\ active' = [active EXCEPT ![t] = active[s], ![s] = MovedFrom(s)]
  /\ UNCHANGED <<made, ran, letGo>>

Dismiss(s) ==
  /\ fn[s] # NoFn
  /\ active' = [active EXCEPT ![s] = FALSE]
  /\ letGo' = IF active[s] THEN letGo \cup {fn[s]} ELSE letGo
  /\ UNCHANGED <<fn, made, ran>>

LeaveScope(s) ==
  /\ fn[s] # NoFn
  /\ fn' = [fn EXCEPT ![s] = NoFn]
  /\ active' = [active EXCEPT ![s] = FALSE]
  /\ ran' = IF active[s] THEN [ran EXCEPT ![fn[s]] = @ + 1] ELSE ran
  /\ UNCHANGED <<made, letGo>>

GuardStep ==
  \E s \in Slots :
    MakeGuard(s) \/ Dismiss(s) \/ LeaveScope(s) \/ \E t \in Slots : MoveGuard(s, t)

GuardSpec == GuardInit /\ [][GuardStep]_guardv

-----------------------------------------------------------------------------
GuardTypeOK ==
  /\ fn \in [Slots -> Actions \cup {NoFn}]
  /\ active \in [Slots -> BOOLEAN]
  /\ made \in 0 .. MaxActions
  /\ ran \in [Actions -> Nat]
  /\ letGo \subseteq Actions

Owners(a) == {s \in Slots : fn[s] = a /\ active[s]}

(* An action has one owner, or it has run, or was let go: whichever way    *)
(* its guard was moved, dismissed or destroyed, it runs at most once, and  *)
(* once unless dismissed (scope_guard.hpp:11-29).                          *)
RunsOnce ==
  \A a \in Actions :
    IF a > made THEN ran[a] = 0 /\ a \notin letGo /\ Owners(a) = {}
    ELSE \/ ran[a] = 0 /\ a \notin letGo /\ \E s \in Slots : Owners(a) = {s}
         \/ ran[a] = 1 /\ a \notin letGo /\ Owners(a) = {}
         \/ ran[a] = 0 /\ a \in letGo /\ Owners(a) = {}
=============================================================================

------------------------------ MODULE ChildSetup ------------------------------
(***************************************************************************)
(* The way to exec of one run: the calls of the builder, then, from        *)
(* pipe() to exec, the descriptors (ChildFds) and the environment (ExecEnv)*)
(***************************************************************************)
EXTENDS ChildFds, ExecEnv

vars == <<fdv, envv>>

Init == FdsInit /\ EnvInit

\* The C function has no env().
Configure ==
  /\ step = "pipe_in" /\ ~inC
  /\ \E e \in Entries, r \in BOOLEAN : Env(e, r)
  /\ UNCHANGED fdv

SetUp == FdsStep /\ UNCHANGED envv

Build ==
  /\ step = "build" /\ step' = "merge"
  /\ BuildChildEnv
  /\ UNCHANGED <<inC, split, limit, fd, table>>

Merge == step = "merge" /\ MergeOverride /\ UNCHANGED fdv

Exec ==
  /\ step = "merge" /\ step' = "done"
  /\ ExecProgram
  /\ UNCHANGED <<inC, split, limit, fd, table>>

Done == step = "done" /\ UNCHANGED vars

Next == Configure \/ SetUp \/ Build \/ Merge \/ Exec \/ Done

Spec == Init /\ [][Next]_vars

-----------------------------------------------------------------------------
(* Type invariant; one override per key (subprocess.hpp:124-130). *)
TypeOK ==
  /\ FdsTypeOK
  /\ overrides \in Seq(Entries) /\ childEnv \in Seq(Entries)
  /\ merged \in 0 .. Len(overrides)
  /\ \A i, j \in DOMAIN overrides : overrides[i].key = overrides[j].key => i = j
  /\ replace \in BOOLEAN
  /\ found \in Dirs \cup {"none", "nowhere"}

(* The program sees for every key what the calls of env(), in their order, *)
(* asked for, with the caller's environment under it unless a call         *)
(* replaced that (subprocess.hpp:114-132, 300-322; reference.md:123-124).  *)
EnvIsAsAsked ==
  step = "done" => \A k \in Keys : Lookup(childEnv, k) = Asked(k)

(* Without execvpe the program is the first one of the child's PATH, not   *)
(* of the caller's (subprocess.hpp:263-264, reference.md:136-137).         *)
ResolvedInChildPath ==
  step = "done" /\ portable => found = FirstHit(Asked("PATH"))
=============================================================================

-------------------------------- MODULE ExecEnv --------------------------------
(***************************************************************************)
(* The environment of the child: the calls of Subprocess::env(), the       *)
(* entries build_child_env() makes of them and of the caller's own         *)
(* environment, and where the program is looked for: execve_portable       *)
(* searches the PATH of the entries, execvpe and execvp the caller's.      *)
(* The value of PATH is a sequence of directories; the other keys take     *)
(* the same values, which mean nothing there.                              *)
(***************************************************************************)
EXTENDS Integers, Sequences, SequencesExt

CONSTANTS
  Keys,      \* "PATH" and others
  Values,    \* sequences of directories
  Environs,  \* what environ may be in the caller: sequences of entries
  MaxCalls   \* BOUND: calls of env()

Entries == [key : Keys, value : Values]
Unset   == <<"unset">>
Default == <<"default">>  \* what is searched without a PATH: "/usr/bin:/bin"
Dirs    == UNION {ToSet(v) : v \in Values \cup {Default}}

ASSUME EnvAssumption ==
  /\ "PATH" \in Keys
  /\ Values \subseteq Seq(STRING)
  /\ Environs \subseteq Seq(Entries)
  /\ MaxCalls \in Nat

VARIABLES
  portable,   \* built without FTL_HAVE_EXECVPE
  environ,    \* the caller's environment
  installed,  \* the directories in which execve would find the program
  overrides,  \* env_overrides_
  replace,    \* env_replace_
  calls,      \* HISTORY: the calls of env()
  childEnv,   \* the entries being built, then the program's environment
  merged,     \* overrides that are among them
  found       \* where the program was found

envv == <<portable, environ, installed, overrides, replace, calls, childEnv, merged, found>>

EnvInit ==
  /\ portable \in BOOLEAN
  /\ environ \in Environs
  /\ installed \in SUBSET Dirs
  /\ overrides = <<>> /\ replace = FALSE /\ calls = <<>>
  /\ childEnv = <<>> /\ merged = 0 /\ found = "none"

\* The first entry for key k, 0 if there is none.
IndexOf(entries, k) == SelectInSeq(entries, LAMBDA e : e.key = k)

Lookup(entries, k) ==
  LET i == IndexOf(entries, k) IN IF i = 0 THEN Unset ELSE entries[i].value

\* The loop that env() and build_child_env() both have: the first entry for
\* the key is replaced, or there is none and the entry goes to the end.
SetEntry(entries, e) ==
  LET i == IndexOf(entries, e.key)
  IN  IF i = 0 THEN Append(entries, e) ELSE [entries EXCEPT ![i] = e]

\* MUTANT of Kept: the earlier overrides stay.
KeptAlways(r) == overrides

Kept(r) == IF r THEN <<>> ELSE overrides

Env(e, r) ==
  /\ Len(calls) < MaxCalls
  /\ overrides' = SetEntry(Kept(r), e)
  /\ replace' = (replace \/ r)
  /\ calls' = Append(calls, [entry |-> e, replace |-> r])
  /\ UNCHANGED <<portable, environ, installed, childEnv, merged, found>>

\* Without overrides build_child_env is not called, and environ is used.
Base == IF overrides # <<>> /\ replace THEN <<>> ELSE environ

BuildChildEnv ==
  /\ childEnv' = Base
  /\ UNCHANGED <<portable, environ, installed, overrides, replace, calls, merged, found>>

MergeOverride ==
  /\ merged < Len(overrides)
  /\ childEnv' = SetEntry(childEnv, overrides[merged + 1])
  /\ merged' = merged + 1
  /\ UNCHANGED <<portable, environ, installed, overrides, replace, calls, found>>

\* MUTANT of SearchedIn: the portable build asks getenv.
SearchedInCallers == environ

\* The environment whose PATH is searched.
SearchedIn == IF portable THEN childEnv ELSE environ

\* The first directory of a PATH that has the program; nowhere is exit 127.
FirstHit(path) ==
  LET dirs == IF path = Unset THEN Default ELSE path
      i == SelectInSeq(dirs, LAMBDA d : d \in installed)
  IN  IF i = 0 THEN "nowhere" ELSE dirs[i]

ExecProgram ==
  /\ merged = Len(overrides)
  /\ found' = FirstHit(Lookup(SearchedIn, "PATH"))
  /\ UNCHANGED <<portable, environ, installed, overrides, replace, calls, childEnv, merged>>

-----------------------------------------------------------------------------
\* The calls for a key, but for those that a later one replaced.
Standing(k) ==
  {i \in DOMAIN calls : calls[i].entry.key = k
                       /\ \A j \in i + 1 .. Len(calls) : ~calls[j].replace}

\* What was asked for: the last of these, and where there is none the caller's
\* own, unless something replaced that.
Asked(k) ==
  IF Standing(k) # {} THEN calls[Max(Standing(k))].entry.value
  ELSE IF \E i \in DOMAIN calls : calls[i].replace THEN Unset
  ELSE Lookup(environ, k)
=============================================================================

------------------------------- MODULE ChildFds -------------------------------
(***************************************************************************)
(* Descriptor numbers between pipe() and exec: the caller may have closed  *)
(* any of its standard descriptors, pipe() hands out the lowest free       *)
(* numbers, and the child moves its ends onto 0, 1 and 2 and closes the    *)
(* rest, perhaps under a limit on the numbers it may use.  In C++          *)
(* (Subprocess::child_exec) a number below 3 is spared by the closing, in  *)
(* C (ftl_run_command) it is not.                                          *)
(***************************************************************************)
EXTENDS Integers

CONSTANT Limits  \* values of rlimit_nofile, 0: none

ASSUME LimitsAssumption == Limits \subseteq Nat

Fds  == 0 .. 8  \* room for the three standard ones and three pipes
Std  == 0 .. 2
Ends == {"in_read", "in_write", "out_read", "out_write", "err_read", "err_write"}
None == -1

VARIABLES
  inC,     \* ftl_run_command rather than Subprocess
  split,   \* split_output_
  limit,   \* rlimit_nofile_
  step,    \* the call about to be made
  fd,      \* the number of each pipe end, or None
  table    \* what each number refers to, at first in the caller, then in the child

fdv == <<inC, split, limit, step, fd, table>>

Steps == {"pipe_in", "pipe_out", "pipe_err", "dup_in", "dup_out", "dup_err",
          "close", "build", "merge", "done"}

FdsInit ==
  /\ inC \in BOOLEAN /\ split \in BOOLEAN /\ limit \in Limits
  /\ inC => ~split /\ limit = 0
  /\ step = "pipe_in"
  /\ fd = [e \in Ends |-> None]
  /\ \E open \in SUBSET Std :
       table = [n \in Fds |-> IF n \in open THEN "caller" ELSE "free"]

\* pipe(): the two lowest free numbers, the read end first.
CreatePipe(at, rd, wr, next) ==
  /\ step = at /\ step' = next
  /\ \E r, w \in Fds :
       /\ r < w
       /\ \A n \in 0 .. w : table[n] = "free" <=> n \in {r, w}
       /\ table' = [table EXCEPT ![r] = rd, ![w] = wr]
       /\ fd' = [fd EXCEPT ![rd] = r, ![wr] = w]
  /\ UNCHANGED <<inC, split, limit>>

CreateIn  == CreatePipe("pipe_in", "in_read", "in_write", "pipe_out")
CreateOut == CreatePipe("pipe_out", "out_read", "out_write",
                        IF split THEN "pipe_err" ELSE "dup_in")
CreateErr == CreatePipe("pipe_err", "err_read", "err_write", "dup_in")

\* dup2(fd[e], to), which fails, unnoticed, for a number over the limit.
Dup2(e, to) ==
  table' = IF limit > 0 /\ to >= limit THEN table
           ELSE [table EXCEPT ![to] = table[fd[e]]]

\* The end that each standard descriptor becomes a copy of.
DupSource(to) ==
  IF to = 0 THEN "in_read" ELSE IF to = 2 /\ split THEN "err_write" ELSE "out_write"

Dup(at, to, next) ==
  /\ step = at /\ step' = next
  /\ Dup2(DupSource(to), to)
  /\ UNCHANGED <<inC, split, limit, fd>>

DupIn  == Dup("dup_in", 0, "dup_out")
DupOut == Dup("dup_out", 1, "dup_err")
DupErr == Dup("dup_err", 2, "close")

\* MUTANT of Closes: C++ spares no number.
ClosesAny(n) == TRUE

Closes(n) == inC \/ n \notin Std

\* close_unused of every end; nothing else can happen between the calls.
CloseUnused ==
  /\ step = "close" /\ step' = "build"
  /\ table' = [n \in Fds |-> IF Closes(n) /\ \E e \in Ends : fd[e] = n
                             THEN "free" ELSE table[n]]
  /\ UNCHANGED <<inC, split, limit, fd>>

FdsStep ==
  \/ CreateIn \/ CreateOut \/ CreateErr
  \/ DupIn \/ DupOut \/ DupErr \/ CloseUnused

-----------------------------------------------------------------------------
FdsTypeOK ==
  /\ inC \in BOOLEAN /\ split \in BOOLEAN
  /\ limit \in Limits
  /\ step \in Steps
  /\ fd \in [Ends -> Fds \cup {None}]
  /\ table \in [Fds -> Ends \cup {"free", "caller"}]

\* Where the child cannot go wrong: in C with none of its pipe ends among the
\* standard descriptors, in C++ with a limit that leaves room for these.
Sound == IF inC THEN fd["in_read"] \notin Std ELSE limit = 0 \/ limit > 2

(* The program finds its pipes on 0, 1 and 2 and no other end of them:     *)
(* not even when the caller runs without standard descriptors, where the   *)
(* ends' numbers are among those that dup2 overwrites.  A stdin write end  *)
(* left over would keep its input from ever ending (subprocess.hpp:213-233,*)
(* ftl.h:104-110).                                                         *)
ChildFdsRight ==
  step \in {"build", "merge", "done"} /\ Sound =>
    \A n \in Fds : table[n] = IF n \in Std THEN DupSource(n) ELSE "free"
=============================================================================

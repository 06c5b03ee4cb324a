--------------------------- MODULE ChildSetupProofs ---------------------------
(***************************************************************************)
(* Theorems about ChildSetup: the descriptors of the child (ChildFds), for *)
(* every set of limits and whatever the caller had closed, and its         *)
(* environment (ExecEnv), for all keys, values, calls of env() and         *)
(* environments of the caller.                                             *)
(***************************************************************************)
EXTENDS ChildSetup, SequenceTheorems, WellFoundedInduction, TLAPS

USE LimitsAssumption DEF LimitsAssumption

Piping == {"pipe_in", "pipe_out", "pipe_err"}
Duping == {"dup_in", "dup_out", "dup_err"}

Made == {e \in Ends : fd[e] # None}

(* Which ends have been made, and in which order of their numbers.         *)
MadeInv ==
  /\ step = "pipe_in" => Made = {}
  /\ step = "pipe_out" => Made = {"in_read", "in_write"}
  /\ step = "pipe_err" => split /\ Made = {"in_read", "in_write", "out_read", "out_write"}
  /\ step \in Duping \cup {"close"} =>
       Made = IF split THEN Ends ELSE {"in_read", "in_write", "out_read", "out_write"}
  /\ step # "pipe_in" => fd["in_read"] < fd["in_write"]
  /\ step \notin {"pipe_in", "pipe_out"} =>
       fd["in_write"] < fd["out_read"] /\ fd["out_read"] < fd["out_write"]
  /\ step \notin Piping /\ split =>
       fd["out_write"] < fd["err_read"] /\ fd["err_read"] < fd["err_write"]

\* No number up to that of the last end made is free.
Packed(e) == \A n \in 0 .. fd[e] : table[n] # "free"

(* While pipes are made, each end is where fd says, and nowhere else.      *)
PipesInv ==
  step \in Piping \cup {"dup_in"} =>
    /\ \A e \in Made : table[fd[e]] = e
    /\ \A n \in Fds : table[n] \in Ends => table[n] \in Made /\ fd[table[n]] = n
    /\ \A n \in Fds \ Std : table[n] # "caller"
    /\ step = "pipe_out" => Packed("in_write")
    /\ step = "pipe_err" => Packed("out_write")

\* dup2 fails for none of the three.
Room == limit = 0 \/ limit > 2

(* While they are moved, that still holds above the standard numbers, and  *)
(* these are right as far as the moves have come.                          *)
DupsInv ==
  Room /\ step \in {"dup_out", "dup_err", "close"} =>
    /\ \A e \in Made : fd[e] \notin Std => table[fd[e]] = e
    /\ \A n \in Fds \ Std : table[n] \in Ends => table[n] \in Made /\ fd[table[n]] = n
    /\ \A n \in Fds \ Std : table[n] # "caller"
    /\ table[0] = DupSource(0)
    /\ step \in {"dup_err", "close"} => table[1] = DupSource(1)
    /\ step = "close" => table[2] = DupSource(2)

FdsInv ==
  /\ FdsTypeOK /\ (inC => limit = 0)
  /\ MadeInv /\ PipesInv /\ DupsInv /\ ChildFdsRight

\* Before the first pipe() no end is made.
LEMMA FdsInitial == FdsInit => FdsInv
<1> SUFFICES ASSUME FdsInit PROVE FdsInv
    OBVIOUS
<1> USE DEF FdsInit
<1>1. PICK open \in SUBSET Std : table = [n \in Fds |-> IF n \in open THEN "caller" ELSE "free"]
      OBVIOUS
<1>2. table \in [Fds -> {"free", "caller"}] /\ \A n \in Fds \ Std : table[n] = "free"
      BY <1>1
<1>3. FdsTypeOK
      BY <1>2 DEF FdsTypeOK, Steps
<1>4. MadeInv /\ Made = {}
      BY DEF MadeInv, Made, Duping, Piping
<1>5. PipesInv
      BY <1>2, <1>4 DEF PipesInv, Ends
<1>6. DupsInv /\ ChildFdsRight
      BY DEF DupsInv, ChildFdsRight
<1>  QED  BY <1>3, <1>4, <1>5, <1>6 DEF FdsInv

\* pipe() hands out two free numbers, with no free one below the second but
\* the first; so they lie above those that are packed.
LEMMA LowestTwo ==
  ASSUME FdsInv, NEW at \in Steps, NEW rd \in Ends, NEW wr \in Ends, rd # wr,
         NEW next \in Steps, CreatePipe(at, rd, wr, next)
  PROVE  \E r, w \in Fds :
         /\ r < w
         /\ table[r] = "free" /\ table[w] = "free"
         /\ fd' = [fd EXCEPT ![rd] = r, ![wr] = w]
         /\ table' = [table EXCEPT ![r] = rd, ![w] = wr]
         /\ Made' = Made \cup {rd, wr}
         /\ Packed(wr)'
         /\ \A e \in Made : Packed(e) => fd[e] < r
<1>1. PICK r \in Fds, w \in Fds :
        /\ r < w
        /\ \A n \in 0 .. w : table[n] = "free" <=> n \in {r, w}
        /\ table' = [table EXCEPT ![r] = rd, ![w] = wr]
        /\ fd' = [fd EXCEPT ![rd] = r, ![wr] = w]
      BY DEF CreatePipe
<1>2. fd'[rd] = r /\ fd'[wr] = w
      BY <1>1 DEF FdsInv, FdsTypeOK
<1>3. table[r] = "free" /\ table[w] = "free"
      BY <1>1 DEF Fds
<1>4. Made' = Made \cup {rd, wr}
      BY <1>1, <1>2 DEF Made, FdsInv, FdsTypeOK, Fds, None
<1>5. Packed(wr)'
  <2> SUFFICES ASSUME NEW n \in 0 .. w PROVE table'[n] # "free"
      BY <1>2 DEF Packed
  <2>1. n \in Fds
      BY <1>1 DEF Fds
  <2>2. CASE n \in {r, w}
      BY <1>1, <2>1, <2>2 DEF FdsInv, FdsTypeOK, Ends
  <2>3. CASE n \notin {r, w}
      BY <1>1, <2>1, <2>3 DEF FdsInv, FdsTypeOK
  <2>  QED  BY <2>2, <2>3
<1>6. ASSUME NEW e \in Made, Packed(e) PROVE fd[e] < r
      BY <1>1, <1>3, <1>6 DEF Packed, Made, FdsInv, FdsTypeOK, Fds, None
<1>  QED  BY <1>1, <1>3, <1>4, <1>5, <1>6

\* What pipe() leaves of PipesInv: the new ends are where fd says, next to
\* the old ones.
LEMMA PipePlaces ==
  ASSUME FdsInv, NEW at \in Piping, NEW rd \in Ends, NEW wr \in Ends, rd # wr,
         NEW next \in Steps, CreatePipe(at, rd, wr, next), rd \notin Made, wr \notin Made
  PROVE  /\ FdsTypeOK'
         /\ \A e \in Made' : table'[fd'[e]] = e
         /\ \A n \in Fds : table'[n] \in Ends => table'[n] \in Made' /\ fd'[table'[n]] = n
         /\ \A n \in Fds \ Std : table'[n] # "caller"
<1>1. at \in Steps /\ step = at /\ step' = next /\ UNCHANGED <<inC, split, limit>>
      BY DEF CreatePipe, Piping, Steps
<1>2. PICK r \in Fds, w \in Fds :
        /\ r < w
        /\ table[r] = "free" /\ table[w] = "free"
        /\ fd' = [fd EXCEPT ![rd] = r, ![wr] = w]
        /\ table' = [table EXCEPT ![r] = rd, ![w] = wr]
        /\ Made' = Made \cup {rd, wr}
      BY <1>1, LowestTwo
<1>3. r # w
      BY <1>2 DEF Fds
<1>4. /\ \A e \in Made : table[fd[e]] = e
      /\ \A n \in Fds : table[n] \in Ends => table[n] \in Made /\ fd[table[n]] = n
      /\ \A n \in Fds \ Std : table[n] # "caller"
      BY <1>1 DEF FdsInv, PipesInv
<1>5. fd \in [Ends -> Fds \cup {None}] /\ table \in [Fds -> Ends \cup {"free", "caller"}]
      BY DEF FdsInv, FdsTypeOK
<1>6. "free" \notin Ends /\ "caller" \notin Ends
      BY DEF Ends
<1>7. \A e \in Made : e \in Ends /\ fd[e] \in Fds
      BY <1>5 DEF Made
<1>8. FdsTypeOK'
      BY <1>1, <1>2, <1>5 DEF FdsInv, FdsTypeOK
<1>9. ASSUME NEW e \in Made' PROVE table'[fd'[e]] = e
  <2>1. CASE e \in {rd, wr}
      BY <1>2, <1>3, <1>5, <2>1
  <2>2. CASE e \notin {rd, wr}
    <3>1. e \in Made /\ e \in Ends
      BY <1>2, <1>7, <1>9, <2>2
    <3>2. fd'[e] = fd[e] /\ table[fd[e]] = e
      BY <1>2, <1>4, <1>5, <2>2, <3>1
    <3>3. fd[e] # r /\ fd[e] # w
      BY <1>2, <1>6, <3>1, <3>2
    <3>  QED  BY <1>2, <1>5, <1>7, <3>1, <3>2, <3>3
  <2>  QED  BY <2>1, <2>2
<1>10. ASSUME NEW n \in Fds, table'[n] \in Ends
       PROVE  table'[n] \in Made' /\ fd'[table'[n]] = n
  <2>1. CASE n \in {r, w}
      BY <1>2, <1>3, <1>5, <2>1
  <2>2. CASE n \notin {r, w}
    <3>1. table'[n] = table[n]
      BY <1>2, <1>5, <2>2
    <3>2. table[n] \in Made /\ table[n] \in Ends /\ fd[table[n]] = n
      BY <1>4, <1>10, <3>1
    <3>3. table[n] \notin {rd, wr}
      BY <3>2
    <3>  QED  BY <1>2, <1>5, <3>1, <3>2, <3>3
  <2>  QED  BY <2>1, <2>2
<1>11. ASSUME NEW n \in Fds \ Std PROVE table'[n] # "caller"
      BY <1>2, <1>4, <1>5, <1>6
<1>  QED  BY <1>8, <1>9, <1>10, <1>11

\* Each pipe() of the way there; the numbers grow from pipe to pipe.
LEMMA PipesMade ==
  ASSUME FdsInv, CreateIn \/ CreateOut \/ CreateErr
  PROVE  FdsInv'
<1>1. "in_read" \in Ends /\ "in_write" \in Ends /\ "out_read" \in Ends
      /\ "out_write" \in Ends /\ "err_read" \in Ends /\ "err_write" \in Ends
      BY DEF Ends
<1>2. {"pipe_out", "pipe_err", "dup_in", "pipe_in"} \subseteq Steps
      /\ {"pipe_in", "pipe_out", "pipe_err"} = Piping
      BY DEF Steps, Piping
<1>3. fd \in [Ends -> Fds \cup {None}] /\ MadeInv /\ PipesInv
      BY DEF FdsInv, FdsTypeOK
<1>4. \A e \in Ends : e \in Made <=> fd[e] # None
      BY DEF Made
<1>5. CASE CreateIn
  <2>1. step = "pipe_in" /\ step' = "pipe_out" /\ UNCHANGED <<inC, split, limit>>
        BY <1>5 DEF CreateIn, CreatePipe
  <2>2. Made = {}
        BY <1>3, <2>1 DEF MadeInv
  <2>3. PICK r \in Fds, w \in Fds :
          /\ r < w /\ fd' = [fd EXCEPT !["in_read"] = r, !["in_write"] = w]
          /\ Made' = Made \cup {"in_read", "in_write"}
          /\ Packed("in_write")'
        BY <1>1, <1>2, <1>5, LowestTwo DEF CreateIn
  <2>4. MadeInv'
        BY <1>1, <1>3, <2>1, <2>2, <2>3 DEF MadeInv, Duping, Piping
  <2>5. FdsTypeOK' /\ PipesInv'
    <3>1. "pipe_in" \in Piping /\ "pipe_out" \in Steps
          BY <1>2
    <3>2. CreatePipe("pipe_in", "in_read", "in_write", "pipe_out")
          BY <1>5 DEF CreateIn
    <3>3. "in_read" \notin Made /\ "in_write" \notin Made
          BY <2>2
    <3>4. /\ FdsTypeOK'
          /\ \A e \in Made' : table'[fd'[e]] = e
          /\ \A n \in Fds : table'[n] \in Ends => table'[n] \in Made' /\ fd'[table'[n]] = n
          /\ \A n \in Fds \ Std : table'[n] # "caller"
          BY <1>1, <3>1, <3>2, <3>3, PipePlaces
    <3>   QED  BY <2>1, <2>3, <3>4 DEF PipesInv
  <2>   QED  BY <2>1, <2>4, <2>5 DEF FdsInv, DupsInv, ChildFdsRight
<1>6. CASE CreateOut
  <2>1. /\ step = "pipe_out" /\ step' = IF split THEN "pipe_err" ELSE "dup_in"
        /\ UNCHANGED <<inC, split, limit>>
        BY <1>6 DEF CreateOut, CreatePipe
  <2>2. /\ Made = {"in_read", "in_write"} /\ fd["in_read"] < fd["in_write"]
        /\ Packed("in_write")
        BY <1>3, <2>1 DEF MadeInv, PipesInv, Piping
  <2>3. PICK r \in Fds, w \in Fds :
          /\ r < w /\ fd' = [fd EXCEPT !["out_read"] = r, !["out_write"] = w]
          /\ Made' = Made \cup {"out_read", "out_write"}
          /\ Packed("out_write")'
          /\ \A e \in Made : Packed(e) => fd[e] < r
        BY <1>1, <1>2, <1>6, LowestTwo DEF CreateOut
  <2>4. MadeInv'
        BY <1>1, <1>3, <2>1, <2>2, <2>3 DEF MadeInv, Duping, Piping
  <2>5. FdsTypeOK' /\ PipesInv'
    <3>1. "pipe_out" \in Piping /\ (IF split THEN "pipe_err" ELSE "dup_in") \in Steps
          BY <1>2
    <3>2. CreatePipe("pipe_out", "out_read", "out_write", (IF split THEN "pipe_err" ELSE "dup_in"))
          BY <1>6 DEF CreateOut
    <3>3. "out_read" \notin Made /\ "out_write" \notin Made
          BY <2>2
    <3>4. /\ FdsTypeOK'
          /\ \A e \in Made' : table'[fd'[e]] = e
          /\ \A n \in Fds : table'[n] \in Ends => table'[n] \in Made' /\ fd'[table'[n]] = n
          /\ \A n \in Fds \ Std : table'[n] # "caller"
          BY <1>1, <3>1, <3>2, <3>3, PipePlaces
    <3>   QED  BY <2>1, <2>3, <3>4 DEF PipesInv
  <2>   QED  BY <2>1, <2>4, <2>5 DEF FdsInv, DupsInv, ChildFdsRight
<1>7. CASE CreateErr
  <2>1. step = "pipe_err" /\ step' = "dup_in" /\ UNCHANGED <<inC, split, limit>>
        BY <1>7 DEF CreateErr, CreatePipe
  <2>2. /\ split /\ Made = {"in_read", "in_write", "out_read", "out_write"}
        /\ fd["in_read"] < fd["in_write"] /\ fd["in_write"] < fd["out_read"]
        /\ fd["out_read"] < fd["out_write"] /\ Packed("out_write")
        BY <1>3, <2>1 DEF MadeInv, PipesInv, Piping
  <2>3. PICK r \in Fds, w \in Fds :
          /\ r < w /\ fd' = [fd EXCEPT !["err_read"] = r, !["err_write"] = w]
          /\ Made' = Made \cup {"err_read", "err_write"}
          /\ \A e \in Made : Packed(e) => fd[e] < r
        BY <1>1, <1>2, <1>7, LowestTwo DEF CreateErr
  <2>4. Made' = Ends
        BY <2>2, <2>3 DEF Ends
  <2>5. MadeInv'
        BY <1>1, <1>3, <2>1, <2>2, <2>3, <2>4 DEF MadeInv, Duping, Piping
  <2>6. FdsTypeOK' /\ PipesInv'
    <3>1. "pipe_err" \in Piping /\ "dup_in" \in Steps
          BY <1>2
    <3>2. CreatePipe("pipe_err", "err_read", "err_write", "dup_in")
          BY <1>7 DEF CreateErr
    <3>3. "err_read" \notin Made /\ "err_write" \notin Made
          BY <2>2
    <3>4. /\ FdsTypeOK'
          /\ \A e \in Made' : table'[fd'[e]] = e
          /\ \A n \in Fds : table'[n] \in Ends => table'[n] \in Made' /\ fd'[table'[n]] = n
          /\ \A n \in Fds \ Std : table'[n] # "caller"
          BY <1>1, <3>1, <3>2, <3>3, PipePlaces
    <3>   QED  BY <2>1, <2>3, <3>4 DEF PipesInv
  <2>   QED  BY <2>1, <2>5, <2>6 DEF FdsInv, DupsInv, ChildFdsRight
<1>   QED  BY <1>5, <1>6, <1>7

\* The sources of the second and of the third dup2 are not among its targets:
\* three ends at least lie below them.
LEMMA SourcesAreHigh ==
  ASSUME FdsInv, step \in Duping
  PROVE  \A to \in {1, 2} : /\ DupSource(to) \in Made /\ DupSource(to) \in Ends
                            /\ fd[DupSource(to)] \in Fds \ Std
<1>1. /\ fd["in_read"] < fd["in_write"] /\ fd["in_write"] < fd["out_read"]
      /\ fd["out_read"] < fd["out_write"]
      /\ split => fd["out_write"] < fd["err_read"] /\ fd["err_read"] < fd["err_write"]
      /\ Made = IF split THEN Ends ELSE {"in_read", "in_write", "out_read", "out_write"}
      BY DEF FdsInv, MadeInv, Duping, Piping
<1>2. \A e \in Made : e \in Ends /\ fd[e] \in Fds
      BY DEF Made, FdsInv, FdsTypeOK
<1>3. {"in_read", "in_write", "out_read", "out_write"} \subseteq Made
      /\ (split => {"err_read", "err_write"} \subseteq Made)
      BY <1>1 DEF Ends
<1>4. fd["out_write"] \in Fds \ Std
      BY <1>1, <1>2, <1>3 DEF Fds, Std
<1>5. split => fd["err_write"] \in Fds \ Std
      BY <1>1, <1>2, <1>3, <1>4 DEF Fds, Std
<1>   QED  BY <1>2, <1>3, <1>4, <1>5 DEF DupSource

\* A move whose number the limit allows and whose source is still in place.
LEMMA Moved ==
  ASSUME FdsInv, Room, NEW at, NEW next, NEW to \in Std, Dup(at, to, next),
         DupSource(to) \in Ends, table[fd[DupSource(to)]] = DupSource(to)
  PROVE  /\ table' \in [Fds -> Ends \cup {"free", "caller"}]
         /\ table'[to] = DupSource(to)
         /\ \A n \in Fds : n # to => table'[n] = table[n]
<1>1. limit \in Nat /\ table \in [Fds -> Ends \cup {"free", "caller"}] /\ to \in Fds
      BY DEF FdsInv, FdsTypeOK, Fds, Std
<1>2. ~(limit > 0 /\ to >= limit)
      BY <1>1 DEF Room, Std
<1>3. table' = [table EXCEPT ![to] = DupSource(to)]
      BY <1>2 DEF Dup, Dup2
<1>   QED  BY <1>1, <1>3

\* dup2 whatever it does: the ends keep their numbers, and no number of the
\* table gets anything but what another one referred to.
LEMMA DupKeeps ==
  ASSUME FdsInv, NEW at \in Duping, NEW to \in Std,
         NEW next \in Duping \cup {"close"}, Dup(at, to, next), at # next, next # "dup_in"
  PROVE  FdsTypeOK' /\ (inC => limit = 0)' /\ MadeInv' /\ PipesInv' /\ ChildFdsRight'
         /\ Made' = Made /\ (Room <=> Room') /\ DupSource(to)' = DupSource(to)
<1>1. /\ step \in Duping /\ step' = next /\ step' \in Steps /\ step' \notin Piping
      /\ UNCHANGED <<inC, split, limit, fd>> /\ Dup2(DupSource(to), to)
      BY DEF Dup, Duping, Steps, Piping
<1>2. DupSource(to) \in Made /\ DupSource(to) \in Ends
      BY <1>1 DEF FdsInv, MadeInv, Duping, DupSource, Std, Ends
<1>3. table[fd[DupSource(to)]] \in Ends \cup {"free", "caller"}
      BY <1>2 DEF FdsInv, FdsTypeOK, Made
<1>4. table' \in [Fds -> Ends \cup {"free", "caller"}]
      BY <1>1, <1>3 DEF Dup2, FdsInv, FdsTypeOK
<1>5. FdsTypeOK' /\ (inC => limit = 0)'
      BY <1>1, <1>4 DEF FdsInv, FdsTypeOK
<1>6. Made' = Made /\ (Room <=> Room') /\ DupSource(to)' = DupSource(to)
      BY <1>1 DEF Made, Room, DupSource
<1>7. MadeInv'
      BY <1>1, <1>6 DEF FdsInv, MadeInv, Duping, Piping
<1>8. PipesInv' /\ ChildFdsRight'
      BY <1>1 DEF PipesInv, ChildFdsRight, Duping, Piping
<1>   QED  BY <1>5, <1>6, <1>7, <1>8

\* Each dup2: the standard descriptors become right one after the other, the
\* numbers above them stay as pipe() left them.
LEMMA StandardOnesMove ==
  ASSUME FdsInv, DupIn \/ DupOut \/ DupErr
  PROVE  FdsInv'
<1> DEFINE Above == /\ \A e \in Made : fd[e] \notin Std => table[fd[e]] = e
                    /\ \A n \in Fds \ Std : table[n] \in Ends =>
                         table[n] \in Made /\ fd[table[n]] = n
                    /\ \A n \in Fds \ Std : table[n] # "caller"
<1>1. {"dup_in", "dup_out", "dup_err"} = Duping /\ {0, 1, 2} = Std /\ Std \subseteq Fds
      BY DEF Duping, Std, Fds
<1>2. step \in Duping /\ UNCHANGED fd
      BY <1>1 DEF DupIn, DupOut, DupErr, Dup
<1>3. \A to \in {1, 2} : /\ DupSource(to) \in Made /\ DupSource(to) \in Ends
                         /\ fd[DupSource(to)] \in Fds \ Std
      BY <1>2, SourcesAreHigh
<1>4. ASSUME Above, Made' = Made, NEW to \in Std,
             \A n \in Fds : n # to => table'[n] = table[n]
      PROVE  Above'
  <2>1. \A n \in Fds \ Std : table'[n] = table[n]
        BY <1>4
  <2>2. \A e \in Made : e \in Ends /\ fd[e] \in Fds
        BY DEF Made, FdsInv, FdsTypeOK
  <2>   QED  BY <1>2, <1>4, <2>1, <2>2
<1>5. CASE DupIn
  <2>1. step = "dup_in" /\ step' = "dup_out" /\ Dup("dup_in", 0, "dup_out")
        BY <1>5 DEF DupIn, Dup
  <2>2. FdsTypeOK' /\ (inC => limit = 0)' /\ MadeInv' /\ PipesInv' /\ ChildFdsRight'
        /\ Made' = Made /\ (Room <=> Room') /\ DupSource(0)' = DupSource(0)
        BY <1>1, <2>1, DupKeeps
  <2>3. Above /\ "in_read" \in Made /\ table[fd["in_read"]] = "in_read" /\ DupSource(0) = "in_read"
        BY <2>1 DEF FdsInv, PipesInv, MadeInv, Duping, Ends, DupSource
  <2>4. ASSUME Room PROVE Above' /\ (table[0] = DupSource(0))'
    <3>1. table'[0] = DupSource(0) /\ \A n \in Fds : n # 0 => table'[n] = table[n]
          BY <1>1, <2>1, <2>3, <2>4, Moved DEF Ends
    <3>   QED  BY <1>1, <1>4, <2>2, <2>3, <3>1
  <2>5. DupsInv'
        BY <2>1, <2>2, <2>4 DEF DupsInv
  <2>   QED  BY <2>2, <2>5 DEF FdsInv
<1>6. CASE DupOut
  <2>1. step = "dup_out" /\ step' = "dup_err" /\ Dup("dup_out", 1, "dup_err")
        BY <1>6 DEF DupOut, Dup
  <2>2. FdsTypeOK' /\ (inC => limit = 0)' /\ MadeInv' /\ PipesInv' /\ ChildFdsRight'
        /\ Made' = Made /\ (Room <=> Room') /\ DupSource(1)' = DupSource(1)
        BY <1>1, <2>1, DupKeeps
  <2>3. DupSource(0)' = DupSource(0)
        BY DEF DupSource
  <2>4. ASSUME Room PROVE Above' /\ (table[0] = DupSource(0))' /\ (table[1] = DupSource(1))'
    <3>1. Above /\ table[0] = DupSource(0)
          BY <2>1, <2>4 DEF FdsInv, DupsInv
    <3>2. table[fd[DupSource(1)]] = DupSource(1)
          BY <1>3, <3>1
    <3>3. table'[1] = DupSource(1) /\ \A n \in Fds : n # 1 => table'[n] = table[n]
          BY <1>1, <1>3, <2>1, <2>4, <3>2, Moved
    <3>   QED  BY <1>1, <1>4, <2>2, <2>3, <3>1, <3>3
  <2>5. DupsInv'
        BY <2>1, <2>2, <2>4 DEF DupsInv
  <2>   QED  BY <2>2, <2>5 DEF FdsInv
<1>7. CASE DupErr
  <2>1. step = "dup_err" /\ step' = "close" /\ Dup("dup_err", 2, "close") /\ UNCHANGED split
        BY <1>7 DEF DupErr, Dup
  <2>2. FdsTypeOK' /\ (inC => limit = 0)' /\ MadeInv' /\ PipesInv' /\ ChildFdsRight'
        /\ Made' = Made /\ (Room <=> Room') /\ DupSource(2)' = DupSource(2)
        BY <1>1, <2>1, DupKeeps
  <2>3. DupSource(0)' = DupSource(0) /\ DupSource(1)' = DupSource(1)
        BY <2>1 DEF DupSource
  <2>4. ASSUME Room
        PROVE  Above' /\ \A to \in Std : (table[to] = DupSource(to))'
    <3>1. Above /\ table[0] = DupSource(0) /\ table[1] = DupSource(1)
          BY <2>1, <2>4 DEF FdsInv, DupsInv
    <3>2. table[fd[DupSource(2)]] = DupSource(2)
          BY <1>3, <3>1
    <3>3. table'[2] = DupSource(2) /\ \A n \in Fds : n # 2 => table'[n] = table[n]
          BY <1>1, <1>3, <2>1, <2>4, <3>2, Moved
    <3>   QED  BY <1>1, <1>4, <2>2, <2>3, <3>1, <3>3
  <2>5. DupsInv'
        BY <1>1, <2>1, <2>2, <2>4 DEF DupsInv
  <2>   QED  BY <2>2, <2>5 DEF FdsInv
<1>   QED  BY <1>5, <1>6, <1>7

\* The closing: where Sound holds, a standard number is spared, in C++ by the
\* test of it and in C because no pipe end is one; every other number that
\* still refers to an end is the one that end was made with.
LEMMA RestCloses ==
  ASSUME FdsInv, CloseUnused
  PROVE  FdsInv'
<1>1. /\ step = "close" /\ step' = "build" /\ UNCHANGED <<inC, split, limit, fd>>
      /\ table' = [n \in Fds |-> IF Closes(n) /\ \E e \in Ends : fd[e] = n
                                 THEN "free" ELSE table[n]]
      BY DEF CloseUnused
<1>2. FdsTypeOK' /\ (inC => limit = 0)'
      BY <1>1 DEF FdsInv, FdsTypeOK, Steps
<1>3. MadeInv' /\ PipesInv' /\ DupsInv'
      BY <1>1 DEF FdsInv, MadeInv, PipesInv, DupsInv, Duping, Piping
<1>4. ASSUME Sound, NEW n \in Fds
      PROVE  table'[n] = IF n \in Std THEN DupSource(n) ELSE "free"
  <2>1. Room
        BY <1>4 DEF Sound, Room, FdsInv
  <2>2. /\ \A m \in Fds \ Std : table[m] \in Ends => table[m] \in Made /\ fd[table[m]] = m
        /\ \A m \in Fds \ Std : table[m] # "caller"
        /\ table[0] = DupSource(0) /\ table[1] = DupSource(1) /\ table[2] = DupSource(2)
        BY <1>1, <2>1 DEF FdsInv, DupsInv
  <2>3. CASE n \in Std
    <3>1. table[n] = DupSource(n)
          BY <2>2, <2>3 DEF Std
    <3>2. CASE inC
      <4>1. fd["in_read"] \notin Std
            BY <1>4, <3>2 DEF Sound
      <4>2. /\ fd["in_read"] < fd["in_write"] /\ fd["in_write"] < fd["out_read"]
            /\ fd["out_read"] < fd["out_write"]
            /\ split => fd["out_write"] < fd["err_read"] /\ fd["err_read"] < fd["err_write"]
            /\ ~split => "err_read" \notin Made /\ "err_write" \notin Made
            /\ "in_read" \in Made
            BY <1>1 DEF FdsInv, MadeInv, Duping, Piping, Ends
      <4>3. \A e \in Ends : fd[e] \in Fds \cup {None} /\ (e \notin Made => fd[e] = None)
            BY DEF Made, FdsInv, FdsTypeOK
      <4>4. fd["in_read"] > 2
            BY <4>1, <4>2 DEF Made, FdsInv, FdsTypeOK, Fds, None, Std
      <4>5. \A e \in Ends : fd[e] = None \/ fd[e] > 2
            BY <4>2, <4>3, <4>4 DEF Ends, Fds, None
      <4>6. \A e \in Ends : fd[e] # n
            BY <2>3, <4>5 DEF Std, None
      <4>   QED  BY <1>1, <2>3, <3>1, <4>6
    <3>3. CASE ~inC
          BY <1>1, <2>3, <3>1, <3>3 DEF Closes
    <3>   QED  BY <2>3, <3>2, <3>3
  <2>4. CASE n \notin Std
    <3>1. table[n] \in Ends => \E e \in Ends : fd[e] = n
          BY <2>2, <2>4
    <3>2. table[n] \in Ends \cup {"free"}
          BY <2>2, <2>4 DEF FdsInv, FdsTypeOK
    <3>   QED  BY <1>1, <2>4, <3>1, <3>2 DEF Closes
  <2>   QED  BY <2>3, <2>4
<1>5. ChildFdsRight'
      BY <1>1, <1>4 DEF ChildFdsRight, Sound, DupSource
<1>   QED  BY <1>2, <1>3, <1>5 DEF FdsInv

\* The last steps, building the environment and exec, leave the descriptors
\* as they are.
LEMMA FdsKept ==
  ASSUME FdsInv, [Next]_vars PROVE FdsInv'
<1>1. CASE Configure \/ Merge \/ Done \/ UNCHANGED vars
  <2>1. UNCHANGED fdv
        BY <1>1 DEF Configure, Merge, Done, vars
  <2>   QED  BY <2>1 DEF FdsInv, fdv, FdsTypeOK, MadeInv, PipesInv, DupsInv, ChildFdsRight,
                         Made, Packed, Room, Sound, DupSource
<1>2. CASE SetUp
      BY <1>2, PipesMade, StandardOnesMove, RestCloses DEF SetUp, FdsStep
<1>3. CASE Build \/ Exec
  <2>1. /\ step \in {"build", "merge"} /\ step' \in {"merge", "done"}
        /\ UNCHANGED <<inC, split, limit, fd, table>>
        BY <1>3 DEF Build, Exec
  <2>2. FdsTypeOK' /\ (inC => limit = 0)'
        BY <2>1 DEF FdsInv, FdsTypeOK, Steps
  <2>3. MadeInv'
        BY <2>1 DEF FdsInv, MadeInv, Duping, Piping
  <2>4. PipesInv' /\ DupsInv'
        BY <2>1 DEF PipesInv, DupsInv, Duping, Piping
  <2>5. ChildFdsRight'
        BY <2>1 DEF FdsInv, ChildFdsRight, Sound, DupSource
  <2>   QED  BY <2>2, <2>3, <2>4, <2>5 DEF FdsInv
<1>   QED  BY <1>1, <1>2, <1>3 DEF Next

\* So it holds in every state.
LEMMA FdsInvHolds == Spec => []FdsInv
<1>1. Init => FdsInv
      BY FdsInitial DEF Init
<1>   QED  BY <1>1, FdsKept, PTL DEF Spec

(* For whatever standard descriptors the caller had closed and every limit, *)
(* the program finds its pipes on 0, 1 and 2, and nothing else is open in   *)
(* it: in C++ whenever the limit leaves room for three descriptors, in C    *)
(* whenever no pipe end is itself a standard descriptor                     *)
(* (subprocess.hpp:213-233, ftl.h:104-110).                                 *)
THEOREM ChildFdsCorrect == Spec => []ChildFdsRight
<1>1. FdsInv => ChildFdsRight
      BY DEF FdsInv
<1>   QED  BY <1>1, FdsInvHolds, PTL

-----------------------------------------------------------------------------
(* The environment.  First: sequences of entries, and their search.        *)
\* Numbers that are bounded have a least one and a greatest one.
LEMMA LeastAndGreatest ==
  ASSUME NEW n \in Nat, NEW T \in SUBSET (1 .. n), T # {}
  PROVE  /\ Min(T) \in T /\ \A x \in T : Min(T) <= x
         /\ Max(T) \in T /\ \A x \in T : Max(T) >= x
<1>1. ASSUME NEW U \in SUBSET Nat, U # {}
      PROVE  \E x \in U : \A y \in U : x <= y
  <2>1. PICK x \in U : \A y \in U : ~(<<y, x>> \in OpToRel(<, Nat))
        BY <1>1, NatLessThanWellFounded, WFMin
  <2>2. \A y \in U : ~(y < x)
        BY <2>1, Zenon DEF OpToRel
  <2>   QED  BY <2>2
<1>2. \E x \in T : \A y \in T : x <= y
  <2>1. T \in SUBSET Nat
        OBVIOUS
  <2>   QED  BY <1>1, <2>1
<1>3. \E x \in T : \A y \in T : x >= y
  <2>1. PICK U : U = {n - y : y \in T}
        OBVIOUS
  <2>2. U \in SUBSET Nat /\ U # {}
    <3>1. \A y \in T : n - y \in Nat
          OBVIOUS
    <3>   QED  BY <2>1, <3>1
  <2>3. PICK u \in U : \A v \in U : u <= v
        BY <1>1, <2>2
  <2>4. PICK x \in T : u = n - x
        BY <2>1, <2>3
  <2>5. \A y \in T : n - x <= n - y
        BY <2>1, <2>3, <2>4
  <2>6. \A y \in T : x >= y
        BY <2>5
  <2>   QED  BY <2>6
<1>   QED  BY <1>2, <1>3 DEF Min, Max

\* The places of a key.
Places(s, k) == {i \in 1 .. Len(s) : s[i].key = k}

\* The search ends at the first of them.
LEMMA IndexIsLeast ==
  ASSUME NEW s \in Seq(Entries), NEW k
  PROVE  IndexOf(s, k) = IF Places(s, k) # {} THEN Min(Places(s, k)) ELSE 0
BY DEF IndexOf, SelectInSeq, Places

\* It finds an entry of the key, or there is none.
LEMMA IndexFound ==
  ASSUME NEW s \in Seq(Entries), NEW k
  PROVE  \/ IndexOf(s, k) = 0 /\ Places(s, k) = {}
         \/ /\ IndexOf(s, k) \in 1 .. Len(s)
            /\ s[IndexOf(s, k)].key = k
<1>1. CASE Places(s, k) = {}
      BY <1>1, IndexIsLeast
<1>2. CASE Places(s, k) # {}
  <2>1. Len(s) \in Nat /\ Places(s, k) \in SUBSET (1 .. Len(s))
        BY LenProperties DEF Places
  <2>2. Min(Places(s, k)) \in Places(s, k)
        BY <1>2, <2>1, LeastAndGreatest
  <2>3. IndexOf(s, k) \in Places(s, k)
        BY <1>2, <2>2, IndexIsLeast
  <2>   QED  BY <2>3 DEF Places
<1>   QED  BY <1>1, <1>2

Distinct(s) == \A i, j \in 1 .. Len(s) : s[i].key = s[j].key => i = j

(* What the loop of env() and build_child_env() does: the key is given the *)
(* value, the other keys keep theirs (subprocess.hpp:124-130, 311-320).    *)
LEMMA SetEntryEffect ==
  ASSUME NEW s \in Seq(Entries), NEW e \in Entries
  PROVE  /\ SetEntry(s, e) \in Seq(Entries)
         /\ Lookup(SetEntry(s, e), e.key) = e.value
         /\ \A k : k # e.key => Lookup(SetEntry(s, e), k) = Lookup(s, k)
         /\ \A k : Places(SetEntry(s, e), k) # {} <=> (Places(s, k) # {} \/ k = e.key)
         /\ Distinct(s) => Distinct(SetEntry(s, e))
<1>1. PICK t : t = SetEntry(s, e)
      OBVIOUS
<1>2. Len(s) \in Nat /\ \A i \in 1 .. Len(s) : s[i] \in Entries
      BY LenProperties, ElementOfSeq
<1>3. CASE IndexOf(s, e.key) = 0
  <2>1. Places(s, e.key) = {}
        BY <1>3, IndexFound
  <2>2. t = Append(s, e)
        BY <1>1, <1>3 DEF SetEntry
  <2>3. /\ t \in Seq(Entries) /\ Len(t) = Len(s) + 1 /\ t[Len(s) + 1] = e
        /\ \A i \in 1 .. Len(s) : t[i] = s[i]
        BY <2>2, AppendProperties
  <2>4. \A k : k # e.key => Places(t, k) = Places(s, k)
        BY <1>2, <2>3 DEF Places
  <2>5. Places(t, e.key) = {Len(s) + 1}
        BY <1>2, <2>1, <2>3 DEF Places
  <2>6. Lookup(t, e.key) = e.value
    <3>1. IndexOf(t, e.key) \in Places(t, e.key)
          BY <2>3, <2>5, IndexFound DEF Places
    <3>   QED  BY <1>2, <2>3, <2>5, <3>1 DEF Lookup
  <2>7. ASSUME NEW k, k # e.key PROVE Lookup(t, k) = Lookup(s, k)
    <3>1. IndexOf(t, k) = IndexOf(s, k)
          BY <2>3, <2>4, <2>7, IndexIsLeast
    <3>2. IndexOf(s, k) = 0 \/ t[IndexOf(s, k)] = s[IndexOf(s, k)]
          BY <2>3, IndexFound
    <3>   QED  BY <3>1, <3>2 DEF Lookup
  <2>8. Distinct(s) => Distinct(t)
        BY <1>2, <2>1, <2>3 DEF Distinct, Places
  <2>   QED  BY <1>1, <2>3, <2>4, <2>5, <2>6, <2>7, <2>8
<1>4. CASE IndexOf(s, e.key) # 0
  <2>1. PICK n \in 1 .. Len(s) : n = IndexOf(s, e.key) /\ s[n].key = e.key
        BY <1>4, IndexFound
  <2>2. t = [s EXCEPT ![n] = e]
        BY <1>1, <1>4, <2>1 DEF SetEntry
  <2>3. /\ t \in Seq(Entries) /\ Len(t) = Len(s) /\ t[n] = e
        /\ \A i \in 1 .. Len(s) : i # n => t[i] = s[i]
        BY <1>2, <2>1, <2>2
  <2>4. \A i \in 1 .. Len(s) : t[i].key = s[i].key
        BY <2>1, <2>3
  <2>5. \A k : Places(t, k) = Places(s, k)
        BY <2>3, <2>4 DEF Places
  <2>6. \A k : IndexOf(t, k) = IndexOf(s, k)
        BY <2>3, <2>5, IndexIsLeast
  <2>7. Lookup(t, e.key) = e.value
        BY <1>2, <2>1, <2>3, <2>6 DEF Lookup
  <2>8. ASSUME NEW k, k # e.key PROVE Lookup(t, k) = Lookup(s, k)
    <3>1. IndexOf(s, k) = 0 \/ t[IndexOf(s, k)] = s[IndexOf(s, k)]
          BY <2>1, <2>3, <2>8, IndexFound
    <3>   QED  BY <2>6, <3>1 DEF Lookup
  <2>9. Distinct(s) => Distinct(t)
        BY <2>3, <2>4 DEF Distinct
  <2>10. n \in Places(s, e.key)
        BY <2>1 DEF Places
  <2>   QED  BY <1>1, <2>3, <2>5, <2>7, <2>8, <2>9, <2>10
<1>   QED  BY <1>3, <1>4

-----------------------------------------------------------------------------
(* The overrides are what the calls of env() have asked for so far.        *)
CallsInv ==
  /\ environ \in Seq(Entries) /\ portable \in BOOLEAN
  /\ overrides \in Seq(Entries) /\ Distinct(overrides)
  /\ calls \in Seq([entry : Entries, replace : BOOLEAN])
  /\ replace = \E i \in DOMAIN calls : calls[i].replace
  /\ overrides = <<>> => ~replace
  /\ \A k \in Keys :
       /\ Standing(k) # {} <=> Places(overrides, k) # {}
       /\ Standing(k) # {} => calls[Max(Standing(k))].entry.value = Lookup(overrides, k)

\* The value of a key below the overrides.
Below(k) == IF replace THEN Unset ELSE Lookup(environ, k)

(* While they are merged, the keys of those done have their values, and    *)
(* the others those from below.                                            *)
MergeInv ==
  /\ childEnv \in Seq(Entries) /\ merged \in 0 .. Len(overrides)
  /\ step \notin {"merge", "done"} => merged = 0
  /\ step \in {"merge", "done"} => \A k \in Keys :
       Lookup(childEnv, k) = IF \E i \in 1 .. merged : overrides[i].key = k
                             THEN Lookup(overrides, k) ELSE Below(k)
  /\ step = "done" => merged = Len(overrides)
  /\ step = "done" /\ portable => found = FirstHit(Lookup(childEnv, "PATH"))

EnvInv == CallsInv /\ MergeInv

\* A call that stands is the last one of its key.
LEMMA StandingAfter ==
  ASSUME CallsInv, NEW e \in Entries, NEW r \in BOOLEAN, Env(e, r), NEW k
  PROVE  Standing(k)' = (IF r THEN {} ELSE Standing(k))
                          \cup (IF k = e.key THEN {Len(calls) + 1} ELSE {})
<1>1. PICK n \in Nat : n = Len(calls)
      BY LenProperties DEF CallsInv
<1>2. [entry |-> e, replace |-> r] \in [entry : Entries, replace : BOOLEAN]
      OBVIOUS
<1>3. /\ Len(calls') = n + 1 /\ calls'[n + 1] = [entry |-> e, replace |-> r]
      /\ \A i \in 1 .. n : calls'[i] = calls[i]
      /\ calls' \in Seq([entry : Entries, replace : BOOLEAN])
      BY <1>1, <1>2, AppendProperties DEF Env, CallsInv
<1>4. DOMAIN calls = 1 .. n /\ DOMAIN calls' = 1 .. n + 1
      BY <1>1, <1>3, LenProperties DEF CallsInv
<1>5. n + 1 \in Standing(k)' <=> k = e.key
      BY <1>3, <1>4 DEF Standing
<1>6. CASE r
  <2>1. \A i \in 1 .. n : i \notin Standing(k)'
    <3>1. \A i \in 1 .. n : n + 1 \in i + 1 .. n + 1
          OBVIOUS
    <3>   QED  BY <1>3, <1>6, <3>1 DEF Standing
  <2>   QED  BY <1>1, <1>4, <1>5, <1>6, <2>1 DEF Standing
<1>7. CASE ~r
  <2>1. ASSUME NEW i \in 1 .. n PROVE i \in Standing(k)' <=> i \in Standing(k)
    <3>1. (\A j \in i + 1 .. n + 1 : ~calls'[j].replace) <=> (\A j \in i + 1 .. n : ~calls[j].replace)
          BY <1>3, <1>7
    <3>   QED  BY <1>1, <1>3, <1>4, <3>1 DEF Standing
  <2>2. Standing(k) \subseteq 1 .. n /\ Standing(k)' \subseteq 1 .. n + 1
        BY <1>4 DEF Standing
  <2>   QED  BY <1>1, <1>5, <1>7, <2>1, <2>2
<1>   QED  BY <1>6, <1>7

\* A call of env() is one of those that stand, and overrides have its value.
LEMMA CallKeeps ==
  ASSUME CallsInv, NEW e \in Entries, NEW r \in BOOLEAN, Env(e, r)
  PROVE  CallsInv'
<1>1. PICK n \in Nat : n = Len(calls)
      BY LenProperties DEF CallsInv
<1>2. [entry |-> e, replace |-> r] \in [entry : Entries, replace : BOOLEAN]
      OBVIOUS
<1>3. /\ Len(calls') = n + 1 /\ calls'[n + 1] = [entry |-> e, replace |-> r]
      /\ \A i \in 1 .. n : calls'[i] = calls[i]
      /\ calls' \in Seq([entry : Entries, replace : BOOLEAN])
      BY <1>1, <1>2, AppendProperties DEF Env, CallsInv
<1>4. DOMAIN calls = 1 .. n /\ DOMAIN calls' = 1 .. n + 1
      BY <1>1, <1>3, LenProperties DEF CallsInv
<1>5. PICK kept : kept = Kept(r)
      OBVIOUS
<1>6. kept \in Seq(Entries) /\ Distinct(kept) /\ (kept = IF r THEN <<>> ELSE overrides)
      BY <1>5 DEF CallsInv, Kept, Distinct
<1>7. /\ overrides' = SetEntry(kept, e)
      /\ UNCHANGED <<portable, environ>> /\ replace' = (replace \/ r)
      BY <1>5 DEF Env
<1>8. overrides' \in Seq(Entries) /\ Distinct(overrides)'
  <2>1. SetEntry(kept, e) \in Seq(Entries) /\ Distinct(SetEntry(kept, e))
        BY <1>6, SetEntryEffect
  <2>2. Distinct(overrides)' = Distinct(overrides')
        BY DEF Distinct
  <2>   QED  BY <1>7, <2>1, <2>2
<1>9. replace' = \E i \in DOMAIN calls' : calls'[i].replace
  <2>1. (\E i \in 1 .. n + 1 : calls'[i].replace) <=> (\E i \in 1 .. n : calls[i].replace) \/ r
        BY <1>3
  <2>   QED  BY <1>4, <1>7, <2>1 DEF CallsInv
<1>10. Places(overrides', e.key) # {} /\ Lookup(overrides', e.key) = e.value
      BY <1>6, <1>7, SetEntryEffect
<1>11. overrides' # <<>>
      BY <1>10 DEF Places
<1>12. ASSUME NEW k \in Keys
      PROVE  /\ Standing(k)' # {} <=> Places(overrides', k) # {}
             /\ Standing(k)' # {} => calls'[Max(Standing(k)')].entry.value = Lookup(overrides', k)
  <2>1. Standing(k)' = (IF r THEN {} ELSE Standing(k)) \cup (IF k = e.key THEN {n + 1} ELSE {})
        BY <1>1, StandingAfter
  <2>2. Standing(k) \in SUBSET (1 .. n) /\ Standing(k)' \in SUBSET (1 .. n + 1)
        BY <1>4 DEF Standing
  <2>3. CASE k = e.key
    <3>1. n + 1 \in Standing(k)'
          BY <2>1, <2>3
    <3>2. Max(Standing(k)') = n + 1
      <4>1. PICK m \in Nat : m = n + 1
            OBVIOUS
      <4>2. PICK T : T = Standing(k)'
            OBVIOUS
      <4>3. T \in SUBSET (1 .. m) /\ m \in T
            BY <2>2, <3>1, <4>1, <4>2
      <4>4. Max(T) \in T /\ Max(T) >= m
            BY <4>3, LeastAndGreatest
      <4>   QED  BY <4>1, <4>2, <4>3, <4>4
    <3>   QED  BY <1>3, <1>10, <2>3, <3>1, <3>2
  <2>4. CASE k # e.key
    <3>1. /\ Places(overrides', k) # {} <=> Places(kept, k) # {}
          /\ Lookup(overrides', k) = Lookup(kept, k)
          BY <1>6, <1>7, <2>4, SetEntryEffect
    <3>2. CASE r
      <4>1. Places(kept, k) = {}
            BY <1>6, <3>2 DEF Places
      <4>   QED  BY <2>1, <2>4, <3>1, <3>2, <4>1
    <3>3. CASE ~r
      <4>1. Standing(k)' = Standing(k) /\ kept = overrides
            BY <1>6, <2>1, <2>4, <3>3
      <4>2. Standing(k) # {} => Max(Standing(k)) \in 1 .. n
            BY <2>2, LeastAndGreatest
      <4>   QED  BY <1>3, <3>1, <4>1, <4>2 DEF CallsInv
    <3>   QED  BY <3>2, <3>3
  <2>   QED  BY <2>3, <2>4
<1>   QED  BY <1>3, <1>7, <1>8, <1>9, <1>11, <1>12 DEF CallsInv

\* Where no key is below, or only that of the caller.
LEMMA BaseGivesBelow ==
  ASSUME CallsInv, NEW k
  PROVE  Base \in Seq(Entries) /\ Lookup(Base, k) = Below(k)
<1>1. Places(<<>>, k) = {} /\ <<>> \in Seq(Entries)
      BY DEF Places
<1>2. Lookup(<<>>, k) = Unset
      BY <1>1, IndexIsLeast DEF Lookup
<1>   QED  BY <1>1, <1>2 DEF CallsInv, Base, Below

\* One override is merged: it is the only one of its key.
LEMMA MergeKeeps ==
  ASSUME EnvInv, Merge
  PROVE  MergeInv'
<1>1. /\ step = "merge" /\ UNCHANGED fdv /\ merged < Len(overrides) /\ merged' = merged + 1
      /\ childEnv' = SetEntry(childEnv, overrides[merged + 1])
      /\ UNCHANGED <<portable, environ, installed, overrides, replace, calls, found>>
      BY DEF Merge, MergeOverride
<1>2. PICK n \in Nat : n = merged + 1
      BY DEF EnvInv, MergeInv
<1>3. n \in 1 .. Len(overrides) /\ merged \in Nat /\ Len(overrides) \in Nat
      /\ overrides \in Seq(Entries) /\ childEnv \in Seq(Entries)
      BY <1>1, <1>2, LenProperties DEF EnvInv, MergeInv, CallsInv
<1>4. PICK e \in Entries : e = overrides[n]
      BY <1>3, ElementOfSeq
<1>5. /\ childEnv' \in Seq(Entries) /\ Lookup(childEnv', e.key) = e.value
      /\ \A k : k # e.key => Lookup(childEnv', k) = Lookup(childEnv, k)
  <2>1. childEnv' = SetEntry(childEnv, e)
        BY <1>1, <1>2, <1>4
  <2>   QED  BY <1>3, <2>1, SetEntryEffect
<1>6. Lookup(overrides, e.key) = e.value
  <2>1. n \in Places(overrides, e.key)
        BY <1>3, <1>4 DEF Places
  <2>2. /\ IndexOf(overrides, e.key) \in 1 .. Len(overrides)
        /\ overrides[IndexOf(overrides, e.key)].key = overrides[n].key
        BY <1>3, <1>4, <2>1, IndexFound
  <2>3. IndexOf(overrides, e.key) = n
        BY <1>3, <2>2 DEF EnvInv, CallsInv, Distinct
  <2>   QED  BY <1>3, <1>4, <2>3 DEF Lookup
<1>7. ASSUME NEW k \in Keys
      PROVE  Lookup(childEnv', k) = IF \E i \in 1 .. n : overrides[i].key = k
                                    THEN Lookup(overrides, k) ELSE Below(k)
  <2>1. CASE k = e.key
        BY <1>3, <1>4, <1>5, <1>6, <2>1
  <2>2. CASE k # e.key
    <3>1. (\E i \in 1 .. n : overrides[i].key = k) <=> (\E i \in 1 .. merged : overrides[i].key = k)
          BY <1>2, <1>3, <1>4, <2>2
    <3>2. Lookup(childEnv, k) = IF \E i \in 1 .. merged : overrides[i].key = k
                                THEN Lookup(overrides, k) ELSE Below(k)
          BY <1>1 DEF EnvInv, MergeInv
    <3>   QED  BY <1>5, <2>2, <3>1, <3>2
  <2>   QED  BY <2>1, <2>2
<1>   QED  BY <1>1, <1>2, <1>3, <1>5, <1>7 DEF MergeInv, Below, fdv

\* Without calls there are no overrides.
LEMMA EnvInitial == Init => EnvInv
<1> SUFFICES ASSUME Init PROVE EnvInv
    OBVIOUS
<1> USE DEF Init, EnvInit, FdsInit
<1>1. environ \in Seq(Entries) /\ \A k : Standing(k) = {} /\ Places(overrides, k) = {}
      BY EnvAssumption DEF Standing, Places
<1>2. CallsInv
  <2>1. overrides \in Seq(Entries) /\ Distinct(overrides)
        BY DEF Distinct
  <2>2. calls \in Seq([entry : Entries, replace : BOOLEAN]) /\ DOMAIN calls = {}
        OBVIOUS
  <2>3. replace = \E i \in DOMAIN calls : calls[i].replace
        BY <2>2
  <2>   QED  BY <1>1, <2>1, <2>2, <2>3 DEF CallsInv
<1>3. MergeInv
      BY DEF MergeInv
<1>   QED  BY <1>2, <1>3 DEF EnvInv

\* Nothing of the environment moves, and the step is before or after all that.
LEMMA EnvStays ==
  ASSUME EnvInv, UNCHANGED envv,
         step' = step \/ {step, step'} \cap {"merge", "done"} = {}
  PROVE  EnvInv'
<1>1. CallsInv'
      BY DEF envv, EnvInv, CallsInv, Standing
<1>2. MergeInv'
  <2> USE DEF envv
  <2>1. childEnv' \in Seq(Entries) /\ merged' \in 0 .. Len(overrides')
        BY DEF EnvInv, MergeInv
  <2>2. \A k : Below(k)' = Below(k)
        BY DEF Below
  <2>3. \A path : FirstHit(path)' = FirstHit(path)
        BY DEF FirstHit, SelectInSeq
  <2>4. CASE step' = step
        BY <2>1, <2>2, <2>3, <2>4 DEF EnvInv, MergeInv
  <2>5. CASE {step, step'} \cap {"merge", "done"} = {}
        BY <2>1, <2>5 DEF EnvInv, MergeInv
  <2>   QED  BY <2>4, <2>5
<1>   QED  BY <1>1, <1>2 DEF EnvInv

\* Every step keeps it.
LEMMA EnvKept ==
  ASSUME EnvInv, [Next]_vars PROVE EnvInv'
<1>1. CASE Configure
  <2>1. PICK e \in Entries, r \in BOOLEAN : Env(e, r)
        BY <1>1 DEF Configure
  <2>2. CallsInv'
        BY <2>1, CallKeeps DEF EnvInv
  <2>3. step = "pipe_in" /\ step' = step /\ UNCHANGED <<childEnv, merged>>
        BY <1>1, <2>1 DEF Configure, fdv, Env
  <2>4. Len(overrides') \in Nat
        BY <2>2, LenProperties DEF CallsInv
  <2>5. MergeInv'
        BY <2>3, <2>4 DEF EnvInv, MergeInv
  <2>   QED  BY <2>2, <2>5 DEF EnvInv
<1>2. CASE SetUp
  <2>1. {step, step'} \cap {"merge", "done"} = {}
        BY <1>2 DEF SetUp, FdsStep, CreateIn, CreateOut, CreateErr, CreatePipe,
                    DupIn, DupOut, DupErr, Dup, CloseUnused
  <2>   QED  BY <1>2, <2>1, EnvStays DEF SetUp
<1>3. CASE Build
  <2>1. /\ step = "build" /\ step' = "merge" /\ childEnv' = Base
        /\ UNCHANGED <<portable, environ, installed, overrides, replace, calls, merged, found>>
        BY <1>3 DEF Build, BuildChildEnv
  <2>2. merged = 0 /\ Len(overrides) \in Nat
        BY <2>1, LenProperties DEF EnvInv, MergeInv, CallsInv
  <2>3. CallsInv'
        BY <2>1 DEF EnvInv, CallsInv, Standing
  <2>4. MergeInv'
        BY <2>1, <2>2, BaseGivesBelow DEF EnvInv, MergeInv, Below
  <2>   QED  BY <2>3, <2>4 DEF EnvInv
<1>4. CASE Merge
  <2>1. CallsInv'
        BY <1>4 DEF Merge, MergeOverride, EnvInv, CallsInv, Standing
  <2>   QED  BY <1>4, <2>1, MergeKeeps DEF EnvInv
<1>5. CASE Exec
  <2>1. /\ step = "merge" /\ step' = "done" /\ merged = Len(overrides)
        /\ found' = FirstHit(Lookup(SearchedIn, "PATH"))
        /\ UNCHANGED <<portable, environ, installed, overrides, replace, calls, childEnv, merged>>
        BY <1>5 DEF Exec, ExecProgram
  <2>2. CallsInv'
        BY <2>1 DEF EnvInv, CallsInv, Standing
  <2>3. portable => found' = FirstHit(Lookup(childEnv, "PATH"))
        BY <2>1 DEF SearchedIn
  <2>4. FirstHit(Lookup(childEnv, "PATH"))' = FirstHit(Lookup(childEnv, "PATH"))
        BY <2>1 DEF FirstHit, SelectInSeq
  <2>5. \A k \in Keys :
          Lookup(childEnv', k) = IF \E i \in 1 .. merged' : overrides'[i].key = k
                                 THEN Lookup(overrides', k) ELSE Below(k)'
        BY <2>1 DEF EnvInv, MergeInv, Below
  <2>6. MergeInv'
        BY <2>1, <2>3, <2>4, <2>5 DEF EnvInv, MergeInv
  <2>   QED  BY <2>2, <2>6 DEF EnvInv
<1>6. CASE UNCHANGED vars
      BY <1>6, EnvStays DEF vars, fdv
<1>   QED  BY <1>1, <1>2, <1>3, <1>4, <1>5, <1>6 DEF Next, Done

\* So it holds in every state.
LEMMA EnvInvHolds == Spec => []EnvInv
BY EnvInitial, EnvKept, PTL DEF Spec

\* When all overrides are merged, each key has what was asked for.
LEMMA AllMerged == EnvInv /\ step = "done" => \A k \in Keys : Lookup(childEnv, k) = Asked(k)
<1> SUFFICES ASSUME EnvInv, step = "done", NEW k \in Keys
             PROVE  Lookup(childEnv, k) = Asked(k)
    OBVIOUS
<1>1. Lookup(childEnv, k) = IF \E i \in 1 .. Len(overrides) : overrides[i].key = k
                            THEN Lookup(overrides, k) ELSE Below(k)
      BY DEF EnvInv, MergeInv
<1>2. (\E i \in 1 .. Len(overrides) : overrides[i].key = k) <=> Standing(k) # {}
      BY DEF EnvInv, CallsInv, Places
<1>   QED  BY <1>1, <1>2 DEF EnvInv, CallsInv, Asked, Below

(* For every key the program sees what the calls of env() asked for,       *)
(* whatever the caller's environment and however often a key was set or    *)
(* all were replaced (subprocess.hpp:114-132, 300-322).                    *)
THEOREM EnvironmentIsAsAsked == Spec => []EnvIsAsAsked
<1>1. EnvInv => EnvIsAsAsked
      BY AllMerged DEF EnvIsAsAsked
<1>   QED  BY <1>1, EnvInvHolds, PTL

(* Without execvpe the program is the first one in the PATH that was asked *)
(* for (subprocess.hpp:263-297).                                           *)
THEOREM ProgramOfChildPath == Spec => []ResolvedInChildPath
<1>1. EnvInv => ResolvedInChildPath
  <2> SUFFICES ASSUME EnvInv, step = "done", portable PROVE found = FirstHit(Asked("PATH"))
      BY DEF ResolvedInChildPath
  <2>1. Lookup(childEnv, "PATH") = Asked("PATH")
        BY AllMerged, EnvAssumption
  <2>   QED  BY <2>1 DEF EnvInv, MergeInv
<1>   QED  BY <1>1, EnvInvHolds, PTL

-----------------------------------------------------------------------------
\* What is found is a directory of the PATH that was searched.
LEMMA HitIsListed ==
  ASSUME NEW s \in Seq(Entries), NEW k \in Keys
  PROVE  FirstHit(Lookup(s, k)) \in Dirs \cup {"nowhere"}
<1>1. Lookup(s, k) = Unset \/ Lookup(s, k) \in Values
  <2>1. CASE IndexOf(s, k) = 0
        BY <2>1 DEF Lookup
  <2>2. CASE IndexOf(s, k) # 0
    <3>1. s[IndexOf(s, k)] \in Entries
          BY <2>2, IndexFound, ElementOfSeq
    <3>   QED  BY <2>2, <3>1 DEF Lookup, Entries
  <2>   QED  BY <2>1, <2>2
<1>2. PICK dirs : dirs = IF Lookup(s, k) = Unset THEN Default ELSE Lookup(s, k)
      OBVIOUS
<1>3. dirs \in Values \cup {Default}
      BY <1>1, <1>2
<1>4. PICK T : dirs \in Seq(T)
  <2>1. Default \in Seq({"default"})
        BY DEF Default
  <2>2. Values \subseteq Seq(STRING)
        BY EnvAssumption
  <2>   QED  BY <1>3, <2>1, <2>2
<1>5. ToSet(dirs) \subseteq Dirs
      BY <1>3 DEF Dirs
<1>6. PICK I : I = {i \in 1 .. Len(dirs) : dirs[i] \in installed}
      OBVIOUS
<1>7. FirstHit(Lookup(s, k)) =
        IF I # {} THEN IF Min(I) = 0 THEN "nowhere" ELSE dirs[Min(I)] ELSE "nowhere"
      BY <1>2, <1>6 DEF FirstHit, SelectInSeq
<1>8. CASE I # {}
  <2>1. Len(dirs) \in Nat /\ I \in SUBSET (1 .. Len(dirs))
        BY <1>4, <1>6, LenProperties
  <2>2. Min(I) \in 1 .. Len(dirs)
        BY <1>8, <2>1, LeastAndGreatest
  <2>3. dirs[Min(I)] \in ToSet(dirs)
        BY <1>4, <2>2, LenProperties DEF ToSet
  <2>   QED  BY <1>5, <1>7, <1>8, <2>3
<1>   QED  BY <1>7, <1>8

(* Every variable keeps its type, and each key has at most one override    *)
(* (subprocess.hpp:124-130).                                               *)
THEOREM ChildSetupTypes == Spec => []TypeOK
<1> DEFINE FoundOK == found \in Dirs \cup {"none", "nowhere"}
<1>1. Init => FoundOK
      BY DEF Init, EnvInit
<1>2. FoundOK /\ EnvInv /\ [Next]_vars => FoundOK'
  <2> SUFFICES ASSUME FoundOK, EnvInv, [Next]_vars PROVE FoundOK'
      OBVIOUS
  <2>1. CASE Exec
    <3>1. SearchedIn \in Seq(Entries)
          BY DEF SearchedIn, EnvInv, CallsInv, MergeInv
    <3>   QED  BY <2>1, <3>1, HitIsListed, EnvAssumption DEF Exec, ExecProgram
  <2>2. CASE UNCHANGED found
        BY <2>2
  <2>   QED  BY <2>1, <2>2 DEF Next, Configure, Env, SetUp, Build, BuildChildEnv, Merge,
                    MergeOverride, Done, vars, envv
<1>3. Spec => []FoundOK
      BY <1>1, <1>2, EnvInvHolds, PTL DEF Spec
<1>4. FdsInv /\ EnvInv /\ FoundOK => TypeOK
  <2> SUFFICES ASSUME FdsInv, EnvInv, FoundOK PROVE TypeOK
      OBVIOUS
  <2>1. DOMAIN overrides = 1 .. Len(overrides)
        BY LenProperties DEF EnvInv, CallsInv
  <2>2. replace \in BOOLEAN
        BY DEF EnvInv, CallsInv
  <2>   QED  BY <2>1, <2>2 DEF TypeOK, FdsInv, EnvInv, CallsInv, MergeInv, Distinct
<1>   QED  BY <1>3, <1>4, FdsInvHolds, EnvInvHolds, PTL

===============================================================================

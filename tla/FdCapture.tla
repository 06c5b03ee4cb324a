------------------------------ MODULE FdCapture ------------------------------
(***************************************************************************)
(* ftl::FdCapture (io/capture.hpp): a descriptor is redirected to a        *)
(* tmpfile() and later restored; captures of one descriptor nest, as       *)
(* scopes do.  Output is made of units, numbered as they are produced.  A  *)
(* unit is written straight to the descriptor or printed to the stdio      *)
(* stream over it, whose buffer reaches the descriptor later.              *)
(*                                                                         *)
(* The file of a capture is shared: the descriptor writes to it and        *)
(* content() reads it through the stream file_, and the two have one file  *)
(* position.  file_ remembers the position it saw first: ftell() asks the  *)
(* kernel only as long as the stream has not been read or positioned.      *)
(***************************************************************************)
EXTENDS Integers, Sequences, SequencesExt

CONSTANTS
  MaxDepth,  \* captures nested in each other
  MaxUnits   \* units of output (bound)

ASSUME CaptureAssumption == MaxDepth \in Nat /\ MaxUnits \in Nat

Levels == 1 .. MaxDepth  \* the captures; level 0 is the original file
Units  == 1 .. MaxUnits

VARIABLES
  stream,   \* the captures are given the stdio stream of the descriptor
  depth,    \* captures that exist
  target,   \* what the descriptor refers to: a level
  saved,    \* saved_ of each capture: a level
  held,     \* descriptors the captures hold open
  data,     \* the units in the file of each level
  pos,      \* the file position of each level
  known,    \* what ftell(file_) remembers, or None
  pending,  \* the units in the buffer of the stdio stream
  home,     \* HISTORY: the depth at which each unit was produced
  late,     \* HISTORY: the captures with output after their first content()
  shown,    \* what the last content() returned
  due,      \* HISTORY: the units captured when it did
  stale     \* HISTORY: its capture was late

cvars == <<stream, depth, target, saved, held, known>>
qvars == <<shown, due, stale>>
capturev == <<stream, depth, target, saved, held, data, pos, known, pending,
           home, late, shown, due, stale>>

None == -1  \* of known
Gone == -1  \* of home: with its capture

CaptureInit ==
  /\ stream \in BOOLEAN
  /\ depth = 0 /\ target = 0 /\ held = 0
  /\ saved = [c \in Levels |-> 0]
  /\ data = [d \in 0 .. MaxDepth |-> <<>>]
  /\ pos = [d \in 0 .. MaxDepth |-> 0]
  /\ known = [c \in Levels |-> None]
  /\ pending = <<>> /\ home = <<>> /\ late = {}
  /\ shown = <<>> /\ due = {} /\ stale = FALSE

CapturedAt(c) == {u \in DOMAIN home : home[u] = c}

\* write(2): at the position of the file, over what is there.
Put(file, at, units) ==
  SubSeq(file, 1, at) \o units \o SubSeq(file, at + Len(units) + 1, Len(file))

\* fflush(stream_), where there is a stream: its buffer goes to the target.
FlushedData == [data EXCEPT ![target] = Put(@, pos[target], pending)]
\* MUTANT of FlushedPos: the size is asked for before the flush.
UnflushedPos == pos

FlushedPos  == [pos EXCEPT ![target] = @ + Len(pending)]
\* MUTANT of Flush: it is left out.
FlushNothing == UNCHANGED <<data, pos, pending>>

Flush == data' = FlushedData /\ pos' = FlushedPos /\ pending' = <<>>

-----------------------------------------------------------------------------
\* The program.  One that prints passes the stream to its captures.
Produce ==
  /\ Len(home) < MaxUnits
  /\ home' = Append(home, depth)
  /\ late' = late \cup {c \in Levels : c = depth /\ known[c] # None}

Write ==
  /\ Produce
  /\ data' = [data EXCEPT ![target] = Put(@, pos[target], <<Len(home) + 1>>)]
  /\ pos' = [pos EXCEPT ![target] = @ + 1]
  /\ UNCHANGED <<cvars, qvars, pending>>

Printf ==
  /\ stream
  /\ Produce
  /\ pending' = Append(pending, Len(home) + 1)
  /\ UNCHANGED <<cvars, qvars, data, pos>>

\* The stdio buffer is full, or ends a line.
StdioFlush ==
  /\ pending # <<>>
  /\ Flush
  /\ UNCHANGED <<cvars, qvars, home, late>>

-----------------------------------------------------------------------------
\* tmpfile() and dup() succeed.
Construct ==
  /\ depth < MaxDepth
  /\ Flush
  /\ depth' = depth + 1
  /\ saved' = [saved EXCEPT ![depth + 1] = target]
  /\ target' = depth + 1
  /\ held' = held + 2
  /\ UNCHANGED <<stream, known, home, late, qvars>>

\* MUTANT of ConstructFails: the other descriptor stays open.
ConstructFailsLeaks ==
  /\ depth < MaxDepth
  /\ Flush
  /\ held' = held + 1
  /\ UNCHANGED <<stream, depth, target, saved, known, qvars, home, late>>

\* MUTANT of ConstructFails: dup2 comes before the check.
ConstructFailsRedirected ==
  /\ depth < MaxDepth
  /\ Flush
  /\ target' = depth + 1
  /\ UNCHANGED <<stream, depth, saved, held, known, qvars, home, late>>

\* One of them failed: the other's descriptor is closed, then the throw.
ConstructFails ==
  /\ depth < MaxDepth
  /\ Flush
  /\ UNCHANGED <<cvars, qvars, home, late>>

\* content(): what ftell() says is read from the start.  The read leaves the
\* position after what it returned, or further on, where it read ahead.
Content(c) ==
  LET size == IF known[c] = None THEN FlushedPos[c] ELSE known[c]
      file == FlushedData[c]
  IN  /\ c <= depth
      /\ data' = FlushedData
      /\ pending' = <<>>
      /\ \E at \in size .. Len(file) : pos' = [FlushedPos EXCEPT ![c] = at]
      /\ known' = [known EXCEPT ![c] = size]
      /\ shown' = SubSeq(file, 1, size)
      /\ due' = CapturedAt(c)
      /\ stale' = (c \in late)
      /\ UNCHANGED <<stream, depth, target, saved, held, home, late>>

\* ~FdCapture of the innermost capture; its file is gone with it.
Destroy ==
  /\ depth > 0
  /\ pending' = <<>>
  /\ data' = [FlushedData EXCEPT ![depth] = <<>>]
  /\ pos' = [FlushedPos EXCEPT ![depth] = 0]
  /\ target' = saved[depth]
  /\ held' = held - 2
  /\ depth' = depth - 1
  /\ known' = [known EXCEPT ![depth] = None]
  /\ late' = late \ {depth}
  /\ home' = [u \in DOMAIN home |-> IF home[u] = depth THEN Gone ELSE home[u]]
  /\ UNCHANGED <<stream, saved, qvars>>

CaptureNext ==
  \/ Write \/ Printf \/ StdioFlush
  \/ Construct \/ ConstructFails \/ Destroy
  \/ \E c \in Levels : Content(c)

CaptureSpec == CaptureInit /\ [][CaptureNext]_capturev

-----------------------------------------------------------------------------
(* Type invariant. *)
CaptureTypeOK ==
  /\ stream \in BOOLEAN
  /\ depth \in 0 .. MaxDepth
  /\ target \in 0 .. MaxDepth
  /\ saved \in [Levels -> 0 .. MaxDepth]
  /\ held \in 0 .. 2 * MaxDepth
  /\ data \in [0 .. MaxDepth -> Seq(Units)]
  /\ pos \in [0 .. MaxDepth -> Nat]
  /\ \A d \in 0 .. MaxDepth : pos[d] <= Len(data[d])
  /\ known \in [Levels -> Nat \cup {None}]
  /\ pending \in Seq(Units)
  /\ home \in Seq(0 .. MaxDepth \cup {Gone})
  /\ late \subseteq Levels
  /\ shown \in Seq(Units)
  /\ due \subseteq Units
  /\ stale \in BOOLEAN

(* With every capture gone the descriptor is the original one again and    *)
(* nothing stays open, however they were nested and whether or not some    *)
(* could not be made (capture.hpp:26-38, 42-53).                           *)
Restored == depth = 0 => target = 0 /\ held = 0

(* No output strays: what is printed around a capture does not end up in   *)
(* it, nor does what is printed in it get out, though stdio delivers both  *)
(* later (the flushes of capture.hpp:23-24, 44-45).                        *)
NoStray == \A d \in 0 .. MaxDepth : \A u \in ToSet(data[d]) : home[u] = d

(* What was produced outside of all captures reaches the original file,    *)
(* once and in spite of them, or is still in the buffer of the stream.     *)
OriginalComplete ==
  /\ CapturedAt(0) \subseteq ToSet(data[0]) \cup ToSet(pending)
  /\ IsInjective(data[0] \o pending)

(* content() returns everything captured so far, the first time and as     *)
(* long as nothing more was captured after the first time.                 *)
ContentComplete == ~stale => ToSet(shown) = due

(* docs/reference.md:82: content() "flushes the stream (if any), returns   *)
(* everything captured so far".                                            *)
ContentIsAll == ToSet(shown) = due
=============================================================================

------------------------------- MODULE UniqueFd -------------------------------
(***************************************************************************)
(* ftl::UniqueFd (core/fd.hpp): objects that own a descriptor, over the    *)
(* descriptor table of the process.  A descriptor the program holds as a   *)
(* plain int, the three standard ones among them, is in raw.               *)
(***************************************************************************)
EXTENDS Integers

CONSTANTS
  Objs,     \* places for UniqueFd objects
  MaxFd,    \* size of the table (RLIMIT_NOFILE)
  Standard  \* descriptors open from the start

Numbers == 0 .. MaxFd - 1
None    == -1

ASSUME FdAssumption == MaxFd \in Nat /\ Standard \subseteq Numbers

VARIABLES
  table,  \* open descriptors of the process
  raw,    \* those of them that the program holds as ints
  live,   \* the objects that exist
  fd      \* fd_ of each object, None where it holds nothing

fvars == <<table, raw, live, fd>>

FdTypeOK ==
  /\ table \subseteq Numbers
  /\ raw \subseteq table
  /\ live \subseteq Objs
  /\ fd \in [Objs -> Numbers \cup {None}]

FdInit ==
  /\ table = Standard
  /\ raw = Standard
  /\ live = {}
  /\ fd = [o \in Objs |-> None]

Free == Numbers \ table

\* The kernel hands out the lowest number that is free.
IsLowest(n) == n \in Free /\ \A m \in Free : n <= m

\* What close(fd_) closes, if the object holds anything.
Held(o) == {fd[o]} \ {None}

-----------------------------------------------------------------------------
\* int fd = open(...), pipe(), dup(), ... by the program itself.
RawOpen ==
  \E n \in Numbers :
    /\ IsLowest(n)
    /\ table' = table \cup {n}
    /\ raw' = raw \cup {n}
    /\ UNCHANGED <<live, fd>>

RawClose(n) ==
  /\ n \in raw
  /\ table' = table \ {n}
  /\ raw' = raw \ {n}
  /\ UNCHANGED <<live, fd>>

\* open_fd: throws, and makes no object, when the table is full.
OpenFd(o) ==
  /\ o \notin live
  /\ \E n \in Numbers :
       /\ IsLowest(n)
       /\ table' = table \cup {n}
       /\ fd' = [fd EXCEPT ![o] = n]
  /\ live' = live \cup {o}
  /\ UNCHANGED raw

\* UniqueFd() and explicit UniqueFd(int): the object takes over the int.
Construct(o, n) ==
  /\ o \notin live
  /\ n \in raw \cup {None}
  /\ live' = live \cup {o}
  /\ fd' = [fd EXCEPT ![o] = n]
  /\ raw' = raw \ {n}
  /\ UNCHANGED table

Destroy(o) ==
  /\ o \in live
  /\ table' = table \ Held(o)
  /\ live' = live \ {o}
  /\ fd' = [fd EXCEPT ![o] = None]
  /\ UNCHANGED raw

MoveConstruct(o, other) ==
  /\ o \notin live /\ other \in live
  /\ live' = live \cup {o}
  /\ fd' = [fd EXCEPT ![o] = fd[other], ![other] = None]
  /\ UNCHANGED <<table, raw>>

\* MUTANT of MoveAssign: what the object held is forgotten.
MoveAssignWithoutClose(o, other) ==
  /\ o \in live /\ other \in live
  /\ o # other
  /\ fd' = [fd EXCEPT ![o] = fd[other], ![other] = None]
  /\ UNCHANGED <<table, raw, live>>

\* operator=(UniqueFd&&): nothing happens on self-assignment.
MoveAssign(o, other) ==
  /\ o \in live /\ other \in live
  /\ o # other
  /\ table' = table \ Held(o)
  /\ fd' = [fd EXCEPT ![o] = fd[other], ![other] = None]
  /\ UNCHANGED <<raw, live>>

Release(o) ==
  /\ o \in live
  /\ raw' = raw \cup Held(o)
  /\ fd' = [fd EXCEPT ![o] = None]
  /\ UNCHANGED <<table, live>>

\* reset(n): closes what it holds, then takes n over.
Reset(o, n) ==
  /\ o \in live
  /\ n \in raw \cup {None}
  /\ table' = table \ Held(o)
  /\ fd' = [fd EXCEPT ![o] = n]
  /\ raw' = raw \ {n}
  /\ UNCHANGED live

FdNext ==
  \/ RawOpen
  \/ \E n \in Numbers : RawClose(n)
  \/ \E o \in Objs :
       \/ OpenFd(o) \/ Destroy(o) \/ Release(o)
       \/ \E n \in Numbers \cup {None} : Construct(o, n) \/ Reset(o, n)
       \/ \E other \in Objs : MoveConstruct(o, other) \/ MoveAssign(o, other)

-----------------------------------------------------------------------------
(* Every open descriptor has exactly one owner, and every owner's          *)
(* descriptor is open: so no close() of UniqueFd (fd.hpp:23-27, 34-44,     *)
(* 58-63) ever closes a number twice or one that is somebody else's, and   *)
(* nothing stays open that nobody owns.                                    *)
OneOwner ==
  /\ table = raw \cup UNION {Held(o) : o \in live}
  /\ \A o \in live : Held(o) \cap raw = {}
  /\ \A o, p \in live : o # p => Held(o) \cap Held(p) = {}
  /\ \A o \in Objs \ live : Held(o) = {}
=============================================================================

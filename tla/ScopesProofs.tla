----------------------------- MODULE ScopesProofs -----------------------------
(***************************************************************************)
(* Theorems about what a scope leaves to destructors: captures (FdCapture),*)
(* nested to any depth with any amount of output, scope guards (ScopeGuard)*)
(* and a temporary directory (TempDir).                                    *)
(***************************************************************************)
EXTENDS FdCapture, ScopeGuard, TempDir, SequenceTheorems, TLAPS

USE CaptureAssumption DEF CaptureAssumption

\* What is in sequences that are put together, and in parts of them.
LEMMA RangeOfConcat ==
  ASSUME NEW S, NEW s \in Seq(S), NEW t \in Seq(S)
  PROVE  ToSet(s \o t) = ToSet(s) \cup ToSet(t)
<1>1. /\ s \o t \in Seq(S) /\ Len(s \o t) = Len(s) + Len(t)
      /\ \A i \in 1 .. Len(s) + Len(t) : (s \o t)[i] = IF i <= Len(s) THEN s[i] ELSE t[i - Len(s)]
      BY ConcatProperties
<1>2. Len(s) \in Nat /\ Len(t) \in Nat
      OBVIOUS
<1>3. /\ ToSet(s) = {s[i] : i \in 1 .. Len(s)} /\ ToSet(t) = {t[i] : i \in 1 .. Len(t)}
      /\ ToSet(s \o t) = {(s \o t)[i] : i \in 1 .. Len(s) + Len(t)}
      BY <1>1 DEF ToSet
<1>4. ASSUME NEW i \in 1 .. Len(s) + Len(t) PROVE (s \o t)[i] \in ToSet(s) \cup ToSet(t)
  <2>1. CASE i <= Len(s)
        BY <1>1, <1>2, <1>3, <2>1
  <2>2. CASE i > Len(s)
    <3>1. i - Len(s) \in 1 .. Len(t) /\ (s \o t)[i] = t[i - Len(s)]
          BY <1>1, <1>2, <2>2
    <3>   QED  BY <1>3, <3>1
  <2>   QED  BY <1>2, <2>1, <2>2
<1>5. ASSUME NEW i \in 1 .. Len(s) PROVE s[i] \in ToSet(s \o t)
  <2>1. i \in 1 .. Len(s) + Len(t) /\ (s \o t)[i] = s[i]
        BY <1>1, <1>2
  <2>   QED  BY <1>3, <2>1
<1>6. ASSUME NEW i \in 1 .. Len(t) PROVE t[i] \in ToSet(s \o t)
  <2>1. Len(s) + i \in 1 .. Len(s) + Len(t) /\ ~(Len(s) + i <= Len(s)) /\ (Len(s) + i) - Len(s) = i
        BY <1>2
  <2>2. (s \o t)[Len(s) + i] = t[(Len(s) + i) - Len(s)]
        BY <1>1, <2>1
  <2>   QED  BY <1>3, <2>1, <2>2
<1>   QED  BY <1>3, <1>4, <1>5, <1>6

LEMMA RangeOfPart ==
  ASSUME NEW S, NEW s \in Seq(S), NEW m \in Nat \ {0}, NEW n \in 0 .. Len(s)
  PROVE  /\ SubSeq(s, m, n) \in Seq(S)
         /\ Len(SubSeq(s, m, n)) = IF m <= n THEN n - m + 1 ELSE 0
         /\ ToSet(SubSeq(s, m, n)) \subseteq ToSet(s)
<1>1. \A i \in m .. n : i \in 1 .. Len(s)
      OBVIOUS
<1>2. \A i \in 1 .. Len(s) : s[i] \in S /\ s[i] \in ToSet(s)
      BY ElementOfSeq DEF ToSet
<1>3. /\ SubSeq(s, m, n) \in Seq(ToSet(s))
      /\ SubSeq(s, m, n) \in Seq(S)
      /\ Len(SubSeq(s, m, n)) = IF m <= n THEN n - m + 1 ELSE 0
      BY <1>1, <1>2, SubSeqProperties
<1>4. \A i \in DOMAIN SubSeq(s, m, n) : SubSeq(s, m, n)[i] \in ToSet(s)
      BY <1>3, ElementOfSeq
<1>   QED  BY <1>3, <1>4 DEF ToSet

\* write(2) over a file: what was there and what is written, and nothing else;
\* at its end, one after the other.
LEMMA PutProperties ==
  ASSUME NEW S, NEW file \in Seq(S), NEW at \in 0 .. Len(file), NEW units \in Seq(S)
  PROVE  /\ Put(file, at, units) \in Seq(S)
         /\ Len(Put(file, at, units)) >= Len(file)
         /\ Len(Put(file, at, units)) >= at + Len(units)
         /\ ToSet(Put(file, at, units)) \subseteq ToSet(file) \cup ToSet(units)
         /\ at = Len(file) => Put(file, at, units) = file \o units
<1> DEFINE after == at + Len(units) + 1
<1>1. Len(units) \in Nat /\ Len(file) \in Nat /\ at \in Nat /\ after \in Nat \ {0}
      OBVIOUS
<1>2. PICK h : h = SubSeq(file, 1, at)
      OBVIOUS
<1>3. PICK t : t = SubSeq(file, after, Len(file))
      OBVIOUS
<1>4. /\ h \in Seq(S) /\ Len(h) = at /\ ToSet(h) \subseteq ToSet(file)
      BY <1>1, <1>2, RangeOfPart
<1>5. /\ t \in Seq(S) /\ ToSet(t) \subseteq ToSet(file)
      /\ Len(t) = IF after <= Len(file) THEN Len(file) - after + 1 ELSE 0
      BY <1>1, <1>3, RangeOfPart
<1>6. PICK hu : hu = h \o units
      OBVIOUS
<1>7. PICK all : all = hu \o t
      OBVIOUS
<1>8. Put(file, at, units) = all
      BY <1>2, <1>3, <1>6, <1>7 DEF Put
<1>9. /\ hu \in Seq(S) /\ Len(hu) = at + Len(units)
      /\ ToSet(hu) = ToSet(h) \cup ToSet(units)
  <2>1. hu \in Seq(S) /\ Len(hu) = Len(h) + Len(units)
        BY <1>4, <1>6, ConcatProperties
  <2>2. ToSet(hu) = ToSet(h) \cup ToSet(units)
        BY <1>4, <1>6, RangeOfConcat
  <2>   QED  BY <1>4, <2>1, <2>2
<1>10. /\ all \in Seq(S) /\ Len(all) = Len(hu) + Len(t)
       /\ ToSet(all) = ToSet(hu) \cup ToSet(t)
  <2>1. hu \in Seq(S) /\ t \in Seq(S)
        BY <1>5, <1>9
  <2>   QED  BY <1>7, <2>1, ConcatProperties, RangeOfConcat
<1>11. Len(all) >= Len(file) /\ Len(all) >= at + Len(units)
  <2>1. Len(t) = IF at + Len(units) + 1 <= Len(file)
                 THEN Len(file) - (at + Len(units) + 1) + 1 ELSE 0
        BY <1>5
  <2>2. Len(all) = (at + Len(units)) + Len(t)
        BY <1>9, <1>10
  <2>3. CASE at + Len(units) + 1 <= Len(file)
    <3>1. Len(t) = Len(file) - (at + Len(units) + 1) + 1
          BY <2>1, <2>3
    <3>   QED  BY <1>1, <2>2, <2>3, <3>1
  <2>4. CASE ~(at + Len(units) + 1 <= Len(file))
    <3>1. Len(t) = 0
          BY <2>1, <2>4
    <3>   QED  BY <1>1, <2>2, <2>4, <3>1
  <2>   QED  BY <2>3, <2>4
<1>12. ASSUME at = Len(file) PROVE all = file \o units
  <2>1. h = file
        BY <1>2, <1>12, SubSeqFull
  <2>2. t = <<>>
        BY <1>1, <1>3, <1>12, SubSeqEmpty
  <2>   QED  BY <1>6, <1>7, <1>9, <2>1, <2>2, ConcatEmptySeq
<1>   QED  BY <1>4, <1>5, <1>8, <1>9, <1>10, <1>11, <1>12

\* No repetition in what is put together: none in either, nothing in both.
LEMMA InjectiveConcat ==
  ASSUME NEW S, NEW s \in Seq(S), NEW t \in Seq(S)
  PROVE  IsInjective(s \o t)
           <=> IsInjective(s) /\ IsInjective(t) /\ ToSet(s) \cap ToSet(t) = {}
<1>1. PICK st : st = s \o t
      OBVIOUS
<1>2. /\ st \in Seq(S) /\ Len(st) = Len(s) + Len(t)
      /\ \A i \in 1 .. Len(s) + Len(t) : st[i] = IF i <= Len(s) THEN s[i] ELSE t[i - Len(s)]
      BY <1>1, ConcatProperties
<1>3. Len(s) \in Nat /\ Len(t) \in Nat
      OBVIOUS
<1>4. /\ DOMAIN s = 1 .. Len(s) /\ DOMAIN t = 1 .. Len(t) /\ DOMAIN st = 1 .. Len(s) + Len(t)
      BY <1>2
<1>5. \A i \in 1 .. Len(s) : i \in DOMAIN st /\ st[i] = s[i]
      BY <1>2, <1>3, <1>4
<1>6. ASSUME NEW i \in 1 .. Len(t)
      PROVE  Len(s) + i \in DOMAIN st /\ st[Len(s) + i] = t[i]
  <2>1. Len(s) + i \in 1 .. Len(s) + Len(t) /\ ~(Len(s) + i <= Len(s)) /\ (Len(s) + i) - Len(s) = i
        BY <1>3
  <2>   QED  BY <1>2, <1>4, <2>1
<1>7. ASSUME IsInjective(st)
      PROVE  IsInjective(s) /\ IsInjective(t) /\ ToSet(s) \cap ToSet(t) = {}
  <2>1. \A i, j \in DOMAIN st : st[i] = st[j] => i = j
        BY <1>7 DEF IsInjective
  <2>2. IsInjective(s)
        BY <1>4, <1>5, <2>1 DEF IsInjective
  <2>3. ASSUME NEW i \in 1 .. Len(t), NEW j \in 1 .. Len(t), t[i] = t[j] PROVE i = j
    <3>1. Len(s) + i = Len(s) + j
          BY <1>6, <2>1, <2>3
    <3>   QED  BY <1>3, <3>1
  <2>4. IsInjective(t)
        BY <1>4, <2>3 DEF IsInjective
  <2>5. ASSUME NEW i \in 1 .. Len(s), NEW j \in 1 .. Len(t), s[i] = t[j] PROVE FALSE
    <3>1. i = Len(s) + j
          BY <1>5, <1>6, <2>1, <2>5
    <3>   QED  BY <1>3, <3>1
  <2>   QED  BY <1>4, <2>2, <2>4, <2>5 DEF ToSet
<1>8. ASSUME IsInjective(s), IsInjective(t), ToSet(s) \cap ToSet(t) = {}
      PROVE  IsInjective(st)
  <2>1. /\ \A i, j \in 1 .. Len(s) : s[i] = s[j] => i = j
        /\ \A i, j \in 1 .. Len(t) : t[i] = t[j] => i = j
        /\ \A i \in 1 .. Len(s), j \in 1 .. Len(t) : s[i] # t[j]
    <3>1. \A i, j \in 1 .. Len(s) : s[i] = s[j] => i = j
          BY <1>4, <1>8 DEF IsInjective
    <3>2. \A i, j \in 1 .. Len(t) : t[i] = t[j] => i = j
          BY <1>4, <1>8 DEF IsInjective
    <3>3. \A i \in 1 .. Len(s), j \in 1 .. Len(t) : s[i] # t[j]
          BY <1>4, <1>8 DEF ToSet
    <3>   QED  BY <3>1, <3>2, <3>3
  <2>2. ASSUME NEW i \in DOMAIN st, i > Len(s)
        PROVE  i - Len(s) \in 1 .. Len(t) /\ st[i] = t[i - Len(s)]
    <3>1. PICK m \in Nat, n \in Nat : m = Len(s) /\ n = Len(t)
          BY <1>3
    <3>2. i \in 1 .. m + n /\ i > m
          BY <1>4, <2>2, <3>1
    <3>3. i - m \in 1 .. n /\ ~(i <= m)
          BY <3>2
    <3>   QED  BY <1>2, <3>1, <3>2, <3>3
  <2>3. \A i \in DOMAIN st : i <= Len(s) => i \in 1 .. Len(s) /\ st[i] = s[i]
        BY <1>2, <1>3, <1>4
  <2>4. ASSUME NEW i \in DOMAIN st, NEW j \in DOMAIN st, st[i] = st[j] PROVE i = j
    <3>1. i \in Int /\ j \in Int
          BY <1>4
    <3>2. CASE i <= Len(s) /\ j <= Len(s)
          BY <2>1, <2>3, <2>4, <3>2
    <3>3. CASE i <= Len(s) /\ j > Len(s)
          BY <2>1, <2>2, <2>3, <2>4, <3>3
    <3>4. CASE i > Len(s) /\ j <= Len(s)
          BY <2>1, <2>2, <2>3, <2>4, <3>4
    <3>5. CASE i > Len(s) /\ j > Len(s)
      <4>1. i - Len(s) = j - Len(s)
            BY <2>1, <2>2, <2>4, <3>5
      <4>   QED  BY <1>3, <3>1, <4>1
    <3>   QED  BY <1>3, <3>1, <3>2, <3>3, <3>4, <3>5
  <2>   QED  BY <2>4 DEF IsInjective
<1>   QED  BY <1>1, <1>7, <1>8

-----------------------------------------------------------------------------
(* Captures are nested: each one saved the level below it.                 *)
Nested ==
  /\ target = depth /\ held = 2 * depth
  /\ \A c \in 1 .. depth : saved[c] = c - 1
  /\ \A c \in Levels : c > depth => known[c] = None /\ c \notin late

(* Every unit is where it was produced, or on its way there; none is of a  *)
(* capture that does not exist.                                            *)
AtHome ==
  /\ Len(home) <= MaxUnits
  /\ \A u \in DOMAIN home : home[u] <= depth
  /\ \A d \in 0 .. MaxDepth : \A u \in ToSet(data[d]) : u \in DOMAIN home /\ home[u] = d
  /\ \A u \in ToSet(pending) : u \in DOMAIN home /\ home[u] = depth

(* Unless a capture is late its descriptor writes at the end of its file,  *)
(* and what content() remembers is the whole of it.                        *)
AtTheEnd ==
  /\ \A d \in 0 .. MaxDepth : d \notin late => pos[d] = Len(data[d])
  /\ \A c \in Levels : known[c] # None => known[c] <= Len(data[c])
  /\ \A c \in Levels : known[c] # None /\ c \notin late =>
       known[c] = Len(data[c]) /\ (c = depth => pending = <<>>)
  /\ \A c \in late : known[c] # None

(* Then all that was produced in it is in its file or in the buffer.       *)
AllKept ==
  \A d \in 0 .. depth : d \notin late =>
    \A u \in CapturedAt(d) : u \in ToSet(data[d]) \/ (d = depth /\ u \in ToSet(pending))

CaptureInv ==
  /\ CaptureTypeOK
  /\ Nested /\ AtHome /\ AtTheEnd /\ AllKept
  /\ IsInjective(data[0] \o pending)
  /\ ContentComplete

LEMMA CaptureInitial == CaptureInit => CaptureInv
<1> SUFFICES ASSUME CaptureInit PROVE CaptureInv
    OBVIOUS
<1> USE DEF CaptureInit
<1>1. \A S : <<>> \in Seq(S)
      OBVIOUS
<1>2. CaptureTypeOK
      BY <1>1 DEF CaptureTypeOK, Levels
<1>3. \A d \in 0 .. MaxDepth : data[d] = <<>> /\ pos[d] = 0 /\ Len(data[d]) = 0
      OBVIOUS
<1>4. \A c \in Levels : known[c] = None
      OBVIOUS
<1>5. ToSet(<<>>) = {} /\ DOMAIN home = {} /\ Len(home) = 0 /\ Len(<<>>) = 0
      BY DEF ToSet
<1>6. Nested
      BY <1>4 DEF Nested
<1>7. AtHome
      BY <1>3, <1>5 DEF AtHome
<1>8. AtTheEnd
      BY <1>3, <1>4 DEF AtTheEnd
<1>9. AllKept
      BY <1>5 DEF AllKept, CapturedAt
<1>10. IsInjective(data[0] \o pending)
  <2>1. data[0] \o pending = <<>>
        BY <1>1, <1>3, ConcatEmptySeq
  <2>   QED  BY <2>1 DEF IsInjective
<1>11. ContentComplete
      BY <1>5 DEF ContentComplete
<1>   QED  BY <1>2, <1>6, <1>7, <1>8, <1>9, <1>10, <1>11 DEF CaptureInv

\* What fflush() makes of the files: all units of the buffer come home.
LEMMA FlushEffect ==
  ASSUME CaptureInv
  PROVE  /\ FlushedData \in [0 .. MaxDepth -> Seq(Units)]
         /\ FlushedPos \in [0 .. MaxDepth -> Nat]
         /\ \A d \in 0 .. MaxDepth :
              /\ FlushedPos[d] <= Len(FlushedData[d])
              /\ d \notin late => FlushedPos[d] = Len(FlushedData[d])
              /\ \A u \in ToSet(FlushedData[d]) : u \in DOMAIN home /\ home[u] = d
              /\ d <= depth /\ d \notin late => CapturedAt(d) \subseteq ToSet(FlushedData[d])
              /\ d \in Levels /\ known[d] # None =>
                   /\ known[d] <= Len(FlushedData[d])
                   /\ d \notin late => known[d] = Len(FlushedData[d])
         /\ IsInjective(FlushedData[0])
<1>1. /\ data \in [0 .. MaxDepth -> Seq(Units)] /\ pos \in [0 .. MaxDepth -> Nat]
      /\ \A d \in 0 .. MaxDepth : pos[d] <= Len(data[d])
      /\ pending \in Seq(Units) /\ depth \in 0 .. MaxDepth /\ target = depth
      /\ Len(pending) \in Nat /\ known \in [Levels -> Nat \cup {None}]
      BY DEF CaptureInv, CaptureTypeOK, Nested
<1>2. /\ data[depth] \in Seq(Units) /\ pos[depth] \in 0 .. Len(data[depth])
      /\ Len(data[depth]) \in Nat
      BY <1>1
<1>3. PICK file : file = Put(data[depth], pos[depth], pending)
      OBVIOUS
<1>4. /\ file \in Seq(Units) /\ Len(file) >= Len(data[depth])
      /\ Len(file) >= pos[depth] + Len(pending)
      /\ ToSet(file) \subseteq ToSet(data[depth]) \cup ToSet(pending)
      /\ pos[depth] = Len(data[depth]) => file = data[depth] \o pending
      BY <1>1, <1>2, <1>3, PutProperties
<1>5. pos[depth] = Len(data[depth]) =>
        /\ Len(file) = pos[depth] + Len(pending)
        /\ ToSet(file) = ToSet(data[depth]) \cup ToSet(pending)
  <2> SUFFICES ASSUME pos[depth] = Len(data[depth])
               PROVE  /\ Len(file) = pos[depth] + Len(pending)
                      /\ ToSet(file) = ToSet(data[depth]) \cup ToSet(pending)
      OBVIOUS
  <2>1. file = data[depth] \o pending
        BY <1>4
  <2>2. Len(file) = Len(data[depth]) + Len(pending)
        BY <1>1, <1>2, <2>1, ConcatProperties
  <2>   QED  BY <1>1, <1>2, <2>1, <2>2, RangeOfConcat
<1>6. FlushedData = [data EXCEPT ![depth] = file]
      BY <1>1, <1>3 DEF FlushedData
<1>7. FlushedPos = [pos EXCEPT ![depth] = pos[depth] + Len(pending)]
      BY <1>1 DEF FlushedPos
<1>8. /\ FlushedData \in [0 .. MaxDepth -> Seq(Units)]
      /\ FlushedPos \in [0 .. MaxDepth -> Nat]
      /\ FlushedData[depth] = file /\ FlushedPos[depth] = pos[depth] + Len(pending)
      /\ \A d \in 0 .. MaxDepth : d # depth => FlushedData[d] = data[d] /\ FlushedPos[d] = pos[d]
      BY <1>1, <1>2, <1>4, <1>6, <1>7
<1>9. ASSUME NEW d \in 0 .. MaxDepth
      PROVE  /\ FlushedPos[d] <= Len(FlushedData[d])
             /\ d \notin late => FlushedPos[d] = Len(FlushedData[d])
             /\ \A u \in ToSet(FlushedData[d]) : u \in DOMAIN home /\ home[u] = d
             /\ d <= depth /\ d \notin late => CapturedAt(d) \subseteq ToSet(FlushedData[d])
             /\ d \in Levels /\ known[d] # None =>
                  /\ known[d] <= Len(FlushedData[d])
                  /\ d \notin late => known[d] = Len(FlushedData[d])
  <2>1. CASE d # depth
    <3>1. FlushedData[d] = data[d] /\ FlushedPos[d] = pos[d]
          BY <1>8, <2>1
    <3>2. d <= depth => d \in 0 .. depth
          BY <1>1
    <3>3. d <= depth /\ d \notin late => CapturedAt(d) \subseteq ToSet(data[d])
          BY <2>1, <3>2 DEF CaptureInv, AllKept
    <3>   QED  BY <1>1, <3>1, <3>3 DEF CaptureInv, AtHome, AtTheEnd
  <2>2. CASE d = depth
    <3>1. FlushedData[d] = file /\ FlushedPos[d] = pos[d] + Len(pending)
          BY <1>8, <2>2
    <3>2. d \notin late => pos[d] = Len(data[d])
          BY DEF CaptureInv, AtTheEnd
    <3>3. FlushedPos[d] <= Len(FlushedData[d])
          BY <1>4, <2>2, <3>1
    <3>4. d \notin late => FlushedPos[d] = Len(FlushedData[d])
          BY <1>5, <2>2, <3>1, <3>2
    <3>5. \A u \in ToSet(FlushedData[d]) : u \in DOMAIN home /\ home[u] = d
          BY <1>4, <2>2, <3>1 DEF CaptureInv, AtHome
    <3>6. d \notin late => CapturedAt(d) \subseteq ToSet(FlushedData[d])
      <4>1. depth \in 0 .. depth
            BY <1>1
      <4>2. d \notin late => \A u \in CapturedAt(d) : u \in ToSet(data[d]) \/ u \in ToSet(pending)
            BY <2>2, <4>1 DEF CaptureInv, AllKept
      <4>   QED  BY <1>5, <2>2, <3>1, <3>2, <4>2
    <3>7. ASSUME d \in Levels, known[d] # None
          PROVE  /\ known[d] <= Len(FlushedData[d])
                 /\ d \notin late => known[d] = Len(FlushedData[d])
      <4>1. known[d] \in Nat /\ known[d] <= Len(data[d])
            BY <1>1, <3>7 DEF CaptureInv, AtTheEnd
      <4>2. Len(file) \in Nat /\ known[d] <= Len(file)
            BY <1>2, <1>4, <2>2, <4>1
      <4>3. d \notin late => known[d] = Len(data[d]) /\ pending = <<>>
            BY <2>2, <3>7 DEF CaptureInv, AtTheEnd
      <4>4. pending = <<>> => Len(pending) = 0
            OBVIOUS
      <4>   QED  BY <1>2, <1>5, <2>2, <3>1, <3>2, <4>1, <4>2, <4>3, <4>4
    <3>   QED  BY <3>3, <3>4, <3>5, <3>6, <3>7
  <2>   QED  BY <2>1, <2>2
<1>10. IsInjective(FlushedData[0])
  <2>1. IsInjective(data[0]) /\ data[0] \in Seq(Units) /\ 0 \in 0 .. MaxDepth
        BY <1>1, InjectiveConcat DEF CaptureInv
  <2>2. CASE depth # 0
        BY <1>8, <2>1, <2>2
  <2>3. CASE depth = 0
    <3>1. 0 \notin late
          BY DEF CaptureInv, CaptureTypeOK, Levels
    <3>2. file = data[0] \o pending
          BY <1>4, <2>1, <2>3, <3>1 DEF CaptureInv, AtTheEnd
    <3>   QED  BY <1>8, <2>3, <3>2 DEF CaptureInv
  <2>   QED  BY <2>2, <2>3
<1>   QED  BY <1>8, <1>9, <1>10

-----------------------------------------------------------------------------
\* A unit of output is produced: its number is new everywhere.
LEMMA ProduceEffect ==
  ASSUME CaptureInv, Produce, NEW u, u = Len(home) + 1
  PROVE  /\ u \in Units /\ home' \in Seq(0 .. MaxDepth \cup {Gone}) /\ Len(home') <= MaxUnits
         /\ DOMAIN home' = DOMAIN home \cup {u} /\ u \notin DOMAIN home
         /\ home'[u] = depth /\ \A v \in DOMAIN home : home'[v] = home[v]
         /\ late' \subseteq Levels /\ late \subseteq late' /\ late' \subseteq late \cup {depth}
         /\ depth \notin late' => depth = 0 \/ known[depth] = None
         /\ \A c \in late' : known[c] # None
         /\ \A c \in late' : c \in late \/ c = depth
<1>1. /\ home \in Seq(0 .. MaxDepth \cup {Gone}) /\ Len(home) \in Nat
      /\ depth \in 0 .. MaxDepth /\ late \subseteq Levels
      BY DEF CaptureInv, CaptureTypeOK
<1>2. /\ Len(home) < MaxUnits /\ home' = Append(home, depth)
      /\ late' = late \cup {c \in Levels : c = depth /\ known[c] # None}
      BY DEF Produce
<1>3. /\ home' \in Seq(0 .. MaxDepth \cup {Gone}) /\ Len(home') = Len(home) + 1
      /\ \A v \in 1 .. Len(home) : home'[v] = home[v]
      /\ home'[Len(home) + 1] = depth
      BY <1>1, <1>2, AppendProperties
<1>4. DOMAIN home = 1 .. Len(home) /\ DOMAIN home' = 1 .. Len(home) + 1
      BY <1>1, <1>3
<1>5. u \in Units /\ Len(home') <= MaxUnits /\ u \notin DOMAIN home
      /\ DOMAIN home' = DOMAIN home \cup {u}
      BY <1>1, <1>2, <1>3, <1>4 DEF Units
<1>6. depth = 0 \/ depth \in Levels
      BY <1>1 DEF Levels
<1>7. \A c \in late : known[c] # None
      BY DEF CaptureInv, AtTheEnd
<1>   QED  BY <1>1, <1>2, <1>3, <1>4, <1>5, <1>6, <1>7

LEMMA OneUnit ==
  ASSUME NEW S, NEW u \in S
  PROVE  /\ <<u>> \in Seq(S) /\ Len(<<u>>) = 1 /\ ToSet(<<u>>) = {u} /\ IsInjective(<<u>>)
BY DEF ToSet, IsInjective

\* The captured units are those of before, and the new one at this depth.
LEMMA CapturedGrows ==
  ASSUME CaptureInv, Produce, NEW u, u = Len(home) + 1, NEW d \in 0 .. MaxDepth
  PROVE  \A v \in CapturedAt(d)' : v \in CapturedAt(d) \/ (d = depth /\ v = u)
<1>1. /\ DOMAIN home' = DOMAIN home \cup {u} /\ home'[u] = depth
      /\ \A v \in DOMAIN home : home'[v] = home[v]
      BY ProduceEffect
<1>   QED  BY <1>1 DEF CapturedAt

LEMMA WriteKeeps ==
  ASSUME CaptureInv, Write
  PROVE  CaptureInv'
<1>1. PICK u : u = Len(home) + 1
      OBVIOUS
<1>2. /\ Produce /\ UNCHANGED <<cvars, qvars, pending>>
      /\ data' = [data EXCEPT ![target] = Put(data[target], pos[target], <<u>>)]
      /\ pos' = [pos EXCEPT ![target] = pos[target] + 1]
      BY <1>1 DEF Write
<1>3. /\ u \in Units /\ home' \in Seq(0 .. MaxDepth \cup {Gone}) /\ Len(home') <= MaxUnits
      /\ DOMAIN home' = DOMAIN home \cup {u} /\ u \notin DOMAIN home
      /\ home'[u] = depth /\ \A v \in DOMAIN home : home'[v] = home[v]
      /\ late' \subseteq Levels /\ late \subseteq late' /\ late' \subseteq late \cup {depth}
      /\ depth \notin late' => depth = 0 \/ known[depth] = None
      /\ \A c \in late' : known[c] # None
      BY <1>1, <1>2, ProduceEffect
<1>4. /\ data \in [0 .. MaxDepth -> Seq(Units)] /\ pos \in [0 .. MaxDepth -> Nat]
      /\ \A d \in 0 .. MaxDepth : pos[d] <= Len(data[d])
      /\ depth \in 0 .. MaxDepth /\ target = depth
      BY DEF CaptureInv, CaptureTypeOK, Nested
<1>5. data[depth] \in Seq(Units) /\ pos[depth] \in 0 .. Len(data[depth])
      /\ Len(data[depth]) \in Nat
      BY <1>4
<1>6. PICK file : file = Put(data[depth], pos[depth], <<u>>)
      OBVIOUS
<1>7. <<u>> \in Seq(Units) /\ Len(<<u>>) = 1 /\ ToSet(<<u>>) = {u} /\ IsInjective(<<u>>)
      BY <1>3, OneUnit
<1>8. /\ file \in Seq(Units) /\ Len(file) >= Len(data[depth]) /\ Len(file) >= pos[depth] + 1
      /\ ToSet(file) \subseteq ToSet(data[depth]) \cup {u}
      /\ pos[depth] = Len(data[depth]) => file = data[depth] \o <<u>>
  <2>1. /\ file \in Seq(Units) /\ Len(file) >= Len(data[depth])
        /\ Len(file) >= pos[depth] + Len(<<u>>)
        /\ ToSet(file) \subseteq ToSet(data[depth]) \cup ToSet(<<u>>)
        /\ pos[depth] = Len(data[depth]) => file = data[depth] \o <<u>>
    <3>1. PICK old \in Seq(Units) : old = data[depth]
          BY <1>5
    <3>2. PICK one \in Seq(Units) : one = <<u>>
          BY <1>7
    <3>3. PICK at \in 0 .. Len(old) : at = pos[depth]
          BY <1>5, <3>1
    <3>4. /\ Put(old, at, one) \in Seq(Units) /\ Len(Put(old, at, one)) >= Len(old)
          /\ Len(Put(old, at, one)) >= at + Len(one)
          /\ ToSet(Put(old, at, one)) \subseteq ToSet(old) \cup ToSet(one)
          /\ at = Len(old) => Put(old, at, one) = old \o one
          BY PutProperties, Zenon
    <3>   QED  BY <1>6, <3>1, <3>2, <3>3, <3>4
  <2>   QED  BY <1>7, <2>1
<1>9. depth \notin late => pos[depth] = Len(data[depth])
      BY <1>4 DEF CaptureInv, AtTheEnd
<1>10. depth \notin late => Len(file) = pos[depth] + 1 /\ ToSet(file) = ToSet(data[depth]) \cup {u}
  <2> SUFFICES ASSUME depth \notin late
               PROVE  Len(file) = pos[depth] + 1 /\ ToSet(file) = ToSet(data[depth]) \cup {u}
      OBVIOUS
  <2>1. file = data[depth] \o <<u>>
        BY <1>8, <1>9
  <2>2. Len(file) = Len(data[depth]) + Len(<<u>>)
        BY <1>5, <1>7, <2>1, ConcatProperties
  <2>3. ToSet(file) = ToSet(data[depth]) \cup ToSet(<<u>>)
    <3>1. PICK before \in Seq(Units), one \in Seq(Units) : before = data[depth] /\ one = <<u>>
          BY <1>5, <1>7
    <3>2. ToSet(before \o one) = ToSet(before) \cup ToSet(one)
          BY RangeOfConcat
    <3>   QED  BY <2>1, <3>1, <3>2
  <2>   QED  BY <1>7, <1>9, <2>2, <2>3
<1>11. /\ data' \in [0 .. MaxDepth -> Seq(Units)] /\ pos' \in [0 .. MaxDepth -> Nat]
       /\ data'[depth] = file /\ pos'[depth] = pos[depth] + 1
       /\ \A d \in 0 .. MaxDepth : d # depth => data'[d] = data[d] /\ pos'[d] = pos[d]
       BY <1>2, <1>4, <1>5, <1>6, <1>8
<1>12. CaptureTypeOK'
       BY <1>2, <1>3, <1>4, <1>8, <1>11 DEF CaptureInv, CaptureTypeOK, cvars, qvars
<1>13. Nested'
       BY <1>2, <1>3 DEF CaptureInv, Nested, cvars
<1>14. AtHome'
  <2>1. \A v \in DOMAIN home' : home'[v] <= depth
        BY <1>3, <1>4 DEF CaptureInv, AtHome
  <2>2. \A d \in 0 .. MaxDepth : \A v \in ToSet(data'[d]) : v \in DOMAIN home' /\ home'[v] = d
    <3>1. \A d \in 0 .. MaxDepth : \A v \in ToSet(data[d]) : v \in DOMAIN home /\ home[v] = d
          BY DEF CaptureInv, AtHome
    <3>2. \A d \in 0 .. MaxDepth : \A v \in ToSet(data[d]) : v \in DOMAIN home' /\ home'[v] = d
          BY <1>3, <3>1
    <3>3. ASSUME NEW d \in 0 .. MaxDepth, NEW v \in ToSet(data'[d])
          PROVE  v \in DOMAIN home' /\ home'[v] = d
      <4>1. CASE d # depth
            BY <1>11, <3>2, <3>3, <4>1
      <4>2. CASE d = depth
            BY <1>3, <1>8, <1>11, <3>2, <3>3, <4>2
      <4>   QED  BY <4>1, <4>2
    <3>   QED  BY <3>3
  <2>3. \A v \in ToSet(pending) : v \in DOMAIN home' /\ home'[v] = depth
        BY <1>3 DEF CaptureInv, AtHome
  <2>   QED  BY <1>2, <1>3, <2>1, <2>2, <2>3 DEF AtHome, cvars
<1>15. AtTheEnd'
  <2>1. \A d \in 0 .. MaxDepth : d \notin late' => pos'[d] = Len(data'[d])
        BY <1>3, <1>9, <1>10, <1>11 DEF CaptureInv, AtTheEnd
  <2>2. \A c \in Levels : c \in 0 .. MaxDepth
        BY DEF Levels
  <2>3. ASSUME NEW c \in Levels, known[c] # None PROVE known[c] <= Len(data'[c])
    <3>1. known[c] \in Nat /\ known[c] <= Len(data[c])
          BY <2>3 DEF CaptureInv, AtTheEnd, CaptureTypeOK
    <3>2. CASE c = depth
          BY <1>5, <1>8, <1>11, <3>1, <3>2
    <3>3. CASE c # depth
          BY <1>11, <2>2, <3>1, <3>3
    <3>   QED  BY <3>2, <3>3
  <2>4. ASSUME NEW c \in Levels, known[c] # None, c \notin late'
        PROVE  known[c] = Len(data'[c]) /\ (c = depth => pending = <<>>)
    <3>1. c # depth /\ c \notin late
          BY <1>3, <2>4 DEF Levels
    <3>   QED  BY <1>11, <2>2, <2>4, <3>1 DEF CaptureInv, AtTheEnd
  <2>   QED  BY <1>2, <1>3, <2>1, <2>3, <2>4 DEF AtTheEnd, cvars
<1>16. AllKept'
  <2>1. ASSUME NEW d \in 0 .. depth, d \notin late', NEW v \in CapturedAt(d)'
        PROVE  v \in ToSet(data'[d]) \/ (d = depth /\ v \in ToSet(pending))
    <3>1. d \in 0 .. MaxDepth /\ d \notin late
          BY <1>3, <1>4, <2>1
    <3>2. v \in CapturedAt(d) \/ (d = depth /\ v = u)
          BY <1>1, <1>2, <2>1, <3>1, CapturedGrows
    <3>3. v \in CapturedAt(d) => v \in ToSet(data[d]) \/ (d = depth /\ v \in ToSet(pending))
          BY <3>1 DEF CaptureInv, AllKept
    <3>   QED  BY <1>10, <1>11, <3>1, <3>2, <3>3
  <2>   QED  BY <1>2, <2>1 DEF AllKept, cvars
<1>17. IsInjective(data'[0] \o pending)
  <2>1. /\ data[0] \in Seq(Units) /\ pending \in Seq(Units) /\ 0 \in 0 .. MaxDepth
        /\ IsInjective(data[0]) /\ IsInjective(pending) /\ ToSet(data[0]) \cap ToSet(pending) = {}
        BY <1>4, InjectiveConcat DEF CaptureInv, CaptureTypeOK
  <2>2. CASE depth # 0
        BY <1>11, <2>1, <2>2 DEF CaptureInv
  <2>3. CASE depth = 0
    <3>1. 0 \notin late
          BY DEF CaptureInv, CaptureTypeOK, Levels
    <3>2. data'[0] = data[0] \o <<u>> /\ ToSet(data'[0]) = ToSet(data[0]) \cup {u}
          BY <1>8, <1>9, <1>10, <1>11, <2>3, <3>1
    <3>3. u \notin ToSet(data[0]) /\ u \notin ToSet(pending)
          BY <1>3, <2>1 DEF CaptureInv, AtHome
    <3>4. IsInjective(data'[0])
      <4>1. ToSet(data[0]) \cap ToSet(<<u>>) = {}
            BY <1>7, <3>3
      <4>2. IsInjective(data[0] \o <<u>>)
            BY <1>7, <2>1, <4>1, InjectiveConcat
      <4>   QED  BY <3>2, <4>2
    <3>5. data'[0] \in Seq(Units)
          BY <1>11, <2>1
    <3>6. ToSet(data'[0]) \cap ToSet(pending) = {}
          BY <2>1, <3>2, <3>3
    <3>7. PICK file0 : file0 = data'[0]
          OBVIOUS
    <3>8. IsInjective(file0 \o pending)
          BY <2>1, <3>4, <3>5, <3>6, <3>7, InjectiveConcat
    <3>   QED  BY <3>7, <3>8
  <2>   QED  BY <2>2, <2>3
<1>18. ContentComplete'
       BY <1>2 DEF CaptureInv, ContentComplete, qvars
<1>   QED  BY <1>2, <1>12, <1>13, <1>14, <1>15, <1>16, <1>17, <1>18 DEF CaptureInv

LEMMA PrintfKeeps ==
  ASSUME CaptureInv, Printf
  PROVE  CaptureInv'
<1>1. PICK u : u = Len(home) + 1
      OBVIOUS
<1>2. /\ Produce /\ UNCHANGED <<cvars, qvars, data, pos>>
      /\ pending' = Append(pending, u)
      BY <1>1 DEF Printf
<1>3. /\ u \in Units /\ home' \in Seq(0 .. MaxDepth \cup {Gone}) /\ Len(home') <= MaxUnits
      /\ DOMAIN home' = DOMAIN home \cup {u} /\ u \notin DOMAIN home
      /\ home'[u] = depth /\ \A v \in DOMAIN home : home'[v] = home[v]
      /\ late' \subseteq Levels /\ late \subseteq late' /\ late' \subseteq late \cup {depth}
      /\ depth \notin late' => depth = 0 \/ known[depth] = None
      /\ \A c \in late' : known[c] # None
      BY <1>1, <1>2, ProduceEffect
<1>4. /\ data \in [0 .. MaxDepth -> Seq(Units)] /\ pending \in Seq(Units)
      /\ depth \in 0 .. MaxDepth /\ data[0] \in Seq(Units)
      BY DEF CaptureInv, CaptureTypeOK
<1>5. <<u>> \in Seq(Units) /\ ToSet(<<u>>) = {u} /\ IsInjective(<<u>>)
      BY <1>3, OneUnit
<1>6. /\ pending' \in Seq(Units) /\ pending' = pending \o <<u>>
      /\ ToSet(pending') = ToSet(pending) \cup {u}
  <2>1. Append(pending, u) = pending \o <<u>> /\ Append(pending, u) \in Seq(Units)
        BY <1>3, <1>4, AppendIsConcat, AppendProperties
  <2>2. PICK before \in Seq(Units), one \in Seq(Units) : before = pending /\ one = <<u>>
        BY <1>4, <1>5
  <2>3. ToSet(before \o one) = ToSet(before) \cup ToSet(one)
        BY RangeOfConcat
  <2>   QED  BY <1>2, <1>5, <2>1, <2>2, <2>3
<1>7. CaptureTypeOK'
      BY <1>2, <1>3, <1>6 DEF CaptureInv, CaptureTypeOK, cvars, qvars
<1>8. Nested'
      BY <1>2, <1>3 DEF CaptureInv, Nested, cvars
<1>9. AtHome'
  <2>1. \A v \in DOMAIN home' : home'[v] <= depth
        BY <1>3, <1>4 DEF CaptureInv, AtHome
  <2>2. \A d \in 0 .. MaxDepth : \A v \in ToSet(data[d]) : v \in DOMAIN home' /\ home'[v] = d
        BY <1>3 DEF CaptureInv, AtHome
  <2>3. \A v \in ToSet(pending') : v \in DOMAIN home' /\ home'[v] = depth
        BY <1>3, <1>6 DEF CaptureInv, AtHome
  <2>   QED  BY <1>2, <1>3, <2>1, <2>2, <2>3 DEF AtHome, cvars
<1>10. AtTheEnd'
  <2>1. ASSUME NEW c \in Levels, known[c] # None, c \notin late'
        PROVE  known[c] = Len(data[c]) /\ (c = depth => pending' = <<>>)
    <3>1. c # depth /\ c \notin late
          BY <1>3, <2>1 DEF Levels
    <3>   QED  BY <2>1, <3>1 DEF CaptureInv, AtTheEnd
  <2>   QED  BY <1>2, <1>3, <2>1 DEF AtTheEnd, cvars, CaptureInv
<1>11. AllKept'
  <2>1. ASSUME NEW d \in 0 .. depth, d \notin late', NEW v \in CapturedAt(d)'
        PROVE  v \in ToSet(data[d]) \/ (d = depth /\ v \in ToSet(pending'))
    <3>1. d \in 0 .. MaxDepth /\ d \notin late
          BY <1>3, <1>4, <2>1
    <3>2. v \in CapturedAt(d) \/ (d = depth /\ v = u)
          BY <1>1, <1>2, <2>1, <3>1, CapturedGrows
    <3>3. v \in CapturedAt(d) => v \in ToSet(data[d]) \/ (d = depth /\ v \in ToSet(pending))
          BY <3>1 DEF CaptureInv, AllKept
    <3>   QED  BY <1>6, <3>2, <3>3
  <2>   QED  BY <1>2, <2>1 DEF AllKept, cvars
<1>12. IsInjective(data[0] \o pending')
  <2>1. /\ IsInjective(data[0]) /\ IsInjective(pending) /\ ToSet(data[0]) \cap ToSet(pending) = {}
        BY <1>4, InjectiveConcat DEF CaptureInv
  <2>2. u \notin ToSet(data[0]) /\ u \notin ToSet(pending)
        BY <1>3, <1>4 DEF CaptureInv, AtHome
  <2>3. IsInjective(pending \o <<u>>)
    <3>1. ToSet(pending) \cap ToSet(<<u>>) = {}
          BY <1>5, <2>2
    <3>   QED  BY <1>4, <1>5, <2>1, <3>1, InjectiveConcat
  <2>4. PICK after : after = pending'
        OBVIOUS
  <2>5. after \in Seq(Units) /\ IsInjective(after) /\ ToSet(data[0]) \cap ToSet(after) = {}
        BY <1>6, <2>1, <2>2, <2>3, <2>4
  <2>6. IsInjective(data[0] \o after)
        BY <1>4, <2>1, <2>5, InjectiveConcat
  <2>   QED  BY <2>4, <2>6
<1>13. ContentComplete'
       BY <1>2 DEF CaptureInv, ContentComplete, qvars
<1>   QED  BY <1>2, <1>7, <1>8, <1>9, <1>10, <1>11, <1>12, <1>13 DEF CaptureInv

\* A flush that leaves the captures as they are.
LEMMA FlushKeeps ==
  ASSUME CaptureInv, Flush, UNCHANGED <<cvars, qvars, home, late>>
  PROVE  CaptureInv'
<1>1. data' = FlushedData /\ pos' = FlushedPos /\ pending' = <<>>
      BY DEF Flush
<1>2. /\ data' \in [0 .. MaxDepth -> Seq(Units)] /\ pos' \in [0 .. MaxDepth -> Nat]
      /\ \A d \in 0 .. MaxDepth :
           /\ pos'[d] <= Len(data'[d])
           /\ d \notin late => pos'[d] = Len(data'[d])
           /\ \A u \in ToSet(data'[d]) : u \in DOMAIN home /\ home[u] = d
           /\ d <= depth /\ d \notin late => CapturedAt(d) \subseteq ToSet(data'[d])
           /\ d \in Levels /\ known[d] # None =>
                /\ known[d] <= Len(data'[d])
                /\ d \notin late => known[d] = Len(data'[d])
      /\ IsInjective(data'[0])
      BY <1>1, FlushEffect
<1>3. ToSet(pending') = {} /\ pending' \in Seq(Units) /\ Levels \subseteq 0 .. MaxDepth
      /\ 0 \in 0 .. MaxDepth /\ depth \in 0 .. MaxDepth
      BY <1>1 DEF ToSet, Levels, CaptureInv, CaptureTypeOK
<1>4. CaptureTypeOK'
      BY <1>2, <1>3 DEF CaptureInv, CaptureTypeOK, cvars, qvars
<1>5. Nested' /\ ContentComplete'
      BY DEF CaptureInv, Nested, ContentComplete, cvars, qvars
<1>6. AtHome'
      BY <1>2, <1>3 DEF CaptureInv, AtHome, cvars
<1>7. AtTheEnd'
      BY <1>1, <1>2, <1>3 DEF CaptureInv, AtTheEnd, cvars
<1>8. AllKept'
  <2>1. \A d \in 0 .. depth : d \in 0 .. MaxDepth /\ d <= depth
        BY <1>3
  <2>2. \A d : CapturedAt(d)' = CapturedAt(d)
        BY DEF CapturedAt
  <2>   QED  BY <1>2, <2>1, <2>2 DEF AllKept, cvars
<1>9. IsInjective(data'[0] \o pending')
  <2>1. data'[0] \o pending' = data'[0]
        BY <1>1, <1>2, <1>3, ConcatEmptySeq
  <2>   QED  BY <1>2, <2>1
<1>   QED  BY <1>4, <1>5, <1>6, <1>7, <1>8, <1>9 DEF CaptureInv

\* A capture is made: after the flush nothing of before is on its way.
LEMMA ConstructKeeps ==
  ASSUME CaptureInv, Construct
  PROVE  CaptureInv'
<1>1. /\ depth < MaxDepth /\ depth' = depth + 1 /\ target' = depth + 1 /\ held' = held + 2
      /\ saved' = [saved EXCEPT ![depth + 1] = target]
      /\ data' = FlushedData /\ pos' = FlushedPos /\ pending' = <<>>
      /\ UNCHANGED <<stream, known, home, late, qvars>>
      BY DEF Construct, Flush
<1>2. /\ data' \in [0 .. MaxDepth -> Seq(Units)] /\ pos' \in [0 .. MaxDepth -> Nat]
      /\ \A d \in 0 .. MaxDepth :
           /\ pos'[d] <= Len(data'[d])
           /\ d \notin late => pos'[d] = Len(data'[d])
           /\ \A u \in ToSet(data'[d]) : u \in DOMAIN home /\ home[u] = d
           /\ d <= depth /\ d \notin late => CapturedAt(d) \subseteq ToSet(data'[d])
           /\ d \in Levels /\ known[d] # None =>
                /\ known[d] <= Len(data'[d])
                /\ d \notin late => known[d] = Len(data'[d])
      /\ IsInjective(data'[0])
      BY <1>1, FlushEffect
<1>3. ToSet(pending') = {} /\ pending' \in Seq(Units) /\ Levels \subseteq 0 .. MaxDepth
      /\ 0 \in 0 .. MaxDepth /\ depth \in 0 .. MaxDepth
      BY <1>1 DEF ToSet, Levels, CaptureInv, CaptureTypeOK
<1>4. /\ target = depth /\ held = 2 * depth /\ saved \in [Levels -> 0 .. MaxDepth]
      /\ \A c \in 1 .. depth : saved[c] = c - 1
      /\ \A c \in Levels : c > depth => known[c] = None /\ c \notin late
      /\ depth + 1 \in Levels /\ depth + 1 \in 0 .. MaxDepth
  <2>1. depth + 1 \in Levels /\ depth + 1 \in 0 .. MaxDepth
        BY <1>1, <1>3 DEF Levels
  <2>   QED  BY <2>1 DEF CaptureInv, Nested, CaptureTypeOK
<1>5. CaptureTypeOK'
  <2>1. saved' \in [Levels -> 0 .. MaxDepth] /\ depth' \in 0 .. MaxDepth
        /\ target' \in 0 .. MaxDepth
        BY <1>1, <1>3, <1>4
  <2>2. held' \in 0 .. 2 * MaxDepth
        BY <1>1, <1>3, <1>4
  <2>   QED  BY <1>1, <1>2, <1>3, <2>1, <2>2 DEF CaptureInv, CaptureTypeOK, qvars
<1>6. Nested'
  <2>1. \A c \in 1 .. depth + 1 : saved'[c] = c - 1
        BY <1>1, <1>3, <1>4 DEF Levels
  <2>2. \A c \in Levels : c > depth + 1 => c > depth
        BY <1>3 DEF Levels
  <2>3. held' = 2 * (depth + 1)
        BY <1>1, <1>3, <1>4
  <2>   QED  BY <1>1, <1>4, <2>1, <2>2, <2>3 DEF Nested
<1>7. AtHome'
  <2>1. \A u \in DOMAIN home : home[u] <= depth + 1
    <3>1. \A u \in DOMAIN home : home[u] \in 0 .. MaxDepth \cup {Gone} /\ home[u] <= depth
          BY DEF CaptureInv, CaptureTypeOK, AtHome
    <3>   QED  BY <1>3, <3>1 DEF Gone
  <2>   QED  BY <1>1, <1>2, <1>3, <2>1 DEF CaptureInv, AtHome
<1>8. AtTheEnd'
      BY <1>1, <1>2, <1>3 DEF CaptureInv, AtTheEnd
<1>9. AllKept'
  <2>1. CapturedAt(depth + 1) = {}
    <3>1. \A u \in DOMAIN home : home[u] \in 0 .. MaxDepth \cup {Gone} /\ home[u] <= depth
          BY DEF CaptureInv, CaptureTypeOK, AtHome
    <3>   QED  BY <1>3, <3>1 DEF CapturedAt, Gone
  <2>2. \A d : CapturedAt(d)' = CapturedAt(d)
        BY <1>1 DEF CapturedAt
  <2>3. \A d \in 0 .. depth + 1 : d \in 0 .. MaxDepth /\ (d <= depth \/ d = depth + 1)
        BY <1>1, <1>3
  <2>   QED  BY <1>1, <1>2, <2>1, <2>2, <2>3 DEF AllKept
<1>10. IsInjective(data'[0] \o pending')
  <2>1. data'[0] \o pending' = data'[0]
        BY <1>1, <1>2, <1>3, ConcatEmptySeq
  <2>   QED  BY <1>2, <2>1
<1>11. ContentComplete'
       BY <1>1 DEF CaptureInv, ContentComplete, qvars
<1>   QED  BY <1>5, <1>6, <1>7, <1>8, <1>9, <1>10, <1>11 DEF CaptureInv

\* content(): what ftell() says, freshly or from before, is within the file,
\* and all of it unless the capture is late.
LEMMA ContentKeeps ==
  ASSUME CaptureInv, NEW c \in Levels, Content(c)
  PROVE  CaptureInv'
<1>1. PICK size : size = IF known[c] = None THEN FlushedPos[c] ELSE known[c]
      OBVIOUS
<1>2. PICK file : file = FlushedData[c]
      OBVIOUS
<1>3. PICK at \in size .. Len(file) : pos' = [FlushedPos EXCEPT ![c] = at]
      BY <1>1, <1>2 DEF Content
<1>4. /\ c <= depth /\ data' = FlushedData /\ pending' = <<>>
      /\ known' = [known EXCEPT ![c] = size]
      /\ shown' = SubSeq(file, 1, size)
      /\ due' = CapturedAt(c) /\ stale' = (c \in late)
      /\ UNCHANGED <<stream, depth, target, saved, held, home, late>>
      BY <1>1, <1>2 DEF Content
<1>5. /\ FlushedData \in [0 .. MaxDepth -> Seq(Units)] /\ FlushedPos \in [0 .. MaxDepth -> Nat]
      /\ \A d \in 0 .. MaxDepth :
           /\ FlushedPos[d] <= Len(FlushedData[d])
           /\ d \notin late => FlushedPos[d] = Len(FlushedData[d])
           /\ \A u \in ToSet(FlushedData[d]) : u \in DOMAIN home /\ home[u] = d
           /\ d <= depth /\ d \notin late => CapturedAt(d) \subseteq ToSet(FlushedData[d])
           /\ d \in Levels /\ known[d] # None =>
                /\ known[d] <= Len(FlushedData[d])
                /\ d \notin late => known[d] = Len(FlushedData[d])
      /\ IsInjective(FlushedData[0])
      BY FlushEffect
<1>6. /\ ToSet(pending') = {} /\ pending' \in Seq(Units) /\ Levels \subseteq 0 .. MaxDepth
      /\ 0 \in 0 .. MaxDepth /\ depth \in 0 .. MaxDepth /\ c \in 0 .. MaxDepth
      /\ known \in [Levels -> Nat \cup {None}]
      BY <1>4 DEF ToSet, Levels, CaptureInv, CaptureTypeOK
<1>7. file \in Seq(Units) /\ Len(file) \in Nat
      BY <1>2, <1>5, <1>6
<1>8. size \in Nat /\ size <= Len(file)
      BY <1>1, <1>2, <1>5, <1>6
<1>9. c \notin late => size = Len(file)
      BY <1>1, <1>2, <1>5, <1>6
<1>10. at \in Nat /\ at <= Len(file) /\ (c \notin late => at = Len(file))
      BY <1>3, <1>7, <1>8, <1>9
<1>11. /\ data' \in [0 .. MaxDepth -> Seq(Units)] /\ pos' \in [0 .. MaxDepth -> Nat]
       /\ data'[c] = file /\ pos'[c] = at
       /\ \A d \in 0 .. MaxDepth : data'[d] = FlushedData[d] /\ (d # c => pos'[d] = FlushedPos[d])
       BY <1>2, <1>3, <1>4, <1>5, <1>6, <1>10
<1>12. known' \in [Levels -> Nat \cup {None}] /\ known'[c] = size
       /\ \A e \in Levels : e # c => known'[e] = known[e]
       BY <1>4, <1>6, <1>8
<1>13. size # None
       BY <1>8 DEF None
<1>14. shown' \in Seq(Units) /\ (c \notin late => shown' = file)
  <2>1. \A i \in 1 .. size : file[i] \in Units
        BY <1>7, <1>8, ElementOfSeq
  <2>2. SubSeq(file, 1, size) \in Seq(Units)
        BY <1>8, <2>1, SubSeqProperties
  <2>3. SubSeq(file, 1, Len(file)) = file
        BY <1>7, SubSeqFull
  <2>   QED  BY <1>4, <1>9, <2>2, <2>3
<1>15. CaptureTypeOK'
  <2>1. due' \subseteq Units
    <3>1. home \in Seq(0 .. MaxDepth \cup {Gone}) /\ Len(home) <= MaxUnits
          BY DEF CaptureInv, CaptureTypeOK, AtHome
    <3>2. DOMAIN home \subseteq Units
          BY <3>1 DEF Units
    <3>   QED  BY <1>4, <3>2 DEF CapturedAt
  <2>2. \A d \in 0 .. MaxDepth : pos'[d] <= Len(data'[d])
        BY <1>5, <1>10, <1>11
  <2>3. stale' \in BOOLEAN
        BY <1>4
  <2>4. CaptureTypeOK
        BY DEF CaptureInv
  <2>5. /\ stream' \in BOOLEAN /\ depth' \in 0 .. MaxDepth /\ target' \in 0 .. MaxDepth
        /\ saved' \in [Levels -> 0 .. MaxDepth] /\ held' \in 0 .. 2 * MaxDepth
        /\ home' \in Seq(0 .. MaxDepth \cup {Gone}) /\ late' \subseteq Levels
        BY <1>4, <2>4 DEF CaptureTypeOK
  <2>   QED  BY <1>6, <1>11, <1>12, <1>14, <2>1, <2>2, <2>3, <2>5 DEF CaptureTypeOK
<1>16. Nested'
  <2>1. \A e \in Levels : e > depth => known'[e] = None
        BY <1>4, <1>6, <1>12 DEF CaptureInv, Nested
  <2>   QED  BY <1>4, <2>1 DEF CaptureInv, Nested
<1>17. AtHome'
       BY <1>4, <1>5, <1>6, <1>11 DEF CaptureInv, AtHome
<1>18. AtTheEnd'
  <2>1. \A d \in 0 .. MaxDepth : d \notin late => pos'[d] = Len(data'[d])
        BY <1>5, <1>10, <1>11
  <2>2. ASSUME NEW e \in Levels, known'[e] # None
        PROVE  known'[e] <= Len(data'[e]) /\ (e \notin late => known'[e] = Len(data'[e]))
    <3>1. CASE e = c
          BY <1>8, <1>9, <1>11, <1>12, <3>1
    <3>2. CASE e # c
          BY <1>5, <1>6, <1>11, <1>12, <2>2, <3>2
    <3>   QED  BY <3>1, <3>2
  <2>3. \A e \in late : e \in Levels /\ known[e] # None
        BY DEF CaptureInv, CaptureTypeOK, AtTheEnd
  <2>4. \A e \in late : known'[e] # None
        BY <1>12, <1>13, <2>3
  <2>   QED  BY <1>4, <2>1, <2>2, <2>4 DEF AtTheEnd
<1>19. AllKept'
  <2>1. \A d \in 0 .. depth : d \in 0 .. MaxDepth /\ d <= depth
        BY <1>6
  <2>2. \A d : CapturedAt(d)' = CapturedAt(d)
        BY <1>4 DEF CapturedAt
  <2>   QED  BY <1>4, <1>5, <1>11, <2>1, <2>2 DEF AllKept
<1>20. IsInjective(data'[0] \o pending')
  <2>1. data'[0] \o pending' = data'[0]
        BY <1>4, <1>6, <1>11, ConcatEmptySeq
  <2>   QED  BY <1>4, <1>5, <2>1
<1>21. ContentComplete'
  <2>1. ASSUME c \notin late PROVE ToSet(file) = CapturedAt(c)
        BY <1>2, <1>4, <1>5, <1>6, <2>1 DEF CapturedAt
  <2>   QED  BY <1>4, <1>14, <2>1 DEF ContentComplete
<1>   QED  BY <1>15, <1>16, <1>17, <1>18, <1>19, <1>20, <1>21 DEF CaptureInv

\* ~FdCapture: the level below is as it was left when the capture was made.
LEMMA DestroyKeeps ==
  ASSUME CaptureInv, Destroy
  PROVE  CaptureInv'
<1>1. /\ depth > 0 /\ pending' = <<>>
      /\ data' = [FlushedData EXCEPT ![depth] = <<>>]
      /\ pos' = [FlushedPos EXCEPT ![depth] = 0]
      /\ target' = saved[depth] /\ held' = held - 2 /\ depth' = depth - 1
      /\ known' = [known EXCEPT ![depth] = None] /\ late' = late \ {depth}
      /\ home' = [u \in DOMAIN home |-> IF home[u] = depth THEN Gone ELSE home[u]]
      /\ UNCHANGED <<stream, saved, qvars>>
      BY DEF Destroy
<1>2. /\ FlushedData \in [0 .. MaxDepth -> Seq(Units)] /\ FlushedPos \in [0 .. MaxDepth -> Nat]
      /\ \A d \in 0 .. MaxDepth :
           /\ FlushedPos[d] <= Len(FlushedData[d])
           /\ d \notin late => FlushedPos[d] = Len(FlushedData[d])
           /\ \A u \in ToSet(FlushedData[d]) : u \in DOMAIN home /\ home[u] = d
           /\ d <= depth /\ d \notin late => CapturedAt(d) \subseteq ToSet(FlushedData[d])
           /\ d \in Levels /\ known[d] # None =>
                /\ known[d] <= Len(FlushedData[d])
                /\ d \notin late => known[d] = Len(FlushedData[d])
      /\ IsInjective(FlushedData[0])
      BY FlushEffect
<1>3. /\ ToSet(pending') = {} /\ pending' \in Seq(Units) /\ Levels \subseteq 0 .. MaxDepth
      /\ 0 \in 0 .. MaxDepth /\ depth \in 0 .. MaxDepth /\ depth \in Levels
      /\ known \in [Levels -> Nat \cup {None}] /\ late \subseteq Levels
  <2>1. /\ depth \in 0 .. MaxDepth /\ known \in [Levels -> Nat \cup {None}]
        /\ late \subseteq Levels
        BY DEF CaptureInv, CaptureTypeOK
  <2>2. Levels \subseteq 0 .. MaxDepth /\ 0 \in 0 .. MaxDepth /\ depth \in Levels
        BY <1>1, <2>1 DEF Levels
  <2>3. ToSet(pending') = {} /\ pending' \in Seq(Units)
        BY <1>1 DEF ToSet
  <2>   QED  BY <2>1, <2>2, <2>3
<1>4. /\ target = depth /\ held = 2 * depth /\ saved[depth] = depth - 1
      /\ \A c \in 1 .. depth : saved[c] = c - 1
      /\ \A c \in Levels : c > depth => known[c] = None /\ c \notin late
      BY <1>1, <1>3 DEF CaptureInv, Nested
<1>5. /\ data' \in [0 .. MaxDepth -> Seq(Units)] /\ pos' \in [0 .. MaxDepth -> Nat]
      /\ data'[depth] = <<>> /\ pos'[depth] = 0
      /\ \A d \in 0 .. MaxDepth : d # depth => data'[d] = FlushedData[d] /\ pos'[d] = FlushedPos[d]
      BY <1>1, <1>2, <1>3
<1>6. ToSet(<<>>) = {} /\ Len(<<>>) = 0
      BY DEF ToSet
<1>7. known' \in [Levels -> Nat \cup {None}] /\ known'[depth] = None
      /\ \A e \in Levels : e # depth => known'[e] = known[e]
      BY <1>1, <1>3
<1>8. /\ home \in Seq(0 .. MaxDepth \cup {Gone}) /\ Len(home) <= MaxUnits
      /\ \A u \in DOMAIN home : home[u] \in 0 .. MaxDepth \cup {Gone} /\ home[u] <= depth
      BY DEF CaptureInv, CaptureTypeOK, AtHome
<1>9. /\ home' \in Seq(0 .. MaxDepth \cup {Gone}) /\ Len(home') = Len(home)
      /\ DOMAIN home' = DOMAIN home
      /\ \A u \in DOMAIN home : home'[u] = IF home[u] = depth THEN Gone ELSE home[u]
  <2>1. DOMAIN home = 1 .. Len(home) /\ Len(home) \in Nat
        BY <1>8
  <2>   QED  BY <1>1, <1>8, <2>1
<1>10. CaptureTypeOK'
  <2>1. depth' \in 0 .. MaxDepth /\ target' \in 0 .. MaxDepth /\ held' \in 0 .. 2 * MaxDepth
        BY <1>1, <1>3, <1>4
  <2>2. \A d \in 0 .. MaxDepth : pos'[d] <= Len(data'[d])
        BY <1>2, <1>5, <1>6
  <2>   QED  BY <1>1, <1>3, <1>5, <1>7, <1>9, <2>1, <2>2 DEF CaptureInv, CaptureTypeOK, qvars
<1>11. Nested'
  <2>1. \A e \in Levels : e > depth - 1 => known'[e] = None /\ e \notin late'
        BY <1>1, <1>3, <1>4, <1>7 DEF Levels
  <2>2. held' = 2 * (depth - 1)
        BY <1>1, <1>3, <1>4
  <2>3. \A c \in 1 .. depth - 1 : saved[c] = c - 1
        BY <1>3, <1>4
  <2>   QED  BY <1>1, <1>4, <2>1, <2>2, <2>3 DEF Nested
<1>12. AtHome'
  <2>1. \A u \in DOMAIN home : home'[u] <= depth - 1
        BY <1>1, <1>3, <1>8, <1>9 DEF Gone
  <2>2. ASSUME NEW d \in 0 .. MaxDepth, NEW u \in ToSet(data'[d])
        PROVE  u \in DOMAIN home /\ home'[u] = d
        BY <1>2, <1>5, <1>6, <1>9, <2>2
  <2>   QED  BY <1>1, <1>3, <1>8, <1>9, <2>1, <2>2 DEF AtHome
<1>13. AtTheEnd'
  <2>1. \A d \in 0 .. MaxDepth : d \notin late' => pos'[d] = Len(data'[d])
        BY <1>1, <1>2, <1>5, <1>6
  <2>2. \A e \in Levels : known'[e] # None =>
          known'[e] <= Len(data'[e]) /\ (e \notin late' => known'[e] = Len(data'[e]))
        BY <1>1, <1>2, <1>3, <1>5, <1>7
  <2>3. \A e \in late : e \in Levels /\ known[e] # None
        BY DEF CaptureInv, CaptureTypeOK, AtTheEnd
  <2>4. \A e \in late' : known'[e] # None
        BY <1>1, <1>7, <2>3
  <2>   QED  BY <1>1, <2>1, <2>2, <2>4 DEF AtTheEnd
<1>14. AllKept'
  <2>1. \A d \in 0 .. depth - 1 : d \in 0 .. MaxDepth /\ d <= depth /\ d # depth
        BY <1>3
  <2>2. \A d \in 0 .. depth - 1 : CapturedAt(d)' = CapturedAt(d)
        BY <1>9, <2>1 DEF CapturedAt, Gone
  <2>3. ASSUME NEW d \in 0 .. depth - 1, d \notin late' PROVE CapturedAt(d)' \subseteq ToSet(data'[d])
    <3>1. d \in 0 .. MaxDepth /\ d <= depth /\ d # depth /\ d \notin late
          BY <1>1, <2>1, <2>3
    <3>2. CapturedAt(d) \subseteq ToSet(FlushedData[d])
          BY <1>2, <3>1
    <3>3. data'[d] = FlushedData[d]
          BY <1>5, <3>1
    <3>   QED  BY <2>2, <3>2, <3>3
  <2>4. \A d \in 0 .. depth' : d \in 0 .. depth - 1
        BY <1>1
  <2>   QED  BY <2>3, <2>4 DEF AllKept
<1>15. IsInjective(data'[0] \o pending')
  <2>1. depth # 0
        BY <1>1
  <2>2. data'[0] = FlushedData[0] /\ data'[0] \in Seq(Units)
        BY <1>3, <1>5, <2>1
  <2>3. data'[0] \o pending' = data'[0]
        BY <1>1, <2>2, ConcatEmptySeq
  <2>   QED  BY <1>2, <2>2, <2>3
<1>16. ContentComplete'
       BY <1>1 DEF CaptureInv, ContentComplete, qvars
<1>   QED  BY <1>10, <1>11, <1>12, <1>13, <1>14, <1>15, <1>16 DEF CaptureInv

-----------------------------------------------------------------------------
LEMMA CaptureKept ==
  ASSUME CaptureInv, [CaptureNext]_capturev
  PROVE  CaptureInv'
<1>1. CASE UNCHANGED capturev
      BY <1>1 DEF capturev, CaptureInv, CaptureTypeOK, Nested, AtHome, AtTheEnd, AllKept,
                  CapturedAt, ContentComplete
<1>2. CASE StdioFlush \/ ConstructFails
      BY <1>2, FlushKeeps DEF StdioFlush, ConstructFails
<1>3. CASE CaptureNext /\ ~(StdioFlush \/ ConstructFails)
      BY <1>3, WriteKeeps, PrintfKeeps, ConstructKeeps, DestroyKeeps, ContentKeeps DEF CaptureNext
<1>   QED  BY <1>1, <1>2, <1>3

LEMMA CaptureInvHolds == CaptureSpec => []CaptureInv
BY CaptureInitial, CaptureKept, PTL DEF CaptureSpec

LEMMA CaptureInvShows ==
  CaptureInv => CaptureTypeOK /\ Restored /\ NoStray /\ OriginalComplete /\ ContentComplete
<1> SUFFICES ASSUME CaptureInv
             PROVE  CaptureTypeOK /\ Restored /\ NoStray /\ OriginalComplete /\ ContentComplete
    OBVIOUS
<1>1. Restored
      BY DEF CaptureInv, Nested, Restored
<1>2. NoStray
      BY DEF CaptureInv, AtHome, NoStray
<1>3. 0 \in 0 .. depth /\ 0 \notin late
      BY DEF CaptureInv, CaptureTypeOK, Levels
<1>4. OriginalComplete
      BY <1>3 DEF CaptureInv, AllKept, OriginalComplete
<1>   QED  BY <1>1, <1>2, <1>4 DEF CaptureInv

(* Captures of any depth, over a bare descriptor or a stdio stream, made,  *)
(* read and destroyed in any order: types, the descriptor restored, and no *)
(* unit of output in a file where it does not belong                       *)
(* (capture.hpp:21-66).                                                    *)
THEOREM CapturesKeepOutput ==
  CaptureSpec => [](CaptureTypeOK /\ Restored /\ NoStray /\ OriginalComplete /\ ContentComplete)
BY CaptureInvHolds, CaptureInvShows, PTL

-----------------------------------------------------------------------------
(* Scope guards.                                                           *)
GuardInv == GuardTypeOK /\ RunsOnce

\* What RunsOnce says of one action.
Settled(a) ==
  IF a > made THEN ran[a] = 0 /\ a \notin letGo /\ Owners(a) = {}
  ELSE \/ ran[a] = 0 /\ a \notin letGo /\ \E s \in Slots : Owners(a) = {s}
       \/ ran[a] = 1 /\ a \notin letGo /\ Owners(a) = {}
       \/ ran[a] = 0 /\ a \in letGo /\ Owners(a) = {}

LEMMA GuardInitial == GuardInit => GuardInv
  BY GuardAssumption
     DEF GuardInit, GuardInv, GuardTypeOK, RunsOnce, Owners, Actions, NoFn

LEMMA TypePreserved == GuardTypeOK /\ [GuardStep]_guardv => GuardTypeOK'
<1> SUFFICES ASSUME GuardTypeOK, [GuardStep]_guardv PROVE GuardTypeOK'
    OBVIOUS
<1> USE GuardAssumption DEF GuardTypeOK, Actions, NoFn
<1>1. ASSUME NEW s \in Slots, MakeGuard(s) PROVE GuardTypeOK'
      BY <1>1 DEF MakeGuard
<1>2. ASSUME NEW s \in Slots, Dismiss(s) PROVE GuardTypeOK'
      BY <1>2 DEF Dismiss
<1>3. ASSUME NEW s \in Slots, LeaveScope(s) PROVE GuardTypeOK'
  <2>1. fn' \in [Slots -> Actions \cup {NoFn}] /\ active' \in [Slots -> BOOLEAN]
        BY <1>3 DEF LeaveScope
  <2>2. ran' \in [Actions -> Nat]
        BY <1>3 DEF LeaveScope
  <2>  QED  BY <1>3, <2>1, <2>2 DEF LeaveScope
<1>4. ASSUME NEW s \in Slots, NEW t \in Slots, MoveGuard(s, t) PROVE GuardTypeOK'
      BY <1>4 DEF MoveGuard, MovedFrom
<1>5. CASE UNCHANGED guardv
      BY <1>5 DEF guardv
<1>  QED  BY <1>1, <1>2, <1>3, <1>4, <1>5 DEF GuardStep

\* A step settles every action again.
LEMMA StepSettles ==
  ASSUME GuardInv, [GuardStep]_guardv, NEW a \in Actions
  PROVE  Settled(a)'
<1> USE GuardAssumption DEF GuardTypeOK, Actions, NoFn, Settled
<1>0. Settled(a)
      BY DEF GuardInv, RunsOnce
<1> HIDE DEF Settled
<1>1. ASSUME NEW s \in Slots, MakeGuard(s) PROVE Settled(a)'
  <2>1. CASE a = made + 1
    <3>1. Owners(a) = {} /\ ran[a] = 0 /\ a \notin letGo
          BY <1>0, <2>1 DEF GuardInv, Settled
    <3>2. Owners(a)' = {s}
          BY <1>1, <2>1, <3>1 DEF MakeGuard, Owners, GuardInv
    <3>  QED  BY <1>1, <2>1, <3>1, <3>2 DEF MakeGuard, Settled, GuardInv
  <2>2. CASE a # made + 1
    <3>1. Owners(a)' = Owners(a)
          BY <1>1, <2>2 DEF MakeGuard, Owners, GuardInv
    <3>  QED  BY <1>0, <1>1, <2>2, <3>1 DEF MakeGuard, Settled, GuardInv
  <2>  QED  BY <2>1, <2>2
<1>2. ASSUME NEW s \in Slots, Dismiss(s) PROVE Settled(a)'
  <2>1. CASE active[s] /\ fn[s] = a
    <3>1. Owners(a) = {s}
          BY <1>0, <2>1 DEF Owners, Settled
    <3>2. Owners(a)' = {}
          BY <1>2, <3>1 DEF Dismiss, Owners, GuardInv
    <3>  QED  BY <1>0, <1>2, <2>1, <3>1, <3>2 DEF Dismiss, Settled
  <2>2. CASE ~(active[s] /\ fn[s] = a)
    <3>1. Owners(a)' = Owners(a)
          BY <1>2, <2>2 DEF Dismiss, Owners, GuardInv
    <3>2. a \in letGo' <=> a \in letGo
          BY <1>2, <2>2 DEF Dismiss
    <3>  QED  BY <1>0, <1>2, <3>1, <3>2 DEF Dismiss, Settled
  <2>  QED  BY <2>1, <2>2
<1>3. ASSUME NEW s \in Slots, LeaveScope(s) PROVE Settled(a)'
  <2>1. CASE active[s] /\ fn[s] = a
    <3>1. Owners(a) = {s} /\ ran[a] = 0 /\ a \notin letGo
          BY <1>0, <2>1 DEF Owners, Settled
    <3>2. Owners(a)' = {}
          BY <1>3, <3>1 DEF LeaveScope, Owners, GuardInv
    <3>3. ran'[a] = 1
          BY <1>3, <2>1, <3>1 DEF LeaveScope, GuardInv
    <3>  QED  BY <1>0, <1>3, <2>1, <3>1, <3>2, <3>3 DEF LeaveScope, Settled
  <2>2. CASE ~(active[s] /\ fn[s] = a)
    <3>1. Owners(a)' = Owners(a)
          BY <1>3, <2>2 DEF LeaveScope, Owners, GuardInv
    <3>2. ran'[a] = ran[a]
          BY <1>3, <2>2 DEF LeaveScope, GuardInv
    <3>  QED  BY <1>0, <1>3, <3>1, <3>2 DEF LeaveScope, Settled
  <2>  QED  BY <2>1, <2>2
<1>4. ASSUME NEW s \in Slots, NEW t \in Slots, MoveGuard(s, t) PROVE Settled(a)'
  <2>0. s # t
        BY <1>4 DEF MoveGuard
  <2>1. CASE active[s] /\ fn[s] = a
    <3>1. Owners(a) = {s}
          BY <1>0, <2>1 DEF Owners, Settled
    <3>2. Owners(a)' = {t}
          BY <1>4, <2>0, <2>1, <3>1 DEF MoveGuard, MovedFrom, Owners, GuardInv
    <3>  QED  BY <1>0, <1>4, <2>1, <3>1, <3>2 DEF MoveGuard, Settled
  <2>2. CASE ~(active[s] /\ fn[s] = a)
    <3>1. Owners(a)' = Owners(a)
          BY <1>4, <2>0, <2>2 DEF MoveGuard, MovedFrom, Owners, GuardInv
    <3>  QED  BY <1>0, <1>4, <3>1 DEF MoveGuard, Settled
  <2>  QED  BY <2>1, <2>2
<1>5. CASE UNCHANGED guardv
      BY <1>0, <1>5 DEF guardv, Settled, Owners
<1>  QED  BY <1>1, <1>2, <1>3, <1>4, <1>5 DEF GuardStep

LEMMA GuardPreserved == GuardInv /\ [GuardStep]_guardv => GuardInv'
<1> SUFFICES ASSUME GuardInv, [GuardStep]_guardv PROVE GuardInv'
    OBVIOUS
<1>1. GuardTypeOK'
      BY TypePreserved DEF GuardInv
<1>2. \A a \in Actions : Settled(a)'
      BY StepSettles
<1>3. RunsOnce'
      BY <1>2 DEF RunsOnce, Settled, Actions
<1>  QED  BY <1>1, <1>3 DEF GuardInv

(* However a guard is moved, dismissed or destroyed, its action runs at    *)
(* most once, and once unless it was dismissed (scope_guard.hpp:11-29).    *)
THEOREM ActionsRunOnce == GuardSpec => []RunsOnce
<1>1. GuardInv => RunsOnce
      BY DEF GuardInv
<1>  QED  BY GuardInitial, GuardPreserved, <1>1, PTL DEF GuardSpec

-----------------------------------------------------------------------------
(* The temporary directory: the steps that TempDir defines.                *)
TreeStep ==
  \/ MakeTempDir \/ LeaveSomebody \/ StartWalk \/ WalkStep
  \/ \E n \in Nodes : Add(n) \/ Lock(n)

Children(d) == {n \in tree : Parent[n] = d}

\* Nothing stands in the way of the walk.
Untouched == ~added /\ locked = {}

(* The walk is in the directory or, below it, in its subdirectory, and if  *)
(* it is not interfered with, what it has left to visit is what is there.  *)
InDirectory ==
  /\ Len(walk) = 1
  /\ walk[1].dir = "dir" /\ walk[1].left \subseteq {"file", "sub", "link"}
  /\ Untouched => walk[1].left = Children("dir")

InSubdirectory ==
  /\ Len(walk) = 2
  /\ walk[1].dir = "dir" /\ walk[1].left \subseteq {"file", "link"}
  /\ walk[2].dir = "sub" /\ walk[2].left \subseteq {"inner"}
  /\ Untouched => Children("dir") = walk[1].left \cup {"sub"}
  /\ Untouched => walk[2].left = Children("sub")

WalkInv == Walking => InDirectory \/ InSubdirectory

TreeInv ==
  /\ TreeTypeOK /\ WalkInv
  /\ scratch => "dir" \in tree
  /\ Walking => scratch
  /\ ExactlyTheTreeGoes

LEMMA TreeFacts ==
  /\ Nodes = {"dir", "file", "sub", "inner", "link", "kept"}
  /\ {n \in Nodes : Parent[n] = "dir"} = {"file", "sub", "link"}
  /\ {n \in Nodes : Parent[n] = "sub"} = {"inner"}
  /\ Parent["dir"] = "tmp" /\ Parent["sub"] = "dir"
  /\ Parent["file"] = "dir" /\ Parent["link"] = "dir" /\ Parent["inner"] = "sub"
BY DEF Nodes, Parent

\* A sequence that is not empty, taken apart at its end.
LEMMA FrontAndLast ==
  ASSUME NEW S, NEW s \in Seq(S), s # <<>>
  PROVE  /\ Len(s) \in Nat \ {0}
         /\ Last(s) = s[Len(s)] /\ Last(s) \in S
         /\ Front(s) \in Seq(S) /\ Len(Front(s)) = Len(s) - 1
         /\ \A i \in 1 .. Len(s) - 1 : Front(s)[i] = s[i]
<1>1. Len(s) \in Nat \ {0}
      BY EmptySeq, LenProperties
<1>2. Last(s) = s[Len(s)] /\ Last(s) \in S
      BY <1>1, ElementOfSeq DEF Last
<1>3. PICK k \in Nat : k = Len(s) - 1
      BY <1>1
<1>4. /\ SubSeq(s, 1, k) \in Seq(S) /\ Len(SubSeq(s, 1, k)) = k
      /\ \A i \in 1 .. k : SubSeq(s, 1, k)[i] = s[i]
  <2>1. k <= Len(s) /\ 1 <= k + 1
        BY <1>1, <1>3
  <2>2. SubSeq(s, 1, k) \in Seq(S)
        BY <1>1, <1>3, <2>1, SubSeqProperties
  <2>3. Len(SubSeq(s, 1, k)) = k
        BY <1>1, <1>3, <2>1, SubSeqProperties
  <2>4. \A i \in 1 .. k : SubSeq(s, 1, k)[i] = s[i]
        BY <1>1, <1>3, <2>1, SubSeqProperties
  <2>   QED  BY <2>2, <2>3, <2>4
<1>   QED  BY <1>1, <1>2, <1>3, <1>4 DEF Front

\* A second element.
LEMMA AppendToOne ==
  ASSUME NEW S, NEW s \in Seq(S), NEW e \in S, Len(s) = 1
  PROVE  /\ Append(s, e) \in Seq(S) /\ Len(Append(s, e)) = 2
         /\ Append(s, e)[1] = s[1] /\ Append(s, e)[2] = e
<1>1. Append(s, e) \in Seq(S)
      BY AppendProperties
<1>2. Len(Append(s, e)) = Len(s) + 1
      BY AppendProperties
<1>3. Append(s, e)[Len(s) + 1] = e
      BY AppendProperties
<1>4. \A i \in 1 .. Len(s) : Append(s, e)[i] = s[i]
      BY AppendProperties
<1>   QED  BY <1>1, <1>2, <1>3, <1>4

\* No walk is a walk, as far as the type goes.
LEMMA WalkOver == NoWalk \in Seq([dir : Nodes, left : SUBSET Nodes])
BY DEF NoWalk

LEMMA TreeInitial == TreeInit => TreeInv
<1> SUFFICES ASSUME TreeInit PROVE TreeInv
    OBVIOUS
<1>1. scratch = FALSE /\ tree = {"kept"} /\ locked = {} /\ leftover = FALSE /\ added = FALSE
      /\ walk = NoWalk
      BY DEF TreeInit
<1>2. TreeTypeOK
      BY <1>1, WalkOver, TreeFacts DEF TreeTypeOK
<1>   QED  BY <1>1, <1>2 DEF TreeInv, WalkInv, Walking, ExactlyTheTreeGoes

\* What happens beside the walk keeps the invariant.
LEMMA BesideTheWalk ==
  ASSUME TreeInv,
         MakeTempDir \/ LeaveSomebody \/ \E n \in Nodes : Add(n) \/ Lock(n)
  PROVE  TreeInv'
<1>1. CASE MakeTempDir
  <2>1. ~Walking /\ walk' = walk
        BY <1>1 DEF MakeTempDir, TreeInv
  <2>2. TreeTypeOK'
        BY <1>1, TreeFacts DEF MakeTempDir, TreeInv, TreeTypeOK
  <2>   QED  BY <1>1, <2>1, <2>2
             DEF MakeTempDir, TreeInv, WalkInv, Walking, ExactlyTheTreeGoes
<1>2. CASE LeaveSomebody
  <2>1. TreeTypeOK'
        BY <1>2 DEF LeaveSomebody, TreeInv, TreeTypeOK
  <2>   QED  BY <1>2, <2>1
             DEF LeaveSomebody, TreeInv, WalkInv, Walking, ExactlyTheTreeGoes,
                 InDirectory, InSubdirectory, Children, Untouched
<1>3. ASSUME NEW n \in Nodes, Add(n) PROVE TreeInv'
  <2>1. TreeTypeOK'
        BY <1>3 DEF Add, TreeInv, TreeTypeOK, Walking
  <2>2. CASE Walking
    <3>1. added' /\ UNCHANGED walk
          BY <1>3, <2>2 DEF Add, TreeInv, TreeTypeOK
    <3>   QED  BY <1>3, <2>1, <2>2, <3>1
               DEF Add, TreeInv, WalkInv, Walking, ExactlyTheTreeGoes,
                   InDirectory, InSubdirectory, Untouched
  <2>3. CASE ~Walking
        BY <1>3, <2>1, <2>3 DEF Add, TreeInv, WalkInv, Walking, ExactlyTheTreeGoes
  <2>   QED  BY <2>2, <2>3
<1>4. ASSUME NEW n \in Nodes, Lock(n) PROVE TreeInv'
  <2>1. TreeTypeOK' /\ locked' # {} /\ UNCHANGED <<walk, tree, scratch>>
        BY <1>4 DEF Lock, TreeInv, TreeTypeOK
  <2>   QED  BY <2>1
             DEF TreeInv, WalkInv, Walking, ExactlyTheTreeGoes,
                 InDirectory, InSubdirectory, Untouched
<1>   QED  BY <1>1, <1>2, <1>3, <1>4

\* The walk begins with what is in the directory.
LEMMA TheWalkBegins == TreeInv /\ StartWalk => TreeInv'
<1> SUFFICES ASSUME TreeInv, StartWalk PROVE TreeInv'
    OBVIOUS
<1> DEFINE S == [dir : Nodes, left : SUBSET Nodes]
<1>1. Listing("dir") \in S
      BY TreeFacts DEF Listing, TreeInv, TreeTypeOK
<1>2. /\ walk' \in Seq(S) /\ Len(walk') = 1 /\ walk'[1] = Listing("dir")
      /\ UNCHANGED <<scratch, tree, locked, leftover, added>>
      BY <1>1 DEF StartWalk
<1>3. TreeTypeOK'
      BY <1>2 DEF TreeInv, TreeTypeOK
<1>4. Listing("dir").dir = "dir" /\ Listing("dir").left = Children("dir")
      BY DEF Listing, Children
<1>5. Children("dir") \subseteq {"file", "sub", "link"}
      BY TreeFacts DEF Children, TreeInv, TreeTypeOK
<1>6. InDirectory'
      BY <1>2, <1>4, <1>5 DEF InDirectory, Untouched, Children
<1>   QED  BY <1>2, <1>3, <1>6 DEF StartWalk, TreeInv, WalkInv, Walking, ExactlyTheTreeGoes

\* A node but the directory itself is removed: the walk goes on with the
\* rest, or stops because something is in its way.
LEMMA RemoveEffect ==
  ASSUME NEW n, NEW rest, TreeInv, RemoveNode(n, rest),
         UNCHANGED <<locked, leftover, added>>,
         Untouched => Parent[n] \notin locked /\ n \in tree /\ (n \in Dirs => Children(n) = {})
  PROVE  \/ /\ ~Untouched
            /\ walk' = NoWalk /\ scratch' = FALSE /\ tree' = tree
         \/ walk' = rest /\ scratch' = (rest # NoWalk) /\ tree' = tree \ {n}
BY DEF RemoveNode, Children

\* An entry is visited: removed, or entered.
LEMMA EntryVisited == TreeInv /\ VisitEntry => TreeInv'
<1> SUFFICES ASSUME TreeInv, VisitEntry PROVE TreeInv'
    OBVIOUS
<1> DEFINE S == [dir : Nodes, left : SUBSET Nodes]
<1>1. walk \in Seq(S) /\ walk # <<>> /\ Walking
      BY DEF VisitEntry, Walking, NoWalk, TreeInv, TreeTypeOK
<1>2. /\ Len(walk) \in Nat \ {0} /\ Top = walk[Len(walk)] /\ Top \in S
      /\ Front(walk) \in Seq(S) /\ Len(Front(walk)) = Len(walk) - 1
      /\ \A i \in 1 .. Len(walk) - 1 : Front(walk)[i] = walk[i]
      BY <1>1, FrontAndLast DEF Top
<1>3. PICK n \in Top.left :
        LET rest == Append(Front(walk), [Top EXCEPT !.left = @ \ {n}])
        IN  IF n \in Entered THEN walk' = Append(rest, Listing(n)) /\ UNCHANGED <<scratch, tree>>
            ELSE RemoveNode(n, rest)
      BY DEF VisitEntry
<1>4. PICK top : top = [Top EXCEPT !.left = @ \ {n}]
      OBVIOUS
<1>5. top \in S /\ top.dir = Top.dir /\ top.left = Top.left \ {n}
      BY <1>2, <1>4
<1>6. PICK rest : rest = Append(Front(walk), top)
      OBVIOUS
<1>7. /\ rest \in Seq(S) /\ Len(rest) = Len(walk) /\ rest[Len(walk)] = top
      /\ \A i \in 1 .. Len(walk) - 1 : rest[i] = walk[i]
      /\ rest # NoWalk
      BY <1>2, <1>5, <1>6, AppendProperties, EmptySeq DEF NoWalk
<1>8. IF n \in Dirs THEN walk' = Append(rest, Listing(n)) /\ UNCHANGED <<scratch, tree>>
      ELSE RemoveNode(n, rest)
      BY <1>3, <1>4, <1>6 DEF Entered
<1>9. UNCHANGED <<locked, leftover, added>>
      BY DEF VisitEntry
<1>10. scratch /\ "dir" \in tree /\ "kept" \in tree /\ tree \subseteq Nodes
      BY <1>1 DEF TreeInv, ExactlyTheTreeGoes, TreeTypeOK
<1>11. CASE InDirectory
  <2>1. /\ Len(walk) = 1 /\ Top.dir = "dir" /\ Top.left \subseteq {"file", "sub", "link"}
        /\ Untouched => Top.left = Children("dir")
        BY <1>2, <1>11 DEF InDirectory
  <2>2. CASE n = "sub"
    <3>1. walk' = Append(rest, Listing("sub")) /\ UNCHANGED <<scratch, tree>>
          BY <1>8, <2>2 DEF Dirs
    <3>2. /\ Listing("sub") \in S /\ Listing("sub").dir = "sub"
          /\ Listing("sub").left = Children("sub") /\ Children("sub") \subseteq {"inner"}
          BY <1>10, TreeFacts DEF Listing, Children
    <3>3. /\ walk' \in Seq(S) /\ Len(walk') = 2
          /\ walk'[1] = top /\ walk'[2] = Listing("sub")
      <4>1. /\ rest \in Seq(S) /\ Len(rest) = 1 /\ rest[1] = top
            BY <1>7, <2>1
      <4>2. PICK sub \in S : sub = Listing("sub")
            BY <3>2
      <4>3. PICK one \in Seq(S) : one = rest /\ Len(one) = 1
            BY <4>1
      <4>4. /\ Append(one, sub) \in Seq(S) /\ Len(Append(one, sub)) = 2
            /\ Append(one, sub)[1] = one[1] /\ Append(one, sub)[2] = sub
            BY <4>3, AppendToOne
      <4>   QED  BY <3>1, <4>1, <4>2, <4>3, <4>4
    <3>4. TreeTypeOK'
          BY <1>9, <3>1, <3>3 DEF TreeInv, TreeTypeOK
    <3>5. InSubdirectory'
          BY <1>3, <1>5, <1>9, <2>1, <2>2, <3>1, <3>2, <3>3
          DEF InSubdirectory, Untouched, Children
    <3>   QED  BY <1>9, <1>10, <3>1, <3>4, <3>5
               DEF TreeInv, WalkInv, Walking, ExactlyTheTreeGoes
  <2>3. CASE n # "sub"
    <3>1. n \in {"file", "link"} /\ n \notin Dirs /\ Parent[n] = "dir"
          BY <1>3, <2>1, <2>3, TreeFacts DEF Dirs
    <3>2. RemoveNode(n, rest)
          BY <1>8, <3>1
    <3>3. Untouched => Parent[n] \notin locked /\ n \in tree /\ (n \in Dirs => Children(n) = {})
          BY <1>3, <2>1, <3>1 DEF Untouched, Children
    <3>4. \/ ~Untouched /\ walk' = NoWalk /\ scratch' = FALSE /\ tree' = tree
          \/ walk' = rest /\ scratch' = (rest # NoWalk) /\ tree' = tree \ {n}
          BY <1>9, <3>2, <3>3, RemoveEffect
    <3>5. CASE ~Untouched /\ walk' = NoWalk /\ scratch' = FALSE /\ tree' = tree
      <4>1. TreeTypeOK'
            BY <1>9, <3>5, WalkOver DEF TreeInv, TreeTypeOK
      <4>   QED  BY <1>9, <1>10, <3>5, <4>1
                 DEF TreeInv, WalkInv, Walking, ExactlyTheTreeGoes, Untouched
    <3>6. CASE walk' = rest /\ scratch' = (rest # NoWalk) /\ tree' = tree \ {n}
      <4>1. TreeTypeOK'
            BY <1>7, <1>9, <3>6 DEF TreeInv, TreeTypeOK
      <4>2. Children("dir")' = Children("dir") \ {n}
            BY <3>6 DEF Children
      <4>3. InDirectory'
            BY <1>5, <1>7, <1>9, <2>1, <3>1, <3>6, <4>2 DEF InDirectory, Untouched
      <4>   QED  BY <1>7, <1>9, <1>10, <3>1, <3>6, <4>1, <4>3
                 DEF TreeInv, WalkInv, Walking, ExactlyTheTreeGoes
    <3>   QED  BY <3>4, <3>5, <3>6
  <2>   QED  BY <2>2, <2>3
<1>12. CASE InSubdirectory
  <2>1. /\ Len(walk) = 2 /\ Top.dir = "sub" /\ n = "inner"
        /\ Untouched => Top.left = Children("sub")
        /\ walk[1].dir = "dir" /\ walk[1].left \subseteq {"file", "link"}
        /\ Untouched => Children("dir") = walk[1].left \cup {"sub"}
        BY <1>2, <1>3, <1>12 DEF InSubdirectory
  <2>2. n \notin Dirs /\ Parent[n] = "sub"
        BY <2>1, TreeFacts DEF Dirs
  <2>3. Untouched => Parent[n] \notin locked /\ n \in tree /\ (n \in Dirs => Children(n) = {})
        BY <1>3, <2>1, <2>2 DEF Untouched, Children
  <2>4. \/ ~Untouched /\ walk' = NoWalk /\ scratch' = FALSE /\ tree' = tree
        \/ walk' = rest /\ scratch' = (rest # NoWalk) /\ tree' = tree \ {n}
        BY <1>8, <1>9, <2>2, <2>3, RemoveEffect
  <2>5. CASE ~Untouched /\ walk' = NoWalk /\ scratch' = FALSE /\ tree' = tree
    <3>1. TreeTypeOK'
          BY <1>9, <2>5, WalkOver DEF TreeInv, TreeTypeOK
    <3>   QED  BY <1>9, <1>10, <2>5, <3>1
               DEF TreeInv, WalkInv, Walking, ExactlyTheTreeGoes, Untouched
  <2>6. CASE walk' = rest /\ scratch' = (rest # NoWalk) /\ tree' = tree \ {n}
    <3>1. TreeTypeOK'
          BY <1>7, <1>9, <2>6 DEF TreeInv, TreeTypeOK
    <3>2. Children("dir")' = Children("dir") /\ Children("sub")' = Children("sub") \ {n}
          BY <2>1, <2>2, <2>6, TreeFacts DEF Children
    <3>3. walk'[1] = walk[1] /\ walk'[2] = top /\ Len(walk') = 2
          BY <1>7, <2>1, <2>6
    <3>4. top.dir = "sub" /\ top.left = {} /\ (Untouched => top.left = Children("sub") \ {n})
          BY <1>2, <1>5, <1>12, <2>1 DEF InSubdirectory
    <3>5. InSubdirectory'
          BY <1>9, <2>1, <3>2, <3>3, <3>4 DEF InSubdirectory, Untouched
    <3>   QED  BY <1>7, <1>9, <1>10, <2>1, <2>6, <3>1, <3>5
               DEF TreeInv, WalkInv, Walking, ExactlyTheTreeGoes
  <2>   QED  BY <2>4, <2>5, <2>6
<1>   QED  BY <1>1, <1>11, <1>12 DEF TreeInv, WalkInv

\* A directory is removed when all of its entries were visited.
LEMMA DirectoryVisited == TreeInv /\ VisitDirectory => TreeInv'
<1> SUFFICES ASSUME TreeInv, VisitDirectory PROVE TreeInv'
    OBVIOUS
<1> DEFINE S == [dir : Nodes, left : SUBSET Nodes]
<1>1. walk \in Seq(S) /\ walk # <<>> /\ Walking
      BY DEF VisitDirectory, Walking, NoWalk, TreeInv, TreeTypeOK
<1>2. /\ Len(walk) \in Nat \ {0} /\ Top = walk[Len(walk)]
      /\ Front(walk) \in Seq(S) /\ Len(Front(walk)) = Len(walk) - 1
      /\ \A i \in 1 .. Len(walk) - 1 : Front(walk)[i] = walk[i]
      BY <1>1, FrontAndLast DEF Top
<1>3. /\ Top.left = {} /\ RemoveNode(Top.dir, Front(walk))
      /\ UNCHANGED <<locked, leftover, added>>
      BY DEF VisitDirectory
<1>4. scratch /\ "dir" \in tree /\ "kept" \in tree /\ tree \subseteq Nodes /\ locked \subseteq Dirs
      BY <1>1 DEF TreeInv, ExactlyTheTreeGoes, TreeTypeOK
<1>5. CASE InDirectory
  <2>1. /\ Len(walk) = 1 /\ Top.dir = "dir"
        /\ Untouched => Children("dir") = {}
        BY <1>2, <1>3, <1>5 DEF InDirectory
  <2>2. Front(walk) = NoWalk
        BY <1>2, <2>1, EmptySeq DEF NoWalk
  <2>3. \/ ~Untouched /\ walk' = NoWalk /\ scratch' = FALSE /\ tree' = tree
        \/ walk' = NoWalk /\ scratch' = FALSE /\ tree' = tree \ {"dir"}
    <3>1. Untouched => /\ Parent["dir"] \notin locked /\ "dir" \in tree
                       /\ "dir" \in Dirs => Children("dir") = {}
          BY <1>4, <2>1 DEF Untouched
    <3>2. RemoveNode("dir", NoWalk)
          BY <1>3, <2>1, <2>2
    <3>3. \/ ~Untouched /\ walk' = NoWalk /\ scratch' = FALSE /\ tree' = tree
          \/ walk' = NoWalk /\ scratch' = (NoWalk # NoWalk) /\ tree' = tree \ {"dir"}
          BY <1>3, <3>1, <3>2, RemoveEffect
    <3>   QED  BY <3>3
  <2>4. TreeTypeOK'
        BY <1>3, <2>3, WalkOver DEF TreeInv, TreeTypeOK
  <2>   QED  BY <1>3, <1>4, <2>3, <2>4
             DEF TreeInv, WalkInv, Walking, ExactlyTheTreeGoes, Untouched
<1>6. CASE InSubdirectory
  <2>1. /\ Len(walk) = 2 /\ Top.dir = "sub"
        /\ Untouched => Children("sub") = {}
        /\ walk[1].dir = "dir" /\ walk[1].left \subseteq {"file", "link"}
        /\ Untouched => Children("dir") = walk[1].left \cup {"sub"}
        BY <1>2, <1>3, <1>6 DEF InSubdirectory
  <2>2. Len(Front(walk)) = 1 /\ Front(walk)[1] = walk[1] /\ Front(walk) # NoWalk
        BY <1>2, <2>1, EmptySeq DEF NoWalk
  <2>3. \/ ~Untouched /\ walk' = NoWalk /\ scratch' = FALSE /\ tree' = tree
        \/ walk' = Front(walk) /\ scratch' = TRUE /\ tree' = tree \ {"sub"}
    <3>1. Untouched => /\ Parent["sub"] \notin locked /\ "sub" \in tree
                       /\ "sub" \in Dirs => Children("sub") = {}
          BY <2>1 DEF Untouched, Children
    <3>2. RemoveNode("sub", Front(walk))
          BY <1>3, <2>1
    <3>3. \/ ~Untouched /\ walk' = NoWalk /\ scratch' = FALSE /\ tree' = tree
          \/ walk' = Front(walk) /\ scratch' = (Front(walk) # NoWalk) /\ tree' = tree \ {"sub"}
          BY <1>3, <3>1, <3>2, RemoveEffect
    <3>   QED  BY <2>2, <3>3
  <2>4. CASE ~Untouched /\ walk' = NoWalk /\ scratch' = FALSE /\ tree' = tree
    <3>1. TreeTypeOK'
          BY <1>3, <2>4, WalkOver DEF TreeInv, TreeTypeOK
    <3>   QED  BY <1>3, <1>4, <2>4, <3>1
               DEF TreeInv, WalkInv, Walking, ExactlyTheTreeGoes, Untouched
  <2>5. CASE walk' = Front(walk) /\ scratch' = TRUE /\ tree' = tree \ {"sub"}
    <3>1. TreeTypeOK'
          BY <1>2, <1>3, <2>5 DEF TreeInv, TreeTypeOK
    <3>2. Children("dir")' = Children("dir") \ {"sub"}
          BY <2>5 DEF Children
    <3>3. InDirectory'
          BY <1>3, <2>1, <2>2, <2>5, <3>2 DEF InDirectory, Untouched
    <3>   QED  BY <1>3, <1>4, <2>5, <3>1, <3>3
               DEF TreeInv, WalkInv, Walking, ExactlyTheTreeGoes
  <2>   QED  BY <2>3, <2>4, <2>5
<1>   QED  BY <1>1, <1>5, <1>6 DEF TreeInv, WalkInv

LEMMA TreeInvPreserved == TreeInv /\ [TreeStep]_treev => TreeInv'
<1> SUFFICES ASSUME TreeInv, [TreeStep]_treev PROVE TreeInv'
    OBVIOUS
<1>1. CASE UNCHANGED treev
      BY <1>1 DEF treev, TreeInv, TreeTypeOK, WalkInv, Walking, ExactlyTheTreeGoes,
                  InDirectory, InSubdirectory, Untouched, Children
<1>2. CASE TreeStep
      BY <1>2, BesideTheWalk, TheWalkBegins, EntryVisited, DirectoryVisited
      DEF TreeStep, WalkStep
<1>   QED  BY <1>1, <1>2

(* With the TempDir its whole tree is gone, and what a link in it points   *)
(* to is left alone (temp.hpp:72).                                         *)
THEOREM TempDirsGo == TreeInit /\ [][TreeStep]_treev => []ExactlyTheTreeGoes
<1>1. TreeInv => ExactlyTheTreeGoes
      BY DEF TreeInv
<1>   QED  BY TreeInitial, TreeInvPreserved, <1>1, PTL

===============================================================================

---------------------------- MODULE DistormProofs ----------------------------
(***************************************************************************)
(* Proofs about Distorm, for every code and every array: how the decoder's *)
(* loop and its callers list what the decoder finds, and that what it      *)
(* finds depends on nothing but the bytes of the instruction.              *)
(***************************************************************************)
EXTENDS Distorm, FiniteSetTheorems, SequenceTheorems, WellFoundedInduction, TLAPS

-----------------------------------------------------------------------------
(* Least numbers, and functions that are defined from 0 up.                *)

\* A set of naturals that is not empty has a least element: the smallest of
\* the intervals from 0 to one of its elements ends there.
LEMMA LeastNat ==
  ASSUME NEW S, S \subseteq Nat, S # {}
  PROVE  \E n \in S : \A m \in S : n <= m
<1> DEFINE T == {0..n : n \in S}
<1>1. T \subseteq FiniteSubsetsOf(Nat)
  <2> SUFFICES ASSUME NEW n \in S PROVE 0..n \in FiniteSubsetsOf(Nat)
    OBVIOUS
  <2>1. n \in Nat /\ 0 \in Int /\ n \in Int
    OBVIOUS
  <2>2. IsFiniteSet(0..n)
    BY <2>1, FS_Interval
  <2>3. 0..n \subseteq Nat
    BY <2>1
  <2> QED BY <2>2, <2>3 DEF FiniteSubsetsOf
<1>2. T # {}
  OBVIOUS
<1>3. IsWellFoundedOn(StrictSubsetOrdering(Nat), FiniteSubsetsOf(Nat))
  BY FS_StrictSubsetOrderingWellFounded
<1> HIDE DEF T
<1>4. PICK x \in T : \A y \in T : ~(<<y, x>> \in StrictSubsetOrdering(Nat))
  BY <1>1, <1>2, <1>3, WFMin
<1>5. PICK n \in S : x = 0..n
  BY DEF T
<1>6. ASSUME NEW m \in S, m < n PROVE FALSE
  <2>1. 0..m \in T
    BY DEF T
  <2>2. 0..m \subseteq 0..n /\ 0..m # 0..n
    <3>1. n \in 0..n /\ n \notin 0..m
      BY <1>6
    <3>2. 0..m \subseteq 0..n
      BY <1>6
    <3> QED BY <3>1, <3>2
  <2>3. 0..m \in SUBSET Nat /\ 0..n \in SUBSET Nat
    OBVIOUS
  <2>4. <<0..m, 0..n>> \in StrictSubsetOrdering(Nat)
    BY <2>2, <2>3 DEF StrictSubsetOrdering
  <2> QED BY <2>1, <2>4, <1>4, <1>5
<1> QED BY <1>6

\* Min is that element.
LEMMA MinNat ==
  ASSUME NEW S, S \subseteq Nat, S # {}
  PROVE  Min(S) \in S /\ \A m \in S : Min(S) <= m
<1>1. \E n \in S : \A m \in S : n <= m
  BY LeastNat
<1>2. PICK n \in S : \A m \in S : n <= m
  BY <1>1
<1>3. Min(S) = CHOOSE x \in S : \A y \in S : x =< y
  BY DEF Min
<1> QED
  BY <1>2, <1>3

\* Sequences whatever their elements.
IsSequence(s) == s \in Seq(Range(s))

LEMMA SequenceLemma ==
  ASSUME NEW S, NEW s \in Seq(S)
  PROVE  IsSequence(s)
<1>1. Len(s) \in Nat /\ DOMAIN s = 1 .. Len(s) OBVIOUS
<1>2. \A n \in 1 .. Len(s) : s[n] \in Range(s) BY <1>1 DEF Range
<1>3. s = [n \in 1 .. Len(s) |-> s[n]] OBVIOUS
<1> QED BY <1>1, <1>2, <1>3 DEF IsSequence

LEMMA AppendLemma ==
  ASSUME NEW s, IsSequence(s), NEW e
  PROVE  /\ IsSequence(Append(s, e)) /\ Len(Append(s, e)) = Len(s) + 1
         /\ \A n \in 1 .. Len(s) : Append(s, e)[n] = s[n]
         /\ Append(s, e)[Len(s) + 1] = e
<1> DEFINE S == Range(s) \cup {e}
           t == Append(s, e)
<1>1. s \in Seq(S) BY DEF IsSequence
<1>2. t \in Seq(S) /\ Len(t) = Len(s) + 1 BY <1>1
<1>3. \A n \in 1 .. Len(s) : t[n] = s[n] BY <1>1
<1>4. t[Len(s) + 1] = e BY <1>1
<1>5. IsSequence(t) BY <1>2, SequenceLemma
<1> QED BY <1>2, <1>3, <1>4, <1>5

LEMMA ConcatLemma ==
  ASSUME NEW s, IsSequence(s), NEW t, IsSequence(t)
  PROVE  /\ IsSequence(s \o t) /\ Len(s \o t) = Len(s) + Len(t)
         /\ \A n \in 1 .. Len(s) : (s \o t)[n] = s[n]
         /\ \A n \in 1 .. Len(t) : (s \o t)[Len(s) + n] = t[n]
<1> DEFINE S == Range(s) \cup Range(t)
           u == s \o t
<1>1. s \in Seq(S) /\ t \in Seq(S) BY DEF IsSequence
<1>2. u \in Seq(S) /\ Len(u) = Len(s) + Len(t) BY <1>1
<1>3. \A n \in 1 .. Len(s) : u[n] = s[n] BY <1>1
<1>4. \A n \in 1 .. Len(t) : u[Len(s) + n] = t[n] BY <1>1
<1>5. IsSequence(u) BY <1>2, SequenceLemma
<1> QED BY <1>2, <1>3, <1>4, <1>5

\* Sums(f, dis, m): f[n] is the size of the first n entries.
Sums(f, dis, m) == f = [n \in 0 .. m |-> IF n = 0 THEN 0 ELSE f[n - 1] + dis[n].size]

LEMMA SumsExist == ASSUME NEW dis, NEW m \in Nat PROVE \E f : Sums(f, dis, m)
<1> DEFINE Bad == {k \in Nat : ~ \E f : Sums(f, dis, k)}
<1> SUFFICES ASSUME Bad # {} PROVE FALSE OBVIOUS
<1>1. PICK k \in Bad : \A b \in Bad : k <= b
  <2>1. Bad \subseteq Nat OBVIOUS
  <2> HIDE DEF Bad
  <2> QED BY <2>1, LeastNat
<1>2. k \in Nat /\ ~ \E f : Sums(f, dis, k) OBVIOUS
<1>3. k # 0
  <2> DEFINE e == [n \in 0 .. 0 |-> 0]
  <2>1. Sums(e, dis, 0) BY DEF Sums
  <2> QED BY <1>2, <2>1
<1>4. k - 1 \in Nat /\ k - 1 < k BY <1>2, <1>3
<1>5. PICK g : Sums(g, dis, k - 1) BY <1>1, <1>4
<1> DEFINE f == [n \in 0 .. k |-> IF n = k THEN g[k - 1] + dis[k].size ELSE g[n]]
<1>6. \A n \in 0 .. k : f[n] = IF n = 0 THEN 0 ELSE f[n - 1] + dis[n].size
  <2> SUFFICES ASSUME NEW n \in 0 .. k PROVE f[n] = IF n = 0 THEN 0 ELSE f[n - 1] + dis[n].size
    OBVIOUS
  <2>1. CASE n = k
    <3>1. f[n - 1] = g[k - 1] BY <1>2, <1>3, <2>1
    <3> QED BY <1>3, <2>1, <3>1
  <2>2. CASE n # k
    <3>1. n \in 0 .. (k - 1) BY <1>2, <2>2
    <3>2. f[n] = g[n] BY <2>2
    <3>3. g[n] = IF n = 0 THEN 0 ELSE g[n - 1] + dis[n].size BY <1>5, <3>1 DEF Sums
    <3>4. n # 0 => f[n - 1] = g[n - 1] BY <1>2, <3>1
    <3> QED BY <3>2, <3>3, <3>4
  <2> QED BY <2>1, <2>2
<1>7. f = [n \in 0 .. k |-> IF n = 0 THEN 0 ELSE f[n - 1] + dis[n].size]
  <2>1. f = [n \in 0 .. k |-> f[n]] OBVIOUS
  <2> HIDE DEF f
  <2> QED BY <1>6, <2>1
<1>8. Sums(f, dis, k) BY <1>7 DEF Sums
<1> QED BY <1>2, <1>8

LEMMA SizesSums ==
  ASSUME NEW dis, Len(dis) \in Nat
  PROVE  \E f : Sums(f, dis, Len(dis)) /\ Sizes(dis) = f[Len(dis)]
<1> DEFINE g == CHOOSE f : f = [n \in 0 .. Len(dis) |-> IF n = 0 THEN 0 ELSE f[n - 1] + dis[n].size]
<1>1. \E f : f = [n \in 0 .. Len(dis) |-> IF n = 0 THEN 0 ELSE f[n - 1] + dis[n].size]
  BY SumsExist DEF Sums
<1>2. Sums(g, dis, Len(dis)) BY <1>1 DEF Sums
<1>3. Sizes(dis) = g[Len(dis)] BY DEF Sizes
<1> QED BY <1>2, <1>3

\* The sizes of a sequence of entries are a natural number.
LEMMA SizesNat ==
  ASSUME NEW dis, Len(dis) \in Nat, \A n \in 1 .. Len(dis) : dis[n].size \in Nat
  PROVE  Sizes(dis) \in Nat
<1>1. PICK f : Sums(f, dis, Len(dis)) /\ Sizes(dis) = f[Len(dis)] BY SizesSums
<1> DEFINE Bad == {n \in 0 .. Len(dis) : f[n] \notin Nat}
<1>2. SUFFICES Bad = {} BY <1>1
<1>3. SUFFICES ASSUME Bad # {} PROVE FALSE OBVIOUS
<1>4. PICK n \in Bad : \A b \in Bad : n <= b
  <2>1. Bad \subseteq Nat OBVIOUS
  <2> HIDE DEF Bad
  <2> QED BY <1>3, <2>1, LeastNat
<1>5. f[n] = IF n = 0 THEN 0 ELSE f[n - 1] + dis[n].size BY <1>1 DEF Sums
<1>6. n # 0 BY <1>5
<1>7. n - 1 \in 0 .. Len(dis) /\ n \in 1 .. Len(dis) BY <1>6
<1>8. f[n - 1] \in Nat BY <1>4, <1>7
<1> QED BY <1>5, <1>6, <1>7, <1>8

\* Entries without a gap between them: the first begins at `from', each of the others
\* where the one before it ends, and the last ends at `to'.
Tiles(dis, from, to) ==
  /\ dis = <<>> => from = to
  /\ dis # <<>> => dis[1].addr = from /\ End(dis[Len(dis)]) = to
  /\ \A n \in 1 .. Len(dis) - 1 : dis[n + 1].addr = End(dis[n])

\* The bytes that such entries have are those from `from' to `to'.
LEMMA SizesTile ==
  ASSUME NEW dis, IsSequence(dis), \A n \in 1 .. Len(dis) : dis[n].size \in Nat /\ dis[n].addr \in Nat,
         NEW from \in Nat, NEW to \in Nat, Tiles(dis, from, to)
  PROVE  from + Sizes(dis) = to
<1>0. Len(dis) \in Nat BY DEF IsSequence
<1>1. PICK f : Sums(f, dis, Len(dis)) /\ Sizes(dis) = f[Len(dis)] BY <1>0, SizesSums
<1>2. CASE dis = <<>>
  <2>1. f[0] = 0 BY <1>0, <1>1 DEF Sums
  <2> QED BY <1>1, <1>2, <2>1 DEF Tiles
<1>3. CASE dis # <<>>
  <2> DEFINE Bad == {n \in 1 .. Len(dis) : ~(f[n] \in Nat /\ from + f[n] = End(dis[n]))}
  <2>1. Len(dis) \in 1 .. Len(dis) BY <1>3 DEF IsSequence
  <2>2. SUFFICES Bad = {} BY <1>1, <1>3, <2>1 DEF Tiles
  <2>3. SUFFICES ASSUME Bad # {} PROVE FALSE OBVIOUS
  <2>4. PICK n \in Bad : \A b \in Bad : n <= b
    <3>1. Bad \subseteq Nat OBVIOUS
    <3> HIDE DEF Bad
    <3> QED BY <2>3, <3>1, LeastNat
  <2>5. f[n] = f[n - 1] + dis[n].size /\ f[0] = 0 BY <1>0, <1>1, SMTT(30) DEF Sums
  <2>6. dis[n].size \in Nat /\ dis[n].addr \in Nat OBVIOUS
  <2>7. n # 1
    <3>1. dis[1].addr = from BY <1>3 DEF Tiles
    <3> QED BY <2>5, <2>6, <3>1 DEF End
  <2>8. n - 1 \in 1 .. Len(dis) - 1 BY <1>0, <2>7
  <2>9. f[n - 1] \in Nat /\ from + f[n - 1] = End(dis[n - 1]) BY <1>0, <2>4, <2>8
  <2>10. dis[n].addr = End(dis[n - 1]) BY <1>0, <2>8 DEF Tiles
  <2> QED BY <2>5, <2>6, <2>9, <2>10 DEF End
<1> QED BY <1>2, <1>3

-----------------------------------------------------------------------------
(* Prefixes: how many bytes they take, and where.                          *)

PsFields == {"start", "last", "decoded", "used", "rexPos", "vexPos", "ext", "unused", "mandatory66",
             "vexV", "vrex", "at"}
\* The prefixes of the instruction at `start', from there to ps.last.
IsPrefixes(ps, start, last) == DOMAIN ps = PsFields /\ ps.start = start /\ ps.last = last

LEMMA NoPrefixesLemma == ASSUME NEW start PROVE IsPrefixes(NoPrefixes(start), start, start)
BY DEF NoPrefixes, IsPrefixes, PsFields

\* What is noted of a prefix moves nothing.
LEMMA NotedLemma ==
  ASSUME NEW ps, NEW start, NEW last, IsPrefixes(ps, start, last), NEW what
  PROVE  /\ IsPrefixes(Use(ps, what), start, last) /\ IsPrefixes(Drop(ps, what), start, last)
         /\ IsPrefixes(IgnoreOf(ps, what), start, last) /\ IsPrefixes(Ignore(ps, what), start, last)
         /\ IsPrefixes(IgnoreAll(ps), start, last)
<1>1. \A pis : IsPrefixes(IgnoreOf(ps, pis), start, last) BY DEF IsPrefixes, PsFields, IgnoreOf
<1>2. IsPrefixes(Use(ps, what), start, last) BY DEF IsPrefixes, PsFields, Use
<1>3. IsPrefixes(Drop(ps, what), start, last) BY DEF IsPrefixes, PsFields, Drop
<1> QED BY <1>1, <1>2, <1>3 DEF Ignore, IgnoreAll

LEMMA ScanOneLemma ==
  ASSUME NEW ps, NEW start, NEW last, IsPrefixes(ps, start, last), NEW index, NEW byte
  PROVE  IsPrefixes(ScanOne(ps, index, byte), start, last)
<1> DEFINE seen  == [ps EXCEPT !.decoded = @ \cup {PrefixOf(byte)}]
           rexed == [seen EXCEPT !.vrex = RexBits(byte), !.rexPos = ps.start + index, !.ext = "REX"]
           noted == IF PrefixOf(byte) = "REX" THEN rexed ELSE seen
           pi    == IndexerOf(PrefixOf(byte))
<1>1. IsPrefixes(seen, start, last) BY DEF IsPrefixes, PsFields
<1>2. IsPrefixes(rexed, start, last) BY <1>1 DEF IsPrefixes, PsFields
<1>3. IsPrefixes(noted, start, last) BY <1>1, <1>2
<1>4. IsPrefixes(Ignore(noted, pi), start, last) BY <1>3, NotedLemma
<1>5. ScanOne(ps, index, byte) = [Ignore(noted, pi) EXCEPT !.at[pi] = index] BY DEF ScanOne, TrackUnused
<1> HIDE DEF noted, pi
<1> QED BY <1>4, <1>5 DEF IsPrefixes, PsFields

\* f[n] is what the loop of prefixes_decode knows after n bytes.
Scans(f, code, start, m) ==
  f = [n \in 0 .. m |-> IF n = 0 THEN NoPrefixes(start) ELSE ScanOne(f[n - 1], n - 1, code[start + n])]

LEMMA ScansExist == ASSUME NEW code, NEW start, NEW m \in Nat PROVE \E f : Scans(f, code, start, m)
<1> DEFINE Bad == {k \in Nat : ~ \E f : Scans(f, code, start, k)}
<1> SUFFICES ASSUME Bad # {} PROVE FALSE OBVIOUS
<1>1. PICK k \in Bad : \A b \in Bad : k <= b
  <2>1. Bad \subseteq Nat OBVIOUS
  <2> HIDE DEF Bad
  <2> QED BY <2>1, LeastNat
<1>2. k \in Nat /\ ~ \E f : Scans(f, code, start, k) OBVIOUS
<1>3. k # 0
  <2> DEFINE e == [n \in 0 .. 0 |-> NoPrefixes(start)]
  <2>1. Scans(e, code, start, 0) BY DEF Scans
  <2> QED BY <1>2, <2>1
<1>4. k - 1 \in Nat /\ k - 1 < k BY <1>2, <1>3
<1>5. PICK g : Scans(g, code, start, k - 1) BY <1>1, <1>4
<1> DEFINE f == [n \in 0 .. k |-> IF n = k THEN ScanOne(g[k - 1], k - 1, code[start + k]) ELSE g[n]]
<1>6. \A n \in 0 .. k : f[n] = IF n = 0 THEN NoPrefixes(start) ELSE ScanOne(f[n - 1], n - 1, code[start + n])
  <2> SUFFICES ASSUME NEW n \in 0 .. k
               PROVE  f[n] = IF n = 0 THEN NoPrefixes(start) ELSE ScanOne(f[n - 1], n - 1, code[start + n])
    OBVIOUS
  <2>1. CASE n = k
    <3>1. f[n - 1] = g[k - 1] BY <1>2, <1>3, <2>1
    <3> QED BY <1>3, <2>1, <3>1
  <2>2. CASE n # k
    <3>1. n \in 0 .. (k - 1) BY <1>2, <2>2
    <3>2. f[n] = g[n] BY <2>2
    <3>3. g[n] = IF n = 0 THEN NoPrefixes(start) ELSE ScanOne(g[n - 1], n - 1, code[start + n])
      BY <1>5, <3>1 DEF Scans
    <3>4. n # 0 => f[n - 1] = g[n - 1] BY <1>2, <3>1
    <3> QED BY <3>2, <3>3, <3>4
  <2> QED BY <2>1, <2>2
<1>7. f = [n \in 0 .. k |-> IF n = 0 THEN NoPrefixes(start) ELSE ScanOne(f[n - 1], n - 1, code[start + n])]
  <2>1. f = [n \in 0 .. k |-> f[n]] OBVIOUS
  <2> HIDE DEF f
  <2> QED BY <1>6, <2>1
<1>8. Scans(f, code, start, k) BY <1>7 DEF Scans
<1> QED BY <1>2, <1>8

LEMMA ScanLemma ==
  ASSUME NEW code, NEW start, NEW m \in Nat
  PROVE  IsPrefixes(Scan(code, start, m), start, start)
<1> DEFINE f == CHOOSE f : f = [n \in 0 .. m |-> IF n = 0 THEN NoPrefixes(start)
                                                ELSE ScanOne(f[n - 1], n - 1, code[start + n])]
<1>1. Scan(code, start, m) = f[m] BY DEF Scan
<1>2. Scans(f, code, start, m)
  <2>1. PICK h : Scans(h, code, start, m) BY ScansExist
  <2>2. h = [n \in 0 .. m |-> IF n = 0 THEN NoPrefixes(start) ELSE ScanOne(h[n - 1], n - 1, code[start + n])]
    BY <2>1 DEF Scans
  <2> QED BY <2>2 DEF Scans
<1> HIDE DEF f
<1> DEFINE Bad == {n \in 0 .. m : ~IsPrefixes(f[n], start, start)}
<1>3. SUFFICES ASSUME Bad # {} PROVE FALSE BY <1>1
<1>4. PICK n \in Bad : \A b \in Bad : n <= b
  <2>1. Bad \subseteq Nat OBVIOUS
  <2> HIDE DEF Bad
  <2> QED BY <1>3, <2>1, LeastNat
<1>5. f[n] = IF n = 0 THEN NoPrefixes(start) ELSE ScanOne(f[n - 1], n - 1, code[start + n])
  BY <1>2 DEF Scans
<1>6. n # 0 BY <1>5, NoPrefixesLemma
<1>7. IsPrefixes(f[n - 1], start, start)
  <2>1. n - 1 \in 0 .. m /\ n - 1 < n BY <1>6
  <2> QED BY <1>4, <2>1
<1> QED BY <1>5, <1>6, <1>7, ScanOneLemma

LEMMA ScanLengthLemma ==
  ASSUME NEW code, NEW start, NEW rest \in Nat, NEW dt
  PROVE  ScanLength(code, start, rest, dt) \in 0 .. rest /\ ScanLength(code, start, rest, dt) <= INST_MAXIMUM_SIZE
<1> DEFINE S == {n \in 0 .. rest : n \in {rest, INST_MAXIMUM_SIZE} \/ ~Scanned(code[start + n + 1], dt)}
<1>1. ScanLength(code, start, rest, dt) = Min(S) BY DEF ScanLength
<1>2. rest \in S /\ S \subseteq Nat OBVIOUS
<1>3. rest >= INST_MAXIMUM_SIZE => INST_MAXIMUM_SIZE \in S BY DEF INST_MAXIMUM_SIZE
<1>4. S \subseteq 0 .. rest OBVIOUS
<1> HIDE DEF S
<1>5. Min(S) \in S /\ \A m \in S : Min(S) <= m BY <1>2, MinNat
<1>6. Min(S) \in 0 .. rest BY <1>4, <1>5
<1>7. Min(S) <= INST_MAXIMUM_SIZE
  <2>1. CASE rest >= INST_MAXIMUM_SIZE BY <1>3, <1>5, <2>1
  <2>2. CASE ~(rest >= INST_MAXIMUM_SIZE) BY <1>6, <2>2 DEF INST_MAXIMUM_SIZE
  <2> QED BY <2>1, <2>2
<1> QED BY <1>1, <1>6, <1>7

LEMMA DecodePrefixesLemma ==
  ASSUME NEW code, NEW start \in Nat, NEW rest \in Nat, NEW dt
  PROVE  LET ps == DecodePrefixes(code, start, rest, dt)
         IN  /\ IsPrefixes(ps, start, ps.last)
             /\ PrefixSize(ps) \in 0 .. rest /\ PrefixSize(ps) <= INST_MAXIMUM_SIZE
             /\ ps.last = start + PrefixSize(ps)
<1> DEFINE n   == ScanLength(code, start, rest, dt)
           ps0 == Scan(code, start, n)
           p == start + n
           ps  == DecodePrefixes(code, start, rest, dt)
<1> SUFFICES \E last \in Int : IsPrefixes(ps, start, last) /\ last - start \in 0 .. rest /\ last - start <= INST_MAXIMUM_SIZE
  <2>1. ASSUME NEW last \in Int, IsPrefixes(ps, start, last), last - start \in 0 .. rest, last - start <= INST_MAXIMUM_SIZE
        PROVE  /\ IsPrefixes(ps, start, ps.last)
               /\ PrefixSize(ps) \in 0 .. rest /\ PrefixSize(ps) <= INST_MAXIMUM_SIZE
               /\ ps.last = start + PrefixSize(ps)
    <3> HIDE DEF ps
    <3> QED BY <2>1 DEF IsPrefixes, PrefixSize, INST_MAXIMUM_SIZE
  <2> QED BY <2>1
<1>1. n \in 0 .. rest /\ n <= INST_MAXIMUM_SIZE BY ScanLengthLemma
<1>2. IsPrefixes(ps0, start, start) BY <1>1, ScanLemma
<1>3. \A ext, bits : IsPrefixes(TakeVex(ps0, p, ext, bits), start, start)
  <2> HIDE DEF ps0, p
  <2> QED BY <1>2 DEF TakeVex, IsPrefixes, PsFields
<1>4. IsPrefixes(Vex2(code, p, dt, ps0), start, start) BY <1>3 DEF Vex2
<1>5. IsPrefixes(Vex3(code, p, dt, ps0), start, start)
  <2>1. PICK v : IsPrefixes(v, start, start) /\ \/ Vex3(code, p, dt, ps0) = v
                                                \/ Vex3(code, p, dt, ps0) = [v EXCEPT !.vrex = @ \ {"B", "X", "R", "W"}]
    BY <1>3 DEF Vex3
  <2> QED BY <2>1 DEF IsPrefixes, PsFields
<1>6. \/ ps = [Vex2(code, p, dt, ps0) EXCEPT !.last = p + 2] /\ VexAt(code, p, rest - n, dt, 2, Vex2b, ps0)
      \/ ps = [Vex3(code, p, dt, ps0) EXCEPT !.last = p + 3] /\ VexAt(code, p, rest - n, dt, 3, Vex3b, ps0)
      \/ ps = [ps0 EXCEPT !.last = p]
  BY DEF DecodePrefixes
<1>7. \A size \in {2, 3} : \A first : VexAt(code, p, rest - n, dt, size, first, ps0) =>
        rest - n >= size /\ n <= INST_MAXIMUM_SIZE - size
  BY <1>1, <1>2 DEF VexAt, IsPrefixes
<1> HIDE DEF ps
<1>8. CASE ps = [Vex2(code, p, dt, ps0) EXCEPT !.last = p + 2] /\ VexAt(code, p, rest - n, dt, 2, Vex2b, ps0)
  <2>1. rest - n >= 2 /\ n <= INST_MAXIMUM_SIZE - 2 BY <1>7, <1>8
  <2>2. IsPrefixes(ps, start, p + 2) BY <1>4, <1>8 DEF IsPrefixes, PsFields
  <2> QED BY <1>1, <2>1, <2>2 DEF INST_MAXIMUM_SIZE
<1>9. CASE ps = [Vex3(code, p, dt, ps0) EXCEPT !.last = p + 3] /\ VexAt(code, p, rest - n, dt, 3, Vex3b, ps0)
  <2>1. rest - n >= 3 /\ n <= INST_MAXIMUM_SIZE - 3 BY <1>7, <1>9
  <2>2. IsPrefixes(ps, start, p + 3) BY <1>5, <1>9 DEF IsPrefixes, PsFields
  <2> QED BY <1>1, <2>1, <2>2 DEF INST_MAXIMUM_SIZE
<1>10. CASE ps = [ps0 EXCEPT !.last = p]
  <2>1. IsPrefixes(ps, start, p) BY <1>2, <1>10 DEF IsPrefixes, PsFields
  <2> QED BY <1>1, <2>1 DEF INST_MAXIMUM_SIZE
<1> QED BY <1>6, <1>8, <1>9, <1>10

\* Prefixes are where the instruction is, as many bytes as there are at most, and at most 15.
LEMMA PrefixesLemma ==
  ASSUME NEW code, NEW dt, NEW at \in Nat, NEW rest \in Nat
  PROVE  LET ps == PrefixesAt(code, dt, at, rest)
         IN  /\ IsPrefixes(ps, at, ps.last)
             /\ PrefixSize(ps) \in 0 .. rest /\ PrefixSize(ps) <= INST_MAXIMUM_SIZE
             /\ ps.last = at + PrefixSize(ps)
<1>1. CASE IsValid(code[at + 1], dt) BY <1>1, DecodePrefixesLemma DEF PrefixesAt
<1>2. CASE ~IsValid(code[at + 1], dt)
  BY <1>2, NoPrefixesLemma DEF PrefixesAt, IsPrefixes, PrefixSize, INST_MAXIMUM_SIZE
<1> QED BY <1>1, <1>2

-----------------------------------------------------------------------------
(* Operands: what they take off the code.  A bound b says where the        *)
(* prefixes begin and end, from which byte on the operands are taken and   *)
(* where the code ends.                                                    *)

DFields == DOMAIN Cleared \cup {"pos", "ps", "ok", "lockable"}

\* However many operands have been taken: nothing has been taken back, every byte
\* taken is counted, and none is taken behind the end.
Within(d, b) ==
  /\ DOMAIN d = DFields
  /\ IsPrefixes(d.ps, b.start, b.last)
  /\ d.pos \in Int /\ d.left \in Nat
  /\ b.from \in Int /\ d.pos >= b.from /\ d.pos + d.left = b.end

LEMMA DFieldsLemma ==
  DFields = {"ii", "mnemonic", "pseudo", "ops", "base", "scale", "dispSize", "segment", "flags", "opSize",
             "adrSize", "fc", "isc", "unused", "size", "addr", "left", "pos", "ps", "ok", "lockable"}
BY DEF DFields, Cleared

\* Of the fields only three say where the decoder is.
LEMMA FieldLemma ==
  ASSUME NEW d, NEW b, Within(d, b), NEW field, field \notin {"pos", "left", "ps"}, NEW v
  PROVE  Within([d EXCEPT ![field] = v], b)
BY DFieldsLemma DEF Within

LEMMA UsesLemma ==
  ASSUME NEW d, NEW b, Within(d, b), NEW prefixes, NEW cond
  PROVE  Within(Uses(d, prefixes), b) /\ Within(UsesIf(d, cond, prefixes), b)
<1>1. \A p : Within(Uses(d, p), b)
  <2> TAKE p
  <2>1. IsPrefixes(Use(d.ps, p), b.start, b.last) BY NotedLemma DEF Within
  <2> QED BY <2>1, DFieldsLemma DEF Within, Uses
<1> QED BY <1>1 DEF UsesIf

LEMMA SetLemma ==
  ASSUME NEW d, NEW b, Within(d, b), NEW n, NEW kind, NEW size, NEW reg
  PROVE  Within(Fails(d), b) /\ Within(SetOp(d, n, kind, size, reg), b) /\ Within(SetReg(d, n, size, reg), b)
<1>1. Within(Fails(d), b) BY FieldLemma DEF Fails
<1>2. \A k : Within(SetOp(d, n, k, size, reg), b) BY DFieldsLemma DEF Within, SetOp
<1> QED BY <1>1, <1>2 DEF SetReg

LEMMA ReadLemma ==
  ASSUME NEW d, NEW b, Within(d, b), NEW size \in Nat
  PROVE  Within(Read(d, size), b)
<1>1. CASE d.left < size BY <1>1, SetLemma DEF Read
<1>2. CASE ~(d.left < size)
  <2> DEFINE e == [d EXCEPT !.pos = @ + size, !.left = @ - size]
  <2>1. e.pos = d.pos + size /\ e.left = d.left - size /\ e.ps = d.ps /\ DOMAIN e = DFields
    BY DFieldsLemma DEF Within
  <2>2. Read(d, size) = e BY <1>2 DEF Read
  <2> HIDE DEF e
  <2>3. IsPrefixes(e.ps, b.start, b.last) BY <2>1 DEF Within
  <2>4. d.pos \in Int /\ d.left \in Nat /\ b.from \in Int /\ d.pos >= b.from /\ d.pos + d.left = b.end BY DEF Within
  <2>5. e.pos \in Int /\ e.left \in Nat /\ e.pos >= b.from /\ e.pos + e.left = b.end BY <1>2, <2>1, <2>4
  <2> QED BY <2>1, <2>2, <2>3, <2>5 DEF Within
<1> QED BY <1>1, <1>2

\* A displacement has whole bytes.
LEMMA DisplacementLemma ==
  ASSUME NEW d, NEW b, Within(d, b), NEW size \in {8, 16, 32, 64}
  PROVE  Within(Displacement(d, size), b)
<1>1. size \div 8 \in Nat OBVIOUS
<1>2. Within(Read(d, size \div 8), b) BY <1>1, ReadLemma
<1> QED BY <1>2, FieldLemma DEF Displacement

LEMMA SegmentLemma ==
  ASSUME NEW c, NEW d, NEW b, Within(d, b), NEW default
  PROVE  Within(UseSegment(c, d, default), b)
<1>1. \A p : Within(Uses(d, p), b) BY UsesLemma
<1>2. \A e, v : Within(e, b) => Within([e EXCEPT !.segment = v], b) BY FieldLemma
<1> QED BY <1>1, <1>2 DEF UseSegment

-----------------------------------------------------------------------------
\* What operands_extract is called with.
IsContext(c) == c.modrm \in 0 .. 255 /\ c.op \in Modes /\ c.adr \in Modes /\ c.dt \in Modes

LEMMA ModLemma == ASSUME NEW c, IsContext(c) PROVE Mod(c) \in 0 .. 3 /\ Rm(c) \in 0 .. 7
BY DEF IsContext, Mod, Rm

LEMMA RmRegLemma ==
  ASSUME NEW c, NEW d, NEW b, Within(d, b), NEW n, NEW size, NEW base, NEW used
  PROVE  Within(RmReg(c, d, n, size, base, used), b) /\ Within(RmWide(c, d, n, size, used), b)
<1>1. Within(Uses(d, used), b) BY UsesLemma
<1>2. \A bs : Within(RmReg(c, d, n, size, bs, used), b) BY <1>1, SetLemma DEF RmReg
<1> QED BY <1>2 DEF RmWide

LEMMA ModrmRegisterLemma ==
  ASSUME NEW c, NEW d, NEW b, Within(d, b), NEW type, NEW n
  PROVE  Within(ModrmRegister(c, d, type, n), b)
<1>1. \A size, base, used : Within(RmReg(c, d, n, size, base, used), b) BY RmRegLemma
<1>2. \A size, used : Within(RmWide(c, d, n, size, used), b) BY RmRegLemma
<1>3. \A size, reg : Within(SetReg(d, n, size, reg), b) BY SetLemma
<1>4. \A size, reg : Within(SetReg(Uses(d, {"REX"}), n, size, reg), b) BY UsesLemma, SetLemma
<1>5. Within(Fails(d), b) BY SetLemma
<1> QED BY <1>1, <1>2, <1>3, <1>4, <1>5, ZenonT(40) DEF ModrmRegister

LEMMA SibLemma ==
  ASSUME NEW c, NEW d, NEW b, Within(d, b), NEW n, NEW sib
  PROVE  Within(Sib(c, d, n, sib), b)
<1>1. \A cond : Within(UsesIf(d, cond, "REX"), b) BY UsesLemma
<1>2. \A cond, kind, size, reg : Within(SetOp(UsesIf(d, cond, "REX"), n, kind, size, reg), b) BY <1>1, SetLemma
<1>3. \A e, v : Within(e, b) => Within([e EXCEPT !.scale = v], b) /\ Within([e EXCEPT !.base = v], b)
  BY FieldLemma
<1> DEFINE index == Ext(d, "X", (sib \div 8) % 8)
           based == sib % 8 # 5 \/ Mod(c) # 0
           gprs  == IF c.adr = 64 THEN REGS64 ELSE REGS32
           base  == gprs + Ext(d, "B", sib % 8)
           used  == UsesIf(d, Has(d, "X") \/ (based /\ Has(d, "B")), "REX")
           size  == d.ops[n].size
           both  == [SetOp(used, n, "MEM", size, gprs + index) EXCEPT !.scale = IF sib < 64 THEN 0 ELSE 2^(sib \div 64)]
<1>4. Within(SetOp(used, n, "SMEM", size, base), b) /\ Within(SetOp(used, n, "DISP", size, 0), b) BY <1>2, Zenon
<1>5. Within(both, b)
  <2>1. Within(SetOp(used, n, "MEM", size, gprs + index), b) BY <1>2, Zenon
  <2> QED BY <1>3, <2>1, Zenon
<1>6. Within([both EXCEPT !.base = base], b)
  <2> HIDE DEF both, base
  <2> QED BY <1>3, <1>5
<1>7. Sib(c, d, n, sib) \in {SetOp(used, n, "SMEM", size, base), SetOp(used, n, "DISP", size, 0),
                            both, [both EXCEPT !.base = base]}
  BY Zenon DEF Sib
<1> HIDE DEF used, size, both, base
<1> QED BY <1>4, <1>5, <1>6, <1>7

LEMMA Memory16Lemma ==
  ASSUME NEW c, IsContext(c), NEW d, NEW b, Within(d, b), NEW n, Mod(c) # 3
  PROVE  Within(Memory16(c, d, n), b)
<1> DEFINE rm    == Rm(c)
           size  == d.ops[n].size
           reg   == SetOp(d, n, IF rm < 4 THEN "MEM" ELSE "SMEM", size, REGS16 + Index16[rm + 1])
           based == IF rm < 4 THEN [reg EXCEPT !.base = REGS16 + Base16[rm + 1]] ELSE reg
           addr  == CASE Mod(c) = 0 /\ rm = 6 -> Displacement(SetOp(d, n, "DISP", size, 0), 16)
                      [] Mod(c) = 0 /\ rm # 6 -> based
                      [] Mod(c) = 1 -> Displacement(based, 8)
                      [] Mod(c) = 2 -> Displacement(based, 16)
<1>1. Within(reg, b) /\ Within(SetOp(d, n, "DISP", size, 0), b) BY SetLemma
<1>2. Within(based, b)
  <2> HIDE DEF reg
  <2> QED BY <1>1, FieldLemma
<1>3. Mod(c) \in 0 .. 2 BY ModLemma
<1>4. Within(addr, b)
  <2> HIDE DEF based
  <2>1. Within(Displacement(based, 8), b) /\ Within(Displacement(based, 16), b)
        /\ Within(Displacement(SetOp(d, n, "DISP", size, 0), 16), b)
    BY <1>1, <1>2, DisplacementLemma
  <2> HIDE DEF size
  <2> QED BY <1>2, <1>3, <2>1
<1> HIDE DEF addr
<1>5. \A default : Within(UseSegment(c, addr, default), b) BY <1>4, SegmentLemma
<1> QED BY <1>5 DEF Memory16, addr

LEMMA Memory32Lemma ==
  ASSUME NEW c, IsContext(c), NEW d, NEW b, Within(d, b), NEW n
  PROVE  Within(Memory32(c, d, n), b)
<1>1. \A kind, size, reg : Within(SetOp(d, n, kind, size, reg), b) BY SetLemma
<1>2. \A kind, size, reg : Within(Displacement(SetOp(d, n, kind, size, reg), 32), b)
  BY <1>1, DisplacementLemma
<1>3. \A e, v : Within(e, b) => Within([e EXCEPT !.flags = v], b) BY FieldLemma
<1>4. \A sib : Within(Sib(c, Read(d, 1), n, sib), b) BY ReadLemma, SibLemma
<1>5. \A cond, size, reg : Within(SetOp(UsesIf(d, cond, "REX"), n, "SMEM", size, reg), b) BY UsesLemma, SetLemma
<1>6. Within(Address32(c, d, n), b)
  <2> DEFINE size == d.ops[n].size
             gprs == IF c.adr = 64 THEN REGS64 ELSE REGS32
             sib  == IF Rm(c) = 4 THEN c.code[d.pos + 1] ELSE 0
             addr == IF Rm(c) = 4 THEN Sib(c, Read(d, 1), n, sib)
                     ELSE SetOp(UsesIf(d, Has(d, "B"), "REX"), n, "SMEM", size, gprs + Ext(d, "B", Rm(c)))
  <2>1. Within(addr, b) BY <1>4, <1>5
  <2>2. Within(Displacement(addr, 8), b) /\ Within(Displacement(addr, 32), b)
    <3> HIDE DEF addr
    <3> QED BY <2>1, DisplacementLemma
  <2>3. Within(Displacement(SetOp(d, n, "DISP", size, 0), 32), b) BY <1>2
  <2>4. Within(Fails(d), b) BY SetLemma
  <2> QED BY <1>2, <1>3, <2>1, <2>2, <2>3, <2>4 DEF Address32
<1>7. \A default : Within(UseSegment(c, Address32(c, d, n), default), b) BY <1>6, SegmentLemma
<1> QED BY <1>7 DEF Memory32

LEMMA ModrmLemma ==
  ASSUME NEW c, IsContext(c), NEW d, NEW b, Within(d, b), NEW type \in MemTypes \cup RmTypes, NEW n
  PROVE  Within(Modrm(c, d, type, n), b)
<1> DEFINE e == SetOp(Uses(d, UsedByType(c, d, type)), n, "NONE", MemSize(c, d, type), 0)
<1>1. Within(e, b) BY UsesLemma, SetLemma
<1> HIDE DEF e
<1>2. Within(Fails([e EXCEPT !.lockable = FALSE]), b) BY <1>1, FieldLemma, SetLemma
<1>3. Within(ModrmRegister(c, e, type, n), b) BY <1>1, ModrmRegisterLemma
<1>4. ASSUME Mod(c) # 3 PROVE Within(ModrmMemory(c, e, n), b)
  <2>1. Within(Uses(e, {"ADDR_SIZE"}), b) BY <1>1, UsesLemma
  <2>2. Within([Uses(e, {"ADDR_SIZE"}) EXCEPT !.lockable = TRUE], b) BY <2>1, FieldLemma
  <2> QED BY <1>4, <2>1, <2>2, Memory16Lemma, Memory32Lemma DEF ModrmMemory
<1> QED BY <1>2, <1>3, <1>4 DEF Modrm, e

-----------------------------------------------------------------------------
\* Immediates, registers and implicit memory.
LEMMA ImmediateLemma ==
  ASSUME NEW d, NEW b, Within(d, b), NEW n, NEW kind, NEW size, NEW bytes \in Nat
  PROVE  Within(Immediate(d, n, kind, size, bytes), b)
<1>1. Within(SetOp(d, n, kind, size, 0), b) BY SetLemma
<1> QED BY <1>1, ReadLemma DEF Immediate

LEMMA SignedLemma ==
  ASSUME NEW d, NEW b, Within(d, b)
  PROVE  Within(Signed(d), b)
BY FieldLemma DEF Signed

LEMMA HintLemma ==
  ASSUME NEW c, NEW d, NEW b, Within(d, b)
  PROVE  Within(Hint(c, d), b)
<1>1. \A p : Within(Uses(d, p), b) BY UsesLemma
<1>2. \A e, v : Within(e, b) => Within([e EXCEPT !.flags = v], b) BY FieldLemma
<1> QED BY <1>1, <1>2 DEF Hint

LEMMA RelativeLemma ==
  ASSUME NEW c, NEW d, NEW b, Within(d, b), NEW type, NEW n
  PROVE  Within(Relative(c, d, type, n), b)
<1> DEFINE size == IF type = "RELCB" THEN 8 ELSE IF c.op = 16 THEN 16 ELSE 32
           used == UsesIf(d, type = "RELC_FULL", "OP_SIZE")
<1>1. size \in {8, 16, 32} OBVIOUS
<1>2. Within(used, b) BY UsesLemma
<1> HIDE DEF size, used
<1>3. size \div 8 \in Nat BY <1>1
<1>4. Within(Immediate(used, n, "PC", size, size \div 8), b) BY <1>2, <1>3, ImmediateLemma
<1> QED BY <1>4, HintLemma DEF Relative, size, used

LEMMA MemOffsetLemma ==
  ASSUME NEW c, IsContext(c), NEW d, NEW b, Within(d, b), NEW n, NEW size
  PROVE  Within(MemOffset(c, d, n, size), b)
<1>1. Within(SetOp(d, n, "DISP", size, 0), b) BY SetLemma
<1>2. Within(UsesIf(SetOp(d, n, "DISP", size, 0), c.adr # 64, "ADDR_SIZE"), b) BY <1>1, UsesLemma
<1>3. Within(UseSegment(c, UsesIf(SetOp(d, n, "DISP", size, 0), c.adr # 64, "ADDR_SIZE"), "DS"), b)
  BY <1>2, SegmentLemma
<1>4. c.adr \in {8, 16, 32, 64} BY DEF IsContext, Modes
<1> QED BY <1>3, <1>4, DisplacementLemma DEF MemOffset

LEMMA ImmediateOperandLemma ==
  ASSUME NEW c, IsContext(c), NEW d, NEW b, Within(d, b), NEW type, NEW n
  PROVE  Within(ImmediateOperand(c, d, type, n), b)
<1>1. \A e, kind, size : Within(e, b) =>
        /\ Within(Immediate(e, n, kind, size, 1), b) /\ Within(Immediate(e, n, kind, size, 2), b)
        /\ Within(Immediate(e, n, kind, size, 4), b) /\ Within(Immediate(e, n, kind, size, 6), b)
        /\ Within(Immediate(e, n, kind, size, 8), b)
  BY ImmediateLemma
<1>2. \A e : Within(e, b) => Within(Signed(e), b) BY SignedLemma
<1>3. \A p : Within(Uses(d, p), b) BY UsesLemma
<1>4. \A e : Within(e, b) => Within(Imm32(c, e, n), b) BY <1>1, <1>2 DEF Imm32
<1>5. Within(ImmFull(c, d, n), b) BY <1>1, <1>3, <1>4 DEF ImmFull
<1>6. Within(SignedImm8(c, d, n), b) BY <1>1, <1>2, <1>3 DEF SignedImm8
<1>7. Within(Ptr16Full(c, d, n), b) BY <1>1, <1>3 DEF Ptr16Full
<1>8. \A size : Within(MemOffset(c, d, n, size), b) BY MemOffsetLemma
<1>9. Within(SetOp(d, n, "IMM", 8, 0), b) BY SetLemma
<1>10. Within(Relative(c, d, type, n), b) BY RelativeLemma
<1> QED BY <1>1, <1>4, <1>5, <1>6, <1>7, <1>8, <1>9, <1>10 DEF ImmediateOperand

LEMMA NamedRegisterLemma ==
  ASSUME NEW c, NEW d, NEW b, Within(d, b), NEW n
  PROVE  /\ \A reg, bit, rexed : Within(FullReg(c, d, n, reg, bit, rexed), b) /\ Within(Reg8(d, n, reg, bit, rexed), b)
         /\ \A size, base : Within(Named(c, d, n, size, base), b) /\ Within(Quiet(c, d, n, size, base), b)
         /\ \A reg : Within(Vector(d, n, reg), b)
<1>1. \A e, size, reg : Within(e, b) => Within(SetReg(e, n, size, reg), b) BY SetLemma
<1>2. \A p, cond : Within(Uses(d, p), b) /\ Within(UsesIf(d, cond, p), b) BY UsesLemma
<1>3. \A p, size, reg : Within(SetReg(Uses(d, p), n, size, reg), b) BY <1>1, <1>2
<1>4. \A reg, bit, rexed : Within(FullReg(c, d, n, reg, bit, rexed), b) BY <1>3 DEF FullReg
<1>5. \A reg, bit, rexed : Within(Reg8(d, n, reg, bit, rexed), b) BY <1>1, <1>3 DEF Reg8
<1>6. \A size, base : Within(Named(c, d, n, size, base), b) /\ Within(Quiet(c, d, n, size, base), b)
  BY <1>1, <1>2 DEF Named, Quiet
<1>7. \A reg : Within(Vector(d, n, reg), b) BY <1>1 DEF Vector
<1> QED BY <1>4, <1>5, <1>6, <1>7

LEMMA SpecialRegisterLemma ==
  ASSUME NEW c, NEW d, NEW b, Within(d, b), NEW type, NEW n
  PROVE  /\ Within(Reg32Or64(c, d, n), b) /\ Within(CReg(c, d, n), b) /\ Within(DReg(c, d, n), b)
         /\ Within(SReg(c, d, n), b) /\ Within(Seg(c, d, n), b) /\ Within(Acc(c, d, n), b)
         /\ Within(ByImmediate(c, d, type, n), b)
<1>1. \A e, size, reg : Within(e, b) => Within(SetReg(e, n, size, reg), b) BY SetLemma
<1>2. \A p : Within(Uses(d, p), b) BY UsesLemma
<1>3. \A e : Within(e, b) => Within(Fails(e), b) BY SetLemma
<1>4. \A e, size, base : Within(e, b) => Within(Named(c, e, n, size, base), b) BY NamedRegisterLemma
<1>5. Within(Reg32Or64(c, d, n), b) BY <1>2, <1>4 DEF Reg32Or64
<1>6. Within(CReg(c, d, n), b) BY <1>1, <1>2, <1>3 DEF CReg
<1>7. Within(DReg(c, d, n), b) BY <1>1, <1>3 DEF DReg
<1>8. Within(SReg(c, d, n), b) BY <1>1, <1>3 DEF SReg
<1>9. Within(Seg(c, d, n), b) BY <1>1, <1>2 DEF Seg
<1>10. Within(Acc(c, d, n), b) BY <1>1, <1>2 DEF Acc
<1>11. Within(ByImmediate(c, d, type, n), b)
  <2>1. \A e : Within(e, b) => Within(Read(e, 1), b) BY ReadLemma
  <2>2. \A reg : Within(Vector(d, n, reg), b) BY NamedRegisterLemma
  <2> QED BY <1>1, <1>3, <2>1, <2>2 DEF ByImmediate
<1> QED BY <1>5, <1>6, <1>7, <1>8, <1>9, <1>10, <1>11

LEMMA ImplicitLemma ==
  ASSUME NEW c, NEW d, NEW b, Within(d, b), NEW n
  PROVE  /\ Within(Source(c, d, n), b) /\ Within(Destination(c, d, n), b)
         /\ Within(Xlat(c, d, n), b) /\ Within(Svm(c, d, n), b)
<1>1. \A e, kind, size, reg : Within(e, b) => Within(SetOp(e, n, kind, size, reg), b) BY SetLemma
<1>2. \A p, cond : Within(Uses(d, p), b) /\ Within(UsesIf(d, cond, p), b) BY UsesLemma
<1>3. \A reg : Within(StringOp(c, d, n, reg), b) BY <1>1, <1>2 DEF StringOp
<1>4. \A e, v : Within(e, b) => Within([e EXCEPT !.segment = v], b) /\ Within([e EXCEPT !.base = v], b) BY FieldLemma
<1>5. \A e, default : Within(e, b) => Within(UseSegment(c, e, default), b) BY SegmentLemma
<1>6. Within(Source(c, d, n), b) BY <1>3, <1>4, <1>5 DEF Source
<1>7. Within(Destination(c, d, n), b) BY <1>3, <1>4 DEF Destination
<1>8. Within(Xlat(c, d, n), b) BY <1>1, <1>2, <1>4, <1>5 DEF Xlat
<1>9. Within(Svm(c, d, n), b) BY <1>1, <1>2 DEF Svm
<1> QED BY <1>6, <1>7, <1>8, <1>9

LEMMA OpcodeOperandLemma ==
  ASSUME NEW c, NEW d, NEW b, Within(d, b), NEW type \in OpcodeTypes, NEW n
  PROVE  Within(OpcodeOperand(c, d, type, n), b)
<1>1. \A e, m, size, reg : Within(e, b) => Within(SetReg(e, m, size, reg), b) BY SetLemma
<1>2. \A reg, bit, rexed : Within(FullReg(c, d, n, reg, bit, rexed), b) /\ Within(Reg8(d, n, reg, bit, rexed), b)
  BY NamedRegisterLemma
<1>3. type \in {"FPU_SI", "FPU_SSI", "FPU_SIS", "IB_RB", "IB_R_FULL"} BY DEF OpcodeTypes
<1> QED BY <1>1, <1>2, <1>3 DEF OpcodeOperand

LEMMA RegisterOperandLemma ==
  ASSUME NEW c, NEW d, NEW b, Within(d, b), NEW type, NEW n
  PROVE  Within(RegisterOperand(c, d, type, n), b)
<1>1. \A e, size, reg : Within(e, b) => Within(SetReg(e, n, size, reg), b) BY SetLemma
<1>2. \A p, cond : Within(UsesIf(d, cond, p), b) BY UsesLemma
<1>3. \A cond, size, reg : Within(SetReg(UsesIf(d, cond, "REX"), n, size, reg), b) BY <1>1, <1>2
<1>4. \A size, reg : Within(SetReg(d, n, size, reg), b) BY <1>1
<1>5. /\ \A reg, bit, rexed : Within(FullReg(c, d, n, reg, bit, rexed), b) /\ Within(Reg8(d, n, reg, bit, rexed), b)
      /\ \A size, base : Within(Named(c, d, n, size, base), b) /\ Within(Quiet(c, d, n, size, base), b)
      /\ \A reg : Within(Vector(d, n, reg), b)
  BY NamedRegisterLemma
<1>6. /\ Within(Reg32Or64(c, d, n), b) /\ Within(CReg(c, d, n), b) /\ Within(DReg(c, d, n), b)
      /\ Within(SReg(c, d, n), b) /\ Within(Seg(c, d, n), b) /\ Within(Acc(c, d, n), b)
      /\ Within(ByImmediate(c, d, type, n), b)
  BY SpecialRegisterLemma
<1>7. /\ Within(Source(c, d, n), b) /\ Within(Destination(c, d, n), b)
      /\ Within(Xlat(c, d, n), b) /\ Within(Svm(c, d, n), b)
  BY ImplicitLemma
<1>8. Within(Fails(d), b) BY SetLemma
<1> QED BY <1>3, <1>4, <1>5, <1>6, <1>7, <1>8 DEF RegisterOperand

\* An operand takes bytes off the front of what is left, or none.
LEMMA ExtractLemma ==
  ASSUME NEW c, IsContext(c), NEW d, NEW b, Within(d, b), NEW type, NEW n
  PROVE  Within(Extract(c, d, type, n), b)
<1>1. type \in MemTypes \cup RmTypes => Within(Modrm(c, d, type, n), b) BY ModrmLemma
<1>2. Within(ImmediateOperand(c, d, type, n), b) BY ImmediateOperandLemma
<1>3. type \in OpcodeTypes => Within(OpcodeOperand(c, d, type, n), b) BY OpcodeOperandLemma
<1>4. \A size, reg : Within(SetReg(d, n, size, reg), b) BY SetLemma
<1>5. Within(RegisterOperand(c, d, type, n), b) BY RegisterOperandLemma
<1> QED BY <1>1, <1>2, <1>3, <1>4, <1>5, Zenon DEF Extract

LEMMA ExtractAllLemma ==
  ASSUME NEW c, IsContext(c), NEW d, NEW b, Within(d, b), NEW types
  PROVE  Within(ExtractAll(c, d, types), b)
<1> DEFINE taken(e, n) == IF n \in DOMAIN types THEN Extract(c, e, types[n], n) ELSE e
<1>1. \A e, n : Within(e, b) => Within(taken(e, n), b) BY ExtractLemma
<1>2. ExtractAll(c, d, types) = taken(taken(taken(taken(d, 1), 2), 3), 4) BY DEF ExtractAll
<1> HIDE DEF taken
<1> QED BY <1>1, <1>2

-----------------------------------------------------------------------------
(* The walk to the row: the byte that it stands on is taken already.       *)

WalkFields == {"ii", "pos", "left", "ps"}
Standing(w, b) ==
  /\ DOMAIN w = WalkFields
  /\ IsPrefixes(w.ps, b.start, b.last)
  /\ w.pos \in Int /\ w.left \in Int
  /\ b.from \in Int /\ w.pos + 1 >= b.from /\ w.pos + 1 + w.left = b.end

\* The walk has ended: at no row, or with no byte taken that is not there.
Ended(w, b) == w.ii # Null => Standing(w, b) /\ w.left >= 0

LEMMA FoundLemma ==
  ASSUME NEW w, NEW b, Standing(w, b)
  PROVE  /\ \A ii : Standing(Found(w, ii), b) /\ Found(w, ii).ii = ii /\ Found(w, ii).left = w.left
         /\ Ended(NotFound(w), b)
         /\ w.left >= 0 => \A ii : Ended(Found(w, ii), b)
<1>1. \A ii : Standing(Found(w, ii), b) /\ Found(w, ii).ii = ii /\ Found(w, ii).left = w.left
  BY DEF Found, Standing, WalkFields
<1>2. NotFound(w).ii = Null BY <1>1 DEF NotFound
<1> QED BY <1>1, <1>2 DEF Ended

LEMMA EatLemma ==
  ASSUME NEW w, NEW b, Standing(w, b)
  PROVE  Standing(Eat(w), b) /\ Eat(w).left = w.left - 1 /\ Eat(w).pos = w.pos + 1 /\ Eat(w).ps = w.ps
BY DEF Eat, Standing, WalkFields

LEMMA WalkPsLemma ==
  ASSUME NEW w, NEW b, Standing(w, b), NEW ps, IsPrefixes(ps, b.start, b.last)
  PROVE  Standing([w EXCEPT !.ps = ps], b) /\ [w EXCEPT !.ps = ps].left = w.left
BY DEF Standing, WalkFields

LEMMA LookupPrefixedLemma ==
  ASSUME NEW w, NEW b, Standing(w, b), w.left >= 0, NEW table
  PROVE  Ended(LookupPrefixed(table, w), b)
<1> DEFINE seen    == w.ps.decoded \cap (Reps \cup {"OP_SIZE"})
           dropped == IF Mandatory(w.ps) = 0 THEN w.ps ELSE Drop(w.ps, {MandatoryPrefix[Mandatory(w.ps)]})
           ps      == [dropped EXCEPT !.mandatory66 = seen = {"OP_SIZE"}]
           taken   == [w EXCEPT !.ps = ps]
<1>1. IsPrefixes(dropped, b.start, b.last) BY NotedLemma DEF Standing
<1>2. IsPrefixes(ps, b.start, b.last)
  <2> HIDE DEF dropped, seen
  <2> QED BY <1>1 DEF IsPrefixes, PsFields
<1> HIDE DEF ps
<1>3. Standing(taken, b) /\ taken.left >= 0 BY <1>2, WalkPsLemma
<1> HIDE DEF taken
<1>4. Ended(NotFound(w), b) /\ \A ii : Ended(Found(taken, ii), b) BY <1>3, FoundLemma
<1> QED BY <1>4 DEF LookupPrefixed, taken, ps

LEMMA VexLemma ==
  ASSUME NEW code, NEW w, NEW b, Standing(w, b), w.left >= 0, NEW node, NEW index
  PROVE  Ended(VexFirst(code, w, node, index), b)
<1>1. ASSUME NEW v, Standing(v, b), v.left >= 0, NEW table
      PROVE  Ended(VexRow(code, v, table, index), b)
  <2>1. Standing(Eat(v), b) BY <1>1, EatLemma
  <2>2. Ended(NotFound(Eat(v)), b) /\ \A ii : Ended(Found(v, ii), b) BY <1>1, <2>1, FoundLemma
  <2>3. ~(Eat(v).left < 0) => \A ii : Ended(Found(Eat(v), ii), b) BY <2>1, FoundLemma DEF Standing
  <2> QED BY <2>2, <2>3 DEF VexRow
<1>2. \A v : Standing(v, b) /\ v.left >= 0 => Ended(NotFound(v), b) BY FoundLemma
<1>3. ASSUME NEW v, Standing(v, b), v.left >= 0
      PROVE  Ended(VexSecond(code, v, node, index), b)
  BY <1>1, <1>2, <1>3 DEF VexSecond
<1>4. w.left >= 1 => Standing(Eat(w), b) /\ Eat(w).left >= 0 BY EatLemma DEF Standing
<1> QED BY <1>1, <1>2, <1>3, <1>4 DEF VexFirst

\* The row of a mandatory prefix, or of none.
LEMMA RowOrPrefixedLemma ==
  ASSUME NEW w, NEW b, Standing(w, b), w.left >= 0, NEW node
  PROVE  Ended(RowOrPrefixed(node, w), b)
BY FoundLemma, LookupPrefixedLemma DEF RowOrPrefixed

LEMMA OneByteLemma ==
  ASSUME NEW w, NEW b, Standing(w, b), w.left >= 0, NEW byte, NEW node, NEW dt
  PROVE  Ended(OneByte(byte, node, w, dt), b)
<1>1. \A ii : Ended(Found(w, ii), b) BY FoundLemma
<1>2. \A ps, ii : IsPrefixes(ps, b.start, b.last) => Ended([w EXCEPT !.ii = ii, !.ps = ps], b)
  BY DEF Standing, WalkFields, Ended
<1>3. \A p : IsPrefixes(Use(w.ps, p), b.start, b.last) BY NotedLemma DEF Standing
<1>4. IsPrefixes(Ignore(Drop(w.ps, Segments), "SEG"), b.start, b.last) BY NotedLemma DEF Standing
<1>5. \A p, ii : Ended([w EXCEPT !.ii = ii, !.ps = Use(@, p)], b)
  <2> TAKE p, ii
  <2>1. [w EXCEPT !.ii = ii, !.ps = Use(@, p)] = [w EXCEPT !.ii = ii, !.ps = Use(w.ps, p)] 
    BY DEF Standing, WalkFields
  <2> QED BY <1>2, <1>3, <2>1
<1>6. \A ii : Ended([w EXCEPT !.ii = ii, !.ps = Ignore(Drop(@, Segments), "SEG")], b)
  <2> TAKE ii
  <2>1. [w EXCEPT !.ii = ii, !.ps = Ignore(Drop(@, Segments), "SEG")]
          = [w EXCEPT !.ii = ii, !.ps = Ignore(Drop(w.ps, Segments), "SEG")]
    BY DEF Standing, WalkFields
  <2> QED BY <1>2, <1>4, <2>1
<1> QED BY <1>1, <1>5, <1>6 DEF OneByte

LEMMA DividedLemma ==
  ASSUME NEW w, NEW b, Standing(w, b), w.left >= 0, NEW byte, NEW table, NEW wait
  PROVE  Ended(OneDivided(byte, table, w, wait), b) /\ Ended(TwoDivided(byte, table, w), b)
<1>1. Ended(NotFound(w), b) /\ \A ii : Ended(Found(w, ii), b) BY FoundLemma
<1> QED BY <1>1 DEF OneDivided, TwoDivided

LEMMA TwoBytesLemma ==
  ASSUME NEW code, NEW w, NEW b, Standing(w, b), w.left >= 0, NEW byte0, NEW table
  PROVE  Ended(TwoBytes(code, byte0, table, w), b)
<1>1. ASSUME NEW v, Standing(v, b), NEW node
      PROVE  Ended(ThreeBytes(code, node, v), b)
  <2>1. Ended(NotFound(v), b) BY <1>1, FoundLemma
  <2>2. CASE v.left < 0 BY <2>1, <2>2 DEF ThreeBytes
  <2>3. CASE ~(v.left < 0)
    <3>1. v.left >= 0 BY <1>1, <2>3 DEF Standing
    <3>2. \A n : Ended(RowOrPrefixed(n, v), b) BY <1>1, <3>1, RowOrPrefixedLemma
    <3>3. \A byte, t : Ended(TwoDivided(byte, t, v), b) BY <1>1, <3>1, DividedLemma
    <3> QED BY <2>1, <2>3, <3>2, <3>3 DEF ThreeBytes
  <2> QED BY <2>2, <2>3
<1>2. Ended(NotFound(w), b) /\ \A ii : Ended(Found(w, ii), b) BY FoundLemma
<1>3. \A n : Ended(RowOrPrefixed(n, w), b) BY RowOrPrefixedLemma
<1>4. Standing(Eat(w), b) BY EatLemma
<1> QED BY <1>1, <1>2, <1>3, <1>4 DEF TwoBytes

LEMMA OpcodeLemma ==
  ASSUME NEW code, NEW w, NEW b, Standing(w, b), w.left >= 0, NEW dt, NEW wait
  PROVE  Ended(Opcode(code, w, dt, wait), b)
<1> DEFINE w2 == Eat(w)
<1>1. Ended(NotFound(w), b) BY FoundLemma
<1>2. \A byte, node : Ended(OneByte(byte, node, w, dt), b) BY OneByteLemma
<1>3. Standing(w2, b) BY EatLemma
<1> HIDE DEF w2
<1>4. Ended(NotFound(w2), b) BY <1>3, FoundLemma
<1>5. ASSUME ~(w2.left < 0)
      PROVE  /\ \A ii : Ended(Found(w2, ii), b)
             /\ \A byte, table : Ended(OneDivided(byte, table, w2, wait), b)
             /\ \A byte, table : Ended(TwoBytes(code, byte, table, w2), b)
  <2>1. w2.left >= 0 BY <1>3, <1>5 DEF Standing
  <2> QED BY <1>3, <2>1, FoundLemma, DividedLemma, TwoBytesLemma
<1> QED BY <1>1, <1>2, <1>4, <1>5 DEF Opcode, w2

\* Wherever the walk ends at a row: all of the opcode was there, and is counted.
LEMMA LookupLemma ==
  ASSUME NEW code, NEW at \in Nat, NEW rest \in Int, NEW ps, NEW b, NEW dt,
         IsPrefixes(ps, b.start, b.last), b.from = at + 1, b.end = at + rest
  PROVE  Ended(Lookup(code, at, rest, ps, dt), b)
<1> DEFINE w    == [ii |-> Null, pos |-> at, left |-> rest, ps |-> ps]
           wait == Byte(code, w) = WAIT
<1>1. Take(w) = [ii |-> Null, pos |-> at, left |-> rest - 1, ps |-> ps] BY DEF Take
<1>2. Standing(Take(w), b) /\ Take(w).left = rest - 1 BY <1>1 DEF Standing, WalkFields
<1>3. NotFound(w).ii = Null BY DEF NotFound, Found
<1>4. Ended(NotFound(w), b) BY <1>3 DEF Ended
<1>5. Ended(VexLookup(code, w), b)
  <2> DEFINE v     == ((255 - (IF w.ps.ext = "VEX2" THEN code[w.ps.vexPos + 1] ELSE code[w.ps.vexPos + 2])) \div 8) % 16
             taken == [Take(w) EXCEPT !.ps.vexV = v]
  <2>1. Standing(taken, b) /\ taken.left = rest - 1
    <3> HIDE DEF v
    <3>1. taken = [ii |-> Null, pos |-> at, left |-> rest - 1, ps |-> [ps EXCEPT !.vexV = v]] BY <1>1
    <3>2. IsPrefixes([ps EXCEPT !.vexV = v], b.start, b.last) BY DEF IsPrefixes, PsFields
    <3> HIDE DEF taken
    <3> QED BY <3>1, <3>2 DEF Standing, WalkFields
  <2>2. w.left = rest OBVIOUS
  <2>3. w.left >= 1 => \A node, index : Ended(VexFirst(code, taken, node, index), b)
    <3> HIDE DEF taken
    <3> QED BY <2>1, <2>2, VexLemma
  <2> HIDE DEF w
  <2>4. ~(w.left < 1) => w.left >= 1 BY <2>2
  <2> QED BY <1>4, <2>3, <2>4 DEF VexLookup
<1>6. \A v : Ended(v, b) => Ended(VexChecked(v), b)
  <2> SUFFICES ASSUME NEW v, Ended(v, b) PROVE Ended(VexChecked(v), b) OBVIOUS
  <2>1. v.ii # Null => Ended(NotFound(v), b) BY FoundLemma DEF Ended
  <2> QED BY <2>1 DEF VexChecked
<1>7. rest >= 1 => \A d : Ended(Opcode(code, Take(w), dt, d), b)
  <2> HIDE DEF w
  <2> QED BY <1>2, OpcodeLemma
<1> DEFINE e == [Take(Eat(w)) EXCEPT !.ps = IgnoreAll(@)]
<1>8. rest >= 2 => \A d : Ended(Opcode(code, e, dt, d), b)
  <2> DEFINE eaten == Eat(w)
  <2>1. /\ DOMAIN eaten = WalkFields
        /\ eaten.pos = at + 1 /\ eaten.left = rest - 1 /\ eaten.ps = ps
    BY DEF Eat, WalkFields
  <2>2. IsPrefixes(IgnoreAll(ps), b.start, b.last) BY NotedLemma
  <2>3. ASSUME NEW v, DOMAIN v = WalkFields, v.pos = at + 1, v.left = rest - 1, v.ps = ps
        PROVE  LET f == [Take(v) EXCEPT !.ps = IgnoreAll(@)] IN Standing(f, b) /\ f.left = rest - 2
    <3> DEFINE f == [Take(v) EXCEPT !.ps = IgnoreAll(@)]
    <3>1. DOMAIN f = WalkFields /\ f.pos = at + 1 /\ f.left = rest - 2 /\ f.ps = IgnoreAll(ps)
      BY <2>3 DEF Take, WalkFields
    <3> HIDE DEF f
    <3>2. Standing(f, b) BY <2>2, <3>1 DEF Standing
    <3> QED BY <3>1, <3>2 DEF f
  <2>4. Standing(e, b) /\ e.left = rest - 2 BY <2>1, <2>3
  <2> HIDE DEF e
  <2> QED BY <2>4, OpcodeLemma
<1>9. Lookup(code, at, rest, ps, dt)
        = IF "VEX" \in ps.decoded THEN VexChecked(VexLookup(code, w))
          ELSE IF rest < (IF wait THEN 2 ELSE 1) THEN NotFound(w)
          ELSE Opcode(code, IF wait THEN e ELSE Take(w), dt, wait)
  BY DEF Lookup
<1> HIDE DEF w, wait, e
<1> QED BY <1>4, <1>5, <1>6, <1>7, <1>8, <1>9

-----------------------------------------------------------------------------
(* One instruction: from its row to the _DInst.                            *)

LEMMA SuffixLemma ==
  ASSUME NEW c, NEW d, NEW b, Within(d, b)
  PROVE  Within(Suffix(c, d), b)
<1>1. \A e, ii : Within(e, b) => Within(Found(e, ii), b) BY FieldLemma DEF Found
<1>2. \A e : Within(e, b) => Within(NotFound(e), b) BY <1>1 DEF NotFound
<1>3. ASSUME NEW e, Within(e, b), e.left >= 1
      PROVE  Within(Eat(e), b)
  <2> DEFINE f == Eat(e)
  <2>1. f.pos = e.pos + 1 /\ f.left = e.left - 1 /\ f.ps = e.ps /\ DOMAIN f = DFields
    BY <1>3, DFieldsLemma DEF Within, Eat
  <2> HIDE DEF f
  <2>2. Within(f, b) BY <1>3, <2>1 DEF Within
  <2> QED BY <2>2 DEF f
<1>4. \A e, ii : Found(e, ii).left = e.left \/ ~Within(e, b) BY DFieldsLemma DEF Found, Within
<1>5. Within(Lookup3DNow(c.code, d), b)
  <2>1. CASE d.left < 1 BY <1>2, <2>1 DEF Lookup3DNow
  <2>2. CASE ~(d.left < 1)
    <3>1. d.left >= 1 BY <2>2 DEF Within
    <3>2. \A ii : Within(Found(d, ii), b) /\ Found(d, ii).left >= 1 BY <1>1, <1>4, <3>1
    <3> QED BY <1>3, <2>2, <3>2 DEF Lookup3DNow
  <2> QED BY <2>1, <2>2
<1> DEFINE d2 == IF "3DNOW_FETCH" \in c.flags THEN Lookup3DNow(c.code, d) ELSE d
<1>6. Within(d2, b) BY <1>5
<1> HIDE DEF d2
<1>7. Within(Fails(d2), b) BY <1>6, SetLemma
<1>8. ~(d2.left < 1) => \A byte : Within([Eat(d2) EXCEPT !.pseudo = byte], b)
  <2> SUFFICES ASSUME ~(d2.left < 1) PROVE \A byte : Within([Eat(d2) EXCEPT !.pseudo = byte], b) OBVIOUS
  <2>1. d2.left >= 1 BY <1>6 DEF Within
  <2>2. Within(Eat(d2), b) BY <1>3, <1>6, <2>1
  <2> QED BY <2>2, FieldLemma
<1> QED BY <1>6, <1>7, <1>8 DEF Suffix, d2

LEMMA MnemonicLemma ==
  ASSUME NEW c, IsContext(c), NEW d, NEW b, Within(d, b), NEW flags
  PROVE  Within(Mnemonic(c, Prefixed(d, flags), flags), b)
<1>1. \A e, p, cond : Within(e, b) => Within(Uses(e, p), b) /\ Within(UsesIf(e, cond, p), b) BY UsesLemma
<1>2. \A e, v : Within(e, b) => /\ Within([e EXCEPT !.flags = v], b) /\ Within([e EXCEPT !.mnemonic = v], b)
                                /\ Within(Fails(e), b)
  BY FieldLemma, SetLemma
<1>3. \A e, v : Within(e, b) => Within([e EXCEPT !.flags = @ \cup v], b)
  <2> TAKE e, v
  <2> HAVE Within(e, b)
  <2>1. [e EXCEPT !.flags = @ \cup v] = [e EXCEPT !.flags = e.flags \cup v] BY DFieldsLemma DEF Within
  <2> QED BY <1>2, <2>1
<1>4. Within(Prefixed(d, flags), b) BY <1>1, <1>3 DEF Prefixed
<1> DEFINE e == Prefixed(d, flags)
<1> HIDE DEF e
<1>5. Within(e, b) BY <1>4 DEF e
<1>6. \A v, p : Within(Choose(e, v, p), b) BY <1>1, <1>2, <1>5 DEF Choose
<1>7. Within(MnemonicByAddress(c, e, flags), b) BY <1>6 DEF MnemonicByAddress
<1>8. Within(MnemonicBySize(c, e, flags), b) BY <1>2, <1>5, <1>6 DEF MnemonicBySize, IsContext, Modes
<1>9. Within(Mnemonic(c, e, flags), b) BY <1>1, <1>2, <1>7, <1>8 DEF Mnemonic
<1> QED BY <1>9 DEF e

\* A mnemonic takes no byte.
LEMMA MnemonicTakesNone ==
  ASSUME NEW c, IsContext(c), NEW d, NEW b, Within(d, b), NEW flags
  PROVE  Mnemonic(c, Prefixed(d, flags), flags).left = d.left
<1> DEFINE Same(e) == Within(e, b) /\ e.left = d.left
<1>1. \A e, p, cond : Same(e) => Same(Uses(e, p)) /\ Same(UsesIf(e, cond, p))
  <2>1. ASSUME NEW e, NEW p, Same(e) PROVE Same(Uses(e, p))
    <3>1. Within(Uses(e, p), b) BY <2>1, UsesLemma
    <3>2. Uses(e, p).left = e.left BY <2>1, DFieldsLemma DEF Uses, Within
    <3> QED BY <2>1, <3>1, <3>2
  <2> QED BY <2>1 DEF UsesIf
<1>2. \A e, v : Same(e) => Same([e EXCEPT !.flags = @ \cup v]) /\ Same([e EXCEPT !.mnemonic = v]) /\ Same(Fails(e))
  <2> SUFFICES ASSUME NEW e, NEW v, Same(e)
               PROVE  Same([e EXCEPT !.flags = @ \cup v]) /\ Same([e EXCEPT !.mnemonic = v]) /\ Same(Fails(e))
    OBVIOUS
  <2>1. [e EXCEPT !.flags = @ \cup v] = [e EXCEPT !.flags = e.flags \cup v] BY DFieldsLemma DEF Within
  <2>2. Within([e EXCEPT !.flags = e.flags \cup v], b) /\ Within([e EXCEPT !.mnemonic = v], b) /\ Within(Fails(e), b)
    BY FieldLemma, SetLemma
  <2>3. [e EXCEPT !.flags = e.flags \cup v].left = e.left /\ [e EXCEPT !.mnemonic = v].left = e.left /\ Fails(e).left = e.left
    BY DFieldsLemma DEF Within, Fails
  <2> QED BY <2>1, <2>2, <2>3
<1> HIDE DEF Same
<1>3. Same(d) BY DEF Same
<1>4. Same(Prefixed(d, flags)) BY <1>1, <1>2, <1>3 DEF Prefixed
<1> DEFINE e == Prefixed(d, flags)
<1>5. Same(e) BY <1>4
<1> HIDE DEF e
<1>6. \A v, p : Same(Choose(e, v, p)) BY <1>1, <1>2, <1>5 DEF Choose
<1>7. Same(MnemonicByAddress(c, e, flags)) BY <1>6 DEF MnemonicByAddress
<1>8. Same(MnemonicBySize(c, e, flags)) BY <1>2, <1>5, <1>6 DEF MnemonicBySize, IsContext, Modes
<1>9. Same(Mnemonic(c, e, flags)) BY <1>1, <1>2, <1>7, <1>8 DEF Mnemonic
<1> QED BY <1>9 DEF e, Same

\* What decode_inst has made: if it is an instruction, it has a byte at least, 15 at
\* most with its prefixes, and as many are left as are behind it.
Made(d, b) ==
  d.ok => /\ DOMAIN d = DFields
          /\ d.size \in Int /\ d.size >= 1
          /\ d.left \in Nat /\ b.last + d.size + d.left = b.end
          /\ b.last + d.size - b.start <= INST_MAXIMUM_SIZE

LEMMA FinishLemma ==
  ASSUME NEW c, IsContext(c), NEW d, NEW b, Within(d, b), b.last \in Nat, b.start \in Nat, b.from = b.last + 1
  PROVE  Made(Finish(c, d, b.last), b)
<1> DEFINE flags == d.ii.flags
           m     == Mnemonic(c, Prefixed(d, flags), flags)
<1>1. Within(m, b) /\ m.left = d.left BY MnemonicLemma, MnemonicTakesNone
<1>2. ~Fails(d).ok BY DFieldsLemma DEF Within, Fails
<1>3. CASE ~d.ok \/ d.pos - d.ps.start > INST_MAXIMUM_SIZE \/ ~m.ok
  <2>1. Finish(c, d, b.last) = Fails(d) BY <1>3 DEF Finish
  <2> QED BY <1>2, <2>1 DEF Made
<1>4. CASE ~(~d.ok \/ d.pos - d.ps.start > INST_MAXIMUM_SIZE \/ ~m.ok)
  <2> DEFINE di == Finish(c, d, b.last)
  <2>1. di.size = d.pos - b.last /\ di.left = m.left /\ DOMAIN di = DFields
    <3>1. di = [m EXCEPT !.opSize = IF ByAddress(flags) THEN 16 ELSE c.op, !.adrSize = c.adr,
                     !.flags = @ \cup (flags \cap {"DST_WR"}), !.unused = SetUnusedMask(m.ps),
                     !.fc = d.ii.meta % 8, !.isc = d.ii.meta \div 8,
                     !.segment = IF @ = {} THEN {"NONE"} ELSE @, !.size = d.pos - b.last]
      BY <1>4 DEF Finish
    <3> HIDE DEF m, flags, di
    <3> QED BY <1>1, <3>1, DFieldsLemma DEF Within
  <2> HIDE DEF m, di
  <2>3. d.ps.start = b.start /\ d.pos \in Int /\ d.pos >= b.last + 1 /\ d.left \in Nat /\ d.pos + d.left = b.end
    BY DEF Within, IsPrefixes
  <2>4. ~(d.pos - b.start > INST_MAXIMUM_SIZE) BY <1>4, <2>3
  <2>5. Made(di, b)
    <3>1. b.end = d.pos + d.left BY <2>3
    <3> QED BY <1>1, <2>1, <2>3, <2>4, <3>1 DEF Made, INST_MAXIMUM_SIZE
  <2> QED BY <2>5 DEF di
<1> QED BY <1>3, <1>4

LEMMA ContextLemma ==
  ASSUME NEW dt \in Modes, NEW decoded, NEW vrex, NEW flags
  PROVE  OpSize(dt, decoded, vrex, flags) \in Modes /\ AdrSize(dt, decoded) \in Modes
BY DEF OpSize, AdrSize, Modes

LEMMA InProgressLemma ==
  ASSUME NEW w
  PROVE  /\ DOMAIN InProgress(w) = DFields
         /\ InProgress(w).pos = w.pos /\ InProgress(w).left = w.left /\ InProgress(w).ps = w.ps
         /\ ~FailedAt(w).ok
<1>1. DOMAIN InProgress(w) = DFields BY DEF InProgress, DFields, Cleared
<1>2. InProgress(w).pos = w.pos /\ InProgress(w).left = w.left /\ InProgress(w).ps = w.ps
  BY DFieldsLemma DEF InProgress, DFields
<1>3. ~FailedAt(w).ok
  <2> DEFINE d == InProgress(w)
  <2> HIDE DEF d
  <2>1. DOMAIN d = DFields BY <1>1 DEF d
  <2>2. ~Fails(d).ok BY <2>1, DFieldsLemma DEF Fails
  <2> QED BY <2>2 DEF FailedAt, d
<1> QED BY <1>1, <1>2, <1>3

LEMMA DecodeOperandsLemma ==
  ASSUME NEW code, NEW w, NEW b, Standing(w, b), NEW modrm \in 0 .. 255, NEW dt \in Modes,
         b.last \in Nat, b.start \in Nat, b.from = b.last + 1
  PROVE  Made(DecodeOperands(code, w, modrm, b.last, dt), b)
<1> DEFINE flags == w.ii.flags
           c     == [code |-> code, dt |-> dt, flags |-> flags, modrm |-> modrm,
                     op |-> OpSize(dt, w.ps.decoded, w.ps.vrex, flags), adr |-> AdrSize(dt, w.ps.decoded),
                     jcc |-> w.ii.table = "InstInfos" /\ w.ii.row \in JccRows]
           d     == InProgress([w EXCEPT !.pos = @ + 1])
           all   == ExtractAll(c, d, OperandTypes(w.ii))
<1>1. IsContext(c) BY ContextLemma DEF IsContext
<1>2. w.left < 0 \/ w.left \in Nat BY DEF Standing
<1>3. w.left \in Nat => Within(d, b)
  <2> DEFINE v == [w EXCEPT !.pos = @ + 1]
  <2>1. v.pos = w.pos + 1 /\ v.left = w.left /\ v.ps = w.ps BY DEF Standing, WalkFields
  <2> HIDE DEF v
  <2>2. /\ DOMAIN InProgress(v) = DFields /\ InProgress(v).pos = v.pos
        /\ InProgress(v).left = v.left /\ InProgress(v).ps = v.ps
    BY InProgressLemma
  <2>3. w.left \in Nat => Within(InProgress(v), b) BY <2>1, <2>2 DEF Standing, Within
  <2> QED BY <2>3 DEF v
<1> HIDE DEF c, d
<1>4. w.left \in Nat => Within(all, b) BY <1>1, <1>3, ExtractAllLemma
<1> HIDE DEF all
<1>5. w.left \in Nat => Made(Complete(c, all, b.last), b)
  <2> SUFFICES ASSUME w.left \in Nat PROVE Made(Complete(c, all, b.last), b) OBVIOUS
  <2>1. Within(Suffix(c, all), b) BY <1>4, SuffixLemma
  <2>2. Made(Finish(c, Suffix(c, all), b.last), b) BY <1>1, <2>1, FinishLemma
  <2> QED BY <2>2 DEF Complete, Made
<1>6. Made(FailedAt(w), b) BY InProgressLemma DEF Made
<1>7. DecodeOperands(code, w, modrm, b.last, dt)
        = IF w.left < 0 \/ ~ModrmValid(modrm, flags) THEN FailedAt(w) ELSE Complete(c, all, b.last)
  BY DEF DecodeOperands, c, d, all
<1> HIDE DEF flags
<1> QED BY <1>2, <1>5, <1>6, <1>7

LEMMA DecodeRowLemma ==
  ASSUME NEW code \in Seq(0 .. 255), NEW found, NEW b, Ended(found, b), NEW dt \in Modes,
         b.last \in Nat, b.start \in Nat, b.from = b.last + 1, b.end = Len(code)
  PROVE  Made(DecodeRow(code, found, b.last, dt), b)
<1> DEFINE flags == found.ii.flags
           taken == [found EXCEPT !.ps = RexOverOpSize(@)]
           w     == AtModrm(taken, flags)
           modrm == IF "MODRM_REQUIRED" \in flags THEN Byte(code, w) ELSE 0
<1>1. CASE found.ii = Null \/ ~ValidIn(flags, dt)
  <2>1. DecodeRow(code, found, b.last, dt) = FailedAt(found) BY <1>1 DEF DecodeRow
  <2> QED BY <2>1, InProgressLemma DEF Made
<1>2. CASE ~(found.ii = Null \/ ~ValidIn(flags, dt))
  <2>1. Standing(found, b) /\ found.left >= 0 BY <1>2 DEF Ended
  <2>2. IsPrefixes(RexOverOpSize(found.ps), b.start, b.last) BY <2>1, NotedLemma DEF Standing, RexOverOpSize
  <2>3. taken = [found EXCEPT !.ps = RexOverOpSize(found.ps)] BY <2>1 DEF Standing, WalkFields
  <2>4. Standing(taken, b) /\ taken.left = found.left BY <2>1, <2>2, <2>3, WalkPsLemma
  <2> HIDE DEF taken, flags
  <2>5. Standing(w, b) BY <2>4, EatLemma DEF AtModrm
  <2> HIDE DEF w
  <2>6. CASE w.left < 0
    <3>1. DecodeRow(code, found, b.last, dt) = FailedAt(w)
      <4>1. DecodeRow(code, found, b.last, dt) = DecodeOperands(code, w, modrm, b.last, dt)
        BY <1>2 DEF DecodeRow, w, taken, flags
      <4> QED BY <2>6, <4>1 DEF DecodeOperands
    <3> QED BY <3>1, InProgressLemma DEF Made
  <2>7. CASE ~(w.left < 0)
    <3>1. modrm \in 0 .. 255
      <4>1. w.pos \in Int /\ w.pos >= b.last /\ w.left \in Nat /\ w.pos + 1 + w.left = Len(code)
        BY <2>5, <2>7 DEF Standing
      <4>2. w.pos + 1 \in 1 .. Len(code) BY <4>1
      <4>3. code[w.pos + 1] \in 0 .. 255
        <5> DEFINE k == w.pos + 1
        <5> HIDE DEF k
        <5>1. k \in 1 .. Len(code) BY <4>2 DEF k
        <5>2. code[k] \in 0 .. 255 BY <5>1, ElementOfSeq
        <5> QED BY <5>2 DEF k
      <4> QED BY <4>3 DEF Byte
    <3> HIDE DEF modrm
    <3>2. Made(DecodeOperands(code, w, modrm, b.last, dt), b) BY <2>5, <3>1, DecodeOperandsLemma
    <3>3. DecodeRow(code, found, b.last, dt) = DecodeOperands(code, w, modrm, b.last, dt)
      BY <1>2 DEF DecodeRow, modrm, w, taken, flags
    <3> QED BY <3>2, <3>3
  <2> QED BY <2>6, <2>7
<1> QED BY <1>1, <1>2

LEMMA EffectiveLemma ==
  ASSUME NEW ps, NEW start, NEW last, IsPrefixes(ps, start, last), NEW dt
  PROVE  IsPrefixes(Effective(ps, dt), start, last)
<1> DEFINE rexless == IF Misplaced(ps) THEN Ignore([Drop(ps, {"REX"}) EXCEPT !.ext = "NONE"], "REX") ELSE ps
<1>1. IsPrefixes(Drop(ps, {"REX"}), start, last) BY NotedLemma
<1>2. IsPrefixes([Drop(ps, {"REX"}) EXCEPT !.ext = "NONE"], start, last) BY <1>1 DEF IsPrefixes, PsFields
<1>3. IsPrefixes(rexless, start, last) BY <1>2, NotedLemma
<1> HIDE DEF rexless
<1>4. IsPrefixes(Drop(rexless, Segments32), start, last) BY <1>3, NotedLemma
<1>5. IsPrefixes(Ignore(Drop(rexless, Segments32), "SEG"), start, last) BY <1>4, NotedLemma
<1> QED BY <1>3, <1>5 DEF Effective, rexless

\* An instruction begins where its prefixes do, is longer than they are, has 15 bytes at
\* most and ends where the code does at the latest.  A byte that is none is one byte,
\* and controls nothing.
IsInstruction(di, ps, end) ==
  /\ di.addr = ps.start
  /\ di.size \in PrefixSize(ps) + 1 .. INST_MAXIMUM_SIZE /\ End(di) <= end
  /\ ~di.ok => di.size = PrefixSize(ps) + 1 /\ di.fc = 0

LEMMA InstructionLemma ==
  ASSUME NEW code \in Seq(0 .. 255), NEW dt \in Modes, NEW at \in Nat, NEW rest \in Nat, at + rest = Len(code),
         ~NothingElse(PrefixesAt(code, dt, at, rest), rest)
  PROVE  LET ps == PrefixesAt(code, dt, at, rest)
         IN  IsInstruction(InstructionAt(code, dt, ps, rest), ps, Len(code))
<1> DEFINE ps == PrefixesAt(code, dt, at, rest)
           b  == [start |-> at, last |-> ps.last, from |-> ps.last + 1, end |-> Len(code)]
           d  == Decode(code, ps.last, rest - PrefixSize(ps), Effective(ps, dt), dt)
           a  == AsDInst(d, code, ps.last)
           di == InstructionAt(code, dt, ps, rest)
<1>1. /\ IsPrefixes(ps, at, ps.last) /\ PrefixSize(ps) \in 0 .. rest /\ PrefixSize(ps) <= INST_MAXIMUM_SIZE
      /\ ps.last = at + PrefixSize(ps)
  BY PrefixesLemma
<1> HIDE DEF ps
<1>2. PrefixSize(ps) < rest /\ PrefixSize(ps) < INST_MAXIMUM_SIZE
  BY <1>1 DEF ps, NothingElse, INST_MAXIMUM_SIZE
<1>3. Made(d, b)
  <2>1. IsPrefixes(Effective(ps, dt), at, ps.last) BY <1>1, EffectiveLemma
  <2>2. ps.last \in Nat /\ rest - PrefixSize(ps) \in Int /\ ps.last + (rest - PrefixSize(ps)) = Len(code) BY <1>1
  <2>3. Ended(Lookup(code, ps.last, rest - PrefixSize(ps), Effective(ps, dt), dt), b)
    <3>1. b.start = at /\ b.last = ps.last /\ b.from = ps.last + 1 /\ b.end = Len(code) OBVIOUS
    <3> HIDE DEF b
    <3> QED BY <2>1, <2>2, <3>1, LookupLemma
  <2>4. b.last \in Nat /\ b.start \in Nat /\ b.from = b.last + 1 /\ b.end = Len(code) /\ b.last = ps.last BY <2>2
  <2> HIDE DEF b
  <2>5. Made(DecodeRow(code, Lookup(code, ps.last, rest - PrefixSize(ps), Effective(ps, dt), dt), b.last, dt), b)
    BY <2>3, <2>4, DecodeRowLemma
  <2> QED BY <2>4, <2>5 DEF Decode
<1>4. /\ d.ok => a.size = d.size /\ a.ok
      /\ ~d.ok => a.size = 1 /\ a.fc = 0
      /\ DOMAIN a = DOMAIN Cleared
  <2> HIDE DEF d
  <2>1. d.ok => a.size = d.size /\ a.ok /\ DOMAIN a = DOMAIN Cleared
    <3> DEFINE f == [field \in DOMAIN Cleared |-> d[field]]
    <3>1. DOMAIN f = DOMAIN Cleared /\ f.size = d.size /\ f.ok = d.ok BY DEF Cleared
    <3>2. d.ok => a = [f EXCEPT !.ii = Row(@.table, @.row)] BY DEF AsDInst
    <3>3. "ok" \in DOMAIN Cleared /\ "size" \in DOMAIN Cleared BY DEF Cleared
    <3> HIDE DEF f, a
    <3> QED BY <3>1, <3>2, <3>3
  <2>2. ~d.ok => a = Dropped(code, ps.last) BY DEF AsDInst
  <2>3. Dropped(code, ps.last).size = 1 /\ Dropped(code, ps.last).fc = 0 /\ DOMAIN Dropped(code, ps.last) = DOMAIN Cleared
    BY DEF Dropped, Cleared
  <2> QED BY <2>1, <2>2, <2>3
<1> HIDE DEF a
<1>5. di.addr = ps.start /\ di.size = a.size + PrefixSize(ps) /\ di.ok = a.ok /\ di.fc = a.fc
  BY <1>4 DEF InstructionAt, a, d, Cleared
<1>6. ps.start = at BY <1>1 DEF IsPrefixes
<1>7. CASE d.ok
  <2>1. b.start = at /\ b.last = ps.last /\ b.end = Len(code) OBVIOUS
  <2> HIDE DEF b, d, di
  <2>2. /\ d.size \in Int /\ d.size >= 1 /\ ps.last + d.size <= Len(code)
        /\ ps.last + d.size - at <= INST_MAXIMUM_SIZE
    <3>1. d.size \in Int /\ d.size >= 1 /\ d.left \in Nat /\ ps.last + d.size + d.left = Len(code)
          /\ ps.last + d.size - at <= INST_MAXIMUM_SIZE
      BY <1>3, <1>7, <2>1 DEF Made
    <3>2. ps.last \in Int BY <1>1
    <3>3. ps.last + d.size <= Len(code) BY <3>1, <3>2
    <3> QED BY <3>1, <3>3
  <2>3. IsInstruction(di, ps, Len(code))
    BY <1>1, <1>4, <1>5, <1>6, <1>7, <2>2 DEF IsInstruction, End, INST_MAXIMUM_SIZE
  <2> QED BY <2>3 DEF di, ps
<1>8. CASE ~d.ok
  <2> HIDE DEF b, d, di
  <2>1. IsInstruction(di, ps, Len(code))
    BY <1>1, <1>2, <1>4, <1>5, <1>6, <1>8 DEF IsInstruction, End, INST_MAXIMUM_SIZE
  <2> QED BY <2>1 DEF di, ps
<1> QED BY <1>7, <1>8

-----------------------------------------------------------------------------
(* The loop and its callers.                                               *)

\* An entry of a listing of a code of `end' bytes.
IsEntry(di, end) == di.addr \in Nat /\ di.size \in 1 .. INST_MAXIMUM_SIZE /\ End(di) <= end
IsListing(dis, end) == IsSequence(dis) /\ \A n \in 1 .. Len(dis) : IsEntry(dis[n], end)

CallOK  == \E calls \in Calls : call \in calls
Placed  == begin \in Nat /\ pos \in Nat /\ left \in Nat /\ begin <= pos /\ pos + left = Len(call.code)
Entered == status \in {"called", "INPUTERR"} => result = <<>> /\ begin = pos
Lawful  == status \in {"decoding", "MEMORYERR"} \/ result # <<>> => Legal
Listing == IsListing(result, Len(call.code)) /\ IsListing(listing, Len(call.code))
\* No more entries than bytes: what Fits rests on.
Thrifty == Len(result) <= pos - begin
\* Without the filter the entries tile the code, and the loop stands behind the last:
\* where any caller resumes.
Tiled == Swept => Tiles(result, begin, pos) /\ pos = IF All = <<>> THEN 0 ELSE End(All[Len(All)])
IInv == CallOK /\ Placed /\ Entered /\ Lawful /\ Listing /\ Thrifty /\ Tiled /\ Fits /\ GetsOn

LEMMA UndecodedLemma ==
  ASSUME NEW at \in Nat, NEW n \in Nat
  PROVE  LET u == Undecoded(at, n)
         IN  /\ IsSequence(u) /\ Len(u) = n
             /\ \A k \in 1 .. n : u[k].addr = at + k - 1 /\ u[k].size = 1 /\ u[k].fc = 0
<1> DEFINE u == Undecoded(at, n)
<1>1. u = [i \in 1 .. n |-> [Cleared EXCEPT !.addr = at + i - 1]] BY DEF Undecoded
<1>2. \A k \in 1 .. n : u[k].addr = at + k - 1 /\ u[k].size = 1 /\ u[k].fc = 0 BY <1>1 DEF Cleared
<1> HIDE DEF u
<1>3. u \in Seq({[Cleared EXCEPT !.addr = at + i - 1] : i \in 1 .. n}) /\ Len(u) = n
  <2> DEFINE e(i) == [Cleared EXCEPT !.addr = at + i - 1]
  <2> HIDE DEF e
  <2>1. u = [i \in 1 .. n |-> e(i)] BY <1>1 DEF e
  <2>2. u \in Seq({e(i) : i \in 1 .. n}) /\ Len(u) = n BY <2>1
  <2> QED BY <2>2 DEF e
<1>4. IsSequence(u) BY <1>3, SequenceLemma
<1> QED BY <1>2, <1>3, <1>4 DEF u

\* Listings one behind the other.
LEMMA BehindLemma ==
  ASSUME NEW end \in Nat, NEW dis, IsListing(dis, end), NEW e, IsListing(e, end)
  PROVE  /\ IsListing(dis \o e, end) /\ Len(dis \o e) = Len(dis) + Len(e)
         /\ e # <<>> => (dis \o e)[Len(dis \o e)] = e[Len(e)]
         /\ e = <<>> => dis \o e = dis
         /\ dis = <<>> => dis \o e = e
         /\ \A from, mid, to : Tiles(dis, from, mid) /\ Tiles(e, mid, to) => Tiles(dis \o e, from, to)
<1> DEFINE u == dis \o e
<1>1. IsSequence(dis) /\ IsSequence(e) BY DEF IsListing
<1>2. /\ IsSequence(u) /\ Len(u) = Len(dis) + Len(e)
      /\ \A n \in 1 .. Len(dis) : u[n] = dis[n]
      /\ \A n \in 1 .. Len(e) : u[Len(dis) + n] = e[n]
  BY <1>1, ConcatLemma
<1>3. Len(dis) \in Nat /\ Len(e) \in Nat BY <1>1 DEF IsSequence
<1>4. (e = <<>> => u = dis) /\ (dis = <<>> => u = e) BY <1>1 DEF IsSequence
<1>5. (e # <<>> => Len(e) \in 1 .. Len(e)) /\ (dis # <<>> => Len(dis) \in 1 .. Len(dis)) BY <1>1 DEF IsSequence
<1> HIDE DEF u
<1>6. \A n \in 1 .. Len(u) : n \in 1 .. Len(dis) \/ (n - Len(dis) \in 1 .. Len(e) /\ u[n] = e[n - Len(dis)])
  <2> TAKE n \in 1 .. Len(u)
  <2>1. CASE n \in 1 .. Len(dis) BY <2>1
  <2>2. CASE n \notin 1 .. Len(dis)
    <3>1. n - Len(dis) \in 1 .. Len(e) /\ Len(dis) + (n - Len(dis)) = n BY <1>2, <1>3, <2>2
    <3> QED BY <1>2, <3>1
  <2> QED BY <2>1, <2>2
<1>7. IsListing(u, end) BY <1>2, <1>6 DEF IsListing
<1>8. e # <<>> => u[Len(u)] = e[Len(e)] BY <1>2, <1>5
<1>9. ASSUME NEW from, NEW mid, NEW to, Tiles(dis, from, mid), Tiles(e, mid, to)
      PROVE  Tiles(u, from, to)
  <2>1. CASE e = <<>> BY <1>4, <1>9, <2>1 DEF Tiles
  <2>2. CASE dis = <<>> BY <1>4, <1>9, <2>2 DEF Tiles
  <2>3. CASE e # <<>> /\ dis # <<>>
    <3>1. 1 \in 1 .. Len(dis) /\ 1 \in 1 .. Len(e) BY <1>3, <1>5, <2>3
    <3>2. u # <<>> /\ u[1].addr = from /\ End(u[Len(u)]) = to BY <1>2, <1>3, <1>8, <1>9, <2>3, <3>1 DEF Tiles
    <3>3. ASSUME NEW n \in 1 .. Len(u) - 1 PROVE u[n + 1].addr = End(u[n])
      <4>1. CASE n \in 1 .. Len(dis) - 1
        <5>1. n + 1 \in 1 .. Len(dis) /\ n \in 1 .. Len(dis) BY <1>3, <4>1
        <5>2. u[n + 1] = dis[n + 1] /\ u[n] = dis[n] BY <1>2, <5>1
        <5> QED BY <1>9, <4>1, <5>2 DEF Tiles
      <4>2. CASE n = Len(dis)
        <5>1. u[n + 1] = e[1] BY <1>2, <3>1, <4>2
        <5>2. u[n] = dis[Len(dis)] BY <1>2, <1>5, <2>3, <4>2
        <5> QED BY <1>9, <2>3, <5>1, <5>2 DEF Tiles
      <4>3. CASE n > Len(dis)
        <5> DEFINE k == n - Len(dis)
        <5>1. k \in 1 .. Len(e) - 1 /\ k \in 1 .. Len(e) /\ k + 1 \in 1 .. Len(e) BY <1>2, <1>3, <4>3
        <5>2. Len(dis) + k = n /\ Len(dis) + (k + 1) = n + 1 BY <1>3, <4>3
        <5> HIDE DEF k
        <5>3. u[n] = e[k] /\ u[n + 1] = e[k + 1] BY <1>2, <5>1, <5>2
        <5> QED BY <1>9, <5>1, <5>3 DEF Tiles
      <4> QED BY <1>2, <1>3, <4>1, <4>2, <4>3
    <3> QED BY <3>2, <3>3 DEF Tiles
  <2> QED BY <2>1, <2>2, <2>3
<1> QED BY <1>2, <1>4, <1>7, <1>8, <1>9 DEF u

\* What the linear sweep lists from an offset on: at least one entry, no more entries
\* than bytes, no gap, and not beyond the code.
LEMMA EntriesLemma ==
  ASSUME NEW asked, asked.code \in Seq(0 .. 255), asked.dt \in Modes, NEW at \in Nat, NEW rest \in Nat,
         at + rest = Len(asked.code), rest > 0
  PROVE  LET e  == EntriesAt(asked, at)
             ps == PrefixesAt(asked.code, asked.dt, at, rest)
             di == InstructionAt(asked.code, asked.dt, ps, rest)
             to == End(e[Len(e)])
         IN  /\ IsListing(e, Len(asked.code)) /\ e # <<>> /\ Tiles(e, at, to)
             /\ to \in Nat /\ Len(e) <= to - at /\ Len(e) >= 1 /\ to <= Len(asked.code)
             /\ IF NothingElse(ps, rest)
                THEN e = Undecoded(at, PrefixSize(ps)) /\ Len(e) = PrefixSize(ps) /\ to = at + PrefixSize(ps)
                     /\ ps.last = to
                ELSE e = EntriesOf(ps, di) /\ Len(e) = (IF di.ok THEN 1 ELSE PrefixSize(ps) + 1) /\ to = at + di.size
             /\ PrefixSize(ps) \in 0 .. INST_MAXIMUM_SIZE /\ Len(e) <= rest /\ Len(e) <= INST_MAXIMUM_SIZE
<1> DEFINE e  == EntriesAt(asked, at)
           ps == PrefixesAt(asked.code, asked.dt, at, rest)
           di == InstructionAt(asked.code, asked.dt, ps, rest)
           to == End(e[Len(e)])
<1>1. Len(asked.code) - at = rest /\ Len(asked.code) \in Nat OBVIOUS
<1>2. /\ ps.start = at /\ PrefixSize(ps) \in 0 .. rest /\ PrefixSize(ps) \in 0 .. INST_MAXIMUM_SIZE
      /\ ps.last = at + PrefixSize(ps)
  BY PrefixesLemma, SMTT(30) DEF IsPrefixes, INST_MAXIMUM_SIZE
<1>3. e = IF NothingElse(ps, rest) THEN Undecoded(at, PrefixSize(ps)) ELSE EntriesOf(ps, di)
  BY <1>1 DEF EntriesAt
<1>4. ~NothingElse(ps, rest) => IsInstruction(di, ps, Len(asked.code)) BY InstructionLemma
<1> HIDE DEF ps, di
<1>5. ASSUME NEW n \in 1 .. INST_MAXIMUM_SIZE, n <= rest
      PROVE  LET u == Undecoded(at, n)
             IN  /\ IsListing(u, Len(asked.code)) /\ u # <<>> /\ Len(u) = n
                 /\ End(u[Len(u)]) = at + n /\ Tiles(u, at, at + n)
  <2> DEFINE u == Undecoded(at, n)
  <2>1. n \in Nat BY DEF INST_MAXIMUM_SIZE
  <2>2. /\ IsSequence(u) /\ Len(u) = n
        /\ \A k \in 1 .. n : u[k].addr = at + k - 1 /\ u[k].size = 1 /\ u[k].fc = 0
    BY <2>1, UndecodedLemma
  <2> HIDE DEF u
  <2>3. n \in 1 .. n /\ 1 \in 1 .. n /\ u # <<>> BY <2>1, <2>2
  <2>4. \A k \in 1 .. n : u[k].addr \in Nat /\ u[k].size \in 1 .. 15 /\ End(u[k]) = at + k BY <2>1, <2>2 DEF End
  <2>5. \A k \in 1 .. n : End(u[k]) <= Len(asked.code) BY <1>1, <1>5, <2>1, <2>4
  <2>6. IsListing(u, Len(asked.code)) BY <2>2, <2>4, <2>5 DEF IsListing, IsEntry, INST_MAXIMUM_SIZE
  <2>7. \A k \in 1 .. Len(u) - 1 : u[k + 1].addr = End(u[k])
    <3> TAKE k \in 1 .. Len(u) - 1
    <3>1. k \in 1 .. n /\ k + 1 \in 1 .. n BY <2>1, <2>2
    <3> QED BY <2>1, <2>2, <2>4, <3>1
  <2>8. Tiles(u, at, at + n) BY <2>2, <2>3, <2>4, <2>7 DEF Tiles
  <2> QED BY <2>2, <2>3, <2>4, <2>6, <2>8 DEF u
<1>6. CASE NothingElse(ps, rest)
  <2>1. PrefixSize(ps) \in 1 .. INST_MAXIMUM_SIZE /\ PrefixSize(ps) <= rest
    BY <1>2, <1>6 DEF NothingElse, INST_MAXIMUM_SIZE
  <2>2. e = Undecoded(at, PrefixSize(ps)) BY <1>3, <1>6
  <2> HIDE DEF e
  <2>3. /\ IsListing(e, Len(asked.code)) /\ e # <<>> /\ Len(e) = PrefixSize(ps)
        /\ to = at + PrefixSize(ps) /\ Tiles(e, at, to)
    BY <1>5, <2>1, <2>2
  <2> HIDE DEF to
  <2>4. to \in Nat /\ Len(e) <= to - at /\ Len(e) >= 1 /\ to <= Len(asked.code) /\ Len(e) <= INST_MAXIMUM_SIZE
    <3>1. Len(e) \in 1 .. INST_MAXIMUM_SIZE /\ Len(e) <= rest /\ to = at + Len(e) BY <2>1, <2>3
    <3>2. \A n \in 1 .. 15 : n <= rest =>
            n \in Nat /\ n >= 1 /\ at + n \in Nat /\ n <= (at + n) - at /\ at + n <= at + rest /\ n <= 15
      OBVIOUS
    <3> QED BY <3>1, <3>2 DEF INST_MAXIMUM_SIZE
  <2> QED BY <1>2, <1>6, <2>1, <2>2, <2>3, <2>4 DEF to, e, ps
<1>7. CASE ~NothingElse(ps, rest) /\ ~di.ok
  <2>1. di.size = PrefixSize(ps) + 1 /\ PrefixSize(ps) + 1 \in 1 .. INST_MAXIMUM_SIZE /\ PrefixSize(ps) + 1 <= rest
    <3>1. PrefixSize(ps) < rest /\ PrefixSize(ps) < INST_MAXIMUM_SIZE
      BY <1>2, <1>7, SMTT(30) DEF NothingElse, INST_MAXIMUM_SIZE
    <3>2. di.size = PrefixSize(ps) + 1 BY <1>4, <1>7 DEF IsInstruction
    <3>3. \A n \in 0 .. rest : n < rest /\ n < 15 => n + 1 \in 1 .. 15 /\ n + 1 <= rest OBVIOUS
    <3>4. PrefixSize(ps) \in 0 .. rest BY <1>2
    <3> QED BY <3>1, <3>2, <3>3, <3>4 DEF INST_MAXIMUM_SIZE
  <2>2. e = Undecoded(at, PrefixSize(ps) + 1) /\ e = EntriesOf(ps, di) BY <1>2, <1>3, <1>7 DEF EntriesOf, Undecodable
  <2> HIDE DEF e
  <2>3. /\ IsListing(e, Len(asked.code)) /\ e # <<>> /\ Len(e) = PrefixSize(ps) + 1
        /\ to = at + (PrefixSize(ps) + 1) /\ Tiles(e, at, to)
    BY <1>5, <2>1, <2>2
  <2> HIDE DEF to
  <2>4. to \in Nat /\ Len(e) <= to - at /\ Len(e) >= 1 /\ to <= Len(asked.code) /\ Len(e) <= INST_MAXIMUM_SIZE
    <3>1. Len(e) \in 1 .. INST_MAXIMUM_SIZE /\ Len(e) <= rest /\ to = at + Len(e) BY <2>1, <2>3
    <3>2. \A n \in 1 .. 15 : n <= rest =>
            n \in Nat /\ n >= 1 /\ at + n \in Nat /\ n <= (at + n) - at /\ at + n <= at + rest /\ n <= 15
      OBVIOUS
    <3> QED BY <3>1, <3>2 DEF INST_MAXIMUM_SIZE
  <2> QED BY <1>2, <1>7, <2>1, <2>2, <2>3, <2>4 DEF to, e, ps, di
<1>8. CASE ~NothingElse(ps, rest) /\ di.ok
  <2>1. /\ di.addr = at /\ di.size \in 1 .. INST_MAXIMUM_SIZE /\ End(di) <= Len(asked.code)
        /\ End(di) = at + di.size /\ di.size \in Nat
    <3>1. di.addr = at /\ di.size \in PrefixSize(ps) + 1 .. INST_MAXIMUM_SIZE /\ End(di) <= Len(asked.code)
      BY <1>2, <1>4, <1>8 DEF IsInstruction
    <3>2. End(di) = at + di.size BY <3>1 DEF End
    <3>3. \A n \in 0 .. 15 : \A m \in n + 1 .. 15 : m \in 1 .. 15 /\ m \in Nat OBVIOUS
    <3>4. PrefixSize(ps) \in 0 .. INST_MAXIMUM_SIZE BY <1>2
    <3> QED BY <3>1, <3>2, <3>3, <3>4 DEF INST_MAXIMUM_SIZE
  <2>2. e = <<di>> /\ e = EntriesOf(ps, di) BY <1>3, <1>8 DEF EntriesOf, Undecodable
  <2> HIDE DEF e
  <2>3. e \in Seq({di}) /\ Len(e) = 1 /\ e[1] = di /\ e # <<>> BY <2>2
  <2>4. IsSequence(e) BY <2>3, SequenceLemma
  <2>5. IsListing(e, Len(asked.code)) BY <2>1, <2>3, <2>4 DEF IsListing, IsEntry
  <2>6. to = at + di.size BY <2>1, <2>3
  <2>7. Tiles(e, at, to) BY <2>1, <2>3, <2>6 DEF Tiles
  <2> HIDE DEF to
  <2>8. to \in Nat /\ Len(e) <= to - at /\ Len(e) >= 1 /\ to <= Len(asked.code) /\ Len(e) <= INST_MAXIMUM_SIZE /\ Len(e) <= rest
    <3>1. to \in Nat /\ to <= Len(asked.code) BY <2>1, <2>6
    <3>2. Len(e) <= to - at
      <4>1. \A m \in 1 .. 15 : 1 <= (at + m) - at OBVIOUS
      <4> QED BY <2>1, <2>3, <2>6, <4>1 DEF INST_MAXIMUM_SIZE
    <3>3. Len(e) >= 1 /\ Len(e) <= INST_MAXIMUM_SIZE /\ Len(e) <= rest BY <2>3 DEF INST_MAXIMUM_SIZE
    <3> QED BY <3>1, <3>2, <3>3
  <2> QED BY <1>2, <1>8, <2>2, <2>3, <2>5, <2>6, <2>7, <2>8 DEF to, e, ps, di
<1> QED BY <1>6, <1>7, <1>8

\* What the filter lets through of the entries for one instruction.
Picked(e) == IF FCOnly /\ \A n \in 1 .. Len(e) : ~ControlsFlow(e[n]) THEN <<>> ELSE e

LEMMA CallLemma ==
  ASSUME CallOK
  PROVE  call.code \in Seq(0 .. 255) /\ call.max \in Nat /\ Len(call.code) \in Nat
BY CallsAssumption DEF CallOK

\* In the loop the linear sweep has entries at pos.
LEMMA AheadLemma ==
  ASSUME IInv, InLoop
  PROVE  LET e  == EntriesAt(call, pos)
             ps == PrefixesAt(call.code, call.dt, pos, left)
             di == InstructionAt(call.code, call.dt, ps, left)
             to == End(e[Len(e)])
         IN  /\ IsListing(e, Len(call.code)) /\ e # <<>> /\ Tiles(e, pos, to)
             /\ to \in Nat /\ Len(e) <= to - pos /\ Len(e) >= 1 /\ to <= Len(call.code)
             /\ IF NothingElse(ps, left)
                THEN e = Undecoded(pos, PrefixSize(ps)) /\ Len(e) = PrefixSize(ps) /\ to = pos + PrefixSize(ps)
                     /\ ps.last = to
                ELSE e = EntriesOf(ps, di) /\ Len(e) = (IF di.ok THEN 1 ELSE PrefixSize(ps) + 1) /\ to = pos + di.size
             /\ PrefixSize(ps) \in 0 .. INST_MAXIMUM_SIZE /\ Len(e) <= left /\ Len(e) <= INST_MAXIMUM_SIZE
<1>1. pos \in Nat /\ left \in Nat /\ pos + left = Len(call.code) /\ left > 0 BY DEF IInv, Placed, InLoop
<1>2. call.code \in Seq(0 .. 255) BY CallLemma DEF IInv
<1>3. call.dt \in Modes BY DEF IInv, Lawful, Legal, InLoop
<1> HIDE DEF IInv, InLoop
<1> QED BY <1>1, <1>2, <1>3, EntriesLemma

\* A turn of the loop lists them all, filters them all, or lists none for want of room.
NoRoom(n) == n \in 1 .. INST_MAXIMUM_SIZE /\ n <= left /\ ~HasRoom(n)
Adds(e) ==
  /\ result' = result \o Picked(e)
  /\ pos' = End(e[Len(e)]) /\ left' = left - (pos' - pos)
  /\ Picked(e) = <<>> \/ HasRoom(Len(e))
  /\ status' \in {"decoding", "SUCCESS"}

LEMMA TurnLemma ==
  ASSUME IInv, Turn
  PROVE  (\E n : NoRoom(n) /\ OutOfRoom) \/ Adds(EntriesAt(call, pos))
<1> DEFINE e  == EntriesAt(call, pos)
           ps == PrefixesAt(call.code, call.dt, pos, left)
           di == InstructionAt(call.code, call.dt, ps, left)
           to == End(e[Len(e)])
<1>1. /\ IsListing(e, Len(call.code)) /\ e # <<>>
      /\ to \in Nat /\ Len(e) >= 1
      /\ IF NothingElse(ps, left)
         THEN e = Undecoded(pos, PrefixSize(ps)) /\ Len(e) = PrefixSize(ps) /\ to = pos + PrefixSize(ps)
              /\ ps.last = to
         ELSE e = EntriesOf(ps, di) /\ Len(e) = (IF di.ok THEN 1 ELSE PrefixSize(ps) + 1) /\ to = pos + di.size
      /\ PrefixSize(ps) \in 0 .. INST_MAXIMUM_SIZE /\ Len(e) <= left /\ Len(e) <= INST_MAXIMUM_SIZE
  BY AheadLemma DEF Turn
<1>2. pos \in Nat /\ left \in Nat /\ status = "decoding" /\ left > 0 BY DEF IInv, Placed, Turn, InLoop
<1>3. IsListing(result, Len(call.code)) BY DEF IInv, Listing
<1>4. Len(call.code) \in Nat BY CallLemma DEF IInv
<1>5. result \o <<>> = result BY <1>3 DEF IsListing, IsSequence
<1>6. Len(e) \in Nat BY <1>1 DEF IsListing, IsSequence
<1>7. NoRoom(Len(e)) \/ HasRoom(Len(e))
  <2> HIDE DEF e, ps, di, to
  <2>1. Len(e) >= 1 /\ Len(e) <= left /\ Len(e) <= INST_MAXIMUM_SIZE BY <1>1
  <2>2. Len(e) \in 1 .. INST_MAXIMUM_SIZE
    <3>1. \A n \in Nat : n >= 1 /\ n <= INST_MAXIMUM_SIZE => n \in 1 .. INST_MAXIMUM_SIZE BY DEF INST_MAXIMUM_SIZE
    <3> QED BY <1>6, <2>1, <3>1
  <2> QED BY <2>1, <2>2 DEF NoRoom, HasRoom
<1>8. NoRoom(1) \/ HasRoom(1) BY <1>2 DEF NoRoom, HasRoom, INST_MAXIMUM_SIZE
<1>9. \A n \in Nat : Undecoded(pos, n) = e => \A k \in 1 .. Len(e) : ~ControlsFlow(e[k])
  <2> HIDE DEF e
  <2> TAKE n \in Nat
  <2>1. Len(Undecoded(pos, n)) = n /\ \A k \in 1 .. n : Undecoded(pos, n)[k].fc = 0 BY <1>2, UndecodedLemma
  <2> QED BY <2>1 DEF ControlsFlow
<1>10. IF NothingElse(ps, left) THEN PrefixesOnly(ps) ELSE One(ps) BY DEF Turn
<1> SUFFICES ASSUME ~ \E n : NoRoom(n) /\ OutOfRoom PROVE Adds(e) OBVIOUS
<1> HIDE DEF e, ps, di, to
<1>11. CASE NothingElse(ps, left)
  <2>1. e = Undecoded(pos, PrefixSize(ps)) /\ Len(e) = PrefixSize(ps) /\ to = pos + PrefixSize(ps) /\ ps.last = to
    BY <1>1, <1>11
  <2>2. PrefixSize(ps) \in Nat BY <1>1 DEF INST_MAXIMUM_SIZE
  <2>3. \A k \in 1 .. Len(e) : ~ControlsFlow(e[k]) BY <1>9, <2>1, <2>2
  <2>4. FCOnly \/ HasRoom(PrefixSize(ps)) BY <1>7, <1>10, <1>11, <2>1 DEF PrefixesOnly
  <2>5. /\ result' = IF FCOnly THEN result ELSE result \o e
        /\ pos' = to /\ left' = left - PrefixSize(ps) /\ status' = status
    BY <1>10, <1>11, <2>1, <2>4 DEF PrefixesOnly
  <2>6. Picked(e) = IF FCOnly THEN <<>> ELSE e BY <2>3 DEF Picked
  <2>7. pos' - pos = PrefixSize(ps) BY <1>2, <2>1, <2>2, <2>5
  <2>8. HasRoom(Len(e)) \/ Picked(e) = <<>> BY <2>1, <2>4, <2>6
  <2> QED BY <1>2, <1>5, <2>5, <2>6, <2>7, <2>8 DEF Adds, to
<1>12. CASE ~NothingElse(ps, left)
  <2>1. e = EntriesOf(ps, di) /\ Len(e) = (IF di.ok THEN 1 ELSE PrefixSize(ps) + 1) /\ to = pos + di.size
    BY <1>1, <1>12
  <2>2. HasRoom(1) BY <1>8, <1>10, <1>12 DEF One
  <2>3. Filter(di) \/ DropAll(ps, di) \/ Keep(di) BY <1>10, <1>12, <2>2 DEF One, di
  <2>4. ~di.ok => e = Undecoded(pos, PrefixSize(ps) + 1) /\ di.fc = 0 /\ \A k \in 1 .. Len(e) : ~ControlsFlow(e[k])
    <3>1. ps.start = pos BY <1>2, PrefixesLemma DEF ps, IsPrefixes
    <3>2. call.dt \in Modes /\ call.code \in Seq(0 .. 255) /\ pos + left = Len(call.code)
      BY CallLemma DEF IInv, Lawful, Legal, Turn, InLoop, Placed
    <3>3. IsInstruction(di, ps, Len(call.code)) BY <1>2, <1>12, <3>2, InstructionLemma DEF di, ps
    <3>4. PrefixSize(ps) + 1 \in Nat BY <1>1 DEF INST_MAXIMUM_SIZE
    <3> QED BY <1>9, <2>1, <3>1, <3>3, <3>4 DEF IsInstruction, EntriesOf, Undecodable
  <2>5. di.ok => e = <<di>> /\ Len(e) = 1 BY <2>1 DEF EntriesOf, Undecodable
  <2>6. di.ok => ((\A k \in 1 .. Len(e) : ~ControlsFlow(e[k])) <=> di.fc = 0)
    <3>1. di.ok => e[1] = di BY <2>5
    <3>2. \A m : m = 1 => 1 \in 1 .. m /\ \A k \in 1 .. m : k = 1 OBVIOUS
    <3>3. di.ok => 1 \in 1 .. Len(e) /\ \A k \in 1 .. Len(e) : k = 1 BY <2>5, <3>2
    <3> QED BY <3>1, <3>2, <3>3 DEF ControlsFlow
  <2>7. di.ok => result \o e = Append(result, di)
    <3> DEFINE S == Range(result) \cup {di}
    <3>1. result \in Seq(S) /\ di \in S BY <1>3 DEF IsListing, IsSequence
    <3> HIDE DEF S
    <3>2. result \o <<di>> = Append(result, di) BY <3>1
    <3> QED BY <2>5, <3>2
  <2>8. to - pos = di.size
    <3>1. to = pos + di.size /\ to \in Nat BY <1>1, <2>1
    <3>2. di.size \in Int
      <4>1. call.dt \in Modes /\ call.code \in Seq(0 .. 255) /\ pos + left = Len(call.code)
        BY CallLemma DEF IInv, Lawful, Legal, Turn, InLoop, Placed
      <4>2. IsInstruction(di, ps, Len(call.code)) BY <1>2, <1>12, <4>1, InstructionLemma DEF di, ps
      <4>3. PrefixSize(ps) \in Nat BY <1>1 DEF INST_MAXIMUM_SIZE
      <4> QED BY <4>2, <4>3 DEF IsInstruction, INST_MAXIMUM_SIZE
    <3> QED BY <1>2, <3>1, <3>2
  <2>9. CASE Filter(di)
    <3>1. FCOnly /\ di.fc = 0 /\ pos' = pos + di.size /\ left' = left - di.size /\ result' = result /\ status' = status
      BY <2>9 DEF Filter, Filtered, Advance
    <3>2. Picked(e) = <<>> BY <2>4, <2>6, <3>1 DEF Picked
    <3> QED BY <1>2, <1>5, <2>1, <2>8, <3>1, <3>2 DEF Adds, to
  <2>10. CASE DropAll(ps, di)
    <3>1. ~FCOnly /\ ~di.ok BY <2>4, <2>10 DEF DropAll, Filtered, Undecodable
    <3>2. Picked(e) = e /\ Len(e) = PrefixSize(ps) + 1 BY <2>1, <3>1 DEF Picked
    <3>3. HasRoom(PrefixSize(ps) + 1) BY <1>7, <2>10, <3>2 DEF DropAll
    <3>4. /\ pos' = pos + di.size /\ left' = left - di.size
          /\ result' = result \o Undecoded(pos, PrefixSize(ps) + 1) /\ status' = status
      BY <2>10, <3>3 DEF DropAll, Advance
    <3> QED BY <1>2, <2>1, <2>4, <2>8, <3>1, <3>2, <3>3, <3>4 DEF Adds, to
  <2>11. CASE Keep(di)
    <3>1. di.ok /\ ~(FCOnly /\ di.fc = 0) BY <2>11 DEF Keep, Filtered, Undecodable
    <3>2. Picked(e) = e /\ Len(e) = 1 BY <2>5, <2>6, <3>1 DEF Picked
    <3>3. /\ pos' = pos + di.size /\ left' = left - di.size
          /\ result' = Append(result, di) /\ status' \in {"SUCCESS", status}
      BY <2>11 DEF Keep, Advance
    <3> QED BY <1>2, <2>1, <2>2, <2>7, <2>8, <3>1, <3>2, <3>3 DEF Adds, to
  <2> QED BY <2>3, <2>9, <2>10, <2>11
<1> QED BY <1>11, <1>12

LEMMA EmptyListing == ASSUME NEW end PROVE IsListing(<<>>, end)
<1>1. <<>> \in Seq({}) /\ Len(<<>>) = 0 OBVIOUS
<1>2. IsSequence(<<>>) BY <1>1, SequenceLemma
<1> QED BY <1>1, <1>2 DEF IsListing

\* Nothing changes what is asked.
LEMMA SameCall ==
  ASSUME call' = call
  PROVE  /\ Legal' = Legal /\ FCOnly' = FCOnly /\ Swept' = Swept
         /\ CallOK => CallOK'
BY DEF Legal, FCOnly, Swept, CallOK

LEMMA InitInv == Init => IInv
<1> SUFFICES ASSUME Init PROVE IInv OBVIOUS
<1>1. CallOK BY DEF Init, CallOK
<1>2. call.code \in Seq(0 .. 255) /\ call.max \in Nat /\ Len(call.code) \in Nat BY <1>1, CallLemma
<1>3. Placed BY <1>2 DEF Init, Placed
<1>4. Listing BY EmptyListing DEF Init, Listing
<1>5. Len(result) = 0 /\ All = <<>> BY DEF Init, All
<1>6. Entered /\ Lawful BY DEF Init, Entered, Lawful
<1>7. Thrifty BY <1>5 DEF Init, Thrifty
<1>8. Tiled
  <2>1. Tiles(result, begin, pos) BY DEF Init, Tiles
  <2> QED BY <1>5, <2>1 DEF Init, Tiled
<1>9. Fits /\ GetsOn BY <1>2, <1>5 DEF Init, Fits, GetsOn
<1> QED BY <1>1, <1>3, <1>4, <1>6, <1>7, <1>8, <1>9 DEF IInv

\* An entry of a listing is what GetsOn says.
LEMMA ListingGetsOn ==
  ASSUME IsListing(result, Len(call.code)), status = "MEMORYERR" /\ call.max >= INST_MAXIMUM_SIZE => result # <<>>
  PROVE  GetsOn
<1>1. DOMAIN result = 1 .. Len(result) BY DEF IsListing, IsSequence
<1> QED BY <1>1 DEF GetsOn, IsListing, IsEntry

LEMMA EnterInv == ASSUME IInv, Enter PROVE IInv'
<1>1. /\ result = <<>> /\ begin = pos /\ result' = <<>>
      /\ call' = call /\ begin' = begin /\ pos' = pos /\ left' = left /\ listing' = listing
  BY DEF IInv, Entered, Enter
<1>2. status' \in {"INPUTERR", "SUCCESS", "decoding"} /\ (status' # "INPUTERR" => Legal) BY DEF Enter
<1>3. CallOK' BY <1>1, SameCall DEF IInv
<1>4. Placed' /\ Thrifty' BY <1>1 DEF IInv, Placed, Thrifty
<1>5. Entered' BY <1>1 DEF Entered
<1>6. Lawful' BY <1>1, <1>2, SameCall DEF Lawful
<1>7. Listing' BY <1>1 DEF IInv, Listing
<1>8. All' = All BY <1>1 DEF All
<1>9. Tiled' BY <1>1, <1>8, SameCall DEF IInv, Tiled, Tiles
<1>10. Fits' /\ GetsOn' BY <1>1, <1>2 DEF IInv, Fits, GetsOn
<1> QED BY <1>3, <1>4, <1>5, <1>6, <1>7, <1>9, <1>10 DEF IInv

LEMMA ReturnInv == ASSUME IInv, Return PROVE IInv'
<1>1. /\ status' = "SUCCESS" /\ status = "decoding" /\ result' = result
      /\ call' = call /\ begin' = begin /\ pos' = pos /\ left' = left /\ listing' = listing
  BY DEF Return
<1>2. CallOK' BY <1>1, SameCall DEF IInv
<1>3. Placed' /\ Thrifty' BY <1>1 DEF IInv, Placed, Thrifty
<1>4. Entered' BY <1>1 DEF Entered
<1>5. Lawful' BY <1>1, SameCall DEF IInv, Lawful
<1>6. Listing' BY <1>1 DEF IInv, Listing
<1>7. All' = All BY <1>1 DEF All
<1>8. Tiled' BY <1>1, <1>7, SameCall DEF IInv, Tiled
<1>9. Fits' /\ GetsOn' BY <1>1 DEF IInv, Fits, GetsOn
<1> QED BY <1>2, <1>3, <1>4, <1>5, <1>6, <1>8, <1>9 DEF IInv

\* For want of room: what is listed has filled the array, and what is left to list
\* would fill more of it.
LEMMA OutOfRoomInv ==
  ASSUME IInv, InLoop, NEW n, NoRoom(n), OutOfRoom, UNCHANGED <<call, begin, listing>>
  PROVE  IInv'
<1>1. /\ status' = "MEMORYERR" /\ result' = result
      /\ call' = call /\ begin' = begin /\ pos' = pos /\ left' = left /\ listing' = listing
  BY DEF OutOfRoom
<1>2. CallOK' BY <1>1, SameCall DEF IInv
<1>3. Placed' /\ Thrifty' BY <1>1 DEF IInv, Placed, Thrifty
<1>4. Entered' BY <1>1 DEF Entered
<1>5. Lawful' BY <1>1, SameCall DEF IInv, Lawful, InLoop
<1>6. Listing' BY <1>1 DEF IInv, Listing
<1>7. All' = All BY <1>1 DEF All
<1>8. Tiled' BY <1>1, <1>7, SameCall DEF IInv, Tiled
<1>9. call.max \in Nat /\ Len(call.code) \in Nat BY CallLemma DEF IInv
<1>10. Len(result) \in Nat /\ Len(result) <= pos - begin BY DEF IInv, Listing, IsListing, IsSequence, Thrifty
<1>11. begin \in Nat /\ pos \in Nat /\ left \in Nat /\ pos + left = Len(call.code) BY DEF IInv, Placed
<1>12. n \in 1 .. 15 /\ n <= left /\ ~(Len(result) + n <= call.max)
  BY DEF NoRoom, HasRoom, INST_MAXIMUM_SIZE
<1>13. call.max < Len(call.code) - begin BY <1>9, <1>10, <1>11, <1>12
<1>14. Fits' BY <1>1, <1>13 DEF IInv, Fits
<1>15. call.max >= INST_MAXIMUM_SIZE => result # <<>>
  <2>1. call.max >= INST_MAXIMUM_SIZE => Len(result) # 0 BY <1>9, <1>10, <1>12 DEF INST_MAXIMUM_SIZE
  <2> QED BY <2>1
<1>16. GetsOn' BY <1>1, <1>15 DEF IInv, GetsOn
<1> QED BY <1>2, <1>3, <1>4, <1>5, <1>6, <1>8, <1>14, <1>16 DEF IInv

LEMMA AddsInv ==
  ASSUME IInv, InLoop, Adds(EntriesAt(call, pos)), UNCHANGED <<call, begin, listing>>
  PROVE  IInv'
<1> DEFINE e  == EntriesAt(call, pos)
           to == End(e[Len(e)])
<1>1. /\ IsListing(e, Len(call.code)) /\ e # <<>> /\ Tiles(e, pos, to)
      /\ to \in Nat /\ Len(e) <= to - pos /\ Len(e) >= 1 /\ to <= Len(call.code)
  BY AheadLemma
<1> HIDE DEF e
<1>2. /\ result' = result \o Picked(e) /\ pos' = to /\ left' = left - (to - pos)
      /\ Picked(e) = <<>> \/ HasRoom(Len(e))
      /\ status' \in {"decoding", "SUCCESS"} /\ status = "decoding"
      /\ call' = call /\ begin' = begin /\ listing' = listing
  BY DEF Adds, e, InLoop
<1> HIDE DEF to
<1>3. call.max \in Nat /\ Len(call.code) \in Nat /\ Legal BY CallLemma DEF IInv, Lawful, InLoop
<1>4. begin \in Nat /\ pos \in Nat /\ left \in Nat /\ begin <= pos /\ pos + left = Len(call.code) BY DEF IInv, Placed
<1>5. /\ IsListing(result, Len(call.code)) /\ IsListing(listing, Len(call.code))
      /\ Len(result) <= pos - begin /\ Len(result) <= call.max
  BY DEF IInv, Listing, Thrifty, Fits
<1>6. Len(result) \in Nat /\ Len(e) \in Nat BY <1>1, <1>5 DEF IsListing, IsSequence
<1>7. Picked(e) \in {<<>>, e} BY DEF Picked
<1>8. IsListing(Picked(e), Len(call.code)) /\ Len(Picked(e)) \in {0, Len(e)} BY <1>1, <1>7, EmptyListing
<1>9. IsListing(result', Len(call.code)) /\ Len(result') = Len(result) + Len(Picked(e))
  BY <1>2, <1>3, <1>5, <1>8, BehindLemma
<1>10. CallOK' BY <1>2, SameCall DEF IInv
<1>11. Placed' BY <1>1, <1>2, <1>3, <1>4, <1>6 DEF Placed
<1>12. Entered' BY <1>2 DEF Entered
<1>13. Lawful' BY <1>2, <1>3, SameCall DEF Lawful
<1>14. Listing' BY <1>2, <1>5, <1>9 DEF Listing
<1>15. Thrifty'
  <2>1. Len(result') <= Len(result) + Len(e) BY <1>6, <1>8, <1>9
  <2> QED BY <1>1, <1>2, <1>4, <1>5, <1>6, <1>8, <1>9, <2>1 DEF Thrifty
<1>16. Fits'
  <2>1. Len(result') <= call.max
    <3>1. CASE Picked(e) = <<>>
      <4>1. Len(Picked(e)) = 0 BY <3>1
      <4> QED BY <1>5, <1>6, <1>9, <4>1
    <3>2. CASE HasRoom(Len(e)) BY <1>3, <1>5, <1>6, <1>8, <1>9, <3>2 DEF HasRoom
    <3> QED BY <1>2, <3>1, <3>2
  <2> QED BY <1>2, <2>1 DEF Fits
<1>17. GetsOn' 
  <2>1. DOMAIN result' = 1 .. Len(result') BY <1>9 DEF IsListing, IsSequence
  <2> QED BY <1>2, <1>9, <2>1 DEF GetsOn, IsListing, IsEntry
<1>18. Tiled'
  <2> SUFFICES ASSUME Swept PROVE Tiles(result', begin, to) /\ to = IF All' = <<>> THEN 0 ELSE End((All')[Len(All')])
    BY <1>2, SameCall DEF Tiled
  <2>1. Picked(e) = e BY DEF Picked, Swept
  <2>2. result' = result \o e BY <1>2, <2>1
  <2>3. Tiles(result, begin, pos) BY DEF IInv, Tiled
  <2>4. Tiles(result', begin, to) BY <1>1, <1>3, <1>5, <2>2, <2>3, BehindLemma
  <2>5. (result')[Len(result')] = e[Len(e)] BY <1>1, <1>3, <1>5, <2>2, BehindLemma
  <2>6. result' # <<>> BY <1>1, <1>6, <1>9, <2>1
  <2>7. All' = listing \o result' BY <1>2 DEF All
  <2>8. (All')[Len(All')] = e[Len(e)] /\ Len(All') = Len(listing) + Len(result')
    BY <1>3, <1>5, <1>9, <2>5, <2>6, <2>7, BehindLemma
  <2>9. All' # <<>>
    <3>1. Len(listing) \in Nat /\ Len(result') \in Nat /\ Len(result') # 0 BY <1>1, <1>5, <1>6, <1>9, <2>1 DEF IsListing, IsSequence
    <3> QED BY <2>8, <3>1
  <2> QED BY <2>4, <2>8, <2>9 DEF to
<1> QED BY <1>10, <1>11, <1>12, <1>13, <1>14, <1>15, <1>16, <1>17, <1>18 DEF IInv

\* Whoever resumes at n: no gap if n is where the entries end.
LEMMA ResumeInv ==
  ASSUME IInv, NEW n \in Nat, n <= Len(call.code), Resume(n), Swept => n = End(result[Len(result)])
  PROVE  IInv'
<1>1. /\ result # <<>> /\ listing' = listing \o result /\ begin' = n /\ pos' = n
      /\ left' = Len(call.code) - n /\ status' = "called" /\ result' = <<>> /\ call' = call
  BY DEF Resume
<1>2. call.max \in Nat /\ Len(call.code) \in Nat BY CallLemma DEF IInv
<1>3. IsListing(result, Len(call.code)) /\ IsListing(listing, Len(call.code)) BY DEF IInv, Listing
<1>4. IsListing(listing', Len(call.code)) BY <1>1, <1>2, <1>3, BehindLemma
<1>5. CallOK' BY <1>1, SameCall DEF IInv
<1>6. Placed' BY <1>1, <1>2 DEF Placed
<1>7. Entered' /\ Lawful' BY <1>1 DEF Entered, Lawful
<1>8. Listing' BY <1>1, <1>4, EmptyListing DEF Listing
<1>9. Thrifty' BY <1>1 DEF Thrifty
<1>10. Fits' /\ GetsOn' BY <1>1, <1>2 DEF Fits, GetsOn
<1>11. Tiled'
  <2> SUFFICES ASSUME Swept PROVE Tiles(<<>>, n, n) /\ n = IF All' = <<>> THEN 0 ELSE End((All')[Len(All')])
    BY <1>1, SameCall DEF Tiled
  <2>1. Tiles(<<>>, n, n) BY DEF Tiles
  <2>2. All' = listing' BY <1>1, <1>4, EmptyListing, BehindLemma, <1>2 DEF All
  <2>3. (listing')[Len(listing')] = result[Len(result)] /\ Len(listing') = Len(listing) + Len(result)
    BY <1>1, <1>2, <1>3, BehindLemma
  <2>4. listing' # <<>>
    <3>1. Len(listing) \in Nat /\ Len(result) \in Nat /\ Len(result) # 0 BY <1>1, <1>3 DEF IsListing, IsSequence
    <3> QED BY <2>3, <3>1
  <2> QED BY <2>1, <2>2, <2>3, <2>4
<1> QED BY <1>5, <1>6, <1>7, <1>8, <1>9, <1>10, <1>11 DEF IInv

\* The linux example resumes behind the last entry, the python bindings behind as many
\* bytes as the entries have: without the filter that is the same.
LEMMA CallersInv == ASSUME IInv, ResumeMain \/ ResumeDecompose PROVE IInv'
<1>1. IsListing(result, Len(call.code)) BY DEF IInv, Listing
<1>2. result # <<>> BY DEF ResumeMain, ResumeDecompose, Resume
<1>3. Len(result) \in 1 .. Len(result) BY <1>1, <1>2 DEF IsListing, IsSequence
<1>4. /\ \A k \in 1 .. Len(result) : result[k].addr \in Nat /\ result[k].size \in Nat
      /\ End(result[Len(result)]) \in Nat /\ End(result[Len(result)]) <= Len(call.code)
  <2>1. \A k \in 1 .. Len(result) : IsEntry(result[k], Len(call.code)) BY <1>1 DEF IsListing
  <2>2. \A k \in 1 .. Len(result) : result[k].addr \in Nat /\ result[k].size \in Nat
    <3>1. \A v \in 1 .. 15 : v \in Nat OBVIOUS
    <3> QED BY <2>1, <3>1 DEF IsEntry, INST_MAXIMUM_SIZE
  <2>3. \A k \in 1 .. Len(result) : End(result[k]) \in Nat BY <2>2 DEF End
  <2>4. \A k \in 1 .. Len(result) : End(result[k]) <= Len(call.code) BY <2>1 DEF IsEntry
  <2> QED BY <1>3, <2>2, <2>3, <2>4
<1>5. CASE ResumeMain
  <2>1. Resume(End(result[Len(result)])) BY <1>5 DEF ResumeMain, Last
  <2> QED BY <1>4, <2>1, ResumeInv
<1>6. CASE ResumeDecompose
  <2>1. Resume(begin + Sizes(result)) /\ begin + Sizes(result) < Len(call.code) BY <1>6 DEF ResumeDecompose
  <2>2. IsSequence(result) BY <1>1 DEF IsListing
  <2>3. begin + Sizes(result) \in Nat
    <3>1. Sizes(result) \in Nat BY <1>4, <2>2, SizesNat
    <3>2. begin \in Nat BY DEF IInv, Placed
    <3> QED BY <3>1, <3>2
  <2>4. Swept => begin + Sizes(result) = End(result[Len(result)])
    <3> SUFFICES ASSUME Swept PROVE begin + Sizes(result) = End(result[Len(result)]) OBVIOUS
    <3>1. Tiles(result, begin, pos) /\ begin \in Nat /\ pos \in Nat BY DEF IInv, Tiled, Placed
    <3>2. begin + Sizes(result) = pos BY <1>4, <2>2, <3>1, SizesTile
    <3> QED BY <1>2, <3>1, <3>2 DEF Tiles
  <2>5. begin + Sizes(result) <= Len(call.code)
    <3>1. Len(call.code) \in Nat BY CallLemma DEF IInv
    <3> QED BY <2>1, <2>3, <3>1
  <2> QED BY <2>1, <2>3, <2>4, <2>5, ResumeInv
<1> QED BY <1>5, <1>6

LEMMA StepInv == IInv /\ [Next]_vars => IInv'
<1> SUFFICES ASSUME IInv, [Next]_vars PROVE IInv' OBVIOUS
<1>1. CASE Enter BY <1>1, EnterInv
<1>2. CASE Turn
  <2>1. InLoop /\ UNCHANGED <<call, begin, listing>> BY <1>2 DEF Turn
  <2>2. (\E n : NoRoom(n) /\ OutOfRoom) \/ Adds(EntriesAt(call, pos)) BY <1>2, TurnLemma
  <2> QED BY <2>1, <2>2, OutOfRoomInv, AddsInv
<1>3. CASE Return BY <1>3, ReturnInv
<1>4. CASE ResumeMain \/ ResumeDecompose BY <1>4, CallersInv
<1>5. CASE UNCHANGED vars
  <2>1. All' = All BY <1>5 DEF All, vars
  <2>2. CallOK' /\ Placed' /\ Entered' /\ Listing' /\ Thrifty' /\ Fits' /\ GetsOn'
    BY <1>5, SameCall DEF vars, IInv, Placed, Entered, Listing, Thrifty, Fits, GetsOn
  <2>3. Lawful' /\ Tiled' BY <1>5, <2>1, SameCall DEF vars, IInv, Lawful, Tiled
  <2> QED BY <2>2, <2>3 DEF IInv
<1> QED BY <1>1, <1>2, <1>3, <1>4, <1>5 DEF Next

\* No entry is written past the end of the array; an array of as many entries as there
\* are bytes is enough, and one of 15 enough to get on, whatever the code and whoever
\* resumes; and every entry has one to 15 bytes, all of them of the code.
THEOREM RoomEnough == Spec => []EnoughRoom
<1>1. IInv => EnoughRoom BY DEF IInv, EnoughRoom
<1> QED BY <1>1, InitInv, StepInv, PTL DEF Spec

-----------------------------------------------------------------------------
(* The linear sweep.                                                       *)

\* What is listed of a turn ends behind where the turn began.
LEMMA OnwardLemma ==
  ASSUME IInv, InLoop
  PROVE  End(EntriesAt(call, pos)[Len(EntriesAt(call, pos))]) > pos
<1> DEFINE e  == EntriesAt(call, pos)
           to == End(e[Len(e)])
<1>1. IsListing(e, Len(call.code)) /\ to \in Nat /\ Len(e) <= to - pos /\ Len(e) >= 1 BY AheadLemma
<1>2. pos \in Nat BY DEF IInv, Placed
<1>3. Len(e) \in Nat BY <1>1 DEF IsListing, IsSequence
<1> HIDE DEF to
<1>4. to > pos BY <1>1, <1>2, <1>3
<1> QED BY <1>4 DEF to, e

\* A turn of the loop that lists entries is a step of the sweep.
LEMMA SweepTurn ==
  ASSUME IInv, InLoop, Adds(EntriesAt(call, pos)), UNCHANGED <<call, begin, listing>>, Swept
  PROVE  Sweep!Sweep
<1> DEFINE e  == EntriesAt(call, pos)
           to == End(e[Len(e)])
           at == IF Listed = <<>> THEN 0 ELSE End(Last(Listed))
<1>1. /\ IsListing(e, Len(call.code)) /\ e # <<>> /\ Len(e) >= 1 BY AheadLemma
<1>2. call' = call /\ listing' = listing /\ result' = result \o Picked(e) BY DEF Adds
<1>3. Swept' /\ Listed = All /\ Listed' = All' BY <1>2, SameCall DEF Listed
<1>4. at = pos BY <1>3 DEF IInv, Tiled, Last
<1>5. pos < Len(call.code)
  <2>1. pos \in Nat /\ left \in Nat /\ left > 0 /\ pos + left = Len(call.code) BY DEF IInv, Placed, InLoop
  <2> QED BY <2>1
<1> HIDE DEF e
<1>6. Picked(e) = e /\ Sweep!Wanted(e) = e BY DEF Picked, Swept, Sweep!Wanted, FCOnly
<1>7. IsListing(result, Len(call.code)) /\ IsListing(listing, Len(call.code)) /\ Len(call.code) \in Nat
  BY CallLemma DEF IInv, Listing
<1>8. Listed' = Listed \o e
  <2>1. listing \o (result \o e) = (listing \o result) \o e
    <3> DEFINE S == Range(listing) \cup Range(result) \cup Range(e)
    <3>1. listing \in Seq(S) /\ result \in Seq(S) /\ e \in Seq(S) BY <1>1, <1>7 DEF IsListing, IsSequence
    <3> HIDE DEF S
    <3> QED BY <3>1
  <2> QED BY <1>2, <1>3, <1>6, <2>1 DEF All
<1>9. Listed' # <<>> /\ Last(Listed') = e[Len(e)]
  <2>1. IsListing(Listed, Len(call.code)) BY <1>3, <1>7, BehindLemma DEF All
  <2>2. Len(Listed') = Len(Listed) + Len(e) /\ (Listed')[Len(Listed')] = e[Len(e)]
    BY <1>1, <1>7, <1>8, <2>1, BehindLemma
  <2>3. Len(Listed) \in Nat /\ Len(e) \in Nat BY <1>1, <2>1 DEF IsListing, IsSequence
  <2>4. Len(Listed') # 0 BY <1>1, <2>2, <2>3
  <2> QED BY <2>2, <2>4 DEF Last
<1>10. at' = End(e[Len(e)]) BY <1>9
<1>11. at' > at BY <1>4, <1>10, OnwardLemma DEF e
<1> QED BY <1>2, <1>3, <1>4, <1>5, <1>6, <1>8, <1>10, <1>11 DEF Sweep!Sweep, e

LEMMA SweepStutter ==
  ASSUME call' = call, Swept => All' = All
  PROVE  UNCHANGED Sweep!vars
<1>1. Listed' = Listed BY SameCall DEF Listed
<1>2. NoCode' = NoCode BY DEF NoCode
<1> QED BY <1>1, <1>2, SameCall DEF Sweep!vars

LEMMA SweepStep == IInv /\ [Next]_vars => [Sweep!Sweep]_(Sweep!vars)
<1> SUFFICES ASSUME IInv, [Next]_vars PROVE [Sweep!Sweep]_(Sweep!vars) OBVIOUS
<1>1. CASE Enter
  <2>1. call' = call /\ listing' = listing /\ result' = <<>> /\ result = <<>> BY <1>1 DEF Enter, IInv, Entered
  <2> QED BY <2>1, SweepStutter DEF All
<1>2. CASE Turn
  <2>1. InLoop /\ UNCHANGED <<call, begin, listing>> BY <1>2 DEF Turn
  <2>2. (\E n : NoRoom(n) /\ OutOfRoom) \/ Adds(EntriesAt(call, pos)) BY <1>2, TurnLemma
  <2>3. CASE OutOfRoom BY <2>1, <2>3, SweepStutter DEF OutOfRoom, All
  <2>4. CASE Adds(EntriesAt(call, pos)) BY <2>1, <2>4, SweepTurn, SweepStutter
  <2> QED BY <2>2, <2>3, <2>4
<1>3. CASE Return BY <1>3, SweepStutter DEF Return, All
<1>4. CASE ResumeMain \/ ResumeDecompose
  <2>1. call' = call /\ listing' = listing \o result /\ result' = <<>> BY <1>4 DEF ResumeMain, ResumeDecompose, Resume
  <2>2. IsListing(listing, Len(call.code)) /\ IsListing(result, Len(call.code)) /\ Len(call.code) \in Nat
    BY CallLemma DEF IInv, Listing
  <2>3. IsListing(listing \o result, Len(call.code)) BY <2>2, BehindLemma
  <2>4. (listing \o result) \o <<>> = listing \o result BY <2>3 DEF IsListing, IsSequence
  <2> QED BY <2>1, <2>4, SweepStutter DEF All
<1>5. CASE UNCHANGED vars BY <1>5, SweepStutter DEF vars, All
<1> QED BY <1>1, <1>2, <1>3, <1>4, <1>5 DEF Next

\* However small the array and however often the caller resumes, for every code: what is
\* listed is the linear sweep, without a gap, without a repetition.
THEOREM ListsTheSweep == Spec => Sweeps
<1>1. Init => Sweep!Init
  <2> SUFFICES ASSUME Init PROVE Sweep!Init OBVIOUS
  <2>1. All = <<>> BY DEF Init, All
  <2>2. Listed = <<>> BY <2>1 DEF Listed
  <2> QED BY <2>2 DEF Sweep!Init
<1> QED BY <1>1, InitInv, StepInv, SweepStep, PTL DEF Spec, Sweeps, Sweep!Spec

-----------------------------------------------------------------------------
(* The filter.                                                             *)

LEMMA SieveStutter ==
  ASSUME call' = call, Sifted => result' = result /\ pos' = pos
  PROVE  UNCHANGED Sieve!vars
<1>1. Sifted' = Sifted BY SameCall DEF Sifted
<1>2. NoCode' = NoCode BY DEF NoCode
<1> QED BY <1>1, <1>2 DEF Sieve!vars

LEMMA SieveTurn ==
  ASSUME IInv, InLoop, Adds(EntriesAt(call, pos)), UNCHANGED <<call, begin, listing>>, Sifted
  PROVE  Sieve!Sweep
<1> DEFINE e == EntriesAt(call, pos)
<1>1. IsListing(e, Len(call.code)) BY AheadLemma
<1>2. call' = call /\ result' = result \o Picked(e) /\ pos' = End(e[Len(e)]) BY DEF Adds
<1>3. Sifted' BY <1>2, SameCall DEF Sifted
<1>4. pos < Len(call.code)
  <2>1. pos \in Nat /\ left \in Nat /\ left > 0 /\ pos + left = Len(call.code) BY DEF IInv, Placed, InLoop
  <2> QED BY <2>1
<1> HIDE DEF e
<1>5. DOMAIN e = 1 .. Len(e) BY <1>1 DEF IsListing, IsSequence
<1>6. Picked(e) = Sieve!Wanted(e) BY <1>5 DEF Picked, Sifted, FCOnly, Sieve!Wanted
<1>7. pos' > pos BY <1>2, OnwardLemma DEF e
<1> QED BY <1>2, <1>3, <1>4, <1>6, <1>7 DEF Sieve!Sweep, e

LEMMA SieveStep == IInv /\ [Next]_vars => [Sieve!Sweep]_(Sieve!vars)
<1> SUFFICES ASSUME IInv, [Next]_vars PROVE [Sieve!Sweep]_(Sieve!vars) OBVIOUS
<1>1. CASE Enter
  <2>1. call' = call /\ result' = <<>> /\ result = <<>> /\ pos' = pos BY <1>1 DEF Enter, IInv, Entered
  <2> QED BY <2>1, SieveStutter
<1>2. CASE Turn
  <2>1. InLoop /\ UNCHANGED <<call, begin, listing>> BY <1>2 DEF Turn
  <2>2. (\E n : NoRoom(n) /\ OutOfRoom) \/ Adds(EntriesAt(call, pos)) BY <1>2, TurnLemma
  <2>3. CASE OutOfRoom BY <2>1, <2>3, SieveStutter DEF OutOfRoom
  <2>4. CASE Adds(EntriesAt(call, pos)) BY <2>1, <2>4, SieveTurn, SieveStutter
  <2> QED BY <2>2, <2>3, <2>4
<1>3. CASE Return BY <1>3, SieveStutter DEF Return
<1>4. CASE ResumeMain \/ ResumeDecompose
  <2>1. call' = call /\ call.caller # "once" BY <1>4 DEF ResumeMain, ResumeDecompose, Resume
  <2> QED BY <2>1, SieveStutter DEF Sifted
<1>5. CASE UNCHANGED vars BY <1>5, SieveStutter DEF vars
<1> QED BY <1>1, <1>2, <1>3, <1>4, <1>5 DEF Next

\* DF_RETURN_FC_ONLY loses no instruction that controls the flow and lists no other,
\* whatever the code and the array.
THEOREM FilterIsExact == Spec => FilterExact
<1>1. Init => Sieve!Init
  <2> SUFFICES ASSUME Init PROVE Sieve!Init OBVIOUS
  <2>1. result = <<>> /\ pos = 0 BY DEF Init
  <2> QED BY <2>1 DEF Sieve!Init
<1> QED BY <1>1, InitInv, StepInv, SieveStep, PTL DEF Spec, FilterExact, Sieve!Spec

-----------------------------------------------------------------------------
(* The same bytes in another code, where they stand `by' bytes nearer to   *)
(* its beginning, and `less' fewer bytes follow them.                      *)

Moves == [by : Int, less : Int, start : Int, last : Int, rexPos : Int, vexPos : Int]
MovedPrefixes(ps, h) ==
  [ps EXCEPT !.start = h.start, !.last = h.last, !.rexPos = h.rexPos, !.vexPos = h.vexPos]
Moved(d, h) == [d EXCEPT !.pos = @ - h.by, !.left = @ - h.less, !.ps = MovedPrefixes(@, h)]

\* The decoding d, and the same one of the copy.
Copies(d, d2, b, h) == Within(d, b) /\ d2 = Moved(d, h)

\* Not failed yet, and nothing taken that is not there in both codes.
Whole(d, h) == d.ok /\ d.left >= h.less

\* What has become of d is what has become of its copy, unless that is not whole.
Takes(d, e, e2, b, h) ==
  /\ Within(e, b) /\ e.left <= d.left /\ (e.ok => d.ok)
  /\ Whole(e, h) => e2 = Moved(e, h)

\* What the copy says of the prefixes is the same but for where they are.
LEMMA MovedPrefixesLemma ==
  ASSUME NEW ps, NEW h, DOMAIN ps = PsFields
  PROVE  /\ DOMAIN MovedPrefixes(ps, h) = PsFields
         /\ MovedPrefixes(ps, h).decoded = ps.decoded /\ MovedPrefixes(ps, h).used = ps.used
         /\ MovedPrefixes(ps, h).ext = ps.ext /\ MovedPrefixes(ps, h).unused = ps.unused
         /\ MovedPrefixes(ps, h).mandatory66 = ps.mandatory66 /\ MovedPrefixes(ps, h).vexV = ps.vexV
         /\ MovedPrefixes(ps, h).vrex = ps.vrex /\ MovedPrefixes(ps, h).at = ps.at
         /\ MovedPrefixes(ps, h).start = h.start /\ MovedPrefixes(ps, h).last = h.last
         /\ MovedPrefixes(ps, h).rexPos = h.rexPos /\ MovedPrefixes(ps, h).vexPos = h.vexPos
BY DEF MovedPrefixes, PsFields

\* Whatever is noted of a prefix but where it is.
LEMMA MovedNotedLemma ==
  ASSUME NEW ps, NEW h, DOMAIN ps = PsFields, NEW what
  PROVE  /\ Use(MovedPrefixes(ps, h), what) = MovedPrefixes(Use(ps, what), h)
         /\ Drop(MovedPrefixes(ps, h), what) = MovedPrefixes(Drop(ps, what), h)
         /\ IgnoreOf(MovedPrefixes(ps, h), what) = MovedPrefixes(IgnoreOf(ps, what), h)
         /\ Ignore(MovedPrefixes(ps, h), what) = MovedPrefixes(Ignore(ps, what), h)
         /\ IgnoreAll(MovedPrefixes(ps, h)) = MovedPrefixes(IgnoreAll(ps), h)
<1> DEFINE m == MovedPrefixes(ps, h)
<1>0. \A field \in PsFields \ {"start", "last", "rexPos", "vexPos"} : m[field] = ps[field]
  BY DEF MovedPrefixes, PsFields
<1>1. Use(m, what) = MovedPrefixes(Use(ps, what), h)
  BY DEF MovedPrefixes, Use, PsFields
<1>2. Drop(m, what) = MovedPrefixes(Drop(ps, what), h)
  BY DEF MovedPrefixes, Drop, PsFields
<1>3. \A v : [m EXCEPT !.unused = v] = MovedPrefixes([ps EXCEPT !.unused = v], h)
  BY DEF MovedPrefixes, PsFields
<1>4. \A pis : IgnoreOf(m, pis) = MovedPrefixes(IgnoreOf(ps, pis), h)
  <2> TAKE pis
  <2>1. m.unused = ps.unused /\ m.at = ps.at BY <1>0 DEF PsFields
  <2>2. DOMAIN m = PsFields BY DEF MovedPrefixes
  <2> DEFINE v == {ps.at[pi] : pi \in {i \in pis : ps.at[i] # None}}
  <2>3. IgnoreOf(ps, pis) = [ps EXCEPT !.unused = ps.unused \cup v] BY DEF IgnoreOf, PsFields
  <2>4. IgnoreOf(m, pis) = [m EXCEPT !.unused = ps.unused \cup v]
    <3> HIDE DEF m
    <3> QED BY <2>1, <2>2 DEF IgnoreOf, PsFields
  <2> QED BY <1>3, <2>3, <2>4
<1> QED BY <1>1, <1>2, <1>4 DEF Ignore, IgnoreAll

\* Of what the operands depend on, only the place differs in the copy.
LEMMA CopiesLemma ==
  ASSUME NEW d, NEW d2, NEW b, NEW h, Copies(d, d2, b, h)
  PROVE  /\ Within(d, b) /\ DOMAIN d2 = DFields
         /\ d2.pos = d.pos - h.by /\ d2.left = d.left - h.less
         /\ d2.ii = d.ii /\ d2.mnemonic = d.mnemonic /\ d2.ops = d.ops
         /\ d2.base = d.base /\ d2.scale = d.scale /\ d2.segment = d.segment
         /\ d2.flags = d.flags /\ d2.ok = d.ok /\ d2.lockable = d.lockable
         /\ d2.ps = MovedPrefixes(d.ps, h)
         /\ d2.ps.decoded = d.ps.decoded /\ d2.ps.ext = d.ps.ext
         /\ d2.ps.vexV = d.ps.vexV /\ d2.ps.vrex = d.ps.vrex
         /\ \A bit : Has(d2, bit) = Has(d, bit)
         /\ \A bit, n : Ext(d2, bit, n) = Ext(d, bit, n)
<1>1. /\ DOMAIN d2 = DFields
      /\ d2.pos = d.pos - h.by /\ d2.left = d.left - h.less
      /\ d2.ps = MovedPrefixes(d.ps, h)
      /\ d2.ii = d.ii /\ d2.mnemonic = d.mnemonic /\ d2.ops = d.ops
      /\ d2.base = d.base /\ d2.scale = d.scale /\ d2.segment = d.segment
      /\ d2.flags = d.flags /\ d2.ok = d.ok /\ d2.lockable = d.lockable
  BY DFieldsLemma DEF Copies, Moved, Within
<1>2. DOMAIN d.ps = PsFields BY DEF Copies, Within, IsPrefixes
<1>3. /\ d2.ps.decoded = d.ps.decoded /\ d2.ps.ext = d.ps.ext
      /\ d2.ps.vexV = d.ps.vexV /\ d2.ps.vrex = d.ps.vrex
  BY <1>1, <1>2, MovedPrefixesLemma
<1>4. \A bit : Has(d2, bit) = Has(d, bit) BY <1>3 DEF Has
<1>5. \A bit, n : Ext(d2, bit, n) = Ext(d, bit, n) BY <1>4 DEF Ext
<1> QED BY <1>1, <1>3, <1>4, <1>5 DEF Copies

LEMMA TakesNone ==
  ASSUME NEW d, NEW d2, NEW b, NEW h, Copies(d, d2, b, h)
  PROVE  Takes(d, d, d2, b, h)
<1>1. d.left <= d.left BY DEF Copies, Within
<1> QED BY <1>1 DEF Takes, Copies

\* One step after the other.
LEMMA TakesThen ==
  ASSUME NEW d, NEW b, NEW h \in Moves, Within(d, b), NEW e, NEW e2, Takes(d, e, e2, b, h),
         NEW g, NEW g2, NEW g3, Takes(e, g, g2, b, h), Whole(e, h) /\ e2 = Moved(e, h) => g3 = g2
  PROVE  Takes(d, g, g3, b, h)
<1>1. d.left \in Int /\ e.left \in Int /\ g.left \in Int /\ h.less \in Int BY DEF Takes, Within, Moves
<1>2. g.left <= d.left /\ (g.ok => d.ok) BY <1>1 DEF Takes
<1>3. Whole(g, h) => Whole(e, h) BY <1>1 DEF Takes, Whole
<1> QED BY <1>2, <1>3 DEF Takes

LEMMA TwoFields ==
  ASSUME NEW d, NEW f, NEW g, f # g, NEW x, NEW y
  PROVE  [[d EXCEPT ![f] = x] EXCEPT ![g] = y] = [[d EXCEPT ![g] = y] EXCEPT ![f] = x]
OBVIOUS

\* What is noted of the copy is noted of the original.
Places == {"pos", "left", "ps"}
LEMMA MovedField ==
  ASSUME NEW d, NEW h, DOMAIN d = DFields, NEW field, field \notin Places, NEW v
  PROVE  /\ [Moved(d, h) EXCEPT ![field] = v] = Moved([d EXCEPT ![field] = v], h)
         /\ DOMAIN [d EXCEPT ![field] = v] = DFields
<1> DEFINE at == d.pos - h.by
           rest == d.left - h.less
           ps   == MovedPrefixes(d.ps, h)
           set(x) == [x EXCEPT !.pos = at, !.left = rest, !.ps = ps]
<1>1. Moved(d, h) = set(d) BY DEF Moved
<1>2. Moved([d EXCEPT ![field] = v], h) = set([d EXCEPT ![field] = v])
  <2> DEFINE e == [d EXCEPT ![field] = v]
  <2>1. e.pos = d.pos /\ e.left = d.left /\ e.ps = d.ps BY DFieldsLemma DEF Places
  <2> HIDE DEF e
  <2>2. Moved(e, h) = set(e) BY <2>1 DEF Moved
  <2> HIDE DEF set
  <2> QED BY <2>2 DEF e
<1>3. [set(d) EXCEPT ![field] = v] = set([d EXCEPT ![field] = v])
  <2> HIDE DEF at, rest, ps
  <2> DEFINE n1(x) == [x EXCEPT !.pos = at]
             n2(x) == [x EXCEPT !.left = rest]
             n3(x) == [x EXCEPT !.ps = ps]
             n(x)  == [x EXCEPT ![field] = v]
  <2>1. \A x : set(x) = n3(n2(n1(x))) OBVIOUS
  <2>2. field # "pos" /\ field # "left" /\ field # "ps" BY DEF Places
  <2>3. ASSUME NEW x PROVE n(n1(x)) = n1(n(x)) BY <2>2, TwoFields, Zenon
  <2>4. ASSUME NEW x PROVE n(n2(x)) = n2(n(x)) BY <2>2, TwoFields, Zenon
  <2>5. ASSUME NEW x PROVE n(n3(x)) = n3(n(x)) BY <2>2, TwoFields, Zenon
  <2>6. n(set(d)) = set(n(d))
    <3> HIDE DEF n, n1, n2, n3, set
    <3>1. n(set(d)) = n(n3(n2(n1(d)))) /\ set(n(d)) = n3(n2(n1(n(d)))) BY <2>1
    <3>2. n(n3(n2(n1(d)))) = n3(n(n2(n1(d)))) BY <2>5
    <3>3. n(n2(n1(d))) = n2(n(n1(d))) BY <2>4
    <3>4. n(n1(d)) = n1(n(d)) BY <2>3
    <3> QED BY <3>1, <3>2, <3>3, <3>4
  <2> HIDE DEF set, n1, n2, n3
  <2> QED BY <2>6
<1>4. DOMAIN [d EXCEPT ![field] = v] = DFields OBVIOUS
<1> HIDE DEF set
<1> QED BY <1>1, <1>2, <1>3, <1>4

\* What takes no bytes does the same with the copy.
LEMMA TakesField ==
  ASSUME NEW d, NEW b, NEW h, NEW e, NEW e2, Takes(d, e, e2, b, h),
         NEW field, field \notin {"pos", "left", "ps", "ok"}, NEW v, NEW v2, e2 = Moved(e, h) => v2 = v
  PROVE  Takes(d, [e EXCEPT ![field] = v], [e2 EXCEPT ![field] = v2], b, h)
<1> DEFINE g == [e EXCEPT ![field] = v]
<1>1. Within(g, b) BY FieldLemma DEF Takes
<1>2. g.left = e.left /\ g.ok = e.ok BY DFieldsLemma DEF Takes, Within
<1>3. Whole(g, h) => e2 = Moved(e, h) /\ v2 = v BY <1>2 DEF Whole, Takes
<1>4. [Moved(e, h) EXCEPT ![field] = v] = Moved(g, h)
  BY DFieldsLemma DEF Moved, Takes, Within
<1> HIDE DEF g
<1>5. g.left <= d.left /\ (g.ok => d.ok) BY <1>2 DEF Takes
<1> QED BY <1>1, <1>3, <1>4, <1>5 DEF Takes, g

LEMMA TakesUses ==
  ASSUME NEW d, NEW b, NEW h, NEW e, NEW e2, Takes(d, e, e2, b, h), NEW prefixes, NEW cond
  PROVE  /\ Takes(d, Uses(e, prefixes), Uses(e2, prefixes), b, h)
         /\ Takes(d, UsesIf(e, cond, prefixes), UsesIf(e2, cond, prefixes), b, h)
<1>1. ASSUME NEW p PROVE Takes(d, Uses(e, p), Uses(e2, p), b, h)
  <2>1. DOMAIN e.ps = PsFields BY DEF Takes, Within, IsPrefixes
  <2>2. Use(MovedPrefixes(e.ps, h), p) = MovedPrefixes(Use(e.ps, p), h) BY <2>1, MovedNotedLemma
  <2>3. Uses(Moved(e, h), p) = Moved(Uses(e, p), h)
    BY <2>2, DFieldsLemma DEF Uses, Moved, Within, Takes
  <2>4. Uses(e, p).left = e.left /\ Uses(e, p).ok = e.ok BY DFieldsLemma DEF Within, Uses, Takes
  <2>5. Within(Uses(e, p), b) BY UsesLemma DEF Takes
  <2> QED BY <2>3, <2>4, <2>5 DEF Takes, Whole
<1> QED BY <1>1 DEF UsesIf

LEMMA TakesFails ==
  ASSUME NEW d, NEW b, NEW h, NEW e, NEW e2, Takes(d, e, e2, b, h), NEW g2
  PROVE  Takes(d, Fails(e), g2, b, h)
<1>1. Fails(e).left = e.left /\ ~Fails(e).ok BY DFieldsLemma DEF Within, Fails, Takes
<1>2. Within(Fails(e), b) BY SetLemma DEF Takes
<1> QED BY <1>1, <1>2 DEF Takes, Whole

LEMMA TakesSet ==
  ASSUME NEW d, NEW b, NEW h, NEW e, NEW e2, Takes(d, e, e2, b, h), NEW n, NEW kind, NEW size, NEW reg
  PROVE  /\ Takes(d, Fails(e), Fails(e2), b, h)
         /\ Takes(d, SetOp(e, n, kind, size, reg), SetOp(e2, n, kind, size, reg), b, h)
         /\ Takes(d, SetReg(e, n, size, reg), SetReg(e2, n, size, reg), b, h)
<1>1. Takes(d, Fails(e), Fails(e2), b, h) BY TakesFails
<1>2. ASSUME NEW k PROVE Takes(d, SetOp(e, n, k, size, reg), SetOp(e2, n, k, size, reg), b, h)
  <2> DEFINE op == [kind |-> k, size |-> size, reg |-> reg]
  <2>1. SetOp(e, n, k, size, reg) = [e EXCEPT !.ops = [e.ops EXCEPT ![n] = op]]
    BY DFieldsLemma DEF Within, SetOp, Takes
  <2>2. Whole(e, h) => SetOp(e2, n, k, size, reg) = [Moved(e, h) EXCEPT !.ops = [e.ops EXCEPT ![n] = op]]
    <3>1. Whole(e, h) => e2 = Moved(e, h) /\ Copies(e, e2, b, h) BY DEF Takes, Copies
    <3>2. Whole(e, h) => DOMAIN e2 = DFields /\ e2.ops = e.ops BY <3>1, CopiesLemma
    <3> QED BY <3>1, <3>2, DFieldsLemma DEF SetOp
  <2> HIDE DEF op
  <2>3. Takes(d, [e EXCEPT !.ops = [e.ops EXCEPT ![n] = op]], [e2 EXCEPT !.ops = [e.ops EXCEPT ![n] = op]], b, h)
    BY TakesField
  <2>4. SetOp(e, n, k, size, reg).left = e.left /\ SetOp(e, n, k, size, reg).ok = e.ok
    BY <2>1, DFieldsLemma DEF Within, Takes
  <2> QED BY <2>1, <2>2, <2>3, <2>4 DEF Takes, Whole
<1> QED BY <1>1, <1>2 DEF SetReg

LEMMA TakesRead ==
  ASSUME NEW d, NEW b, NEW h \in Moves, Within(d, b), NEW e, NEW e2, Takes(d, e, e2, b, h), NEW size \in Nat
  PROVE  Takes(d, Read(e, size), Read(e2, size), b, h)
<1>1. Within(Read(e, size), b) BY ReadLemma DEF Takes
<1>2. e.left \in Nat /\ d.left \in Nat /\ h.less \in Int /\ e.left <= d.left BY DEF Takes, Within, Moves
<1>3. CASE e.left < size
  <2>1. Read(e, size) = Fails(e) BY <1>3 DEF Read
  <2>2. ~Fails(e).ok /\ Fails(e).left = e.left BY DFieldsLemma DEF Within, Fails, Takes
  <2> QED BY <1>1, <1>2, <2>1, <2>2 DEF Takes, Whole
<1>4. CASE ~(e.left < size)
  <2> DEFINE g == [e EXCEPT !.pos = @ + size, !.left = @ - size]
  <2>1. Read(e, size) = g BY <1>4 DEF Read
  <2>2. g.left = e.left - size /\ g.ok = e.ok BY DFieldsLemma DEF Within, Takes
  <2>3. Whole(g, h) => Whole(e, h) /\ e.left - h.less >= size BY <1>2, <2>2 DEF Whole
  <2>4. Whole(g, h) => e2 = Moved(e, h) BY <2>3 DEF Takes
  <2>5. Whole(g, h) => Read(e2, size) = Moved(g, h)
    <3> SUFFICES ASSUME Whole(g, h) PROVE Read(Moved(e, h), size) = Moved(g, h) BY <2>4
    <3>1. Moved(e, h).left = e.left - h.less /\ Moved(e, h).pos = e.pos - h.by BY DFieldsLemma DEF Moved, Takes, Within
    <3>2. ~(e.left - h.less < size) BY <1>2, <2>3
    <3>3. Read(Moved(e, h), size) = [Moved(e, h) EXCEPT !.pos = @ + size, !.left = @ - size] BY <3>1, <3>2 DEF Read
    <3>4. e.pos \in Int /\ h.by \in Int BY DEF Takes, Within, Moves
    <3>5. (e.pos - h.by) + size = (e.pos + size) - h.by /\ (e.left - h.less) - size = (e.left - size) - h.less
      BY <1>2, <3>4
    <3> QED BY <3>3, <3>5, DFieldsLemma DEF Moved, Takes, Within
  <2> HIDE DEF g
  <2>6. g.left <= d.left /\ (g.ok => d.ok) BY <1>2, <2>2 DEF Takes
  <2> QED BY <1>1, <2>1, <2>5, <2>6 DEF Takes
<1> QED BY <1>3, <1>4

\* The bytes that both codes have are the same.
CopyOf(code, code2, b, h) ==
  /\ h \in Moves /\ b.start \in Int /\ b.from \in Int /\ b.start < b.from
  /\ \A p \in Int : b.start <= p /\ p < b.end /\ p < b.end - h.less => code2[p - h.by + 1] = code[p + 1]
Twin(c, c2, b, h) ==
  /\ CopyOf(c.code, c2.code, b, h)
  /\ c2.dt = c.dt /\ c2.flags = c.flags /\ c2.modrm = c.modrm
  /\ c2.op = c.op /\ c2.adr = c.adr /\ c2.jcc = c.jcc

LEMMA TwinLemma ==
  ASSUME NEW c, NEW c2, NEW b, NEW h, Twin(c, c2, b, h)
  PROVE  /\ h \in Moves
         /\ c2.dt = c.dt /\ c2.flags = c.flags /\ c2.modrm = c.modrm
         /\ c2.op = c.op /\ c2.adr = c.adr /\ c2.jcc = c.jcc
         /\ Mod(c2) = Mod(c) /\ Rm(c2) = Rm(c) /\ RegOf(c2) = RegOf(c)
         /\ Promoted(c2) = Promoted(c) /\ NeedsRex(c2) = NeedsRex(c) /\ Native(c2) = Native(c)
         /\ StringSize(c2) = StringSize(c) /\ StringUsed(c2) = StringUsed(c)
<1>1. /\ h \in Moves
      /\ c2.dt = c.dt /\ c2.flags = c.flags /\ c2.modrm = c.modrm
      /\ c2.op = c.op /\ c2.adr = c.adr /\ c2.jcc = c.jcc
  BY DEF Twin, CopyOf
<1>2. Mod(c2) = Mod(c) /\ Rm(c2) = Rm(c) /\ RegOf(c2) = RegOf(c) BY <1>1 DEF Mod, Rm, RegOf
<1>3. Promoted(c2) = Promoted(c) /\ NeedsRex(c2) = NeedsRex(c) /\ Native(c2) = Native(c)
  BY <1>1 DEF Promoted, NeedsRex, Native
<1>4. StringSize(c2) = StringSize(c) BY <1>1 DEF StringSize
<1>5. StringUsed(c2) = StringUsed(c) BY <1>1, <1>4 DEF StringUsed
<1> QED BY <1>1, <1>2, <1>3, <1>4, <1>5

\* The byte that is taken next, and the one that was taken last.
LEMMA BytesLemma ==
  ASSUME NEW code, NEW code2, NEW b, NEW h, CopyOf(code, code2, b, h), NEW d, NEW d2, Copies(d, d2, b, h)
  PROVE  /\ d.left >= 1 /\ d.left - 1 >= h.less => code2[d2.pos + 1] = code[d.pos + 1]
         /\ d.left >= h.less => code2[d2.pos] = code[d.pos]
<1>1. /\ d.pos \in Int /\ d.left \in Int /\ d.left >= 0 /\ d.pos >= b.from /\ d.pos + d.left = b.end
      /\ b.start \in Int /\ b.from \in Int /\ b.start < b.from /\ h.by \in Int /\ h.less \in Int
  BY DEF Copies, Within, CopyOf, Moves
<1>2. d2.pos = d.pos - h.by BY CopiesLemma
<1>3. \A p \in Int : b.start <= p /\ p < b.end /\ p < b.end - h.less => code2[p - h.by + 1] = code[p + 1]
  BY DEF CopyOf
<1>4. d.left >= 1 /\ d.left - 1 >= h.less => code2[d2.pos + 1] = code[d.pos + 1]
  <2> SUFFICES ASSUME d.left >= 1 /\ d.left - 1 >= h.less PROVE code2[d2.pos + 1] = code[d.pos + 1] OBVIOUS
  <2>1. b.start <= d.pos /\ d.pos < b.end /\ d.pos < b.end - h.less BY <1>1
  <2> QED BY <1>1, <1>2, <1>3, <2>1
<1>5. d.left >= h.less => code2[d2.pos] = code[d.pos]
  <2> SUFFICES ASSUME d.left >= h.less PROVE code2[d2.pos] = code[d.pos] OBVIOUS
  <2> DEFINE p == d.pos - 1
  <2>1. p \in Int /\ b.start <= p /\ p < b.end /\ p < b.end - h.less BY <1>1
  <2>2. p + 1 = d.pos /\ p - h.by + 1 = d2.pos BY <1>1, <1>2
  <2> HIDE DEF p
  <2> QED BY <1>3, <2>1, <2>2
<1> QED BY <1>4, <1>5

LEMMA SegmentTakes ==
  ASSUME NEW c, NEW c2, NEW b, NEW h, Twin(c, c2, b, h), NEW d, NEW d2, Copies(d, d2, b, h), NEW default
  PROVE  Takes(d, UseSegment(c, d, default), UseSegment(c2, d2, default), b, h)
<1> DEFINE used == UsedSegment(default, d.ps.decoded, c.dt)
           bits == SegmentBits(default, d.ps.decoded, c.dt)
           e    == Uses(d, used)
           e2   == Uses(d2, used)
<1>1. Takes(d, e, e2, b, h) BY TakesNone, TakesUses
<1>2. c2.dt = c.dt /\ d2.ps.decoded = d.ps.decoded BY TwinLemma, CopiesLemma
<1>3. UseSegment(c, d, default) = [e EXCEPT !.segment = IF bits = {"NONE"} THEN bits ELSE e.segment \cup bits]
  BY <1>1, DFieldsLemma DEF UseSegment, Takes, Within
<1>4. UseSegment(c2, d2, default) = [e2 EXCEPT !.segment = IF bits = {"NONE"} THEN bits ELSE e2.segment \cup bits]
  <2>1. "segment" \in DOMAIN e2 BY CopiesLemma, DFieldsLemma DEF Uses
  <2> QED BY <1>2, <2>1 DEF UseSegment
<1> HIDE DEF e, e2, bits
<1>5. e2 = Moved(e, h) => e2.segment = e.segment BY <1>1, CopiesLemma DEF Copies, Takes
<1> QED BY <1>1, <1>3, <1>4, <1>5, TakesField

LEMMA SegmentAfter ==
  ASSUME NEW c, NEW c2, NEW b, NEW h, Twin(c, c2, b, h), NEW d, Within(d, b), NEW e, NEW e2, Takes(d, e, e2, b, h),
         NEW default, NEW default2, e2 = Moved(e, h) => default2 = default
  PROVE  Takes(d, UseSegment(c, e, default), UseSegment(c2, e2, default2), b, h)
<1>1. Takes(e, UseSegment(c, e, default), UseSegment(c2, Moved(e, h), default), b, h)
  BY SegmentTakes DEF Copies, Takes
<1>2. h \in Moves BY TwinLemma
<1> QED BY <1>1, <1>2, TakesThen

LEMMA DisplacementTakes ==
  ASSUME NEW d, NEW b, NEW h \in Moves, Within(d, b), NEW e, NEW e2, Takes(d, e, e2, b, h), NEW size \in {8, 16, 32, 64}
  PROVE  Takes(d, Displacement(e, size), Displacement(e2, size), b, h)
<1>1. size \div 8 \in Nat OBVIOUS
<1>2. Takes(d, Read(e, size \div 8), Read(e2, size \div 8), b, h) BY <1>1, TakesRead
<1> QED BY <1>2, TakesField DEF Displacement

LEMMA RmRegTakes ==
  ASSUME NEW c, NEW c2, NEW b, NEW h, Twin(c, c2, b, h), NEW d, NEW d2, Copies(d, d2, b, h),
         NEW n, NEW size, NEW base, NEW used
  PROVE  /\ Takes(d, RmReg(c, d, n, size, base, used), RmReg(c2, d2, n, size, base, used), b, h)
         /\ Takes(d, RmWide(c, d, n, size, used), RmWide(c2, d2, n, size, used), b, h)
<1>1. Takes(d, Uses(d, used), Uses(d2, used), b, h) BY TakesNone, TakesUses
<1>2. \A reg : Takes(d, SetReg(Uses(d, used), n, size, reg), SetReg(Uses(d2, used), n, size, reg), b, h) BY <1>1, TakesSet
<1>3. Ext(d2, "B", Rm(c2)) = Ext(d, "B", Rm(c)) BY TwinLemma, CopiesLemma
<1>4. \A bs : Takes(d, RmReg(c, d, n, size, bs, used), RmReg(c2, d2, n, size, bs, used), b, h)
  BY <1>2, <1>3 DEF RmReg
<1> QED BY <1>4 DEF RmWide

LEMMA ModrmRegisterTakes ==
  ASSUME NEW c, NEW c2, NEW b, NEW h, Twin(c, c2, b, h), NEW d, NEW d2, Copies(d, d2, b, h), NEW type, NEW n
  PROVE  Takes(d, ModrmRegister(c, d, type, n), ModrmRegister(c2, d2, type, n), b, h)
<1>1. \A size, base, used : Takes(d, RmReg(c, d, n, size, base, used), RmReg(c2, d2, n, size, base, used), b, h) BY RmRegTakes
<1>2. \A size, used : Takes(d, RmWide(c, d, n, size, used), RmWide(c2, d2, n, size, used), b, h) BY RmRegTakes
<1>3. \A size, reg : Takes(d, SetReg(d, n, size, reg), SetReg(d2, n, size, reg), b, h) BY TakesNone, TakesSet
<1>4. \A p, size, reg : Takes(d, SetReg(Uses(d, p), n, size, reg), SetReg(Uses(d2, p), n, size, reg), b, h)
  BY TakesNone, TakesUses, TakesSet
<1>5. Takes(d, Fails(d), Fails(d2), b, h) BY TakesNone, TakesSet
<1>6. /\ c2.dt = c.dt /\ c2.flags = c.flags /\ c2.op = c.op /\ Rm(c2) = Rm(c) /\ Promoted(c2) = Promoted(c)
      /\ d2.ps.decoded = d.ps.decoded /\ d2.ps.ext = d.ps.ext
      /\ \A bit : Has(d2, bit) = Has(d, bit)
      /\ \A bit, m : Ext(d2, bit, m) = Ext(d, bit, m)
  BY TwinLemma, CopiesLemma
<1> QED BY <1>1, <1>2, <1>3, <1>4, <1>5, <1>6 DEF ModrmRegister

LEMMA SibTakes ==
  ASSUME NEW c, NEW c2, NEW b, NEW h, Twin(c, c2, b, h), NEW d, NEW d2, Copies(d, d2, b, h), NEW n, NEW sib
  PROVE  Takes(d, Sib(c, d, n, sib), Sib(c2, d2, n, sib), b, h)
<1>1. \A cond, kind, size, reg :
        Takes(d, SetOp(UsesIf(d, cond, "REX"), n, kind, size, reg), SetOp(UsesIf(d2, cond, "REX"), n, kind, size, reg), b, h)
  BY TakesNone, TakesUses, TakesSet
<1>2. \A e, e2, v : Takes(d, e, e2, b, h) =>
        Takes(d, [e EXCEPT !.scale = v], [e2 EXCEPT !.scale = v], b, h) /\ Takes(d, [e EXCEPT !.base = v], [e2 EXCEPT !.base = v], b, h)
  BY TakesField
<1>3. Mod(c2) = Mod(c) /\ c2.adr = c.adr BY TwinLemma
<1>4. d2.ops = d.ops /\ (\A bit : Has(d2, bit) = Has(d, bit)) /\ \A bit, m : Ext(d2, bit, m) = Ext(d, bit, m)
  BY CopiesLemma
<1> DEFINE index == Ext(d, "X", (sib \div 8) % 8)
           based == sib % 8 # 5 \/ Mod(c) # 0
           gprs  == IF c.adr = 64 THEN REGS64 ELSE REGS32
           base  == gprs + Ext(d, "B", sib % 8)
           size  == d.ops[n].size
           scale == IF sib < 64 THEN 0 ELSE 2^(sib \div 64)
           used(x) == UsesIf(x, Has(d, "X") \/ (based /\ Has(d, "B")), "REX")
           both(x) == [SetOp(used(x), n, "MEM", size, gprs + index) EXCEPT !.scale = scale]
<1>5. /\ Takes(d, SetOp(used(d), n, "SMEM", size, base), SetOp(used(d2), n, "SMEM", size, base), b, h)
      /\ Takes(d, SetOp(used(d), n, "DISP", size, 0), SetOp(used(d2), n, "DISP", size, 0), b, h)
  BY <1>1, Zenon
<1>6. Takes(d, both(d), both(d2), b, h)
  <2>1. Takes(d, SetOp(used(d), n, "MEM", size, gprs + index), SetOp(used(d2), n, "MEM", size, gprs + index), b, h)
    BY <1>1, Zenon
  <2> QED BY <1>2, <2>1, Zenon
<1>7. Takes(d, [both(d) EXCEPT !.base = base], [both(d2) EXCEPT !.base = base], b, h)
  <2> HIDE DEF both, base
  <2> QED BY <1>2, <1>6
<1>8. \A x : x.ops = d.ops /\ (\A bit : Has(x, bit) = Has(d, bit)) /\ (\A bit, m : Ext(x, bit, m) = Ext(d, bit, m)) =>
        Sib(c, x, n, sib) = IF index = 4 THEN (IF based THEN SetOp(used(x), n, "SMEM", size, base)
                                               ELSE SetOp(used(x), n, "DISP", size, 0))
                            ELSE IF based THEN [both(x) EXCEPT !.base = base] ELSE both(x)
  <2> SUFFICES ASSUME NEW x, x.ops = d.ops, \A bit : Has(x, bit) = Has(d, bit),
                      \A bit, m : Ext(x, bit, m) = Ext(d, bit, m)
               PROVE  Sib(c, x, n, sib) = IF index = 4 THEN (IF based THEN SetOp(used(x), n, "SMEM", size, base)
                                                             ELSE SetOp(used(x), n, "DISP", size, 0))
                                          ELSE IF based THEN [both(x) EXCEPT !.base = base] ELSE both(x)
    BY Zenon
  <2> DEFINE of(u, i, at, s) ==
               IF i = 4 THEN (IF based THEN SetOp(u, n, "SMEM", s, at) ELSE SetOp(u, n, "DISP", s, 0))
               ELSE IF based THEN [[SetOp(u, n, "MEM", s, gprs + i) EXCEPT !.scale = scale] EXCEPT !.base = at]
               ELSE [SetOp(u, n, "MEM", s, gprs + i) EXCEPT !.scale = scale]
  <2>1. /\ Ext(x, "X", (sib \div 8) % 8) = index /\ gprs + Ext(x, "B", sib % 8) = base /\ x.ops[n].size = size
        /\ UsesIf(x, Has(x, "X") \/ (based /\ Has(x, "B")), "REX") = used(x)
    OBVIOUS
  <2>2. Sib(c, x, n, sib) = of(UsesIf(x, Has(x, "X") \/ (based /\ Has(x, "B")), "REX"), Ext(x, "X", (sib \div 8) % 8),
                               gprs + Ext(x, "B", sib % 8), x.ops[n].size)
    BY Zenon DEF Sib
  <2>3. of(used(x), index, base, size)
          = IF index = 4 THEN (IF based THEN SetOp(used(x), n, "SMEM", size, base) ELSE SetOp(used(x), n, "DISP", size, 0))
            ELSE IF based THEN [both(x) EXCEPT !.base = base] ELSE both(x)
    BY Zenon
  <2> HIDE DEF of
  <2>4. Sib(c, x, n, sib) = of(used(x), index, base, size) 
    <3> HIDE DEF of, used, index, base, size
    <3> QED BY <2>1, <2>2
  <2> QED BY <2>3, <2>4, Zenon
<1>9. \A x : Sib(c2, x, n, sib) = Sib(c, x, n, sib) BY <1>3 DEF Sib
<1> HIDE DEF used, size, both, base, index, based
<1> QED BY <1>4, <1>5, <1>6, <1>7, <1>8, <1>9

LEMMA Memory16Takes ==
  ASSUME NEW c, IsContext(c), NEW c2, NEW b, NEW h, Twin(c, c2, b, h), NEW d, NEW d2, Copies(d, d2, b, h),
         NEW n, Mod(c) # 3
  PROVE  Takes(d, Memory16(c, d, n), Memory16(c2, d2, n), b, h)
<1> DEFINE rm    == Rm(c)
           size  == d.ops[n].size
           reg(x)   == SetOp(x, n, IF rm < 4 THEN "MEM" ELSE "SMEM", size, REGS16 + Index16[rm + 1])
           based(x) == IF rm < 4 THEN [reg(x) EXCEPT !.base = REGS16 + Base16[rm + 1]] ELSE reg(x)
           addr(x)  == CASE Mod(c) = 0 /\ rm = 6 -> Displacement(SetOp(x, n, "DISP", size, 0), 16)
                         [] Mod(c) = 0 /\ rm # 6 -> based(x)
                         [] Mod(c) = 1 -> Displacement(based(x), 8)
                         [] Mod(c) = 2 -> Displacement(based(x), 16)
           default  == IF rm \in {2, 3} \/ (rm = 6 /\ Mod(c) # 0) THEN "SS" ELSE "DS"
<1>1. h \in Moves /\ Mod(c2) = Mod(c) /\ Rm(c2) = Rm(c) /\ d2.ops = d.ops /\ Within(d, b) BY TwinLemma, CopiesLemma
<1>2. Takes(d, reg(d), reg(d2), b, h) /\ Takes(d, SetOp(d, n, "DISP", size, 0), SetOp(d2, n, "DISP", size, 0), b, h)
  BY TakesNone, TakesSet
<1>3. Takes(d, based(d), based(d2), b, h)
  <2> HIDE DEF reg
  <2> QED BY <1>2, TakesField
<1>4. Mod(c) \in 0 .. 2 BY ModLemma
<1>5. Takes(d, addr(d), addr(d2), b, h)
  <2> HIDE DEF based
  <2>1. /\ Takes(d, Displacement(based(d), 8), Displacement(based(d2), 8), b, h)
        /\ Takes(d, Displacement(based(d), 16), Displacement(based(d2), 16), b, h)
        /\ Takes(d, Displacement(SetOp(d, n, "DISP", size, 0), 16), Displacement(SetOp(d2, n, "DISP", size, 0), 16), b, h)
    BY <1>1, <1>2, <1>3, DisplacementTakes
  <2> HIDE DEF size
  <2> QED BY <1>3, <1>4, <2>1
<1>6. Memory16(c, d, n) = UseSegment(c, addr(d), default) BY DEF Memory16
<1>7. Memory16(c2, d2, n) = UseSegment(c2, addr(d2), default) BY <1>1 DEF Memory16
<1> HIDE DEF addr, default
<1> QED BY <1>1, <1>5, <1>6, <1>7, SegmentAfter

LEMMA Address32Takes ==
  ASSUME NEW c, IsContext(c), NEW c2, NEW b, NEW h, Twin(c, c2, b, h), NEW d, NEW d2, Copies(d, d2, b, h), NEW n
  PROVE  Takes(d, Address32(c, d, n), Address32(c2, d2, n), b, h)
<1> DEFINE size == d.ops[n].size
           gprs == IF c.adr = 64 THEN REGS64 ELSE REGS32
           sib  == c.code[d.pos + 1]
           sib2 == c2.code[d2.pos + 1]
           Displaced(a, s) == IF Mod(c) = 1 THEN Displacement(a, 8)
                              ELSE IF Mod(c) = 2 \/ s % 8 = 5 THEN Displacement(a, 32) ELSE a
           reg(x) == SetOp(UsesIf(x, Has(d, "B"), "REX"), n, "SMEM", size, gprs + Ext(d, "B", Rm(c)))
           rip(x) == [Displacement(SetOp(x, n, "SMEM", size, RIP), 32) EXCEPT !.flags = @ \cup {"RIP_RELATIVE"}]
<1>1. /\ h \in Moves /\ Mod(c2) = Mod(c) /\ Rm(c2) = Rm(c) /\ c2.adr = c.adr /\ c2.dt = c.dt
      /\ d2.ops = d.ops /\ d2.left = d.left - h.less /\ Has(d2, "B") = Has(d, "B")
      /\ \A m : Ext(d2, "B", m) = Ext(d, "B", m)
      /\ Within(d, b)
  BY TwinLemma, CopiesLemma
<1>2. \A kind, s, r : Takes(d, SetOp(d, n, kind, s, r), SetOp(d2, n, kind, s, r), b, h) BY TakesNone, TakesSet
<1>3. \A kind, s, r : Takes(d, Displacement(SetOp(d, n, kind, s, r), 32), Displacement(SetOp(d2, n, kind, s, r), 32), b, h)
  BY <1>1, <1>2, DisplacementTakes
<1>4. \A x, x2, y, y2, s : Within(x, b) /\ Takes(x, y, y2, b, h) => Takes(x, Displaced(y, s), Displaced(y2, s), b, h)
  BY <1>1, DisplacementTakes
<1>5. CASE Mod(c) = 0 /\ Rm(c) = 5
  <2>1. Takes(d, rip(d), rip(d2), b, h)
    <3> DEFINE e  == Displacement(SetOp(d, n, "SMEM", size, RIP), 32)
               e2 == Displacement(SetOp(d2, n, "SMEM", size, RIP), 32)
    <3>1. Takes(d, e, e2, b, h) BY <1>3
    <3> HIDE DEF e, e2
    <3>2. e2 = Moved(e, h) => e2.flags = e.flags BY <3>1, CopiesLemma DEF Copies, Takes
    <3>3. Takes(d, [e EXCEPT !.flags = e.flags \cup {"RIP_RELATIVE"}], [e2 EXCEPT !.flags = e2.flags \cup {"RIP_RELATIVE"}], b, h)
      BY <3>1, <3>2, TakesField
    <3> QED BY <3>3 DEF e, e2
  <2> QED BY <1>1, <1>3, <1>5, <2>1 DEF Address32
<1>6. CASE ~(Mod(c) = 0 /\ Rm(c) = 5) /\ Rm(c) # 4
  <2>1. Takes(d, reg(d), reg(d2), b, h) BY TakesNone, TakesUses, TakesSet
  <2>2. Takes(d, Displaced(reg(d), 0), Displaced(reg(d2), 0), b, h) BY <1>1, <1>4, <2>1
  <2>3. Address32(c, d, n) = Displaced(reg(d), 0) BY <1>6 DEF Address32
  <2>4. Address32(c2, d2, n) = Displaced(reg(d2), 0) BY <1>1, <1>6 DEF Address32
  <2> QED BY <2>2, <2>3, <2>4
<1>7. CASE Rm(c) = 4
  <2> DEFINE r == Read(d, 1)
             r2 == Read(d2, 1)
  <2>1. Takes(d, r, r2, b, h) BY <1>1, TakesNone, TakesRead
  <2>2. CASE d.left < 1
    <3>1. Address32(c, d, n) = Fails(d) BY <1>7, <2>2 DEF Address32
    <3> QED BY <3>1, TakesNone, TakesFails
  <2>3. CASE ~(d.left < 1)
    <3>1. Address32(c, d, n) = Displaced(Sib(c, r, n, sib), sib) BY <1>7, <2>3 DEF Address32
    <3>2. r.left = d.left - 1 BY <2>3, DFieldsLemma DEF Read, Copies, Within
    <3> HIDE DEF r
    <3>3. Takes(r, Sib(c, r, n, sib), Sib(c2, Moved(r, h), n, sib), b, h) BY <2>1, SibTakes DEF Takes, Copies
    <3>4. Takes(r, Displaced(Sib(c, r, n, sib), sib), Displaced(Sib(c2, Moved(r, h), n, sib), sib), b, h)
      <4> HIDE DEF Displaced, sib
      <4>1. Within(r, b) BY <2>1 DEF Takes
      <4> QED BY <1>4, <3>3, <4>1
    <3>5. Whole(r, h) => d.left >= 1 /\ d.left - 1 >= h.less /\ ~(d2.left < 1)
      <4>1. d.left \in Int /\ h.less \in Int BY <1>1 DEF Within, Moves
      <4> QED BY <1>1, <2>3, <3>2, <4>1 DEF Whole
    <3>6. Whole(r, h) => sib2 = sib BY <3>5, BytesLemma DEF Twin
    <3>7. ~(d2.left < 1) => Address32(c2, d2, n) = Displaced(Sib(c2, r2, n, sib2), sib2)
      BY <1>1, <1>7 DEF Address32
    <3> HIDE DEF r2, sib, sib2, Displaced
    <3>8. Whole(r, h) /\ r2 = Moved(r, h) => Address32(c2, d2, n) = Displaced(Sib(c2, Moved(r, h), n, sib), sib)
      BY <3>5, <3>6, <3>7
    <3> QED BY <1>1, <2>1, <3>1, <3>4, <3>8, TakesThen
  <2> QED BY <2>2, <2>3
<1> QED BY <1>5, <1>6, <1>7

LEMMA Memory32Takes ==
  ASSUME NEW c, IsContext(c), NEW c2, NEW b, NEW h, Twin(c, c2, b, h), NEW d, NEW d2, Copies(d, d2, b, h), NEW n
  PROVE  Takes(d, Memory32(c, d, n), Memory32(c2, d2, n), b, h)
<1> DEFINE e  == Address32(c, d, n)
           e2 == Address32(c2, d2, n)
           default(x) == IF (IF x.base # R_NONE THEN x.base ELSE IF x.scale >= 2 THEN 0 ELSE x.ops[n].reg)
                              \in {REGS32 + BP, REGS32 + SP} THEN "SS" ELSE "DS"
<1>1. Takes(d, e, e2, b, h) BY Address32Takes
<1>2. Memory32(c, d, n) = UseSegment(c, e, default(e)) /\ Memory32(c2, d2, n) = UseSegment(c2, e2, default(e2))
  BY DEF Memory32
<1> HIDE DEF e, e2
<1>3. e2 = Moved(e, h) => e2.base = e.base /\ e2.scale = e.scale /\ e2.ops = e.ops
  BY <1>1, CopiesLemma DEF Copies, Takes
<1>4. e2 = Moved(e, h) => default(e2) = default(e) BY <1>3
<1>5. Within(d, b) BY CopiesLemma
<1> HIDE DEF default
<1> QED BY <1>1, <1>2, <1>4, <1>5, SegmentAfter

LEMMA ModrmMemoryTakes ==
  ASSUME NEW c, IsContext(c), NEW c2, NEW b, NEW h, Twin(c, c2, b, h), NEW d, NEW d2, Copies(d, d2, b, h),
         NEW n, Mod(c) # 3
  PROVE  Takes(d, ModrmMemory(c, d, n), ModrmMemory(c2, d2, n), b, h)
<1> DEFINE m(x) == IF n = 1 /\ "LOCK" \in d.ps.decoded THEN [Uses(x, {"ADDR_SIZE"}) EXCEPT !.lockable = TRUE]
                   ELSE Uses(x, {"ADDR_SIZE"})
<1>1. c2.adr = c.adr /\ d2.ps.decoded = d.ps.decoded /\ h \in Moves /\ Within(d, b) BY TwinLemma, CopiesLemma
<1>2. Takes(d, Uses(d, {"ADDR_SIZE"}), Uses(d2, {"ADDR_SIZE"}), b, h) BY TakesNone, TakesUses
<1>3. Takes(d, m(d), m(d2), b, h) BY <1>2, TakesField
<1>4. ModrmMemory(c, d, n) = IF c.adr = 16 THEN Memory16(c, m(d), n) ELSE Memory32(c, m(d), n) BY DEF ModrmMemory
<1>5. ModrmMemory(c2, d2, n) = IF c.adr = 16 THEN Memory16(c2, m(d2), n) ELSE Memory32(c2, m(d2), n)
  BY <1>1 DEF ModrmMemory
<1> HIDE DEF m
<1>6. Copies(m(d), Moved(m(d), h), b, h) BY <1>3 DEF Takes, Copies
<1>7. Takes(d, Memory16(c, m(d), n), Memory16(c2, m(d2), n), b, h)
  <2>1. Takes(m(d), Memory16(c, m(d), n), Memory16(c2, Moved(m(d), h), n), b, h) BY <1>6, Memory16Takes
  <2> QED BY <1>1, <1>3, <2>1, TakesThen
<1>8. Takes(d, Memory32(c, m(d), n), Memory32(c2, m(d2), n), b, h)
  <2>1. Takes(m(d), Memory32(c, m(d), n), Memory32(c2, Moved(m(d), h), n), b, h) BY <1>6, Memory32Takes
  <2> QED BY <1>1, <1>3, <2>1, TakesThen
<1> QED BY <1>4, <1>5, <1>7, <1>8

LEMMA ModrmTakes ==
  ASSUME NEW c, IsContext(c), NEW c2, NEW b, NEW h, Twin(c, c2, b, h), NEW d, NEW d2, Copies(d, d2, b, h),
         NEW type \in MemTypes \cup RmTypes, NEW n
  PROVE  Takes(d, Modrm(c, d, type, n), Modrm(c2, d2, type, n), b, h)
<1> DEFINE e(x) == SetOp(Uses(x, UsedByType(c, d, type)), n, "NONE", MemSize(c, d, type), 0)
<1>1. /\ c2.dt = c.dt /\ c2.flags = c.flags /\ c2.op = c.op /\ Mod(c2) = Mod(c) /\ NeedsRex(c2) = NeedsRex(c)
      /\ d2.ps.decoded = d.ps.decoded /\ (\A bit : Has(d2, bit) = Has(d, bit))
      /\ h \in Moves /\ Within(d, b)
  BY TwinLemma, CopiesLemma
<1>2. UsedByType(c2, d2, type) = UsedByType(c, d, type) BY <1>1 DEF UsedByType
<1>3. MemSize(c2, d2, type) = MemSize(c, d, type) BY <1>1 DEF MemSize
<1>4. Takes(d, d, d2, b, h) /\ Takes(d, e(d), e(d2), b, h) BY TakesNone, TakesUses, TakesSet
<1>5. Modrm(c, d, type, n) = CASE Mod(c) = 3 /\ type = "MEM_OPT" -> d
         [] Mod(c) = 3 /\ type \in MemTypes \ {"MEM_OPT"} -> Fails([e(d) EXCEPT !.lockable = FALSE])
         [] Mod(c) = 3 /\ type \in RmTypes     -> ModrmRegister(c, e(d), type, n)
         [] OTHER -> ModrmMemory(c, e(d), n)
  BY Zenon DEF Modrm
<1>6. Modrm(c2, d2, type, n) = CASE Mod(c) = 3 /\ type = "MEM_OPT" -> d2
         [] Mod(c) = 3 /\ type \in MemTypes \ {"MEM_OPT"} -> Fails([e(d2) EXCEPT !.lockable = FALSE])
         [] Mod(c) = 3 /\ type \in RmTypes     -> ModrmRegister(c2, e(d2), type, n)
         [] OTHER -> ModrmMemory(c2, e(d2), n)
  BY <1>1, <1>2, <1>3, Zenon DEF Modrm
<1> HIDE DEF e
<1>7. Copies(e(d), Moved(e(d), h), b, h) BY <1>4 DEF Takes, Copies
<1>8. Takes(d, Fails([e(d) EXCEPT !.lockable = FALSE]), Fails([e(d2) EXCEPT !.lockable = FALSE]), b, h)
  <2>1. Takes(d, [e(d) EXCEPT !.lockable = FALSE], [e(d2) EXCEPT !.lockable = FALSE], b, h) BY <1>4, TakesField
  <2> QED BY <2>1, TakesFails
<1>9. Takes(d, ModrmRegister(c, e(d), type, n), ModrmRegister(c2, e(d2), type, n), b, h)
  <2>1. Takes(e(d), ModrmRegister(c, e(d), type, n), ModrmRegister(c2, Moved(e(d), h), type, n), b, h)
    BY <1>7, ModrmRegisterTakes
  <2> QED BY <1>1, <1>4, <2>1, TakesThen
<1>10. Mod(c) # 3 => Takes(d, ModrmMemory(c, e(d), n), ModrmMemory(c2, e(d2), n), b, h)
  <2>1. Mod(c) # 3 => Takes(e(d), ModrmMemory(c, e(d), n), ModrmMemory(c2, Moved(e(d), h), n), b, h)
    BY <1>7, ModrmMemoryTakes
  <2> QED BY <1>1, <1>4, <2>1, TakesThen
<1>11. CASE Mod(c) = 3 BY <1>4, <1>5, <1>6, <1>8, <1>9, <1>11
<1>12. CASE Mod(c) # 3 BY <1>5, <1>6, <1>10, <1>12
<1> QED BY <1>11, <1>12

-----------------------------------------------------------------------------
LEMMA ImmediateTakes ==
  ASSUME NEW d, NEW b, NEW h \in Moves, Within(d, b), NEW e, NEW e2, Takes(d, e, e2, b, h),
         NEW n, NEW kind, NEW size, NEW bytes \in Nat
  PROVE  Takes(d, Immediate(e, n, kind, size, bytes), Immediate(e2, n, kind, size, bytes), b, h)
<1>1. Takes(d, SetOp(e, n, kind, size, 0), SetOp(e2, n, kind, size, 0), b, h) BY TakesSet
<1> QED BY <1>1, TakesRead DEF Immediate

\* A flag more, the same in both.
LEMMA FlaggedTakes ==
  ASSUME NEW d, NEW b, NEW h, NEW e, NEW e2, Takes(d, e, e2, b, h), NEW flag
  PROVE  Takes(d, [e EXCEPT !.flags = @ \cup {flag}], [e2 EXCEPT !.flags = @ \cup {flag}], b, h)
<1>1. [e EXCEPT !.flags = @ \cup {flag}] = [e EXCEPT !.flags = e.flags \cup {flag}]
  BY DFieldsLemma DEF Takes, Within
<1>2. Whole(e, h) => [e2 EXCEPT !.flags = @ \cup {flag}] = [e2 EXCEPT !.flags = e2.flags \cup {flag}]
  BY CopiesLemma, DFieldsLemma DEF Takes, Copies
<1>3. e2 = Moved(e, h) => e2.flags = e.flags BY CopiesLemma DEF Copies, Takes
<1>4. Takes(d, [e EXCEPT !.flags = e.flags \cup {flag}], [e2 EXCEPT !.flags = e2.flags \cup {flag}], b, h)
  BY <1>3, TakesField
<1>5. Whole([e EXCEPT !.flags = e.flags \cup {flag}], h) => Whole(e, h)
  BY DFieldsLemma DEF Whole, Takes, Within
<1> QED BY <1>1, <1>2, <1>4, <1>5 DEF Takes

LEMMA HintTakes ==
  ASSUME NEW c, NEW c2, NEW b, NEW h, Twin(c, c2, b, h), NEW d, NEW d2, Copies(d, d2, b, h)
  PROVE  Takes(d, Hint(c, d), Hint(c2, d2), b, h)
<1>1. c2.jcc = c.jcc /\ d2.ps.decoded = d.ps.decoded BY TwinLemma, CopiesLemma
<1>2. \A p : Takes(d, Uses(d, p), Uses(d2, p), b, h) BY TakesNone, TakesUses
<1>3. \A p, flag : Takes(d, [Uses(d, p) EXCEPT !.flags = @ \cup {flag}], [Uses(d2, p) EXCEPT !.flags = @ \cup {flag}], b, h)
  BY <1>2, FlaggedTakes
<1>4. Takes(d, d, d2, b, h) BY TakesNone
<1> QED BY <1>1, <1>3, <1>4, Zenon DEF Hint

LEMMA RelativeTakes ==
  ASSUME NEW c, NEW c2, NEW b, NEW h, Twin(c, c2, b, h), NEW d, NEW d2, Copies(d, d2, b, h), NEW type, NEW n
  PROVE  Takes(d, Relative(c, d, type, n), Relative(c2, d2, type, n), b, h)
<1> DEFINE size == IF type = "RELCB" THEN 8 ELSE IF c.op = 16 THEN 16 ELSE 32
           e(x) == Immediate(UsesIf(x, type = "RELC_FULL", "OP_SIZE"), n, "PC", size, size \div 8)
<1>1. c2.op = c.op /\ h \in Moves /\ Within(d, b) BY TwinLemma, CopiesLemma
<1>2. size \in {8, 16, 32} OBVIOUS
<1>3. Relative(c, d, type, n) = Hint(c, e(d)) BY DEF Relative
<1>4. Relative(c2, d2, type, n) = Hint(c2, e(d2)) BY <1>1 DEF Relative
<1>5. Takes(d, UsesIf(d, type = "RELC_FULL", "OP_SIZE"), UsesIf(d2, type = "RELC_FULL", "OP_SIZE"), b, h)
  BY TakesNone, TakesUses
<1> HIDE DEF size
<1>6. size \div 8 \in Nat BY <1>2
<1>7. Takes(d, e(d), e(d2), b, h) BY <1>1, <1>5, <1>6, ImmediateTakes
<1> HIDE DEF e
<1>8. Takes(e(d), Hint(c, e(d)), Hint(c2, Moved(e(d), h)), b, h) BY <1>7, HintTakes DEF Takes, Copies
<1> QED BY <1>1, <1>3, <1>4, <1>7, <1>8, TakesThen

LEMMA MemOffsetTakes ==
  ASSUME NEW c, IsContext(c), NEW c2, NEW b, NEW h, Twin(c, c2, b, h), NEW d, NEW d2, Copies(d, d2, b, h), NEW n, NEW size
  PROVE  Takes(d, MemOffset(c, d, n, size), MemOffset(c2, d2, n, size), b, h)
<1> DEFINE e(x) == UsesIf(SetOp(x, n, "DISP", size, 0), c.adr # 64, "ADDR_SIZE")
<1>1. c2.adr = c.adr /\ h \in Moves /\ Within(d, b) BY TwinLemma, CopiesLemma
<1>2. Takes(d, SetOp(d, n, "DISP", size, 0), SetOp(d2, n, "DISP", size, 0), b, h) BY TakesNone, TakesSet
<1>3. Takes(d, e(d), e(d2), b, h) BY <1>2, TakesUses
<1>4. c.adr \in {8, 16, 32, 64} BY DEF IsContext, Modes
<1>5. MemOffset(c, d, n, size) = Displacement(UseSegment(c, e(d), "DS"), c.adr) BY DEF MemOffset
<1>6. MemOffset(c2, d2, n, size) = Displacement(UseSegment(c2, e(d2), "DS"), c.adr) BY <1>1 DEF MemOffset
<1> HIDE DEF e
<1>7. Takes(d, UseSegment(c, e(d), "DS"), UseSegment(c2, e(d2), "DS"), b, h) BY <1>1, <1>3, SegmentAfter
<1> QED BY <1>1, <1>4, <1>5, <1>6, <1>7, DisplacementTakes

LEMMA ImmediateOperandTakes ==
  ASSUME NEW c, IsContext(c), NEW c2, NEW b, NEW h, Twin(c, c2, b, h), NEW d, NEW d2, Copies(d, d2, b, h), NEW type, NEW n
  PROVE  Takes(d, ImmediateOperand(c, d, type, n), ImmediateOperand(c2, d2, type, n), b, h)
<1>1. /\ c2.op = c.op /\ c2.dt = c.dt /\ c2.flags = c.flags /\ NeedsRex(c2) = NeedsRex(c)
      /\ d2.ps.decoded = d.ps.decoded /\ h \in Moves /\ Within(d, b)
  BY TwinLemma, CopiesLemma
<1>2. \A e, e2, kind, size : Takes(d, e, e2, b, h) =>
        /\ Takes(d, Immediate(e, n, kind, size, 1), Immediate(e2, n, kind, size, 1), b, h)
        /\ Takes(d, Immediate(e, n, kind, size, 2), Immediate(e2, n, kind, size, 2), b, h)
        /\ Takes(d, Immediate(e, n, kind, size, 4), Immediate(e2, n, kind, size, 4), b, h)
        /\ Takes(d, Immediate(e, n, kind, size, 6), Immediate(e2, n, kind, size, 6), b, h)
        /\ Takes(d, Immediate(e, n, kind, size, 8), Immediate(e2, n, kind, size, 8), b, h)
  BY <1>1, ImmediateTakes
<1>3. \A e, e2 : Takes(d, e, e2, b, h) => Takes(d, Signed(e), Signed(e2), b, h) BY FlaggedTakes DEF Signed
<1>4. Takes(d, d, d2, b, h) /\ \A p : Takes(d, Uses(d, p), Uses(d2, p), b, h) BY TakesNone, TakesUses
<1>5. \A e, e2 : Takes(d, e, e2, b, h) => Takes(d, Imm32(c, e, n), Imm32(c2, e2, n), b, h)
  BY <1>1, <1>2, <1>3 DEF Imm32
<1>6. Takes(d, ImmFull(c, d, n), ImmFull(c2, d2, n), b, h) BY <1>1, <1>2, <1>4, <1>5 DEF ImmFull
<1>7. Takes(d, SignedImm8(c, d, n), SignedImm8(c2, d2, n), b, h)
  <2>1. \A p, size : Takes(d, Immediate(Signed(Uses(d, p)), n, "IMM", size, 1), Immediate(Signed(Uses(d2, p)), n, "IMM", size, 1), b, h)
    BY <1>2, <1>3, <1>4
  <2>2. \A size : Takes(d, Immediate(Signed(d), n, "IMM", size, 1), Immediate(Signed(d2), n, "IMM", size, 1), b, h)
    BY <1>2, <1>3, <1>4
  <2> QED BY <1>1, <2>1, <2>2 DEF SignedImm8
<1>8. Takes(d, Ptr16Full(c, d, n), Ptr16Full(c2, d2, n), b, h) BY <1>1, <1>2, <1>4 DEF Ptr16Full
<1>9. \A size : Takes(d, MemOffset(c, d, n, size), MemOffset(c2, d2, n, size), b, h) BY MemOffsetTakes
<1>10. Takes(d, SetOp(d, n, "IMM", 8, 0), SetOp(d2, n, "IMM", 8, 0), b, h) BY TakesNone, TakesSet
<1>11. Takes(d, Relative(c, d, type, n), Relative(c2, d2, type, n), b, h) BY RelativeTakes
<1>12. Takes(d, Imm32(c, d, n), Imm32(c2, d2, n), b, h) BY <1>4, <1>5
<1>13. \A kind, size : /\ Takes(d, Immediate(d, n, kind, size, 1), Immediate(d2, n, kind, size, 1), b, h)
                       /\ Takes(d, Immediate(d, n, kind, size, 2), Immediate(d2, n, kind, size, 2), b, h)
  BY <1>2, <1>4
<1> QED BY <1>1, <1>6, <1>7, <1>8, <1>9, <1>10, <1>11, <1>12, <1>13 DEF ImmediateOperand

-----------------------------------------------------------------------------
LEMMA NamedRegisterTakes ==
  ASSUME NEW c, NEW c2, NEW b, NEW h, Twin(c, c2, b, h), NEW d, NEW d2, Copies(d, d2, b, h), NEW n
  PROVE  /\ \A reg, bit, rexed : Takes(d, FullReg(c, d, n, reg, bit, rexed), FullReg(c2, d2, n, reg, bit, rexed), b, h)
         /\ \A reg, bit, rexed : Takes(d, Reg8(d, n, reg, bit, rexed), Reg8(d2, n, reg, bit, rexed), b, h)
         /\ \A size, base : Takes(d, Named(c, d, n, size, base), Named(c2, d2, n, size, base), b, h)
         /\ \A size, base : Takes(d, Quiet(c, d, n, size, base), Quiet(c2, d2, n, size, base), b, h)
         /\ \A reg : Takes(d, Vector(d, n, reg), Vector(d2, n, reg), b, h)
<1>1. /\ c2.op = c.op /\ RegOf(c2) = RegOf(c) /\ (\A bit : Has(d2, bit) = Has(d, bit))
      /\ \A bit, m : Ext(d2, bit, m) = Ext(d, bit, m)
  BY TwinLemma, CopiesLemma
<1>2. \A size, reg : Takes(d, SetReg(d, n, size, reg), SetReg(d2, n, size, reg), b, h) BY TakesNone, TakesSet
<1>3. \A p, size, reg : Takes(d, SetReg(Uses(d, p), n, size, reg), SetReg(Uses(d2, p), n, size, reg), b, h)
  BY TakesNone, TakesUses, TakesSet
<1>4. \A cond, p, size, reg : Takes(d, SetReg(UsesIf(d, cond, p), n, size, reg), SetReg(UsesIf(d2, cond, p), n, size, reg), b, h)
  BY TakesNone, TakesUses, TakesSet
<1>5. \A reg, bit, rexed : Takes(d, FullReg(c, d, n, reg, bit, rexed), FullReg(c2, d2, n, reg, bit, rexed), b, h)
  BY <1>1, <1>3 DEF FullReg
<1>6. \A reg, bit, rexed : Takes(d, Reg8(d, n, reg, bit, rexed), Reg8(d2, n, reg, bit, rexed), b, h)
  BY <1>1, <1>2, <1>3 DEF Reg8
<1>7. \A size, base : Takes(d, Named(c, d, n, size, base), Named(c2, d2, n, size, base), b, h)
  BY <1>1, <1>4 DEF Named
<1>8. \A size, base : Takes(d, Quiet(c, d, n, size, base), Quiet(c2, d2, n, size, base), b, h)
  BY <1>1, <1>2 DEF Quiet
<1>9. \A reg : Takes(d, Vector(d, n, reg), Vector(d2, n, reg), b, h) BY <1>1, <1>2 DEF Vector
<1> QED BY <1>5, <1>6, <1>7, <1>8, <1>9

LEMMA SpecialRegisterTakes ==
  ASSUME NEW c, NEW c2, NEW b, NEW h, Twin(c, c2, b, h), NEW d, NEW d2, Copies(d, d2, b, h), NEW type, NEW n
  PROVE  /\ Takes(d, Reg32Or64(c, d, n), Reg32Or64(c2, d2, n), b, h) /\ Takes(d, CReg(c, d, n), CReg(c2, d2, n), b, h)
         /\ Takes(d, DReg(c, d, n), DReg(c2, d2, n), b, h) /\ Takes(d, SReg(c, d, n), SReg(c2, d2, n), b, h)
         /\ Takes(d, Seg(c, d, n), Seg(c2, d2, n), b, h) /\ Takes(d, Acc(c, d, n), Acc(c2, d2, n), b, h)
<1>1. /\ c2.op = c.op /\ c2.dt = c.dt /\ c2.flags = c.flags /\ RegOf(c2) = RegOf(c)
      /\ Promoted(c2) = Promoted(c) /\ Native(c2) = Native(c)
      /\ d2.ps.decoded = d.ps.decoded /\ (\A bit : Has(d2, bit) = Has(d, bit))
      /\ h \in Moves /\ Within(d, b)
  BY TwinLemma, CopiesLemma
<1>2. \A size, reg : Takes(d, SetReg(d, n, size, reg), SetReg(d2, n, size, reg), b, h) BY TakesNone, TakesSet
<1>3. \A p, size, reg : Takes(d, SetReg(Uses(d, p), n, size, reg), SetReg(Uses(d2, p), n, size, reg), b, h)
  BY TakesNone, TakesUses, TakesSet
<1>4. Takes(d, Fails(d), Fails(d2), b, h) /\ \A p : Takes(d, Fails(Uses(d, p)), Fails(Uses(d2, p)), b, h)
  BY TakesNone, TakesUses, TakesFails
<1>5. Takes(d, Reg32Or64(c, d, n), Reg32Or64(c2, d2, n), b, h)
  <2>1. \A size, base : Takes(d, Named(c, d, n, size, base), Named(c2, d2, n, size, base), b, h) BY NamedRegisterTakes
  <2>2. \A p, size, base : Takes(d, Named(c, Uses(d, p), n, size, base), Named(c2, Uses(d2, p), n, size, base), b, h)
    <3> TAKE p, size, base
    <3>1. Takes(d, Uses(d, p), Uses(d2, p), b, h) BY TakesNone, TakesUses
    <3>2. Takes(Uses(d, p), Named(c, Uses(d, p), n, size, base), Named(c2, Moved(Uses(d, p), h), n, size, base), b, h)
      BY <3>1, NamedRegisterTakes DEF Takes, Copies
    <3> QED BY <1>1, <3>1, <3>2, TakesThen
  <2> QED BY <1>1, <2>1, <2>2 DEF Reg32Or64
<1>6. Takes(d, CReg(c, d, n), CReg(c2, d2, n), b, h)
  <2> DEFINE locked == ~Has(d, "R") /\ c.dt = 32 /\ "LOCK" \in d.ps.decoded
             p      == (IF Has(d, "R") THEN {"REX"} ELSE {}) \cup (IF locked THEN {"LOCK"} ELSE {})
             reg    == RegOf(c) + (IF Has(d, "R") \/ locked THEN 8 ELSE 0)
             of(x)  == IF reg \in {0, 2, 3, 4, 8} THEN SetReg(Uses(x, p), n, Native(c), CREGS + reg) ELSE Fails(Uses(x, p))
  <2>1. CReg(c, d, n) = of(d) BY DEF CReg
  <2>2. CReg(c2, d2, n) = of(d2) BY <1>1 DEF CReg
  <2> HIDE DEF reg, p
  <2> QED BY <1>3, <1>4, <2>1, <2>2
<1>7. Takes(d, DReg(c, d, n), DReg(c2, d2, n), b, h) BY <1>1, <1>2, <1>4 DEF DReg
<1>8. Takes(d, SReg(c, d, n), SReg(c2, d2, n), b, h) BY <1>1, <1>2, <1>4 DEF SReg
<1>9. Takes(d, Seg(c, d, n), Seg(c2, d2, n), b, h) BY <1>1, <1>3 DEF Seg
<1>10. Takes(d, Acc(c, d, n), Acc(c2, d2, n), b, h) BY <1>1, <1>3 DEF Acc
<1> QED BY <1>5, <1>6, <1>7, <1>8, <1>9, <1>10

\* The register that an immediate byte names: that byte is taken.
LEMMA ByImmediateTakes ==
  ASSUME NEW c, NEW c2, NEW b, NEW h, Twin(c, c2, b, h), NEW d, NEW d2, Copies(d, d2, b, h), NEW type, NEW n
  PROVE  Takes(d, ByImmediate(c, d, type, n), ByImmediate(c2, d2, type, n), b, h)
<1> DEFINE named(x, reg) == IF type = "XMM_IMM" THEN SetReg(x, n, 128, SSEREGS + reg) ELSE Vector(x, n, reg)
<1>1. c2.dt = c.dt /\ h \in Moves /\ Within(d, b) /\ d.left \in Nat /\ h.less \in Int /\ d2.left = d.left - h.less
  BY TwinLemma, CopiesLemma DEF Moves, Within
<1>2. \A reg : Takes(d, named(d, reg), named(d2, reg), b, h) /\ named(d, reg).left = d.left
  <2> TAKE reg
  <2>1. Takes(d, named(d, reg), named(d2, reg), b, h) BY TakesNone, TakesSet, NamedRegisterTakes
  <2>2. \A size, r : SetReg(d, n, size, r).left = d.left BY <1>1, DFieldsLemma DEF SetReg, SetOp, Within
  <2> QED BY <2>1, <2>2 DEF Vector
<1>3. \A x, y : ByImmediate(y, x, type, n) = IF x.left < 1 THEN Fails(x) ELSE Read(named(x, ImmReg(y, x)), 1)
  BY DEF ByImmediate
<1>4. CASE d.left < 1
  <2>1. Takes(d, Fails(d), ByImmediate(c2, d2, type, n), b, h) BY TakesNone, TakesFails
  <2> QED BY <1>3, <1>4, <2>1
<1>5. CASE ~(d.left < 1)
  <2> DEFINE reg == ImmReg(c, d)
             g   == Read(named(d, reg), 1)
  <2> HIDE DEF named, reg
  <2>1. Takes(d, g, Read(named(d2, reg), 1), b, h) BY <1>1, <1>2, TakesRead
  <2>2. g.left = d.left - 1
    <3>1. DOMAIN named(d, reg) = DFields BY <1>2 DEF Takes, Within
    <3> QED BY <1>2, <1>5, <3>1, DFieldsLemma DEF Read
  <2>3. ByImmediate(c, d, type, n) = g BY <1>3, <1>5 DEF reg
  <2> HIDE DEF g
  <2>4. Whole(g, h) => d.left >= 1 /\ d.left - 1 >= h.less /\ ~(d2.left < 1) BY <1>1, <1>5, <2>2 DEF Whole
  <2>5. Whole(g, h) => ImmReg(c2, d2) = reg BY <1>1, <2>4, BytesLemma DEF Twin, ImmReg, reg
  <2>6. Whole(g, h) => ByImmediate(c2, d2, type, n) = Read(named(d2, reg), 1) BY <1>3, <2>4, <2>5
  <2> QED BY <2>1, <2>3, <2>6 DEF Takes
<1> QED BY <1>4, <1>5

LEMMA ImplicitTakes ==
  ASSUME NEW c, NEW c2, NEW b, NEW h, Twin(c, c2, b, h), NEW d, NEW d2, Copies(d, d2, b, h), NEW n
  PROVE  /\ Takes(d, Source(c, d, n), Source(c2, d2, n), b, h)
         /\ Takes(d, Destination(c, d, n), Destination(c2, d2, n), b, h)
         /\ Takes(d, Xlat(c, d, n), Xlat(c2, d2, n), b, h) /\ Takes(d, Svm(c, d, n), Svm(c2, d2, n), b, h)
<1>1. /\ c2.adr = c.adr /\ c2.dt = c.dt /\ StringSize(c2) = StringSize(c) /\ StringUsed(c2) = StringUsed(c)
      /\ Within(d, b)
  BY TwinLemma, CopiesLemma
<1>2. \A e, e2, kind, size, reg : Takes(d, e, e2, b, h) => Takes(d, SetOp(e, n, kind, size, reg), SetOp(e2, n, kind, size, reg), b, h)
  BY TakesSet
<1>3. \A p, cond : Takes(d, Uses(d, p), Uses(d2, p), b, h) /\ Takes(d, UsesIf(d, cond, p), UsesIf(d2, cond, p), b, h)
  BY TakesNone, TakesUses
<1>4. \A reg : Takes(d, StringOp(c, d, n, reg), StringOp(c2, d2, n, reg), b, h) BY <1>1, <1>2, <1>3 DEF StringOp
<1>5. \A e, e2, v : Takes(d, e, e2, b, h) =>
        /\ Takes(d, [e EXCEPT !.segment = v], [e2 EXCEPT !.segment = v], b, h)
        /\ Takes(d, [e EXCEPT !.base = v], [e2 EXCEPT !.base = v], b, h)
  BY TakesField
<1>6. \A e, e2, default : Takes(d, e, e2, b, h) => Takes(d, UseSegment(c, e, default), UseSegment(c2, e2, default), b, h)
  BY <1>1, SegmentAfter
<1>7. Takes(d, Source(c, d, n), Source(c2, d2, n), b, h)
  <2>1. Takes(d, [StringOp(c, d, n, SI) EXCEPT !.segment = {}], [StringOp(c2, d2, n, SI) EXCEPT !.segment = {}], b, h)
    BY <1>4, <1>5
  <2> QED BY <1>6, <2>1 DEF Source
<1>8. Takes(d, Destination(c, d, n), Destination(c2, d2, n), b, h)
  <2>1. \A v : Takes(d, [StringOp(c, d, n, DI) EXCEPT !.segment = v], [StringOp(c2, d2, n, DI) EXCEPT !.segment = v], b, h)
    BY <1>4, <1>5
  <2> QED BY <1>1, <1>4, <2>1 DEF Destination
<1>9. Takes(d, Xlat(c, d, n), Xlat(c2, d2, n), b, h)
  <2> DEFINE p == {"ADDR_SIZE"} \cup (IF c.adr = 64 THEN {"REX"} ELSE {})
             e(y, x) == SetOp(UseSegment(y, Uses(x, p), "DS"), n, "MEM", 8, REGS8 + AX)
  <2>1. Takes(d, e(c, d), e(c2, d2), b, h) BY <1>2, <1>3, <1>6
  <2>2. \A v : Takes(d, [e(c, d) EXCEPT !.base = v], [e(c2, d2) EXCEPT !.base = v], b, h)
    <3> HIDE DEF e
    <3> QED BY <1>5, <2>1
  <2> QED BY <1>1, <2>2 DEF Xlat
<1>10. Takes(d, Svm(c, d, n), Svm(c2, d2, n), b, h) BY <1>1, <1>2, <1>3 DEF Svm
<1> QED BY <1>7, <1>8, <1>9, <1>10

\* The register in the opcode's last byte, the byte that was taken last.
LEMMA OpcodeOperandTakes ==
  ASSUME NEW c, NEW c2, NEW b, NEW h, Twin(c, c2, b, h), NEW d, NEW d2, Copies(d, d2, b, h), NEW type \in OpcodeTypes, NEW n
  PROVE  Takes(d, OpcodeOperand(c, d, type, n), OpcodeOperand(c2, d2, type, n), b, h)
<1> DEFINE e(y, x, lb) ==
             CASE type = "FPU_SI"    -> SetReg(x, n, 32, FPUREGS + lb)
               [] type = "FPU_SSI"   -> SetReg(SetReg(x, n, 32, FPUREGS), n + 1, 32, FPUREGS + lb)
               [] type = "FPU_SIS"   -> SetReg(SetReg(x, n, 32, FPUREGS + lb), n + 1, 32, FPUREGS)
               [] type = "IB_RB"     -> Reg8(x, n, lb, "B", Has(d, "B") \/ d.ps.ext = "REX")
               [] type = "IB_R_FULL" -> FullReg(y, x, n, lb, "B", ~Promoted(c))
           lb == LastByte(c, d) % 8
<1>1. /\ Promoted(c2) = Promoted(c) /\ Has(d2, "B") = Has(d, "B") /\ d2.ps.ext = d.ps.ext
      /\ d.left \in Nat /\ Within(d, b)
  BY TwinLemma, CopiesLemma DEF Within
<1>2. \A x, x2, m, size, reg : Takes(d, x, x2, b, h) => Takes(d, SetReg(x, m, size, reg), SetReg(x2, m, size, reg), b, h)
  BY TakesSet
<1>3. \A m, size, reg : Takes(d, SetReg(d, m, size, reg), SetReg(d2, m, size, reg), b, h) BY <1>2, TakesNone
<1>4. /\ \A reg, bit, rexed : Takes(d, FullReg(c, d, n, reg, bit, rexed), FullReg(c2, d2, n, reg, bit, rexed), b, h)
      /\ \A reg, bit, rexed : Takes(d, Reg8(d, n, reg, bit, rexed), Reg8(d2, n, reg, bit, rexed), b, h)
  BY NamedRegisterTakes
<1>5. type \in {"FPU_SI", "FPU_SSI", "FPU_SIS", "IB_RB", "IB_R_FULL"} BY DEF OpcodeTypes
<1>6. \A l : Takes(d, e(c, d, l), e(c2, d2, l), b, h) BY <1>2, <1>3, <1>4, <1>5
<1>7. OpcodeOperand(c, d, type, n) = e(c, d, lb) BY <1>5 DEF OpcodeOperand
<1>8. LastByte(c2, d2) = LastByte(c, d) => OpcodeOperand(c2, d2, type, n) = e(c2, d2, lb) BY <1>1, <1>5 DEF OpcodeOperand
<1>9. d.left >= h.less => LastByte(c2, d2) = LastByte(c, d) BY BytesLemma DEF Twin, LastByte
<1> HIDE DEF e, lb
<1>10. e(c, d, lb).left <= d.left BY <1>6 DEF Takes
<1>11. Whole(e(c, d, lb), h) => d.left >= h.less
  <2>1. e(c, d, lb).left \in Int /\ h.less \in Int BY <1>6, TwinLemma DEF Takes, Within, Moves
  <2> QED BY <1>1, <1>10, <2>1 DEF Whole
<1> QED BY <1>6, <1>7, <1>8, <1>9, <1>11 DEF Takes

LEMMA RegisterOperandTakes ==
  ASSUME NEW c, NEW c2, NEW b, NEW h, Twin(c, c2, b, h), NEW d, NEW d2, Copies(d, d2, b, h), NEW type, NEW n
  PROVE  Takes(d, RegisterOperand(c, d, type, n), RegisterOperand(c2, d2, type, n), b, h)
<1>1. /\ RegOf(c2) = RegOf(c) /\ Rm(c2) = Rm(c) /\ Native(c2) = Native(c)
      /\ (\A bit : Has(d2, bit) = Has(d, bit)) /\ (\A bit, m : Ext(d2, bit, m) = Ext(d, bit, m))
      /\ d2.ps.ext = d.ps.ext /\ d2.ps.vexV = d.ps.vexV
  BY TwinLemma, CopiesLemma
<1>2. \A size, reg : Takes(d, SetReg(d, n, size, reg), SetReg(d2, n, size, reg), b, h) BY TakesNone, TakesSet
<1>3. \A cond, size, reg : Takes(d, SetReg(UsesIf(d, cond, "REX"), n, size, reg), SetReg(UsesIf(d2, cond, "REX"), n, size, reg), b, h)
  BY TakesNone, TakesUses, TakesSet
<1>4. /\ \A reg, bit, rexed : Takes(d, FullReg(c, d, n, reg, bit, rexed), FullReg(c2, d2, n, reg, bit, rexed), b, h)
      /\ \A reg, bit, rexed : Takes(d, Reg8(d, n, reg, bit, rexed), Reg8(d2, n, reg, bit, rexed), b, h)
      /\ \A size, base : Takes(d, Named(c, d, n, size, base), Named(c2, d2, n, size, base), b, h)
      /\ \A size, base : Takes(d, Quiet(c, d, n, size, base), Quiet(c2, d2, n, size, base), b, h)
      /\ \A reg : Takes(d, Vector(d, n, reg), Vector(d2, n, reg), b, h)
  BY NamedRegisterTakes
<1>5. /\ Takes(d, Reg32Or64(c, d, n), Reg32Or64(c2, d2, n), b, h) /\ Takes(d, CReg(c, d, n), CReg(c2, d2, n), b, h)
      /\ Takes(d, DReg(c, d, n), DReg(c2, d2, n), b, h) /\ Takes(d, SReg(c, d, n), SReg(c2, d2, n), b, h)
      /\ Takes(d, Seg(c, d, n), Seg(c2, d2, n), b, h) /\ Takes(d, Acc(c, d, n), Acc(c2, d2, n), b, h)
  BY SpecialRegisterTakes
<1>6. Takes(d, ByImmediate(c, d, type, n), ByImmediate(c2, d2, type, n), b, h) BY ByImmediateTakes
<1>7. /\ Takes(d, Source(c, d, n), Source(c2, d2, n), b, h)
      /\ Takes(d, Destination(c, d, n), Destination(c2, d2, n), b, h)
      /\ Takes(d, Xlat(c, d, n), Xlat(c2, d2, n), b, h) /\ Takes(d, Svm(c, d, n), Svm(c2, d2, n), b, h)
  BY ImplicitTakes
<1>8. Takes(d, Fails(d), Fails(d2), b, h) BY TakesNone, TakesFails
<1>9. CASE type \in {"REG8", "REG16", "REG_FULL", "REG32", "REG32_64"}
  <2>1. CASE type = "REG8" BY <1>1, <1>2, <1>4, <1>5, <2>1 DEF RegisterOperand
  <2>2. CASE type = "REG16" BY <1>1, <1>2, <1>4, <1>5, <2>2 DEF RegisterOperand
  <2>3. CASE type = "REG_FULL" BY <1>1, <1>2, <1>4, <1>5, <2>3 DEF RegisterOperand
  <2>4. CASE type = "REG32" BY <1>1, <1>2, <1>4, <1>5, <2>4 DEF RegisterOperand
  <2>5. CASE type = "REG32_64" BY <1>1, <1>2, <1>4, <1>5, <2>5 DEF RegisterOperand
  <2> QED BY <1>9, <2>1, <2>2, <2>3, <2>4, <2>5
<1>10. CASE type \in {"FREG32_64_RM", "XMM_RM"}
  <2>1. \A size, reg : Takes(d, SetReg(UsesIf(d, Has(d, "B"), "REX"), n, size, reg),
                               SetReg(UsesIf(d2, Has(d2, "B"), "REX"), n, size, reg), b, h)
    BY <1>1, <1>3, Zenon
  <2>2. CASE type = "FREG32_64_RM" BY <1>1, <2>1, <2>2 DEF RegisterOperand
  <2>3. CASE type = "XMM_RM" BY <1>1, <2>1, <2>3 DEF RegisterOperand
  <2> QED BY <1>10, <2>2, <2>3
<1>11. CASE type \in {"CREG", "DREG", "SREG", "SEG", "ACC_FULL", "ACC_FULL_NOT64"}
  <2>1. CASE type = "CREG" BY <1>5, <2>1 DEF RegisterOperand
  <2>2. CASE type = "DREG" BY <1>5, <2>2 DEF RegisterOperand
  <2>3. CASE type = "SREG" BY <1>5, <2>3 DEF RegisterOperand
  <2>4. CASE type = "SEG" BY <1>5, <2>4 DEF RegisterOperand
  <2>5. CASE type = "ACC_FULL" BY <1>5, <2>5 DEF RegisterOperand
  <2>6. CASE type = "ACC_FULL_NOT64" BY <1>5, <2>6 DEF RegisterOperand
  <2> QED BY <1>11, <2>1, <2>2, <2>3, <2>4, <2>5, <2>6
<1>12. CASE type = "MM" BY <1>1, <1>2, <1>12 DEF RegisterOperand
<1>13. CASE type = "MM_RM" BY <1>1, <1>2, <1>13 DEF RegisterOperand
<1>14. CASE type \in {"XMM", "YMM"}
  <2>1. CASE type = "XMM" BY <1>4, <2>1 DEF RegisterOperand
  <2>2. CASE type = "YMM" BY <1>4, <2>2 DEF RegisterOperand
  <2> QED BY <1>14, <2>1, <2>2
<1>15. CASE type = "WREG32_64"
  <2>1. CASE Has(d, "W") BY <1>1, <1>4, <1>15, <2>1 DEF RegisterOperand
  <2>2. CASE ~Has(d, "W") BY <1>1, <1>4, <1>15, <2>2 DEF RegisterOperand
  <2> QED BY <2>1, <2>2
<1>16. CASE type = "YXMM" BY <1>1, <1>4, <1>16 DEF RegisterOperand
<1>17. CASE type = "VYXMM" BY <1>1, <1>4, <1>17 DEF RegisterOperand
<1>18. CASE type \in {"VXMM", "VYMM"}
  <2>1. CASE type = "VXMM" BY <1>1, <1>2, <2>1 DEF RegisterOperand
  <2>2. CASE type = "VYMM" BY <1>1, <1>2, <2>2 DEF RegisterOperand
  <2> QED BY <1>18, <2>1, <2>2
<1>19. CASE type \in {"XMM_IMM", "YXMM_IMM"}
  <2>1. CASE type = "XMM_IMM" BY <1>6, <2>1 DEF RegisterOperand
  <2>2. CASE type = "YXMM_IMM" BY <1>6, <2>2 DEF RegisterOperand
  <2> QED BY <1>19, <2>1, <2>2
<1>20. CASE type \in {"REGI_ESI", "REGI_EDI", "REGI_EBXAL", "REGI_EAX"}
  <2>1. CASE type = "REGI_ESI" BY <1>7, <2>1 DEF RegisterOperand
  <2>2. CASE type = "REGI_EDI" BY <1>7, <2>2 DEF RegisterOperand
  <2>3. CASE type = "REGI_EBXAL" BY <1>7, <2>3 DEF RegisterOperand
  <2>4. CASE type = "REGI_EAX" BY <1>7, <2>4 DEF RegisterOperand
  <2> QED BY <1>20, <2>1, <2>2, <2>3, <2>4
<1>21. CASE type \notin {"REG8", "REG16", "REG_FULL", "REG32", "REG32_64", "FREG32_64_RM", "MM", "MM_RM", "XMM", "XMM_RM",
                         "CREG", "DREG", "SREG", "SEG", "ACC_FULL", "ACC_FULL_NOT64", "YXMM", "YMM", "WREG32_64",
                         "VXMM", "VYMM", "VYXMM", "XMM_IMM", "YXMM_IMM", "REGI_ESI", "REGI_EDI", "REGI_EBXAL", "REGI_EAX"}
  BY <1>8, <1>21 DEF RegisterOperand
<1> QED BY <1>9, <1>10, <1>11, <1>12, <1>13, <1>14, <1>15, <1>16, <1>17, <1>18, <1>19, <1>20, <1>21

\* An operand of the copy is the operand.
LEMMA ExtractTakes ==
  ASSUME NEW c, IsContext(c), NEW c2, NEW b, NEW h, Twin(c, c2, b, h), NEW d, NEW d2, Copies(d, d2, b, h), NEW type, NEW n
  PROVE  Takes(d, Extract(c, d, type, n), Extract(c2, d2, type, n), b, h)
<1>1. type \in MemTypes \cup RmTypes => Takes(d, Modrm(c, d, type, n), Modrm(c2, d2, type, n), b, h) BY ModrmTakes
<1>2. Takes(d, ImmediateOperand(c, d, type, n), ImmediateOperand(c2, d2, type, n), b, h) BY ImmediateOperandTakes
<1>3. type \in OpcodeTypes => Takes(d, OpcodeOperand(c, d, type, n), OpcodeOperand(c2, d2, type, n), b, h)
  BY OpcodeOperandTakes
<1>4. \A size, reg : Takes(d, SetReg(d, n, size, reg), SetReg(d2, n, size, reg), b, h) BY TakesNone, TakesSet
<1>5. Takes(d, RegisterOperand(c, d, type, n), RegisterOperand(c2, d2, type, n), b, h) BY RegisterOperandTakes
<1>6. Takes(d, d, d2, b, h) BY TakesNone
<1>7. d2.ok = d.ok BY CopiesLemma
<1>8. /\ type \in MemTypes \cup RmTypes => type \notin Immediates \cup OpcodeTypes \cup DOMAIN FixedRegister
      /\ type \in Immediates => type \notin OpcodeTypes \cup DOMAIN FixedRegister
      /\ type \in OpcodeTypes => type \notin DOMAIN FixedRegister
  <2>1. DOMAIN FixedRegister = {"ACC8", "ACC16", "REGCL", "REGDX", "REGECX", "REGXMM0"} BY DEF FixedRegister
  <2> QED BY <2>1 DEF MemTypes, RmTypes, Immediates, OpcodeTypes
<1>9. CASE ~d.ok BY <1>6, <1>7, <1>9 DEF Extract
<1>10. CASE d.ok
  <2>1. d2.ok BY <1>7, <1>10
  <2>2. CASE type \in MemTypes \cup RmTypes
    <3>1. Extract(c, d, type, n) = Modrm(c, d, type, n) BY <1>8, <1>10, <2>2 DEF Extract
    <3>2. Extract(c2, d2, type, n) = Modrm(c2, d2, type, n) BY <1>8, <2>1, <2>2 DEF Extract
    <3> QED BY <1>1, <2>2, <3>1, <3>2
  <2>3. CASE type \in Immediates
    <3>1. Extract(c, d, type, n) = ImmediateOperand(c, d, type, n) BY <1>8, <1>10, <2>3 DEF Extract
    <3>2. Extract(c2, d2, type, n) = ImmediateOperand(c2, d2, type, n) BY <1>8, <2>1, <2>3 DEF Extract
    <3> QED BY <1>2, <2>3, <3>1, <3>2
  <2>4. CASE type \in OpcodeTypes
    <3>1. Extract(c, d, type, n) = OpcodeOperand(c, d, type, n) BY <1>8, <1>10, <2>4 DEF Extract
    <3>2. Extract(c2, d2, type, n) = OpcodeOperand(c2, d2, type, n) BY <1>8, <2>1, <2>4 DEF Extract
    <3> QED BY <1>3, <2>4, <3>1, <3>2
  <2>5. CASE type \in DOMAIN FixedRegister
    <3>1. Extract(c, d, type, n) = SetReg(d, n, FixedRegister[type][1], FixedRegister[type][2]) BY <1>8, <1>10, <2>5 DEF Extract
    <3>2. Extract(c2, d2, type, n) = SetReg(d2, n, FixedRegister[type][1], FixedRegister[type][2]) BY <1>8, <2>1, <2>5 DEF Extract
    <3> QED BY <1>4, <2>5, <3>1, <3>2
  <2>6. CASE type \notin MemTypes \cup RmTypes \cup Immediates \cup OpcodeTypes \cup DOMAIN FixedRegister
    <3>1. Extract(c, d, type, n) = RegisterOperand(c, d, type, n) BY <1>8, <1>10, <2>6 DEF Extract
    <3>2. Extract(c2, d2, type, n) = RegisterOperand(c2, d2, type, n) BY <1>8, <2>1, <2>6 DEF Extract
    <3> QED BY <1>5, <2>6, <3>1, <3>2
  <2> QED BY <2>2, <2>3, <2>4, <2>5, <2>6
<1> QED BY <1>9, <1>10

LEMMA ExtractAllTakes ==
  ASSUME NEW c, IsContext(c), NEW c2, NEW b, NEW h, Twin(c, c2, b, h), NEW d, NEW d2, Copies(d, d2, b, h), NEW types
  PROVE  Takes(d, ExtractAll(c, d, types), ExtractAll(c2, d2, types), b, h)
<1> DEFINE taken(y, x, n) == IF n \in DOMAIN types THEN Extract(y, x, types[n], n) ELSE x
<1>1. h \in Moves /\ Within(d, b) BY TwinLemma, CopiesLemma
<1>2. ASSUME NEW e, NEW e2, Takes(d, e, e2, b, h), NEW n
      PROVE  Takes(d, taken(c, e, n), taken(c2, e2, n), b, h)
  <2>1. Takes(e, Extract(c, e, types[n], n), Extract(c2, Moved(e, h), types[n], n), b, h)
    BY <1>2, ExtractTakes DEF Takes, Copies
  <2>2. Takes(d, Extract(c, e, types[n], n), Extract(c2, e2, types[n], n), b, h) BY <1>1, <1>2, <2>1, TakesThen
  <2> QED BY <1>2, <2>2
<1>3. \A y, x : ExtractAll(y, x, types) = taken(y, taken(y, taken(y, taken(y, x, 1), 2), 3), 4) BY DEF ExtractAll
<1>4. Takes(d, d, d2, b, h) BY TakesNone
<1> HIDE DEF taken
<1> QED BY <1>2, <1>3, <1>4

-----------------------------------------------------------------------------
LEMMA TakesItself ==
  ASSUME NEW d, NEW b, NEW h, NEW e, Within(e, b), e.left <= d.left, e.ok => d.ok
  PROVE  Takes(d, e, Moved(e, h), b, h)
BY DEF Takes

LEMMA EatTakes ==
  ASSUME NEW d, NEW b, NEW h \in Moves, Within(d, b), NEW e, NEW e2, Takes(d, e, e2, b, h), e.left >= 1
  PROVE  /\ Takes(d, Eat(e), Eat(e2), b, h)
         /\ Eat(e).left = e.left - 1 /\ (Whole(Eat(e), h) => Whole(e, h) /\ e.left - 1 >= h.less /\ e2.left >= 1)
<1>1. ~(e.left < 1) /\ Read(e, 1) = Eat(e)
  <2>1. e.left \in Nat BY DEF Takes, Within
  <2> QED BY <2>1 DEF Read, Eat
<1>2. Takes(d, Eat(e), Read(e2, 1), b, h) BY <1>1, TakesRead
<1>3. Eat(e).left = e.left - 1 /\ Eat(e).ok = e.ok BY DFieldsLemma DEF Eat, Takes, Within
<1>4. e.left \in Int /\ h.less \in Int BY DEF Takes, Within, Moves
<1>5. Whole(Eat(e), h) => Whole(e, h) /\ e.left - 1 >= h.less BY <1>3, <1>4 DEF Whole
<1>6. Whole(Eat(e), h) => e2.left = e.left - h.less BY <1>5, CopiesLemma DEF Takes, Copies
<1>7. Whole(Eat(e), h) => e2.left >= 1 /\ ~(e2.left < 1) BY <1>4, <1>5, <1>6
<1>8. ~(e2.left < 1) => Read(e2, 1) = Eat(e2) BY DEF Read, Eat
<1>9. Takes(d, Eat(e), Eat(e2), b, h) BY <1>2, <1>7, <1>8 DEF Takes
<1> QED BY <1>3, <1>5, <1>7, <1>9

\* The byte that is the pseudo opcode.
LEMMA PseudoTakes ==
  ASSUME NEW c, NEW c2, NEW b, NEW h, Twin(c, c2, b, h), NEW d, NEW d2, Copies(d, d2, b, h), NEW max
  PROVE  LET pseudo(y, x) == IF x.left < 1 THEN Fails(x)
                             ELSE IF y.code[x.pos + 1] >= max THEN Fails(x)
                             ELSE [Eat(x) EXCEPT !.pseudo = y.code[x.pos + 1]]
         IN  Takes(d, pseudo(c, d), pseudo(c2, d2), b, h)
<1> DEFINE pseudo(y, x) == IF x.left < 1 THEN Fails(x)
                           ELSE IF y.code[x.pos + 1] >= max THEN Fails(x)
                           ELSE [Eat(x) EXCEPT !.pseudo = y.code[x.pos + 1]]
           byte  == c.code[d.pos + 1]
           byte2 == c2.code[d2.pos + 1]
<1>1. h \in Moves /\ Within(d, b) /\ d.left \in Nat BY TwinLemma, CopiesLemma DEF Within
<1>2. Takes(d, d, d2, b, h) /\ \A g2 : Takes(d, Fails(d), g2, b, h) BY TakesNone, TakesFails
<1>3. CASE d.left < 1 BY <1>2, <1>3
<1>4. CASE ~(d.left < 1) /\ byte >= max BY <1>2, <1>4
<1>5. CASE ~(d.left < 1) /\ ~(byte >= max)
  <2>1. d.left >= 1 BY <1>1, <1>5
  <2>2. /\ Takes(d, Eat(d), Eat(d2), b, h)
        /\ Whole(Eat(d), h) => d.left - 1 >= h.less /\ d2.left >= 1
    BY <1>1, <1>2, <2>1, EatTakes
  <2>3. Whole(Eat(d), h) => byte2 = byte BY <2>1, <2>2, BytesLemma DEF Twin
  <2> DEFINE g == [Eat(d) EXCEPT !.pseudo = byte]
  <2>4. Takes(d, g, [Eat(d2) EXCEPT !.pseudo = byte], b, h) BY <2>2, TakesField
  <2>5. g.left = Eat(d).left /\ g.ok = Eat(d).ok BY <2>2, DFieldsLemma DEF Takes, Within
  <2>6. Whole(g, h) => Whole(Eat(d), h) BY <2>5 DEF Whole
  <2>7. d2.left >= 1 => ~(d2.left < 1)
    <3>1. d2.left = d.left - h.less /\ h.less \in Int BY <1>1, CopiesLemma DEF Moves
    <3> QED BY <1>1, <3>1
  <2>8. pseudo(c, d) = g BY <1>5
  <2> HIDE DEF g
  <2>9. Whole(g, h) => pseudo(c2, d2) = [Eat(d2) EXCEPT !.pseudo = byte]
    BY <1>5, <2>2, <2>3, <2>6, <2>7
  <2> QED BY <2>4, <2>8, <2>9 DEF Takes
<1> QED BY <1>3, <1>4, <1>5

LEMMA SuffixTakes ==
  ASSUME NEW c, NEW c2, NEW b, NEW h, Twin(c, c2, b, h), NEW d, NEW d2, Copies(d, d2, b, h)
  PROVE  Takes(d, Suffix(c, d), Suffix(c2, d2), b, h)
<1> DEFINE pseudo(y, x, max) == IF x.left < 1 THEN Fails(x)
                                ELSE IF y.code[x.pos + 1] >= max THEN Fails(x)
                                ELSE [Eat(x) EXCEPT !.pseudo = y.code[x.pos + 1]]
           rest(y, x) == IF x.ii = Null THEN Fails(x)
                         ELSE IF "PSEUDO_OPCODE" \notin x.ii.flags THEN x
                         ELSE pseudo(y, x, CompareMax(x.ii.flags))
           found(y, x) == Lookup3DNow(y.code, x)
<1>1. h \in Moves /\ Within(d, b) /\ c2.flags = c.flags /\ d.left \in Nat BY TwinLemma, CopiesLemma DEF Within
<1>2. \A y, x : Suffix(y, x) = rest(y, IF "3DNOW_FETCH" \in y.flags THEN found(y, x) ELSE x) BY DEF Suffix
<1>3. ASSUME NEW e, NEW e2, Takes(d, e, e2, b, h)
      PROVE  Takes(d, rest(c, e), rest(c2, e2), b, h)
  <2> DEFINE e3 == Moved(e, h)
  <2>1. Copies(e, e3, b, h) BY <1>3 DEF Takes, Copies
  <2>2. \A max : Takes(e, pseudo(c, e, max), pseudo(c2, e3, max), b, h) BY <2>1, PseudoTakes
  <2>3. Takes(e, e, e3, b, h) /\ Takes(e, Fails(e), Fails(e3), b, h) BY <2>1, TakesNone, TakesFails
  <2>4. e3.ii = e.ii BY <2>1, CopiesLemma
  <2> HIDE DEF pseudo, e3
  <2>5. Takes(e, rest(c, e), rest(c2, e3), b, h) BY <2>2, <2>3, <2>4
  <2> HIDE DEF rest
  <2> QED BY <1>1, <1>3, <2>5, TakesThen DEF e3
<1>4. CASE "3DNOW_FETCH" \notin c.flags
  <2>1. Takes(d, d, d2, b, h) BY TakesNone
  <2>2. Takes(d, rest(c, d), rest(c2, d2), b, h) BY <1>3, <2>1
  <2> HIDE DEF rest
  <2> QED BY <1>1, <1>2, <1>4, <2>2
<1>5. CASE "3DNOW_FETCH" \in c.flags /\ d.left < 1
  <2> DEFINE e == NotFound(d)
  <2>1. found(c, d) = e BY <1>5 DEF Lookup3DNow
  <2>2. Within(e, b) /\ e.left = d.left /\ e.ok = d.ok /\ e.ii = Null
    BY <1>1, FieldLemma, DFieldsLemma DEF NotFound, Found, Within
  <2>3. Suffix(c, d) = Fails(e) BY <1>2, <1>5, <2>1, <2>2
  <2> HIDE DEF e
  <2>4. Takes(d, e, Moved(e, h), b, h) BY <1>1, <2>2, TakesItself
  <2> QED BY <2>3, <2>4, TakesFails
<1>6. CASE "3DNOW_FETCH" \in c.flags /\ ~(d.left < 1)
  <2> DEFINE row(y, x) == GetInfo(InstructionsTree[Table_0F_0F], Byte(y.code, x))
             e  == Found(d, row(c, d))
             e2 == Found(d2, row(c, d))
  <2>1. Takes(d, e, e2, b, h)
    <3>1. Takes(d, d, d2, b, h) BY TakesNone
    <3> QED BY <3>1, TakesField DEF Found
  <2>2. e.left = d.left /\ d.left >= 1 BY <1>1, <1>6, DFieldsLemma DEF Found, Within
  <2>3. found(c, d) = Eat(e) BY <1>6 DEF Lookup3DNow
  <2>4. ~(d2.left < 1) => found(c2, d2) = Eat(Found(d2, row(c2, d2))) BY DEF Lookup3DNow
  <2> HIDE DEF e, e2
  <2>5. /\ Takes(d, Eat(e), Eat(e2), b, h)
        /\ Whole(Eat(e), h) => d.left - 1 >= h.less /\ e2.left >= 1
    <3>1. e.left >= 1 BY <2>2
    <3>2. /\ Takes(d, Eat(e), Eat(e2), b, h)
          /\ Whole(Eat(e), h) => e.left - 1 >= h.less /\ e2.left >= 1
      BY <1>1, <2>1, <3>1, EatTakes
    <3> QED BY <2>2, <3>2
  <2>6. d.left - 1 >= h.less => Byte(c2.code, d2) = Byte(c.code, d) /\ ~(d2.left < 1)
    <3>1. d2.left = d.left - h.less /\ h.less \in Int BY <1>1, CopiesLemma DEF Moves
    <3>2. d.left - 1 >= h.less => ~(d2.left < 1) BY <1>1, <3>1
    <3>3. d.left - 1 >= h.less => c2.code[d2.pos + 1] = c.code[d.pos + 1] BY <2>2, BytesLemma DEF Twin
    <3> QED BY <3>2, <3>3 DEF Byte
  <2>7. Whole(Eat(e), h) => found(c2, d2) = Eat(e2) BY <2>4, <2>5, <2>6 DEF e2
  <2>8. Takes(d, found(c, d), found(c2, d2), b, h) BY <2>3, <2>5, <2>7 DEF Takes
  <2> HIDE DEF rest, found
  <2>9. Takes(d, rest(c, found(c, d)), rest(c2, found(c2, d2)), b, h) BY <1>3, <2>8
  <2> QED BY <1>1, <1>2, <1>6, <2>9
<1> QED BY <1>4, <1>5, <1>6

LEMMA PrefixedTakes ==
  ASSUME NEW d, NEW d2, NEW b, NEW h, Copies(d, d2, b, h), NEW flags
  PROVE  Takes(d, Prefixed(d, flags), Prefixed(d2, flags), b, h)
<1> DEFINE taken(lockable, decoded) ==
             LET takes(prefix) == prefix \in flags /\ (IF prefix = "LOCK" THEN lockable ELSE prefix \in decoded)
             IN  SelectSeq(<<"LOCK", "REPNZ", "REP">>, takes)
           all == taken(d.lockable, d.ps.decoded)
           e(x) == [Uses(x, {all[1]}) EXCEPT !.flags = @ \cup {all[1]}]
<1>1. \A x : Prefixed(x, flags) = IF taken(x.lockable, x.ps.decoded) = <<>> THEN x
                                  ELSE [Uses(x, {taken(x.lockable, x.ps.decoded)[1]}) EXCEPT
                                          !.flags = @ \cup {taken(x.lockable, x.ps.decoded)[1]}]
  BY DEF Prefixed
<1> HIDE DEF taken
<1>2. d2.lockable = d.lockable /\ d2.ps.decoded = d.ps.decoded BY CopiesLemma
<1>3. /\ Prefixed(d, flags) = IF all = <<>> THEN d ELSE e(d)
      /\ Prefixed(d2, flags) = IF all = <<>> THEN d2 ELSE e(d2)
  BY <1>1, <1>2
<1>4. Takes(d, d, d2, b, h) BY TakesNone
<1> HIDE DEF all
<1>5. Takes(d, Uses(d, {all[1]}), Uses(d2, {all[1]}), b, h) BY <1>4, TakesUses
<1>6. Takes(d, e(d), e(d2), b, h) BY <1>5, FlaggedTakes
<1> QED BY <1>3, <1>4, <1>6

LEMMA MnemonicTakes ==
  ASSUME NEW c, IsContext(c), NEW c2, NEW b, NEW h, Twin(c, c2, b, h), NEW d, NEW d2, Copies(d, d2, b, h), NEW flags
  PROVE  Takes(d, Mnemonic(c, d, flags), Mnemonic(c2, d2, flags), b, h)
<1>1. /\ c2.adr = c.adr /\ c2.op = c.op /\ c2.modrm = c.modrm /\ d2.ps.decoded = d.ps.decoded /\ d2.ii = d.ii
      /\ (\A bit : Has(d2, bit) = Has(d, bit))
  BY TwinLemma, CopiesLemma
<1>2. c.op \in {16, 32, 64} BY DEF IsContext, Modes
<1>3. \A v, p : Takes(d, Choose(d, v, p), Choose(d2, v, p), b, h) BY TakesNone, TakesUses, TakesField DEF Choose
<1>4. Takes(d, Fails(d), Fails(d2), b, h) BY TakesNone, TakesFails
<1>5. Takes(d, MnemonicByAddress(c, d, flags), MnemonicByAddress(c2, d2, flags), b, h)
  <2> DEFINE which == IF "USE_EXMNEMONIC" \notin flags THEN 1 ELSE
                        CASE c.adr = 16 -> 1 [] c.adr = 32 -> 2 [] c.adr = 64 -> 3
  <2>1. MnemonicByAddress(c, d, flags) = Choose(d, which, {"ADDR_SIZE"}) BY DEF MnemonicByAddress
  <2>2. MnemonicByAddress(c2, d2, flags) = Choose(d2, which, {"ADDR_SIZE"}) BY <1>1 DEF MnemonicByAddress
  <2> HIDE DEF which
  <2> QED BY <1>3, <2>1, <2>2
<1>6. Takes(d, MnemonicBySize(c, d, flags), MnemonicBySize(c2, d2, flags), b, h)
  BY <1>1, <1>2, <1>3, <1>4 DEF MnemonicBySize
<1> DEFINE by(y, x)   == IF ByAddress(flags) THEN MnemonicByAddress(y, x, flags) ELSE MnemonicBySize(y, x, flags)
           size(y, x) == UsesIf(by(y, x), "NATIVE" \in flags /\ "OP_SIZE" \in d.ps.decoded, "OP_SIZE")
<1>7. Takes(d, by(c, d), by(c2, d2), b, h) BY <1>5, <1>6
<1>8. VexMnemonic(d2, flags) = VexMnemonic(d, flags) BY <1>1 DEF VexMnemonic
<1>9. Mnemonic(c, d, flags) = IF VexMnemonic(d, flags) THEN [size(c, d) EXCEPT !.mnemonic = 2] ELSE size(c, d)
  BY DEF Mnemonic
<1>10. Mnemonic(c2, d2, flags) = IF VexMnemonic(d, flags) THEN [size(c2, d2) EXCEPT !.mnemonic = 2] ELSE size(c2, d2)
  BY <1>1, <1>8 DEF Mnemonic
<1> HIDE DEF by
<1>11. Takes(d, size(c, d), size(c2, d2), b, h) BY <1>7, TakesUses
<1> HIDE DEF size
<1>12. Takes(d, [size(c, d) EXCEPT !.mnemonic = 2], [size(c2, d2) EXCEPT !.mnemonic = 2], b, h) BY <1>11, TakesField
<1> QED BY <1>9, <1>10, <1>11, <1>12

\* Where the copy's prefixes are: as much nearer as its bytes.
Nearer(b, h) == h.start = b.start - h.by /\ h.last = b.last - h.by

LEMMA FinishTakes ==
  ASSUME NEW c, IsContext(c), NEW c2, NEW b, NEW h, Twin(c, c2, b, h), NEW d, NEW d2, Copies(d, d2, b, h),
         Nearer(b, h), b.start \in Int, b.last \in Int
  PROVE  Takes(d, Finish(c, d, b.last), Finish(c2, d2, h.last), b, h)
<1> DEFINE flags == d.ii.flags
           m(y, x) == Mnemonic(y, Prefixed(x, flags), flags)
           done(y, x, v, size) ==
             [v EXCEPT !.opSize = IF ByAddress(flags) THEN 16 ELSE y.op, !.adrSize = y.adr,
                     !.flags = @ \cup (flags \cap {"DST_WR"}), !.unused = SetUnusedMask(v.ps),
                     !.fc = x.ii.meta % 8, !.isc = x.ii.meta \div 8,
                     !.segment = IF @ = {} THEN {"NONE"} ELSE @, !.size = size]
<1>1. /\ h \in Moves /\ Within(d, b) /\ c2.op = c.op /\ c2.adr = c.adr /\ d2.ii = d.ii /\ d2.ok = d.ok
      /\ d.pos \in Int /\ h.by \in Int /\ d2.pos = d.pos - h.by
  BY TwinLemma, CopiesLemma DEF Within, Moves
<1>2. Takes(d, m(c, d), m(c2, d2), b, h)
  <2> DEFINE e == Prefixed(d, flags)
             e2 == Prefixed(d2, flags)
  <2>1. Takes(d, e, e2, b, h) BY PrefixedTakes
  <2> HIDE DEF e, e2
  <2>2. Takes(e, Mnemonic(c, e, flags), Mnemonic(c2, Moved(e, h), flags), b, h) BY <2>1, MnemonicTakes DEF Takes, Copies
  <2>3. Takes(d, Mnemonic(c, e, flags), Mnemonic(c2, e2, flags), b, h) BY <1>1, <2>1, <2>2, TakesThen
  <2> QED BY <2>3 DEF e, e2
<1>3. d.ps.start = b.start /\ d2.ps.start = h.start
  BY <1>1, CopiesLemma, MovedPrefixesLemma DEF Within, IsPrefixes
<1>4. d2.pos - d2.ps.start = d.pos - d.ps.start /\ d2.pos - h.last = d.pos - b.last BY <1>1, <1>3 DEF Nearer
<1>5. Finish(c, d, b.last) = IF ~d.ok \/ d.pos - d.ps.start > INST_MAXIMUM_SIZE \/ ~m(c, d).ok THEN Fails(d)
                             ELSE done(c, d, m(c, d), d.pos - b.last)
  BY DEF Finish
<1>6. Finish(c2, d2, h.last) = IF ~d.ok \/ d.pos - d.ps.start > INST_MAXIMUM_SIZE \/ ~m(c2, d2).ok THEN Fails(d2)
                               ELSE done(c, d, m(c2, d2), d.pos - b.last)
  BY <1>1, <1>4 DEF Finish
<1> HIDE DEF m, done
<1>7. CASE ~d.ok \/ d.pos - d.ps.start > INST_MAXIMUM_SIZE \/ ~m(c, d).ok
  <2>1. Takes(d, Fails(d), Finish(c2, d2, h.last), b, h) BY TakesNone, TakesFails
  <2> QED BY <1>5, <1>7, <2>1
<1>8. CASE ~(~d.ok \/ d.pos - d.ps.start > INST_MAXIMUM_SIZE \/ ~m(c, d).ok)
  <2> DEFINE v == m(c, d)
             g == done(c, d, v, d.pos - b.last)
  <2>1. Within(v, b) BY <1>2 DEF Takes
  <2> HIDE DEF v
  <2>2. Within(g, b) /\ g.left = v.left /\ g.ok = v.ok BY <2>1, DFieldsLemma DEF done, Within
  <2>3. Moved(v, h).ok = v.ok BY <2>1, DFieldsLemma DEF Moved, Within
  <2>4. SetUnusedMask(MovedPrefixes(v.ps, h)) = SetUnusedMask(v.ps)
    <3>1. DOMAIN v.ps = PsFields BY <2>1 DEF Within, IsPrefixes
    <3> DEFINE pis(ps) == LET diff == (ps.decoded \ ps.used) \cup (ps.used \ ps.decoded)
                              has(pi, prefixes) == IF diff \cap prefixes # {} THEN {pi} ELSE {}
                          IN  has("REX", {"REX"}) \cup has("SEG", Segments) \cup has("LOREP", LockReps)
                              \cup has("OP_SIZE", {"OP_SIZE"}) \cup has("ADRS", {"ADDR_SIZE"})
               mp == MovedPrefixes(v.ps, h)
    <3>2. mp.decoded = v.ps.decoded /\ mp.used = v.ps.used BY <3>1, MovedPrefixesLemma
    <3>3. \A ps : SetUnusedMask(ps) = IgnoreOf(ps, pis(ps)).unused BY DEF SetUnusedMask
    <3> HIDE DEF mp
    <3>4. pis(mp) = pis(v.ps) BY <3>2
    <3> HIDE DEF pis
    <3>5. \A p : IgnoreOf(mp, p) = MovedPrefixes(IgnoreOf(v.ps, p), h) BY <3>1, MovedNotedLemma DEF mp
    <3>6. \A p : DOMAIN IgnoreOf(v.ps, p) = PsFields BY <3>1 DEF IgnoreOf
    <3>7. \A p : IgnoreOf(mp, p).unused = IgnoreOf(v.ps, p).unused BY <3>5, <3>6, MovedPrefixesLemma
    <3> QED BY <3>3, <3>4, <3>7 DEF mp
  <2>5. done(c, d, Moved(v, h), d.pos - b.last) = Moved(g, h)
    <3>1. Moved(v, h).ps = MovedPrefixes(v.ps, h) BY <2>1, DFieldsLemma DEF Moved, Within
    <3>2. SetUnusedMask(Moved(v, h).ps) = SetUnusedMask(v.ps) BY <2>4, <3>1
    <3> DEFINE opSize  == IF ByAddress(flags) THEN 16 ELSE c.op
               dst     == flags \cap {"DST_WR"}
               mask    == SetUnusedMask(v.ps)
               fc      == d.ii.meta % 8
               isc     == d.ii.meta \div 8
               by      == d.pos - b.last
               set(x)  == [x EXCEPT !.opSize = opSize, !.adrSize = c.adr, !.flags = @ \cup dst, !.unused = mask,
                              !.fc = fc, !.isc = isc, !.segment = IF @ = {} THEN {"NONE"} ELSE @, !.size = by]
    <3>3. done(c, d, Moved(v, h), by) = set(Moved(v, h)) BY <3>2 DEF done
    <3>4. g = set(v) BY DEF done
    <3> HIDE DEF opSize, dst, mask, fc, isc, by, g
    <3>5. set(Moved(v, h)) = Moved(set(v), h)
      <4>1. DOMAIN v = DFields /\ DOMAIN Moved(v, h) = DFields /\ Moved(v, h).flags = v.flags /\ Moved(v, h).segment = v.segment
        BY <2>1, DFieldsLemma DEF Within, Moved
      <4> DEFINE segment == IF v.segment = {} THEN {"NONE"} ELSE v.segment
                 n1(x) == [x EXCEPT !.opSize = opSize]
                 n2(x) == [n1(x) EXCEPT !.adrSize = c.adr]
                 n3(x) == [n2(x) EXCEPT !.flags = v.flags \cup dst]
                 n4(x) == [n3(x) EXCEPT !.unused = mask]
                 n5(x) == [n4(x) EXCEPT !.fc = fc]
                 n6(x) == [n5(x) EXCEPT !.isc = isc]
                 n7(x) == [n6(x) EXCEPT !.segment = segment]
                 n8(x) == [n7(x) EXCEPT !.size = by]
      <4>3. set(v) = n8(v) /\ set(Moved(v, h)) = n8(Moved(v, h))
        <5> DEFINE k(x, fs, sg) == [x EXCEPT !.opSize = opSize, !.adrSize = c.adr, !.flags = fs, !.unused = mask,
                                             !.fc = fc, !.isc = isc, !.segment = sg, !.size = by]
        <5>1. set(v) = k(v, v.flags \cup dst, IF v.segment = {} THEN {"NONE"} ELSE v.segment) OBVIOUS
        <5>2. set(Moved(v, h)) = k(Moved(v, h), Moved(v, h).flags \cup dst,
                                 IF Moved(v, h).segment = {} THEN {"NONE"} ELSE Moved(v, h).segment)
          OBVIOUS
        <5>3. \A x : k(x, v.flags \cup dst, segment) = n8(x) OBVIOUS
        <5> HIDE DEF k, set, n8
        <5> QED BY <4>1, <5>1, <5>2, <5>3
      <4> HIDE DEF set, segment
      <4>11. n1(Moved(v, h)) = Moved(n1(v), h) /\ DOMAIN n1(v) = DFields BY <4>1, MovedField DEF Places
      <4> HIDE DEF n1
      <4>12. n2(Moved(v, h)) = Moved(n2(v), h) /\ DOMAIN n2(v) = DFields BY <4>11, MovedField DEF Places
      <4> HIDE DEF n2
      <4>13. n3(Moved(v, h)) = Moved(n3(v), h) /\ DOMAIN n3(v) = DFields BY <4>12, MovedField DEF Places
      <4> HIDE DEF n3
      <4>14. n4(Moved(v, h)) = Moved(n4(v), h) /\ DOMAIN n4(v) = DFields BY <4>13, MovedField DEF Places
      <4> HIDE DEF n4
      <4>15. n5(Moved(v, h)) = Moved(n5(v), h) /\ DOMAIN n5(v) = DFields BY <4>14, MovedField DEF Places
      <4> HIDE DEF n5
      <4>16. n6(Moved(v, h)) = Moved(n6(v), h) /\ DOMAIN n6(v) = DFields BY <4>15, MovedField DEF Places
      <4> HIDE DEF n6
      <4>17. n7(Moved(v, h)) = Moved(n7(v), h) /\ DOMAIN n7(v) = DFields BY <4>16, MovedField DEF Places
      <4> HIDE DEF n7
      <4>18. n8(Moved(v, h)) = Moved(n8(v), h) /\ DOMAIN n8(v) = DFields BY <4>17, MovedField, SMTT(30) DEF Places
      <4> QED BY <4>3, <4>18
    <3> QED BY <3>3, <3>4, <3>5 DEF by
  <2>6. Finish(c, d, b.last) = g BY <1>5, <1>8 DEF v
  <2> HIDE DEF g
  <2>7. Whole(g, h) => m(c2, d2) = Moved(v, h) BY <1>2, <2>2 DEF Takes, Whole, v
  <2>8. Whole(g, h) => m(c2, d2).ok = v.ok BY <2>3, <2>7
  <2>9. Whole(g, h) => Finish(c2, d2, h.last) = done(c, d, Moved(v, h), d.pos - b.last)
    BY <1>6, <1>8, <2>7, <2>8 DEF v
  <2>10. g.left <= d.left /\ (g.ok => d.ok) BY <1>2, <2>2 DEF Takes, v
  <2> QED BY <2>2, <2>5, <2>6, <2>9, <2>10 DEF Takes
<1> QED BY <1>7, <1>8

-----------------------------------------------------------------------------
\* The walk to the row in both codes.
Stands(w, w2, b, h) == Standing(w, b) /\ w2 = Moved(w, h)

\* Where it ends at a row, it does so in the copy, unless it has taken what is not there.
Reaches(w, v, v2, h) == v.ii # Null => v.left <= w.left /\ (v.left >= h.less => v2 = Moved(v, h))

LEMMA StandsLemma ==
  ASSUME NEW w, NEW w2, NEW b, NEW h, Stands(w, w2, b, h)
  PROVE  /\ Standing(w, b) /\ DOMAIN w2 = WalkFields
         /\ w2.ii = w.ii /\ w2.pos = w.pos - h.by /\ w2.left = w.left - h.less /\ w2.ps = MovedPrefixes(w.ps, h)
         /\ DOMAIN w.ps = PsFields
         /\ w2.ps.decoded = w.ps.decoded /\ w2.ps.ext = w.ps.ext /\ w2.ps.vexV = w.ps.vexV
         /\ w2.ps.vrex = w.ps.vrex /\ w2.ps.mandatory66 = w.ps.mandatory66 /\ w2.ps.vexPos = h.vexPos
<1>1. /\ DOMAIN w2 = WalkFields
      /\ w2.ii = w.ii /\ w2.pos = w.pos - h.by /\ w2.left = w.left - h.less /\ w2.ps = MovedPrefixes(w.ps, h)
  BY DEF Stands, Standing, Moved, WalkFields
<1>2. DOMAIN w.ps = PsFields BY DEF Stands, Standing, IsPrefixes
<1> QED BY <1>1, <1>2, MovedPrefixesLemma DEF Stands

\* One byte on.
LEMMA EatStands ==
  ASSUME NEW w, NEW w2, NEW b, NEW h \in Moves, Stands(w, w2, b, h)
  PROVE  Stands(Eat(w), Eat(w2), b, h) /\ Eat(w).left = w.left - 1
<1>1. Standing(Eat(w), b) /\ Eat(w).left = w.left - 1 BY EatLemma DEF Stands
<1>2. w.pos \in Int /\ w.left \in Int /\ h.by \in Int /\ h.less \in Int BY DEF Stands, Standing, Moves
<1>3. (w.pos - h.by) + 1 = (w.pos + 1) - h.by /\ (w.left - h.less) - 1 = (w.left - 1) - h.less BY <1>2
<1>4. Eat(w2) = Moved(Eat(w), h) BY <1>3 DEF Eat, Moved, Stands, Standing, WalkFields
<1> QED BY <1>1, <1>4 DEF Stands

\* The byte that the walk stands on.
LEMMA ByteStands ==
  ASSUME NEW code, NEW code2, NEW b, NEW h, CopyOf(code, code2, b, h), NEW w, NEW w2, Stands(w, w2, b, h),
         w.left >= 0, w.left >= h.less
  PROVE  Byte(code2, w2) = Byte(code, w)
<1>1. /\ w.pos \in Int /\ w.left \in Int /\ w.pos + 1 >= b.from /\ w.pos + 1 + w.left = b.end
      /\ b.start \in Int /\ b.from \in Int /\ b.start < b.from /\ h.by \in Int /\ h.less \in Int
  BY DEF Stands, Standing, CopyOf, Moves
<1>2. b.start <= w.pos /\ w.pos < b.end /\ w.pos < b.end - h.less BY <1>1
<1>3. code2[w.pos - h.by + 1] = code[w.pos + 1] BY <1>1, <1>2 DEF CopyOf
<1>4. w2.pos = w.pos - h.by BY StandsLemma
<1> QED BY <1>3, <1>4 DEF Byte

LEMMA FoundReaches ==
  ASSUME NEW w, NEW w2, NEW b, NEW h, Stands(w, w2, b, h)
  PROVE  /\ \A ii : Reaches(w, Found(w, ii), Found(w2, ii), h)
         /\ \A v2 : Reaches(w, NotFound(w), v2, h)
<1>1. \A ii : Found(w, ii).ii = ii /\ Found(w, ii).left = w.left BY DEF Found, Stands, Standing, WalkFields
<1>2. \A ii : Found(w2, ii) = Moved(Found(w, ii), h) BY DEF Found, Moved, Stands, Standing, WalkFields
<1>3. w.left <= w.left BY DEF Stands, Standing
<1>4. NotFound(w).ii = Null BY <1>1 DEF NotFound
<1> QED BY <1>1, <1>2, <1>3, <1>4 DEF Reaches

Noted(w, ii, ps) == [w EXCEPT !.ii = ii, !.ps = ps]
LEMMA NotedReaches ==
  ASSUME NEW w, NEW w2, NEW b, NEW h, Stands(w, w2, b, h), NEW ps, NEW ps2, ps2 = MovedPrefixes(ps, h)
  PROVE  /\ \A ii : Reaches(w, Noted(w, ii, ps), Noted(w2, ii, ps2), h)
         /\ IsPrefixes(ps, b.start, b.last) => Stands([w EXCEPT !.ps = ps], [w2 EXCEPT !.ps = ps2], b, h)
         /\ [w EXCEPT !.ps = ps].left = w.left
<1>1. ASSUME NEW ii
      PROVE  Reaches(w, Noted(w, ii, ps), Noted(w2, ii, ps2), h)
  <2> DEFINE v == Noted(w, ii, ps)
  <2>1. v.left = w.left BY DEF Noted, Stands, Standing, WalkFields
  <2>2. Noted(w2, ii, ps2) = Moved(v, h) BY DEF Noted, Moved, Stands, Standing, WalkFields
  <2>3. w.left <= w.left BY DEF Stands, Standing
  <2> HIDE DEF v
  <2>4. Reaches(w, v, Moved(v, h), h) BY <2>1, <2>3 DEF Reaches
  <2> QED BY <2>2, <2>4 DEF v
<1>2. ASSUME IsPrefixes(ps, b.start, b.last) PROVE Stands([w EXCEPT !.ps = ps], [w2 EXCEPT !.ps = ps2], b, h)
  <2>1. Standing([w EXCEPT !.ps = ps], b) BY <1>2, WalkPsLemma DEF Stands
  <2>2. [w2 EXCEPT !.ps = ps2] = Moved([w EXCEPT !.ps = ps], h) BY DEF Moved, Stands, Standing, WalkFields
  <2> QED BY <2>1, <2>2 DEF Stands
<1>3. [w EXCEPT !.ps = ps].left = w.left BY DEF Stands, Standing, WalkFields
<1> QED BY <1>1, <1>2, <1>3

\* One walk after the other.
LEMMA ReachesThen ==
  ASSUME NEW w, NEW v, NEW h, NEW b, Standing(w, b), Standing(v, b), v.left <= w.left,
         NEW u, NEW u2, Ended(u, b), Reaches(v, u, u2, h)
  PROVE  Reaches(w, u, u2, h)
<1> SUFFICES ASSUME u.ii # Null PROVE u.left <= w.left /\ (u.left >= h.less => u2 = Moved(u, h)) BY DEF Reaches
<1>1. v.left \in Int /\ w.left \in Int /\ u.left \in Int BY DEF Standing, Ended
<1>2. u.left <= v.left /\ (u.left >= h.less => u2 = Moved(u, h)) BY DEF Reaches
<1> QED BY <1>1, <1>2

LEMMA LookupPrefixedReaches ==
  ASSUME NEW w, NEW w2, NEW b, NEW h, Stands(w, w2, b, h), NEW table
  PROVE  Reaches(w, LookupPrefixed(table, w), LookupPrefixed(table, w2), h)
<1> DEFINE seen     == w.ps.decoded \cap (Reps \cup {"OP_SIZE"})
           index    == Mandatory(w.ps)
           drop(ps) == IF index = 0 THEN ps ELSE Drop(ps, {MandatoryPrefix[index]})
           dropped  == [drop(w.ps) EXCEPT !.mandatory66 = seen = {"OP_SIZE"}]
           dropped2 == [drop(w2.ps) EXCEPT !.mandatory66 = seen = {"OP_SIZE"}]
           taken    == [w EXCEPT !.ps = dropped]
           taken2   == [w2 EXCEPT !.ps = dropped2]
           ii       == GetInfo(table, index)
           row      == IF ii = Null THEN GetInfo(table, 0) ELSE ii
           refused  == Reps \subseteq seen \/ ("OP_SIZE" \in seen /\ seen # {"OP_SIZE"} /\ (ii = Null \/ "OP_SIZE" \notin ii.flags))
<1>1. w2.ps.decoded = w.ps.decoded /\ w2.ps = MovedPrefixes(w.ps, h) /\ DOMAIN w.ps = PsFields BY StandsLemma
<1>2. Mandatory(w2.ps) = index BY <1>1 DEF Mandatory
<1>3. LookupPrefixed(table, w) = IF refused THEN NotFound(w) ELSE Found(taken, row)
  BY DEF LookupPrefixed
<1>4. LookupPrefixed(table, w2) = IF refused THEN NotFound(w2) ELSE Found(taken2, row)
  BY <1>1, <1>2 DEF LookupPrefixed
<1>5. dropped2 = MovedPrefixes(dropped, h)
  <2> DEFINE m == seen = {"OP_SIZE"}
  <2>1. drop(w2.ps) = MovedPrefixes(drop(w.ps), h) /\ DOMAIN drop(w.ps) = PsFields
    <3>1. \A p : Drop(w2.ps, p) = MovedPrefixes(Drop(w.ps, p), h) BY <1>1, MovedNotedLemma
    <3>2. \A p : DOMAIN Drop(w.ps, p) = PsFields BY <1>1 DEF Drop
    <3> HIDE DEF index
    <3> QED BY <1>1, <3>1, <3>2
  <2> HIDE DEF drop, m
  <2>2. \A ps, t : DOMAIN ps = PsFields =>
          [MovedPrefixes(ps, h) EXCEPT !.mandatory66 = t] = MovedPrefixes([ps EXCEPT !.mandatory66 = t], h)
    BY DEF MovedPrefixes, PsFields
  <2>3. [drop(w2.ps) EXCEPT !.mandatory66 = m] = MovedPrefixes([drop(w.ps) EXCEPT !.mandatory66 = m], h) BY <2>1, <2>2
  <2> QED BY <2>3 DEF m
<1>6. IsPrefixes(dropped, b.start, b.last)
  <2>1. IsPrefixes(drop(w.ps), b.start, b.last) BY NotedLemma DEF Stands, Standing
  <2> HIDE DEF drop, seen
  <2> QED BY <2>1 DEF IsPrefixes, PsFields
<1> HIDE DEF dropped, dropped2
<1>7. Stands(taken, taken2, b, h) /\ taken.left = w.left
  <2>1. taken.left = w.left BY DEF Stands, Standing, WalkFields
  <2>2. Stands(taken, taken2, b, h) BY <1>5, <1>6, NotedReaches, Zenon
  <2> QED BY <2>1, <2>2
<1> HIDE DEF taken, taken2, row, refused
<1>8. Reaches(taken, Found(taken, row), Found(taken2, row), h) BY <1>7, FoundReaches
<1>9. Reaches(w, Found(taken, row), Found(taken2, row), h) BY <1>7, <1>8 DEF Reaches
<1>10. Reaches(w, NotFound(w), NotFound(w2), h) BY FoundReaches
<1> QED BY <1>3, <1>4, <1>9, <1>10

\* In VEX's tables.
LEMMA VexReaches ==
  ASSUME NEW code, NEW code2, NEW b, NEW h, CopyOf(code, code2, b, h), NEW w, NEW w2, Stands(w, w2, b, h), w.left >= 0,
         NEW node, NEW index
  PROVE  Reaches(w, VexFirst(code, w, node, index), VexFirst(code2, w2, node, index), h)
<1>1. h \in Moves /\ h.less \in Int BY DEF CopyOf, Moves
<1>2. ASSUME NEW v, NEW v2, Stands(v, v2, b, h), v.left >= 0, NEW table
      PROVE  Reaches(v, VexRow(code, v, table, index), VexRow(code2, v2, table, index), h)
  <2> DEFINE ii == GetInfo(table, index)
             m  == Eat(v)
             m2 == Eat(v2)
             alone == ii = Null \/ ~HasFlagEx(ii, MODRR_BASED)
             row(byte) == IF byte < INST_DIVIDED_MODRM THEN GetInfo(table, index + 4) ELSE ii
  <2>1. Stands(m, m2, b, h) /\ m.left = v.left - 1 BY <1>1, <1>2, EatStands
  <2> HIDE DEF m, m2, alone, row
  <2>2. VexRow(code, v, table, index) =
          IF alone THEN Found(v, ii) ELSE IF m.left < 0 THEN NotFound(m) ELSE Found(m, row(Byte(code, m)))
    BY DEF VexRow, m, alone, row
  <2>3. VexRow(code2, v2, table, index) =
          IF alone THEN Found(v2, ii) ELSE IF m2.left < 0 THEN NotFound(m2) ELSE Found(m2, row(Byte(code2, m2)))
    BY DEF VexRow, m2, alone, row
  <2> HIDE DEF ii
  <2>4. CASE alone BY <1>2, <2>2, <2>3, <2>4, FoundReaches
  <2>5. CASE ~alone /\ m.left < 0
    <3>1. NotFound(m).ii = Null BY <2>1, FoundLemma DEF NotFound, Stands
    <3> QED BY <2>2, <2>5, <3>1 DEF Reaches
  <2>6. CASE ~alone /\ ~(m.left < 0)
    <3>1. m.left \in Int /\ v.left \in Int /\ m2.left = m.left - h.less BY <1>2, <2>1, StandsLemma DEF Stands, Standing
    <3>2. \A r : Reaches(m, Found(m, r), Found(m2, r), h) /\ Found(m, r).left = m.left BY <2>1, FoundReaches, FoundLemma DEF Stands
    <3>3. m.left >= h.less => Byte(code2, m2) = Byte(code, m) /\ ~(m2.left < 0) BY <1>1, <2>1, <2>6, <3>1, ByteStands
    <3> QED BY <2>1, <2>2, <2>3, <2>6, <3>1, <3>2, <3>3 DEF Reaches
  <2> QED BY <2>4, <2>5, <2>6
<1>3. ASSUME NEW v, NEW v2, Stands(v, v2, b, h), v.left >= 0
      PROVE  Reaches(v, VexSecond(code, v, node, index), VexSecond(code2, v2, node, index), h)
  <2> DEFINE second(byte) == Node(node[2], IF node[1] = GROUP THEN Reg(byte) ELSE byte)
             row(y, x, byte) == IF second(byte)[1] = PREFIXED THEN VexRow(y, x, second(byte)[2], index) ELSE NotFound(x)
  <2>1. /\ VexSecond(code, v, node, index) = row(code, v, Byte(code, v))
        /\ VexSecond(code2, v2, node, index) = row(code2, v2, Byte(code2, v2))
    BY DEF VexSecond
  <2> HIDE DEF second
  <2>2. \A byte : Reaches(v, row(code, v, byte), row(code2, v2, byte), h)
    BY <1>2, <1>3, FoundReaches
  <2> HIDE DEF row
  <2>3. v.left >= h.less => Byte(code2, v2) = Byte(code, v) BY <1>3, ByteStands
  <2> DEFINE u == row(code, v, Byte(code, v))
  <2>4. v.left >= h.less => Reaches(v, u, row(code2, v2, Byte(code2, v2)), h) BY <2>2, <2>3
  <2>5. Ended(VexSecond(code, v, node, index), b)
    <3>1. ASSUME NEW table PROVE Ended(VexRow(code, v, table, index), b)
      <4>1. Standing(v, b) /\ Standing(Eat(v), b) BY <1>3, EatLemma DEF Stands
      <4>2. Ended(NotFound(Eat(v)), b) /\ \A ii : Ended(Found(v, ii), b) BY <1>3, <4>1, FoundLemma
      <4>3. ~(Eat(v).left < 0) => Eat(v).left >= 0 BY <4>1 DEF Standing
      <4>4. Eat(v).left >= 0 => \A ii : Ended(Found(Eat(v), ii), b) BY <4>1, FoundLemma
      <4> QED BY <4>2, <4>3, <4>4 DEF VexRow
    <3>2. Ended(NotFound(v), b) BY <1>3, FoundLemma DEF Stands
    <3> QED BY <3>1, <3>2 DEF VexSecond
  <2> HIDE DEF u
  <2>6. Reaches(v, u, u, h) \/ u.left <= v.left \/ u.ii = Null BY <2>2 DEF Reaches, u
  <2>7. u.ii # Null => u.left <= v.left BY <2>2 DEF Reaches, u
  <2>8. u.ii # Null /\ u.left >= h.less => v.left >= h.less
    <3>1. u.ii # Null => u.left \in Int BY <2>1, <2>5 DEF Ended, Standing, u
    <3>2. v.left \in Int BY <1>3 DEF Stands, Standing
    <3> QED BY <1>1, <2>7, <3>1, <3>2
  <2> QED BY <2>1, <2>4, <2>7, <2>8 DEF Reaches, u
<1>4. ASSUME w.left >= 1
      PROVE  Stands(Eat(w), Eat(w2), b, h) /\ Eat(w).left >= 0 /\ Eat(w).left <= w.left
  <2>1. Stands(Eat(w), Eat(w2), b, h) /\ Eat(w).left = w.left - 1 BY <1>1, EatStands
  <2>2. w.left \in Int BY DEF Stands, Standing
  <2> QED BY <1>4, <2>1, <2>2
<1>5. CASE node[1] = PREFIXED BY <1>2, <1>5 DEF VexFirst
<1>6. CASE node[1] # PREFIXED /\ node[1] \in {GROUP, FULL} /\ w.left >= 1
  <2> DEFINE u  == VexSecond(code, Eat(w), node, index)
             u2 == VexSecond(code2, Eat(w2), node, index)
  <2>1. VexFirst(code, w, node, index) = u BY <1>6 DEF VexFirst
  <2>2. VexFirst(code2, w2, node, index) = IF w2.left >= 1 THEN u2 ELSE NotFound(w2) BY <1>6 DEF VexFirst
  <2>3. Reaches(Eat(w), u, u2, h) BY <1>3, <1>4, <1>6
  <2>4. Ended(u, b)
    <3>1. Ended(VexFirst(code, w, node, index), b) BY VexLemma DEF Stands
    <3> QED BY <2>1, <3>1
  <2> HIDE DEF u, u2
  <2>5. Reaches(w, u, u2, h) BY <1>4, <1>6, <2>3, <2>4, ReachesThen DEF Stands
  <2>6. u.ii # Null /\ u.left >= h.less => w2.left >= 1
    <3>1. w2.left = w.left - h.less /\ w.left \in Int BY StandsLemma DEF Stands, Standing
    <3>2. u.ii # Null => u.left \in Int /\ u.left <= Eat(w).left BY <2>3, <2>4 DEF Ended, Standing, Reaches
    <3>3. Eat(w).left = w.left - 1 BY <1>1, EatStands
    <3> QED BY <1>1, <3>1, <3>2, <3>3
  <2> QED BY <2>1, <2>2, <2>5, <2>6 DEF Reaches
<1>7. CASE node[1] # PREFIXED /\ ~(node[1] \in {GROUP, FULL} /\ w.left >= 1)
  <2>1. VexFirst(code, w, node, index) = NotFound(w) BY <1>7 DEF VexFirst
  <2> QED BY <2>1, FoundReaches
<1> QED BY <1>5, <1>6, <1>7

LEMMA RowOrPrefixedReaches ==
  ASSUME NEW w, NEW w2, NEW b, NEW h, Stands(w, w2, b, h), NEW node
  PROVE  Reaches(w, RowOrPrefixed(node, w), RowOrPrefixed(node, w2), h)
BY FoundReaches, LookupPrefixedReaches DEF RowOrPrefixed

LEMMA OneByteReaches ==
  ASSUME NEW w, NEW w2, NEW b, NEW h, Stands(w, w2, b, h), NEW byte, NEW node, NEW dt
  PROVE  Reaches(w, OneByte(byte, node, w, dt), OneByte(byte, node, w2, dt), h)
<1>1. /\ w2.ps.decoded = w.ps.decoded /\ w2.ps.vrex = w.ps.vrex /\ w2.ps = MovedPrefixes(w.ps, h)
      /\ DOMAIN w.ps = PsFields /\ DOMAIN w2 = WalkFields /\ DOMAIN w = WalkFields
  BY StandsLemma DEF Standing
<1>2. \A ii : Reaches(w, Found(w, ii), Found(w2, ii), h) BY FoundReaches
<1> DEFINE used(x, ii, p) == [x EXCEPT !.ii = ii, !.ps = Use(@, p)]
           f(ps)          == Ignore(Drop(ps, Segments), "SEG")
           lea(x, ii)     == [x EXCEPT !.ii = ii, !.ps = f(@)]
<1>3. ASSUME NEW ii, NEW p PROVE Reaches(w, used(w, ii, p), used(w2, ii, p), h)
  <2>1. Use(w2.ps, p) = MovedPrefixes(Use(w.ps, p), h) BY <1>1, MovedNotedLemma
  <2>2. Reaches(w, Noted(w, ii, Use(w.ps, p)), Noted(w2, ii, Use(w2.ps, p)), h)
    BY <2>1, NotedReaches
  <2>3. used(w, ii, p) = Noted(w, ii, Use(w.ps, p)) BY <1>1 DEF Noted, WalkFields
  <2>4. used(w2, ii, p) = Noted(w2, ii, Use(w2.ps, p)) BY <1>1 DEF Noted, WalkFields
  <2> HIDE DEF used
  <2> QED BY <2>2, <2>3, <2>4
<1>4. ASSUME NEW ii PROVE Reaches(w, lea(w, ii), lea(w2, ii), h)
  <2>1. f(w2.ps) = MovedPrefixes(f(w.ps), h)
    <3>1. Drop(w2.ps, Segments) = MovedPrefixes(Drop(w.ps, Segments), h) BY <1>1, MovedNotedLemma
    <3>2. DOMAIN Drop(w.ps, Segments) = PsFields BY <1>1 DEF Drop
    <3>3. Ignore(MovedPrefixes(Drop(w.ps, Segments), h), "SEG") = MovedPrefixes(f(w.ps), h) BY <3>2, MovedNotedLemma
    <3> QED BY <3>1, <3>3
  <2> HIDE DEF f
  <2>2. Reaches(w, Noted(w, ii, f(w.ps)), Noted(w2, ii, f(w2.ps)), h)
    BY <2>1, NotedReaches
  <2>3. lea(w, ii) = Noted(w, ii, f(w.ps)) BY <1>1 DEF Noted, WalkFields
  <2>4. lea(w2, ii) = Noted(w2, ii, f(w2.ps)) BY <1>1 DEF Noted, WalkFields
  <2> HIDE DEF lea
  <2> QED BY <2>2, <2>3, <2>4
<1>5. CASE byte = ARPL /\ dt = 64 BY <1>2, <1>5 DEF OneByte, ARPL, NOP, LEA
<1>6. CASE byte = NOP
  <2> DEFINE row == IF dt # 64 \/ "B" \notin w.ps.vrex THEN OwnRow("NOP") ELSE RowAt(node)
             rex == IF "W" \in w.ps.vrex THEN {"REX"} ELSE {}
  <2>1. CASE "REP" \in w.ps.decoded
    <3>1. OneByte(byte, node, w, dt) = used(w, OwnRow("PAUSE"), {"REP"}) BY <1>6, <2>1 DEF OneByte, ARPL, NOP, LEA
    <3>2. OneByte(byte, node, w2, dt) = used(w2, OwnRow("PAUSE"), {"REP"}) BY <1>1, <1>6, <2>1 DEF OneByte, ARPL, NOP, LEA
    <3> HIDE DEF used
    <3> QED BY <1>3, <3>1, <3>2
  <2>2. CASE "REP" \notin w.ps.decoded
    <3>1. OneByte(byte, node, w, dt) = used(w, row, rex) BY <1>6, <2>2 DEF OneByte, ARPL, NOP, LEA
    <3>2. OneByte(byte, node, w2, dt) = used(w2, row, rex) BY <1>1, <1>6, <2>2 DEF OneByte, ARPL, NOP, LEA
    <3> HIDE DEF used
    <3> QED BY <1>3, <3>1, <3>2
  <2> QED BY <2>1, <2>2
<1>7. CASE byte = LEA
  <2>1. \A x : OneByte(byte, node, x, dt) = lea(x, RowAt(node)) BY <1>7 DEF OneByte, ARPL, NOP, LEA
  <2> HIDE DEF lea
  <2> QED BY <1>4, <2>1
<1>8. CASE ~(byte = ARPL /\ dt = 64) /\ byte # NOP /\ byte # LEA BY <1>2, <1>8 DEF OneByte, ARPL, NOP, LEA
<1> QED BY <1>5, <1>6, <1>7, <1>8

LEMMA DividedReaches ==
  ASSUME NEW w, NEW w2, NEW b, NEW h, Stands(w, w2, b, h), NEW byte, NEW table, NEW wait
  PROVE  /\ Reaches(w, OneDivided(byte, table, w, wait), OneDivided(byte, table, w2, wait), h)
         /\ Reaches(w, TwoDivided(byte, table, w), TwoDivided(byte, table, w2), h)
<1>1. Reaches(w, NotFound(w), NotFound(w2), h) /\ \A ii : Reaches(w, Found(w, ii), Found(w2, ii), h) BY FoundReaches
<1> DEFINE node  == Node(table, IF byte < INST_DIVIDED_MODRM THEN Reg(byte) ELSE byte - INST_DIVIDED_MODRM + 8)
           one   == IF node[1] \in {INFO, INFOEX} THEN (IF wait /\ "OP_SIZE" \notin RowAt(node).flags THEN Null ELSE RowAt(node))
                    ELSE GetInfo(node[2], IF wait THEN 1 ELSE 0)
           none  == ~(node[1] \in {INFO, INFOEX}) /\ node[1] = NOTEXISTS
           node2 == Node(table, Reg(byte))
           ii    == IF node2[1] \in {INFO, INFOEX} THEN RowAt(node2) ELSE Null
           two   == IF ~(ii # Null /\ "NOT_DIVIDED" \in ii.flags) /\ byte >= INST_DIVIDED_MODRM
                    THEN GetInfo(table, byte - INST_DIVIDED_MODRM + 8) ELSE ii
<1>2. \A x : OneDivided(byte, table, x, wait) = IF none THEN NotFound(x) ELSE Found(x, one)
  BY DEF OneDivided
<1>3. \A x : TwoDivided(byte, table, x) = Found(x, two) BY DEF TwoDivided
<1> HIDE DEF none, one, two
<1> QED BY <1>1, <1>2, <1>3

\* What has become of a walk that is not whole does not count.
LEMMA ReachesWhole ==
  ASSUME NEW w, NEW w2, NEW b, NEW h \in Moves, Stands(w, w2, b, h), NEW u, NEW u2, Ended(u, b),
         u.ii # Null => u.left <= w.left, w.left >= h.less => Reaches(w, u, u2, h)
  PROVE  Reaches(w, u, u2, h)
<1>1. u.ii # Null /\ u.left >= h.less => w.left >= h.less
  <2>1. u.ii # Null => u.left \in Int BY DEF Ended, Standing
  <2>2. w.left \in Int /\ h.less \in Int BY DEF Stands, Standing, Moves
  <2> QED BY <2>1, <2>2
<1> QED BY <1>1 DEF Reaches

LEMMA ThreeBytesReaches ==
  ASSUME NEW code, NEW code2, NEW b, NEW h, CopyOf(code, code2, b, h), NEW w, NEW w2, Stands(w, w2, b, h), NEW node
  PROVE  Reaches(w, ThreeBytes(code, node, w), ThreeBytes(code2, node, w2), h) /\ Ended(ThreeBytes(code, node, w), b)
<1> DEFINE third(byte) == Node(node[2], byte)
           f(byte, x) == CASE node[1] = GROUP   -> RowOrPrefixed(Node(node[2], Reg(byte)), x)
                           [] node[1] = DIVIDED -> TwoDivided(byte, node[2], x)
                           [] node[1] = FULL    -> IF third(byte)[1] \in Lists \ {PREFIXED} THEN NotFound(x)
                                                   ELSE RowOrPrefixed(third(byte), x)
                           [] OTHER             -> NotFound(x)
           u  == ThreeBytes(code, node, w)
           u2 == ThreeBytes(code2, node, w2)
<1>1. /\ u = IF w.left < 0 THEN NotFound(w) ELSE f(Byte(code, w), w)
      /\ u2 = IF w2.left < 0 THEN NotFound(w2) ELSE f(Byte(code2, w2), w2)
  BY DEF ThreeBytes
<1>2. /\ h \in Moves /\ h.less \in Int /\ w.left \in Int /\ Standing(w, b) /\ w2.left = w.left - h.less
  BY StandsLemma DEF CopyOf, Moves, Stands, Standing
<1> HIDE DEF u, u2, third
<1>3. ASSUME NEW byte PROVE Reaches(w, f(byte, w), f(byte, w2), h)
  <2>1. Reaches(w, NotFound(w), NotFound(w2), h) /\ (\A n : Reaches(w, RowOrPrefixed(n, w), RowOrPrefixed(n, w2), h))
        /\ \A t : Reaches(w, TwoDivided(byte, t, w), TwoDivided(byte, t, w2), h)
    BY FoundReaches, RowOrPrefixedReaches, DividedReaches
  <2>2. GROUP # DIVIDED /\ GROUP # FULL /\ DIVIDED # FULL BY DEF GROUP, DIVIDED, FULL
  <2>3. CASE node[1] = GROUP BY <2>1, <2>2, <2>3
  <2>4. CASE node[1] = DIVIDED BY <2>1, <2>2, <2>4
  <2>5. CASE node[1] = FULL BY <2>1, <2>2, <2>5
  <2>6. CASE node[1] \notin {GROUP, DIVIDED, FULL} BY <2>1, <2>6
  <2> QED BY <2>3, <2>4, <2>5, <2>6
<1>4. Ended(NotFound(w), b) BY <1>2, FoundLemma
<1>5. ASSUME ~(w.left < 0), NEW byte PROVE Ended(f(byte, w), b)
  <2>1. w.left >= 0 BY <1>2, <1>5
  <2>2. (\A n : Ended(RowOrPrefixed(n, w), b)) /\ \A t : Ended(TwoDivided(byte, t, w), b)
    BY <1>2, <2>1, RowOrPrefixedLemma, DividedLemma
  <2> QED BY <1>4, <2>2
<1> HIDE DEF f
<1>6. Ended(u, b) BY <1>1, <1>4, <1>5
<1>7. w.left < 0 => u.ii = Null BY <1>1, <1>2, FoundLemma DEF NotFound
<1>8. u.ii # Null => u.left <= w.left BY <1>1, <1>3, <1>7 DEF Reaches
<1>9. ASSUME w.left >= h.less PROVE Reaches(w, u, u2, h)
  <2>1. CASE w.left < 0 BY <1>7, <2>1 DEF Reaches
  <2>2. CASE ~(w.left < 0)
    <3>1. Byte(code2, w2) = Byte(code, w) BY <1>2, <1>9, <2>2, ByteStands
    <3>2. ~(w2.left < 0) BY <1>2, <1>9
    <3> QED BY <1>1, <1>3, <2>2, <3>1, <3>2
  <2> QED BY <2>1, <2>2
<1>10. Reaches(w, u, u2, h) BY <1>2, <1>6, <1>8, <1>9, ReachesWhole
<1> QED BY <1>6, <1>10 DEF u, u2

LEMMA TwoBytesReaches ==
  ASSUME NEW code, NEW code2, NEW b, NEW h, CopyOf(code, code2, b, h), NEW w, NEW w2, Stands(w, w2, b, h), w.left >= 0,
         NEW byte0, NEW table
  PROVE  Reaches(w, TwoBytes(code, byte0, table, w), TwoBytes(code2, byte0, table, w2), h)
<1> DEFINE node(byte) == Node(table, byte)
           f(y, byte, x) == IF node(byte)[1] = NOTEXISTS THEN NotFound(x)
                            ELSE IF byte0 = Escape3D /\ byte = Escape3D THEN Found(x, OwnRow("NOW3D"))
                            ELSE IF node(byte)[1] \in {INFO, INFOEX, PREFIXED} THEN RowOrPrefixed(node(byte), x)
                            ELSE ThreeBytes(y, node(byte), Eat(x))
           u  == TwoBytes(code, byte0, table, w)
           u2 == TwoBytes(code2, byte0, table, w2)
<1>1. u = f(code, Byte(code, w), w) /\ u2 = f(code2, Byte(code2, w2), w2) BY DEF TwoBytes
<1>2. h \in Moves /\ h.less \in Int /\ w.left \in Int /\ Standing(w, b) BY DEF CopyOf, Moves, Stands, Standing
<1> HIDE DEF u, u2, node
<1>3. ASSUME NEW byte PROVE Reaches(w, f(code, byte, w), f(code2, byte, w2), h)
  <2> DEFINE v(y, x) == ThreeBytes(y, node(byte), Eat(x))
  <2>1. /\ Reaches(w, NotFound(w), NotFound(w2), h)
        /\ \A ii : Reaches(w, Found(w, ii), Found(w2, ii), h)
        /\ \A n : Reaches(w, RowOrPrefixed(n, w), RowOrPrefixed(n, w2), h)
    BY FoundReaches, RowOrPrefixedReaches
  <2>2. Reaches(w, v(code, w), v(code2, w2), h)
    <3>1. Stands(Eat(w), Eat(w2), b, h) /\ Eat(w).left = w.left - 1 BY <1>2, EatStands
    <3>2. Reaches(Eat(w), v(code, w), v(code2, w2), h) /\ Ended(v(code, w), b) BY <3>1, ThreeBytesReaches
    <3>3. Eat(w).left <= w.left BY <1>2, <3>1
    <3> HIDE DEF v
    <3> QED BY <1>2, <3>1, <3>2, <3>3, ReachesThen DEF Stands
  <2> HIDE DEF v
  <2>3. \A x, y : f(y, byte, x) = IF node(byte)[1] = NOTEXISTS THEN NotFound(x)
                            ELSE IF byte0 = Escape3D /\ byte = Escape3D THEN Found(x, OwnRow("NOW3D"))
                            ELSE IF node(byte)[1] \in {INFO, INFOEX, PREFIXED} THEN RowOrPrefixed(node(byte), x)
                            ELSE v(y, x)
    BY DEF v
  <2> HIDE DEF f
  <2> QED BY <2>1, <2>2, <2>3
<1>4. Ended(u, b) BY <1>2, TwoBytesLemma DEF u
<1> HIDE DEF f
<1>5. u.ii # Null => u.left <= w.left BY <1>1, <1>3 DEF Reaches
<1>6. w.left >= h.less => Reaches(w, u, u2, h)
  <2>1. w.left >= h.less => Byte(code2, w2) = Byte(code, w) BY ByteStands
  <2> QED BY <1>1, <1>3, <2>1
<1>7. Reaches(w, u, u2, h) BY <1>2, <1>4, <1>5, <1>6, ReachesWhole
<1> QED BY <1>7 DEF u, u2

LEMMA OpcodeReaches ==
  ASSUME NEW code, NEW code2, NEW b, NEW h, CopyOf(code, code2, b, h), NEW w, NEW w2, Stands(w, w2, b, h), w.left >= 0,
         NEW dt, NEW wait
  PROVE  Reaches(w, Opcode(code, w, dt, wait), Opcode(code2, w2, dt, wait), h)
<1> DEFINE node(byte) == Node(InstructionsTree[Table_First], byte)
           e   == Eat(w)
           e2  == Eat(w2)
           g(y, n, byte0, byte, x) ==
             IF n[1] = GROUP /\ ~wait THEN Found(x, GetInfo(n[2], Reg(byte)))
             ELSE IF n[1] = DIVIDED THEN OneDivided(byte, n[2], x, wait)
             ELSE IF wait \/ n[1] # FULL THEN NotFound(x)
             ELSE TwoBytes(y, byte0, n[2], x)
           f(y, byte, x, x2) ==
             IF node(byte)[1] = NOTEXISTS THEN NotFound(x)
             ELSE IF node(byte)[1] \in {INFO, INFOEX} /\ ~wait THEN OneByte(byte, node(byte), x, dt)
             ELSE IF x2.left < 0 THEN NotFound(x2) ELSE g(y, node(byte), byte, Byte(y, x2), x2)
           u  == Opcode(code, w, dt, wait)
           u2 == Opcode(code2, w2, dt, wait)
<1>1. u = f(code, Byte(code, w), w, e) BY DEF Opcode
<1>2. u2 = f(code2, Byte(code2, w2), w2, e2) BY DEF Opcode
<1>3. h \in Moves /\ h.less \in Int /\ w.left \in Int /\ Standing(w, b) BY DEF CopyOf, Moves, Stands, Standing
<1>4. Stands(e, e2, b, h) /\ e.left = w.left - 1 /\ e2.left = e.left - h.less
  <2>1. Stands(e, e2, b, h) /\ e.left = w.left - 1 BY <1>3, EatStands
  <2> QED BY <2>1, StandsLemma
<1> HIDE DEF u, u2, e, e2, node
<1>5. ASSUME ~(e.left < 0), NEW n, NEW byte0, NEW byte PROVE Reaches(e, g(code, n, byte0, byte, e), g(code2, n, byte0, byte, e2), h)
  <2>1. e.left >= 0 BY <1>3, <1>4, <1>5
  <2>2. /\ Reaches(e, NotFound(e), NotFound(e2), h)
        /\ \A ii : Reaches(e, Found(e, ii), Found(e2, ii), h)
        /\ \A t : Reaches(e, OneDivided(byte, t, e, wait), OneDivided(byte, t, e2, wait), h)
        /\ \A t : Reaches(e, TwoBytes(code, byte0, t, e), TwoBytes(code2, byte0, t, e2), h)
    BY <1>4, <2>1, FoundReaches, DividedReaches, TwoBytesReaches
  <2> QED BY <2>2
<1>6. ASSUME ~(e.left < 0), NEW n, NEW byte0, NEW byte PROVE Ended(g(code, n, byte0, byte, e), b)
  <2>1. e.left >= 0 /\ Standing(e, b) BY <1>3, <1>4, <1>6 DEF Stands
  <2>2. Ended(NotFound(e), b) /\ (\A ii : Ended(Found(e, ii), b))
        /\ (\A t : Ended(OneDivided(byte, t, e, wait), b)) /\ \A t : Ended(TwoBytes(code, byte0, t, e), b)
    BY <2>1, FoundLemma, DividedLemma, TwoBytesLemma
  <2> QED BY <2>2
<1> HIDE DEF g
<1>7. ASSUME NEW byte PROVE Reaches(w, f(code, byte, w, e), f(code2, byte, w2, e2), h)
  <2> DEFINE v  == g(code, node(byte), byte, Byte(code, e), e)
             v2 == g(code2, node(byte), byte, Byte(code2, e2), e2)
  <2>1. Reaches(w, NotFound(w), NotFound(w2), h) /\ \A n : Reaches(w, OneByte(byte, n, w, dt), OneByte(byte, n, w2, dt), h)
    BY FoundReaches, OneByteReaches
  <2>2. CASE e.left < 0
    <3>1. NotFound(e).ii = Null BY <1>4, FoundLemma DEF NotFound, Stands
    <3>2. \A x2 : Reaches(w, NotFound(e), x2, h) BY <3>1 DEF Reaches
    <3>3. f(code, byte, w, e) = IF node(byte)[1] = NOTEXISTS THEN NotFound(w)
             ELSE IF node(byte)[1] \in {INFO, INFOEX} /\ ~wait THEN OneByte(byte, node(byte), w, dt)
             ELSE NotFound(e)
      BY <2>2
    <3> QED BY <2>1, <3>2, <3>3
  <2>3. CASE ~(e.left < 0)
    <3>1. Ended(v, b) /\ (v.ii # Null => v.left <= e.left) BY <1>5, <1>6, <2>3 DEF Reaches
    <3>2. e.left >= h.less => Byte(code2, e2) = Byte(code, e) /\ ~(e2.left < 0)
      <4>1. e.left >= 0 /\ (e.left >= h.less => ~(e2.left < 0)) BY <1>3, <1>4, <2>3
      <4> QED BY <1>4, <4>1, ByteStands
    <3>3. e.left >= h.less => Reaches(e, v, v2, h) BY <1>5, <2>3, <3>2
    <3> HIDE DEF v, v2
    <3>4. Reaches(e, v, v2, h) BY <1>3, <1>4, <3>1, <3>3, ReachesWhole
    <3>5. e.left <= w.left BY <1>3, <1>4
    <3>6. Reaches(w, v, v2, h) BY <1>3, <1>4, <3>1, <3>4, <3>5, ReachesThen DEF Stands
    <3>7. v.ii # Null /\ v.left >= h.less => ~(e2.left < 0)
      <4>1. v.ii # Null => v.left \in Int BY <3>1 DEF Ended, Standing
      <4>2. e.left \in Int BY <1>3, <1>4
      <4> QED BY <1>3, <3>1, <3>2, <4>1, <4>2
    <3> DEFINE u3 == IF e2.left < 0 THEN NotFound(e2) ELSE v2
    <3>8. Reaches(w, v, u3, h) BY <3>6, <3>7 DEF Reaches
    <3>9. f(code, byte, w, e) = IF node(byte)[1] = NOTEXISTS THEN NotFound(w)
             ELSE IF node(byte)[1] \in {INFO, INFOEX} /\ ~wait THEN OneByte(byte, node(byte), w, dt)
             ELSE v
      BY <2>3 DEF v
    <3>10. f(code2, byte, w2, e2) = IF node(byte)[1] = NOTEXISTS THEN NotFound(w2)
             ELSE IF node(byte)[1] \in {INFO, INFOEX} /\ ~wait THEN OneByte(byte, node(byte), w2, dt)
             ELSE u3
      BY DEF v2
    <3> HIDE DEF u3, f
    <3> QED BY <2>1, <3>8, <3>9, <3>10
  <2> QED BY <2>2, <2>3
<1>8. Ended(u, b) BY <1>3, OpcodeLemma DEF u
<1> HIDE DEF f
<1>9. u.ii # Null => u.left <= w.left BY <1>1, <1>7 DEF Reaches
<1>10. w.left >= h.less => Reaches(w, u, u2, h)
  <2>1. w.left >= h.less => Byte(code2, w2) = Byte(code, w) BY ByteStands
  <2> QED BY <1>1, <1>2, <1>7, <2>1
<1>11. Reaches(w, u, u2, h) BY <1>3, <1>8, <1>9, <1>10, ReachesWhole
<1> QED BY <1>11 DEF u, u2

\* The VEX prefix is before the opcode, in both codes where it is noted.
VexThere(ps, at, b, h) ==
  "VEX" \in ps.decoded => ps.vexPos \in Int /\ b.start <= ps.vexPos /\ ps.vexPos < at /\ h.vexPos = ps.vexPos - h.by

LEMMA VexCheckedReaches ==
  ASSUME NEW w, NEW b, NEW h, NEW v, NEW v2, Ended(v, b), Reaches(w, v, v2, h)
  PROVE  Reaches(w, VexChecked(v), VexChecked(v2), h)
<1>1. CASE v.ii = Null BY <1>1 DEF VexChecked, Reaches
<1>2. CASE v.ii # Null
  <2>1. Standing(v, b) BY <1>2 DEF Ended
  <2> DEFINE m == Moved(v, h)
  <2>2. Stands(v, m, b, h) BY <2>1 DEF Stands
  <2> HIDE DEF m
  <2>3. m.ii = v.ii /\ m.ps.vrex = v.ps.vrex /\ m.ps.vexV = v.ps.vexV BY <2>2, StandsLemma
  <2>4. VexAllowed(m) = VexAllowed(v) BY <2>3 DEF VexAllowed
  <2>5. CASE VexAllowed(v) BY <1>2, <2>3, <2>4, <2>5 DEF VexChecked, Reaches, m
  <2>6. CASE ~VexAllowed(v)
    <3>1. VexChecked(v) = NotFound(v) BY <1>2, <2>6 DEF VexChecked
    <3>2. NotFound(v).ii = Null BY <2>1, FoundLemma DEF NotFound
    <3> QED BY <3>1, <3>2 DEF Reaches
  <2> QED BY <2>5, <2>6
<1> QED BY <1>1, <1>2

\* A walk by its parts.
Walk(p, r, x) == [ii |-> Null, pos |-> p, left |-> r, ps |-> x]
LEMMA WalkLemma ==
  ASSUME NEW p, NEW r, NEW x
  PROVE  /\ Walk(p, r, x).ii = Null /\ Walk(p, r, x).pos = p /\ Walk(p, r, x).left = r /\ Walk(p, r, x).ps = x
         /\ DOMAIN Walk(p, r, x) = WalkFields
         /\ \A y : [Walk(p, r, x) EXCEPT !.pos = y] = Walk(y, r, x)
         /\ \A y : [Walk(p, r, x) EXCEPT !.left = y] = Walk(p, y, x)
         /\ \A y : [Walk(p, r, x) EXCEPT !.ps = y] = Walk(p, r, y)
BY DEF Walk, WalkFields

LEMMA WalkTaken == \A p, r, x : Take(Walk(p, r, x)) = Walk(p, r - 1, x)
BY WalkLemma DEF Take

LEMMA WalkIgnored == \A p, r, x : [Walk(p, r, x) EXCEPT !.ps = IgnoreAll(@)] = Walk(p, r, IgnoreAll(x))
BY WalkLemma

LEMMA WalkEaten == \A p, r, x : Eat(Walk(p, r, x)) = Walk(p + 1, r - 1, x)
<1> SUFFICES ASSUME NEW p, NEW r, NEW x PROVE Eat(Walk(p, r, x)) = Walk(p + 1, r - 1, x) OBVIOUS
<1> DEFINE w == Walk(p, r, x)
<1>1. [w EXCEPT !.pos = p + 1] = Walk(p + 1, r, x) BY WalkLemma
<1>2. w.pos = p /\ w.left = r BY WalkLemma
<1>3. [Walk(p + 1, r, x) EXCEPT !.left = r - 1] = Walk(p + 1, r - 1, x) BY WalkLemma
<1> HIDE DEF w
<1>4. Eat(w) = [[w EXCEPT !.pos = p + 1] EXCEPT !.left = r - 1] BY <1>2 DEF Eat
<1> QED BY <1>1, <1>3, <1>4 DEF w

LEMMA WalkMoved ==
  ASSUME NEW p, NEW r, NEW x, NEW h
  PROVE  Moved(Walk(p, r, x), h) = Walk(p - h.by, r - h.less, MovedPrefixes(x, h))
<1> DEFINE w == Walk(p, r, x)
<1>1. w.pos = p /\ w.left = r /\ w.ps = x BY WalkLemma
<1>2. [w EXCEPT !.pos = p - h.by] = Walk(p - h.by, r, x) BY WalkLemma
<1>3. [Walk(p - h.by, r, x) EXCEPT !.left = r - h.less] = Walk(p - h.by, r - h.less, x) BY WalkLemma
<1>4. [Walk(p - h.by, r - h.less, x) EXCEPT !.ps = MovedPrefixes(x, h)] = Walk(p - h.by, r - h.less, MovedPrefixes(x, h))
  BY WalkLemma
<1> HIDE DEF w
<1>5. Moved(w, h) = [[[w EXCEPT !.pos = p - h.by] EXCEPT !.left = r - h.less] EXCEPT !.ps = MovedPrefixes(x, h)]
  BY <1>1 DEF Moved
<1> QED BY <1>2, <1>3, <1>4, <1>5 DEF w

\* The opcode's first byte is taken.
LEMMA TakeStands ==
  ASSUME NEW b, NEW h \in Moves, NEW at \in Nat, NEW rest \in Int, NEW ps,
         IsPrefixes(ps, b.start, b.last), b.from = at + 1, b.end = at + rest
  PROVE  /\ Stands(Walk(at, rest - 1, ps), Walk(at - h.by, (rest - h.less) - 1, MovedPrefixes(ps, h)), b, h)
         /\ Stands(Walk(at + 1, rest - 2, ps), Walk((at - h.by) + 1, (rest - h.less) - 2, MovedPrefixes(ps, h)), b, h)
<1>1. h.by \in Int /\ h.less \in Int BY DEF Moves
<1>2. Standing(Walk(at, rest - 1, ps), b) /\ Standing(Walk(at + 1, rest - 2, ps), b)
  BY WalkLemma DEF Standing
<1>3. (rest - h.less) - 1 = (rest - 1) - h.less /\ (rest - h.less) - 2 = (rest - 2) - h.less /\ (at - h.by) + 1 = (at + 1) - h.by
  BY <1>1
<1>4. /\ Moved(Walk(at, rest - 1, ps), h) = Walk(at - h.by, (rest - 1) - h.less, MovedPrefixes(ps, h))
      /\ Moved(Walk(at + 1, rest - 2, ps), h) = Walk((at + 1) - h.by, (rest - 2) - h.less, MovedPrefixes(ps, h))
  BY WalkMoved
<1> QED BY <1>2, <1>3, <1>4 DEF Stands

LEMMA VexLookupReaches ==
  ASSUME NEW code, NEW code2, NEW b, NEW h, CopyOf(code, code2, b, h), NEW at \in Nat, NEW rest \in Int, NEW ps,
         IsPrefixes(ps, b.start, b.last), b.from = at + 1, b.end = at + rest, "VEX" \in ps.decoded, VexThere(ps, at, b, h)
  PROVE  LET v  == VexLookup(code, Walk(at, rest, ps))
             v2 == VexLookup(code2, Walk(at - h.by, rest - h.less, MovedPrefixes(ps, h)))
         IN  Reaches(Take(Walk(at, rest, ps)), v, v2, h) /\ Ended(v, b)
<1> DEFINE ps2 == MovedPrefixes(ps, h)
           w   == Walk(at, rest, ps)
           w2  == Walk(at - h.by, rest - h.less, ps2)
           two == ps.ext = "VEX2"
           last(vex, next2) == IF two THEN vex ELSE next2
           start(vex)       == IF two THEN 1 ELSE vex % 32
           illegal(vex)     == ps.decoded \cap VexIllegal # {} \/ start(vex) \notin 1 .. 3
           taken(x, l)      == [Take(x) EXCEPT !.ps.vexV = ((255 - l) \div 8) % 16]
           node(vex, byte)  == Node(InstructionsTree[VexTable[start(vex)]], byte)
           f(y, x, vex, l, byte) == IF illegal(vex) \/ x.left < 1 THEN NotFound(x)
                                    ELSE VexFirst(y, taken(x, l), node(vex, byte), 4 + (l % 4))
           u  == VexLookup(code, w)
           u2 == VexLookup(code2, w2)
           a1 == code[ps.vexPos + 1]
           a2 == code[ps.vexPos + 2]
           c1 == code2[ps2.vexPos + 1]
           c2 == code2[ps2.vexPos + 2]
<1>1. /\ h \in Moves /\ h.less \in Int /\ h.by \in Int /\ DOMAIN ps = PsFields
      /\ ps.vexPos \in Int /\ b.start \in Int /\ b.start <= ps.vexPos /\ ps.vexPos < at
  BY DEF CopyOf, Moves, IsPrefixes, VexThere
<1>2. ps2.decoded = ps.decoded /\ ps2.ext = ps.ext /\ ps2.vexPos = ps.vexPos - h.by /\ ps2 = MovedPrefixes(ps, h)
  BY <1>1, MovedPrefixesLemma DEF VexThere
<1>0. w.left = rest /\ w.ps = ps /\ w2.left = rest - h.less /\ w2.ps = ps2 /\ w.pos = at /\ w2.pos = at - h.by
  BY WalkLemma
<1> HIDE DEF ps2, w, w2
<1>3. u = f(code, w, a1, last(a1, a2), Byte(code, w)) BY <1>0 DEF VexLookup
<1>4. u2 = f(code2, w2, c1, last(c1, c2), Byte(code2, w2)) BY <1>0, <1>2 DEF VexLookup
<1> HIDE DEF u, u2, start, illegal, last, node
<1>5. ASSUME NEW l
      PROVE  Stands(taken(w, l), taken(w2, l), b, h) /\ taken(w, l).left = rest - 1
  <2> DEFINE val == ((255 - l) \div 8) % 16
             p1 == [ps EXCEPT !.vexV = val]
             p2 == [ps2 EXCEPT !.vexV = val]
  <2> HIDE DEF val
  <2>1. IsPrefixes(p1, b.start, b.last) BY DEF IsPrefixes, PsFields
  <2>2. p2 = MovedPrefixes(p1, h) BY <1>1, <1>2 DEF MovedPrefixes, PsFields
  <2> HIDE DEF p1, p2
  <2>3. Stands(Walk(at, rest - 1, p1), Walk(at - h.by, (rest - h.less) - 1, p2), b, h) BY <1>1, <2>1, <2>2, TakeStands
  <2>4. taken(w, l) = Walk(at, rest - 1, p1)
    <3>1. Take(w) = Walk(at, rest - 1, ps) BY <1>0, WalkLemma DEF Take, w
    <3>2. taken(w, l) = [Take(w) EXCEPT !.ps = [Take(w).ps EXCEPT !.vexV = val]] BY DEF val
    <3>3. taken(w, l) = [Take(w) EXCEPT !.ps = p1] BY <3>1, <3>2, WalkLemma DEF p1
    <3> QED BY <3>1, <3>3, WalkLemma
  <2>5. taken(w2, l) = Walk(at - h.by, (rest - h.less) - 1, p2)
    <3>1. Take(w2) = Walk(at - h.by, (rest - h.less) - 1, ps2) BY <1>0, WalkLemma DEF Take, w2
    <3>2. taken(w2, l) = [Take(w2) EXCEPT !.ps = [Take(w2).ps EXCEPT !.vexV = val]] BY DEF val
    <3>3. taken(w2, l) = [Take(w2) EXCEPT !.ps = p2] BY <3>1, <3>2, WalkLemma DEF p2
    <3> QED BY <3>1, <3>3, WalkLemma
  <2>6. Walk(at, rest - 1, p1).left = rest - 1 BY WalkLemma
  <2> HIDE DEF taken
  <2> QED BY <2>3, <2>4, <2>5, <2>6
<1>6. w.left = rest /\ w2.left = rest - h.less /\ Take(w).left = rest - 1 /\ NotFound(w).ii = Null
  <2>1. Take(w) = Walk(at, rest - 1, ps) BY <1>0, WalkLemma DEF Take, w
  <2>2. "ii" \in DOMAIN w BY WalkLemma DEF w, WalkFields
  <2> QED BY <1>0, <2>1, <2>2, WalkLemma DEF NotFound, Found
<1>7. ASSUME rest >= 1, NEW l, NEW n, NEW index
      PROVE  /\ Reaches(Take(w), VexFirst(code, taken(w, l), n, index), VexFirst(code2, taken(w2, l), n, index), h)
             /\ Ended(VexFirst(code, taken(w, l), n, index), b)
  <2> DEFINE t == taken(w, l)
             t2 == taken(w2, l)
  <2>1. Stands(t, t2, b, h) /\ t.left = rest - 1 BY <1>5
  <2> HIDE DEF t, t2, w, w2, taken
  <2>2. t.left >= 0 BY <1>7, <2>1
  <2>3. Reaches(t, VexFirst(code, t, n, index), VexFirst(code2, t2, n, index), h) BY <2>1, <2>2, VexReaches
  <2>4. Ended(VexFirst(code, t, n, index), b) BY <2>1, <2>2, VexLemma DEF Stands
  <2>5. Take(w).left = t.left BY <1>6, <2>1
  <2>6. Reaches(Take(w), VexFirst(code, t, n, index), VexFirst(code2, t2, n, index), h) BY <2>3, <2>5 DEF Reaches
  <2> QED BY <2>4, <2>6 DEF t, t2
<1>8. rest - 1 >= h.less /\ rest >= 1 => c1 = a1 /\ c2 = a2 /\ Byte(code2, w2) = Byte(code, w)
  <2> SUFFICES ASSUME rest - 1 >= h.less, rest >= 1 PROVE c1 = a1 /\ c2 = a2 /\ Byte(code2, w2) = Byte(code, w) OBVIOUS
  <2>1. \A p \in Int : b.start <= p /\ p <= at => code2[p - h.by + 1] = code[p + 1]
    <3> TAKE p \in Int
    <3>1. p <= at => p < b.end /\ p < b.end - h.less BY <1>1
    <3> QED BY <3>1 DEF CopyOf
  <2>2. code2[ps.vexPos - h.by + 1] = code[ps.vexPos + 1] BY <1>1, <2>1
  <2>3. code2[(ps.vexPos + 1) - h.by + 1] = code[(ps.vexPos + 1) + 1]
    <3>1. ps.vexPos + 1 \in Int /\ b.start <= ps.vexPos + 1 /\ ps.vexPos + 1 <= at BY <1>1
    <3> QED BY <2>1, <3>1
  <2>4. (ps.vexPos + 1) - h.by + 1 = (ps.vexPos - h.by) + 2 /\ (ps.vexPos + 1) + 1 = ps.vexPos + 2 BY <1>1
  <2>5. code2[at - h.by + 1] = code[at + 1]
    <3>1. at \in Int /\ b.start <= at BY <1>1
    <3> QED BY <2>1, <3>1
  <2>6. Byte(code, w) = code[at + 1] /\ Byte(code2, w2) = code2[at - h.by + 1] BY <1>0 DEF Byte
  <2> QED BY <1>2, <2>2, <2>3, <2>4, <2>5, <2>6
<1> HIDE DEF w, w2, taken, a1, a2, c1, c2
<1> DEFINE l == last(a1, a2)
           ok == ~(illegal(a1) \/ w.left < 1)
           t  == VexFirst(code, taken(w, l), node(a1, Byte(code, w)), 4 + (l % 4))
           t2 == VexFirst(code2, taken(w2, l), node(a1, Byte(code, w)), 4 + (l % 4))
<1>9. u = IF ok THEN t ELSE NotFound(w) BY <1>3
<1>10. ok => rest >= 1 BY <1>6
<1>11. ok => Reaches(Take(w), t, t2, h) /\ Ended(t, b) BY <1>7, <1>10
<1>12. ok /\ rest - 1 >= h.less => u2 = t2 BY <1>1, <1>4, <1>6, <1>8, <1>10
<1>13. Ended(u, b) BY <1>6, <1>9, <1>11 DEF Ended
<1>14. Reaches(Take(w), u, u2, h)
  <2>1. CASE ~ok BY <1>6, <1>9, <2>1 DEF Reaches
  <2>2. CASE ok
    <3> HIDE DEF t, t2, ok
    <3>1. u = t /\ Reaches(Take(w), t, t2, h) /\ Ended(t, b) BY <1>9, <1>11, <2>2
    <3>2. t.ii # Null /\ t.left >= h.less => rest - 1 >= h.less
      <4>1. t.ii # Null => t.left \in Int /\ t.left <= rest - 1 BY <1>6, <3>1 DEF Ended, Standing, Reaches
      <4> QED BY <1>1, <4>1
    <3> QED BY <1>12, <2>2, <3>1, <3>2 DEF Reaches
  <2> QED BY <2>1, <2>2
<1> QED BY <1>13, <1>14 DEF u, u2, w, w2, ps2

\* The walk's end, whatever the copy says of it.
Agree(v, v2, h) == v.ii # Null /\ v.left >= h.less => v2 = Moved(v, h)

LEMMA LookupReaches ==
  ASSUME NEW code, NEW code2, NEW b, NEW h, CopyOf(code, code2, b, h), NEW at \in Nat, NEW rest \in Int, NEW ps, NEW dt,
         IsPrefixes(ps, b.start, b.last), b.from = at + 1, b.end = at + rest, VexThere(ps, at, b, h)
  PROVE  Agree(Lookup(code, at, rest, ps, dt), Lookup(code2, at - h.by, rest - h.less, MovedPrefixes(ps, h), dt), h)
<1> DEFINE ps2 == MovedPrefixes(ps, h)
           w   == Walk(at, rest, ps)
           w2  == Walk(at - h.by, rest - h.less, ps2)
           opened(x, wait) == IF wait THEN [Take(Eat(x)) EXCEPT !.ps = IgnoreAll(@)] ELSE Take(x)
           f(y, x, r, wait) == IF r < (IF wait THEN 2 ELSE 1) THEN NotFound(x)
                               ELSE Opcode(y, opened(x, wait), dt, wait)
           v  == Lookup(code, at, rest, ps, dt)
           v2 == Lookup(code2, at - h.by, rest - h.less, ps2, dt)
<1>1. h \in Moves /\ h.less \in Int /\ h.by \in Int /\ DOMAIN ps = PsFields /\ b.start \in Int /\ b.start < at + 1
  BY DEF CopyOf, Moves, IsPrefixes
<1>2. ps2.decoded = ps.decoded BY <1>1, MovedPrefixesLemma
<1>3. Ended(v, b) BY LookupLemma
<1>4. CASE "VEX" \in ps.decoded
  <2>1. Reaches(Take(w), VexLookup(code, w), VexLookup(code2, w2), h) /\ Ended(VexLookup(code, w), b)
    BY <1>4, VexLookupReaches
  <2> HIDE DEF w, w2, ps2
  <2>2. Reaches(Take(w), VexChecked(VexLookup(code, w)), VexChecked(VexLookup(code2, w2)), h)
    BY <2>1, VexCheckedReaches
  <2>3. v = VexChecked(VexLookup(code, w)) /\ v2 = VexChecked(VexLookup(code2, w2))
    BY <1>2, <1>4 DEF Lookup, Walk, w, w2
  <2> QED BY <2>2, <2>3 DEF Agree, Reaches, ps2
<1>5. CASE "VEX" \notin ps.decoded
  <2> DEFINE ww  == Byte(code, w) = WAIT
             ww2 == Byte(code2, w2) = WAIT
  <2>1. v = f(code, w, rest, ww) /\ v2 = f(code2, w2, rest - h.less, ww2)
    BY <1>2, <1>5 DEF Lookup, Walk
  <2>2. Stands(opened(w, FALSE), opened(w2, FALSE), b, h) /\ opened(w, FALSE).left = rest - 1
    <3>1. opened(w, FALSE) = Walk(at, rest - 1, ps) /\ opened(w2, FALSE) = Walk(at - h.by, (rest - h.less) - 1, ps2)
      <4>1. Take(w) = Walk(at, rest - 1, ps) /\ Take(w2) = Walk(at - h.by, (rest - h.less) - 1, ps2)
        BY WalkTaken, Zenon
      <4> HIDE DEF w, w2
      <4>2. \A x : opened(x, FALSE) = Take(x) OBVIOUS
      <4> HIDE DEF opened
      <4> QED BY <4>1, <4>2
    <3>2. Stands(Walk(at, rest - 1, ps), Walk(at - h.by, (rest - h.less) - 1, ps2), b, h) BY <1>1, TakeStands
    <3>3. Walk(at, rest - 1, ps).left = rest - 1 BY WalkLemma
    <3> HIDE DEF opened
    <3> QED BY <3>1, <3>2, <3>3
  <2>3. Stands(opened(w, TRUE), opened(w2, TRUE), b, h) /\ opened(w, TRUE).left = rest - 2
    <3> DEFINE pp == IgnoreAll(ps)
    <3>1. IgnoreAll(ps2) = MovedPrefixes(pp, h) BY <1>1, MovedNotedLemma
    <3>2. IsPrefixes(pp, b.start, b.last) BY NotedLemma
    <3> HIDE DEF pp, ps2
    <3>3. ASSUME NEW p \in Int, NEW r \in Int, NEW x
          PROVE  opened(Walk(p, r, x), TRUE) = Walk(p + 1, (r - 1) - 1, IgnoreAll(x))
      <4>1. Take(Eat(Walk(p, r, x))) = Walk(p + 1, (r - 1) - 1, x)
        <5>1. Eat(Walk(p, r, x)) = Walk(p + 1, r - 1, x) BY WalkEaten, Zenon
        <5>2. Take(Walk(p + 1, r - 1, x)) = Walk(p + 1, (r - 1) - 1, x) BY WalkTaken, Zenon
        <5> QED BY <5>1, <5>2
      <4>2. opened(Walk(p, r, x), TRUE) = [Walk(p + 1, (r - 1) - 1, x) EXCEPT !.ps = IgnoreAll(@)] BY <4>1
      <4>3. [Walk(p + 1, (r - 1) - 1, x) EXCEPT !.ps = IgnoreAll(@)] = Walk(p + 1, (r - 1) - 1, IgnoreAll(x))
        BY WalkIgnored, Zenon
      <4> HIDE DEF opened
      <4> QED BY <4>2, <4>3
    <3>4. (rest - 1) - 1 = rest - 2 /\ ((rest - h.less) - 1) - 1 = (rest - h.less) - 2 BY <1>1
    <3>5. opened(w, TRUE) = Walk(at + 1, rest - 2, pp) BY <3>3, <3>4 DEF pp
    <3>6. opened(w2, TRUE) = Walk((at - h.by) + 1, (rest - h.less) - 2, MovedPrefixes(pp, h)) BY <1>1, <3>1, <3>3, <3>4
    <3> HIDE DEF opened
    <3>7. Stands(Walk(at + 1, rest - 2, pp), Walk((at - h.by) + 1, (rest - h.less) - 2, MovedPrefixes(pp, h)), b, h)
      BY <1>1, <3>2, TakeStands
    <3>8. Walk(at + 1, rest - 2, pp).left = rest - 2 BY WalkLemma
    <3> QED BY <3>5, <3>6, <3>7, <3>8
  <2>4. rest >= 1 /\ rest - 1 >= h.less => ww2 = ww
    <3> SUFFICES ASSUME rest >= 1, rest - 1 >= h.less PROVE Byte(code2, w2) = Byte(code, w) OBVIOUS
    <3>1. b.start <= at /\ at < b.end /\ at < b.end - h.less BY <1>1
    <3>2. code2[at - h.by + 1] = code[at + 1] BY <3>1 DEF CopyOf
    <3> QED BY <3>2, WalkLemma DEF Byte
  <2> HIDE DEF opened, ww, ww2, w, w2, v, v2
  <2>5. ASSUME NEW wait \in BOOLEAN, ~(rest < (IF wait THEN 2 ELSE 1)), ww = wait,
               rest - 1 >= h.less => ww2 = wait
        PROVE  Agree(v, v2, h)
    <3> DEFINE o  == opened(w, wait)
               o2 == opened(w2, wait)
               k  == IF wait THEN 2 ELSE 1
    <3>1. Stands(o, o2, b, h) /\ o.left = rest - k BY <2>2, <2>3, <2>5
    <3>2. o.left >= 0 BY <2>5, <3>1
    <3>3. Reaches(o, Opcode(code, o, dt, wait), Opcode(code2, o2, dt, wait), h) BY <3>1, <3>2, OpcodeReaches
    <3>4. v = Opcode(code, o, dt, wait) BY <2>1, <2>5
    <3> SUFFICES ASSUME v.ii # Null, v.left >= h.less PROVE v2 = Moved(v, h) BY DEF Agree
    <3>5. v.left \in Int /\ v.left <= o.left BY <1>3, <3>3, <3>4 DEF Reaches, Ended, Standing
    <3>6. rest - k >= h.less BY <1>1, <3>1, <3>5
    <3>7. rest - 1 >= h.less /\ ~(rest - h.less < k) BY <1>1, <2>5, <3>6
    <3>8. v2 = Opcode(code2, o2, dt, wait) BY <2>1, <2>5, <3>7
    <3> HIDE DEF o, o2
    <3> QED BY <3>3, <3>4, <3>8 DEF Reaches
  <2>6. ASSUME rest < (IF ww THEN 2 ELSE 1) PROVE Agree(v, v2, h)
    <3>1. v = NotFound(w) BY <2>1, <2>6
    <3>2. NotFound(w).ii = Null BY WalkLemma DEF NotFound, Found, w, WalkFields
    <3> QED BY <3>1, <3>2 DEF Agree
  <2>7. ASSUME ~(rest < (IF ww THEN 2 ELSE 1)) PROVE Agree(v, v2, h)
    <3>1. CASE ww
      <4>1. ~(rest < 2) BY <2>7, <3>1
      <4>2. rest >= 1 BY <4>1
      <4>3. rest - 1 >= h.less => ww2 = TRUE BY <2>4, <3>1, <4>2
      <4> QED BY <2>5, <2>7, <3>1, <4>3
    <3>2. CASE ~ww
      <4>1. ~(rest < 1) BY <2>7, <3>2
      <4>2. rest >= 1 BY <4>1
      <4>3. rest - 1 >= h.less => ww2 = FALSE BY <2>4, <3>2, <4>2 DEF ww, ww2
      <4>4. ww = FALSE BY <3>2 DEF ww
      <4> QED BY <2>5, <2>7, <4>3, <4>4
    <3> QED BY <3>1, <3>2
  <2> QED BY <2>6, <2>7 DEF v, v2
<1> QED BY <1>4, <1>5

-----------------------------------------------------------------------------
(* From the row to the _DInst, in both codes.                              *)

LEMMA InProgressMoved ==
  ASSUME NEW w, DOMAIN w = WalkFields, NEW h
  PROVE  InProgress(Moved(w, h)) = Moved(InProgress(w), h)
<1> DEFINE m  == Moved(w, h)
           p  == InProgress(w)
           p2 == InProgress(m)
           q  == Moved(p, h)
<1>1. /\ m.pos = w.pos - h.by /\ m.left = w.left - h.less /\ m.ps = MovedPrefixes(w.ps, h) /\ m.ii = w.ii
  BY DEF Moved, WalkFields
<1>2. DOMAIN p = DFields /\ p.pos = w.pos /\ p.left = w.left /\ p.ps = w.ps BY InProgressLemma
<1> HIDE DEF m
<1>3. DOMAIN p2 = DFields /\ p2.pos = m.pos /\ p2.left = m.left /\ p2.ps = m.ps BY InProgressLemma
<1>4. ASSUME NEW f \in DFields, f \notin Places PROVE p2[f] = p[f]
  <2>1. f = "ii" \/ f \notin {"ii", "pos", "left", "ps"} BY <1>4 DEF Places
  <2>2. CASE f = "ii" BY <1>1, <2>2, DFieldsLemma DEF InProgress, DFields
  <2>3. CASE f \notin {"ii", "pos", "left", "ps"}
    <3>1. CASE f = "ok"
      <4>1. "ok" \in DOMAIN Cleared BY DEF Cleared
      <4> QED BY <3>1, <4>1 DEF InProgress
    <3>2. CASE f = "lockable" BY <3>2 DEF InProgress
    <3>3. CASE f \notin {"ok", "lockable"}
      <4>1. f \in DOMAIN Cleared \cup {"pos", "ps", "lockable"} BY <3>3 DEF DFields
      <4>2. ASSUME NEW x PROVE InProgress(x)[f] = Cleared[f] BY <2>3, <3>3, <4>1, Zenon DEF InProgress
      <4> QED BY <4>2 DEF p2, p
    <3> QED BY <3>1, <3>2, <3>3
  <2> QED BY <2>1, <2>2, <2>3
<1> HIDE DEF p, p2
<1>5. /\ DOMAIN q = DFields /\ q.pos = p.pos - h.by /\ q.left = p.left - h.less /\ q.ps = MovedPrefixes(p.ps, h)
      /\ \A f \in DFields : f \notin Places => q[f] = p[f]
  BY <1>2, DFieldsLemma DEF Moved, Places
<1> HIDE DEF q
<1>6. \A f \in DFields : p2[f] = q[f] BY <1>1, <1>2, <1>3, <1>4, <1>5 DEF Places
<1>7. p2 = [f \in DFields |-> p2[f]] /\ q = [f \in DFields |-> q[f]]
  <2>1. \A x : InProgress(x) = [f \in DOMAIN InProgress(x) |-> InProgress(x)[f]] BY Zenon DEF InProgress
  <2>2. q = [f \in DOMAIN q |-> q[f]]
    <3>1. p = [f \in DOMAIN p |-> p[f]] BY <2>1 DEF p
    <3> QED BY <3>1 DEF q, Moved
  <2>3. p2 = [f \in DOMAIN p2 |-> p2[f]] BY <2>1 DEF p2
  <2> QED BY <1>3, <1>5, <2>2, <2>3
<1>8. p2 = q BY <1>6, <1>7
<1> QED BY <1>8 DEF p2, q, p, m

LEMMA InProgressCopies ==
  ASSUME NEW w, NEW b, NEW h \in Moves, Standing(w, b), w.left >= 0
  PROVE  Copies(InProgress([w EXCEPT !.pos = @ + 1]), InProgress([Moved(w, h) EXCEPT !.pos = @ + 1]), b, h)
<1> DEFINE v == [w EXCEPT !.pos = @ + 1]
<1>1. /\ DOMAIN v = WalkFields /\ v.pos = w.pos + 1 /\ v.left = w.left /\ v.ps = w.ps /\ v.ii = w.ii
  BY DEF Standing, WalkFields
<1>2. [Moved(w, h) EXCEPT !.pos = @ + 1] = Moved(v, h)
  <2>1. w.pos \in Int /\ h.by \in Int BY DEF Standing, Moves
  <2>2. (w.pos - h.by) + 1 = (w.pos + 1) - h.by BY <2>1
  <2> QED BY <2>2 DEF Moved, Standing, WalkFields
<1> HIDE DEF v
<1>3. Within(InProgress(v), b)
  <2>1. /\ DOMAIN InProgress(v) = DFields /\ InProgress(v).pos = v.pos
        /\ InProgress(v).left = v.left /\ InProgress(v).ps = v.ps
    BY InProgressLemma
  <2> QED BY <1>1, <2>1 DEF Standing, Within
<1>4. InProgress(Moved(v, h)) = Moved(InProgress(v), h) BY <1>1, InProgressMoved
<1> QED BY <1>2, <1>3, <1>4 DEF Copies, v

LEMMA CompleteTakes ==
  ASSUME NEW c, IsContext(c), NEW c2, NEW b, NEW h, Twin(c, c2, b, h), NEW d, NEW d2, Copies(d, d2, b, h),
         Nearer(b, h), b.start \in Int, b.last \in Int
  PROVE  Takes(d, Complete(c, d, b.last), Complete(c2, d2, h.last), b, h)
<1>1. d2.ok = d.ok BY CopiesLemma
<1>2. CASE ~d.ok BY <1>1, <1>2, TakesNone DEF Complete
<1>3. CASE d.ok
  <2> DEFINE e  == Suffix(c, d)
             e2 == Suffix(c2, d2)
  <2>1. Takes(d, e, e2, b, h) BY SuffixTakes
  <2> HIDE DEF e, e2
  <2>2. Copies(e, Moved(e, h), b, h) BY <2>1 DEF Takes, Copies
  <2>3. Takes(e, Finish(c, e, b.last), Finish(c2, Moved(e, h), h.last), b, h) BY <2>2, FinishTakes
  <2>4. h \in Moves /\ Within(d, b) BY TwinLemma, CopiesLemma
  <2>5. Takes(d, Finish(c, e, b.last), Finish(c2, e2, h.last), b, h) BY <2>1, <2>3, <2>4, TakesThen
  <2> QED BY <1>1, <1>3, <2>5 DEF Complete, e, e2
<1> QED BY <1>2, <1>3

\* What has been decoded is decoded of the copy, if all of it is there.
Follows(w, d, d2, b, h) == d.ok => Within(d, b) /\ d.left <= w.left /\ (d.left >= h.less => d2 = Moved(d, h))

LEMMA OperandsFollow ==
  ASSUME NEW code, NEW code2, NEW b, NEW h, CopyOf(code, code2, b, h), NEW w, Standing(w, b), NEW w2,
         NEW modrm \in 0 .. 255, NEW modrm2, NEW dt \in Modes, Nearer(b, h), b.start \in Int, b.last \in Int,
         w.left >= 0, w.left >= h.less => w2 = Moved(w, h) /\ modrm2 = modrm
  PROVE  Follows(w, DecodeOperands(code, w, modrm, b.last, dt), DecodeOperands(code2, w2, modrm2, h.last, dt), b, h)
<1> DEFINE flags == w.ii.flags
           con(y) == [code |-> y, dt |-> dt, flags |-> flags, modrm |-> modrm,
                      op |-> OpSize(dt, w.ps.decoded, w.ps.vrex, flags), adr |-> AdrSize(dt, w.ps.decoded),
                      jcc |-> w.ii.table = "InstInfos" /\ w.ii.row \in JccRows]
           d     == InProgress([w EXCEPT !.pos = @ + 1])
           m     == Moved(w, h)
           d2    == InProgress([m EXCEPT !.pos = @ + 1])
           types == OperandTypes(w.ii)
           all   == ExtractAll(con(code), d, types)
           all2  == ExtractAll(con(code2), d2, types)
           r     == DecodeOperands(code, w, modrm, b.last, dt)
           r2    == DecodeOperands(code2, w2, modrm2, h.last, dt)
<1>1. h \in Moves /\ h.less \in Int /\ w.left \in Int BY DEF CopyOf, Moves, Standing
<1>2. /\ m.ii = w.ii /\ m.left = w.left - h.less /\ m.ps.decoded = w.ps.decoded /\ m.ps.vrex = w.ps.vrex
  BY StandsLemma DEF Stands
<1>3. IsContext(con(code)) BY ContextLemma DEF IsContext
<1>4. Twin(con(code), con(code2), b, h) BY DEF Twin
<1>5. Copies(d, d2, b, h) BY <1>1, InProgressCopies
<1>6. DecodeOperands(code, w, modrm, b.last, dt)
        = IF w.left < 0 \/ ~ModrmValid(modrm, flags) THEN FailedAt(w) ELSE Complete(con(code), all, b.last)
  BY DEF DecodeOperands
<1>7. DecodeOperands(code2, m, modrm, h.last, dt)
        = IF m.left < 0 \/ ~ModrmValid(modrm, flags) THEN FailedAt(m) ELSE Complete(con(code2), all2, h.last)
  BY <1>2 DEF DecodeOperands
<1> HIDE DEF con, d, d2, types, m, flags
<1>8. Takes(d, all, all2, b, h) BY <1>3, <1>4, <1>5, ExtractAllTakes
<1> HIDE DEF all, all2, r, r2
<1> DEFINE f  == Complete(con(code), all, b.last)
           f2 == Complete(con(code2), all2, h.last)
<1>9. Takes(d, f, f2, b, h)
  <2>1. Copies(all, Moved(all, h), b, h) BY <1>8 DEF Takes, Copies
  <2>2. Takes(all, f, Complete(con(code2), Moved(all, h), h.last), b, h) BY <1>3, <1>4, <2>1, CompleteTakes
  <2>3. Within(d, b) BY <1>5 DEF Copies
  <2> QED BY <1>1, <1>8, <2>2, <2>3, TakesThen
<1> HIDE DEF f, f2
<1>10. d.left = w.left BY InProgressLemma DEF d, Standing, WalkFields
<1>11. ~FailedAt(w).ok BY InProgressLemma
<1>12. r = IF ~ModrmValid(modrm, flags) THEN FailedAt(w) ELSE f BY <1>1, <1>6 DEF r, f
<1>13. CASE ~ModrmValid(modrm, flags) BY <1>11, <1>12, <1>13 DEF Follows, r
<1>14. CASE ModrmValid(modrm, flags)
  <2>1. r = f BY <1>12, <1>14
  <2> SUFFICES ASSUME f.ok PROVE Within(f, b) /\ f.left <= w.left /\ (f.left >= h.less => r2 = Moved(f, h))
    BY <2>1 DEF Follows, r, r2
  <2>2. Within(f, b) /\ f.left \in Int /\ f.left <= w.left BY <1>9, <1>10 DEF Takes, Within
  <2>3. ASSUME f.left >= h.less PROVE r2 = Moved(f, h)
    <3>1. w.left >= h.less BY <1>1, <2>2, <2>3
    <3>2. w2 = m /\ modrm2 = modrm BY <3>1 DEF m
    <3>3. ~(m.left < 0) BY <1>1, <1>2, <3>1
    <3>4. r2 = f2 BY <1>7, <1>14, <3>2, <3>3 DEF r2, f2
    <3> QED BY <1>9, <2>3, <3>4 DEF Takes, Whole
  <2> QED BY <2>2, <2>3
<1> QED BY <1>13, <1>14

LEMMA RexOverOpSizeMoved ==
  ASSUME NEW ps, NEW h, DOMAIN ps = PsFields
  PROVE  RexOverOpSize(MovedPrefixes(ps, h)) = MovedPrefixes(RexOverOpSize(ps), h)
<1> DEFINE m == MovedPrefixes(ps, h)
<1>1. m.ext = ps.ext /\ m.decoded = ps.decoded /\ m.mandatory66 = ps.mandatory66 /\ m.vrex = ps.vrex
  BY MovedPrefixesLemma
<1>2. DOMAIN Drop(ps, {"OP_SIZE"}) = PsFields BY DEF Drop
<1>3. Drop(m, {"OP_SIZE"}) = MovedPrefixes(Drop(ps, {"OP_SIZE"}), h) BY MovedNotedLemma
<1>4. Ignore(Drop(m, {"OP_SIZE"}), "OP_SIZE") = MovedPrefixes(Ignore(Drop(ps, {"OP_SIZE"}), "OP_SIZE"), h)
  BY <1>2, <1>3, MovedNotedLemma
<1> HIDE DEF m
<1>5. RexOverOpSize(m) = MovedPrefixes(RexOverOpSize(ps), h) BY <1>1, <1>4 DEF RexOverOpSize, m
<1> QED BY <1>5 DEF m

LEMMA PsStands ==
  ASSUME NEW w, NEW b, NEW h, Standing(w, b), NEW ps, IsPrefixes(ps, b.start, b.last)
  PROVE  /\ Stands([w EXCEPT !.ps = ps], [Moved(w, h) EXCEPT !.ps = MovedPrefixes(ps, h)], b, h)
         /\ [w EXCEPT !.ps = ps].left = w.left /\ [w EXCEPT !.ps = ps].ii = w.ii
<1>1. Standing([w EXCEPT !.ps = ps], b) BY WalkPsLemma
<1>2. [Moved(w, h) EXCEPT !.ps = MovedPrefixes(ps, h)] = Moved([w EXCEPT !.ps = ps], h)
  BY DEF Moved, Standing, WalkFields
<1> QED BY <1>1, <1>2 DEF Stands, Standing, WalkFields

LEMMA RowFollows ==
  ASSUME NEW code \in Seq(0 .. 255), NEW code2, NEW b, NEW h, CopyOf(code, code2, b, h), NEW v, Ended(v, b),
         NEW v2, Agree(v, v2, h), NEW dt \in Modes, Nearer(b, h), b.start \in Nat, b.last \in Nat,
         b.from = b.last + 1, b.end = Len(code)
  PROVE  Follows(v, DecodeRow(code, v, b.last, dt), DecodeRow(code2, v2, h.last, dt), b, h)
<1> DEFINE flags == v.ii.flags
           opened(x)   == [x EXCEPT !.ps = RexOverOpSize(@)]
           at(x)       == AtModrm(x, flags)
           modrm(y, x) == IF "MODRM_REQUIRED" \in flags THEN Byte(y, x) ELSE 0
           r  == DecodeRow(code, v, b.last, dt)
           r2 == DecodeRow(code2, v2, h.last, dt)
<1>1. CASE v.ii = Null \/ ~ValidIn(flags, dt)
  <2>1. r = FailedAt(v) BY <1>1 DEF DecodeRow
  <2> QED BY <2>1, InProgressLemma DEF Follows
<1>2. CASE ~(v.ii = Null \/ ~ValidIn(flags, dt))
  <2> DEFINE t  == opened(v)
             t2 == opened(Moved(v, h))
             w  == at(t)
             w2 == at(t2)
  <2>1. Standing(v, b) /\ v.left >= 0 /\ h \in Moves /\ h.less \in Int BY <1>2 DEF Ended, CopyOf, Moves
  <2>2. Stands(t, t2, b, h) /\ t.left = v.left
    <3> DEFINE q == RexOverOpSize(v.ps)
    <3>1. IsPrefixes(q, b.start, b.last) BY <2>1, NotedLemma DEF Standing, RexOverOpSize
    <3>3. DOMAIN v.ps = PsFields /\ Moved(v, h).ps = MovedPrefixes(v.ps, h)
      BY <2>1, StandsLemma DEF Stands
    <3>4. RexOverOpSize(Moved(v, h).ps) = MovedPrefixes(q, h) BY <3>3, RexOverOpSizeMoved
    <3>5. t = [v EXCEPT !.ps = q] /\ t2 = [Moved(v, h) EXCEPT !.ps = MovedPrefixes(q, h)] BY <3>4
    <3> HIDE DEF q, t, t2
    <3> QED BY <2>1, <3>1, <3>5, PsStands
  <2> HIDE DEF t, t2
  <2>3. Stands(w, w2, b, h) /\ (w.left = t.left \/ w.left = t.left - 1)
    BY <2>1, <2>2, EatStands DEF AtModrm
  <2> HIDE DEF w, w2
  <2>4. Standing(w, b) /\ w.left \in Int /\ v.left \in Int /\ w.left <= v.left
    BY <2>1, <2>2, <2>3 DEF Stands, Standing
  <2> DEFINE q  == DecodeOperands(code, w, modrm(code, w), b.last, dt)
             q2 == DecodeOperands(code2, w2, modrm(code2, w2), h.last, dt)
  <2>5. r = q BY <1>2 DEF DecodeRow, w, t
  <2>6. v2 = Moved(v, h) => r2 = q2
    <3>1. v2 = Moved(v, h) => v2.ii = v.ii BY <2>1, StandsLemma DEF Stands
    <3> QED BY <1>2, <3>1 DEF DecodeRow, w2, t2
  <2> HIDE DEF r, r2
  <2>7. CASE w.left < 0
    <3>1. q = FailedAt(w) BY <2>7 DEF DecodeOperands
    <3>2. ~r.ok BY <2>5, <3>1, InProgressLemma
    <3> QED BY <3>2 DEF Follows, r
  <2>8. CASE ~(w.left < 0)
    <3>1. w.left >= 0 BY <2>4, <2>8
    <3>2. modrm(code, w) \in 0 .. 255
      <4>1. w.pos \in Int /\ w.pos >= b.last /\ w.left \in Nat /\ w.pos + 1 + w.left = Len(code)
        BY <2>4, <3>1 DEF Standing
      <4>2. w.pos + 1 \in 1 .. Len(code) BY <4>1
      <4>3. code[w.pos + 1] \in 0 .. 255
        <5> DEFINE k == w.pos + 1
        <5> HIDE DEF k
        <5>1. k \in 1 .. Len(code) BY <4>2 DEF k
        <5>2. code[k] \in 0 .. 255 BY <5>1, ElementOfSeq
        <5> QED BY <5>2 DEF k
      <4> QED BY <4>3 DEF Byte
    <3>3. w.left >= h.less => modrm(code2, w2) = modrm(code, w) BY <2>3, <3>1, ByteStands
    <3>4. w2 = Moved(w, h) BY <2>3 DEF Stands
    <3> HIDE DEF modrm
    <3>5. Follows(w, q, q2, b, h)
      <4> DEFINE m  == modrm(code, w)
                 m2 == modrm(code2, w2)
      <4>1. m \in 0 .. 255 /\ (w.left >= h.less => w2 = Moved(w, h) /\ m2 = m) BY <3>2, <3>3, <3>4
      <4>2. b.start \in Int /\ b.last \in Int /\ Standing(w, b) BY <2>4
      <4> HIDE DEF m, m2
      <4>3. Follows(w, DecodeOperands(code, w, m, b.last, dt), DecodeOperands(code2, w2, m2, h.last, dt), b, h)
        BY <3>1, <4>1, <4>2, OperandsFollow
      <4> QED BY <4>3 DEF m, m2
    <3> HIDE DEF q, q2
    <3>6. ASSUME q.ok PROVE Within(q, b) /\ q.left <= v.left /\ (q.left >= h.less => r2 = Moved(q, h))
      <4>1. Within(q, b) /\ q.left \in Int /\ q.left <= w.left /\ (q.left >= h.less => q2 = Moved(q, h))
        BY <3>5, <3>6 DEF Follows, Within
      <4>2. q.left <= v.left BY <2>4, <4>1
      <4>3. q.left >= h.less => v.left >= h.less BY <2>1, <2>4, <4>1, <4>2
      <4>4. v.left >= h.less => v2 = Moved(v, h) BY <1>2 DEF Agree
      <4> QED BY <2>6, <4>1, <4>2, <4>3, <4>4
    <3> QED BY <2>5, <3>6 DEF Follows, r, r2
  <2> QED BY <2>7, <2>8
<1> QED BY <1>1, <1>2

-----------------------------------------------------------------------------
(* The whole of decode_inst, from the same prefixes.                       *)

\* The REX prefix is noted where it stands, in both codes.
RexThere(ps, h) == "REX" \in ps.decoded => ps.rexPos \in Int /\ h.rexPos = ps.rexPos - h.by

LEMMA EffectiveMoved ==
  ASSUME NEW ps, NEW b, NEW h \in Moves, IsPrefixes(ps, b.start, b.last), b.last \in Int, Nearer(b, h), RexThere(ps, h), NEW dt
  PROVE  /\ Effective(MovedPrefixes(ps, h), dt) = MovedPrefixes(Effective(ps, dt), h)
         /\ Effective(ps, dt).decoded \subseteq ps.decoded /\ Effective(ps, dt).vexPos = ps.vexPos
<1> DEFINE m == MovedPrefixes(ps, h)
           rexed(x)   == Ignore([Drop(x, {"REX"}) EXCEPT !.ext = "NONE"], "REX")
           rexless(x) == IF Misplaced(x) THEN rexed(x) ELSE x
           seg(x)     == Ignore(Drop(x, Segments32), "SEG")
<1>1. DOMAIN ps = PsFields /\ ps.last = b.last /\ h.by \in Int BY DEF IsPrefixes, Moves
<1>2. m.decoded = ps.decoded /\ m.last = h.last /\ m.rexPos = h.rexPos BY <1>1, MovedPrefixesLemma
<1>3. Misplaced(m) = Misplaced(ps)
  <2>1. CASE "REX" \notin ps.decoded BY <1>2, <2>1 DEF Misplaced
  <2>2. CASE "REX" \in ps.decoded
    <3>1. m.rexPos = ps.rexPos - h.by /\ m.last = ps.last - h.by /\ ps.rexPos \in Int /\ ps.last \in Int
      BY <1>1, <1>2, <2>2 DEF RexThere, Nearer
    <3>2. (m.rexPos # m.last - 1) = (ps.rexPos # ps.last - 1) BY <1>1, <3>1
    <3> QED BY <1>2, <3>2 DEF Misplaced
  <2> QED BY <2>1, <2>2
<1>4. ASSUME NEW x, DOMAIN x = PsFields
      PROVE  /\ rexed(MovedPrefixes(x, h)) = MovedPrefixes(rexed(x), h) /\ DOMAIN rexed(x) = PsFields
             /\ rexed(x).decoded \subseteq x.decoded /\ rexed(x).vexPos = x.vexPos
  <2> DEFINE y  == Drop(x, {"REX"})
             y2 == Drop(MovedPrefixes(x, h), {"REX"})
             z  == [y EXCEPT !.ext = "NONE"]
             z2 == [y2 EXCEPT !.ext = "NONE"]
  <2>1. y2 = MovedPrefixes(y, h) BY <1>4, MovedNotedLemma
  <2>2. DOMAIN y = PsFields /\ y.decoded \subseteq x.decoded /\ y.vexPos = x.vexPos BY <1>4 DEF Drop, PsFields
  <2> HIDE DEF y, y2
  <2>3. z2 = MovedPrefixes(z, h) /\ DOMAIN z = PsFields /\ z.decoded = y.decoded /\ z.vexPos = y.vexPos
    BY <2>1, <2>2 DEF MovedPrefixes, PsFields
  <2> HIDE DEF z, z2
  <2>4. Ignore(z2, "REX") = MovedPrefixes(Ignore(z, "REX"), h) BY <2>3, MovedNotedLemma
  <2>5. DOMAIN Ignore(z, "REX") = PsFields /\ Ignore(z, "REX").decoded = z.decoded /\ Ignore(z, "REX").vexPos = z.vexPos
    BY <2>3 DEF Ignore, IgnoreOf, PsFields
  <2> QED BY <2>2, <2>3, <2>4, <2>5 DEF z, z2, y, y2
<1>5. ASSUME NEW x, DOMAIN x = PsFields
      PROVE  /\ seg(MovedPrefixes(x, h)) = MovedPrefixes(seg(x), h)
             /\ seg(x).decoded \subseteq x.decoded /\ seg(x).vexPos = x.vexPos
  <2> DEFINE y  == Drop(x, Segments32)
             y2 == Drop(MovedPrefixes(x, h), Segments32)
  <2>1. y2 = MovedPrefixes(y, h) BY <1>5, MovedNotedLemma
  <2>2. DOMAIN y = PsFields /\ y.decoded \subseteq x.decoded /\ y.vexPos = x.vexPos BY <1>5 DEF Drop, PsFields
  <2> HIDE DEF y, y2
  <2>3. Ignore(y2, "SEG") = MovedPrefixes(Ignore(y, "SEG"), h) BY <2>1, <2>2, MovedNotedLemma
  <2>4. Ignore(y, "SEG").decoded = y.decoded /\ Ignore(y, "SEG").vexPos = y.vexPos
    BY <2>2 DEF Ignore, IgnoreOf, PsFields
  <2> QED BY <2>2, <2>3, <2>4 DEF y, y2
<1> HIDE DEF rexed, seg
<1>6. /\ rexless(m) = MovedPrefixes(rexless(ps), h) /\ DOMAIN rexless(ps) = PsFields
      /\ rexless(ps).decoded \subseteq ps.decoded /\ rexless(ps).vexPos = ps.vexPos
  BY <1>1, <1>3, <1>4
<1> DEFINE r == rexless(ps)
           f(x, y) == IF dt # 64 THEN x ELSE IF y.decoded \cap Segments32 = {} THEN y ELSE seg(y)
<1>7. Effective(ps, dt) = f(ps, r) /\ Effective(m, dt) = f(m, rexless(m)) BY DEF Effective, rexed, seg
<1> HIDE DEF m, rexless, r
<1>8. rexless(m) = MovedPrefixes(r, h) /\ DOMAIN r = PsFields /\ r.decoded \subseteq ps.decoded /\ r.vexPos = ps.vexPos
  BY <1>6 DEF r
<1>9. MovedPrefixes(r, h).decoded = r.decoded BY <1>8, MovedPrefixesLemma
<1>10. seg(MovedPrefixes(r, h)) = MovedPrefixes(seg(r), h) /\ seg(r).decoded \subseteq r.decoded /\ seg(r).vexPos = r.vexPos
  BY <1>5, <1>8
<1>11. f(m, rexless(m)) = MovedPrefixes(f(ps, r), h) BY <1>8, <1>9, <1>10 DEF m
<1>12. f(ps, r).decoded \subseteq ps.decoded /\ f(ps, r).vexPos = ps.vexPos BY <1>8, <1>10
<1> QED BY <1>7, <1>11, <1>12 DEF m

\* An instruction after its prefixes ps, with `rest' bytes to the end, in both codes.
Copied(code, code2, b, h, ps, rest, dt) ==
  /\ code \in Seq(0 .. 255) /\ CopyOf(code, code2, b, h) /\ dt \in Modes
  /\ b.start \in Nat /\ b.last \in Nat /\ b.from = b.last + 1 /\ b.end = Len(code)
  /\ rest \in Int /\ b.last + rest = b.end
  /\ IsPrefixes(ps, b.start, b.last) /\ Nearer(b, h) /\ RexThere(ps, h) /\ VexThere(ps, b.last, b, h)

LEMMA DecodeFollows ==
  \A code, code2, b, h, ps, rest, rest2, dt : Copied(code, code2, b, h, ps, rest, dt) /\ rest2 = rest - h.less =>
    LET d  == Decode(code, b.last, rest, Effective(ps, dt), dt)
        d2 == Decode(code2, h.last, rest2, Effective(MovedPrefixes(ps, h), dt), dt)
    IN  /\ d.ok => Within(d, b) /\ (d.left >= h.less => d2 = Moved(d, h))
        /\ Made(d, b)
<1> TAKE code, code2, b, h, ps, rest, rest2, dt
<1> HAVE Copied(code, code2, b, h, ps, rest, dt) /\ rest2 = rest - h.less
<1>0. /\ code \in Seq(0 .. 255) /\ CopyOf(code, code2, b, h) /\ dt \in Modes
      /\ b.start \in Nat /\ b.last \in Nat /\ b.from = b.last + 1 /\ b.end = Len(code)
      /\ rest \in Int /\ b.last + rest = b.end
      /\ IsPrefixes(ps, b.start, b.last) /\ Nearer(b, h) /\ RexThere(ps, h) /\ VexThere(ps, b.last, b, h)
  BY DEF Copied
<1> DEFINE e  == Effective(ps, dt)
           e2 == Effective(MovedPrefixes(ps, h), dt)
           v  == Lookup(code, b.last, rest, e, dt)
           v2 == Lookup(code2, b.last - h.by, rest - h.less, e2, dt)
<1>1. h \in Moves BY <1>0 DEF CopyOf
<1>2. e2 = MovedPrefixes(e, h) /\ e.decoded \subseteq ps.decoded /\ e.vexPos = ps.vexPos BY <1>0, <1>1, EffectiveMoved
<1>3. IsPrefixes(e, b.start, b.last) BY <1>0, EffectiveLemma
<1> HIDE DEF e, e2
<1>4. VexThere(e, b.last, b, h) BY <1>0, <1>2 DEF VexThere
<1>5. Ended(v, b) BY <1>0, <1>3, LookupLemma
<1>6. Agree(v, v2, h) BY <1>0, <1>2, <1>3, <1>4, LookupReaches
<1> HIDE DEF v, v2
<1> DEFINE r == DecodeRow(code, v, b.last, dt)
<1>7. Follows(v, r, DecodeRow(code2, v2, h.last, dt), b, h) BY <1>0, <1>5, <1>6, RowFollows
<1>8. Made(r, b) BY <1>0, <1>5, DecodeRowLemma
<1>9. h.last = b.last - h.by BY <1>0 DEF Nearer
<1>10. Decode(code, b.last, rest, e, dt) = r BY DEF Decode, v
<1>11. Decode(code2, h.last, rest2, e2, dt) = DecodeRow(code2, v2, h.last, dt) BY <1>9 DEF Decode, v2
<1> HIDE DEF r
<1> QED BY <1>7, <1>8, <1>10, <1>11 DEF Follows, e, e2

-----------------------------------------------------------------------------
(* The prefixes of an instruction are the prefixes of its own bytes.       *)

\* Where the prefixes of the instruction at `at' are, seen from there.
Offset(p, at) == IF p = None THEN None ELSE p - at
Home(ps, at) == [by |-> at, less |-> 0, start |-> ps.start - at, last |-> ps.last - at,
                 rexPos |-> Offset(ps.rexPos, at), vexPos |-> Offset(ps.vexPos, at)]
AtHome(ps, at) == MovedPrefixes(ps, Home(ps, at))

Record(ps) == ps = [field \in PsFields |-> ps[field]]

LEMMA RecordLemma ==
  ASSUME NEW ps, Record(ps)
  PROVE  DOMAIN ps = PsFields /\ \A field, v : Record([ps EXCEPT ![field] = v])
<1>1. DOMAIN ps = PsFields BY DEF Record
<1>2. ASSUME NEW field, NEW v PROVE Record([ps EXCEPT ![field] = v]) BY <1>1, Zenon DEF Record
<1> QED BY <1>1, <1>2

LEMMA RecordsEqual ==
  ASSUME NEW x, NEW y, Record(x), Record(y), \A field \in PsFields : x[field] = y[field]
  PROVE  x = y
BY DEF Record

LEMMA HomeLemma ==
  ASSUME NEW ps, NEW at, Record(ps)
  PROVE  /\ Record(AtHome(ps, at))
         /\ AtHome(ps, at).start = ps.start - at /\ AtHome(ps, at).last = ps.last - at
         /\ AtHome(ps, at).rexPos = Offset(ps.rexPos, at) /\ AtHome(ps, at).vexPos = Offset(ps.vexPos, at)
         /\ \A field \in PsFields \ {"start", "last", "rexPos", "vexPos"} : AtHome(ps, at)[field] = ps[field]
<1> DEFINE h == Home(ps, at)
           m == AtHome(ps, at)
<1>1. h.start = ps.start - at /\ h.last = ps.last - at /\ h.rexPos = Offset(ps.rexPos, at) /\ h.vexPos = Offset(ps.vexPos, at)
  BY DEF Home
<1> HIDE DEF h
<1>2. m = [[[[ps EXCEPT !.start = h.start] EXCEPT !.last = h.last] EXCEPT !.rexPos = h.rexPos] EXCEPT !.vexPos = h.vexPos]
  BY DEF AtHome, MovedPrefixes, h
<1>3. DOMAIN ps = PsFields BY RecordLemma
<1>4. Record(m)
  <2> DEFINE p1 == [ps EXCEPT !.start = h.start]
             p2 == [p1 EXCEPT !.last = h.last]
             p3 == [p2 EXCEPT !.rexPos = h.rexPos]
             p4 == [p3 EXCEPT !.vexPos = h.vexPos]
  <2>1. Record(p1) BY RecordLemma
  <2> HIDE DEF p1
  <2>2. Record(p2) BY <2>1, RecordLemma
  <2> HIDE DEF p2
  <2>3. Record(p3) BY <2>2, RecordLemma
  <2> HIDE DEF p3
  <2>4. Record(p4) BY <2>3, RecordLemma
  <2> QED BY <1>2, <2>4 DEF p1, p2, p3, p4
<1> HIDE DEF m
<1>5. m.start = h.start /\ m.last = h.last /\ m.rexPos = h.rexPos /\ m.vexPos = h.vexPos BY <1>2, <1>3 DEF PsFields
<1>6. \A field \in PsFields \ {"start", "last", "rexPos", "vexPos"} : m[field] = ps[field] BY <1>2, <1>3
<1> QED BY <1>1, <1>4, <1>5, <1>6 DEF m

\* While the loop of prefixes_decode runs.
Scanning(ps, at) ==
  /\ Record(ps) /\ ps.start = at /\ ps.last = at /\ ps.vexPos = None /\ "VEX" \notin ps.decoded
  /\ ps.rexPos = None \/ (ps.rexPos \in Nat /\ ps.rexPos >= at)
  /\ "REX" \in ps.decoded => ps.rexPos # None

LEMMA PrefixName == \A byte \in DOMAIN LegacyPrefix \cup Rexes : PrefixOf(byte) # "VEX"
<1>1. "VEX" \notin DOMAIN PrefixByte BY DEF PrefixByte
<1>2. ASSUME NEW byte \in DOMAIN LegacyPrefix PROVE LegacyPrefix[byte] \in DOMAIN PrefixByte
  <2>1. byte \in Range(PrefixByte) BY DEF LegacyPrefix
  <2>2. \E prefix \in DOMAIN PrefixByte : PrefixByte[prefix] = byte BY <2>1 DEF Range
  <2>3. LegacyPrefix[byte] = CHOOSE prefix \in DOMAIN PrefixByte : PrefixByte[prefix] = byte BY <2>1, Zenon DEF LegacyPrefix
  <2> QED BY <2>2, <2>3
<1> QED BY <1>1, <1>2 DEF PrefixOf

LEMMA NoPrefixesHome ==
  ASSUME NEW at \in Nat
  PROVE  Scanning(NoPrefixes(at), at) /\ NoPrefixes(0) = AtHome(NoPrefixes(at), at)
<1> DEFINE p  == NoPrefixes(at)
           p0 == NoPrefixes(0)
<1>1. Record(p) /\ Record(p0)
  <2> SUFFICES \A a : Record(NoPrefixes(a)) OBVIOUS
  <2> QED BY DEF NoPrefixes, PsFields, Record
<1>2. /\ p.start = at /\ p.last = at /\ p.rexPos = None /\ p.vexPos = None /\ p.decoded = {}
      /\ p0.start = 0 /\ p0.last = 0 /\ p0.rexPos = None /\ p0.vexPos = None
      /\ \A field \in PsFields \ {"start", "last"} : p0[field] = p[field]
  <2> DEFINE every == [pi \in Indexers |-> None]
             rest(a) == [start |-> a, last |-> a, decoded |-> {}, used |-> {}, rexPos |-> None, vexPos |-> None,
                         ext |-> "NONE", unused |-> {}, mandatory66 |-> FALSE, vexV |-> 0, vrex |-> {}, at |-> every]
  <2>1. p = rest(at) /\ p0 = rest(0) BY DEF NoPrefixes
  <2>2. /\ rest(at).start = at /\ rest(at).last = at /\ rest(at).rexPos = None /\ rest(at).vexPos = None
        /\ rest(at).decoded = {} /\ rest(0).start = 0 /\ rest(0).last = 0 /\ rest(0).rexPos = None /\ rest(0).vexPos = None
    OBVIOUS
  <2>3. /\ rest(0).decoded = rest(at).decoded /\ rest(0).used = rest(at).used /\ rest(0).ext = rest(at).ext
        /\ rest(0).unused = rest(at).unused /\ rest(0).mandatory66 = rest(at).mandatory66 /\ rest(0).vexV = rest(at).vexV
        /\ rest(0).vrex = rest(at).vrex /\ rest(0).at = rest(at).at
    OBVIOUS
  <2> HIDE DEF every, p, p0, rest
  <2>4. \A field \in PsFields \ {"start", "last"} : rest(0)[field] = rest(at)[field]
    BY <2>2, <2>3 DEF PsFields
  <2> QED BY <2>1, <2>2, <2>4
<1> HIDE DEF p, p0
<1>3. Scanning(p, at) BY <1>1, <1>2 DEF Scanning
<1> DEFINE m == AtHome(p, at)
<1>4. /\ Record(m) /\ m.start = 0 /\ m.last = 0 /\ m.rexPos = None /\ m.vexPos = None
      /\ \A field \in PsFields \ {"start", "last", "rexPos", "vexPos"} : m[field] = p[field]
  BY <1>1, <1>2, HomeLemma DEF Offset
<1> HIDE DEF m
<1>5. \A field \in PsFields : p0[field] = m[field] BY <1>2, <1>4
<1>6. p0 = m BY <1>1, <1>4, <1>5, RecordsEqual
<1> QED BY <1>3, <1>6 DEF p, p0, m

\* What is changed of the prefixes but where they are.
Put(ps, field, v) == [ps EXCEPT ![field] = v]
Elsewhere == PsFields \ {"start", "last", "rexPos", "vexPos"}
LEMMA HomeField ==
  \A at, ps, v : \A field \in Elsewhere : Record(ps) =>
    Put(AtHome(ps, at), field, v) = AtHome(Put(ps, field, v), at) /\ Record(Put(ps, field, v))
<1> SUFFICES ASSUME NEW at, NEW ps, NEW v, NEW field \in Elsewhere, Record(ps)
             PROVE  Put(AtHome(ps, at), field, v) = AtHome(Put(ps, field, v), at) /\ Record(Put(ps, field, v))
  OBVIOUS
<1> USE DEF Elsewhere
<1> DEFINE p == [ps EXCEPT ![field] = v]
           m == AtHome(ps, at)
           x == [m EXCEPT ![field] = v]
           y == AtHome(p, at)
<1>1. DOMAIN ps = PsFields /\ Record(p) /\ Record(m) /\ DOMAIN m = PsFields BY RecordLemma, HomeLemma
<1>2. Record(x) BY <1>1, RecordLemma
<1>3. p.start = ps.start /\ p.last = ps.last /\ p.rexPos = ps.rexPos /\ p.vexPos = ps.vexPos
  BY <1>1 DEF PsFields
<1> HIDE DEF p, m
<1>4. /\ Record(y) /\ y.start = m.start /\ y.last = m.last /\ y.rexPos = m.rexPos /\ y.vexPos = m.vexPos
      /\ \A f \in PsFields \ {"start", "last", "rexPos", "vexPos"} : y[f] = p[f] /\ m[f] = ps[f]
  BY <1>1, <1>3, HomeLemma DEF m
<1> HIDE DEF y
<1>5. ASSUME NEW f \in PsFields PROVE x[f] = y[f]
  <2>1. CASE f \in {"start", "last", "rexPos", "vexPos"}
    <3>1. x[f] = m[f] BY <1>1, <2>1
    <3> QED BY <1>4, <2>1, <3>1
  <2>2. CASE f \notin {"start", "last", "rexPos", "vexPos"}
    <3>1. x[f] = p[f]
      <4>1. m[f] = ps[f] BY <1>4, <2>2
      <4> QED BY <1>1, <4>1 DEF p
    <3> QED BY <1>4, <2>2, <3>1
  <2> QED BY <2>1, <2>2
<1> HIDE DEF x
<1>6. x = y BY <1>2, <1>4, <1>5, RecordsEqual
<1> QED BY <1>1, <1>6 DEF x, y, m, p, Put

LEMMA TrackHome ==
  ASSUME NEW at, NEW x, Record(x), NEW index, NEW pi
  PROVE  LET y == TrackUnused(x, index, pi)
         IN  /\ TrackUnused(AtHome(x, at), index, pi) = AtHome(y, at)
             /\ Record(y) /\ y.start = x.start /\ y.last = x.last /\ y.rexPos = x.rexPos /\ y.vexPos = x.vexPos
             /\ y.decoded = x.decoded
<1> DEFINE m == AtHome(x, at)
           more(z) == z.unused \cup {z.at[i] : i \in {j \in {pi} : z.at[j] # None}}
           u == [x EXCEPT !.unused = more(x)]
           y == [u EXCEPT !.at = [u.at EXCEPT ![pi] = index]]
<1>1. m.unused = x.unused /\ m.at = x.at BY HomeLemma DEF PsFields
<1>2. more(m) = more(x) BY <1>1
<1>3. Ignore(x, pi) = u BY DEF Ignore, IgnoreOf
<1>4. Ignore(m, pi) = [m EXCEPT !.unused = more(m)] BY DEF Ignore, IgnoreOf
<1> HIDE DEF more
<1>5. [m EXCEPT !.unused = more(x)] = AtHome(u, at) /\ Record(u)
  <2>1. Put(m, "unused", more(x)) = AtHome(Put(x, "unused", more(x)), at) /\ Record(Put(x, "unused", more(x)))
    <3>1. "unused" \in Elsewhere BY DEF Elsewhere, PsFields
    <3> QED BY <3>1, HomeField, Zenon
  <2> QED BY <2>1 DEF Put
<1>6. DOMAIN x = PsFields BY RecordLemma
<1>7. u.start = x.start /\ u.last = x.last /\ u.rexPos = x.rexPos /\ u.vexPos = x.vexPos /\ u.decoded = x.decoded
  BY <1>6 DEF PsFields
<1> DEFINE w == AtHome(u, at)
<1>9. TrackUnused(x, index, pi) = y BY <1>3 DEF TrackUnused
<1>10. Ignore(m, pi) = w BY <1>2, <1>4, <1>5
<1>11. TrackUnused(m, index, pi) = [w EXCEPT !.at = [w.at EXCEPT ![pi] = index]] BY <1>10 DEF TrackUnused
<1> HIDE DEF u, w, m
<1> DEFINE v == [u.at EXCEPT ![pi] = index]
<1> HIDE DEF v
<1>8. w.at = u.at
  <2>1. Record(u) BY <1>5
  <2> QED BY <2>1, HomeLemma DEF PsFields, w
<1>12. [w EXCEPT !.at = v] = AtHome([u EXCEPT !.at = v], at) /\ Record([u EXCEPT !.at = v])
  <2>1. Record(u) /\ "at" \in Elsewhere BY <1>5 DEF Elsewhere, PsFields
  <2>2. Put(w, "at", v) = AtHome(Put(u, "at", v), at) /\ Record(Put(u, "at", v)) BY <2>1, HomeField, Zenon DEF w
  <2> QED BY <2>2 DEF Put
<1>13. DOMAIN u = PsFields BY <1>5, RecordLemma
<1>14. y = [u EXCEPT !.at = v] BY DEF v
<1>15. TrackUnused(m, index, pi) = [w EXCEPT !.at = v] BY <1>8, <1>11 DEF v
<1> HIDE DEF y
<1>16. y.start = u.start /\ y.last = u.last /\ y.rexPos = u.rexPos /\ y.vexPos = u.vexPos /\ y.decoded = u.decoded
  BY <1>13, <1>14 DEF PsFields
<1> QED BY <1>7, <1>9, <1>12, <1>14, <1>15, <1>16 DEF m

\* Where something is.
Placing == {"last", "rexPos", "vexPos"}
LEMMA PlaceHome ==
  \A at, x, p, q : \A field \in Placing : Record(x) /\ p # None /\ q = p - at =>
    Put(AtHome(x, at), field, q) = AtHome(Put(x, field, p), at) /\ Record(Put(x, field, p))
<1> SUFFICES ASSUME NEW at, NEW x, Record(x), NEW field \in Placing, NEW p, p # None, NEW q, q = p - at
             PROVE  Put(AtHome(x, at), field, q) = AtHome(Put(x, field, p), at) /\ Record(Put(x, field, p))
  OBVIOUS
<1> USE DEF Placing
<1> DEFINE m == AtHome(x, at)
           y == [x EXCEPT ![field] = p]
           l == [m EXCEPT ![field] = q]
           r == AtHome(y, at)
           Moving == {"start", "last", "rexPos", "vexPos"}
           shifted(f, v) == IF f \in {"start", "last"} THEN v - at ELSE Offset(v, at)
<1>1. DOMAIN x = PsFields /\ Record(y) /\ Record(m) /\ DOMAIN m = PsFields BY RecordLemma, HomeLemma
<1>2. Record(l) BY <1>1, RecordLemma
<1>3. \A f \in PsFields : y[f] = IF f = field THEN p ELSE x[f] BY <1>1
<1>4. \A f \in PsFields : l[f] = IF f = field THEN q ELSE m[f] BY <1>1
<1> HIDE DEF y, l
<1>5. ASSUME NEW z, Record(z)
      PROVE  /\ Record(AtHome(z, at))
             /\ \A f \in Moving : AtHome(z, at)[f] = shifted(f, z[f])
             /\ \A f \in PsFields \ Moving : AtHome(z, at)[f] = z[f]
  BY <1>5, HomeLemma
<1>6. \A f \in Moving : m[f] = shifted(f, x[f]) BY <1>5
<1>7. \A f \in PsFields \ Moving : m[f] = x[f] BY <1>5
<1>8. \A f \in Moving : r[f] = shifted(f, y[f]) BY <1>1, <1>5
<1>9. Record(r) /\ \A f \in PsFields \ Moving : r[f] = y[f] BY <1>1, <1>5
<1>10. shifted(field, p) = q BY DEF Offset
<1> HIDE DEF r, m, shifted
<1>11. Moving \subseteq PsFields /\ field \in Moving BY DEF PsFields
<1> HIDE DEF Moving
<1>12. ASSUME NEW f \in PsFields PROVE l[f] = r[f]
  <2>1. CASE f \in Moving
    <3>1. CASE f = field BY <1>3, <1>4, <1>8, <1>10, <2>1, <3>1
    <3>2. CASE f # field BY <1>3, <1>4, <1>6, <1>8, <2>1, <3>2
    <3> QED BY <3>1, <3>2
  <2>2. CASE f \notin Moving BY <1>3, <1>4, <1>7, <1>9, <1>11, <2>2
  <2> QED BY <2>1, <2>2
<1>13. l = r BY <1>2, <1>9, <1>12, RecordsEqual
<1> QED BY <1>1, <1>13 DEF l, r, m, y, Put

\* What a byte says of the prefixes it says of them wherever they are.
LEMMA ScanOneHome ==
  ASSUME NEW at \in Nat, NEW ps, Scanning(ps, at), NEW index \in Nat, NEW byte, PrefixOf(byte) # "VEX"
  PROVE  Scanning(ScanOne(ps, index, byte), at) /\ ScanOne(AtHome(ps, at), index, byte) = AtHome(ScanOne(ps, index, byte), at)
<1> DEFINE m         == AtHome(ps, at)
           prefix    == PrefixOf(byte)
           seen(x)   == [x EXCEPT !.decoded = @ \cup {prefix}]
           vrexed(x) == [x EXCEPT !.vrex = RexBits(byte)]
           placed(x, p) == [x EXCEPT !.rexPos = p]
           rexed(x)  == [x EXCEPT !.ext = "REX"]
           noted(x)  == IF prefix = "REX" THEN rexed(placed(vrexed(seen(x)), x.start + index)) ELSE seen(x)
<1>1. /\ Record(ps) /\ ps.start = at /\ ps.last = at /\ ps.vexPos = None /\ "VEX" \notin ps.decoded
      /\ ps.rexPos = None \/ (ps.rexPos \in Nat /\ ps.rexPos >= at)
      /\ "REX" \in ps.decoded => ps.rexPos # None
  BY DEF Scanning
<1>2. \A x : ScanOne(x, index, byte) = TrackUnused(noted(x), index, IndexerOf(prefix)) BY DEF ScanOne
<1>3. ASSUME NEW x, Record(x)
      PROVE  /\ seen(AtHome(x, at)) = AtHome(seen(x), at) /\ Record(seen(x))
             /\ vrexed(AtHome(x, at)) = AtHome(vrexed(x), at) /\ Record(vrexed(x))
             /\ rexed(AtHome(x, at)) = AtHome(rexed(x), at) /\ Record(rexed(x))
  <2> DEFINE y == AtHome(x, at)
  <2>1. \A z : \A f \in {"decoded", "vrex", "ext"} :
          Put(y, f, z) = AtHome(Put(x, f, z), at) /\ Record(Put(x, f, z))
    <3>1. {"decoded", "vrex", "ext"} \subseteq Elsewhere BY DEF Elsewhere, PsFields
    <3>2. \A z : \A f \in Elsewhere : Put(y, f, z) = AtHome(Put(x, f, z), at) /\ Record(Put(x, f, z))
      BY <1>3, HomeField, Zenon
    <3> QED BY <3>1, <3>2
  <2>2. y.decoded = x.decoded BY <1>3, HomeLemma DEF PsFields
  <2> HIDE DEF y
  <2>3. vrexed(y) = AtHome(vrexed(x), at) /\ Record(vrexed(x))
    <3>1. Put(y, "vrex", RexBits(byte)) = AtHome(Put(x, "vrex", RexBits(byte)), at) /\ Record(Put(x, "vrex", RexBits(byte)))
      BY <2>1
    <3> QED BY <3>1, Zenon DEF Put
  <2>4. rexed(y) = AtHome(rexed(x), at) /\ Record(rexed(x))
    <3>1. Put(y, "ext", "REX") = AtHome(Put(x, "ext", "REX"), at) /\ Record(Put(x, "ext", "REX")) BY <2>1
    <3> QED BY <3>1, Zenon DEF Put
  <2>5. seen(y) = AtHome(seen(x), at) /\ Record(seen(x))
    <3> DEFINE z == x.decoded \cup {prefix}
    <3>1. seen(y) = [y EXCEPT !.decoded = z] /\ seen(x) = [x EXCEPT !.decoded = z] BY <2>2
    <3> HIDE DEF z, seen
    <3>2. Put(y, "decoded", z) = AtHome(Put(x, "decoded", z), at) /\ Record(Put(x, "decoded", z)) BY <2>1
    <3> QED BY <3>1, <3>2 DEF Put
  <2> QED BY <2>3, <2>4, <2>5 DEF y
<1> DEFINE s == seen(ps)
           v == vrexed(s)
           p == placed(v, at + index)
           r == rexed(p)
           n == noted(ps)
<1>4. Record(s) /\ Record(v) /\ seen(m) = AtHome(s, at) /\ vrexed(seen(m)) = AtHome(v, at)
  <2>1. Record(s) /\ seen(m) = AtHome(s, at) BY <1>1, <1>3
  <2> HIDE DEF s, seen, vrexed, m
  <2>2. Record(vrexed(s)) /\ vrexed(AtHome(s, at)) = AtHome(vrexed(s), at) BY <1>3, <2>1
  <2> QED BY <2>1, <2>2 DEF v
<1>5. placed(vrexed(seen(m)), 0 + index) = AtHome(p, at) /\ Record(p)
  <2>1. at + index # None /\ 0 + index = (at + index) - at BY DEF None
  <2> HIDE DEF v, seen, vrexed, m
  <2> DEFINE q == at + index
             k == q - at
  <2> HIDE DEF q
  <2>2. Put(AtHome(v, at), "rexPos", q - at) = AtHome(Put(v, "rexPos", q), at) /\ Record(Put(v, "rexPos", q))
    <3>1. "rexPos" \in Placing BY DEF Placing
    <3> QED BY <1>4, <2>1, <3>1, PlaceHome, Zenon DEF q
  <2> QED BY <1>4, <2>1, <2>2 DEF q, Put
<1>6. rexed(placed(vrexed(seen(m)), 0 + index)) = AtHome(r, at) /\ Record(r)
  <2> HIDE DEF p, placed, rexed, vrexed, seen, m
  <2> QED BY <1>3, <1>5 DEF r
<1>7. DOMAIN ps = PsFields /\ DOMAIN s = PsFields /\ DOMAIN v = PsFields /\ DOMAIN p = PsFields
  <2> HIDE DEF s, v, p
  <2> QED BY <1>1, <1>4, <1>5, RecordLemma
<1>8. /\ s.start = at /\ s.last = at /\ s.vexPos = None /\ s.rexPos = ps.rexPos /\ s.decoded = ps.decoded \cup {prefix}
  BY <1>1, <1>7 DEF PsFields
<1>9. /\ r.start = at /\ r.last = at /\ r.vexPos = None /\ r.rexPos = at + index /\ r.decoded = s.decoded
  <2> HIDE DEF s
  <2>1. v.start = s.start /\ v.last = s.last /\ v.vexPos = s.vexPos /\ v.decoded = s.decoded BY <1>7 DEF PsFields
  <2> HIDE DEF v
  <2>2. p.start = v.start /\ p.last = v.last /\ p.vexPos = v.vexPos /\ p.decoded = v.decoded /\ p.rexPos = at + index
    BY <1>7 DEF PsFields
  <2> HIDE DEF p
  <2>3. r.start = p.start /\ r.last = p.last /\ r.vexPos = p.vexPos /\ r.decoded = p.decoded /\ r.rexPos = p.rexPos
    BY <1>7 DEF PsFields
  <2> QED BY <1>8, <2>1, <2>2, <2>3
<1>10. m.start = 0 BY <1>1, HomeLemma
<1>11. noted(m) = AtHome(n, at) /\ Record(n)
  <2>1. noted(m) = IF prefix = "REX" THEN rexed(placed(vrexed(seen(m)), 0 + index)) ELSE seen(m) BY <1>10
  <2>2. n = IF prefix = "REX" THEN r ELSE s BY <1>1
  <2> HIDE DEF noted, rexed, placed, vrexed, seen, m, n, r, s
  <2> QED BY <1>4, <1>6, <2>1, <2>2
<1>12. Scanning(n, at)
  <2>1. n = IF prefix = "REX" THEN r ELSE s BY <1>1
  <2> HIDE DEF n, r, s
  <2>2. CASE prefix = "REX"
    <3>1. at + index \in Nat /\ at + index >= at /\ at + index # None BY DEF None
    <3> QED BY <1>1, <1>8, <1>9, <1>11, <2>1, <2>2, <3>1 DEF Scanning
  <2>3. CASE prefix # "REX" BY <1>1, <1>8, <1>11, <2>1, <2>3 DEF Scanning
  <2> QED BY <2>2, <2>3
<1> DEFINE pi == IndexerOf(prefix)
           y == TrackUnused(n, index, pi)
<1> HIDE DEF noted, m, n, pi
<1>13. /\ TrackUnused(AtHome(n, at), index, pi) = AtHome(y, at)
       /\ Record(y) /\ y.start = n.start /\ y.last = n.last /\ y.rexPos = n.rexPos /\ y.vexPos = n.vexPos
       /\ y.decoded = n.decoded
  BY <1>11, TrackHome
<1>14. Scanning(y, at)
  <2> HIDE DEF y
  <2> QED BY <1>12, <1>13 DEF Scanning
<1>15. ScanOne(ps, index, byte) = y /\ ScanOne(m, index, byte) = TrackUnused(noted(m), index, pi) BY <1>2 DEF pi, n
<1> QED BY <1>11, <1>13, <1>14, <1>15 DEF m

LEMMA ScansScan ==
  ASSUME NEW code, NEW start, NEW m \in Nat
  PROVE  \E f : Scans(f, code, start, m) /\ Scan(code, start, m) = f[m]
<1> DEFINE f == CHOOSE f : f = [n \in 0 .. m |-> IF n = 0 THEN NoPrefixes(start)
                                                ELSE ScanOne(f[n - 1], n - 1, code[start + n])]
<1>1. Scan(code, start, m) = f[m] BY DEF Scan
<1>2. Scans(f, code, start, m)
  <2>1. PICK h : Scans(h, code, start, m) BY ScansExist
  <2>2. h = [n \in 0 .. m |-> IF n = 0 THEN NoPrefixes(start) ELSE ScanOne(h[n - 1], n - 1, code[start + n])]
    BY <2>1 DEF Scans
  <2> QED BY <2>2 DEF Scans
<1> HIDE DEF f
<1> QED BY <1>1, <1>2

LEMMA ScanHome ==
  ASSUME NEW code, NEW copy, NEW at \in Nat, NEW k \in Nat,
         \A j \in 1 .. k : copy[j] = code[at + j] /\ PrefixOf(code[at + j]) # "VEX"
  PROVE  Scanning(Scan(code, at, k), at) /\ Scan(copy, 0, k) = AtHome(Scan(code, at, k), at)
<1>1. PICK f : Scans(f, code, at, k) /\ Scan(code, at, k) = f[k] BY ScansScan
<1>2. PICK g : Scans(g, copy, 0, k) /\ Scan(copy, 0, k) = g[k] BY ScansScan
<1> DEFINE Good(n) == Scanning(f[n], at) /\ g[n] = AtHome(f[n], at)
           Bad == {n \in 0 .. k : ~Good(n)}
<1>3. SUFFICES ASSUME Bad # {} PROVE FALSE BY <1>1, <1>2
<1>4. PICK n \in Bad : \A b \in Bad : n <= b
  <2>1. Bad \subseteq Nat OBVIOUS
  <2> HIDE DEF Bad
  <2> QED BY <1>3, <2>1, LeastNat
<1>5. n \in 0 .. k /\ ~Good(n) OBVIOUS
<1> HIDE DEF Good
<1>6. f[n] = IF n = 0 THEN NoPrefixes(at) ELSE ScanOne(f[n - 1], n - 1, code[at + n]) BY <1>1, <1>5 DEF Scans
<1>7. g[n] = IF n = 0 THEN NoPrefixes(0) ELSE ScanOne(g[n - 1], n - 1, copy[0 + n]) BY <1>2, <1>5 DEF Scans
<1>8. n # 0 BY <1>5, <1>6, <1>7, NoPrefixesHome DEF Good
<1>9. n - 1 \in Nat /\ n - 1 \in 0 .. k /\ n - 1 < n /\ n \in 1 .. k /\ 0 + n = n BY <1>5, <1>8
<1>10. Good(n - 1) BY <1>4, <1>9
<1> DEFINE p == n - 1
           x == f[p]
           byte == code[at + n]
<1>11. copy[0 + n] = byte /\ PrefixOf(byte) # "VEX" BY <1>9
<1>12. f[n] = ScanOne(x, p, byte) BY <1>6, <1>8
<1>13. g[n] = ScanOne(g[p], p, byte) BY <1>7, <1>8, <1>11
<1>14. Scanning(x, at) /\ g[p] = AtHome(x, at) /\ p \in Nat BY <1>9, <1>10 DEF Good
<1> HIDE DEF p, x, byte
<1>15. Scanning(ScanOne(x, p, byte), at) /\ ScanOne(AtHome(x, at), p, byte) = AtHome(ScanOne(x, p, byte), at)
  BY <1>11, <1>14, ScanOneHome
<1> QED BY <1>5, <1>12, <1>13, <1>14, <1>15 DEF Good

\* The first n bytes of the one code are those from `at' on of the other.
Excerpt(copy, code, at, n) == \A j \in 1 .. n : copy[j] = code[at + j]

\* The loop halts where it did: before the end of the instruction, at a byte that is no prefix.
LEMMA ScanLengthHome ==
  ASSUME NEW code, NEW copy, NEW at \in Nat, NEW rest \in Nat, NEW n \in Nat, n <= rest, n <= INST_MAXIMUM_SIZE,
         NEW dt, Excerpt(copy, code, at, n), ScanLength(code, at, rest, dt) < n
  PROVE  LET k == ScanLength(code, at, rest, dt)
         IN  /\ k \in Nat /\ ScanLength(copy, 0, n, dt) = k
             /\ \A j \in 1 .. k : Scanned(code[at + j], dt)
<1> DEFINE S == {i \in 0 .. rest : i \in {rest, INST_MAXIMUM_SIZE} \/ ~Scanned(code[at + i + 1], dt)}
           T == {i \in 0 .. n : i \in {n, INST_MAXIMUM_SIZE} \/ ~Scanned(copy[0 + i + 1], dt)}
           k == ScanLength(code, at, rest, dt)
           l == ScanLength(copy, 0, n, dt)
<1>1. k = Min(S) /\ l = Min(T) BY DEF ScanLength
<1>2. S \subseteq Nat /\ T \subseteq Nat /\ rest \in S /\ n \in T OBVIOUS
<1>3. k \in S /\ \A i \in S : k <= i
  <2> HIDE DEF S, k
  <2> QED BY <1>1, <1>2, MinNat
<1>4. l \in T /\ \A i \in T : l <= i
  <2> HIDE DEF T, l
  <2> QED BY <1>1, <1>2, MinNat
<1>5. k < n OBVIOUS
<1> HIDE DEF k, l
<1>6. k \in 0 .. rest /\ l \in 0 .. n BY <1>3, <1>4
<1>7. \A i \in Nat : i < n => copy[0 + i + 1] = code[at + i + 1]
  <2> TAKE i \in Nat
  <2> HAVE i < n
  <2>1. i + 1 \in 1 .. n /\ 0 + i + 1 = i + 1 /\ at + (i + 1) = at + i + 1 OBVIOUS
  <2>2. copy[i + 1] = code[at + (i + 1)] BY <2>1 DEF Excerpt
  <2> QED BY <2>1, <2>2
<1>8. \A i \in Nat : i < n => (i \in S <=> ~Scanned(code[at + i + 1], dt)) BY DEF INST_MAXIMUM_SIZE
<1>9. \A i \in Nat : i < n => (i \in T <=> ~Scanned(copy[0 + i + 1], dt)) BY DEF INST_MAXIMUM_SIZE
<1>10. \A i \in Nat : i < n => (i \in S <=> i \in T)
  <2> HIDE DEF S, T
  <2> QED BY <1>7, <1>8, <1>9
<1> HIDE DEF S, T
<1>11. k = l
  <2>1. k \in T BY <1>3, <1>5, <1>6, <1>10
  <2>2. l <= k BY <1>4, <2>1
  <2>3. l \in S BY <1>4, <1>5, <1>6, <1>10, <2>2
  <2>4. k <= l BY <1>3, <2>3
  <2> QED BY <1>6, <2>2, <2>4
<1>12. \A j \in 1 .. k : Scanned(code[at + j], dt)
  <2> TAKE j \in 1 .. k
  <2> DEFINE i == j - 1
  <2>1. i \in Nat /\ i < k /\ i < n /\ at + i + 1 = at + j BY <1>5, <1>6
  <2> HIDE DEF i
  <2>2. i \notin S BY <1>3, <1>6, <2>1
  <2>3. Scanned(code[at + i + 1], dt) BY <1>8, <2>1, <2>2
  <2> QED BY <2>1, <2>3
<1> QED BY <1>6, <1>11, <1>12 DEF k, l

\* A VEX prefix where the loop has halted.
LEMMA VexHome ==
  \A code, copy, x, dt, first : \A at, rest, n, k \in Nat : \A size \in 2 .. 3 :
    n <= rest /\ Excerpt(copy, code, at, n) /\ Scanning(x, at) /\ k + size <= n =>
    (VexAt(copy, k, n - k, dt, size, first, AtHome(x, at)) <=> VexAt(code, at + k, rest - k, dt, size, first, x))
<1> TAKE code, copy, x, dt, first
<1> TAKE at, rest, n, k \in Nat
<1> TAKE size \in 2 .. 3
<1> HAVE n <= rest /\ Excerpt(copy, code, at, n) /\ Scanning(x, at) /\ k + size <= n
<1> DEFINE y == AtHome(x, at)
<1>1. x.start = at /\ y.start = 0 BY HomeLemma DEF Scanning
<1> HIDE DEF y
<1>2. n - k >= size /\ rest - k >= size OBVIOUS
<1>3. copy[k + 1] = code[at + k + 1] /\ copy[k + 2] = code[at + k + 2]
  <2>1. k + 1 \in 1 .. n /\ k + 2 \in 1 .. n /\ at + (k + 1) = at + k + 1 /\ at + (k + 2) = at + k + 2 OBVIOUS
  <2>2. copy[k + 1] = code[at + (k + 1)] /\ copy[k + 2] = code[at + (k + 2)] BY <2>1 DEF Excerpt
  <2> QED BY <2>1, <2>2
<1>4. (k - y.start <= INST_MAXIMUM_SIZE - size) <=> ((at + k) - x.start <= INST_MAXIMUM_SIZE - size)
  BY <1>1 DEF INST_MAXIMUM_SIZE
<1> QED BY <1>2, <1>3, <1>4 DEF VexAt, y

\* What is known of the prefixes of the instruction at `at' in the end.
Known(ps, at) ==
  /\ Record(ps) /\ ps.start = at /\ ps.rexPos \in Int /\ ps.vexPos \in Int
  /\ "REX" \in ps.decoded => ps.rexPos \in Nat /\ ps.rexPos >= at
  /\ "VEX" \in ps.decoded => ps.vexPos \in Nat /\ ps.vexPos >= at /\ ps.vexPos < ps.last

VexTaken(y, y2, x, at, k) ==
  /\ y2 = AtHome(y, at)
  /\ Record(y) /\ y.start = at /\ y.vexPos = at + k + 1 /\ y.rexPos = x.rexPos
  /\ y.decoded = x.decoded \cup {"VEX"}

LEMMA TakeVexHome ==
  \A at, k \in Nat : \A x, ext, bits :
    Scanning(x, at) => VexTaken(TakeVex(x, at + k, ext, bits), TakeVex(AtHome(x, at), k, ext, bits), x, at, k)
<1> SUFFICES ASSUME NEW at \in Nat, NEW k \in Nat, NEW x, NEW ext, NEW bits, Scanning(x, at)
             PROVE  VexTaken(TakeVex(x, at + k, ext, bits), TakeVex(AtHome(x, at), k, ext, bits), x, at, k)
  OBVIOUS
<1> DEFINE m == AtHome(x, at)
           x1 == [x EXCEPT !.vexPos = at + k + 1]
           m1 == [m EXCEPT !.vexPos = k + 1]
           x2 == [x1 EXCEPT !.decoded = x1.decoded \cup {"VEX"}]
           m2 == [m1 EXCEPT !.decoded = m1.decoded \cup {"VEX"}]
           x3 == [x2 EXCEPT !.ext = ext]
           m3 == [m2 EXCEPT !.ext = ext]
           x4 == [x3 EXCEPT !.vrex = x3.vrex \cup bits]
           m4 == [m3 EXCEPT !.vrex = m3.vrex \cup bits]
<1>1. Record(x) /\ x.start = at BY DEF Scanning
<1>2. TakeVex(x, at + k, ext, bits) = x4 /\ TakeVex(m, k, ext, bits) = m4 BY DEF TakeVex
<1> HIDE DEF m
<1>3. ASSUME NEW z, Record(z), NEW z2, z2 = AtHome(z, at), NEW f \in {"decoded", "ext", "vrex"}, NEW v
      PROVE  [z2 EXCEPT ![f] = v] = AtHome([z EXCEPT ![f] = v], at) /\ Record([z EXCEPT ![f] = v])
  <2>1. f \in Elsewhere BY DEF Elsewhere, PsFields
  <2>2. Put(AtHome(z, at), f, v) = AtHome(Put(z, f, v), at) /\ Record(Put(z, f, v))
    BY <1>3, <2>1, HomeField, Zenon
  <2> QED BY <1>3, <2>2, Zenon DEF Put
<1>4. ASSUME NEW z, Record(z), NEW z2, z2 = AtHome(z, at)
      PROVE  z2.decoded = z.decoded /\ z2.vrex = z.vrex
  BY <1>4, HomeLemma DEF PsFields
<1>5. m1 = AtHome(x1, at) /\ Record(x1)
  <2>1. at + k + 1 # None /\ k + 1 = (at + k + 1) - at BY DEF None
  <2> DEFINE l == at + k + 1
             q == k + 1
  <2>2. l # None /\ q = l - at BY <2>1
  <2> HIDE DEF l, q
  <2>3. Put(AtHome(x, at), "vexPos", q) = AtHome(Put(x, "vexPos", l), at) /\ Record(Put(x, "vexPos", l))
    <3>1. "vexPos" \in Placing BY DEF Placing
    <3> QED BY <1>1, <2>2, <3>1, PlaceHome, Zenon
  <2> QED BY <2>3 DEF l, q, m, Put
<1>6. DOMAIN x = PsFields /\ DOMAIN x1 = PsFields
  <2> HIDE DEF x1
  <2> QED BY <1>1, <1>5, RecordLemma
<1>7. x1.start = at /\ x1.vexPos = at + k + 1 /\ x1.rexPos = x.rexPos /\ x1.decoded = x.decoded
  BY <1>1, <1>6 DEF PsFields
<1> HIDE DEF x1, m1
<1>8. m2 = AtHome(x2, at) /\ Record(x2)
  <2> DEFINE v == x1.decoded \cup {"VEX"}
  <2>1. m2 = [m1 EXCEPT !.decoded = v] BY <1>4, <1>5
  <2> HIDE DEF v, m2
  <2>2. \A f \in {"decoded", "ext", "vrex"} :
          [m1 EXCEPT ![f] = v] = AtHome([x1 EXCEPT ![f] = v], at) /\ Record([x1 EXCEPT ![f] = v])
    BY <1>3, <1>5
  <2>3. [m1 EXCEPT !.decoded = v] = AtHome([x1 EXCEPT !.decoded = v], at) /\ Record([x1 EXCEPT !.decoded = v])
    BY <2>2
  <2> QED BY <2>1, <2>3 DEF v
<1>9. DOMAIN x2 = PsFields
  <2> HIDE DEF x2
  <2> QED BY <1>8, RecordLemma
<1>10. x2.start = at /\ x2.vexPos = at + k + 1 /\ x2.rexPos = x.rexPos /\ x2.decoded = x.decoded \cup {"VEX"}
  BY <1>6, <1>7 DEF PsFields
<1> HIDE DEF x2, m2
<1>11. m3 = AtHome(x3, at) /\ Record(x3)
  <2>1. \A f \in {"decoded", "ext", "vrex"} :
          [m2 EXCEPT ![f] = ext] = AtHome([x2 EXCEPT ![f] = ext], at) /\ Record([x2 EXCEPT ![f] = ext])
    BY <1>3, <1>8
  <2> QED BY <2>1
<1>12. DOMAIN x3 = PsFields
  <2> HIDE DEF x3
  <2> QED BY <1>11, RecordLemma
<1>13. x3.start = x2.start /\ x3.vexPos = x2.vexPos /\ x3.rexPos = x2.rexPos /\ x3.decoded = x2.decoded
  BY <1>9 DEF PsFields
<1> HIDE DEF x3, m3
<1>14. m4 = AtHome(x4, at) /\ Record(x4)
  <2> DEFINE v == x3.vrex \cup bits
  <2>1. m4 = [m3 EXCEPT !.vrex = v] BY <1>4, <1>11
  <2> HIDE DEF v, m4
  <2>2. \A f \in {"decoded", "ext", "vrex"} :
          [m3 EXCEPT ![f] = v] = AtHome([x3 EXCEPT ![f] = v], at) /\ Record([x3 EXCEPT ![f] = v])
    BY <1>3, <1>11
  <2>3. [m3 EXCEPT !.vrex = v] = AtHome([x3 EXCEPT !.vrex = v], at) /\ Record([x3 EXCEPT !.vrex = v])
    BY <2>2
  <2> QED BY <2>1, <2>3 DEF v
<1>15. x4.start = x3.start /\ x4.vexPos = x3.vexPos /\ x4.rexPos = x3.rexPos /\ x4.decoded = x3.decoded
  BY <1>12 DEF PsFields
<1> HIDE DEF x4, m4
<1> QED BY <1>2, <1>10, <1>13, <1>14, <1>15 DEF VexTaken, m

LEMMA VexEnds ==
  ASSUME NEW at \in Nat, NEW x, Scanning(x, at), NEW k \in Nat, NEW size \in {2, 3}, NEW z, NEW z2, VexTaken(z, z2, x, at, k)
  PROVE  LET y == [z EXCEPT !.last = at + k + size]
         IN  [z2 EXCEPT !.last = k + size] = AtHome(y, at) /\ Known(y, at)
<1> DEFINE p == at + k + size
           q == k + size
           y == [z EXCEPT !.last = p]
<1>1. p \in Nat /\ p # None /\ q = p - at /\ at + k + 1 < p BY DEF None
<1>2. at + k + 1 \in Nat /\ at + k + 1 >= at OBVIOUS
<1> HIDE DEF p, q
<1>3. z2 = AtHome(z, at) /\ Record(z) /\ DOMAIN z = PsFields BY RecordLemma DEF VexTaken
<1>4. /\ y.start = at /\ y.last = p /\ y.vexPos = at + k + 1 /\ y.rexPos = x.rexPos
      /\ y.decoded = x.decoded \cup {"VEX"}
  BY <1>3 DEF PsFields, VexTaken
<1>5. Put(AtHome(z, at), "last", q) = AtHome(Put(z, "last", p), at) /\ Record(Put(z, "last", p))
  <2>1. "last" \in Placing BY DEF Placing
  <2>2. p # None /\ q = p - at BY <1>1
  <2>3. Record(z) BY <1>3
  <2> QED BY <2>1, <2>2, <2>3, PlaceHome, Zenon
<1>6. [z2 EXCEPT !.last = q] = AtHome(y, at) /\ Record(y) BY <1>3, <1>5 DEF Put
<1> HIDE DEF y
<1>7. Known(y, at)
  <2>1. y.rexPos \in Int /\ ("REX" \in y.decoded => y.rexPos \in Nat /\ y.rexPos >= at) BY <1>4 DEF Scanning, None
  <2> QED BY <1>1, <1>2, <1>4, <1>6, <2>1 DEF Known
<1> QED BY <1>6, <1>7 DEF y, p, q

\* A VEX prefix says the same wherever it is.
LEMMA Vex2Home ==
  ASSUME NEW code, NEW copy, NEW at \in Nat, NEW n \in Nat, Excerpt(copy, code, at, n),
         NEW k \in Nat, k + 2 <= n, NEW x, Scanning(x, at), NEW dt
  PROVE  VexTaken(Vex2(code, at + k, dt, x), Vex2(copy, k, dt, AtHome(x, at)), x, at, k)
<1> DEFINE m == AtHome(x, at)
           bits(vex) == {bit \in Bits(255 - vex, 7 :> "R") : dt = 64} \cup Bits(vex, 2 :> "L")
<1>1. copy[k + 2] = code[at + k + 2]
  <2>1. k + 2 \in 1 .. n /\ at + (k + 2) = at + k + 2 OBVIOUS
  <2>2. copy[k + 2] = code[at + (k + 2)] BY <2>1 DEF Excerpt
  <2> QED BY <2>1, <2>2
<1>2. Vex2(code, at + k, dt, x) = TakeVex(x, at + k, "VEX2", bits(code[at + k + 2])) BY Zenon DEF Vex2
<1>3. Vex2(copy, k, dt, m) = TakeVex(m, k, "VEX2", bits(copy[k + 2])) BY Zenon DEF Vex2
<1> HIDE DEF bits
<1> DEFINE v == bits(code[at + k + 2])
<1>4. Vex2(copy, k, dt, m) = TakeVex(m, k, "VEX2", v) BY <1>1, <1>3
<1> HIDE DEF v
<1>5. VexTaken(TakeVex(x, at + k, "VEX2", v), TakeVex(AtHome(x, at), k, "VEX2", v), x, at, k) BY TakeVexHome, Zenon
<1> QED BY <1>2, <1>4, <1>5 DEF v, m

LEMMA Vex3Home ==
  ASSUME NEW code, NEW copy, NEW at \in Nat, NEW n \in Nat, Excerpt(copy, code, at, n),
         NEW k \in Nat, k + 3 <= n, NEW x, Scanning(x, at), NEW dt
  PROVE  VexTaken(Vex3(code, at + k, dt, x), Vex3(copy, k, dt, AtHome(x, at)), x, at, k)
<1> DEFINE m == AtHome(x, at)
           bits(vex, vex2) == Bits(255 - vex, (5 :> "B") @@ (6 :> "X") @@ (7 :> "R"))
                              \cup Bits(vex2, (2 :> "L") @@ (7 :> "W"))
           less(z) == [z EXCEPT !.vrex = @ \ {"B", "X", "R", "W"}]
<1>1. copy[k + 2] = code[at + k + 2] /\ copy[k + 3] = code[at + k + 3]
  <2>1. k + 2 \in 1 .. n /\ at + (k + 2) = at + k + 2 /\ k + 3 \in 1 .. n /\ at + (k + 3) = at + k + 3 OBVIOUS
  <2>2. copy[k + 2] = code[at + (k + 2)] /\ copy[k + 3] = code[at + (k + 3)] BY <2>1 DEF Excerpt
  <2> QED BY <2>1, <2>2
<1>2. ASSUME NEW c, NEW p, NEW w
      PROVE  Vex3(c, p, dt, w) = LET t == TakeVex(w, p, "VEX3", bits(c[p + 2], c[p + 3]))
                                 IN  IF dt = 64 THEN t ELSE less(t)
  BY Zenon DEF Vex3
<1> HIDE DEF bits, less
<1> DEFINE v  == bits(code[at + k + 2], code[at + k + 3])
           v2 == bits(copy[k + 2], copy[k + 3])
           t  == TakeVex(x, at + k, "VEX3", v)
           t2 == TakeVex(m, k, "VEX3", v)
<1>3. Vex3(code, at + k, dt, x) = IF dt = 64 THEN t ELSE less(t) BY <1>2, Zenon
<1>4. Vex3(copy, k, dt, m) = IF dt = 64 THEN t2 ELSE less(t2)
  <2>1. Vex3(copy, k, dt, m) = IF dt = 64 THEN TakeVex(m, k, "VEX3", v2) ELSE less(TakeVex(m, k, "VEX3", v2))
    BY <1>2, Zenon
  <2>2. v2 = v BY <1>1
  <2> HIDE DEF v, v2
  <2> QED BY <2>1, <2>2
<1> HIDE DEF v
<1>5. VexTaken(t, t2, x, at, k)
  <2>1. VexTaken(TakeVex(x, at + k, "VEX3", v), TakeVex(AtHome(x, at), k, "VEX3", v), x, at, k) BY TakeVexHome, Zenon
  <2> QED BY <2>1 DEF m
<1> HIDE DEF t, t2, m
<1>6. VexTaken(less(t), less(t2), x, at, k)
  <2> DEFINE w == t.vrex \ {"B", "X", "R", "W"}
  <2>1. t2 = AtHome(t, at) /\ Record(t) BY <1>5 DEF VexTaken
  <2>2. DOMAIN t = PsFields /\ t2.vrex = t.vrex BY <2>1, RecordLemma, HomeLemma DEF PsFields
  <2>3. less(t) = Put(t, "vrex", w) /\ less(t2) = Put(t2, "vrex", w) BY <2>2 DEF less, Put
  <2> HIDE DEF w
  <2>4. Put(t2, "vrex", w) = AtHome(Put(t, "vrex", w), at) /\ Record(Put(t, "vrex", w))
    <3>1. "vrex" \in Elsewhere BY DEF Elsewhere, PsFields
    <3>2. Put(AtHome(t, at), "vrex", w) = AtHome(Put(t, "vrex", w), at) /\ Record(Put(t, "vrex", w))
      BY <2>1, <3>1, HomeField, Zenon
    <3> QED BY <2>1, <3>2
  <2> DEFINE l == Put(t, "vrex", w)
  <2>5. l.start = t.start /\ l.vexPos = t.vexPos /\ l.rexPos = t.rexPos /\ l.decoded = t.decoded
    BY <2>2 DEF Put, PsFields
  <2> HIDE DEF l
  <2>6. VexTaken(l, Put(t2, "vrex", w), x, at, k) BY <1>5, <2>4, <2>5 DEF VexTaken, l
  <2> QED BY <2>3, <2>6 DEF l
<1>7. CASE dt = 64 BY <1>3, <1>4, <1>5, <1>7 DEF m
<1>8. CASE dt # 64 BY <1>3, <1>4, <1>6, <1>8 DEF m
<1> QED BY <1>7, <1>8

LEMMA VexPrefixes ==
  ASSUME NEW x, NEW start, NEW last, IsPrefixes(x, start, last), NEW code, NEW p, NEW dt
  PROVE  IsPrefixes(Vex2(code, p, dt, x), start, last) /\ IsPrefixes(Vex3(code, p, dt, x), start, last)
<1>1. \A ext, bits : IsPrefixes(TakeVex(x, p, ext, bits), start, last) BY DEF TakeVex, IsPrefixes, PsFields
<1>2. IsPrefixes(Vex2(code, p, dt, x), start, last) BY <1>1 DEF Vex2
<1>3. PICK v : IsPrefixes(v, start, last) /\ \/ Vex3(code, p, dt, x) = v
                                             \/ Vex3(code, p, dt, x) = [v EXCEPT !.vrex = @ \ {"B", "X", "R", "W"}]
  BY <1>1 DEF Vex3
<1>4. IsPrefixes(Vex3(code, p, dt, x), start, last) BY <1>3 DEF IsPrefixes, PsFields
<1> QED BY <1>2, <1>4

LEMMA DecodePrefixesHome ==
  ASSUME NEW code, NEW copy, NEW at \in Nat, NEW rest \in Nat, NEW n \in Nat, n <= rest, n <= INST_MAXIMUM_SIZE,
         Excerpt(copy, code, at, n), NEW dt, PrefixSize(DecodePrefixes(code, at, rest, dt)) < n
  PROVE  LET ps == DecodePrefixes(code, at, rest, dt)
         IN  DecodePrefixes(copy, 0, n, dt) = AtHome(ps, at) /\ Known(ps, at)
<1> DEFINE k  == ScanLength(code, at, rest, dt)
           x  == Scan(code, at, k)
           p  == at + k
           ps == DecodePrefixes(code, at, rest, dt)
           has(size, first) == VexAt(code, p, rest - k, dt, size, first, x)
           y == AtHome(x, at)
           has2(size, first) == VexAt(copy, k, n - k, dt, size, first, y)
<1>1. k \in 0 .. rest BY ScanLengthLemma
<1>2. IsPrefixes(x, at, at) BY <1>1, ScanLemma
<1>3. ps = CASE has(2, Vex2b) -> [Vex2(code, p, dt, x) EXCEPT !.last = p + 2]
             [] has(3, Vex3b) -> [Vex3(code, p, dt, x) EXCEPT !.last = p + 3]
             [] OTHER -> [x EXCEPT !.last = p]
  BY DEF DecodePrefixes
<1>4. /\ has(2, Vex2b) => rest - k >= 2 /\ code[p + 1] = Vex2b
      /\ has(3, Vex3b) => rest - k >= 3 /\ code[p + 1] = Vex3b
  BY DEF VexAt
<1>5. Vex2b # Vex3b BY DEF Vex2b, Vex3b
<1>6. IsPrefixes(ps, at, ps.last) /\ PrefixSize(ps) < n /\ ps.last = at + PrefixSize(ps) BY DecodePrefixesLemma
<1>7. p = at + k /\ p \in Nat /\ p - at = k /\ (p + 2) - at = k + 2 /\ (p + 3) - at = k + 3
  <2> HIDE DEF k
  <2> QED BY <1>1
<1> HIDE DEF x, p, ps, has
<1>8. /\ has(2, Vex2b) => ps = [Vex2(code, p, dt, x) EXCEPT !.last = p + 2]
      /\ ~has(2, Vex2b) /\ has(3, Vex3b) => ps = [Vex3(code, p, dt, x) EXCEPT !.last = p + 3]
      /\ ~has(2, Vex2b) /\ ~has(3, Vex3b) => ps = [x EXCEPT !.last = p]
  BY <1>3, <1>4, <1>5
<1>9. /\ has(2, Vex2b) => k + 2 < n
      /\ ~has(2, Vex2b) /\ has(3, Vex3b) => k + 3 < n
      /\ k < n
  <2>1. IsPrefixes(Vex2(code, p, dt, x), at, at) /\ IsPrefixes(Vex3(code, p, dt, x), at, at) BY <1>2, VexPrefixes
  <2>2. \A v, l : IsPrefixes(v, at, at) => [v EXCEPT !.last = l].last = l /\ [v EXCEPT !.last = l].start = at
    BY DEF IsPrefixes, PsFields
  <2>3. \A v, l : IsPrefixes(v, at, at) => PrefixSize([v EXCEPT !.last = l]) = l - at BY <2>2 DEF PrefixSize
  <2>4. /\ has(2, Vex2b) => PrefixSize(ps) = (p + 2) - at
        /\ ~has(2, Vex2b) /\ has(3, Vex3b) => PrefixSize(ps) = (p + 3) - at
        /\ ~has(2, Vex2b) /\ ~has(3, Vex3b) => PrefixSize(ps) = p - at
    BY <1>2, <1>8, <2>1, <2>3
  <2> HIDE DEF k
  <2>5. k \in Nat BY <1>1
  <2>6. /\ has(2, Vex2b) => PrefixSize(ps) = k + 2
        /\ ~has(2, Vex2b) /\ has(3, Vex3b) => PrefixSize(ps) = k + 3
        /\ ~has(2, Vex2b) /\ ~has(3, Vex3b) => PrefixSize(ps) = k
    BY <1>7, <2>4
  <2> QED BY <1>6, <2>5, <2>6
<1>10. k \in Nat /\ ScanLength(copy, 0, n, dt) = k /\ \A j \in 1 .. k : Scanned(code[at + j], dt)
  BY <1>9, ScanLengthHome
<1> HIDE DEF k
<1>11. \A j \in 1 .. k : copy[j] = code[at + j] /\ PrefixOf(code[at + j]) # "VEX"
  <2> TAKE j \in 1 .. k
  <2>1. j \in 1 .. n BY <1>9, <1>10
  <2>2. Scanned(code[at + j], dt) BY <1>10
  <2>3. PrefixOf(code[at + j]) # "VEX" BY <2>2, PrefixName DEF Scanned
  <2> QED BY <2>1, <2>3 DEF Excerpt
<1>12. Scanning(x, at) /\ Scan(copy, 0, k) = y BY <1>10, <1>11, ScanHome DEF x, k
<1> DEFINE ps2 == DecodePrefixes(copy, 0, n, dt)
<1>13. ps2 = CASE has2(2, Vex2b) -> [Vex2(copy, k, dt, y) EXCEPT !.last = k + 2]
               [] has2(3, Vex3b) -> [Vex3(copy, k, dt, y) EXCEPT !.last = k + 3]
               [] OTHER -> [y EXCEPT !.last = k]
  <2>1. 0 + k = k BY <1>10
  <2> DEFINE j == ScanLength(copy, 0, n, dt)
             z == Scan(copy, 0, j)
  <2>2. ps2 = CASE VexAt(copy, 0 + j, n - j, dt, 2, Vex2b, z) -> [Vex2(copy, 0 + j, dt, z) EXCEPT !.last = 0 + j + 2]
                [] VexAt(copy, 0 + j, n - j, dt, 3, Vex3b, z) -> [Vex3(copy, 0 + j, dt, z) EXCEPT !.last = 0 + j + 3]
                [] OTHER -> [z EXCEPT !.last = 0 + j]
    BY DEF DecodePrefixes
  <2>3. j = k /\ z = y BY <1>10, <1>12
  <2> HIDE DEF ps2, j, z, y
  <2> QED BY <2>1, <2>2, <2>3
<1>14. \A first : \A size \in {2, 3} : has2(size, first) => k + size <= n
  BY <1>10 DEF VexAt
<1>15. \A first : \A size \in 2 .. 3 : k + size <= n => (has2(size, first) <=> has(size, first))
  <2> TAKE first
  <2> TAKE size \in 2 .. 3
  <2> HAVE k + size <= n
  <2>1. VexAt(copy, k, n - k, dt, size, first, AtHome(x, at)) <=> VexAt(code, at + k, rest - k, dt, size, first, x)
    BY <1>10, <1>12, VexHome, Zenon
  <2> QED BY <1>7, <2>1 DEF has
<1>16. (has2(2, Vex2b) <=> has(2, Vex2b)) /\ (~has(2, Vex2b) => (has2(3, Vex3b) <=> has(3, Vex3b)))
  <2> HIDE DEF has2
  <2>1. (has2(2, Vex2b) => k + 2 <= n) /\ (has2(3, Vex3b) => k + 3 <= n) BY <1>14
  <2>2. /\ k + 2 <= n => (has2(2, Vex2b) <=> has(2, Vex2b))
        /\ k + 3 <= n => (has2(3, Vex3b) <=> has(3, Vex3b))
    BY <1>15
  <2>3. (has(2, Vex2b) => k + 2 <= n) /\ (~has(2, Vex2b) /\ has(3, Vex3b) => k + 3 <= n) BY <1>9, <1>10
  <2> QED BY <2>1, <2>2, <2>3
<1>17. ~(has2(2, Vex2b) /\ has2(3, Vex3b)) BY <1>5 DEF VexAt
<1> HIDE DEF has2, ps2, y
<1>18. CASE has(2, Vex2b)
  <2>1. ps2 = [Vex2(copy, k, dt, y) EXCEPT !.last = k + 2] BY <1>13, <1>16, <1>17, <1>18
  <2>2. ps = [Vex2(code, p, dt, x) EXCEPT !.last = p + 2] BY <1>8, <1>18
  <2>3. k + 2 <= n BY <1>9, <1>10, <1>18
  <2>4. VexTaken(Vex2(code, at + k, dt, x), Vex2(copy, k, dt, y), x, at, k) BY <1>10, <1>12, <2>3, Vex2Home DEF y
  <2> DEFINE v == Vex2(code, at + k, dt, x)
             w == Vex2(copy, k, dt, y)
  <2> HIDE DEF v, w
  <2>5. VexTaken(v, w, x, at, k) BY <2>4 DEF v, w
  <2>6. [w EXCEPT !.last = k + 2] = AtHome([v EXCEPT !.last = at + k + 2], at) /\ Known([v EXCEPT !.last = at + k + 2], at)
    BY <1>10, <1>12, <2>5, VexEnds
  <2> QED BY <1>7, <2>1, <2>2, <2>6 DEF ps2, ps, v, w
<1>19. CASE ~has(2, Vex2b) /\ has(3, Vex3b)
  <2>1. ps2 = [Vex3(copy, k, dt, y) EXCEPT !.last = k + 3] BY <1>13, <1>16, <1>17, <1>19
  <2>2. ps = [Vex3(code, p, dt, x) EXCEPT !.last = p + 3] BY <1>8, <1>19
  <2>3. k + 3 <= n BY <1>9, <1>10, <1>19
  <2>4. VexTaken(Vex3(code, at + k, dt, x), Vex3(copy, k, dt, y), x, at, k) BY <1>10, <1>12, <2>3, Vex3Home DEF y
  <2> DEFINE v == Vex3(code, at + k, dt, x)
             w == Vex3(copy, k, dt, y)
  <2> HIDE DEF v, w
  <2>5. VexTaken(v, w, x, at, k) BY <2>4 DEF v, w
  <2>6. [w EXCEPT !.last = k + 3] = AtHome([v EXCEPT !.last = at + k + 3], at) /\ Known([v EXCEPT !.last = at + k + 3], at)
    BY <1>10, <1>12, <2>5, VexEnds
  <2> QED BY <1>7, <2>1, <2>2, <2>6 DEF ps2, ps, v, w
<1>20. CASE ~has(2, Vex2b) /\ ~has(3, Vex3b)
  <2>1. ps2 = [y EXCEPT !.last = k] BY <1>13, <1>16, <1>20
  <2>2. ps = [x EXCEPT !.last = p] BY <1>8, <1>20
  <2>4. Put(AtHome(x, at), "last", k) = AtHome(Put(x, "last", p), at) /\ Record(Put(x, "last", p))
    <3>1. "last" \in Placing BY DEF Placing
    <3>2. Record(x) BY <1>12 DEF Scanning
    <3>3. p # None /\ k = p - at BY <1>7, <1>10 DEF None
    <3> QED BY <3>1, <3>2, <3>3, PlaceHome, Zenon
  <2>5. ps2 = AtHome(ps, at) /\ Record(ps) BY <2>1, <2>2, <2>4 DEF Put, y
  <2>6. DOMAIN x = PsFields BY <1>2 DEF IsPrefixes
  <2>7. ps.start = x.start /\ ps.rexPos = x.rexPos /\ ps.vexPos = x.vexPos /\ ps.decoded = x.decoded
    BY <2>2, <2>6 DEF PsFields
  <2>8. Known(ps, at) BY <1>12, <2>5, <2>7 DEF Known, Scanning, None
  <2> QED BY <2>5, <2>8 DEF ps2, ps
<1> QED BY <1>18, <1>19, <1>20

\* The prefixes of an instruction are those that its own bytes have.
LEMMA PrefixesHome ==
  ASSUME NEW code, NEW copy, NEW at \in Nat, NEW rest \in Nat, NEW n \in Nat, n <= rest, n <= INST_MAXIMUM_SIZE,
         Excerpt(copy, code, at, n), NEW dt, PrefixSize(PrefixesAt(code, dt, at, rest)) < n
  PROVE  LET ps == PrefixesAt(code, dt, at, rest)
         IN  PrefixesAt(copy, dt, 0, n) = AtHome(ps, at) /\ Known(ps, at)
<1>1. PrefixSize(PrefixesAt(code, dt, at, rest)) \in Nat
  <2>1. PrefixSize(PrefixesAt(code, dt, at, rest)) \in 0 .. rest BY PrefixesLemma
  <2> DEFINE size == PrefixSize(PrefixesAt(code, dt, at, rest))
  <2> HIDE DEF size
  <2>2. size \in 0 .. rest BY <2>1 DEF size
  <2>3. size \in Nat BY <2>2
  <2> QED BY <2>3 DEF size
<1>2. 1 \in 1 .. n /\ 0 + 1 = 1 BY <1>1
<1>3. copy[0 + 1] = code[at + 1] BY <1>2 DEF Excerpt
<1>4. CASE IsValid(code[at + 1], dt)
  <2>1. PrefixesAt(code, dt, at, rest) = DecodePrefixes(code, at, rest, dt) BY <1>4 DEF PrefixesAt
  <2>2. PrefixesAt(copy, dt, 0, n) = DecodePrefixes(copy, 0, n, dt) BY <1>3, <1>4 DEF PrefixesAt
  <2> QED BY <2>1, <2>2, DecodePrefixesHome
<1>5. CASE ~IsValid(code[at + 1], dt)
  <2> DEFINE ps == NoPrefixes(at)
  <2>1. PrefixesAt(code, dt, at, rest) = ps /\ PrefixesAt(copy, dt, 0, n) = NoPrefixes(0) BY <1>3, <1>5 DEF PrefixesAt
  <2>2. Scanning(ps, at) /\ NoPrefixes(0) = AtHome(ps, at) BY NoPrefixesHome
  <2> HIDE DEF ps
  <2>3. Known(ps, at) BY <2>2 DEF Scanning, Known, None
  <2> QED BY <2>1, <2>2, <2>3
<1> QED BY <1>4, <1>5

-----------------------------------------------------------------------------
(* An instruction is what its own bytes say.                               *)

\* The decoding after the prefixes ps, and what its copy in another code is to it.
DecodedAfter(code, last, rest, ps, dt) == Decode(code, last, rest, Effective(ps, dt), dt)
Followed(d, d2, b, h) ==
  /\ d.ok => Within(d, b) /\ (d.left >= h.less => d2 = Moved(d, h))
  /\ Made(d, b)

LEMMA DecodeCopied ==
  \A code, code2, b, h, ps, rest, rest2, dt : Copied(code, code2, b, h, ps, rest, dt) /\ rest2 = rest - h.less =>
    Followed(DecodedAfter(code, b.last, rest, ps, dt), DecodedAfter(code2, h.last, rest2, MovedPrefixes(ps, h), dt), b, h)
BY DecodeFollows, Zenon DEF DecodedAfter, Followed

DecodesHome(d, d2, size, n) ==
  /\ d.ok => d.size \in Int
  /\ d.ok /\ size + d.size = n => \E b, h : Copies(d, d2, b, h) /\ d.left - h.less = 0
  /\ ~d.ok => ~d2.ok

LEMMA DecodeHome ==
  ASSUME NEW code \in Seq(0 .. 255), NEW copy \in Seq(0 .. 255), NEW dt \in Modes, NEW at \in Nat, NEW rest \in Nat,
         at + rest = Len(code), NEW n \in Nat, n <= rest, Len(copy) = n, Excerpt(copy, code, at, n),
         NEW ps, Known(ps, at), NEW size \in Nat, size < n, ps.last = at + size
  PROVE  DecodesHome(DecodedAfter(code, ps.last, rest - size, ps, dt), DecodedAfter(copy, size, n - size, AtHome(ps, at), dt),
                     size, n)
<1> DEFINE b  == [start |-> at, last |-> ps.last, from |-> ps.last + 1, end |-> Len(code)]
           h  == [by |-> at, less |-> rest - n, start |-> 0, last |-> size,
                  rexPos |-> Offset(ps.rexPos, at), vexPos |-> Offset(ps.vexPos, at)]
           b2 == [start |-> 0, last |-> size, from |-> size + 1, end |-> n]
           h2 == [by |-> 0 - at, less |-> n - rest, start |-> at, last |-> ps.last,
                  rexPos |-> ps.rexPos, vexPos |-> ps.vexPos]
           ps2 == AtHome(ps, at)
           d  == DecodedAfter(code, ps.last, rest - size, ps, dt)
           d2 == DecodedAfter(copy, size, n - size, ps2, dt)
<1>1. /\ Record(ps) /\ DOMAIN ps = PsFields /\ ps.start = at /\ ps.rexPos \in Int /\ ps.vexPos \in Int
      /\ ps.last \in Nat /\ ps.last - at = size
      /\ "REX" \in ps.decoded => ps.rexPos \in Nat /\ ps.rexPos >= at
      /\ "VEX" \in ps.decoded => ps.vexPos \in Nat /\ ps.vexPos >= at /\ ps.vexPos < ps.last
  BY RecordLemma DEF Known
<1>2. /\ Record(ps2) /\ DOMAIN ps2 = PsFields /\ ps2.start = 0 /\ ps2.last = size
      /\ ps2.rexPos = Offset(ps.rexPos, at) /\ ps2.vexPos = Offset(ps.vexPos, at) /\ ps2.decoded = ps.decoded
  <2>1. /\ Record(ps2) /\ ps2.start = at - at /\ ps2.last = ps.last - at
        /\ ps2.rexPos = Offset(ps.rexPos, at) /\ ps2.vexPos = Offset(ps.vexPos, at) /\ ps2.decoded = ps.decoded
    BY <1>1, HomeLemma DEF PsFields
  <2> HIDE DEF ps2
  <2> QED BY <1>1, <2>1, RecordLemma
<1> HIDE DEF ps2
<1>3. Offset(ps.rexPos, at) \in Int /\ Offset(ps.vexPos, at) \in Int
  <2>1. \A p \in Int : Offset(p, at) \in Int BY DEF Offset, None
  <2> QED BY <1>1, <2>1
<1>4. /\ "REX" \in ps.decoded => Offset(ps.rexPos, at) = ps.rexPos - at
      /\ "VEX" \in ps.decoded => Offset(ps.vexPos, at) = ps.vexPos - at
  BY <1>1 DEF Offset, None
<1>5. h \in Moves /\ h2 \in Moves BY <1>1, <1>3 DEF Moves
<1>6. /\ b.start = at /\ b.last = ps.last /\ b.from = ps.last + 1 /\ b.end = Len(code)
      /\ h.by = at /\ h.less = rest - n /\ h.start = 0 /\ h.last = size
      /\ h.rexPos = Offset(ps.rexPos, at) /\ h.vexPos = Offset(ps.vexPos, at)
      /\ b2.start = 0 /\ b2.last = size /\ b2.from = size + 1 /\ b2.end = n
      /\ h2.by = 0 - at /\ h2.less = n - rest /\ h2.start = at /\ h2.last = ps.last
      /\ h2.rexPos = ps.rexPos /\ h2.vexPos = ps.vexPos
  OBVIOUS
<1> HIDE DEF b, h, b2, h2
<1>7. MovedPrefixes(ps, h) = ps2
  <2> DEFINE g == Home(ps, at)
  <2>1. g.start = h.start /\ g.last = h.last /\ g.rexPos = h.rexPos /\ g.vexPos = h.vexPos BY <1>1, <1>6 DEF Home
  <2> HIDE DEF g
  <2> QED BY <2>1 DEF MovedPrefixes, AtHome, ps2, g
<1>8. MovedPrefixes(ps2, h2) = ps
  <2> DEFINE m == MovedPrefixes(ps2, h2)
             p1 == [ps2 EXCEPT !.start = at]
             p2 == [p1 EXCEPT !.last = ps.last]
             p3 == [p2 EXCEPT !.rexPos = ps.rexPos]
             p4 == [p3 EXCEPT !.vexPos = ps.vexPos]
  <2>1. m = p4 BY <1>6 DEF MovedPrefixes
  <2>2. Record(p1) BY <1>2, RecordLemma
  <2> HIDE DEF p1
  <2>3. Record(p2) BY <2>2, RecordLemma
  <2> HIDE DEF p2
  <2>4. Record(p3) BY <2>3, RecordLemma
  <2> HIDE DEF p3
  <2>5. Record(p4) BY <2>4, RecordLemma
  <2> HIDE DEF p4
  <2>6. \A f \in PsFields \ {"start", "last", "rexPos", "vexPos"} : m[f] = ps2[f] /\ ps2[f] = ps[f]
    <3>1. \A f \in PsFields \ {"start", "last", "rexPos", "vexPos"} : m[f] = ps2[f] BY <1>2 DEF MovedPrefixes
    <3>2. \A f \in PsFields \ {"start", "last", "rexPos", "vexPos"} : ps2[f] = ps[f] BY <1>1, HomeLemma DEF ps2
    <3> QED BY <3>1, <3>2
  <2>7. m.start = ps.start /\ m.last = ps.last /\ m.rexPos = ps.rexPos /\ m.vexPos = ps.vexPos
    BY <1>1, <1>2, <1>6 DEF MovedPrefixes, PsFields
  <2> HIDE DEF m
  <2>8. \A f \in PsFields : m[f] = ps[f] BY <2>6, <2>7
  <2>9. m = ps BY <1>1, <2>1, <2>5, <2>8, RecordsEqual
  <2> QED BY <2>9 DEF m
<1>9. CopyOf(code, copy, b, h)
  <2>1. \A p \in Int : at <= p /\ p < Len(code) - (rest - n) => copy[p - at + 1] = code[p + 1]
    <3> TAKE p \in Int
    <3> HAVE at <= p /\ p < Len(code) - (rest - n)
    <3> DEFINE j == p - at + 1
    <3>1. j \in 1 .. n /\ at + j = p + 1 OBVIOUS
    <3> HIDE DEF j
    <3>2. copy[j] = code[at + j] BY <3>1 DEF Excerpt
    <3> QED BY <3>1, <3>2 DEF j
  <2>2. b.start \in Int /\ b.from \in Int /\ b.start < b.from BY <1>1, <1>6
  <2> QED BY <1>5, <1>6, <2>1, <2>2 DEF CopyOf
<1>10. CopyOf(copy, code, b2, h2)
  <2>1. \A p \in Int : 0 <= p /\ p < n => code[p - (0 - at) + 1] = copy[p + 1]
    <3> TAKE p \in Int
    <3> HAVE 0 <= p /\ p < n
    <3> DEFINE j == p + 1
    <3>1. j \in 1 .. n /\ at + j = p - (0 - at) + 1 OBVIOUS
    <3> HIDE DEF j
    <3>2. copy[j] = code[at + j] BY <3>1 DEF Excerpt
    <3> QED BY <3>1, <3>2 DEF j
  <2>2. b2.start \in Int /\ b2.from \in Int /\ b2.start < b2.from BY <1>6
  <2>3. b2.end - h2.less = rest /\ b2.start = 0 /\ b2.end = n BY <1>6
  <2>4. \A p \in Int : b2.start <= p /\ p < b2.end /\ p < b2.end - h2.less => code[p - h2.by + 1] = copy[p + 1]
    <3> TAKE p \in Int
    <3> HAVE b2.start <= p /\ p < b2.end /\ p < b2.end - h2.less
    <3>1. 0 <= p /\ p < n BY <2>3
    <3>2. code[p - (0 - at) + 1] = copy[p + 1] BY <2>1, <3>1
    <3> DEFINE k == 0 - at
    <3>3. code[p - k + 1] = copy[p + 1] /\ h2.by = k BY <1>6, <3>2
    <3> HIDE DEF k
    <3> QED BY <3>3
  <2> QED BY <1>5, <2>2, <2>4 DEF CopyOf
<1>11. RexThere(ps, h) /\ VexThere(ps, b.last, b, h) BY <1>1, <1>4, <1>6 DEF RexThere, VexThere
<1>12. RexThere(ps2, h2) /\ VexThere(ps2, b2.last, b2, h2)
  <2>1. ASSUME "REX" \in ps2.decoded PROVE ps2.rexPos \in Int /\ h2.rexPos = ps2.rexPos - h2.by
    <3>1. ps2.rexPos = ps.rexPos - at /\ ps.rexPos \in Int /\ h2.rexPos = ps.rexPos /\ h2.by = 0 - at
      BY <1>1, <1>2, <1>4, <1>6, <2>1
    <3> QED BY <3>1
  <2>2. ASSUME "VEX" \in ps2.decoded
        PROVE  /\ ps2.vexPos \in Int /\ b2.start <= ps2.vexPos /\ ps2.vexPos < b2.last
               /\ h2.vexPos = ps2.vexPos - h2.by
    <3>1. /\ ps2.vexPos = ps.vexPos - at /\ ps.vexPos \in Int /\ h2.vexPos = ps.vexPos /\ h2.by = 0 - at
          /\ ps.vexPos >= at /\ ps.vexPos < ps.last /\ b2.start = 0 /\ b2.last = size
      BY <1>1, <1>2, <1>4, <1>6, <2>2
    <3> QED BY <3>1
  <2> QED BY <2>1, <2>2 DEF RexThere, VexThere
<1>13. IsPrefixes(ps, b.start, b.last) /\ IsPrefixes(ps2, b2.start, b2.last) BY <1>1, <1>2, <1>6 DEF IsPrefixes
<1>14. Nearer(b, h) /\ Nearer(b2, h2)
  <2>1. h.start = b.start - h.by /\ h.last = b.last - h.by BY <1>1, <1>6
  <2>2. h2.start = b2.start - h2.by /\ h2.last = b2.last - h2.by BY <1>1, <1>6
  <2> QED BY <2>1, <2>2 DEF Nearer
<1> DEFINE r  == rest - size
           r2 == n - size
<1>15. r \in Int /\ r2 \in Int /\ r2 = r - h.less /\ r = r2 - h2.less /\ b.last + r = b.end /\ b2.last + r2 = b2.end
  <2>1. h.less = rest - n /\ h2.less = n - rest /\ b.last = at + size /\ b2.last = size /\ b.end = at + rest /\ b2.end = n
    BY <1>6
  <2> QED BY <2>1
<1>16. /\ d = DecodedAfter(code, b.last, r, ps, dt) /\ d2 = DecodedAfter(copy, b2.last, r2, ps2, dt)
       /\ b.last = h2.last /\ b2.last = h.last
  BY <1>6
<1> HIDE DEF r, r2, d, d2
<1>17. Copied(code, copy, b, h, ps, r, dt) BY <1>1, <1>6, <1>9, <1>11, <1>13, <1>14, <1>15 DEF Copied
<1>18. Copied(copy, code, b2, h2, ps2, r2, dt) BY <1>1, <1>6, <1>10, <1>12, <1>13, <1>14, <1>15 DEF Copied
<1>19. r2 = r - h.less /\ r = r2 - h2.less BY <1>15
<1>20. Followed(d, d2, b, h)
  <2>1. Followed(DecodedAfter(code, b.last, r, ps, dt), DecodedAfter(copy, h.last, r2, MovedPrefixes(ps, h), dt), b, h)
    BY <1>17, <1>19, DecodeCopied, Zenon
  <2>2. DecodedAfter(copy, h.last, r2, MovedPrefixes(ps, h), dt) = d2 BY <1>7, <1>16
  <2> QED BY <1>16, <2>1, <2>2
<1>21. Followed(d2, d, b2, h2)
  <2>1. Followed(DecodedAfter(copy, b2.last, r2, ps2, dt), DecodedAfter(code, h2.last, r, MovedPrefixes(ps2, h2), dt), b2, h2)
    BY <1>18, <1>19, DecodeCopied, Zenon
  <2>2. DecodedAfter(code, h2.last, r, MovedPrefixes(ps2, h2), dt) = d BY <1>8, <1>16
  <2> QED BY <1>16, <2>1, <2>2
<1>22. ASSUME d.ok, size + d.size = n PROVE Copies(d, d2, b, h) /\ d.left - h.less = 0
  <2>1. Within(d, b) /\ d.left \in Nat /\ b.last + d.size + d.left = b.end BY <1>20, <1>22 DEF Made, Followed
  <2>3. h.less = rest - n /\ b.last = at + size /\ b.end = at + rest BY <1>6
  <2>4. at + size + d.size + d.left = at + rest BY <2>1, <2>3
  <2> DEFINE k == d.size
  <2>5. d.left = rest - n
    <3>1. k \in Int BY <1>20, <1>22 DEF Made, Followed
    <3>2. size + k = n /\ at + size + k + d.left = at + rest BY <1>22, <2>4
    <3> HIDE DEF k
    <3> QED BY <2>1, <3>1, <3>2
  <2>6. d.left - h.less = 0 /\ d.left >= h.less BY <2>3, <2>5
  <2> QED BY <1>20, <1>22, <2>1, <2>6 DEF Copies, Followed
<1>23. ASSUME d2.ok PROVE d.ok
  <2>1. Within(d2, b2) /\ d2.left \in Nat BY <1>21, <1>23 DEF Within, Followed
  <2>2. h2.less = n - rest BY <1>6
  <2>3. d2.left >= h2.less BY <2>1, <2>2
  <2>4. Copies(d2, d, b2, h2) BY <1>21, <1>23, <2>1, <2>3 DEF Copies, Followed
  <2> QED BY <1>23, <2>4, CopiesLemma
<1>24. d.ok => d.size \in Int BY <1>20 DEF Made, Followed
<1>25. DecodesHome(d, d2, size, n) BY <1>22, <1>23, <1>24, Zenon DEF DecodesHome
<1> QED BY <1>25 DEF d, d2, ps2

-----------------------------------------------------------------------------
(* An entry is what its own bytes say.                                     *)

DIFields == DOMAIN Cleared
Entry(a) == a = [field \in DIFields |-> a[field]]

LEMMA DIFieldsLemma ==
  DIFields = {"ii", "mnemonic", "pseudo", "ops", "base", "scale", "dispSize", "segment", "flags", "opSize",
              "adrSize", "fc", "isc", "unused", "size", "addr", "left", "ok"}
BY DEF DIFields, Cleared

LEMMA EntryLemma ==
  ASSUME NEW a, Entry(a)
  PROVE  DOMAIN a = DIFields /\ \A field, v : Entry([a EXCEPT ![field] = v])
<1>1. DOMAIN a = DIFields BY DEF Entry
<1>2. ASSUME NEW field, NEW v PROVE Entry([a EXCEPT ![field] = v]) BY <1>1, Zenon DEF Entry
<1> QED BY <1>1, <1>2

LEMMA EntriesEqual ==
  ASSUME NEW x, NEW y, Entry(x), Entry(y), \A field \in DIFields : x[field] = y[field]
  PROVE  x = y
BY DEF Entry

\* What decode_internal notes besides, of the entry and of the one that stands alone.
Sized(a, size, at) == [a EXCEPT !.size = @ + size, !.addr = at]
AsIfFirst(di) == [di EXCEPT !.addr = 0, !.left = 0]
LEMMA NotedHome ==
  ASSUME NEW a, NEW a2, Entry(a), Entry(a2), \A field \in DIFields \ {"left"} : a2[field] = a[field], a2.left = 0,
         NEW size, NEW at
  PROVE  Sized(a2, size, 0) = AsIfFirst(Sized(a, size, at))
<1> DEFINE x1 == [a EXCEPT !.size = a.size + size]
           x2 == [x1 EXCEPT !.addr = at]
           x3 == [x2 EXCEPT !.addr = 0]
           x4 == [x3 EXCEPT !.left = 0]
           y1 == [a2 EXCEPT !.size = a2.size + size]
           y2 == [y1 EXCEPT !.addr = 0]
           di  == Sized(a, size, at)
           di2 == Sized(a2, size, 0)
           home == AsIfFirst(di)
<1>1. di = x2 /\ di2 = y2 BY DEF Sized
<1>2. home = x4 BY <1>1 DEF AsIfFirst
<1>3. Entry(x1) /\ Entry(y1) BY EntryLemma
<1>4. /\ DOMAIN a = DIFields /\ DOMAIN a2 = DIFields /\ {"size", "addr", "left"} \subseteq DIFields
  BY EntryLemma, DIFieldsLemma
<1>5. /\ x1.size = a.size + size /\ \A field \in DIFields \ {"size"} : x1[field] = a[field]
      /\ y1.size = a2.size + size /\ \A field \in DIFields \ {"size"} : y1[field] = a2[field]
      /\ DOMAIN x1 = DIFields /\ DOMAIN y1 = DIFields
  BY <1>4
<1> HIDE DEF x1, y1
<1>6. Entry(x2) /\ Entry(y2) BY <1>3, EntryLemma
<1>7. /\ x2.addr = at /\ \A field \in DIFields \ {"addr"} : x2[field] = x1[field]
      /\ y2.addr = 0 /\ \A field \in DIFields \ {"addr"} : y2[field] = y1[field]
      /\ DOMAIN x2 = DIFields
  BY <1>4, <1>5
<1> HIDE DEF x2, y2
<1>8. Entry(x3) BY <1>6, EntryLemma
<1>9. x3.addr = 0 /\ (\A field \in DIFields \ {"addr"} : x3[field] = x2[field]) /\ DOMAIN x3 = DIFields BY <1>4, <1>7
<1> HIDE DEF x3
<1>10. Entry(x4) BY <1>8, EntryLemma
<1>11. x4.left = 0 /\ \A field \in DIFields \ {"left"} : x4[field] = x3[field] BY <1>4, <1>9
<1> HIDE DEF x4
<1>12. a2.size + size = a.size + size BY <1>4
<1>13. y2.left = 0 /\ y2.addr = 0 /\ y2.size = a.size + size /\ x4.size = a.size + size /\ x4.addr = 0
  BY <1>4, <1>5, <1>7, <1>9, <1>11, <1>12
<1>14. \A field \in DIFields \ {"left", "addr", "size"} : y2[field] = a[field] /\ x4[field] = a[field]
  BY <1>4, <1>5, <1>7, <1>9, <1>11
<1>15. \A field \in DIFields : y2[field] = x4[field] BY <1>11, <1>13, <1>14
<1>16. y2 = x4 BY <1>6, <1>10, <1>15, EntriesEqual
<1> QED BY <1>1, <1>2, <1>16

LEMMA DroppedEntry == ASSUME NEW code, NEW at PROVE Entry(Dropped(code, at)) /\ Dropped(code, at).left = 0
<1>1. Entry(Cleared) BY DEF Entry, DIFields, Cleared
<1>2. Cleared.left = 0 /\ DOMAIN Cleared = DIFields BY DEF Cleared, DIFields
<1> DEFINE x1 == [Cleared EXCEPT !.ii = Row("I_WAIT", 0)]
           x2 == [x1 EXCEPT !.isc = ISC_INTEGER]
           x3 == [x2 EXCEPT !.ok = TRUE]
<1>3. Entry(x1) /\ x1.left = 0 BY <1>1, <1>2, EntryLemma
<1> HIDE DEF x1
<1>4. Entry(x2) /\ x2.left = 0 BY <1>3, EntryLemma
<1> HIDE DEF x2
<1>5. Entry(x3) /\ x3.left = 0 BY <1>4, EntryLemma
<1>6. Dropped(code, at) = IF code[at + 1] = WAIT THEN x3 ELSE Cleared BY DEF Dropped, x1, x2
<1> HIDE DEF x3
<1> QED BY <1>1, <1>2, <1>5, <1>6

\* What decode_inst makes of a decoding and of its copy.
SameEntry(a, a2) == Entry(a) /\ Entry(a2) /\ a2.left = 0 /\ \A field \in DIFields \ {"left"} : a2[field] = a[field]

LEMMA MadeHome ==
  ASSUME NEW d, NEW d2, NEW b, NEW h, Copies(d, d2, b, h), d.left - h.less = 0, d.ok,
         NEW code, NEW copy, NEW at, NEW at2
  PROVE  SameEntry(AsDInst(d, code, at), AsDInst(d2, copy, at2))
<1> DEFINE f  == [field \in DIFields |-> d[field]]
           f2 == [field \in DIFields |-> d2[field]]
           a  == AsDInst(d, code, at)
           a2 == AsDInst(d2, copy, at2)
<1>1. /\ DOMAIN d = DFields /\ DOMAIN d2 = DFields /\ d2.left = 0 /\ d2.ok
  BY CopiesLemma DEF Within
<1>2. \A field \in DIFields \ {"left"} : d2[field] = d[field]
  BY <1>1, DFieldsLemma, DIFieldsLemma DEF Copies, Moved
<1>3. a = [f EXCEPT !.ii = Row(f.ii.table, f.ii.row)] /\ a2 = [f2 EXCEPT !.ii = Row(f2.ii.table, f2.ii.row)]
  BY <1>1 DEF AsDInst, DIFields
<1>4. Entry(f) /\ Entry(f2) /\ "ii" \in DIFields /\ "left" \in DIFields /\ DOMAIN f = DIFields /\ DOMAIN f2 = DIFields
  BY DIFieldsLemma DEF Entry
<1>5. f2.left = 0 /\ f2.ii = f.ii /\ \A field \in DIFields \ {"left"} : f2[field] = f[field] BY <1>1, <1>2, <1>4
<1> HIDE DEF f, f2, a, a2
<1>6. Entry(a) /\ Entry(a2) BY <1>3, <1>4, EntryLemma
<1>7. a2.left = 0 /\ \A field \in DIFields \ {"left"} : a2[field] = a[field] BY <1>3, <1>4, <1>5
<1> QED BY <1>6, <1>7 DEF SameEntry, a, a2

\* The instruction at `at' is the one its own bytes are, alone.
LEMMA InstructionHome ==
  ASSUME NEW code \in Seq(0 .. 255), NEW copy \in Seq(0 .. 255), NEW dt \in Modes, NEW at \in Nat, NEW rest \in Nat,
         at + rest = Len(code), ~NothingElse(PrefixesAt(code, dt, at, rest), rest),
         NEW n, n = InstructionAt(code, dt, PrefixesAt(code, dt, at, rest), rest).size, Len(copy) = n,
         Excerpt(copy, code, at, n), InstructionAt(code, dt, PrefixesAt(code, dt, at, rest), rest).ok
  PROVE  LET di  == InstructionAt(code, dt, PrefixesAt(code, dt, at, rest), rest)
             ps2 == PrefixesAt(copy, dt, 0, n)
         IN  /\ ~NothingElse(ps2, n)
             /\ InstructionAt(copy, dt, ps2, n) = AsIfFirst(di)
<1> DEFINE ps  == PrefixesAt(code, dt, at, rest)
           ps2 == PrefixesAt(copy, dt, 0, n)
           di  == InstructionAt(code, dt, ps, rest)
           size == PrefixSize(ps)
           d   == DecodedAfter(code, ps.last, rest - size, ps, dt)
           d2  == DecodedAfter(copy, size, n - size, AtHome(ps, at), dt)
           a   == AsDInst(d, code, ps.last)
           a2  == AsDInst(d2, copy, size)
<1>1. IsInstruction(di, ps, Len(code)) BY InstructionLemma
<1>2. ps.start = at /\ size \in 0 .. rest /\ ps.last = at + size BY PrefixesLemma DEF IsPrefixes
<1>3. di = Sized(a, size, at) BY <1>2 DEF InstructionAt, Sized, DecodedAfter
<1> HIDE DEF di
<1>4. n \in size + 1 .. INST_MAXIMUM_SIZE /\ at + n <= Len(code) BY <1>1, <1>2 DEF IsInstruction, End, di
<1> HIDE DEF size
<1>5. n \in Nat /\ size \in Nat /\ n <= rest /\ n <= INST_MAXIMUM_SIZE /\ size < n
  <2>1. size \in Nat /\ n \in Nat /\ n >= size + 1 /\ n <= INST_MAXIMUM_SIZE BY <1>2, <1>4 DEF INST_MAXIMUM_SIZE
  <2> QED BY <1>4, <2>1
<1>6. ps2 = AtHome(ps, at) /\ Known(ps, at) BY <1>5, PrefixesHome DEF size
<1>7. ps2.start = 0 /\ ps2.last = size
  <2>1. Record(ps) BY <1>6 DEF Known
  <2> HIDE DEF ps, ps2
  <2>2. ps2.start = ps.start - at /\ ps2.last = ps.last - at BY <1>6, <2>1, HomeLemma
  <2> QED BY <1>2, <1>5, <2>2
<1> HIDE DEF ps, ps2
<1>8. PrefixSize(ps2) = size BY <1>5, <1>7 DEF PrefixSize
<1>9. ~NothingElse(ps2, n)
  <2>1. size # n /\ size # INST_MAXIMUM_SIZE BY <1>5 DEF INST_MAXIMUM_SIZE
  <2> QED BY <1>8, <2>1 DEF NothingElse
<1>10. InstructionAt(copy, dt, ps2, n) = Sized(a2, size, 0)
  BY <1>6, <1>7, <1>8 DEF InstructionAt, Sized, DecodedAfter
<1>11. DecodesHome(d, d2, size, n) BY <1>2, <1>5, <1>6, DecodeHome, Zenon
<1> HIDE DEF d, d2
<1>12. SameEntry(a, a2)
  <2>1. CASE d.ok
    <3>1. a.size = d.size /\ a.size \in Int /\ DOMAIN a = DIFields
      <4>1. DOMAIN [field \in DIFields |-> d[field]] = DIFields BY DIFieldsLemma
      <4>2. a.size = d.size /\ DOMAIN a = DIFields BY <2>1, <4>1, DIFieldsLemma DEF AsDInst, DIFields
      <4> QED BY <2>1, <1>11, <4>2 DEF DecodesHome
    <3> DEFINE e == a
    <3>2. n = e.size + size
      <4> HIDE DEF e
      <4>1. di.size = e.size + size BY <1>3, <3>1, DIFieldsLemma DEF Sized, e
      <4> QED BY <4>1 DEF di, ps
    <3>3. size + d.size = n BY <1>5, <3>1, <3>2
    <3>4. PICK b, h : Copies(d, d2, b, h) /\ d.left - h.less = 0 BY <1>11, <2>1, <3>3 DEF DecodesHome
    <3> QED BY <2>1, <3>4, MadeHome, Zenon
  <2>2. CASE ~d.ok
    <3>1. a = Dropped(code, ps.last) /\ a2 = Dropped(copy, size) BY <1>11, <2>2 DEF AsDInst, DecodesHome
    <3>2. copy[size + 1] = code[ps.last + 1]
      <4>1. size + 1 \in 1 .. n /\ at + (size + 1) = ps.last + 1 BY <1>2, <1>5
      <4> DEFINE j == size + 1
      <4> HIDE DEF j
      <4>2. copy[j] = code[at + j] BY <4>1 DEF Excerpt, j
      <4> QED BY <4>1, <4>2 DEF j
    <3>3. a2 = a BY <3>1, <3>2 DEF Dropped
    <3> QED BY <3>1, <3>3, DroppedEntry DEF SameEntry
  <2> QED BY <2>1, <2>2
<1> HIDE DEF a, a2
<1>13. Sized(a2, size, 0) = AsIfFirst(Sized(a, size, at)) BY <1>12, NotedHome DEF SameEntry
<1> QED BY <1>3, <1>9, <1>10, <1>13 DEF di, ps, ps2

\* The same with what it supposes and what it says in one name each.
StandsThere(code, copy, dt, at, rest, n) ==
  /\ code \in Seq(0 .. 255) /\ copy \in Seq(0 .. 255) /\ dt \in Modes /\ at \in Nat /\ rest \in Nat
  /\ at + rest = Len(code) /\ ~NothingElse(PrefixesAt(code, dt, at, rest), rest)
  /\ n = InstructionAt(code, dt, PrefixesAt(code, dt, at, rest), rest).size /\ Len(copy) = n
  /\ Excerpt(copy, code, at, n) /\ InstructionAt(code, dt, PrefixesAt(code, dt, at, rest), rest).ok
StandsAlone(di, copy, dt, n) ==
  /\ ~NothingElse(PrefixesAt(copy, dt, 0, n), n)
  /\ InstructionAt(copy, dt, PrefixesAt(copy, dt, 0, n), n) = AsIfFirst(di)

LEMMA StandingAlone ==
  \A code, copy, dt, at, rest, n : StandsThere(code, copy, dt, at, rest, n) =>
    StandsAlone(InstructionAt(code, dt, PrefixesAt(code, dt, at, rest), rest), copy, dt, n)
<1> TAKE code, copy, dt, at, rest, n
<1> HAVE StandsThere(code, copy, dt, at, rest, n)
<1>1. /\ code \in Seq(0 .. 255) /\ copy \in Seq(0 .. 255) /\ dt \in Modes /\ at \in Nat /\ rest \in Nat
      /\ at + rest = Len(code) /\ ~NothingElse(PrefixesAt(code, dt, at, rest), rest)
      /\ n = InstructionAt(code, dt, PrefixesAt(code, dt, at, rest), rest).size /\ Len(copy) = n
      /\ Excerpt(copy, code, at, n) /\ InstructionAt(code, dt, PrefixesAt(code, dt, at, rest), rest).ok
  BY DEF StandsThere
<1> QED BY <1>1, InstructionHome DEF StandsAlone

-----------------------------------------------------------------------------
(* Every entry that is listed is one the decoder has read at its place.    *)

Genuine(di, code, dt) ==
  di.ok => \E rest \in Nat : LET ps == PrefixesAt(code, dt, di.addr, rest)
                             IN  /\ di.addr + rest = Len(code) /\ ~NothingElse(ps, rest)
                                 /\ di = InstructionAt(code, dt, ps, rest)
AllGenuine == \A n \in 1 .. Len(result) : Genuine(result[n], call.code, call.dt)

LEMMA EntriesGenuine ==
  ASSUME IInv, InLoop
  PROVE  \A n \in 1 .. Len(EntriesAt(call, pos)) : Genuine(EntriesAt(call, pos)[n], call.code, call.dt)
<1> DEFINE e  == EntriesAt(call, pos)
           ps == PrefixesAt(call.code, call.dt, pos, left)
           di == InstructionAt(call.code, call.dt, ps, left)
<1>1. IF NothingElse(ps, left) THEN e = Undecoded(pos, PrefixSize(ps)) ELSE e = EntriesOf(ps, di) BY AheadLemma
<1>2. pos \in Nat /\ left \in Nat /\ pos + left = Len(call.code) BY DEF IInv, Placed
<1>3. ps.start = pos /\ PrefixSize(ps) \in 0 .. left BY <1>2, PrefixesLemma DEF IsPrefixes
<1>4. \A k \in Nat : \A n \in 1 .. Len(Undecoded(pos, k)) : Genuine(Undecoded(pos, k)[n], call.code, call.dt)
  <2> TAKE k \in Nat
  <2> DEFINE u == Undecoded(pos, k)
  <2>1. \A n \in 1 .. k : u[n].ok = FALSE BY DEF Undecoded, Cleared
  <2>2. Len(u) = k BY <1>2, UndecodedLemma
  <2> HIDE DEF u
  <2>3. \A n \in 1 .. Len(u) : Genuine(u[n], call.code, call.dt) BY <2>1, <2>2 DEF Genuine
  <2> QED BY <2>3 DEF u
<1>5. di.addr = ps.start
  <2> DEFINE d == Decode(call.code, ps.last, left - PrefixSize(ps), Effective(ps, call.dt), call.dt)
             a == AsDInst(d, call.code, ps.last)
  <2>1. Entry(a)
    <3> DEFINE f == [field \in DIFields |-> d[field]]
    <3> HIDE DEF d
    <3>1. Entry(f) BY DEF Entry
    <3> HIDE DEF f
    <3>2. d.ok => a = [f EXCEPT !.ii = Row(f.ii.table, f.ii.row)] BY DEF AsDInst, DIFields, f
    <3>3. ~d.ok => Entry(a) BY DroppedEntry DEF AsDInst
    <3>4. d.ok => Entry(a) BY <3>1, <3>2, EntryLemma
    <3> QED BY <3>3, <3>4
  <2> HIDE DEF a
  <2>2. "addr" \in DOMAIN a /\ "size" \in DOMAIN a BY <2>1, EntryLemma, DIFieldsLemma
  <2>3. di = [a EXCEPT !.size = @ + PrefixSize(ps), !.addr = ps.start] BY DEF InstructionAt, a
  <2> HIDE DEF di
  <2>4. di.addr = ps.start BY <2>2, <2>3
  <2> QED BY <2>4 DEF di
<1> HIDE DEF ps, di, e
<1>6. CASE NothingElse(ps, left)
  <2>1. PrefixSize(ps) \in Nat /\ e = Undecoded(pos, PrefixSize(ps)) BY <1>1, <1>2, <1>3, <1>6
  <2>2. \A n \in 1 .. Len(e) : Genuine(e[n], call.code, call.dt) BY <1>4, <2>1
  <2> QED BY <2>2 DEF e
<1>7. CASE ~NothingElse(ps, left) /\ ~di.ok
  <2>1. PrefixSize(ps) + 1 \in Nat /\ e = Undecoded(pos, PrefixSize(ps) + 1)
    BY <1>1, <1>2, <1>3, <1>7 DEF EntriesOf, Undecodable
  <2>2. \A n \in 1 .. Len(e) : Genuine(e[n], call.code, call.dt) BY <1>4, <2>1
  <2> QED BY <2>2 DEF e
<1>8. CASE ~NothingElse(ps, left) /\ di.ok
  <2>1. e = <<di>> BY <1>1, <1>8 DEF EntriesOf, Undecodable
  <2>2. \A n \in 1 .. Len(e) : e[n] = di BY <2>1
  <2>3. Genuine(di, call.code, call.dt) BY <1>2, <1>3, <1>5, <1>8 DEF Genuine, ps, di
  <2> QED BY <2>2, <2>3 DEF e
<1> QED BY <1>6, <1>7, <1>8

LEMMA GenuineStep == IInv /\ AllGenuine /\ [Next]_vars => AllGenuine'
<1> SUFFICES ASSUME IInv, AllGenuine, [Next]_vars PROVE AllGenuine' OBVIOUS
<1>1. ASSUME result' = <<>> PROVE AllGenuine' BY <1>1 DEF AllGenuine
<1>2. ASSUME result' = result, call' = call PROVE AllGenuine' BY <1>2 DEF AllGenuine
<1>3. CASE Enter BY <1>1, <1>3 DEF Enter
<1>4. CASE Turn
  <2>1. InLoop /\ call' = call BY <1>4 DEF Turn
  <2>2. (\E n : NoRoom(n) /\ OutOfRoom) \/ Adds(EntriesAt(call, pos)) BY <1>4, TurnLemma
  <2>3. CASE OutOfRoom BY <1>2, <2>1, <2>3 DEF OutOfRoom
  <2>4. CASE Adds(EntriesAt(call, pos))
    <3> DEFINE e == EntriesAt(call, pos)
    <3>1. \A n \in 1 .. Len(e) : Genuine(e[n], call.code, call.dt) BY <2>1, EntriesGenuine
    <3>2. IsListing(e, Len(call.code)) BY <2>1, AheadLemma
    <3>3. result' = result \o Picked(e) BY <2>4 DEF Adds
    <3>4. IsListing(result, Len(call.code)) BY DEF IInv, Listing
    <3> HIDE DEF e
    <3>5. \A n \in 1 .. Len(Picked(e)) : Genuine(Picked(e)[n], call.code, call.dt) BY <3>1 DEF Picked
    <3>6. IsSequence(Picked(e)) /\ IsSequence(result) BY <3>2, <3>4, EmptyListing DEF Picked, IsListing
    <3> DEFINE p == Picked(e)
               u == result \o p
    <3> HIDE DEF p
    <3>7. /\ Len(u) = Len(result) + Len(p) /\ Len(result) \in Nat /\ Len(p) \in Nat
          /\ \A n \in 1 .. Len(result) : u[n] = result[n]
          /\ \A n \in 1 .. Len(p) : u[Len(result) + n] = p[n]
      BY <3>6, ConcatLemma DEF IsSequence, p
    <3> HIDE DEF u
    <3>8. \A n \in 1 .. Len(u) : n \in 1 .. Len(result) \/ (n - Len(result) \in 1 .. Len(p) /\ u[n] = p[n - Len(result)])
      <4> TAKE n \in 1 .. Len(u)
      <4>1. CASE n \in 1 .. Len(result) BY <4>1
      <4>2. CASE n \notin 1 .. Len(result)
        <5>1. n - Len(result) \in 1 .. Len(p) /\ Len(result) + (n - Len(result)) = n BY <3>7, <4>2
        <5> QED BY <3>7, <5>1
      <4> QED BY <4>1, <4>2
    <3>9. \A n \in 1 .. Len(u) : Genuine(u[n], call.code, call.dt) BY <3>5, <3>7, <3>8 DEF AllGenuine, p
    <3>10. result' = u BY <3>3 DEF u, p
    <3> QED BY <2>1, <3>9, <3>10 DEF AllGenuine
  <2> QED BY <2>2, <2>3, <2>4
<1>5. CASE Return BY <1>2, <1>5 DEF Return
<1>6. CASE ResumeMain \/ ResumeDecompose BY <1>1, <1>6 DEF ResumeMain, ResumeDecompose, Resume
<1>7. CASE UNCHANGED vars BY <1>2, <1>7 DEF vars
<1> QED BY <1>3, <1>4, <1>5, <1>6, <1>7 DEF Next

\* The n bytes at `at'.
BytesAt(code, at, n)        == SubSeq(code, at + 1, at + n)
AreBytes(copy, code, at, n) == copy \in Seq(0 .. 255) /\ Len(copy) = n /\ Excerpt(copy, code, at, n)

LEMMA OwnBytesLemma ==
  ASSUME NEW code \in Seq(0 .. 255), NEW at \in Nat, NEW n \in Nat, at + n <= Len(code)
  PROVE  AreBytes(BytesAt(code, at, n), code, at, n)
<1>1. Len(code) \in Nat /\ at + 1 \in 1 .. Len(code) + 1 /\ at + n \in 0 .. Len(code) OBVIOUS
<1>2. DOMAIN code = 1 .. Len(code) /\ \A j \in 1 .. Len(code) : code[j] \in 0 .. 255
  <2> DEFINE S == 0 .. 255
  <2>1. code \in Seq(S) OBVIOUS
  <2> HIDE DEF S
  <2>2. DOMAIN code = 1 .. Len(code) /\ \A j \in 1 .. Len(code) : code[j] \in S BY <2>1
  <2> QED BY <2>2 DEF S
<1> DEFINE bytes == BytesAt(code, at, n)
<1>3. /\ bytes \in Seq(0 .. 255) /\ Len(bytes) = n /\ \A j \in 1 .. n : bytes[j] = code[at + j]
  <2> DEFINE f == [j \in 1 .. n |-> code[at + j]]
  <2>1. bytes = f
    <3>1. \A j \in Int : at + j = (at + 1) + j - 1 OBVIOUS
    <3>2. (at + n) - (at + 1) + 1 = n OBVIOUS
    <3> QED BY <1>1, <3>1, <3>2 DEF BytesAt
  <2> HIDE DEF bytes
  <2>2. \A j \in 1 .. n : at + j \in 1 .. Len(code) BY <1>1
  <2>3. \A j \in 1 .. n : f[j] \in 0 .. 255 /\ f[j] = code[at + j] BY <1>2, <2>2
  <2>4. f \in Seq(0 .. 255) /\ Len(f) = n BY <2>3
  <2> HIDE DEF f
  <2> QED BY <2>1, <2>3, <2>4
<1> QED BY <1>3 DEF AreBytes, Excerpt

LEMMA GenuineIsSelfContained == ASSUME IInv, AllGenuine PROVE SelfContained
<1>0. SelfContained <=> \A di \in Decoded : AsIfFirst(di) = Alone(BytesOf(di)) BY DEF SelfContained, AsIfFirst
<1> SUFFICES ASSUME NEW n \in DOMAIN result, result[n].ok
             PROVE  AsIfFirst(result[n]) = Alone(BytesOf(result[n]))
  BY <1>0 DEF Decoded, Undecodable
<1>1. IsListing(result, Len(call.code)) BY DEF IInv, Listing
<1>2. n \in 1 .. Len(result) /\ result # <<>> /\ IsEntry(result[n], Len(call.code)) BY <1>1 DEF IsListing, IsSequence
<1>3. call.dt \in Modes BY <1>2 DEF IInv, Lawful, Legal
<1>4. call.code \in Seq(0 .. 255) BY CallLemma DEF IInv
<1> DEFINE di == result[n]
           size == di.size
           bytes == BytesAt(call.code, di.addr, size)
           ps2 == PrefixesAt(bytes, call.dt, 0, size)
<1>5. PICK rest \in Nat : LET ps == PrefixesAt(call.code, call.dt, di.addr, rest)
                          IN  /\ di.addr + rest = Len(call.code) /\ ~NothingElse(ps, rest)
                              /\ di = InstructionAt(call.code, call.dt, ps, rest)
  BY <1>2 DEF AllGenuine, Genuine
<1>6. di.addr \in Nat /\ size \in Nat /\ di.addr + size <= Len(call.code)
  <2>1. \A v \in 1 .. 15 : v \in Nat OBVIOUS
  <2>2. size \in 1 .. 15 BY <1>2 DEF IsEntry, INST_MAXIMUM_SIZE
  <2> QED BY <1>2, <2>1, <2>2 DEF IsEntry, End
<1>7. bytes \in Seq(0 .. 255) /\ Len(bytes) = size /\ Excerpt(bytes, call.code, di.addr, size)
  <2>1. AreBytes(bytes, call.code, di.addr, size) BY <1>4, <1>6, OwnBytesLemma, Zenon
  <2> HIDE DEF bytes
  <2> QED BY <2>1 DEF AreBytes
<1> HIDE DEF bytes
<1>8. ~NothingElse(ps2, size) /\ InstructionAt(bytes, call.dt, ps2, size) = AsIfFirst(di)
  <2> DEFINE at == di.addr
             ps == PrefixesAt(call.code, call.dt, at, rest)
  <2>1. InstructionAt(call.code, call.dt, ps, rest) = di BY <1>5
  <2>2. StandsThere(call.code, bytes, call.dt, at, rest, size) BY <1>3, <1>4, <1>5, <1>6, <1>7, <2>1 DEF StandsThere
  <2>3. StandsAlone(InstructionAt(call.code, call.dt, ps, rest), bytes, call.dt, size) BY <2>2, StandingAlone, Zenon
  <2> QED BY <2>1, <2>3 DEF StandsAlone
<1>9. Alone(bytes) = InstructionAt(bytes, call.dt, ps2, size) BY <1>7, <1>8 DEF Alone
<1>10. BytesOf(di) = bytes BY DEF bytes, BytesAt, BytesOf, End
<1> QED BY <1>8, <1>9, <1>10

\* What is said of an instruction is what its own bytes say, wherever it stands and whatever
\* stands around it.
THEOREM OnlyItsBytes == Spec => []SelfContained
<1>1. Init => AllGenuine BY DEF Init, AllGenuine
<1> QED BY <1>1, InitInv, StepInv, GenuineStep, GenuineIsSelfContained, PTL DEF Spec
=============================================================================

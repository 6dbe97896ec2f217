--------------------------- MODULE DisasmPaneProofs ---------------------------
(***************************************************************************)
(* Proofs about DisasmPane, for all sizes of buffers and lines: printing   *)
(* stays inside its buffer, what a process is told of its buffer is true,  *)
(* and the code pane shows this session's listing as far as it fits, or,   *)
(* without memory for one, a line of an earlier session at most.           *)
(***************************************************************************)
EXTENDS DisasmPane, FiniteSetTheorems, SequenceTheorems, WellFoundedInduction, TLAPS

-----------------------------------------------------------------------------
(* Least and greatest numbers, and flattened sequences.                    *)

\* A set of naturals that is not empty has a least element: the smallest of
\* the intervals from 0 to one of its elements ends there.
LEMMA LeastNat ==
  ASSUME NEW S, S \subseteq Nat, S # {}
  PROVE  \E n \in S : \A m \in S : n <= m
<1> DEFINE T == {0..n : n \in S}
<1>1. T \subseteq FiniteSubsetsOf(Nat)
  <2> SUFFICES ASSUME NEW n \in S PROVE 0..n \in FiniteSubsetsOf(Nat)
    OBVIOUS
  <2>1. n \in Nat /\ 0 \in Int /\ n \in Int
    OBVIOUS
  <2>2. IsFiniteSet(0..n)
    BY <2>1, FS_Interval
  <2>3. 0..n \subseteq Nat
    BY <2>1
  <2> QED BY <2>2, <2>3 DEF FiniteSubsetsOf
<1>2. T # {}
  OBVIOUS
<1>3. IsWellFoundedOn(StrictSubsetOrdering(Nat), FiniteSubsetsOf(Nat))
  BY FS_StrictSubsetOrderingWellFounded
<1> HIDE DEF T
<1>4. PICK x \in T : \A y \in T : ~(<<y, x>> \in StrictSubsetOrdering(Nat))
  BY <1>1, <1>2, <1>3, WFMin
<1>5. PICK n \in S : x = 0..n
  BY DEF T
<1>6. ASSUME NEW m \in S, m < n PROVE FALSE
  <2>1. 0..m \in T
    BY DEF T
  <2>2. 0..m \subseteq 0..n /\ 0..m # 0..n
    <3>1. n \in 0..n /\ n \notin 0..m
      BY <1>6
    <3>2. 0..m \subseteq 0..n
      BY <1>6
    <3> QED BY <3>1, <3>2
  <2>3. 0..m \in SUBSET Nat /\ 0..n \in SUBSET Nat
    OBVIOUS
  <2>4. <<0..m, 0..n>> \in StrictSubsetOrdering(Nat)
    BY <2>2, <2>3 DEF StrictSubsetOrdering
  <2> QED BY <2>1, <2>4, <1>4, <1>5
<1> QED BY <1>6

\* Min is that element.
LEMMA MinNat ==
  ASSUME NEW S, S \subseteq Nat, S # {}
  PROVE  Min(S) \in S /\ \A m \in S : Min(S) <= m
<1>1. \E n \in S : \A m \in S : n <= m
  BY LeastNat
<1>2. PICK n \in S : \A m \in S : n <= m
  BY <1>1
<1>3. Min(S) = CHOOSE x \in S : \A y \in S : x =< y
  BY DEF Min
<1> QED
  BY <1>2, <1>3

\* Max is the greatest element, if there is one.
LEMMA MaxNat ==
  ASSUME NEW S, S \subseteq Nat, NEW n \in S, \A m \in S : m <= n
  PROVE  Max(S) \in S /\ \A m \in S : m <= Max(S)
<1>1. \A y \in S : n >= y
  OBVIOUS
<1>2. Max(S) = CHOOSE x \in S : \A y \in S : x >= y
  BY DEF Max
<1>3. Max(S) \in S /\ \A y \in S : Max(S) >= y
  BY <1>1, <1>2
<1> QED
  BY <1>3

\* f is the sequence of what the first, the first two, ... of n sequences
\* give when they are put one behind the other.
Joins(f, seqs, n) == f = [x \in 1..n |-> IF x = 1 THEN seqs[x] ELSE f[x - 1] \o seqs[x]]

LEMMA JoinsExist == ASSUME NEW seqs, NEW n \in Nat PROVE \E f : Joins(f, seqs, n)
<1> DEFINE Bad == {k \in Nat : ~ \E f : Joins(f, seqs, k)}
<1> SUFFICES ASSUME Bad # {} PROVE FALSE
  OBVIOUS
<1>1. PICK k \in Bad : \A m \in Bad : k <= m
  <2>1. Bad \subseteq Nat
    OBVIOUS
  <2> HIDE DEF Bad
  <2> QED
    BY <2>1, LeastNat
<1>2. k \in Nat /\ ~ \E f : Joins(f, seqs, k)
  OBVIOUS
<1>3. k # 0
  <2> DEFINE e == [x \in 1..0 |-> <<>>]
  <2>1. Joins(e, seqs, 0)
    BY DEF Joins
  <2> QED
    BY <1>2, <2>1
<1>4. k - 1 \in Nat /\ k - 1 < k
  BY <1>2, <1>3
<1>5. PICK g : Joins(g, seqs, k - 1)
  BY <1>1, <1>4
<1> DEFINE last == IF k = 1 THEN seqs[k] ELSE g[k - 1] \o seqs[k]
           f    == [x \in 1..k |-> IF x = k THEN last ELSE g[x]]
<1>6. \A x \in 1..k : f[x] = IF x = 1 THEN seqs[x] ELSE f[x - 1] \o seqs[x]
  <2> SUFFICES ASSUME NEW x \in 1..k PROVE f[x] = IF x = 1 THEN seqs[x] ELSE f[x - 1] \o seqs[x]
    OBVIOUS
  <2>1. CASE x = k
    <3>1. f[x] = last
      BY <2>1
    <3>2. CASE k = 1
      BY <2>1, <3>1, <3>2
    <3>3. CASE k # 1
      <4>1. k - 1 \in 1..k /\ k - 1 # k
        BY <1>2, <1>3, <3>3
      <4>2. f[k - 1] = g[k - 1]
        BY <4>1
      <4> QED
        BY <2>1, <3>1, <3>3, <4>2
    <3> QED
      BY <3>2, <3>3
  <2>2. CASE x # k
    <3>1. x \in 1..(k - 1)
      BY <1>2, <2>2
    <3>2. f[x] = g[x]
      BY <2>2
    <3>3. g[x] = IF x = 1 THEN seqs[x] ELSE g[x - 1] \o seqs[x]
      BY <1>5, <3>1 DEF Joins
    <3>4. x # 1 => x - 1 \in 1..k /\ x - 1 # k
      BY <1>2, <3>1
    <3>5. x # 1 => f[x - 1] = g[x - 1]
      BY <3>4
    <3> QED
      BY <3>2, <3>3, <3>5
  <2> QED
    BY <2>1, <2>2
<1>7. f = [x \in 1..k |-> IF x = 1 THEN seqs[x] ELSE f[x - 1] \o seqs[x]]
  <2>1. f = [x \in 1..k |-> f[x]]
    OBVIOUS
  <2> HIDE DEF f
  <2> QED
    BY <1>6, <2>1
<1>8. Joins(f, seqs, k)
  BY <1>7 DEF Joins
<1> QED
  BY <1>2, <1>8

\* It depends on the sequences up to there only.
LEMMA JoinsAgree ==
  \A s, t, f, g : \A n, m \in Nat :
    /\ n <= m /\ \A x \in 1..n : s[x] = t[x]
    /\ Joins(f, s, n) /\ Joins(g, t, m)
    => \A x \in 1..n : f[x] = g[x]
<1> SUFFICES ASSUME NEW s, NEW t, NEW f, NEW g, NEW n \in Nat, NEW m \in Nat,
                    n <= m, \A x \in 1..n : s[x] = t[x], Joins(f, s, n), Joins(g, t, m)
             PROVE  \A x \in 1..n : f[x] = g[x]
  OBVIOUS
<1> DEFINE Bad == {x \in 1..n : f[x] # g[x]}
<1> SUFFICES ASSUME Bad # {} PROVE FALSE
  OBVIOUS
<1>1. PICK k \in Bad : \A x \in Bad : k <= x
  <2>1. Bad \subseteq Nat
    OBVIOUS
  <2> HIDE DEF Bad
  <2> QED
    BY <2>1, LeastNat
<1>2. k \in 1..n /\ f[k] # g[k] /\ k \in 1..m /\ s[k] = t[k]
  OBVIOUS
<1>3. /\ f[k] = IF k = 1 THEN s[k] ELSE f[k - 1] \o s[k]
      /\ g[k] = IF k = 1 THEN t[k] ELSE g[k - 1] \o t[k]
  BY <1>2 DEF Joins
<1>4. k # 1
  BY <1>2, <1>3
<1>5. k - 1 \in 1..n /\ ~(k <= k - 1)
  BY <1>2, <1>4
<1>6. f[k - 1] = g[k - 1]
  BY <1>1, <1>5
<1> QED
  BY <1>2, <1>3, <1>4, <1>6

LEMMA JoinsType ==
  ASSUME NEW S, NEW n \in Nat, NEW s, \A x \in 1..n : s[x] \in Seq(S), NEW f, Joins(f, s, n)
  PROVE  \A x \in 1..n : f[x] \in Seq(S)
<1> DEFINE Bad == {x \in 1..n : f[x] \notin Seq(S)}
<1> SUFFICES ASSUME Bad # {} PROVE FALSE
  OBVIOUS
<1>1. PICK k \in Bad : \A x \in Bad : k <= x
  <2>1. Bad \subseteq Nat
    OBVIOUS
  <2> HIDE DEF Bad
  <2> QED
    BY <2>1, LeastNat
<1>2. k \in 1..n /\ f[k] \notin Seq(S) /\ s[k] \in Seq(S)
  OBVIOUS
<1>3. f[k] = IF k = 1 THEN s[k] ELSE f[k - 1] \o s[k]
  BY <1>2 DEF Joins
<1>4. k # 1
  BY <1>2, <1>3
<1>5. k - 1 \in 1..n /\ ~(k <= k - 1)
  BY <1>2, <1>4
<1>6. f[k - 1] \in Seq(S)
  BY <1>1, <1>5
<1>7. f[k - 1] \o s[k] \in Seq(S)
  BY <1>2, <1>6, ConcatProperties
<1> QED
  BY <1>2, <1>3, <1>4, <1>7

LEMMA FlattenJoins ==
  ASSUME NEW seqs, Len(seqs) \in Nat, Len(seqs) # 0
  PROVE  \E f : Joins(f, seqs, Len(seqs)) /\ FlattenSeq(seqs) = f[Len(seqs)]
<1> DEFINE f == CHOOSE f : f = [x \in 1..Len(seqs) |-> IF x = 1 THEN seqs[x] ELSE f[x - 1] \o seqs[x]]
<1>1. \E g : g = [x \in 1..Len(seqs) |-> IF x = 1 THEN seqs[x] ELSE g[x - 1] \o seqs[x]]
  BY JoinsExist DEF Joins
<1>2. Joins(f, seqs, Len(seqs))
  BY <1>1 DEF Joins
<1>3. FlattenSeq(seqs) = f[Len(seqs)]
  BY DEF FlattenSeq
<1> QED
  BY <1>2, <1>3

\* Flattened, one more sequence is put behind what the others give.
LEMMA FlattenAppend ==
  ASSUME NEW S, NEW seqs \in Seq(Seq(S)), NEW s \in Seq(S)
  PROVE  /\ FlattenSeq(seqs) \in Seq(S)
         /\ FlattenSeq(Append(seqs, s)) = FlattenSeq(seqs) \o s
<1> DEFINE n == Len(seqs)
           more == Append(seqs, s)
<1>1. /\ n \in Nat /\ Len(more) = n + 1 /\ more[n + 1] = s
      /\ \A x \in 1..n : more[x] = seqs[x] /\ seqs[x] \in Seq(S)
  OBVIOUS
<1>2. PICK g : Joins(g, more, n + 1) /\ FlattenSeq(more) = g[n + 1]
  <2>1. Len(more) \in Nat /\ Len(more) # 0
    BY <1>1
  <2> HIDE DEF more, n
  <2>2. \E g : Joins(g, more, Len(more)) /\ FlattenSeq(more) = g[Len(more)]
    BY <2>1, FlattenJoins
  <2> QED
    BY <1>1, <2>2
<1>3. g[n + 1] = IF n + 1 = 1 THEN more[n + 1] ELSE g[(n + 1) - 1] \o more[n + 1]
  <2>1. n + 1 \in 1..(n + 1)
    BY <1>1
  <2> HIDE DEF more, n
  <2> QED
    BY <1>2, <2>1 DEF Joins
<1>4. CASE n = 0
  <2>1. seqs = <<>>
    BY <1>4, EmptySeq
  <2>2. FlattenSeq(seqs) = <<>>
    BY <1>4, <2>1 DEF FlattenSeq
  <2>3. FlattenSeq(more) = s
    BY <1>1, <1>2, <1>3, <1>4
  <2>4. <<>> \o s = s
    BY ConcatEmptySeq
  <2> QED
    BY <2>2, <2>3, <2>4
<1>5. CASE n # 0
  <2>1. PICK f : Joins(f, seqs, n) /\ FlattenSeq(seqs) = f[n]
    BY <1>1, <1>5, FlattenJoins
  <2>2. n \in 1..n /\ (n + 1) - 1 = n /\ n <= n + 1 /\ n + 1 \in Nat /\ n + 1 # 1
    BY <1>1, <1>5
  <2> HIDE DEF more, n
  <2>3. f[n] \in Seq(S)
    BY <1>1, <2>1, <2>2, JoinsType
  <2>4. f[n] = g[n]
    <3>1. Joins(f, seqs, n) /\ Joins(g, more, n + 1) /\ \A x \in 1..n : seqs[x] = more[x]
      BY <1>1, <1>2, <2>1
    <3>2. PICK m \in Nat : m = n + 1 /\ n <= m
      BY <2>2
    <3>3. n \in Nat /\ Joins(g, more, m)
      BY <1>1, <3>1, <3>2
    <3>4. \A x \in 1..n : f[x] = g[x]
      BY <3>1, <3>2, <3>3, JoinsAgree
    <3> QED
      BY <2>2, <3>4
  <2>5. g[n + 1] = g[n] \o s
    BY <1>1, <1>3, <2>2
  <2> QED
    BY <1>2, <2>1, <2>3, <2>4, <2>5 DEF more
<1> QED
  BY <1>4, <1>5

\* What a number of lines give, one behind the other, begins with what fewer of
\* them give.
LEMMA FlattenPrefix ==
  ASSUME NEW S, NEW seqs \in Seq(Seq(S)), NEW k \in 0..Len(seqs)
  PROVE  LET part == FlattenSeq(SubSeq(seqs, 1, k)) whole == FlattenSeq(seqs) IN
         /\ part \in Seq(S) /\ whole \in Seq(S) /\ Len(part) <= Len(whole)
         /\ \A a \in 1..Len(part) : part[a] = whole[a]
<1> DEFINE n == Len(seqs)
           Part(j) == FlattenSeq(SubSeq(seqs, 1, j))
           Begins(j) == /\ Len(Part(k)) <= Len(Part(j))
                        /\ \A a \in 1..Len(Part(k)) : Part(k)[a] = Part(j)[a]
           Bad == {j \in k..n : ~Begins(j)}
<1>1. n \in Nat /\ k \in Nat /\ k <= n
  OBVIOUS
<1>2. \A j \in 0..n : /\ SubSeq(seqs, 1, j) \in Seq(Seq(S))
                      /\ Part(j) \in Seq(S)
  <2> SUFFICES ASSUME NEW j \in 0..n
               PROVE  SubSeq(seqs, 1, j) \in Seq(Seq(S)) /\ Part(j) \in Seq(S)
    OBVIOUS
  <2>1. \A x \in 1..j : seqs[x] \in Seq(S)
    BY <1>1
  <2>2. SubSeq(seqs, 1, j) \in Seq(Seq(S))
    <3>1. j \in Int /\ 1 \in Int
      OBVIOUS
    <3> QED
      BY ONLY <2>1, <3>1, SubSeqProperties, SMT
  <2>3. <<>> \in Seq(S)
    OBVIOUS
  <2>4. Part(j) \in Seq(S)
    BY ONLY <2>2, <2>3, FlattenAppend DEF Part
  <2> QED
    BY <2>2, <2>4
<1>3. \A j \in 1..n : Part(j) = Part(j - 1) \o seqs[j] /\ seqs[j] \in Seq(S)
  <2> SUFFICES ASSUME NEW j \in 1..n PROVE Part(j) = Part(j - 1) \o seqs[j] /\ seqs[j] \in Seq(S)
    OBVIOUS
  <2>1. j \in Int /\ 1 \in Int /\ j - 1 \in 0..n /\ seqs[j] \in Seq(S) /\ 1 <= j
    BY <1>1
  <2>2. SubSeq(seqs, 1, j) = Append(SubSeq(seqs, 1, j - 1), seqs[j])
    BY <1>1, <2>1
  <2> HIDE DEF n
  <2> QED
    BY <1>2, <2>1, <2>2, FlattenAppend
<1>4. Part(n) = FlattenSeq(seqs)
  <2>1. SubSeq(seqs, 1, Len(seqs)) = seqs
    BY SubSeqFull
  <2> QED
    BY <2>1
<1> HIDE DEF Part, n
<1>5. Bad = {}
  <2> SUFFICES ASSUME Bad # {} PROVE FALSE
    OBVIOUS
  <2>1. Bad \subseteq Nat
    BY <1>1
  <2>2. PICK j \in Bad : \A x \in Bad : j <= x
    <3> HIDE DEF Bad
    <3> QED
      BY <2>1, LeastNat
  <2>3. j \in k..n /\ ~Begins(j)
    OBVIOUS
  <2>4. Begins(k)
    <3>1. Len(Part(k)) \in Nat
      BY <1>1, <1>2
    <3> QED
      BY <3>1
  <2>5. j # k
    BY <2>3, <2>4
  <2>6. j \in 1..n /\ j - 1 \in k..n /\ ~(j <= j - 1) /\ j - 1 \in 0..n
    BY <1>1, <2>3, <2>5
  <2>7. Begins(j - 1)
    BY <2>2, <2>6
  <2>8. /\ Len(Part(j - 1)) <= Len(Part(j))
        /\ \A a \in 1..Len(Part(j - 1)) : Part(j)[a] = Part(j - 1)[a]
    <3> DEFINE p == Part(j - 1)
               q == seqs[j]
    <3>1. p \in Seq(S) /\ q \in Seq(S) /\ Part(j) = p \o q
      BY <1>2, <1>3, <2>6
    <3> HIDE DEF p, q
    <3>2. /\ Len(p \o q) = Len(p) + Len(q) /\ Len(p) \in Nat /\ Len(q) \in Nat
          /\ \A a \in 1..Len(p) : (p \o q)[a] = p[a]
      BY <3>1, ConcatProperties
    <3> QED
      BY <3>1, <3>2 DEF p
  <2>9. Len(Part(k)) \in Nat /\ Len(Part(j)) \in Nat /\ Len(Part(j - 1)) \in Nat
    BY <1>1, <1>2, <2>6
  <2> QED
    BY <2>3, <2>7, <2>8, <2>9
<1>6. Begins(n)
  <2>1. n \in k..n
    BY <1>1
  <2> QED
    BY <1>5, <2>1
<1> QED
  BY <1>1, <1>2, <1>4, <1>6 DEF Part, n

-----------------------------------------------------------------------------
(* The sizes of the program's buffers, and what snprintf does to one.      *)

Biggest == Max({TempSize} \cup BufSizes)
Longest == Max(LineSizes)

LEMMA Sizes ==
  /\ TempSize \in Nat /\ 1 <= TempSize /\ TempSize <= Biggest
  /\ Biggest \in Nat /\ Longest \in Nat /\ Max(BufSizes) \in Nat
  /\ \A b \in BufSizes : b \in Nat /\ b <= Max(BufSizes) /\ b <= Biggest
  /\ \A l \in LineSizes : l \in Nat /\ 1 <= l /\ l <= Longest
  /\ Cells = 0 .. 2 * Biggest + Longest
<1> USE SizesAssumption
<1>1. PICK b \in BufSizes : \A c \in BufSizes : c <= b
  OBVIOUS
<1>2. PICK l \in LineSizes : \A k \in LineSizes : k <= l
  OBVIOUS
<1>3. BufSizes \subseteq Nat /\ LineSizes \subseteq Nat
  OBVIOUS
<1>4. Longest \in LineSizes /\ \A k \in LineSizes : k <= Longest
  BY <1>2, <1>3, MaxNat DEF Longest
<1>5. Max(BufSizes) \in BufSizes /\ \A c \in BufSizes : c <= Max(BufSizes)
  BY <1>1, <1>3, MaxNat
<1>6. Biggest \in {TempSize} \cup BufSizes /\ \A c \in {TempSize} \cup BufSizes : c <= Biggest
  <2> DEFINE all == {TempSize} \cup BufSizes
  <2>1. \E c \in all : \A d \in all : d <= c
    <3>1. CASE b <= TempSize
      BY <1>1, <1>3, <3>1
    <3>2. CASE ~(b <= TempSize)
      BY <1>1, <1>3, <3>2
    <3> QED
      BY <3>1, <3>2
  <2>2. PICK c \in all : \A d \in all : d <= c
    BY <2>1
  <2>3. all \subseteq Nat
    OBVIOUS
  <2> HIDE DEF all
  <2>4. Max(all) \in all /\ \A d \in all : d <= Max(all)
    BY <2>2, <2>3, MaxNat
  <2> QED
    BY <2>4 DEF all, Biggest
<1>7. TempSize \in Nat /\ 1 <= TempSize
  OBVIOUS
<1>8. Biggest \in Nat /\ Longest \in Nat /\ Max(BufSizes) \in Nat
  BY <1>3, <1>4, <1>5, <1>6, <1>7
<1>9. Cells = 0 .. 2 * Biggest + Longest
  BY DEF Cells, Biggest, Longest
<1>10. \A k \in LineSizes : k \in Nat /\ 1 <= k /\ k <= Longest
  BY <1>4
<1> QED
  BY <1>3, <1>5, <1>6, <1>7, <1>8, <1>9, <1>10

\* The room in a buffer that is not full is a number the unsigned subtraction
\* gives as it is.
LEMMA RoomIsRest ==
  ASSUME NEW size \in Nat, NEW start \in Nat, start < size, size <= Biggest
  PROVE  (size - start) % (2 * Biggest) = size - start
<1>1. Biggest \in Nat
  BY Sizes
<1>2. \A x, n \in Nat : x < n => x % n = x
  OBVIOUS
<1>3. size - start \in Nat /\ 2 * Biggest \in Nat /\ size - start < 2 * Biggest
  BY <1>1
<1> QED
  BY <1>2, <1>3

Least(m, n) == IF m <= n THEN m ELSE n

LEMMA SnprintfDoes ==
  ASSUME NEW b \in [Cells -> Values], NEW size \in Nat, NEW start \in Nat, start < size,
         size <= Biggest, NEW s \in Seq(Values)
  PROVE  LET r == Snprintf(b, start, size - start, s)
             last == Least(start + Len(s), size - 1) IN
         /\ r \in [Cells -> Values]
         /\ last \in start .. size - 1 /\ r[last] = NUL
         /\ \A a \in start .. last - 1 : r[a] = s[a - start + 1]
         /\ \A a \in Cells : a < start \/ a >= size => r[a] = b[a]
<1> DEFINE r == Snprintf(b, start, size - start, s)
           last == Least(start + Len(s), size - 1)
           written == IF Len(s) < size - start THEN Len(s) ELSE size - start - 1
<1>1. /\ Biggest \in Nat /\ Longest \in Nat /\ Cells = 0 .. 2 * Biggest + Longest
      /\ Len(s) \in Nat
  BY Sizes
<1>2. written \in Nat /\ last = start + written /\ last \in start .. size - 1 /\ written <= Len(s)
  <2>1. \A len \in Nat : /\ len < size - start => len \in 0 .. size - start - 1
                         /\ ~(len < size - start) => size - start - 1 \in 0 .. len
    OBVIOUS
  <2>2. CASE Len(s) < size - start
    BY <1>1, <2>1, <2>2 DEF Least
  <2>3. CASE ~(Len(s) < size - start)
    BY <1>1, <2>1, <2>3 DEF Least
  <2> QED
    BY <2>2, <2>3
<1>3. r = [a \in Cells |-> IF a \in start .. start + written - 1 THEN s[a - start + 1]
                           ELSE IF a = start + written THEN NUL ELSE b[a]]
  BY DEF Snprintf
<1> HIDE DEF r, last, written
<1>4. NUL \in Values /\ \A k \in 1 .. Len(s) : s[k] \in Values
  BY DEF Values
<1>5. r \in [Cells -> Values]
  <2> SUFFICES ASSUME NEW a \in Cells PROVE r[a] \in Values
    BY <1>3
  <2>1. CASE a \in start .. start + written - 1
    <3>1. a - start + 1 \in 1 .. Len(s)
      BY <1>1, <1>2, <2>1
    <3> QED
      BY <1>3, <1>4, <2>1, <3>1
  <2>2. CASE ~(a \in start .. start + written - 1)
    BY <1>3, <1>4, <2>2
  <2> QED
    BY <2>1, <2>2
<1>6. r[last] = NUL
  BY <1>1, <1>2, <1>3
<1>7. \A a \in start .. last - 1 : r[a] = s[a - start + 1]
  BY <1>1, <1>2, <1>3
<1>8. \A a \in Cells : a < start \/ a >= size => r[a] = b[a]
  BY <1>1, <1>2, <1>3
<1> QED
  BY <1>2, <1>5, <1>6, <1>7, <1>8 DEF r, last

-----------------------------------------------------------------------------
(* Printing stays in its buffer.                                           *)

\* What there is room for: the argument of ice_disasm_format is the size of the
\* buffer, and temp always holds a NUL where print_code reads on.
RoomInv ==
  /\ attr \in Seq(LineSizes)
  /\ pc \in {"pane", "ioctl"} => round >= 1
  /\ pc = "pane" => buf_size = TempSize
  /\ pc = "ioctl" => buf_size \in BufSizes
  /\ \E a \in 0 .. TempSize - 1 : temp[a] = NUL
  /\ pc = "print" => \E a \in temp1 .. TempSize - 1 : temp[a] = NUL

PlaceInv == InBounds /\ RoomInv

\* The characters of the lines.
Written == Values \ {NUL}

LEMMA TextType ==
  ASSUME attr \in Seq(LineSizes), Len(attr) <= MaxCount, round \in 1 .. MaxRounds, NEW line \in DOMAIN attr
  PROVE  /\ Text(line) \in Seq(Written) /\ Text(line) \in Seq(Values)
         /\ Len(Text(line)) = attr[line] /\ attr[line] \in LineSizes
<1>1. attr[line] \in LineSizes /\ line \in 1 .. Len(attr) /\ Len(attr) \in Nat
  OBVIOUS
<1>2. attr[line] \in Nat
  BY <1>1, Sizes
<1>3. Char(line) \in Written
  <2>1. line \in 1 .. MaxCount
    BY <1>1, SizesAssumption
  <2>2. <<round, line>> \in (1 .. MaxRounds) \X (1 .. MaxCount)
    BY <2>1
  <2>3. <<round, line>> # <<0, 0>>
    BY SizesAssumption
  <2> QED
    BY <2>2, <2>3 DEF Char, Written, Values, NUL
<1>4. NL \in Written
  BY DEF NL, NUL, Written, Values
<1> DEFINE n == attr[line]
           text == [k \in 1 .. n |-> IF k = n THEN NL ELSE Char(line)]
<1>5. text = Text(line)
  BY DEF Text
<1>6. \A k \in 1 .. n : (IF k = n THEN NL ELSE Char(line)) \in Written
  BY <1>3, <1>4
<1>7. Written \subseteq Values
  BY DEF Written
<1>8. n \in Nat
  BY <1>2
<1> HIDE DEF n
<1>9. text \in Seq(Written) /\ Len(text) = n
  BY <1>6, <1>8
<1>10. text \in Seq(Values)
  BY <1>6, <1>7, <1>8
<1> QED
  BY <1>1, <1>5, <1>9, <1>10 DEF n

\* One turn of the loop is one snprintf of the whole room.
LEMMA FormatLineDoes ==
  ASSUME PlaceInv, FormatLine
  PROVE  /\ i \in DOMAIN attr /\ round \in 1 .. MaxRounds
         /\ Text(i) \in Seq(Written) /\ Text(i) \in Seq(Values) /\ Len(Text(i)) = attr[i]
         /\ attr[i] \in LineSizes
         /\ buf_size \in Nat /\ buf_size <= Biggest /\ cur_size \in Nat /\ cur_size < buf_size
         /\ pc = "pane" => temp' = Snprintf(temp, cur_size, buf_size - cur_size, Text(i)) /\ kbuf' = kbuf
         /\ pc = "ioctl" => kbuf' = Snprintf(kbuf, cur_size, buf_size - cur_size, Text(i)) /\ temp' = temp
<1>1. /\ pc \in {"pane", "ioctl"} /\ i <= Len(attr) /\ cur_size < buf_size
      /\ i \in 1 .. MaxCount + 1 /\ attr \in Seq(LineSizes) /\ Len(attr) <= MaxCount
      /\ round \in 0 .. MaxRounds /\ round >= 1
      /\ pc = "pane" => buf_size = TempSize
      /\ pc = "ioctl" => buf_size \in BufSizes
      /\ cur_size \in 0 .. buf_size + Max(LineSizes)
  BY DEF PlaceInv, InBounds, TypeOK, RoomInv, FormatLine, HasRoom
<1>2. buf_size \in Nat /\ buf_size <= Biggest /\ cur_size \in Nat
  BY <1>1, Sizes DEF Longest
<1>3. i \in DOMAIN attr /\ round \in 1 .. MaxRounds
  <2>1. Len(attr) \in Nat /\ DOMAIN attr = 1 .. Len(attr)
    BY <1>1
  <2>2. MaxRounds \in Nat /\ MaxCount \in Nat
    BY SizesAssumption
  <2> QED
    BY <1>1, <2>1, <2>2
<1>4. (buf_size - cur_size) % (2 * Max({TempSize} \cup BufSizes)) = buf_size - cur_size
  BY <1>1, <1>2, RoomIsRest DEF Biggest
<1>5. /\ pc = "pane" => temp' = Snprintf(temp, cur_size, buf_size - cur_size, Text(i)) /\ kbuf' = kbuf
      /\ pc = "ioctl" => kbuf' = Snprintf(kbuf, cur_size, buf_size - cur_size, Text(i)) /\ temp' = temp
  BY <1>1, <1>4 DEF FormatLine
<1> QED
  BY <1>1, <1>2, <1>3, <1>5, TextType

\* temp2 stops at the first newline or NUL.
LEMMA EndOfDoes ==
  ASSUME temp \in [Cells -> Values], NEW start \in Nat, NEW z \in start .. TempSize - 1, temp[z] = NUL
  PROVE  /\ EndOf(start) \in start .. z /\ temp[EndOf(start)] \in {NL, NUL}
         /\ \A a \in start .. EndOf(start) - 1 : temp[a] \notin {NL, NUL}
<1> DEFINE stops == {a \in Cells : a >= start /\ temp[a] \in {NL, NUL}}
<1>1. /\ Cells = 0 .. 2 * Biggest + Longest /\ Biggest \in Nat /\ Longest \in Nat
      /\ TempSize \in Nat /\ TempSize <= Biggest
  BY Sizes
<1>2. z \in stops /\ stops \subseteq Nat
  BY <1>1
<1>3. EndOf(start) = Min(stops)
  BY DEF EndOf
<1>4. \A a \in Nat : a \in start .. z /\ temp[a] \in {NL, NUL} => a \in stops
  BY <1>1
<1>5. \A a \in stops : a >= start /\ temp[a] \in {NL, NUL}
  OBVIOUS
<1> HIDE DEF stops
<1>6. Min(stops) \in stops /\ \A a \in stops : Min(stops) <= a
  BY <1>2, MinNat
<1>7. EndOf(start) \in start .. z
  <2> DEFINE end == EndOf(start)
  <2>1. end \in stops /\ end <= z
    BY <1>2, <1>3, <1>6
  <2>2. end \in Nat /\ end >= start /\ z \in Nat
    BY <1>2, <1>5, <2>1
  <2> HIDE DEF end
  <2>3. end \in start .. z
    BY <2>1, <2>2
  <2> QED
    BY <2>3 DEF end
<1>8. \A a \in start .. EndOf(start) - 1 : temp[a] \notin {NL, NUL}
  <2> SUFFICES ASSUME NEW a \in start .. EndOf(start) - 1, temp[a] \in {NL, NUL} PROVE FALSE
    OBVIOUS
  <2>1. a \in Nat /\ a \in start .. z /\ ~(EndOf(start) <= a)
    BY <1>1, <1>7
  <2> QED
    BY <1>3, <1>4, <1>6, <2>1
<1> QED
  BY <1>3, <1>5, <1>6, <1>7, <1>8

LEMMA CStringDoes ==
  ASSUME NEW b \in [Cells -> Values], NEW start \in Nat, NEW z \in Cells, start <= z, b[z] = NUL,
         \A a \in start .. z - 1 : b[a] # NUL
  PROVE  /\ CString(b, start) \in Seq(Values) /\ Len(CString(b, start)) = z - start
         /\ \A k \in 1 .. z - start : CString(b, start)[k] = b[start + k - 1]
<1> DEFINE ends == {a \in Cells : a >= start /\ b[a] = NUL}
           end  == Min(ends)
<1>1. Cells = 0 .. 2 * Biggest + Longest /\ Biggest \in Nat /\ Longest \in Nat
  BY Sizes
<1>2. z \in ends /\ ends \subseteq Nat /\ \A a \in ends : a >= z
  BY <1>1
<1>3. CString(b, start) = [k \in 1 .. end - start |-> b[start + k - 1]]
  BY DEF CString
<1> HIDE DEF ends
<1>4. end \in ends /\ \A a \in ends : end <= a
  BY <1>2, MinNat
<1>5. end = z
  <2> HIDE DEF end
  <2>1. end \in Nat /\ z \in Nat /\ end <= z /\ end >= z
    BY <1>1, <1>2, <1>4
  <2> QED
    BY <2>1
<1> HIDE DEF end
<1>6. z - start \in Nat /\ \A k \in 1 .. z - start : start + k - 1 \in Cells
  BY <1>1
<1>7. \A k \in 1 .. z - start : b[start + k - 1] \in Values
  BY <1>6
<1> QED
  BY <1>3, <1>5, <1>6, <1>7

\* One turn of print_code takes the characters up to the next newline or NUL.
LEMMA PrintLineDoes ==
  ASSUME PlaceInv, PrintLine
  PROVE  \E temp2 \in temp1 .. TempSize - 1 :
           /\ \A a \in temp1 .. temp2 - 1 : temp[a] \notin {NL, NUL}
           /\ \/ /\ temp[temp2] = NUL
                 /\ pc' = "idle" /\ temp' = temp /\ temp1' = temp1
              \/ /\ temp[temp2] = NL /\ \E z \in temp2 + 1 .. TempSize - 1 : temp[z] = NUL
                 /\ pc' = pc /\ temp' = [temp EXCEPT ![temp2] = NUL] /\ temp1' = temp2 + 1
           /\ shown' = Append(shown, CString(temp', temp1))
           /\ CString(temp', temp1) \in Seq(Values) /\ Len(CString(temp', temp1)) = temp2 - temp1
           /\ \A k \in 1 .. temp2 - temp1 : CString(temp', temp1)[k] = temp[temp1 + k - 1]
<1> DEFINE temp2 == EndOf(temp1)
<1>1. pc = "print" /\ temp1 \in 0 .. TempSize - 1 /\ temp \in [Cells -> Values]
  BY DEF PlaceInv, InBounds, TypeOK, PrintLine
<1>2. PICK z \in temp1 .. TempSize - 1 : temp[z] = NUL
  BY <1>1 DEF PlaceInv, RoomInv
<1>3. /\ Cells = 0 .. 2 * Biggest + Longest /\ Biggest \in Nat /\ Longest \in Nat
      /\ TempSize \in Nat /\ TempSize <= Biggest /\ temp1 \in Nat /\ z \in Nat
  BY <1>1, Sizes
<1>4. /\ temp2 \in temp1 .. z /\ temp[temp2] \in {NL, NUL}
      /\ \A a \in temp1 .. temp2 - 1 : temp[a] \notin {NL, NUL}
  BY <1>1, <1>2, <1>3, EndOfDoes
<1>5. temp2 \in Cells /\ temp2 \in temp1 .. TempSize - 1 /\ temp1 <= temp2
  BY <1>3, <1>4
<1>6. /\ shown' = Append(shown, CString(temp', temp1))
      /\ \/ /\ temp[temp2] = NUL
            /\ pc' = "idle" /\ temp' = temp /\ temp1' = temp1
         \/ /\ temp[temp2] # NUL
            /\ pc' = pc /\ temp' = [temp EXCEPT ![temp2] = NUL] /\ temp1' = temp2 + 1
  BY DEF PrintLine, CutAt
<1> HIDE DEF temp2
<1>7. temp[temp2] # NUL => temp[temp2] = NL /\ z \in temp2 + 1 .. TempSize - 1
  BY <1>2, <1>3, <1>4
<1>8. /\ temp' \in [Cells -> Values] /\ temp'[temp2] = NUL
      /\ \A a \in Cells \ {temp2} : temp'[a] = temp[a]
  <2>1. NUL \in Values
    BY DEF Values
  <2> QED
    BY <1>1, <1>5, <1>6, <2>1
<1>9. \A a \in temp1 .. temp2 - 1 : a \in Cells \ {temp2}
  BY <1>3, <1>5
<1>10. \A a \in temp1 .. temp2 - 1 : temp'[a] # NUL
  BY <1>4, <1>8, <1>9
<1> DEFINE b == temp'
<1>11. /\ CString(b, temp1) \in Seq(Values) /\ Len(CString(b, temp1)) = temp2 - temp1
       /\ \A k \in 1 .. temp2 - temp1 : CString(b, temp1)[k] = b[temp1 + k - 1]
  <2>1. b \in [Cells -> Values] /\ b[temp2] = NUL /\ \A a \in temp1 .. temp2 - 1 : b[a] # NUL
    BY <1>8, <1>10
  <2> HIDE DEF b
  <2> QED
    BY <1>3, <1>5, <2>1, CStringDoes, ZenonT(40)
<1>12. \A k \in 1 .. temp2 - temp1 : temp'[temp1 + k - 1] = temp[temp1 + k - 1]
  <2>1. \A k \in 1 .. temp2 - temp1 : temp1 + k - 1 \in temp1 .. temp2 - 1
    BY <1>3, <1>5
  <2> QED
    BY <1>8, <1>9, <2>1
<1>13. temp[temp2] # NUL => \E y \in temp2 + 1 .. TempSize - 1 : temp[y] = NUL
  BY <1>2, <1>7
<1> QED
  <2>1. \A k \in 1 .. temp2 - temp1 : CString(temp', temp1)[k] = temp[temp1 + k - 1]
    BY <1>11, <1>12
  <2>2. \/ /\ temp[temp2] = NUL
           /\ pc' = "idle" /\ temp' = temp /\ temp1' = temp1
        \/ /\ temp[temp2] = NL /\ \E y \in temp2 + 1 .. TempSize - 1 : temp[y] = NUL
           /\ pc' = pc /\ temp' = [temp EXCEPT ![temp2] = NUL] /\ temp1' = temp2 + 1
    BY <1>6, <1>7, <1>13
  <2> QED
    BY <1>4, <1>5, <1>6, <1>11, <2>1, <2>2

LEMMA PlaceInit == Init => PlaceInv
<1> SUFFICES ASSUME Init PROVE PlaceInv
  OBVIOUS
<1>1. /\ TempSize \in Nat /\ 1 <= TempSize /\ TempSize <= Biggest /\ Biggest \in Nat /\ Longest \in Nat
      /\ Max(BufSizes) \in Nat /\ Cells = 0 .. 2 * Biggest + Longest
      /\ MaxCount \in Nat /\ MaxRounds \in Nat
  BY Sizes, SizesAssumption
<1>2. NUL \in Values /\ GARBAGE \in Values /\ FOREIGN \in Values
  BY DEF Values
<1>3. /\ pc = "idle" /\ attr = <<>> /\ buf_size = 0 /\ i = 1 /\ cur_size = 0
      /\ temp = Zeros /\ kbuf = Garbage(0) /\ temp1 = 0 /\ shown = <<>> /\ needed = -1 /\ round = 0
  BY DEF Init
<1>4. temp \in [Cells -> Values] /\ kbuf \in [Cells -> Values]
  BY <1>2, <1>3 DEF Zeros, Garbage
<1>5. /\ \A a \in Cells : a >= TempSize => temp[a] = FOREIGN
      /\ 0 \in Cells /\ temp[0] = NUL /\ 0 \in 0 .. TempSize - 1
  BY <1>1, <1>3 DEF Zeros
<1>6. TypeOK
  <2>1. pc \in {"idle", "pane", "ioctl", "print", "killed", "oops"} /\ buf_size \in {0, TempSize} \cup BufSizes
    BY <1>3
  <2>2. Len(attr) <= MaxCount /\ \A line \in DOMAIN attr : attr[line] \in LineSizes
    BY <1>1, <1>3
  <2>3. shown \in Seq(Seq(Values))
    BY <1>3
  <2>4. /\ i \in 1 .. MaxCount + 1 /\ cur_size \in 0 .. buf_size + Max(LineSizes)
        /\ temp1 \in 0 .. TempSize - 1
        /\ needed \in -1 .. Max(BufSizes) + Max(LineSizes) /\ round \in 0 .. MaxRounds
    BY <1>1, <1>3 DEF Longest
  <2> QED
    BY <1>4, <2>1, <2>2, <2>3, <2>4 DEF TypeOK
<1>7. InBounds
  BY <1>3, <1>5, <1>6 DEF InBounds
<1>8. RoomInv
  <2>1. attr \in Seq(LineSizes)
    BY <1>3
  <2> QED
    BY <1>3, <1>5, <2>1 DEF RoomInv
<1> QED
  BY <1>7, <1>8 DEF PlaceInv

LEMMA PlaceNew ==
  ASSUME PlaceInv, NEW who \in {"pane", "ioctl"}, NewDisasm(who)
  PROVE  PlaceInv'
<1>1. /\ TempSize \in Nat /\ 1 <= TempSize /\ Longest \in Nat
      /\ \A b \in BufSizes : b \in Nat
      /\ MaxCount \in Nat /\ MaxRounds \in Nat
  BY Sizes, SizesAssumption
<1>2. GARBAGE \in Values /\ FOREIGN \in Values
  BY DEF Values
<1>3. /\ round < MaxRounds /\ round' = round + 1 /\ i' = 1 /\ cur_size' = 0
      /\ buf_size' \in IF who = "pane" THEN {TempSize} ELSE BufSizes
      /\ kbuf' \in IF who = "ioctl" THEN {Garbage(buf_size'), NoBuffer} ELSE {kbuf}
      /\ shown' = IF who = "pane" THEN <<>> ELSE shown
      /\ temp' = temp /\ temp1' = temp1 /\ needed' = needed
      /\ pc' = who \/ (who = "pane" /\ pc' = "oops") \/ (who = "ioctl" /\ pc' = "killed")
  BY DEF NewDisasm, Crashed
<1>4. PICK n \in 0 .. MaxCount : attr' \in [1 .. n -> LineSizes]
  BY DEF NewDisasm
<1>5. n \in Nat /\ n <= MaxCount
  BY <1>1
<1>6. /\ attr' \in Seq(LineSizes) /\ Len(attr') = n
      /\ \A line \in DOMAIN attr' : attr'[line] \in LineSizes
  BY <1>4, <1>5
<1>7. kbuf' \in [Cells -> Values] /\ (who = "ioctl" => \A a \in Cells : a >= buf_size' => kbuf'[a] = FOREIGN)
  <2>1. kbuf \in [Cells -> Values]
    BY DEF PlaceInv, InBounds, TypeOK
  <2>2. CASE who = "ioctl"
    <3>1. buf_size' \in Nat /\ \A a \in Cells : a \in Nat
      BY <1>1, <1>3, <2>2, Sizes
    <3>2. PICK size \in {0, buf_size'} : kbuf' = Garbage(size)
      BY <1>3, <2>2 DEF NoBuffer
    <3> QED
      BY <1>2, <2>2, <3>1, <3>2 DEF Garbage
  <2>3. CASE who = "pane"
    BY <1>3, <2>1, <2>3
  <2> QED
    BY <2>2, <2>3
<1>8. TypeOK'
  <2>1. pc' \in {"idle", "pane", "ioctl", "print", "killed", "oops"} /\ (buf_size \in {0, TempSize} \cup BufSizes)'
    BY <1>3
  <2>2. shown' \in Seq(Seq(Values))
    BY <1>3 DEF PlaceInv, InBounds, TypeOK
  <2>3. buf_size' \in Nat
    BY <1>1, <1>3
  <2>4. /\ i' \in 1 .. MaxCount + 1 /\ cur_size' \in 0 .. buf_size' + Max(LineSizes)
        /\ temp' \in [Cells -> Values] /\ temp1' \in 0 .. TempSize - 1
        /\ needed' \in -1 .. Max(BufSizes) + Max(LineSizes) /\ round' \in 0 .. MaxRounds
    BY <1>1, <1>3, <2>3 DEF Longest, PlaceInv, InBounds, TypeOK
  <2> QED
    BY <1>5, <1>6, <1>7, <2>1, <2>2, <2>4 DEF TypeOK
<1>9. InBounds'
  BY <1>3, <1>7, <1>8 DEF InBounds, PlaceInv
<1>10. RoomInv'
  <2>1. round' >= 1
    BY <1>3 DEF PlaceInv, InBounds, TypeOK
  <2> QED
    BY <1>3, <1>5, <1>6, <2>1 DEF RoomInv, PlaceInv
<1> QED
  BY <1>9, <1>10 DEF PlaceInv

LEMMA PlaceFormat ==
  ASSUME PlaceInv, FormatLine
  PROVE  PlaceInv'
<1>1. /\ TempSize \in Nat /\ 1 <= TempSize /\ Longest \in Nat /\ Biggest \in Nat
      /\ Cells = 0 .. 2 * Biggest + Longest
      /\ MaxCount \in Nat /\ MaxRounds \in Nat
  BY Sizes, SizesAssumption
<1>2. /\ i \in DOMAIN attr /\ Text(i) \in Seq(Values) /\ Len(Text(i)) = attr[i] /\ attr[i] \in LineSizes
      /\ buf_size \in Nat /\ buf_size <= Biggest /\ cur_size \in Nat /\ cur_size < buf_size
      /\ pc = "pane" => temp' = Snprintf(temp, cur_size, buf_size - cur_size, Text(i)) /\ kbuf' = kbuf
      /\ pc = "ioctl" => kbuf' = Snprintf(kbuf, cur_size, buf_size - cur_size, Text(i)) /\ temp' = temp
  BY FormatLineDoes
<1>3. /\ pc \in {"pane", "ioctl"} /\ cur_size' = cur_size + attr[i] /\ i' = i + 1
      /\ pc' = pc /\ attr' = attr /\ buf_size' = buf_size /\ temp1' = temp1 /\ shown' = shown
      /\ needed' = needed /\ round' = round
  BY DEF FormatLine, Step
<1>4. temp \in [Cells -> Values] /\ kbuf \in [Cells -> Values] /\ attr \in Seq(LineSizes) /\ Len(attr) <= MaxCount
  BY DEF PlaceInv, InBounds, TypeOK, RoomInv
<1>5. pc = "pane" => /\ temp' \in [Cells -> Values] /\ \E a \in 0 .. TempSize - 1 : temp'[a] = NUL
                     /\ \A a \in Cells : a >= TempSize => temp'[a] = temp[a]
  <2> SUFFICES ASSUME pc = "pane"
               PROVE  /\ temp' \in [Cells -> Values] /\ \E a \in 0 .. TempSize - 1 : temp'[a] = NUL
                      /\ \A a \in Cells : a >= TempSize => temp'[a] = temp[a]
    OBVIOUS
  <2>1. buf_size = TempSize
    BY DEF PlaceInv, RoomInv
  <2> DEFINE r    == Snprintf(temp, cur_size, buf_size - cur_size, Text(i))
             last == Least(cur_size + Len(Text(i)), buf_size - 1)
  <2>2. /\ r \in [Cells -> Values] /\ last \in cur_size .. buf_size - 1 /\ r[last] = NUL
        /\ \A a \in Cells : a < cur_size \/ a >= buf_size => r[a] = temp[a]
    BY <1>2, <1>4, SnprintfDoes, ZenonT(40)
  <2>4. temp' = r
    BY <1>2
  <2> HIDE DEF last, r
  <2>3. last \in 0 .. TempSize - 1
    BY <1>2, <2>1, <2>2
  <2> QED
    BY <2>1, <2>2, <2>3, <2>4
<1>6. pc = "ioctl" => /\ kbuf' \in [Cells -> Values]
                      /\ \A a \in Cells : a >= buf_size => kbuf'[a] = kbuf[a]
  BY <1>2, <1>4, SnprintfDoes
<1>7. i' \in 1 .. MaxCount + 1 /\ cur_size' \in 0 .. buf_size' + Max(LineSizes)
  <2>1. attr[i] \in Nat /\ attr[i] <= Longest
    BY <1>2, Sizes
  <2>2. i \in 1 .. Len(attr) /\ Len(attr) \in Nat
    BY <1>2, <1>4
  <2> QED
    BY <1>1, <1>2, <1>3, <1>4, <2>1, <2>2, SMTT(20) DEF Longest
<1>8. temp' \in [Cells -> Values] /\ kbuf' \in [Cells -> Values]
  BY <1>2, <1>3, <1>4, <1>5, <1>6
<1>9. TypeOK'
  <2>1. /\ pc' \in {"idle", "pane", "ioctl", "print", "killed", "oops"} /\ (buf_size \in {0, TempSize} \cup BufSizes)'
        /\ Len(attr') <= MaxCount /\ \A line \in DOMAIN attr' : attr'[line] \in LineSizes
        /\ temp1' \in 0 .. TempSize - 1 /\ shown' \in Seq(Seq(Values))
        /\ needed' \in -1 .. Max(BufSizes) + Max(LineSizes) /\ round' \in 0 .. MaxRounds
    BY <1>3 DEF PlaceInv, InBounds, TypeOK
  <2> QED
    BY <1>7, <1>8, <2>1 DEF TypeOK
<1>10. /\ \A a \in Cells : a >= TempSize => temp[a] = FOREIGN
       /\ pc = "ioctl" => \A a \in Cells : a >= buf_size => kbuf[a] = FOREIGN
  BY DEF PlaceInv, InBounds
<1>11. /\ \A a \in Cells : a >= TempSize => temp'[a] = FOREIGN
       /\ pc' = "ioctl" => \A a \in Cells : a >= buf_size' => kbuf'[a] = FOREIGN
  BY <1>2, <1>3, <1>5, <1>6, <1>10
<1>12. InBounds'
  BY <1>9, <1>11 DEF InBounds
<1>13. RoomInv'
  <2>1. \E a \in 0 .. TempSize - 1 : temp'[a] = NUL
    BY <1>2, <1>3, <1>5 DEF PlaceInv, RoomInv
  <2> QED
    BY <1>3, <2>1 DEF RoomInv, PlaceInv
<1> QED
  BY <1>12, <1>13 DEF PlaceInv

LEMMA PlaceFormatEnd ==
  ASSUME PlaceInv, FormatEnd
  PROVE  PlaceInv'
<1>1. /\ pc \in {"pane", "ioctl"}
      /\ attr' = attr /\ buf_size' = buf_size /\ temp' = temp /\ kbuf' = kbuf /\ i' = i
      /\ cur_size' = cur_size /\ shown' = shown /\ round' = round
      /\ \/ pc = "pane" /\ pc' = "print" /\ temp1' = 0 /\ needed' = needed
         \/ pc = "ioctl" /\ pc' = "idle" /\ needed' = cur_size /\ temp1' = temp1
  BY DEF FormatEnd
<1>2. /\ TempSize \in Nat /\ 1 <= TempSize /\ Longest \in Nat /\ Max(BufSizes) \in Nat
      /\ \A b \in BufSizes : b \in Nat /\ b <= Max(BufSizes)
  BY Sizes
<1>3. /\ temp1' \in 0 .. TempSize - 1
      /\ needed' \in -1 .. Max(BufSizes) + Max(LineSizes)
  <2>1. CASE pc = "pane"
    BY <1>1, <1>2, <2>1 DEF PlaceInv, InBounds, TypeOK
  <2>2. CASE pc = "ioctl"
    <3>1. buf_size \in BufSizes /\ cur_size \in 0 .. buf_size + Longest /\ temp1 \in 0 .. TempSize - 1
      BY <2>2 DEF PlaceInv, InBounds, TypeOK, RoomInv, Longest
    <3>2. buf_size \in Nat /\ buf_size <= Max(BufSizes)
      BY <1>2, <3>1
    <3>3. needed' = cur_size /\ temp1' = temp1
      BY <1>1, <2>2
    <3>4. \A b, c, l, m \in Nat : b <= m /\ c \in 0 .. b + l => c \in -1 .. m + l
      OBVIOUS
    <3>5. cur_size \in Nat
      BY <3>1
    <3>6. cur_size \in -1 .. Max(BufSizes) + Longest
      BY <1>2, <3>1, <3>2, <3>4, <3>5
    <3> QED
      BY <3>1, <3>3, <3>6 DEF Longest
  <2> QED
    BY <1>1, <2>1, <2>2
<1>4. TypeOK'
  BY <1>1, <1>3 DEF PlaceInv, InBounds, TypeOK
<1>5. InBounds'
  BY <1>1, <1>4 DEF PlaceInv, InBounds
<1>6. RoomInv'
  BY <1>1 DEF PlaceInv, RoomInv
<1> QED
  BY <1>5, <1>6 DEF PlaceInv

LEMMA PlacePrint ==
  ASSUME PlaceInv, PrintLine
  PROVE  PlaceInv'
<1>1. PICK temp2 \in temp1 .. TempSize - 1 :
        /\ \/ /\ temp[temp2] = NUL
              /\ pc' = "idle" /\ temp' = temp /\ temp1' = temp1
           \/ /\ temp[temp2] = NL /\ \E z \in temp2 + 1 .. TempSize - 1 : temp[z] = NUL
              /\ pc' = pc /\ temp' = [temp EXCEPT ![temp2] = NUL] /\ temp1' = temp2 + 1
        /\ shown' = Append(shown, CString(temp', temp1))
        /\ CString(temp', temp1) \in Seq(Values)
  BY PrintLineDoes
<1>2. /\ attr' = attr /\ buf_size' = buf_size /\ kbuf' = kbuf /\ i' = i /\ pc = "print"
      /\ cur_size' = cur_size /\ needed' = needed /\ round' = round
  BY DEF PrintLine
<1>3. /\ TempSize \in Nat /\ TempSize <= Biggest /\ Biggest \in Nat /\ Longest \in Nat
      /\ Cells = 0 .. 2 * Biggest + Longest
  BY Sizes
<1>4. temp1 \in 0 .. TempSize - 1 /\ temp \in [Cells -> Values] /\ temp1 \in Nat /\ shown \in Seq(Seq(Values))
  BY DEF PlaceInv, InBounds, TypeOK
<1>5. temp2 \in Cells /\ temp2 < TempSize /\ temp2 \in Nat
  BY <1>1, <1>3, <1>4
<1>6. /\ temp' \in [Cells -> Values]
      /\ \A a \in Cells : a # temp2 => temp'[a] = temp[a]
      /\ \A a \in Cells : temp[a] = NUL => temp'[a] = NUL
  <2>1. NUL \in Values
    BY DEF Values
  <2> QED
    BY <1>1, <1>4, <1>5, <2>1
<1>7. \A a \in 0 .. TempSize - 1 : a \in Cells
  BY <1>3
<1>8. temp1' \in 0 .. TempSize - 1 /\ (pc' = "print" => \E a \in temp1' .. TempSize - 1 : temp'[a] = NUL)
  <2>1. CASE temp[temp2] = NUL /\ pc' = "idle" /\ temp1' = temp1
    BY <1>4, <2>1
  <2>2. CASE /\ \E z \in temp2 + 1 .. TempSize - 1 : temp[z] = NUL
             /\ temp1' = temp2 + 1
    <3>1. PICK z \in temp2 + 1 .. TempSize - 1 : temp[z] = NUL
      BY <2>2
    <3>2. z \in 0 .. TempSize - 1 /\ temp2 + 1 \in 0 .. TempSize - 1
      BY <1>3, <1>5
    <3>3. temp'[z] = NUL
      BY <1>6, <1>7, <3>1, <3>2
    <3> QED
      BY <2>2, <3>1, <3>2, <3>3
  <2> QED
    BY <1>1, <2>1, <2>2
<1>9. shown' \in Seq(Seq(Values))
  BY <1>1, <1>4
<1>10. pc' \in {"idle", "pane", "ioctl", "print", "killed", "oops"} /\ (pc' = "idle" \/ pc' = "print")
  BY <1>1, <1>2
<1>11. TypeOK'
  BY <1>2, <1>6, <1>8, <1>9, <1>10 DEF PlaceInv, InBounds, TypeOK
<1>12. \A a \in Cells : a >= TempSize => temp'[a] = FOREIGN
  <2>1. \A a \in Cells : a >= TempSize => temp[a] = FOREIGN
    BY DEF PlaceInv, InBounds
  <2>2. \A a \in Cells : a >= TempSize => a # temp2
    BY <1>3, <1>5
  <2> QED
    BY <1>6, <2>1, <2>2
<1>13. InBounds'
  BY <1>10, <1>11, <1>12 DEF InBounds
<1>14. RoomInv'
  <2>1. \E a \in 0 .. TempSize - 1 : temp'[a] = NUL
    <3>1. PICK a \in 0 .. TempSize - 1 : temp[a] = NUL
      BY DEF PlaceInv, RoomInv
    <3> QED
      BY <1>6, <1>7, <3>1
  <2> QED
    BY <1>2, <1>8, <1>10, <2>1 DEF PlaceInv, RoomInv
<1> QED
  BY <1>13, <1>14 DEF PlaceInv

LEMMA PlaceStep == PlaceInv /\ [Next]_vars => PlaceInv'
<1> SUFFICES ASSUME PlaceInv, [Next]_vars PROVE PlaceInv'
  OBVIOUS
<1>0. CASE FormatNull
  <2>1. /\ pc' = "killed" /\ attr' = attr /\ buf_size' = buf_size /\ temp' = temp /\ kbuf' = kbuf /\ i' = i
        /\ cur_size' = cur_size /\ temp1' = temp1 /\ shown' = shown /\ needed' = needed /\ round' = round
    BY <1>0 DEF FormatNull
  <2>2. InBounds'
    BY <2>1 DEF PlaceInv, InBounds, TypeOK
  <2>3. RoomInv'
    BY <2>1 DEF PlaceInv, RoomInv
  <2> QED
    BY <2>2, <2>3 DEF PlaceInv
<1>1. CASE NewDisasm("pane")
  BY <1>1, PlaceNew
<1>2. CASE NewDisasm("ioctl")
  BY <1>2, PlaceNew
<1>3. CASE FormatLine
  BY <1>3, PlaceFormat
<1>4. CASE FormatEnd
  BY <1>4, PlaceFormatEnd
<1>5. CASE PrintLine
  BY <1>5, PlacePrint
<1>6. CASE PrintEnd
  <2>1. /\ pc' = "idle" /\ attr' = attr /\ buf_size' = buf_size /\ temp' = temp /\ kbuf' = kbuf /\ i' = i
        /\ cur_size' = cur_size /\ temp1' = temp1 /\ shown' = shown /\ needed' = needed /\ round' = round
    BY <1>6 DEF PrintEnd
  <2>2. InBounds'
    BY <2>1 DEF PlaceInv, InBounds, TypeOK
  <2>3. RoomInv'
    BY <2>1 DEF PlaceInv, RoomInv
  <2> QED
    BY <2>2, <2>3 DEF PlaceInv
<1>7. CASE UNCHANGED vars
  <2>1. /\ pc' = pc /\ attr' = attr /\ buf_size' = buf_size /\ temp' = temp /\ kbuf' = kbuf /\ i' = i
        /\ cur_size' = cur_size /\ temp1' = temp1 /\ shown' = shown /\ needed' = needed /\ round' = round
    BY <1>7 DEF vars
  <2>2. InBounds'
    BY <2>1 DEF PlaceInv, InBounds, TypeOK
  <2>3. RoomInv'
    BY <2>1 DEF PlaceInv, RoomInv
  <2> QED
    BY <2>2, <2>3 DEF PlaceInv
<1> QED
  BY <1>0, <1>1, <1>2, <1>3, <1>4, <1>5, <1>6, <1>7 DEF Next

\* The disassembler's glue writes into the buffer it was given and nowhere else,
\* whatever the lengths of the lines and the size of the buffer: the cursor of
\* ice_disasm_format may run past the end, but then the loop is over, and
\* print_code always meets a NUL inside temp, of this or of an earlier listing,
\* even when there was no memory for this one.
THEOREM StaysInBuffer == Spec => []InBounds
<1>1. Init => PlaceInv
  BY PlaceInit
<1>2. PlaceInv /\ [Next]_vars => PlaceInv'
  BY PlaceStep
<1>3. PlaceInv => InBounds
  BY DEF PlaceInv
<1> QED
  BY <1>1, <1>2, <1>3, PTL DEF Spec

-----------------------------------------------------------------------------
(* What is in the buffer.                                                  *)

Lines   == [line \in DOMAIN attr |-> Text(line)]
\* The text of the first lines.
Upto(k) == FlattenSeq(SubSeq(Lines, 1, k))

\* From start on, a buffer of that size holds a text, cut where the buffer ends
\* and closed with a NUL.
Holds(b, start, s, size) ==
  LET last == Least(Len(s), size - 1) IN
  /\ start <= last /\ b[last] = NUL
  /\ \A a \in start .. last - 1 : b[a] = s[a + 1]

LEMMA LeastOf == \A m, n \in Nat : Least(m, n) \in Nat /\ Least(m, n) <= m /\ Least(m, n) <= n
                                   /\ Least(m, n) \in {m, n}
BY DEF Least

LEMMA UptoText ==
  ASSUME attr \in Seq(LineSizes), Len(attr) <= MaxCount, round \in 1 .. MaxRounds
  PROVE  /\ Len(attr) \in Nat /\ Listing = Upto(Len(attr)) /\ Upto(0) = <<>>
         /\ \A k \in 0 .. Len(attr) : Upto(k) \in Seq(Written)
         /\ \A k \in 1 .. Len(attr) : Upto(k) = Upto(k - 1) \o Text(k)
         /\ \A k \in 0 .. Len(attr) : /\ Len(Upto(k)) <= Len(Listing)
                                      /\ \A a \in 1 .. Len(Upto(k)) : Upto(k)[a] = Listing[a]
<1> DEFINE n == Len(attr)
<1>1. n \in Nat /\ DOMAIN attr = 1 .. n
  OBVIOUS
<1>2. \A k \in 1 .. n : Text(k) \in Seq(Written) /\ Lines[k] = Text(k)
  BY <1>1, TextType DEF Lines
<1>3. Lines \in Seq(Seq(Written)) /\ Len(Lines) = n
  <2>1. Lines = [k \in 1 .. n |-> Text(k)]
    BY <1>1 DEF Lines
  <2> HIDE DEF n
  <2> QED
    BY <1>1, <1>2, <2>1
<1> HIDE DEF n
<1>4. SubSeq(Lines, 1, n) = Lines
  BY <1>3, SubSeqFull
<1>5. Listing = Upto(n)
  <2>1. Listing = FlattenSeq(Lines)
    BY DEF Listing, Lines
  <2> QED
    BY <1>4, <2>1 DEF Upto
<1>6. \A k \in 0 .. n : SubSeq(Lines, 1, k) \in Seq(Seq(Written))
  <2> SUFFICES ASSUME NEW k \in 0 .. n PROVE SubSeq(Lines, 1, k) \in Seq(Seq(Written))
    OBVIOUS
  <2>1. \A x \in 1 .. k : Lines[x] \in Seq(Written)
    BY <1>1, <1>2
  <2>2. k \in Int /\ 1 \in Int
    BY <1>1
  <2> QED
    BY ONLY <2>1, <2>2, SubSeqProperties, SMT
<1>7. \A k \in 0 .. n : Upto(k) \in Seq(Written)
  <2> SUFFICES ASSUME NEW k \in 0 .. n PROVE Upto(k) \in Seq(Written)
    OBVIOUS
  <2>1. <<>> \in Seq(Written) /\ SubSeq(Lines, 1, k) \in Seq(Seq(Written))
    BY <1>6
  <2> QED
    BY ONLY <2>1, FlattenAppend DEF Upto
<1>8. \A k \in 1 .. n : Upto(k) = Upto(k - 1) \o Text(k)
  <2> SUFFICES ASSUME NEW k \in 1 .. n PROVE Upto(k) = Upto(k - 1) \o Text(k)
    OBVIOUS
  <2>1. k \in 1 .. Len(Lines) /\ k - 1 \in 0 .. n /\ Lines[k] = Text(k) /\ Text(k) \in Seq(Written)
    BY <1>1, <1>2, <1>3
  <2>2. SubSeq(Lines, 1, k) = Append(SubSeq(Lines, 1, k - 1), Lines[k])
    BY <1>3, <2>1
  <2>3. SubSeq(Lines, 1, k - 1) \in Seq(Seq(Written))
    BY <1>6, <2>1
  <2> DEFINE before == SubSeq(Lines, 1, k - 1)
  <2> HIDE DEF before
  <2>4. FlattenSeq(Append(before, Text(k))) = FlattenSeq(before) \o Text(k)
    BY <2>1, <2>3, FlattenAppend DEF before
  <2> QED
    BY <2>1, <2>2, <2>4 DEF Upto, before
<1>9. Upto(0) = <<>>
  <2>1. SubSeq(Lines, 1, 0) = <<>>
    BY <1>3
  <2>2. FlattenSeq(<<>>) = <<>>
    BY DEF FlattenSeq
  <2> QED
    BY <2>1, <2>2 DEF Upto
<1>10. \A k \in 0 .. n : /\ Len(Upto(k)) <= Len(Listing)
                         /\ \A a \in 1 .. Len(Upto(k)) : Upto(k)[a] = Listing[a]
  <2>1. FlattenSeq(Lines) = Listing
    BY <1>4, <1>5 DEF Upto
  <2> QED
    BY <1>3, <2>1, FlattenPrefix DEF Upto
<1> QED
  BY <1>1, <1>5, <1>7, <1>8, <1>9, <1>10 DEF n

\* snprintf behind a text that fits leaves both texts in the buffer, cut at its
\* end.
LEMMA HoldsMore ==
  ASSUME NEW b \in [Cells -> Values], NEW size \in Nat, size <= Biggest,
         NEW s \in Seq(Written), Len(s) < size, \A a \in 0 .. Len(s) - 1 : b[a] = s[a + 1],
         NEW t \in Seq(Written)
  PROVE  Holds(Snprintf(b, Len(s), size - Len(s), t), 0, s \o t, size)
<1> DEFINE r    == Snprintf(b, Len(s), size - Len(s), t)
           m    == Len(s)
           both == s \o t
           last == Least(m + Len(t), size - 1)
<1>1. m \in Nat /\ Len(t) \in Nat /\ t \in Seq(Values) /\ m < size
  BY DEF Written
<1>2. /\ Len(both) = m + Len(t)
      /\ \A a \in 1 .. m : both[a] = s[a]
      /\ \A a \in m + 1 .. m + Len(t) : both[a] = t[a - m]
  <2> HIDE DEF m
  <2>1. /\ Len(s \o t) = Len(s) + Len(t)
        /\ \A a \in 1 .. Len(s) : (s \o t)[a] = s[a]
        /\ \A a \in Len(s) + 1 .. Len(s) + Len(t) : (s \o t)[a] = t[a - Len(s)]
    BY ConcatProperties
  <2> QED
    BY <2>1 DEF m
<1>3. /\ last \in m .. size - 1 /\ r[last] = NUL
      /\ \A a \in m .. last - 1 : r[a] = t[a - m + 1]
      /\ \A a \in Cells : a < m \/ a >= size => r[a] = b[a]
  BY <1>1, SnprintfDoes
<1>4. last <= m + Len(t) /\ last \in Nat
  <2> DEFINE x == m + Len(t)
             y == size - 1
  <2>1. x \in Nat /\ y \in Nat
    BY <1>1
  <2> HIDE DEF x, y
  <2>2. Least(x, y) <= x /\ Least(x, y) \in Nat
    BY <2>1, LeastOf
  <2> QED
    BY <2>2 DEF x, y
<1>5. Cells = 0 .. 2 * Biggest + Longest /\ Biggest \in Nat /\ Longest \in Nat
  BY Sizes
<1>6. last = Least(Len(both), size - 1)
  BY <1>2
<1>7. \A a \in 0 .. m - 1 : b[a] = s[a + 1]
  OBVIOUS
<1> HIDE DEF r, m, both, last
<1>8. \A a \in 0 .. last - 1 : r[a] = both[a + 1]
  <2> SUFFICES ASSUME NEW a \in 0 .. last - 1 PROVE r[a] = both[a + 1]
    OBVIOUS
  <2>1. CASE a < m
    <3>1. a \in Cells /\ a \in 0 .. m - 1 /\ a + 1 \in 1 .. m
      BY <1>1, <1>3, <1>5, <2>1
    <3> QED
      BY <1>2, <1>3, <1>7, <2>1, <3>1
  <2>2. CASE ~(a < m)
    <3>1. a \in m .. last - 1 /\ a + 1 \in m + 1 .. m + Len(t) /\ (a + 1) - m = a - m + 1
      BY <1>1, <1>4, <2>2
    <3> QED
      BY <1>2, <1>3, <3>1
  <2> QED
    BY <2>1, <2>2
<1>9. Holds(r, 0, both, size)
  BY <1>3, <1>4, <1>6, <1>8 DEF Holds
<1> QED
  BY <1>9 DEF r, both, m

\* While it formats: the cursor counts the characters of the lines so far, and
\* the buffer holds them as far as they fit.
FormatInv ==
  pc \in {"pane", "ioctl"} =>
    /\ i - 1 <= Len(attr) /\ cur_size = Len(Upto(i - 1))
    /\ pc = "pane" /\ i > 1 => Holds(temp, 0, Upto(i - 1), buf_size)
    /\ pc = "ioctl" /\ i > 1 => Holds(kbuf, 0, Upto(i - 1), buf_size)

LEMMA HoldsAll ==
  ASSUME NEW b, NEW s, NEW size \in Nat, Len(s) \in Nat, Len(s) < size, Holds(b, 0, s, size)
  PROVE  b[Len(s)] = NUL /\ \A a \in 0 .. Len(s) - 1 : b[a] = s[a + 1]
<1>1. Least(Len(s), size - 1) = Len(s)
  BY DEF Least
<1> QED
  BY <1>1 DEF Holds

LEMMA FormatKeeps ==
  ASSUME PlaceInv, FormatInv, FormatLine
  PROVE  FormatInv'
<1>1. /\ i \in DOMAIN attr /\ round \in 1 .. MaxRounds /\ Text(i) \in Seq(Written)
      /\ Len(Text(i)) = attr[i] /\ attr[i] \in LineSizes
      /\ buf_size \in Nat /\ buf_size <= Biggest /\ cur_size \in Nat /\ cur_size < buf_size
      /\ pc = "pane" => temp' = Snprintf(temp, cur_size, buf_size - cur_size, Text(i)) /\ kbuf' = kbuf
      /\ pc = "ioctl" => kbuf' = Snprintf(kbuf, cur_size, buf_size - cur_size, Text(i)) /\ temp' = temp
  BY FormatLineDoes
<1>2. /\ pc \in {"pane", "ioctl"} /\ cur_size' = cur_size + attr[i] /\ i' = i + 1
      /\ pc' = pc /\ attr' = attr /\ buf_size' = buf_size /\ round' = round
  BY DEF FormatLine, Step
<1>3. /\ attr \in Seq(LineSizes) /\ Len(attr) <= MaxCount
      /\ temp \in [Cells -> Values] /\ kbuf \in [Cells -> Values]
  BY DEF PlaceInv, InBounds, TypeOK, RoomInv
<1>4. i \in 1 .. Len(attr) /\ i - 1 \in 0 .. Len(attr) /\ i \in Nat /\ i \in 0 .. Len(attr)
  BY <1>1, <1>3
<1>5. Upto(i) = Upto(i - 1) \o Text(i) /\ Upto(i - 1) \in Seq(Written) /\ Upto(0) = <<>>
  BY <1>1, <1>3, <1>4, UptoText
<1> DEFINE s    == Upto(i - 1)
           t    == Text(i)
           both == Upto(i)
<1>6. /\ cur_size = Len(s)
      /\ pc = "pane" /\ i > 1 => Holds(temp, 0, s, buf_size)
      /\ pc = "ioctl" /\ i > 1 => Holds(kbuf, 0, s, buf_size)
  BY <1>2 DEF FormatInv
<1>7. i = 1 => Len(s) = 0
  BY <1>5
<1>8. s \in Seq(Written) /\ t \in Seq(Written) /\ both = s \o t /\ Len(t) = attr[i]
  BY <1>1, <1>5
<1> HIDE DEF s, t, both
<1>9. Len(s) \in Nat /\ Len(s) < buf_size /\ attr[i] \in Nat
  BY <1>1, <1>6, <1>8, Sizes
<1>10. i = 1 \/ i > 1
  BY <1>4
<1>11. /\ pc = "pane" => \A a \in 0 .. Len(s) - 1 : temp[a] = s[a + 1]
       /\ pc = "ioctl" => \A a \in 0 .. Len(s) - 1 : kbuf[a] = s[a + 1]
  <2>1. CASE i = 1
    <3>1. 0 .. Len(s) - 1 = {}
      BY <1>7, <2>1
    <3> QED
      BY <3>1
  <2>2. CASE i > 1
    BY <1>1, <1>6, <1>9, <2>2, HoldsAll
  <2> QED
    BY <1>10, <2>1, <2>2
<1>12. /\ pc = "pane" => Holds(temp', 0, both, buf_size)
       /\ pc = "ioctl" => Holds(kbuf', 0, both, buf_size)
  <2>1. CASE pc = "pane"
    <3>1. Holds(Snprintf(temp, Len(s), buf_size - Len(s), t), 0, s \o t, buf_size)
      BY <1>1, <1>3, <1>8, <1>9, <1>11, <2>1, HoldsMore
    <3>2. temp' = Snprintf(temp, Len(s), buf_size - Len(s), t)
      BY <1>1, <1>6, <2>1 DEF t
    <3> QED
      BY <1>8, <2>1, <3>1, <3>2
  <2>2. CASE pc = "ioctl"
    <3>1. Holds(Snprintf(kbuf, Len(s), buf_size - Len(s), t), 0, s \o t, buf_size)
      BY <1>1, <1>3, <1>8, <1>9, <1>11, <2>2, HoldsMore
    <3>2. kbuf' = Snprintf(kbuf, Len(s), buf_size - Len(s), t)
      BY <1>1, <1>6, <2>2 DEF t
    <3> QED
      BY <1>8, <2>2, <3>1, <3>2
  <2> QED
    BY <1>2, <2>1, <2>2
<1>13. cur_size' = Len(both)
  <2>1. Len(s \o t) = Len(s) + Len(t)
    BY <1>8, ConcatProperties
  <2> QED
    BY <1>2, <1>6, <1>8, <2>1
<1>14. both = (Upto(i - 1))'
  <2>1. Lines' = Lines
    BY <1>2 DEF Lines, Text, Char
  <2>2. i' - 1 = i
    BY <1>2, <1>4
  <2>3. (Upto(i - 1))' = FlattenSeq(SubSeq(Lines', 1, i' - 1))
    BY DEF Upto
  <2> QED
    BY <2>1, <2>2, <2>3 DEF both, Upto
<1>15. i' - 1 <= Len(attr')
  BY <1>2, <1>4
<1>16. /\ cur_size' = Len((Upto(i - 1))')
       /\ pc' = "pane" => Holds(temp', 0, (Upto(i - 1))', buf_size')
       /\ pc' = "ioctl" => Holds(kbuf', 0, (Upto(i - 1))', buf_size')
  BY <1>2, <1>12, <1>13, <1>14
<1> QED
  BY <1>15, <1>16 DEF FormatInv, Holds

LEMMA FormatStep == PlaceInv /\ FormatInv /\ [Next]_vars => FormatInv'
<1> SUFFICES ASSUME PlaceInv, FormatInv, [Next]_vars PROVE FormatInv'
  OBVIOUS
<1>1. ASSUME NEW who \in {"pane", "ioctl"}, NewDisasm(who) PROVE FormatInv'
  <2>1. i' = 1 /\ cur_size' = 0 /\ round' = round + 1
    BY <1>1 DEF NewDisasm
  <2>2. PICK n \in 0 .. MaxCount : attr' \in [1 .. n -> LineSizes]
    BY <1>1 DEF NewDisasm
  <2>3. n \in Nat /\ i' - 1 = 0 /\ Len(attr') = n
    BY <2>1, <2>2
  <2>4. (Upto(i - 1))' = FlattenSeq(SubSeq(Lines', 1, 0))
    BY <2>3 DEF Upto
  <2>5. SubSeq(Lines', 1, 0) = <<>>
    <3> DEFINE L == Lines'
    <3>1. \A l : SubSeq(l, 1, 0) = <<>>
      BY DEF SubSeq
    <3> QED
      BY <3>1
  <2>6. FlattenSeq(<<>>) = <<>>
    BY DEF FlattenSeq
  <2>7. cur_size' = Len((Upto(i - 1))')
    <3>1. (Upto(i - 1))' = <<>>
      BY <2>4, <2>5, <2>6, Zenon
    <3>2. Len(<<>>) = 0
      OBVIOUS
    <3> QED
      BY <2>1, <3>1, <3>2, Zenon
  <2> QED
    BY <2>1, <2>3, <2>7 DEF FormatInv
<1>2. CASE FormatLine
  BY <1>2, FormatKeeps
<1>3. CASE FormatNull \/ FormatEnd \/ PrintLine \/ PrintEnd
  <2>1. pc' \notin {"pane", "ioctl"}
    <3>0. CASE FormatNull
      BY <3>0 DEF FormatNull
    <3>1. CASE FormatEnd
      BY <3>1 DEF FormatEnd
    <3>2. CASE PrintLine
      <4>1. pc = "print"
        BY <3>2 DEF PrintLine
      <4>2. pc' = "idle" \/ pc' = pc
        BY <3>2 DEF PrintLine
      <4> QED
        BY <4>1, <4>2
    <3>3. CASE PrintEnd
      BY <3>3 DEF PrintEnd
    <3> QED
      BY <1>3, <3>0, <3>1, <3>2, <3>3
  <2> QED
    BY <2>1 DEF FormatInv
<1>4. CASE UNCHANGED vars
  <2>1. /\ pc' = pc /\ attr' = attr /\ buf_size' = buf_size /\ temp' = temp /\ kbuf' = kbuf
        /\ i' = i /\ cur_size' = cur_size /\ round' = round
    BY <1>4 DEF vars
  <2>2. Lines' = Lines
    BY <2>1 DEF Lines, Text, Char
  <2>3. (Upto(i - 1))' = Upto(i - 1)
    BY <2>1, <2>2 DEF Upto
  <2> QED
    BY <2>1, <2>3 DEF FormatInv, Holds
<1> QED
  BY <1>1, <1>2, <1>3, <1>4 DEF Next

\* What FormatEnd leaves behind: all lines are printed or the buffer is full.
LEMMA FormatEndLeaves ==
  ASSUME PlaceInv, FormatInv, FormatEnd
  PROVE  /\ Listing \in Seq(Written) /\ Len(Listing) \in Nat /\ cur_size \in Nat /\ buf_size \in Nat
         /\ Upto(i - 1) \in Seq(Written) /\ cur_size = Len(Upto(i - 1)) /\ cur_size <= Len(Listing)
         /\ \A a \in 1 .. cur_size : Upto(i - 1)[a] = Listing[a]
         /\ cur_size < buf_size => Upto(i - 1) = Listing
         /\ i = 1 => cur_size = 0
         /\ i = 1 /\ cur_size < buf_size => Len(attr) = 0
<1>1. pc \in {"pane", "ioctl"} /\ (i > Len(attr) \/ ~(cur_size < buf_size))
  BY DEF FormatEnd, HasRoom
<1>2. /\ attr \in Seq(LineSizes) /\ Len(attr) <= MaxCount /\ round \in 1 .. MaxRounds
      /\ i \in 1 .. MaxCount + 1 /\ buf_size \in {0, TempSize} \cup BufSizes
  <2>1. round \in 0 .. MaxRounds /\ round >= 1
    BY <1>1 DEF PlaceInv, InBounds, TypeOK, RoomInv
  <2>2. round \in 1 .. MaxRounds
    BY <2>1, SizesAssumption
  <2> QED
    BY <2>2 DEF PlaceInv, InBounds, TypeOK, RoomInv
<1>3. i - 1 <= Len(attr) /\ cur_size = Len(Upto(i - 1))
  BY <1>1 DEF FormatInv
<1>4. buf_size \in Nat
  BY <1>2, Sizes
<1>5. Len(attr) \in Nat /\ i \in Nat /\ i - 1 \in 0 .. Len(attr) /\ Len(attr) \in 0 .. Len(attr)
  BY <1>2, <1>3, SizesAssumption
<1>6. /\ Upto(i - 1) \in Seq(Written) /\ Listing \in Seq(Written) /\ Listing = Upto(Len(attr))
      /\ Len(Upto(i - 1)) <= Len(Listing) /\ Upto(0) = <<>>
      /\ \A a \in 1 .. Len(Upto(i - 1)) : Upto(i - 1)[a] = Listing[a]
  BY <1>2, <1>5, UptoText
<1>7. cur_size < buf_size => i - 1 = Len(attr)
  BY <1>1, <1>3, <1>5
<1>8. i = 1 => cur_size = 0
  <2>1. i = 1 => Upto(i - 1) = <<>>
    BY <1>6
  <2> QED
    BY <1>3, <2>1
<1>9. cur_size \in Nat /\ Len(Listing) \in Nat
  BY <1>3, <1>6
<1>10. cur_size < buf_size => Upto(i - 1) = Listing
  BY <1>6, <1>7
<1>11. i = 1 /\ cur_size < buf_size => Len(attr) = 0
  BY <1>5, <1>7
<1> QED
  BY <1>3, <1>4, <1>6, <1>8, <1>9, <1>10, <1>11

\* What the ioctl tells a process of its buffer is true: less than the size of
\* the buffer means that the whole listing is in it, and anything else that the
\* listing does not fit.
THEOREM ToldTheTruth == Spec => NeededIsHonest
<1> DEFINE Honest ==
      IF needed' < buf_size THEN /\ needed' = Len(Listing)
                                 /\ SubSeq([k \in 1 .. buf_size |-> kbuf[k - 1]], 1, needed') = Listing
      ELSE Len(Listing) >= buf_size
<1>1. PlaceInv /\ FormatInv /\ [Next]_vars => [pc = "ioctl" /\ pc' = "idle" => Honest]_vars
  <2> SUFFICES ASSUME PlaceInv, FormatInv, Next, pc = "ioctl", pc' = "idle"
               PROVE  Honest
    OBVIOUS
  <2>1. FormatEnd
    BY DEF Next, NewDisasm, Crashed, FormatLine, FormatNull, PrintLine, PrintEnd
  <2>2. needed' = cur_size
    BY <2>1 DEF FormatEnd
  <2>3. /\ Listing \in Seq(Written) /\ Len(Listing) \in Nat /\ cur_size \in Nat /\ buf_size \in Nat
        /\ cur_size = Len(Upto(i - 1)) /\ cur_size <= Len(Listing)
        /\ cur_size < buf_size => Upto(i - 1) = Listing
        /\ i = 1 => cur_size = 0
    BY <2>1, FormatEndLeaves
  <2>4. i \in Nat /\ i >= 1 /\ (i > 1 => Holds(kbuf, 0, Upto(i - 1), buf_size))
    BY DEF PlaceInv, InBounds, TypeOK, FormatInv
  <2>5. CASE cur_size < buf_size
    <3> DEFINE got == [k \in 1 .. buf_size |-> kbuf[k - 1]]
               L   == Listing
    <3>1. cur_size = Len(L) /\ Upto(i - 1) = L
      BY <2>3, <2>5
    <3>2. \A a \in 0 .. Len(L) - 1 : kbuf[a] = L[a + 1]
      <4>1. CASE i = 1
        <5>1. 0 .. Len(L) - 1 = {}
          BY <2>3, <3>1, <4>1
        <5> QED
          BY <5>1
      <4>2. CASE i > 1
        BY <2>3, <2>4, <2>5, <3>1, <4>2, HoldsAll
      <4> QED
        BY <2>4, <4>1, <4>2
    <3>3. L \in Seq(Written) /\ Len(L) \in Nat /\ Len(L) < buf_size
      BY <2>3, <2>5, <3>1
    <3> HIDE DEF L
    <3>4. \A k \in 1 .. Len(L) : k \in 1 .. buf_size /\ got[k] = L[k]
      <4> SUFFICES ASSUME NEW k \in 1 .. Len(L) PROVE k \in 1 .. buf_size /\ got[k] = L[k]
        OBVIOUS
      <4>1. k \in 1 .. buf_size /\ k - 1 \in 0 .. Len(L) - 1 /\ (k - 1) + 1 = k
        BY <2>3, <3>3
      <4> QED
        BY <3>2, <4>1
    <3>5. SubSeq(got, 1, Len(L)) = [k \in 1 .. Len(L) |-> L[k]]
      <4>1. SubSeq(got, 1, Len(L)) = [k \in 1 .. (1 + Len(L) - 1) |-> got[k + 1 - 1]]
        BY DEF SubSeq
      <4>2. 1 + Len(L) - 1 = Len(L)
        BY <3>3
      <4>3. \A k \in 1 .. Len(L) : k + 1 - 1 = k
        BY <3>3
      <4> HIDE DEF got
      <4> QED
        BY <3>4, <4>1, <4>2, <4>3
    <3>6. L = [k \in 1 .. Len(L) |-> L[k]]
      BY <3>3
    <3> QED
      BY <2>2, <2>5, <3>1, <3>5, <3>6 DEF L
  <2>6. CASE ~(cur_size < buf_size)
    BY <2>2, <2>3, <2>6
  <2> QED
    BY <2>5, <2>6
<1>2. Init => FormatInv
  BY DEF Init, FormatInv
<1> QED
  BY <1>1, <1>2, PlaceInit, PlaceStep, FormatStep, PTL DEF Spec, NeededIsHonest

-----------------------------------------------------------------------------
(* What the code pane shows.                                               *)

\* The items with the newlines that print_code took from them.
Items == [k \in DOMAIN shown |-> shown[k] \o <<NL>>]

\* While it prints a listing: what is not printed yet stands in temp from temp1
\* on, and the items are the lines in front of temp1.
PrintInv ==
  /\ pc = "pane" => shown = <<>>
  /\ pc = "print" /\ attr # <<>> =>
       /\ round \in 1 .. MaxRounds /\ Holds(temp, temp1, Listing, TempSize)
       /\ FlattenSeq(Items) = SubSeq(Listing, 1, temp1)

\* The characters of the first lines of the first rounds, newlines apart.
FirstLines(r) == (1 .. r) \X {1}

\* Up to its first NUL, which is in front of e, a buffer holds characters of the
\* first lines of the first rounds.
Left(b, r, e) == \E z \in 0 .. e - 1 : b[z] = NUL /\ \A a \in 0 .. z - 1 : b[a] \in FirstLines(r)

\* That is what a session leaves in temp, as soon as it has printed its first
\* line, until the next one has written a line; one that writes none prints it.
LeftInv ==
  /\ pc \in {"idle", "ioctl", "killed"} => Left(temp, round, TempSize)
  /\ pc = "pane" /\ i = 1 => Left(temp, round - 1, TempSize)
  /\ pc = "print" /\ attr = <<>> => temp1 = 0 /\ shown = <<>> /\ Left(temp, round - 1, TempSize)
  /\ pc = "print" /\ attr # <<>> /\ temp1 > 0 => Left(temp, round, temp1)

\* One more item is one more sequence of characters.
LEMMA ItemsAppend ==
  ASSUME NEW sh \in Seq(Seq(Values)), NEW c \in Seq(Values)
  PROVE  LET items(x) == [k \in DOMAIN x |-> x[k] \o <<NL>>] IN
         /\ items(sh) \in Seq(Seq(Values)) /\ c \o <<NL>> \in Seq(Values)
         /\ items(Append(sh, c)) = Append(items(sh), c \o <<NL>>)
<1> DEFINE n       == Len(sh)
           more    == Append(sh, c)
           Line(x) == x \o <<NL>>
           last    == Line(c)
           old     == [k \in 1 .. n |-> Line(sh[k])]
           new     == [k \in 1 .. n + 1 |-> Line(more[k])]
<1>1. /\ n \in Nat /\ DOMAIN sh = 1 .. n /\ DOMAIN more = 1 .. n + 1
      /\ more[n + 1] = c /\ \A k \in 1 .. n : more[k] = sh[k] /\ sh[k] \in Seq(Values)
  OBVIOUS
<1>2. \A x \in Seq(Values) : Line(x) \in Seq(Values)
  <2> SUFFICES ASSUME NEW x \in Seq(Values) PROVE Line(x) \in Seq(Values)
    OBVIOUS
  <2>1. <<NL>> \in Seq(Values)
    BY DEF Values
  <2> QED
    BY <2>1, ConcatProperties
<1> HIDE DEF more, n, Line
<1>3. old \in Seq(Seq(Values)) /\ Len(old) = n /\ last \in Seq(Values)
  BY <1>1, <1>2
<1>4. new[n + 1] = last /\ \A k \in 1 .. n : new[k] = old[k]
  <2>1. n + 1 \in 1 .. n + 1 /\ \A k \in 1 .. n : k \in 1 .. n + 1
    BY <1>1
  <2> QED
    BY <1>1, <2>1
<1>5. \A k \in 1 .. n + 1 : k = n + 1 \/ (k # n + 1 /\ k \in 1 .. n)
  BY <1>1
<1>6. new = Append(old, last)
  <2>1. new = [k \in 1 .. n + 1 |-> new[k]]
    OBVIOUS
  <2> HIDE DEF old, new, last
  <2>2. /\ DOMAIN Append(old, last) = 1 .. n + 1 /\ Append(old, last)[n + 1] = last
        /\ \A k \in 1 .. n : Append(old, last)[k] = old[k]
        /\ Append(old, last) = [k \in DOMAIN Append(old, last) |-> Append(old, last)[k]]
    <3> DEFINE T == Seq(Values)
    <3>1. n \in Nat /\ old \in Seq(T) /\ last \in T /\ Len(old) = n
      BY <1>1, <1>3
    <3> HIDE DEF T
    <3>2. Append(old, last) \in Seq(T) /\ Len(Append(old, last)) = n + 1
      BY ONLY <3>1
    <3>3. Append(old, last)[n + 1] = last /\ \A k \in 1 .. n : Append(old, last)[k] = old[k]
      BY ONLY <3>1
    <3> DEFINE ap == Append(old, last)
    <3>4. ap \in Seq(T) /\ Len(ap) = n + 1
      BY <3>2
    <3> HIDE DEF ap
    <3>5. DOMAIN ap = 1 .. n + 1 /\ ap = [k \in DOMAIN ap |-> ap[k]]
      BY <3>4
    <3> QED
      BY <3>3, <3>5 DEF ap
  <2>3. \A k \in 1 .. n + 1 : new[k] = Append(old, last)[k]
    BY <1>4, <1>5, <2>2
  <2> QED
    BY <2>1, <2>2, <2>3
<1>7. /\ [k \in DOMAIN sh |-> Line(sh[k])] = old
      /\ [k \in DOMAIN more |-> Line(more[k])] = new
  BY <1>1
<1> QED
  BY <1>2, <1>3, <1>6, <1>7 DEF more, Line

\* Two texts, one behind the other.
LEMMA ConcatTwo ==
  \A x, y \in Seq(Values) :
    /\ x \o y \in Seq(Values) /\ Len(x \o y) = Len(x) + Len(y)
    /\ \A k \in 1 .. Len(x) : (x \o y)[k] = x[k]
    /\ \A k \in Len(x) + 1 .. Len(x) + Len(y) : (x \o y)[k] = y[k - Len(x)]
<1> SUFFICES ASSUME NEW x \in Seq(Values), NEW y \in Seq(Values)
             PROVE  /\ x \o y \in Seq(Values) /\ Len(x \o y) = Len(x) + Len(y)
                    /\ \A k \in 1 .. Len(x) : (x \o y)[k] = x[k]
                    /\ \A k \in Len(x) + 1 .. Len(x) + Len(y) : (x \o y)[k] = y[k - Len(x)]
  OBVIOUS
<1> QED
  BY ConcatProperties

\* A text up to p and the item from there to q are the text up to q.
LEMMA TakeMore ==
  ASSUME NEW text \in Seq(Written), NEW p \in Nat, NEW q \in Nat, p <= q, q <= Len(text),
         NEW c \in Seq(Values), Len(c) = q - p, \A k \in 1 .. q - p : c[k] = text[p + k]
  PROVE  /\ SubSeq(text, 1, p) \o (c \o <<NL>>) = SubSeq(text, 1, q) \o <<NL>>
         /\ q < Len(text) /\ text[q + 1] = NL =>
              SubSeq(text, 1, p) \o (c \o <<NL>>) = SubSeq(text, 1, q + 1)
<1>1. Len(text) \in Nat /\ text \in Seq(Values) /\ <<NL>> \in Seq(Values) /\ Len(<<NL>>) = 1 /\ <<NL>>[1] = NL
  BY DEF Written, Values
<1>2. \A j \in 0 .. Len(text) : /\ SubSeq(text, 1, j) \in Seq(Values) /\ Len(SubSeq(text, 1, j)) = j
                                /\ \A k \in 1 .. j : SubSeq(text, 1, j)[k] = text[k]
  <2> SUFFICES ASSUME NEW j \in 0 .. Len(text)
               PROVE  /\ SubSeq(text, 1, j) \in Seq(Values) /\ Len(SubSeq(text, 1, j)) = j
                      /\ \A k \in 1 .. j : SubSeq(text, 1, j)[k] = text[k]
    OBVIOUS
  <2>1. \A x \in 1 .. j : text[x] \in Values
    BY <1>1
  <2>2. j \in Nat /\ SubSeq(text, 1, j) = [k \in 1 .. (1 + j - 1) |-> text[k + 1 - 1]]
    BY <1>1 DEF SubSeq
  <2>3. 1 + j - 1 = j /\ \A k \in 1 .. j : k + 1 - 1 = k
    BY <2>2
  <2>4. SubSeq(text, 1, j) = [k \in 1 .. j |-> text[k]]
    BY <2>2, <2>3
  <2> QED
    BY <2>1, <2>2, <2>4
<1> DEFINE a == SubSeq(text, 1, p)
           b == SubSeq(text, 1, q)
           z == SubSeq(text, 1, q + 1)
           e == <<NL>>
<1>3. /\ a \in Seq(Values) /\ Len(a) = p /\ \A k \in 1 .. p : a[k] = text[k]
      /\ b \in Seq(Values) /\ Len(b) = q /\ \A k \in 1 .. q : b[k] = text[k]
      /\ q < Len(text) => z \in Seq(Values) /\ Len(z) = q + 1 /\ \A k \in 1 .. q + 1 : z[k] = text[k]
  <2>1. p \in 0 .. Len(text) /\ q \in 0 .. Len(text) /\ (q < Len(text) => q + 1 \in 0 .. Len(text))
    BY <1>1
  <2> QED
    BY <1>2, <2>1
<1>4. e \in Seq(Values) /\ Len(e) = 1 /\ e[1] = NL
  BY <1>1
<1> HIDE DEF a, b, z, e
<1> DEFINE ce == c \o e
<1>5. /\ ce \in Seq(Values) /\ Len(ce) = (q - p) + 1
      /\ \A k \in 1 .. q - p : ce[k] = c[k]
      /\ ce[(q - p) + 1] = NL
  <2>1. /\ c \o e \in Seq(Values) /\ Len(c \o e) = Len(c) + Len(e)
        /\ \A k \in 1 .. Len(c) : (c \o e)[k] = c[k]
        /\ \A k \in Len(c) + 1 .. Len(c) + Len(e) : (c \o e)[k] = e[k - Len(c)]
    BY ConcatTwo, <1>4
  <2>2. (q - p) + 1 \in (q - p) + 1 .. (q - p) + 1 /\ ((q - p) + 1) - (q - p) = 1
    OBVIOUS
  <2> QED
    BY <1>4, <2>1, <2>2
<1> HIDE DEF ce
<1> DEFINE l == a \o ce
           r == b \o e
<1>6. /\ l \in Seq(Values) /\ Len(l) = q + 1
      /\ \A k \in 1 .. p : l[k] = a[k]
      /\ \A k \in p + 1 .. q + 1 : l[k] = ce[k - p]
  <2>1. /\ a \o ce \in Seq(Values) /\ Len(a \o ce) = Len(a) + Len(ce)
        /\ \A k \in 1 .. Len(a) : (a \o ce)[k] = a[k]
        /\ \A k \in Len(a) + 1 .. Len(a) + Len(ce) : (a \o ce)[k] = ce[k - Len(a)]
    BY ConcatTwo, <1>3, <1>5
  <2>2. Len(a) = p /\ p + ((q - p) + 1) = q + 1
    BY <1>3
  <2> QED
    BY <1>5, <2>1, <2>2
<1>7. /\ r \in Seq(Values) /\ Len(r) = q + 1
      /\ \A k \in 1 .. q : r[k] = b[k]
      /\ r[q + 1] = NL
  <2>1. /\ b \o e \in Seq(Values) /\ Len(b \o e) = Len(b) + Len(e)
        /\ \A k \in 1 .. Len(b) : (b \o e)[k] = b[k]
        /\ \A k \in Len(b) + 1 .. Len(b) + Len(e) : (b \o e)[k] = e[k - Len(b)]
    BY ConcatTwo, <1>3, <1>4
  <2>2. q + 1 \in q + 1 .. q + 1 /\ (q + 1) - q = 1
    OBVIOUS
  <2> QED
    BY <1>3, <1>4, <2>1, <2>2
<1> HIDE DEF l, r
<1>8. \A k \in 1 .. q : l[k] = text[k] /\ r[k] = text[k]
  <2> SUFFICES ASSUME NEW k \in 1 .. q PROVE l[k] = text[k] /\ r[k] = text[k]
    OBVIOUS
  <2>1. CASE k <= p
    <3>1. k \in 1 .. p
      BY <2>1
    <3> QED
      BY <1>3, <1>6, <1>7, <3>1
  <2>2. CASE ~(k <= p)
    <3>1. k \in p + 1 .. q + 1 /\ k - p \in 1 .. q - p /\ p + (k - p) = k
      BY <2>2
    <3> QED
      BY <1>3, <1>5, <1>6, <1>7, <3>1
  <2> QED
    BY <2>1, <2>2
<1>9. l[q + 1] = NL
  <2>1. q + 1 \in p + 1 .. q + 1 /\ (q + 1) - p = (q - p) + 1
    OBVIOUS
  <2> QED
    BY <1>5, <1>6, <2>1
<1>10. \A k \in 1 .. q + 1 : k = q + 1 \/ k \in 1 .. q
  OBVIOUS
<1>11. l = r
  <2>1. \A k \in 1 .. q + 1 : l[k] = r[k]
    BY <1>7, <1>8, <1>9, <1>10
  <2> QED
    BY <1>6, <1>7, <2>1
<1>12. ASSUME q < Len(text), text[q + 1] = NL PROVE l = z
  <2>1. \A k \in 1 .. q + 1 : l[k] = z[k]
    BY <1>3, <1>8, <1>9, <1>10, <1>12
  <2> QED
    BY <1>3, <1>6, <1>12, <2>1
<1> QED
  BY <1>11, <1>12 DEF a, b, z, e, ce, l, r

\* While a listing is printed, it is a text of characters that are no NUL.
LEMMA ListingText ==
  ASSUME PlaceInv, round \in 1 .. MaxRounds
  PROVE  Listing \in Seq(Written) /\ Len(Listing) \in Nat
<1>1. attr \in Seq(LineSizes) /\ Len(attr) <= MaxCount
  BY DEF PlaceInv, InBounds, TypeOK, RoomInv
<1>2. Len(attr) \in Nat /\ Listing = Upto(Len(attr)) /\ \A k \in 0 .. Len(attr) : Upto(k) \in Seq(Written)
  BY <1>1, UptoText
<1>3. Listing \in Seq(Written)
  BY <1>2
<1> QED
  BY <1>3

\* One turn of print_code makes an item of the next line of the listing.
LEMMA PrintTakes ==
  ASSUME PlaceInv, PrintInv, PrintLine, attr # <<>>
  PROVE  LET m      == Least(Len(Listing), TempSize - 1)
             joined == FlattenSeq([k \in DOMAIN shown' |-> shown'[k] \o <<NL>>]) IN
         \E temp2 \in Nat :
           \/ /\ pc' = "idle" /\ temp2 = m
              /\ joined = SubSeq(Listing, 1, m) \o <<NL>>
           \/ /\ pc' = pc /\ temp2 + 1 <= m /\ temp1 <= temp2
              /\ temp1' = temp2 + 1 /\ temp' = [temp EXCEPT ![temp2] = NUL]
              /\ joined = SubSeq(Listing, 1, temp2 + 1)
<1> DEFINE m      == Least(Len(Listing), TempSize - 1)
           c      == CString(temp', temp1)
           joined == FlattenSeq([k \in DOMAIN shown' |-> shown'[k] \o <<NL>>])
<1>1. PICK temp2 \in temp1 .. TempSize - 1 :
        /\ \A a \in temp1 .. temp2 - 1 : temp[a] \notin {NL, NUL}
        /\ \/ /\ temp[temp2] = NUL /\ pc' = "idle"
           \/ /\ temp[temp2] = NL /\ pc' = pc
              /\ temp' = [temp EXCEPT ![temp2] = NUL] /\ temp1' = temp2 + 1
        /\ shown' = Append(shown, c)
        /\ c \in Seq(Values) /\ Len(c) = temp2 - temp1
        /\ \A k \in 1 .. temp2 - temp1 : c[k] = temp[temp1 + k - 1]
  BY PrintLineDoes
<1>2. /\ pc = "print" /\ temp1 \in Nat /\ shown \in Seq(Seq(Values)) /\ round \in 1 .. MaxRounds
      /\ Holds(temp, temp1, Listing, TempSize) /\ FlattenSeq(Items) = SubSeq(Listing, 1, temp1)
      /\ TempSize \in Nat /\ 1 <= TempSize
  BY Sizes DEF PrintLine, PrintInv, PlaceInv, InBounds, TypeOK
<1>3. Listing \in Seq(Written) /\ Len(Listing) \in Nat
  BY <1>2, ListingText
<1> DEFINE L == Listing
<1>4. /\ temp1 <= m /\ temp[m] = NUL /\ \A a \in temp1 .. m - 1 : temp[a] = L[a + 1]
  BY <1>2 DEF Holds
<1>5. m \in Nat /\ m <= Len(L)
  <2> DEFINE x == Len(Listing)
             y == TempSize - 1
  <2>1. x \in Nat /\ y \in Nat
    BY <1>2, <1>3
  <2> HIDE DEF x, y
  <2>2. Least(x, y) <= x /\ Least(x, y) \in Nat
    BY <2>1, LeastOf
  <2> QED
    BY <2>2 DEF x, y
<1>6. L \in Seq(Written) /\ \A k \in 1 .. Len(L) : L[k] # NUL
  BY <1>3 DEF Written
<1>7. FlattenSeq(Items) = SubSeq(L, 1, temp1)
  BY <1>2
<1>8. NL # NUL /\ temp2 \in Nat /\ temp1 <= temp2
  BY <1>1, <1>2 DEF NL, NUL
<1>9. joined = FlattenSeq(Items) \o (c \o <<NL>>)
  <2> DEFINE items(x) == [k \in DOMAIN x |-> x[k] \o <<NL>>]
             old      == items(shown)
             line     == c \o <<NL>>
  <2>1. /\ old \in Seq(Seq(Values)) /\ line \in Seq(Values)
        /\ items(Append(shown, c)) = Append(old, line)
    <3> HIDE DEF c
    <3> QED
      BY <1>1, <1>2, ItemsAppend
  <2>2. joined = FlattenSeq(items(Append(shown, c)))
    <3> HIDE DEF c
    <3> QED
      BY <1>1
  <2>3. Items = old
    BY DEF Items
  <2> HIDE DEF items, old, line, joined
  <2>4. FlattenSeq(Append(old, line)) = FlattenSeq(old) \o line
    BY <2>1, FlattenAppend
  <2>5. joined = FlattenSeq(Items) \o line
    BY <2>1, <2>2, <2>3, <2>4
  <2> QED
    BY <2>5 DEF line
<1> HIDE DEF m, c, L, joined
<1>10. temp2 <= m
  <2> SUFFICES ASSUME ~(temp2 <= m) PROVE FALSE
    OBVIOUS
  <2>1. m \in temp1 .. temp2 - 1
    BY <1>2, <1>4, <1>5, <1>8
  <2> QED
    BY <1>1, <1>4, <2>1
<1>11. \A a \in temp1 .. m - 1 : a + 1 \in 1 .. Len(L)
  BY <1>2, <1>5, <1>6
<1>12. \A k \in 1 .. temp2 - temp1 : c[k] = L[temp1 + k]
  <2> SUFFICES ASSUME NEW k \in 1 .. temp2 - temp1 PROVE c[k] = L[temp1 + k]
    OBVIOUS
  <2>1. temp1 + k - 1 \in temp1 .. m - 1 /\ (temp1 + k - 1) + 1 = temp1 + k
    BY <1>2, <1>5, <1>8, <1>10
  <2> QED
    BY <1>1, <1>4, <2>1
<1>13. /\ joined = SubSeq(L, 1, temp2) \o <<NL>>
       /\ temp2 < Len(L) /\ L[temp2 + 1] = NL => joined = SubSeq(L, 1, temp2 + 1)
  <2>1. temp2 <= Len(L) /\ Len(L) \in Nat
    BY <1>3, <1>5, <1>8, <1>10 DEF L
  <2>2. /\ SubSeq(L, 1, temp1) \o (c \o <<NL>>) = SubSeq(L, 1, temp2) \o <<NL>>
        /\ temp2 < Len(L) /\ L[temp2 + 1] = NL =>
             SubSeq(L, 1, temp1) \o (c \o <<NL>>) = SubSeq(L, 1, temp2 + 1)
    <3>1. /\ L \in Seq(Written) /\ temp1 \in Nat /\ temp2 \in Nat /\ temp1 <= temp2
          /\ temp2 <= Len(L) /\ c \in Seq(Values) /\ Len(c) = temp2 - temp1
          /\ \A k \in 1 .. temp2 - temp1 : c[k] = L[temp1 + k]
      BY <1>1, <1>2, <1>6, <1>8, <1>12, <2>1
    <3> QED
      BY ONLY <3>1, TakeMore
  <2> QED
    BY <1>7, <1>9, <2>2
<1>14. CASE temp[temp2] = NUL /\ pc' = "idle"
  <2>1. temp2 = m
    <3> SUFFICES ASSUME temp2 # m PROVE FALSE
      OBVIOUS
    <3>1. temp2 \in temp1 .. m - 1
      BY <1>2, <1>5, <1>8, <1>10
    <3> QED
      BY <1>4, <1>6, <1>11, <1>14, <3>1
  <2>2. pc' = "idle" /\ temp2 = m /\ joined = SubSeq(L, 1, m) \o <<NL>>
    BY <1>13, <1>14, <2>1
  <2> QED
    BY <1>8, <2>2 DEF m, L, joined
<1>15. CASE temp[temp2] = NL /\ pc' = pc /\ temp' = [temp EXCEPT ![temp2] = NUL] /\ temp1' = temp2 + 1
  <2>1. temp2 # m
    BY <1>4, <1>8, <1>15
  <2>2. temp2 \in temp1 .. m - 1 /\ temp2 + 1 <= m
    BY <1>2, <1>5, <1>8, <1>10, <2>1
  <2>3. L[temp2 + 1] = NL /\ temp2 < Len(L)
    BY <1>3, <1>4, <1>5, <1>8, <1>15, <2>2 DEF L
  <2>4. joined = SubSeq(L, 1, temp2 + 1)
    BY <1>13, <2>3
  <2> QED
    BY <1>8, <1>15, <2>2, <2>4 DEF m, L, joined
<1> QED
  BY <1>1, <1>14, <1>15

\* Nothing is cut off twice: what a full buffer holds of the lines so far is what
\* it holds of all lines.
LEMMA HoldsListing ==
  ASSUME PlaceInv, FormatInv, FormatEnd, pc = "pane", attr # <<>>
  PROVE  Holds(temp, 0, Listing, TempSize)
<1> DEFINE s == Upto(i - 1)
           L == Listing
<1>1. /\ L \in Seq(Written) /\ Len(L) \in Nat /\ cur_size \in Nat /\ cur_size = Len(s) /\ cur_size <= Len(L)
      /\ \A a \in 1 .. cur_size : s[a] = L[a]
      /\ cur_size < buf_size => s = L
      /\ i = 1 => cur_size = 0
      /\ i = 1 /\ cur_size < buf_size => Len(attr) = 0
  BY FormatEndLeaves
<1>2. buf_size = TempSize /\ Len(attr) >= 1 /\ i \in Nat /\ i >= 1 /\ TempSize \in Nat /\ 1 <= TempSize
  <2>1. attr \in Seq(LineSizes) /\ attr # <<>>
    BY DEF PlaceInv, RoomInv
  <2>2. Len(attr) >= 1
    BY <2>1
  <2> QED
    BY <2>2, Sizes DEF PlaceInv, InBounds, TypeOK, RoomInv
<1>3. i > 1
  <2> SUFFICES ASSUME i = 1 PROVE FALSE
    BY <1>2
  <2>1. cur_size < buf_size
    BY <1>1, <1>2
  <2>2. Len(attr) = 0
    BY <1>1, <2>1
  <2> QED
    BY <1>2, <2>2
<1>4. Holds(temp, 0, s, TempSize)
  BY <1>2, <1>3 DEF FormatInv
<1> HIDE DEF s, L
<1>5. CASE cur_size < TempSize
  BY <1>1, <1>2, <1>4, <1>5 DEF L
<1>6. CASE ~(cur_size < TempSize)
  <2>1. Least(Len(s), TempSize - 1) = TempSize - 1 /\ Least(Len(L), TempSize - 1) = TempSize - 1
    BY <1>1, <1>2, <1>6 DEF Least
  <2>2. temp[TempSize - 1] = NUL /\ \A a \in 0 .. (TempSize - 1) - 1 : temp[a] = s[a + 1]
    BY <1>4, <2>1 DEF Holds
  <2>3. \A a \in 0 .. (TempSize - 1) - 1 : a + 1 \in 1 .. cur_size
    BY <1>1, <1>2, <1>6
  <2>4. \A a \in 0 .. (TempSize - 1) - 1 : temp[a] = L[a + 1]
    BY <1>1, <2>2, <2>3
  <2>5. 0 <= TempSize - 1
    BY <1>2
  <2>6. Holds(temp, 0, L, TempSize)
    BY <2>1, <2>2, <2>4, <2>5 DEF Holds
  <2> QED
    BY <2>6 DEF L
<1> QED
  BY <1>5, <1>6

LEMMA PrintKeeps ==
  ASSUME PlaceInv, PrintInv, PrintLine, attr # <<>>
  PROVE  PrintInv'
<1> DEFINE m      == Least(Len(Listing), TempSize - 1)
           joined == FlattenSeq([k \in DOMAIN shown' |-> shown'[k] \o <<NL>>])
<1>1. PICK temp2 \in Nat :
        \/ pc' = "idle"
        \/ /\ temp2 + 1 <= m /\ temp1 <= temp2
           /\ temp1' = temp2 + 1 /\ temp' = [temp EXCEPT ![temp2] = NUL]
           /\ joined = SubSeq(Listing, 1, temp2 + 1)
  BY PrintTakes
<1>2. /\ pc = "print" /\ attr' = attr /\ round' = round /\ (pc' = "idle" \/ pc' = pc)
      /\ temp \in [Cells -> Values] /\ temp1 \in Nat
  BY DEF PrintLine, PlaceInv, InBounds, TypeOK
<1>3. Listing' = Listing
  BY <1>2 DEF Listing, Text, Char
<1>4. round \in 1 .. MaxRounds /\ Holds(temp, temp1, Listing, TempSize)
  BY <1>2 DEF PrintInv
<1>5. Items' = [k \in DOMAIN shown' |-> shown'[k] \o <<NL>>]
  BY DEF Items
<1>6. /\ Cells = 0 .. 2 * Biggest + Longest /\ Biggest \in Nat /\ Longest \in Nat
      /\ TempSize \in Nat /\ 1 <= TempSize /\ TempSize <= Biggest
  BY Sizes
<1>7. m \in Nat /\ m <= TempSize - 1
  <2> DEFINE x == Len(Listing)
             y == TempSize - 1
  <2>1. x \in Nat /\ y \in Nat
    BY <1>4, <1>6, ListingText
  <2> HIDE DEF x, y
  <2>2. Least(x, y) <= y /\ Least(x, y) \in Nat
    BY <2>1, LeastOf
  <2> QED
    BY <2>2 DEF x, y
<1>8. temp[m] = NUL /\ \A a \in temp1 .. m - 1 : temp[a] = Listing[a + 1]
  BY <1>4 DEF Holds
<1>9. CASE pc' = "idle"
  BY <1>9 DEF PrintInv
<1>10. CASE /\ temp2 + 1 <= m /\ temp1 <= temp2
            /\ temp1' = temp2 + 1 /\ temp' = [temp EXCEPT ![temp2] = NUL]
            /\ joined = SubSeq(Listing, 1, temp2 + 1)
  <2> HIDE DEF m, joined
  <2>1. \A a \in temp2 + 1 .. m : a \in Cells /\ a # temp2
    BY <1>6, <1>7
  <2>2. \A a \in temp2 + 1 .. m : temp'[a] = temp[a]
    BY <1>2, <1>10, <2>1
  <2>3. m \in temp2 + 1 .. m /\ \A a \in temp2 + 1 .. m - 1 : a \in temp2 + 1 .. m /\ a \in temp1 .. m - 1
    BY <1>2, <1>7, <1>10
  <2>4. temp'[m] = NUL /\ \A a \in temp1' .. m - 1 : temp'[a] = Listing[a + 1]
    BY <1>8, <1>10, <2>2, <2>3
  <2>5. Holds(temp', temp1', Listing, TempSize)
    BY <1>10, <2>4 DEF Holds, m
  <2>6. FlattenSeq(Items') = SubSeq(Listing', 1, temp1')
    BY <1>3, <1>5, <1>10 DEF joined
  <2>7. pc' # "pane"
    BY <1>2
  <2> QED
    BY <1>2, <1>3, <1>4, <2>5, <2>6, <2>7 DEF PrintInv, Holds
<1> QED
  BY <1>1, <1>9, <1>10

LEMMA PrintStep == PlaceInv /\ FormatInv /\ PrintInv /\ [Next]_vars => PrintInv'
<1> SUFFICES ASSUME PlaceInv, FormatInv, PrintInv, [Next]_vars PROVE PrintInv'
  OBVIOUS
<1>1. ASSUME NEW who \in {"pane", "ioctl"}, NewDisasm(who) PROVE PrintInv'
  BY <1>1 DEF NewDisasm, Crashed, PrintInv
<1>2. CASE FormatLine
  BY <1>2 DEF FormatLine, PrintInv
<1>3. CASE FormatEnd
  <2>1. /\ attr' = attr /\ round' = round /\ temp' = temp /\ shown' = shown /\ pc \in {"pane", "ioctl"}
        /\ pc' = "print" => pc = "pane" /\ temp1' = 0
        /\ pc' # "pane"
    BY <1>3 DEF FormatEnd
  <2>2. Listing' = Listing
    BY <2>1 DEF Listing, Text, Char
  <2>3. CASE pc = "pane" /\ attr # <<>>
    <3>1. Holds(temp, 0, Listing, TempSize)
      BY <1>3, <2>3, HoldsListing
    <3>2. round \in 1 .. MaxRounds
      <4>1. round \in 0 .. MaxRounds /\ round >= 1
        BY <2>3 DEF PlaceInv, InBounds, TypeOK, RoomInv
      <4> QED
        BY <4>1, SizesAssumption
    <3>3. FlattenSeq(Items') = <<>>
      <4>1. shown' = <<>>
        BY <2>1, <2>3 DEF PrintInv
      <4>2. Items' = <<>>
        BY <4>1 DEF Items
      <4>3. FlattenSeq(<<>>) = <<>>
        BY DEF FlattenSeq
      <4> QED
        BY <4>2, <4>3
    <3>4. SubSeq(Listing, 1, 0) = <<>>
      <4>1. \A l : SubSeq(l, 1, 0) = <<>>
        BY DEF SubSeq
      <4> QED
        BY <4>1
    <3>5. pc' = "print" => Holds(temp', temp1', Listing', TempSize)
      BY <2>1, <2>2, <3>1
    <3>6. pc' = "print" => FlattenSeq(Items') = SubSeq(Listing', 1, temp1')
      BY <2>1, <2>2, <3>3, <3>4
    <3> QED
      BY <2>1, <3>2, <3>5, <3>6 DEF PrintInv, Holds
  <2>4. CASE pc # "pane" \/ attr = <<>>
    BY <2>1, <2>4 DEF PrintInv
  <2> QED
    BY <2>3, <2>4
<1>4. CASE PrintLine
  <2>1. CASE attr # <<>>
    BY <1>4, <2>1, PrintKeeps
  <2>2. CASE attr = <<>>
    <3>1. attr' = <<>> /\ pc' # "pane"
      BY <1>4, <2>2 DEF PrintLine
    <3> QED
      BY <3>1 DEF PrintInv
  <2> QED
    BY <2>1, <2>2
<1>5. CASE PrintEnd \/ FormatNull
  BY <1>5 DEF PrintEnd, FormatNull, PrintInv
<1>6. CASE UNCHANGED vars
  <2>1. /\ pc' = pc /\ attr' = attr /\ round' = round /\ temp' = temp /\ shown' = shown /\ temp1' = temp1
    BY <1>6 DEF vars
  <2>2. Listing' = Listing /\ Items' = Items
    BY <2>1 DEF Listing, Text, Char, Items
  <2> QED
    BY <2>1, <2>2 DEF PrintInv, Holds
<1> QED
  BY <1>1, <1>2, <1>3, <1>4, <1>5, <1>6 DEF Next

-----------------------------------------------------------------------------
(* What is left in temp for a session that has no memory for its listing.  *)

LEMMA LeftMore ==
  ASSUME NEW b, NEW r \in Nat, NEW q \in Nat, r <= q, NEW e \in Nat, NEW f \in Nat, e <= f, Left(b, r, e)
  PROVE  Left(b, q, f)
<1>1. PICK z \in 0 .. e - 1 : b[z] = NUL /\ \A a \in 0 .. z - 1 : b[a] \in FirstLines(r)
  BY DEF Left
<1>2. z \in 0 .. f - 1
  OBVIOUS
<1>3. FirstLines(r) \subseteq FirstLines(q)
  BY DEF FirstLines
<1>4. \A a \in 0 .. z - 1 : b[a] \in FirstLines(q)
  BY <1>1, <1>3
<1> QED
  BY <1>1, <1>2, <1>4 DEF Left

\* What comes in front of the first newline of a listing is of its first line.
LEMMA FirstLineOnly ==
  ASSUME PlaceInv, round \in 1 .. MaxRounds, attr # <<>>,
         NEW k \in Nat, k <= Len(Listing), \A a \in 1 .. k : Listing[a] # NL
  PROVE  \A a \in 1 .. k : Listing[a] \in FirstLines(round)
<1>1. attr \in Seq(LineSizes) /\ Len(attr) <= MaxCount
  BY DEF PlaceInv, InBounds, TypeOK, RoomInv
<1>2. Len(attr) \in Nat /\ Len(attr) >= 1 /\ DOMAIN attr = 1 .. Len(attr)
  BY <1>1
<1>3. 1 \in 1 .. Len(attr) /\ 1 \in 0 .. Len(attr) /\ 1 \in DOMAIN attr
  BY <1>2
<1>4. /\ Upto(0) = <<>> /\ Upto(1) = Upto(1 - 1) \o Text(1)
      /\ \A a \in 1 .. Len(Upto(1)) : Upto(1)[a] = Listing[a]
  BY <1>1, <1>3, UptoText
<1>5. Text(1) \in Seq(Written) /\ Len(Text(1)) = attr[1] /\ attr[1] \in LineSizes
  BY <1>1, <1>3, TextType
<1>6. Upto(1) = Text(1)
  <2>1. Upto(1 - 1) = <<>>
    BY <1>4
  <2>2. <<>> \o Text(1) = Text(1)
    BY <1>5, ConcatEmptySeq
  <2> QED
    BY <1>4, <2>1, <2>2
<1>7. attr[1] \in Nat /\ 1 <= attr[1]
  BY <1>5, Sizes
<1>8. \A a \in 1 .. attr[1] : Listing[a] = Text(1)[a]
  BY <1>4, <1>5, <1>6
<1> DEFINE n == attr[1]
<1>9. \A a \in 1 .. n : Text(1)[a] = IF a = n THEN NL ELSE <<round, 1>>
  BY DEF Text, Char
<1>10. \A a \in 1 .. n : Listing[a] = IF a = n THEN NL ELSE <<round, 1>>
  BY <1>8, <1>9
<1>11. n \in Nat /\ 1 <= n
  BY <1>7
<1> HIDE DEF n
<1>12. k < n
  <2> SUFFICES ASSUME ~(k < n) PROVE FALSE
    OBVIOUS
  <2>1. n \in 1 .. k /\ n \in 1 .. n
    BY <1>11
  <2> QED
    BY <1>10, <2>1
<1>13. \A a \in 1 .. k : a \in 1 .. n /\ a # n
  BY <1>11, <1>12
<1>14. <<round, 1>> \in FirstLines(round)
  BY SizesAssumption DEF FirstLines
<1> QED
  BY <1>10, <1>13, <1>14

\* Without a listing print_code makes one item of what is left, and stops.
LEMMA LeftIsPrinted ==
  ASSUME PlaceInv, LeftInv, PrintLine, attr = <<>>
  PROVE  /\ pc' = "idle" /\ temp' = temp /\ Len(shown') = 1
         /\ \A a \in DOMAIN shown'[1] : shown'[1][a] \in FirstLines(round - 1)
<1> DEFINE c == CString(temp', temp1)
<1>1. PICK temp2 \in temp1 .. TempSize - 1 :
        /\ \A a \in temp1 .. temp2 - 1 : temp[a] \notin {NL, NUL}
        /\ \/ /\ temp[temp2] = NUL
              /\ pc' = "idle" /\ temp' = temp
           \/ temp[temp2] = NL
        /\ shown' = Append(shown, c)
        /\ c \in Seq(Values) /\ Len(c) = temp2 - temp1
        /\ \A k \in 1 .. temp2 - temp1 : c[k] = temp[temp1 + k - 1]
  BY PrintLineDoes
<1> HIDE DEF c
<1>2. temp1 = 0 /\ shown = <<>> /\ Left(temp, round - 1, TempSize) /\ TempSize \in Nat
  BY Sizes DEF LeftInv, PrintLine
<1>3. PICK z \in 0 .. TempSize - 1 :
        temp[z] = NUL /\ \A a \in 0 .. z - 1 : temp[a] \in FirstLines(round - 1)
  BY <1>2 DEF Left
<1>4. NL \notin FirstLines(round - 1) /\ NL # NUL
  BY DEF FirstLines, NL, NUL
<1>5. temp2 \in Nat /\ z \in Nat /\ temp2 <= z
  <2>1. temp2 \in Nat /\ z \in Nat
    BY <1>1, <1>2, <1>3
  <2>2. ASSUME z < temp2 PROVE FALSE
    <3>1. z \in temp1 .. temp2 - 1
      BY <1>2, <2>1, <2>2
    <3> QED
      BY <1>1, <1>3, <3>1
  <2> QED
    BY <2>1, <2>2
<1>6. temp[temp2] # NL
  <2>1. CASE temp2 = z
    BY <1>3, <1>4, <2>1
  <2>2. CASE temp2 # z
    <3>1. temp2 \in 0 .. z - 1
      BY <1>5, <2>2
    <3> QED
      BY <1>3, <1>4, <3>1
  <2> QED
    BY <2>1, <2>2
<1>7. Len(shown') = 1 /\ shown'[1] = c
  BY <1>1, <1>2
<1>8. DOMAIN c = 1 .. temp2
  BY <1>1, <1>2, <1>5
<1>9. ASSUME NEW a \in 1 .. temp2 PROVE c[a] \in FirstLines(round - 1)
  <2>1. a - 1 \in 0 .. z - 1 /\ a \in 1 .. temp2 - temp1 /\ temp1 + a - 1 = a - 1
    BY <1>2, <1>5
  <2> QED
    BY <1>1, <1>3, <2>1
<1> QED
  BY <1>1, <1>6, <1>7, <1>8, <1>9

\* The first line is cut off from the others when it is printed, and the session
\* does not touch it any more.
LEMMA LeftByPrint ==
  ASSUME PlaceInv, PrintInv, LeftInv, PrintLine, attr # <<>>
  PROVE  LeftInv'
<1>1. PICK temp2 \in temp1 .. TempSize - 1 :
        /\ \A a \in temp1 .. temp2 - 1 : temp[a] \notin {NL, NUL}
        /\ \/ /\ temp[temp2] = NUL
              /\ pc' = "idle" /\ temp' = temp /\ temp1' = temp1
           \/ /\ temp[temp2] = NL
              /\ pc' = pc /\ temp' = [temp EXCEPT ![temp2] = NUL] /\ temp1' = temp2 + 1
  BY PrintLineDoes
<1>2. /\ pc = "print" /\ attr' = attr /\ round' = round /\ temp1 \in 0 .. TempSize - 1
      /\ temp \in [Cells -> Values] /\ round \in 0 .. MaxRounds
      /\ round \in 1 .. MaxRounds /\ Holds(temp, temp1, Listing, TempSize)
  BY DEF PrintLine, PrintInv, PlaceInv, InBounds, TypeOK
<1>3. /\ Cells = 0 .. 2 * Biggest + Longest /\ Biggest \in Nat /\ Longest \in Nat
      /\ TempSize \in Nat /\ TempSize <= Biggest /\ MaxRounds \in Nat
  BY Sizes, SizesAssumption
<1>4. temp1 \in Nat /\ temp2 \in Nat /\ temp2 <= TempSize - 1 /\ temp2 \in Cells /\ round \in Nat
      /\ temp1 <= temp2
  BY <1>1, <1>2, <1>3
<1>5. temp'[temp2] = NUL /\ \A a \in Cells : a # temp2 => temp'[a] = temp[a]
  BY <1>1, <1>2, <1>4
<1>6. Left(temp', round, temp2 + 1)
  <2>1. CASE temp1 > 0
    <3>1. PICK z \in 0 .. temp1 - 1 :
            temp[z] = NUL /\ \A a \in 0 .. z - 1 : temp[a] \in FirstLines(round)
      BY <1>2, <2>1 DEF LeftInv, Left
    <3>2. z \in 0 .. (temp2 + 1) - 1 /\ z \in Cells /\ z # temp2
          /\ \A a \in 0 .. z - 1 : a \in Cells /\ a # temp2
      BY <1>3, <1>4, <3>1
    <3>3. temp'[z] = NUL /\ \A a \in 0 .. z - 1 : temp'[a] \in FirstLines(round)
      BY <1>5, <3>1, <3>2
    <3> QED
      BY <3>2, <3>3 DEF Left
  <2>2. CASE temp1 = 0
    <3> DEFINE m == Least(Len(Listing), TempSize - 1)
    <3>1. Len(Listing) \in Nat /\ TempSize - 1 \in Nat
      BY <1>2, <1>3, <1>4, ListingText
    <3>2. m \in Nat /\ m <= Len(Listing)
      <4> DEFINE x == Len(Listing)
                 y == TempSize - 1
      <4>1. x \in Nat /\ y \in Nat
        BY <3>1
      <4> HIDE DEF x, y
      <4>2. Least(x, y) <= x /\ Least(x, y) \in Nat
        BY <4>1, LeastOf
      <4> QED
        BY <4>2 DEF x, y
    <3>3. temp[m] = NUL /\ \A a \in 0 .. m - 1 : temp[a] = Listing[a + 1]
      BY <1>2, <2>2 DEF Holds
    <3> HIDE DEF m
    <3>4. temp2 <= m
      <4> SUFFICES ASSUME ~(temp2 <= m) PROVE FALSE
        OBVIOUS
      <4>1. m \in temp1 .. temp2 - 1
        BY <1>4, <2>2, <3>2
      <4> QED
        BY <1>1, <3>3, <4>1
    <3>5. temp2 <= Len(Listing)
      BY <1>4, <3>1, <3>2, <3>4
    <3>6. ASSUME NEW a \in 1 .. temp2
          PROVE  /\ a - 1 \in 0 .. m - 1 /\ a - 1 \in temp1 .. temp2 - 1 /\ a - 1 \in Cells
                 /\ a - 1 # temp2 /\ (a - 1) + 1 = a
      BY <1>3, <1>4, <2>2, <3>2, <3>4
    <3>7. \A a \in 1 .. temp2 : Listing[a] # NL
      <4> SUFFICES ASSUME NEW a \in 1 .. temp2 PROVE Listing[a] # NL
        OBVIOUS
      <4>1. temp[a - 1] = Listing[a] /\ temp[a - 1] # NL
        BY <1>1, <3>3, <3>6
      <4> QED
        BY <4>1
    <3>8. \A a \in 1 .. temp2 : Listing[a] \in FirstLines(round)
      BY <1>2, <1>4, <3>5, <3>7, FirstLineOnly
    <3>9. ASSUME NEW a \in 0 .. temp2 - 1 PROVE temp'[a] \in FirstLines(round)
      <4>1. a + 1 \in 1 .. temp2 /\ (a + 1) - 1 = a
        BY <1>4
      <4>2. a \in 0 .. m - 1 /\ a \in Cells /\ a # temp2
        BY <3>6, <4>1
      <4> QED
        BY <1>5, <3>3, <3>8, <4>1, <4>2
    <3>10. temp2 \in 0 .. (temp2 + 1) - 1
      BY <1>4
    <3> QED
      BY <1>5, <3>9, <3>10 DEF Left
  <2> QED
    BY <1>4, <2>1, <2>2
<1>7. CASE pc' = "idle"
  <2>1. temp2 + 1 \in Nat /\ temp2 + 1 <= TempSize
    BY <1>3, <1>4
  <2> DEFINE e == temp2 + 1
  <2> HIDE DEF e
  <2>2. e \in Nat /\ e <= TempSize /\ Left(temp', round, e) /\ round <= round
    BY <1>4, <1>6, <2>1 DEF e
  <2>3. Left(temp', round, TempSize)
    BY <1>3, <1>4, <2>2, LeftMore
  <2> QED
    BY <1>2, <1>7, <2>3 DEF LeftInv
<1>8. CASE pc' = pc /\ temp1' = temp2 + 1
  <2>1. pc' = "print" /\ attr' # <<>>
    BY <1>2, <1>8
  <2> QED
    BY <1>2, <1>6, <1>8, <2>1 DEF LeftInv
<1> QED
  BY <1>1, <1>7, <1>8

LEMMA LeftInit == Init => LeftInv
<1> SUFFICES ASSUME Init PROVE LeftInv
  OBVIOUS
<1>1. pc = "idle" /\ temp = Zeros /\ round = 0
  BY DEF Init
<1>2. 0 \in Cells /\ 0 \in 0 .. TempSize - 1 /\ 0 < TempSize
  BY Sizes
<1>3. temp[0] = NUL /\ 0 .. 0 - 1 = {}
  BY <1>1, <1>2 DEF Zeros
<1>4. Left(temp, round, TempSize)
  BY <1>2, <1>3 DEF Left
<1> QED
  BY <1>1, <1>4 DEF LeftInv

LEMMA LeftStep == PlaceInv /\ FormatInv /\ PrintInv /\ LeftInv /\ [Next]_vars => LeftInv'
<1> SUFFICES ASSUME PlaceInv, FormatInv, PrintInv, LeftInv, [Next]_vars PROVE LeftInv'
  OBVIOUS
<1>1. /\ TempSize \in Nat /\ 1 <= TempSize /\ round \in Nat /\ i \in Nat /\ 1 <= i
      /\ temp1 \in Nat /\ temp1 <= TempSize
  BY Sizes, SizesAssumption DEF PlaceInv, InBounds, TypeOK
<1>2. ASSUME NEW who \in {"pane", "ioctl"}, NewDisasm(who) PROVE LeftInv'
  <2>1. /\ pc \in {"idle", "killed"} /\ round' = round + 1 /\ temp' = temp
        /\ pc' \in {"pane", "ioctl", "oops", "killed"}
    BY <1>2 DEF NewDisasm, Crashed
  <2>2. Left(temp, round, TempSize)
    BY <2>1 DEF LeftInv
  <2>3. Left(temp, round + 1, TempSize)
    <3> DEFINE q == round + 1
    <3>1. q \in Nat /\ round <= q /\ TempSize <= TempSize
      BY <1>1
    <3> HIDE DEF q
    <3>2. Left(temp, q, TempSize)
      BY <1>1, <2>2, <3>1, LeftMore
    <3> QED
      BY <3>2 DEF q
  <2>4. round' - 1 = round
    BY <1>1, <2>1
  <2> QED
    BY <2>1, <2>2, <2>3, <2>4 DEF LeftInv
<1>3. CASE FormatLine
  <2>1. /\ pc \in {"pane", "ioctl"} /\ pc' = pc /\ i' # 1 /\ round' = round
        /\ pc = "ioctl" => temp' = temp
    BY <1>1, <1>3 DEF FormatLine
  <2> QED
    BY <2>1 DEF LeftInv
<1>4. CASE FormatNull
  BY <1>4 DEF FormatNull, LeftInv
<1>5. CASE FormatEnd
  <2>1. /\ pc \in {"pane", "ioctl"} /\ attr' = attr /\ round' = round /\ temp' = temp /\ shown' = shown
        /\ pc = "pane" => pc' = "print" /\ temp1' = 0
        /\ pc = "ioctl" => pc' = "idle"
    BY <1>5 DEF FormatEnd
  <2>2. pc = "pane" /\ attr = <<>> => i = 1 /\ shown = <<>>
    <3>1. pc = "pane" /\ attr = <<>> => i - 1 <= 0
      BY DEF FormatInv
    <3> QED
      BY <1>1, <3>1 DEF PrintInv
  <2>3. pc = "pane" /\ attr = <<>> => Left(temp, round - 1, TempSize)
    BY <2>2 DEF LeftInv
  <2>4. pc = "ioctl" => Left(temp, round, TempSize)
    BY DEF LeftInv
  <2>5. CASE pc = "pane"
    BY <2>1, <2>2, <2>3, <2>5 DEF LeftInv
  <2>6. CASE pc = "ioctl"
    BY <2>1, <2>4, <2>6 DEF LeftInv
  <2> QED
    BY <2>1, <2>5, <2>6
<1>6. ASSUME pc = "print", attr = <<>> PROVE Left(temp, round, TempSize)
  <2>1. Left(temp, round - 1, TempSize) /\ round - 1 <= round /\ TempSize <= TempSize
    BY <1>1, <1>6 DEF LeftInv
  <2>2. CASE round = 0
    <3>1. FirstLines(round - 1) \subseteq FirstLines(round)
      BY <2>2 DEF FirstLines
    <3> QED
      BY <2>1, <3>1 DEF Left
  <2>3. CASE round # 0
    <3> DEFINE r == round - 1
    <3>1. r \in Nat /\ r <= round
      BY <1>1, <2>3
    <3>2. Left(temp, r, TempSize)
      BY <2>1
    <3> HIDE DEF r
    <3> QED
      BY <1>1, <2>1, <3>1, <3>2, LeftMore
  <2> QED
    BY <2>2, <2>3
<1>7. CASE PrintLine
  <2>1. CASE attr # <<>>
    BY <1>7, <2>1, LeftByPrint
  <2>2. CASE attr = <<>>
    <3>1. pc' = "idle" /\ temp' = temp /\ round' = round /\ pc = "print"
      BY <1>7, <2>2, LeftIsPrinted DEF PrintLine
    <3>2. Left(temp', round', TempSize)
      BY <1>6, <2>2, <3>1
    <3> QED
      BY <3>1, <3>2 DEF LeftInv
  <2> QED
    BY <2>1, <2>2
<1>8. CASE PrintEnd
  <2>1. pc' = "idle" /\ temp' = temp /\ round' = round /\ pc = "print" /\ temp[temp1] = NUL
    BY <1>8 DEF PrintEnd
  <2>2. Left(temp, round, TempSize)
    <3>1. CASE attr = <<>>
      BY <1>6, <2>1, <3>1
    <3>2. CASE attr # <<>> /\ temp1 > 0
      <4>1. Left(temp, round, temp1) /\ round <= round
        BY <1>1, <2>1, <3>2 DEF LeftInv
      <4> QED
        BY <1>1, <4>1, LeftMore
    <3>3. CASE temp1 = 0
      <4>1. 0 \in 0 .. TempSize - 1 /\ 0 .. 0 - 1 = {} /\ temp[0] = NUL
        BY <1>1, <2>1, <3>3
      <4> QED
        BY <4>1 DEF Left
    <3> QED
      BY <1>1, <3>1, <3>2, <3>3
  <2> QED
    BY <2>1, <2>2 DEF LeftInv
<1>9. CASE UNCHANGED vars
  <2>1. /\ pc' = pc /\ attr' = attr /\ round' = round /\ temp' = temp /\ shown' = shown
        /\ temp1' = temp1 /\ i' = i
    BY <1>9 DEF vars
  <2> QED
    BY <2>1 DEF LeftInv
<1> QED
  BY <1>2, <1>3, <1>4, <1>5, <1>7, <1>8, <1>9 DEF Next

\* The code pane shows the lines of this session, in order and cut where temp
\* ends, although temp is static and print_code reads it up to a NUL: nothing
\* that an earlier session left there can follow.  If no memory is found for the
\* listing, nothing was written to temp, and what the pane shows is a part of the
\* first line of an earlier session, or nothing.
THEOREM PaneShowsListing == Spec => ShownIsListing
<1> DEFINE joined == FlattenSeq([k \in DOMAIN shown' |-> shown'[k] \o <<NL>>])
           fits   == SubSeq(Listing, 1, Min({Len(Listing), TempSize - 1}))
           m      == Least(Len(Listing), TempSize - 1)
           old    == /\ Len(shown') <= 1
                     /\ \A k \in DOMAIN shown' : \A a \in DOMAIN shown'[k] :
                          shown'[k][a] \in (1 .. round - 1) \X {1}
<1>1. PlaceInv /\ PrintInv /\ [Next]_vars =>
        [pc = "print" /\ pc' = "idle" /\ attr # <<>> => joined \in {fits, fits \o <<NL>>}]_vars
  <2> SUFFICES ASSUME PlaceInv, PrintInv, Next, pc = "print", pc' = "idle", attr # <<>>
               PROVE  joined \in {fits, fits \o <<NL>>}
    OBVIOUS
  <2>1. PrintLine \/ PrintEnd
    BY DEF Next, NewDisasm, FormatLine, FormatNull, FormatEnd
  <2>2. /\ round \in 1 .. MaxRounds /\ Holds(temp, temp1, Listing, TempSize) /\ temp1 \in Nat
        /\ FlattenSeq(Items) = SubSeq(Listing, 1, temp1) /\ TempSize \in Nat /\ 1 <= TempSize
    BY Sizes DEF PrintInv, PlaceInv, InBounds, TypeOK
  <2>3. Listing \in Seq(Written) /\ Len(Listing) \in Nat
    BY <2>2, ListingText
  <2>4. m = Min({Len(Listing), TempSize - 1}) /\ m \in Nat /\ m <= Len(Listing)
    <3> DEFINE x == Len(Listing)
               y == TempSize - 1
    <3>1. x \in Nat /\ y \in Nat
      BY <2>2, <2>3
    <3> HIDE DEF x, y
    <3>2. Least(x, y) \in Nat /\ Least(x, y) <= x /\ Least(x, y) <= y /\ Least(x, y) \in {x, y}
      BY <3>1, LeastOf
    <3>3. {x, y} \subseteq Nat /\ {x, y} # {}
      BY <3>1
    <3>4. Min({x, y}) \in {x, y} /\ \A a \in {x, y} : Min({x, y}) <= a
      BY <3>3, MinNat
    <3>5. Min({x, y}) = Least(x, y)
      BY <3>1, <3>2, <3>4
    <3> QED
      BY <3>2, <3>5 DEF x, y
  <2> DEFINE L == Listing
  <2>5. temp1 <= m /\ \A a \in temp1 .. m - 1 : temp[a] = L[a + 1]
    BY <2>2 DEF Holds
  <2>6. CASE PrintLine
    <3>1. \E temp2 \in Nat :
           \/ joined = SubSeq(Listing, 1, m) \o <<NL>>
           \/ pc' = pc
      BY <2>6, PrintTakes
    <3>2. joined = SubSeq(Listing, 1, m) \o <<NL>>
      BY <3>1
    <3> QED
      BY <2>4, <3>2
  <2>7. CASE PrintEnd
    <3>1. temp[temp1] = NUL /\ shown' = shown
      BY <2>7 DEF PrintEnd
    <3>2. temp1 = m
      <4> SUFFICES ASSUME temp1 # m PROVE FALSE
        OBVIOUS
      <4> HIDE DEF m, L
      <4>1. temp1 \in temp1 .. m - 1 /\ temp1 + 1 \in 1 .. Len(L)
        BY <2>2, <2>3, <2>4, <2>5 DEF L
      <4>2. L[temp1 + 1] \in Written
        BY <2>3, <4>1 DEF L
      <4> QED
        BY <2>5, <3>1, <4>1, <4>2 DEF Written
    <3>3. joined = FlattenSeq(Items)
      BY <3>1 DEF Items
    <3> QED
      BY <2>2, <2>4, <3>2, <3>3
  <2> QED
    BY <2>1, <2>6, <2>7
<1>2. PlaceInv /\ LeftInv /\ [Next]_vars =>
        [pc = "print" /\ pc' = "idle" /\ attr = <<>> => old]_vars
  <2> SUFFICES ASSUME PlaceInv, LeftInv, Next, pc = "print", pc' = "idle", attr = <<>>
               PROVE  old
    OBVIOUS
  <2>1. PrintLine \/ PrintEnd
    BY DEF Next, NewDisasm, FormatLine, FormatNull, FormatEnd
  <2>2. CASE PrintLine
    <3>1. Len(shown') = 1 /\ \A a \in DOMAIN shown'[1] : shown'[1][a] \in (1 .. round - 1) \X {1}
      BY <2>2, LeftIsPrinted DEF FirstLines
    <3>2. shown' \in Seq(Seq(Values))
      BY PlaceStep DEF PlaceInv, InBounds, TypeOK
    <3>3. DOMAIN shown' = {1}
      BY <3>1, <3>2
    <3> QED
      BY <3>1, <3>3
  <2>3. CASE PrintEnd
    <3>1. shown' = <<>>
      BY <2>3 DEF PrintEnd, LeftInv
    <3> QED
      BY <3>1
  <2> QED
    BY <2>1, <2>2, <2>3
<1>3. Init => FormatInv /\ PrintInv
  BY DEF Init, FormatInv, PrintInv
<1>4. ShownIsListing <=> [][pc = "print" /\ pc' = "idle" =>
                              IF attr # <<>> THEN joined \in {fits, fits \o <<NL>>} ELSE old]_vars
  BY DEF ShownIsListing
<1>5. PlaceInv /\ PrintInv /\ LeftInv /\ [Next]_vars =>
        [pc = "print" /\ pc' = "idle" =>
           IF attr # <<>> THEN joined \in {fits, fits \o <<NL>>} ELSE old]_vars
  <2> HIDE DEF joined, fits, old
  <2> QED
    BY <1>1, <1>2
<1> HIDE DEF joined, fits, old
<1> QED
  BY <1>3, <1>4, <1>5, PlaceInit, PlaceStep, FormatStep, PrintStep, LeftInit, LeftStep, PTL DEF Spec
=============================================================================

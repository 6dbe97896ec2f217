---------------------------- MODULE ListViewProofs ----------------------------
(***************************************************************************)
(* Proofs about ListView, for every heap, every set of lines and every     *)
(* size of a view and of its font: what is linked and what is allocated    *)
(* agree, top_line stays inside its own view, and the output view shows    *)
(* the last lines of the log.                                              *)
(***************************************************************************)
EXTENDS ListView, FunctionTheorems, FiniteSetTheorems, SequenceTheorems, TLAPS

-----------------------------------------------------------------------------
(* The circle of a view: the head, then the items.                         *)

Circle(s) == <<list_head>> \o s

\* A sequence of items in which no address stands twice.
Once(s) == \A i, j \in 1..Len(s) : s[i] = s[j] => i = j

LEMMA CircleIs ==
  ASSUME NEW s \in Seq(Nodes)
  PROVE  /\ Circle(s) \in Seq(Nodes \cup {list_head}) /\ Len(Circle(s)) = Len(s) + 1
         /\ \A i \in 1..(Len(s) + 1) : Circle(s)[i] = IF i = 1 THEN list_head ELSE s[i - 1]
<1>1. <<list_head>> \in Seq(Nodes \cup {list_head}) /\ Len(<<list_head>>) = 1
      /\ <<list_head>>[1] = list_head
  OBVIOUS
<1>2. s \in Seq(Nodes \cup {list_head}) /\ Len(s) \in Nat
  BY SeqMonotonic, LenProperties
<1>3. /\ Circle(s) \in Seq(Nodes \cup {list_head})
      /\ Len(Circle(s)) = 1 + Len(s)
      /\ \A i \in 1 .. 1 + Len(s) : Circle(s)[i] = IF i <= 1 THEN <<list_head>>[i] ELSE s[i - 1]
  BY <1>1, <1>2, ConcatProperties DEF Circle
<1>4. \A i \in 1..(Len(s) + 1) : i <= 1 <=> i = 1
  BY <1>2
<1> QED BY <1>1, <1>2, <1>3, <1>4

\* No node is met twice on the way round.
LEMMA CircleOnce ==
  ASSUME NEW s \in Seq(Nodes), Once(s),
         NEW i \in 1..(Len(s) + 1), NEW j \in 1..(Len(s) + 1), Circle(s)[i] = Circle(s)[j]
  PROVE  i = j
<1>1. Len(s) \in Nat /\ \A k \in 1..Len(s) : s[k] \in Nodes
  BY LenProperties, ElementOfSeq
<1>2. \A k \in 2..(Len(s) + 1) : k - 1 \in 1..Len(s) /\ Circle(s)[k] = s[k - 1]
                                 /\ s[k - 1] # list_head
  BY <1>1, CircleIs, HeadAssumption
<1>3. Circle(s)[1] = list_head
  BY <1>1, CircleIs
<1>4. CASE i = 1 \/ j = 1
  BY <1>1, <1>2, <1>3, <1>4
<1>5. CASE i # 1 /\ j # 1
  <2>1. i \in 2..(Len(s) + 1) /\ j \in 2..(Len(s) + 1)
    BY <1>1, <1>5
  <2>2. i - 1 = j - 1
    BY <1>2, <2>1 DEF Once
  <2> QED BY <1>1, <2>2
<1> QED BY <1>4, <1>5

\* The loop of list_for_each_entry_safe from the node at position a of the
\* circle visits the N others, those behind it first, then those from the head.
LEMMA BehindIs ==
  ASSUME NEW v, v.items \in Seq(Nodes), Once(v.items),
         NEW a \in 1..(Len(v.items) + 1), v.top = Circle(v.items)[a]
  PROVE  /\ Behind(v) \in Seq(Nodes \cup {list_head}) /\ Len(Behind(v)) = Len(v.items)
         /\ \A k \in 1..Len(v.items) :
              Behind(v)[k] = Circle(v.items)[IF a + k <= Len(v.items) + 1 THEN a + k
                                             ELSE a + k - Len(v.items) - 1]
<1> DEFINE s == v.items
           N == Len(s)
           ring == Circle(s)
           Any == Nodes \cup {list_head}
<1>1. N \in Nat /\ \A k \in 1..N : s[k] \in Nodes
  BY LenProperties, ElementOfSeq
<1>2. ring \in Seq(Any) /\ Len(ring) = N + 1
      /\ \A i \in 1..(N + 1) : ring[i] = IF i = 1 THEN list_head ELSE s[i - 1]
  BY CircleIs
<1>3. \A i \in 1..(N + 1) : ring[i] = v.top => i = a
  BY CircleOnce
<1>4. v.top \in Items(v) \cup {list_head}
  <2>1. CASE a = 1
    BY <1>1, <1>2, <2>1
  <2>2. CASE a # 1
    <3>1. a - 1 \in 1..N /\ v.top = s[a - 1]
      BY <1>1, <1>2, <2>2
    <3> QED BY <3>1 DEF Items
  <2> QED BY <2>1, <2>2
<1> DEFINE P(i) == ring[i] = v.top
<1>5. (CHOOSE i \in 1..(N + 1) : P(i)) = a
  <2>1. a \in 1..(N + 1) /\ P(a)
    OBVIOUS
  <2>2. \A i \in 1..(N + 1) : P(i) => i = a
    BY <1>3
  <2> HIDE DEF P
  <2> QED BY <2>1, <2>2
<1>6. Behind(v) = SubSeq(ring, a + 1, N + 1) \o SubSeq(ring, 1, a - 1)
  BY <1>2, <1>4, <1>5 DEF Behind, Circle
<1>7. \A i \in 1..(N + 1) : ring[i] \in Any
  BY <1>2, ElementOfSeq
<1> DEFINE p == SubSeq(ring, a + 1, N + 1)
           q == SubSeq(ring, 1, a - 1)
<1> HIDE DEF ring, N, s
<1>8. /\ p \in Seq(Any) /\ Len(p) = N + 1 - a
      /\ \A i \in 1..(N + 1 - a) : p[i] = ring[a + i]
  <2>1. a + 1 \in Int /\ N + 1 \in Int /\ \A i \in (a + 1)..(N + 1) : ring[i] \in Any
    BY <1>1, <1>7 DEF N, s
  <2>2. /\ p \in Seq(Any) /\ Len(p) = IF a + 1 <= N + 1 THEN (N + 1) - (a + 1) + 1 ELSE 0
        /\ \A i \in 1..((N + 1) - (a + 1) + 1) : p[i] = ring[(a + 1) + i - 1]
    BY <2>1, SubSeqProperties
  <2>3. a \in 1..(N + 1)
    BY DEF N, s
  <2>4. (N + 1) - (a + 1) + 1 = N + 1 - a /\ \A i \in Int : (a + 1) + i - 1 = a + i
    BY <1>1, <2>3
  <2>5. Len(p) = N + 1 - a
    BY <1>1, <2>2, <2>3
  <2> QED BY <2>2, <2>4, <2>5
<1>9. /\ q \in Seq(Any) /\ Len(q) = a - 1
      /\ \A i \in 1..(a - 1) : q[i] = ring[i]
  <2>1. a \in 1..(N + 1)
    BY DEF N, s
  <2>2. 1 \in Int /\ a - 1 \in Int /\ \A i \in 1..(a - 1) : ring[i] \in Any
    BY <1>1, <1>7, <2>1
  <2>3. /\ q \in Seq(Any) /\ Len(q) = IF 1 <= a - 1 THEN (a - 1) - 1 + 1 ELSE 0
        /\ \A i \in 1..((a - 1) - 1 + 1) : q[i] = ring[1 + i - 1]
    BY <2>2, SubSeqProperties
  <2> QED BY <1>1, <2>1, <2>3
<1>10. /\ Behind(v) \in Seq(Any) /\ Len(Behind(v)) = N
       /\ \A k \in 1..N : Behind(v)[k] = IF k <= N + 1 - a THEN p[k] ELSE q[k - (N + 1 - a)]
  <2>1. a \in 1..(N + 1)
    BY DEF N, s
  <2>2. /\ Behind(v) \in Seq(Any) /\ Len(Behind(v)) = Len(p) + Len(q)
        /\ \A k \in 1..(Len(p) + Len(q)) :
             Behind(v)[k] = IF k <= Len(p) THEN p[k] ELSE q[k - Len(p)]
    BY <1>6, <1>8, <1>9, ConcatProperties
  <2>3. Len(p) + Len(q) = N
    BY <1>1, <1>8, <1>9, <2>1
  <2> QED BY <1>8, <2>2, <2>3
<1>11. ASSUME NEW k \in 1..N
       PROVE  Behind(v)[k] = ring[IF a + k <= N + 1 THEN a + k ELSE a + k - N - 1]
  <2>1. a \in 1..(N + 1)
    BY DEF N, s
  <2>2. CASE a + k <= N + 1
    <3>1. k <= N + 1 - a /\ k \in 1..(N + 1 - a)
      BY <1>1, <2>1, <2>2
    <3> QED BY <1>8, <1>10, <2>2, <3>1
  <2>3. CASE ~(a + k <= N + 1)
    <3>1. ~(k <= N + 1 - a) /\ k - (N + 1 - a) \in 1..(a - 1) /\ k - (N + 1 - a) = a + k - N - 1
      BY <1>1, <2>1, <2>3
    <3> QED BY <1>9, <1>10, <2>3, <3>1
  <2> QED BY <2>2, <2>3
<1> QED BY <1>10, <1>11 DEF N, s, ring

-----------------------------------------------------------------------------
(* How many lines are drawn.                                               *)

LEMMA RowsType == Rows \in Nat \ {0}
<1> DEFINE q == Height \div FontHeight
           r == Height % FontHeight
<1>1. Height \in Nat /\ FontHeight \in Nat \ {0} /\ Height >= FontHeight
  BY SizesAssumption
<1>2. q \in Nat /\ r \in Nat /\ r < FontHeight /\ Height = FontHeight * q + r
  BY <1>1, Z3
<1>3. q # 0
  <2> SUFFICES ASSUME q = 0 PROVE FALSE
    OBVIOUS
  <2> HIDE DEF q, r
  <2>1. FontHeight * 0 = 0
    BY <1>1
  <2> QED BY <1>1, <1>2, <2>1
<1> QED BY <1>2, <1>3 DEF Rows

\* The test that ends the loop of ui_listview_refresh counts the rows.
LEMMA FullByCount ==
  ASSUME NEW n \in Nat
  PROVE  (n + 1) * FontHeight > Height <=> ~(n < Rows)
<1> DEFINE f == FontHeight
           q == Height \div f
           r == Height % f
<1>1. Height \in Nat /\ f \in Nat \ {0}
  BY SizesAssumption
<1>2. q \in Nat /\ r \in Nat /\ r < f /\ Height = f * q + r
  BY <1>1, Z3
<1>3. Rows = q
  BY DEF Rows
<1> HIDE DEF q, r, f
<1>4. CASE n < q
  <2>1. PICK d \in Nat : q = n + 1 + d
    <3>1. q - n - 1 \in Nat /\ q = n + 1 + (q - n - 1)
      BY <1>2, <1>4
    <3> QED BY <3>1
  <2>2. f * q = (n + 1) * f + d * f /\ d * f \in Nat /\ (n + 1) * f \in Nat
    BY <1>1, <2>1
  <2>3. (n + 1) * f <= Height
    BY <1>1, <1>2, <2>2
  <2> QED BY <1>1, <1>3, <1>4, <2>2, <2>3 DEF f
<1>5. CASE ~(n < q)
  <2>1. PICK d \in Nat : n = q + d
    <3>1. n - q \in Nat /\ n = q + (n - q)
      BY <1>2, <1>5
    <3> QED BY <3>1
  <2>2. (n + 1) * f = f * q + d * f + f /\ d * f \in Nat /\ f * q \in Nat
    BY <1>1, <1>2, <2>1
  <2>3. (n + 1) * f > Height
    BY <1>1, <1>2, <2>2
  <2> QED BY <1>3, <1>5, <2>3 DEF f
<1> QED BY <1>4, <1>5

\* What is linked in a view: its top_line stands in its own circle.
Sound(v) ==
  /\ v \in [items : Seq(Nodes), top : Nodes \cup {list_head}]
  /\ Once(v.items)
  /\ \E a \in 1..(Len(v.items) + 1) : v.top = Circle(v.items)[a]

Fewer(m, n) == IF m < n THEN m ELSE n

\* ui_listview_refresh draws as many of the nodes behind top_line as there are
\* rows, or all of them.
LEMMA RefreshIs ==
  ASSUME NEW v, Sound(v), NEW t \in [Nodes -> Lines \cup {Free}]
  PROVE  /\ Refresh(v, t) = [k \in 1..Fewer(Len(v.items), Rows) |-> Content(t, Behind(v)[k])]
         /\ Refresh(v, t) \in Seq(Lines \cup {Junk, Free})
<1> DEFINE N == Len(v.items)
           m == Fewer(N, Rows)
           full(k) == (k + 1) * FontHeight > Height
           drawn == {k \in 1..N : \A j \in 1..(k - 1) : ~full(j)}
<1>1. Len(Behind(v)) = N /\ N \in Nat /\ Behind(v) \in Seq(Nodes \cup {list_head})
  <2>1. v.items \in Seq(Nodes)
    BY DEF Sound
  <2>2. PICK a \in 1..(Len(v.items) + 1) : v.top = Circle(v.items)[a]
    BY DEF Sound
  <2> QED BY <2>1, <2>2, BehindIs, LenProperties DEF Sound
<1>2. m \in Nat /\ m <= N /\ m <= Rows /\ (m = N \/ m = Rows) /\ Rows \in Nat \ {0}
  BY <1>1, RowsType DEF Fewer
<1>3. Refresh(v, t) = [k \in drawn |-> Content(t, Behind(v)[k])]
  BY <1>1 DEF Refresh
<1>4. \A j \in Nat : full(j) <=> ~(j < Rows)
  BY FullByCount
<1> HIDE DEF full, m, N
<1>5. drawn = 1..m
  <2>1. ASSUME NEW k \in drawn PROVE k \in 1..m
    <3>1. k \in 1..N /\ \A j \in 1..(k - 1) : ~full(j)
      OBVIOUS
    <3>2. CASE k = 1
      BY <1>1, <1>2, <3>1, <3>2
    <3>3. CASE k # 1
      <4>1. k - 1 \in 1..(k - 1) /\ k - 1 \in Nat
        BY <1>1, <3>1, <3>3
      <4>2. k - 1 < Rows
        BY <1>4, <3>1, <4>1
      <4> QED BY <1>1, <1>2, <3>1, <4>2
    <3> QED BY <3>2, <3>3
  <2>2. ASSUME NEW k \in 1..m PROVE k \in drawn
    <3>1. k \in 1..N
      BY <1>1, <1>2
    <3>2. ASSUME NEW j \in 1..(k - 1) PROVE ~full(j)
      <4>1. j \in Nat /\ j < Rows
        BY <1>2
      <4> QED BY <1>4, <4>1
    <3> QED BY <3>1, <3>2
  <2> QED BY <2>1, <2>2
<1> HIDE DEF drawn
<1>6. Refresh(v, t) = [k \in 1..m |-> Content(t, Behind(v)[k])]
  BY <1>3, <1>5
<1>7. \A k \in 1..m : Content(t, Behind(v)[k]) \in Lines \cup {Junk, Free}
  <2> TAKE k \in 1..m
  <2>1. k \in 1..N
    BY <1>1, <1>2
  <2>2. Behind(v)[k] \in Nodes \cup {list_head}
    BY <1>1, <2>1, ElementOfSeq
  <2> QED BY <2>2 DEF Content
<1> QED BY <1>2, <1>6, <1>7, IsASeq DEF m, N

\* A view scrolled keeps its items; top_line is one node further on the circle
\* if there are more items than rows.
LEMMA ScrollDownIs ==
  ASSUME NEW v, Sound(v)
  PROVE  /\ Sound(ScrollDown(v)) /\ ScrollDown(v).items = v.items
         /\ \A a \in 1..(Len(v.items) + 1) :
              v.top = Circle(v.items)[a] =>
                ScrollDown(v).top = Circle(v.items)[IF Len(v.items) > Rows
                                                    THEN IF a + 1 <= Len(v.items) + 1 THEN a + 1 ELSE 1
                                                    ELSE a]
<1> DEFINE N == Len(v.items)
           to(a) == IF N > Rows THEN IF a + 1 <= N + 1 THEN a + 1 ELSE 1 ELSE a
<1>1. v \in [items : Seq(Nodes), top : Nodes \cup {list_head}] /\ Once(v.items)
      /\ v.items \in Seq(Nodes) /\ N \in Nat /\ Rows \in Nat
  BY LenProperties, RowsType DEF Sound
<1>2. ASSUME NEW a \in 1..(N + 1), v.top = Circle(v.items)[a]
      PROVE  /\ ScrollDown(v).items = v.items
             /\ ScrollDown(v).top = Circle(v.items)[to(a)]
             /\ ScrollDown(v) \in [items : Seq(Nodes), top : Nodes \cup {list_head}]
             /\ to(a) \in 1..(N + 1)
  <2>1. Len(Behind(v)) = N /\ Behind(v) \in Seq(Nodes \cup {list_head})
        /\ \A k \in 1..N : Behind(v)[k] = Circle(v.items)[IF a + k <= N + 1 THEN a + k
                                                          ELSE a + k - N - 1]
    BY <1>1, <1>2, BehindIs
  <2>2. CASE N > Rows
    <3>1. 1 \in 1..N
      BY <1>1, <2>2
    <3>2. Behind(v)[1] \in Nodes \cup {list_head}
      BY <2>1, <3>1, ElementOfSeq
    <3>3. ScrollDown(v) = [v EXCEPT !.top = Behind(v)[1]]
      BY <2>1, <2>2 DEF ScrollDown, Rows
    <3>4. ~(a + 1 <= N + 1) => a + 1 - N - 1 = 1
      BY <1>1
    <3>5. Behind(v)[1] = Circle(v.items)[to(a)]
      <4>1. Behind(v)[1] = Circle(v.items)[IF a + 1 <= N + 1 THEN a + 1 ELSE a + 1 - N - 1]
        BY <2>1, <3>1
      <4>2. (IF a + 1 <= N + 1 THEN a + 1 ELSE a + 1 - N - 1) = to(a)
        BY <1>1, <2>2, <3>4
      <4> HIDE DEF to
      <4> QED BY <4>1, <4>2
    <3>6. to(a) \in 1..(N + 1)
      BY <1>1
    <3> HIDE DEF to
    <3> QED BY <1>1, <3>2, <3>3, <3>5, <3>6
  <2>3. CASE ~(N > Rows)
    <3>1. ScrollDown(v) = v
      BY <2>1, <2>3 DEF ScrollDown, Rows
    <3> QED BY <1>1, <1>2, <2>3, <3>1
  <2> QED BY <2>2, <2>3
<1>3. PICK a \in 1..(N + 1) : v.top = Circle(v.items)[a]
  BY DEF Sound
<1> HIDE DEF to
<1>4. Sound(ScrollDown(v)) /\ ScrollDown(v).items = v.items
  BY <1>1, <1>2, <1>3 DEF Sound
<1> QED BY <1>2, <1>4 DEF to

\* An item added goes behind the others, and the circle is the same up to it.
LEMMA AddIs ==
  ASSUME NEW v, Sound(v), NEW n \in Nodes, n \notin Items(v)
  PROVE  /\ Sound(Add(v, n)) /\ Add(v, n).top = v.top
         /\ Add(v, n).items = Append(v.items, n)
         /\ Items(Add(v, n)) = Items(v) \cup {n}
         /\ \A a \in 1..(Len(v.items) + 1) : Circle(Add(v, n).items)[a] = Circle(v.items)[a]
<1> DEFINE s == v.items
           N == Len(s)
           u == Append(s, n)
<1>1. v \in [items : Seq(Nodes), top : Nodes \cup {list_head}] /\ Once(s)
      /\ s \in Seq(Nodes) /\ N \in Nat
  BY LenProperties DEF Sound
<1>2. /\ u \in Seq(Nodes) /\ Len(u) = N + 1
      /\ \A i \in 1..N : u[i] = s[i]
      /\ u[N + 1] = n
  BY <1>1, AppendProperties
<1>3. Add(v, n) \in [items : Seq(Nodes), top : Nodes \cup {list_head}]
      /\ Add(v, n).top = v.top /\ Add(v, n).items = u
  BY <1>1, <1>2 DEF Add
<1>4. \A i \in 1..N : s[i] # n
  BY DEF Items
<1>5. \A i \in 1..(N + 1) : i \in 1..N \/ i = N + 1
  BY <1>1
<1> HIDE DEF u
<1>6. Once(u)
  BY <1>1, <1>2, <1>4, <1>5 DEF Once
<1>7. Items(Add(v, n)) = Items(v) \cup {n}
  <2>1. Items(Add(v, n)) = {u[i] : i \in 1..(N + 1)}
    BY <1>2, <1>3 DEF Items
  <2>2. N + 1 \in 1..(N + 1) /\ \A i \in 1..N : i \in 1..(N + 1)
    BY <1>1
  <2> QED BY <1>2, <1>5, <2>1, <2>2, ZenonT(40) DEF Items
<1>8. ASSUME NEW a \in 1..(N + 1) PROVE Circle(u)[a] = Circle(s)[a]
  <2>1. Circle(s)[a] = IF a = 1 THEN list_head ELSE s[a - 1]
    BY <1>1, CircleIs
  <2>2. a \in 1..((N + 1) + 1)
    BY <1>1
  <2>3. Circle(u)[a] = IF a = 1 THEN list_head ELSE u[a - 1]
    BY <1>2, <2>2, CircleIs
  <2>4. a # 1 => a - 1 \in 1..N
    BY <1>1
  <2> QED BY <1>2, <2>1, <2>3, <2>4
<1>9. PICK a \in 1..(N + 1) : v.top = Circle(s)[a]
  BY DEF Sound
<1>10. a \in 1..(Len(u) + 1) /\ Add(v, n).top = Circle(u)[a]
  BY <1>1, <1>2, <1>3, <1>8, <1>9
<1>11. Sound(Add(v, n))
  BY <1>3, <1>6, <1>10 DEF Sound
<1> QED BY <1>3, <1>7, <1>8, <1>11 DEF u

-----------------------------------------------------------------------------
(* The output view and the log.                                            *)

\* View v holds the lines g in the memory t, and top_line is the node before
\* the first of the last ones that fit.
Keeps(v, t, g) ==
  /\ Len(v.items) = Len(g)
  /\ \A i \in 1..Len(g) : t[v.items[i]] = g[i]
  /\ v.top = Circle(v.items)[IF Len(g) > Rows THEN Len(g) - Rows + 1 ELSE 1]

\* A view that keeps the log draws the end of it.
LEMMA DrawsTail ==
  ASSUME NEW v, Sound(v), NEW t \in [Nodes -> Lines \cup {Free}], NEW g \in Seq(Lines),
         Keeps(v, t, g)
  PROVE  Refresh(v, t) = Latest(g)
<1> DEFINE s == v.items
           N == Len(g)
           a == IF N > Rows THEN N - Rows + 1 ELSE 1
           m == Fewer(N, Rows)
<1>1. N \in Nat /\ Len(s) = N /\ s \in Seq(Nodes) /\ Once(s) /\ Rows \in Nat \ {0}
      /\ \A i \in 1..N : s[i] \in Nodes /\ g[i] \in Lines /\ t[s[i]] = g[i]
  BY LenProperties, ElementOfSeq, RowsType DEF Sound, Keeps
<1>2. a \in 1..(N + 1) /\ v.top = Circle(s)[a]
  BY <1>1 DEF Keeps
<1>3. m \in Nat /\ \A k \in 1..m : k \in 1..N /\ a + k <= N + 1 /\ a + k - 1 \in 1..N
                                   /\ a + k \in 1..(N + 1) /\ a + k # 1
  BY <1>1 DEF Fewer
<1>4. Refresh(v, t) = [k \in 1..m |-> Content(t, Behind(v)[k])]
  BY <1>1, RefreshIs
<1>5. \A k \in 1..N : Behind(v)[k] = Circle(s)[IF a + k <= N + 1 THEN a + k ELSE a + k - N - 1]
  <2>1. a \in 1..(Len(v.items) + 1) /\ v.top = Circle(v.items)[a] /\ v.items \in Seq(Nodes)
        /\ Once(v.items)
    BY <1>1, <1>2
  <2> HIDE DEF a
  <2>2. \A k \in 1..Len(v.items) :
          Behind(v)[k] = Circle(v.items)[IF a + k <= Len(v.items) + 1 THEN a + k
                                         ELSE a + k - Len(v.items) - 1]
    BY <2>1, BehindIs
  <2> QED BY <1>1, <2>2
<1>6. \A i \in 1..(N + 1) : Circle(s)[i] = IF i = 1 THEN list_head ELSE s[i - 1]
  BY <1>1, CircleIs
<1> HIDE DEF a, m, s, N
<1>7. ASSUME NEW k \in 1..m PROVE Content(t, Behind(v)[k]) = g[a + k - 1]
  <2>1. Behind(v)[k] = Circle(s)[a + k]
    BY <1>3, <1>5
  <2>2. Circle(s)[a + k] = s[a + k - 1]
    <3>1. a + k \in 1..(N + 1) /\ a + k # 1
      BY <1>3
    <3> QED BY <1>1, <1>2, <1>6, <3>1
  <2>3. Behind(v)[k] = s[a + k - 1]
    BY <2>1, <2>2
  <2> QED BY <1>1, <1>3, <2>3 DEF Content
<1>8. Refresh(v, t) = [k \in 1..m |-> g[a + k - 1]]
  BY <1>4, <1>7
<1>9. Latest(g) = SubSeq(g, a, N) /\ m = N - a + 1 /\ a \in Nat
  <2>1. Latest(g) = SubSeq(g, a, N)
    BY DEF Latest, a, N
  <2>2. m = N - a + 1 /\ a \in Nat
    BY <1>1 DEF a, m, Fewer
  <2> QED BY <2>1, <2>2
<1>10. SubSeq(g, a, N) = [k \in 1..m |-> g[a + k - 1]]
  <2>1. SubSeq(g, a, N) = [k \in 1..(N - a + 1) |-> g[a + k - 1]]
    BY <1>1, <1>9
  <2> QED BY <1>9, <2>1
<1> QED BY <1>8, <1>9, <1>10

\* A line added to the view and to the log, and one step of top_line if the
\* rows were full, keep them in pace.
LEMMA KeepsPace ==
  ASSUME NEW v, Sound(v), NEW t \in [Nodes -> Lines \cup {Free}], NEW g \in Seq(Lines),
         Keeps(v, t, g), NEW n \in Nodes, n \notin Items(v), NEW l \in Lines
  PROVE  Keeps(ScrollDown(Add(v, n)), [t EXCEPT ![n] = l], Append(g, l))
<1> DEFINE u == Add(v, n)
           w == ScrollDown(u)
           s == v.items
           N == Len(g)
           g2 == Append(g, l)
           t2 == [t EXCEPT ![n] = l]
           a == IF N > Rows THEN N - Rows + 1 ELSE 1
           b == IF N + 1 > Rows THEN N + 1 - Rows + 1 ELSE 1
<1>1. N \in Nat /\ Len(s) = N /\ s \in Seq(Nodes) /\ Rows \in Nat \ {0}
      /\ \A i \in 1..N : s[i] \in Nodes /\ t[s[i]] = g[i]
  BY LenProperties, ElementOfSeq, RowsType DEF Sound, Keeps
<1>2. a \in 1..(N + 1) /\ v.top = Circle(s)[a] /\ b \in 1..(N + 2)
  BY <1>1 DEF Keeps
<1>3. /\ g2 \in Seq(Lines) /\ Len(g2) = N + 1
      /\ \A i \in 1..N : g2[i] = g[i]
      /\ g2[N + 1] = l
  BY <1>1, AppendProperties
<1>4. /\ Sound(u) /\ u.top = v.top /\ u.items = Append(s, n)
      /\ \A i \in 1..(N + 1) : Circle(u.items)[i] = Circle(s)[i]
  BY <1>1, AddIs
<1>5. /\ Len(u.items) = N + 1
      /\ \A i \in 1..N : u.items[i] = s[i]
      /\ u.items[N + 1] = n
  BY <1>1, <1>4, AppendProperties
<1> HIDE DEF u, g2, t2, s, N
<1>6. a \in 1..(Len(u.items) + 1) /\ u.top = Circle(u.items)[a]
  BY <1>1, <1>2, <1>4, <1>5
<1>7. w.items = u.items
      /\ w.top = Circle(u.items)[IF N + 1 > Rows THEN IF a + 1 <= N + 2 THEN a + 1 ELSE 1 ELSE a]
  <2>1. w.items = u.items
        /\ w.top = Circle(u.items)[IF Len(u.items) > Rows
                                   THEN IF a + 1 <= Len(u.items) + 1 THEN a + 1 ELSE 1 ELSE a]
    <3> HIDE DEF a
    <3> QED BY <1>4, <1>6, ScrollDownIs
  <2>2. (N + 1) + 1 = N + 2
    BY <1>1
  <2> QED BY <1>5, <2>1, <2>2
<1>8. (IF N + 1 > Rows THEN IF a + 1 <= N + 2 THEN a + 1 ELSE 1 ELSE a) = b
  BY <1>1
<1>9. ASSUME NEW i \in 1..(N + 1) PROVE t2[w.items[i]] = g2[i]
  <2>1. CASE i = N + 1
    BY <1>3, <1>5, <1>7, <2>1 DEF t2
  <2>2. CASE i # N + 1
    <3>1. i \in 1..N
      BY <1>1, <2>2
    <3>2. s[i] # n
      BY <1>1, <3>1 DEF Items, s
    <3> QED BY <1>1, <1>3, <1>5, <1>7, <3>1, <3>2 DEF t2
  <2> QED BY <2>1, <2>2
<1> HIDE DEF a
<1>10. w.top = Circle(w.items)[b]
  <2> HIDE DEF b, w
  <2> QED BY <1>7, <1>8
<1>11. Keeps(w, t2, g2)
  <2>1. Len(w.items) = Len(g2) /\ Len(g2) = N + 1
    BY <1>3, <1>5, <1>7
  <2>2. w.top = Circle(w.items)[IF Len(g2) > Rows THEN Len(g2) - Rows + 1 ELSE 1]
    <3>1. (IF Len(g2) > Rows THEN Len(g2) - Rows + 1 ELSE 1) = b
      BY <1>1, <2>1
    <3> HIDE DEF w, b
    <3> QED BY <1>10, <3>1
  <2> HIDE DEF w, b
  <2> QED BY <1>9, <2>1, <2>2 DEF Keeps
<1> QED BY <1>11 DEF u, g2, t2

-----------------------------------------------------------------------------
(* The inductive invariant.                                                *)

\* The memory in use is that of the items of the two views.
Owned ==
  /\ \A n \in Nodes : text[n] # Free <=> n \in Items(view["output"]) \cup Items(view["pane"])
  /\ Items(view["output"]) \cap Items(view["pane"]) = {}

ViewInv ==
  /\ loaded \in BOOLEAN /\ oops \in BOOLEAN /\ made \subseteq Parts
  /\ scarce \in BOOLEAN /\ log \in Seq(Lines)
  /\ text \in [Nodes -> Lines \cup {Free}]
  /\ view \in [Views -> [items : Seq(Nodes), top : Nodes \cup {list_head}]]
  /\ shown \in [Views -> Seq(Lines \cup {Junk, Free})]
  /\ Sound(view["output"]) /\ Sound(view["pane"])
  /\ view["pane"].top = list_head
  /\ Owned
  /\ loaded /\ ~scarce => Keeps(view["output"], text, log)

\* The head is the first node of every circle.
LEMMA CircleHead ==
  ASSUME NEW s \in Seq(Nodes)
  PROVE  1 \in 1..(Len(s) + 1) /\ Circle(s)[1] = list_head
<1>1. Len(s) \in Nat
  BY LenProperties
<1>2. 1 \in 1..(Len(s) + 1)
  BY <1>1
<1> QED BY <1>2, CircleIs

\* An empty view, its top_line at the head.
LEMMA EmptySound ==
  ASSUME NEW v, v = [items |-> <<>>, top |-> list_head]
  PROVE  Sound(v) /\ Items(v) = {}
<1>1. <<>> \in Seq(Nodes) /\ Len(<<>>) = 0
  OBVIOUS
<1>2. Circle(<<>>)[1] = list_head
  BY <1>1, CircleHead
<1>3. v.items = <<>> /\ v.top = list_head /\ 1 \in 1..(Len(v.items) + 1)
  BY <1>1
<1> QED BY <1>1, <1>2, <1>3 DEF Sound, Items, Once

\* ui_init gives the output view its first line.
LEMMA FirstLine ==
  ASSUME loaded = TRUE, oops \in BOOLEAN, made \subseteq Parts, scarce \in BOOLEAN,
         shown = [v \in Views |-> <<>>], NEW n \in Nodes, NEW l \in Lines,
         text = [m \in Nodes |-> IF m = n THEN l ELSE Free],
         view = [v \in Views |-> [items |-> IF v = "output" THEN <<n>> ELSE <<>>, top |-> list_head]],
         log = <<l>>
  PROVE  ViewInv
<1>1. view["output"] = [items |-> <<n>>, top |-> list_head]
      /\ view["pane"] = [items |-> <<>>, top |-> list_head]
  BY DEF Views
<1>2. <<n>> \in Seq(Nodes) /\ Len(<<n>>) = 1 /\ <<n>>[1] = n
  OBVIOUS
<1>3. Circle(<<n>>)[1] = list_head
  BY <1>2, CircleHead
<1>4. Sound(view["pane"]) /\ Items(view["pane"]) = {}
  BY <1>1, EmptySound
<1>5. Sound(view["output"]) /\ Items(view["output"]) = {n}
  <2>1. view["output"].items = <<n>> /\ view["output"].top = list_head
        /\ 1 \in 1..(Len(view["output"].items) + 1)
    BY <1>1, <1>2
  <2>2. Once(<<n>>)
    BY <1>2 DEF Once
  <2>3. Items(view["output"]) = {n}
    <3> DEFINE s == view["output"].items
    <3>1. 1..Len(s) = {1} /\ s[1] = n
      <4>1. s = <<n>>
        BY <2>1
      <4> HIDE DEF s
      <4>2. Len(s) = 1 /\ s[1] = n
        BY <4>1
      <4> QED BY <4>2
    <3>2. {s[i] : i \in 1..Len(s)} = {n}
      <4> HIDE DEF s
      <4> QED BY <3>1
    <3> QED BY <3>2 DEF Items
  <2> QED BY <1>1, <1>2, <1>3, <2>1, <2>2, <2>3 DEF Sound
<1>6. log \in Seq(Lines) /\ Len(log) = 1 /\ log[1] = l
  OBVIOUS
<1>7. Keeps(view["output"], text, log)
  <2>1. ~(1 > Rows)
    BY RowsType
  <2> QED BY <1>1, <1>2, <1>3, <1>6, <2>1 DEF Keeps
<1>8. Owned
  BY <1>4, <1>5, LinesAssumption DEF Owned
<1>9. view \in [Views -> [items : Seq(Nodes), top : Nodes \cup {list_head}]]
       /\ shown \in [Views -> Seq(Lines \cup {Junk, Free})]
  <2>1. <<>> \in Seq(Nodes) /\ <<>> \in Seq(Lines \cup {Junk, Free})
    OBVIOUS
  <2> QED BY <1>2, <2>1
<1>10. text \in [Nodes -> Lines \cup {Free}]
  OBVIOUS
<1> QED BY <1>1, <1>4, <1>5, <1>6, <1>7, <1>8, <1>9, <1>10 DEF ViewInv

\* It finds no memory for the first line, or made no view for it.
LEMMA NoFirstLine ==
  ASSUME loaded = TRUE, oops \in BOOLEAN, made \subseteq Parts, scarce \in BOOLEAN,
         shown = [v \in Views |-> <<>>], text = [m \in Nodes |-> Free],
         view = [v \in Views |-> [items |-> <<>>, top |-> list_head]], log = <<>>
  PROVE  ViewInv
<1>1. view["output"] = [items |-> <<>>, top |-> list_head]
      /\ view["pane"] = [items |-> <<>>, top |-> list_head]
  BY DEF Views
<1>2. /\ Sound(view["output"]) /\ Items(view["output"]) = {}
      /\ Sound(view["pane"]) /\ Items(view["pane"]) = {}
  BY <1>1, EmptySound
<1>3. <<>> \in Seq(Nodes) /\ <<>> \in Seq(Lines \cup {Junk, Free}) /\ log \in Seq(Lines) /\ Len(log) = 0
      /\ Len(view["output"].items) = 0
  BY <1>1
<1>4. Keeps(view["output"], text, log)
  <2>1. ~(0 > Rows)
    BY RowsType
  <2>2. Circle(<<>>)[1] = list_head
    BY <1>3, CircleHead
  <2> QED BY <1>1, <1>3, <2>1, <2>2 DEF Keeps
<1>5. Owned
  BY <1>2 DEF Owned
<1>6. view \in [Views -> [items : Seq(Nodes), top : Nodes \cup {list_head}]]
      /\ shown \in [Views -> Seq(Lines \cup {Junk, Free})]
  BY <1>3
<1> QED BY <1>1, <1>2, <1>3, <1>4, <1>5, <1>6 DEF ViewInv

LEMMA InitViewInv == Init => ViewInv
<1> SUFFICES ASSUME Init PROVE ViewInv
  OBVIOUS
<1>1. /\ loaded = TRUE /\ scarce \in BOOLEAN /\ made \subseteq Parts
      /\ shown = [v \in Views |-> <<>>]
  BY DEF Init, Parts
<1>2. ASSUME NEW n \in Nodes, NEW l \in Lines, oops = FALSE,
             text = [m \in Nodes |-> IF m = n THEN l ELSE Free],
             view = [v \in Views |-> [items |-> IF v = "output" THEN <<n>> ELSE <<>>, top |-> list_head]],
             log = <<l>>
      PROVE  ViewInv
  BY <1>1, <1>2, FirstLine
<1>3. ASSUME oops \in BOOLEAN, text = [m \in Nodes |-> Free],
             view = [v \in Views |-> [items |-> <<>>, top |-> list_head]], log = <<>>
      PROVE  ViewInv
  BY <1>1, <1>3, NoFirstLine
<1> QED BY <1>2, <1>3 DEF Init

\* output_addline with memory for the item: it is linked, and it was nobody's.
LEMMA LineAdded ==
  ASSUME ViewInv, NEW l \in Lines, NEW n \in Available, OutputAddline(l),
         text' = [text EXCEPT ![n] = l],
         view' = [view EXCEPT !["output"] = ScrollDown(Add(@, n))],
         log' = Append(log, l), oops' = oops
  PROVE  ViewInv'
<1> DEFINE v == view["output"]
           w == ScrollDown(Add(v, n))
<1>1. n \in Nodes /\ text[n] = Free /\ l # Free
  BY LinesAssumption DEF Available
<1>2. n \notin Items(v) /\ n \notin Items(view["pane"])
  BY <1>1 DEF ViewInv, Owned
<1>3. Sound(v)
  BY DEF ViewInv
<1>4. Sound(Add(v, n)) /\ Items(Add(v, n)) = Items(v) \cup {n}
  BY <1>1, <1>2, <1>3, AddIs
<1>5. Sound(w) /\ w.items = Add(v, n).items
  BY <1>4, ScrollDownIs
<1>6. Items(w) = Items(v) \cup {n}
  BY <1>4, <1>5 DEF Items
<1>7. loaded' = loaded /\ scarce' = scarce /\ made' = made /\ oops' = FALSE
      /\ shown' = [shown EXCEPT !["output"] = Refresh(view'["output"], text')]
  BY DEF OutputAddline
<1>8. text' \in [Nodes -> Lines \cup {Free}]
  BY <1>1 DEF ViewInv
<1>9. view \in [Views -> [items : Seq(Nodes), top : Nodes \cup {list_head}]]
  BY DEF ViewInv
<1> HIDE DEF w
<1>10. view'["output"] = w /\ view'["pane"] = view["pane"]
       /\ view' \in [Views -> [items : Seq(Nodes), top : Nodes \cup {list_head}]]
  <2>1. w \in [items : Seq(Nodes), top : Nodes \cup {list_head}]
    BY <1>5 DEF Sound
  <2>2. view' = [view EXCEPT !["output"] = w]
    BY DEF w
  <2> QED BY <1>9, <2>1, <2>2 DEF Views
<1>11. shown' \in [Views -> Seq(Lines \cup {Junk, Free})]
  <2>1. Refresh(w, text') \in Seq(Lines \cup {Junk, Free})
    BY <1>5, <1>8, RefreshIs
  <2>2. shown \in [Views -> Seq(Lines \cup {Junk, Free})]
    BY DEF ViewInv
  <2> QED BY <1>7, <1>10, <2>1, <2>2
<1>12. Owned'
  <2>1. \A m \in Nodes : text'[m] = IF m = n THEN l ELSE text[m]
    BY DEF ViewInv
  <2>2. \A m \in Nodes : text[m] # Free <=> m \in Items(v) \cup Items(view["pane"])
    BY DEF ViewInv, Owned
  <2>3. Items(v) \cap Items(view["pane"]) = {}
    BY DEF ViewInv, Owned
  <2>4. Items(view'["output"]) = Items(v) \cup {n} /\ Items(view'["pane"]) = Items(view["pane"])
    BY <1>6, <1>10
  <2> HIDE DEF v
  <2>5. \A m \in Nodes : text'[m] # Free <=> m \in Items(view'["output"]) \cup Items(view'["pane"])
    BY <1>1, <2>1, <2>2, <2>4
  <2>6. Items(view'["output"]) \cap Items(view'["pane"]) = {}
    BY <1>2, <2>3, <2>4
  <2> QED BY <2>5, <2>6 DEF Owned
<1>13. loaded' /\ ~scarce' => Keeps(view'["output"], text', log')
  <2> SUFFICES ASSUME loaded, ~scarce PROVE Keeps(w, text', log')
    BY <1>7, <1>10
  <2>1. Keeps(v, text, log) /\ log \in Seq(Lines) /\ text \in [Nodes -> Lines \cup {Free}]
    BY DEF ViewInv
  <2> QED BY <1>1, <1>2, <1>3, <2>1, KeepsPace DEF w
<1>14. log' \in Seq(Lines)
  BY AppendProperties DEF ViewInv
<1>15. Sound(view["pane"]) /\ view["pane"].top = list_head
       /\ loaded \in BOOLEAN /\ scarce \in BOOLEAN /\ made \subseteq Parts
  BY DEF ViewInv
<1> QED BY <1>5, <1>7, <1>8, <1>10, <1>11, <1>12, <1>13, <1>14, <1>15 DEF ViewInv

\* output_addline without memory for the text: the view scrolls all the same.
LEMMA LineLost ==
  ASSUME ViewInv, NEW l \in Lines, OutputAddline(l), scarce,
         view' = [view EXCEPT !["output"] = ScrollDown(@)],
         UNCHANGED <<text, log, oops>>
  PROVE  ViewInv'
<1> DEFINE v == view["output"]
           w == ScrollDown(v)
<1>1. Sound(w) /\ w.items = v.items
  BY ScrollDownIs DEF ViewInv
<1>2. loaded' = loaded /\ scarce' = scarce /\ made' = made /\ oops' = FALSE
      /\ shown' = [shown EXCEPT !["output"] = Refresh(view'["output"], text')]
  BY DEF OutputAddline
<1> HIDE DEF w
<1>3. view'["output"] = w /\ view'["pane"] = view["pane"]
      /\ view' \in [Views -> [items : Seq(Nodes), top : Nodes \cup {list_head}]]
  <2>1. w \in [items : Seq(Nodes), top : Nodes \cup {list_head}]
    BY <1>1 DEF Sound
  <2>2. view' = [view EXCEPT !["output"] = w]
    BY DEF w
  <2>3. view \in [Views -> [items : Seq(Nodes), top : Nodes \cup {list_head}]]
    BY DEF ViewInv
  <2> QED BY <2>1, <2>2, <2>3 DEF Views
<1>4. shown' \in [Views -> Seq(Lines \cup {Junk, Free})]
  <2>1. Refresh(w, text) \in Seq(Lines \cup {Junk, Free})
    BY <1>1, RefreshIs DEF ViewInv
  <2>2. shown \in [Views -> Seq(Lines \cup {Junk, Free})]
    BY DEF ViewInv
  <2> QED BY <1>2, <1>3, <2>1, <2>2
<1>5. Owned'
  <2>1. Items(w) = Items(v)
    BY <1>1 DEF Items
  <2> QED BY <1>3, <2>1 DEF Owned, ViewInv
<1> QED BY <1>1, <1>2, <1>3, <1>4, <1>5 DEF ViewInv

\* The screen is drawn for a session: the pane is filled with memory that is
\* neither the output view's nor still linked, and not scrolled.
LEMMA PaneFilled ==
  ASSUME ViewInv, NEW ls \in PaneLines, Refill(ls), UNCHANGED <<log, loaded, scarce>>
  PROVE  /\ Sound(view'["output"]) /\ Sound(view'["pane"]) /\ view'["pane"].top = list_head
         /\ text' \in [Nodes -> Lines \cup {Free}]
         /\ view' \in [Views -> [items : Seq(Nodes), top : Nodes \cup {list_head}]]
         /\ Owned' /\ (loaded' /\ ~scarce' => Keeps(view'["output"], text', log'))
<1> DEFINE pane == view["pane"]
           v == view["output"]
           freed == [n \in Nodes |-> IF n \in Items(pane) THEN Free ELSE text[n]]
<1>1. PICK ns \in [1..Len(ls) -> {n \in Nodes : freed[n] = Free}] :
        /\ \A i, j \in 1..Len(ls) : ns[i] = ns[j] => i = j
        /\ text' = [n \in Nodes |->
                      IF \E i \in 1..Len(ls) : ns[i] = n
                      THEN ls[CHOOSE i \in 1..Len(ls) : ns[i] = n] ELSE freed[n]]
        /\ view' = [view EXCEPT !["pane"] = Filled(@, ns)]
  BY DEF Refill
<1>2. loaded' = loaded /\ scarce' = scarce /\ log' = log
  OBVIOUS
<1>3. Len(ls) \in Nat /\ \A i \in 1..Len(ls) : ls[i] \in Lines /\ ls[i] # Free
  <2>1. PICK k \in 0..MaxPane : ls \in [1..k -> Lines]
    BY DEF PaneLines
  <2>2. k \in Nat /\ Len(ls) = k
    BY <2>1, SizesAssumption
  <2> QED BY <2>1, <2>2, LinesAssumption
<1>4. /\ Sound(pane) /\ Sound(v) /\ pane.top = list_head
      /\ text \in [Nodes -> Lines \cup {Free}]
      /\ \A n \in Nodes : text[n] # Free <=> n \in Items(v) \cup Items(pane)
      /\ Items(v) \cap Items(pane) = {}
      /\ view \in [Views -> [items : Seq(Nodes), top : Nodes \cup {list_head}]]
  BY DEF ViewInv, Owned
<1>5. ns \in Seq(Nodes) /\ Len(ns) = Len(ls)
  <2>1. ns \in [1..Len(ls) -> Nodes]
    BY <1>1
  <2> QED BY <1>3, <2>1
<1> DEFINE w == Filled(pane, ns)
           used == {ns[i] : i \in 1..Len(ls)}
<1>6. w = [items |-> ns, top |-> list_head]
  <2>1. pane \in [items : Seq(Nodes), top : Nodes \cup {list_head}]
    BY <1>4 DEF Sound
  <2> HIDE DEF pane
  <2>2. pane = [items |-> pane.items, top |-> list_head]
    BY <1>4, <2>1
  <2>3. [pane EXCEPT !.items = <<>>] = [items |-> <<>>, top |-> list_head]
    BY <2>2
  <2>4. [[items |-> <<>>, top |-> list_head] EXCEPT !.items = ns]
        = [items |-> ns, top |-> list_head]
    OBVIOUS
  <2>5. w = [[pane EXCEPT !.items = <<>>] EXCEPT !.items = ns]
    BY DEF Filled, Clear
  <2> QED BY <2>3, <2>4, <2>5
<1>7. Sound(w) /\ Items(w) = used
  <2>1. Once(ns)
    BY <1>1, <1>5 DEF Once
  <2>2. 1 \in 1..(Len(ns) + 1) /\ Circle(ns)[1] = list_head
    BY <1>5, CircleHead
  <2>3. Sound(w)
    BY <1>5, <1>6, <2>1, <2>2 DEF Sound
  <2> QED BY <1>5, <1>6, <2>3 DEF Items
<1>8. \A n \in used : n \in Nodes /\ n \notin Items(v)
  <2> SUFFICES ASSUME NEW i \in 1..Len(ls) PROVE ns[i] \in Nodes /\ ns[i] \notin Items(v)
    OBVIOUS
  <2>1. ns[i] \in Nodes /\ freed[ns[i]] = Free
    BY <1>1
  <2> QED BY <1>4, <2>1
<1>9. \A n \in Nodes : /\ n \in used => text'[n] \in Lines /\ text'[n] # Free
                       /\ n \notin used => text'[n] = freed[n]
  <2> TAKE n \in Nodes
  <2>1. CASE n \in used
    <3> DEFINE i == CHOOSE x \in 1..Len(ls) : ns[x] = n
    <3>1. \E x \in 1..Len(ls) : ns[x] = n
      BY <2>1
    <3>2. i \in 1..Len(ls)
      BY <3>1
    <3>3. text'[n] = ls[i]
      BY <1>1, <3>1
    <3> HIDE DEF i
    <3> QED BY <1>3, <2>1, <3>2, <3>3
  <2>2. CASE n \notin used
    BY <1>1, <2>2
  <2> QED BY <2>1, <2>2
<1>10. text' \in [Nodes -> Lines \cup {Free}]
  <2>1. DOMAIN text' = Nodes /\ text' = [n \in Nodes |-> text'[n]]
    BY <1>1
  <2>2. \A n \in Nodes : text'[n] \in Lines \cup {Free}
    BY <1>4, <1>9
  <2> QED BY <2>1, <2>2
<1>11. view'["output"] = v /\ view'["pane"] = w
       /\ view' \in [Views -> [items : Seq(Nodes), top : Nodes \cup {list_head}]]
  <2>1. w \in [items : Seq(Nodes), top : Nodes \cup {list_head}]
    BY <1>7 DEF Sound
  <2> HIDE DEF w
  <2>2. view' = [view EXCEPT !["pane"] = w]
    BY <1>1 DEF w
  <2> QED BY <1>4, <2>1, <2>2 DEF Views
<1>12. \A n \in Items(v) : n \in Nodes /\ text'[n] = text[n]
  <2> TAKE n \in Items(v)
  <2>1. n \in Nodes
    BY <1>4, ElementOfSeq DEF Items, Sound
  <2> QED BY <1>4, <1>8, <1>9, <2>1
<1> HIDE DEF w, used
<1>13. Owned'
  <2>1. \A n \in Nodes : text'[n] # Free <=> n \in Items(v) \cup used
    <3> TAKE n \in Nodes
    <3>1. CASE n \in used
      BY <1>9, <3>1
    <3>2. CASE n \notin used
      BY <1>4, <1>9, <3>2
    <3> QED BY <3>1, <3>2
  <2> HIDE DEF v
  <2> QED BY <1>7, <1>8, <1>11, <2>1 DEF Owned
<1>15. loaded' /\ ~scarce' => Keeps(view'["output"], text', log')
  <2> SUFFICES ASSUME loaded, ~scarce PROVE Keeps(v, text', log)
    BY <1>2, <1>11
  <2>1. Keeps(v, text, log)
    BY DEF ViewInv
  <2>2. \A i \in 1..Len(log) : v.items[i] \in Items(v)
    BY <2>1 DEF Keeps, Items
  <2> QED BY <1>12, <2>1, <2>2 DEF Keeps
<1>16. w.top = list_head
  BY <1>6 DEF w
<1> QED BY <1>4, <1>7, <1>10, <1>11, <1>13, <1>15, <1>16

\* show_mainui, to its end or to an oops.
LEMMA ScreenDrawn ==
  ASSUME ViewInv, NEW ls \in PaneLines, ShowMainUI(ls)
  PROVE  ViewInv'
<1>1. UNCHANGED <<loaded, made, log, scarce>> /\ oops' \in BOOLEAN
  BY DEF ShowMainUI, ViewInv
<1>2. /\ Sound(view'["output"]) /\ Sound(view'["pane"]) /\ view'["pane"].top = list_head
      /\ text' \in [Nodes -> Lines \cup {Free}]
      /\ view' \in [Views -> [items : Seq(Nodes), top : Nodes \cup {list_head}]]
      /\ Owned' /\ (loaded' /\ ~scarce' => Keeps(view'["output"], text', log'))
  <2>1. CASE Refill(ls)
    BY <1>1, <2>1, PaneFilled
  <2>2. CASE UNCHANGED <<text, view>>
    BY <1>1, <2>2 DEF ViewInv, Owned
  <2> QED BY <2>1, <2>2 DEF ShowMainUI
<1>3. /\ Refresh(view'["output"], text') \in Seq(Lines \cup {Junk, Free})
      /\ Refresh(view'["pane"], text') \in Seq(Lines \cup {Junk, Free})
  BY <1>2, RefreshIs
<1>4. shown' \in [Views -> Seq(Lines \cup {Junk, Free})]
  <2>1. shown \in [Views -> Seq(Lines \cup {Junk, Free})]
    BY DEF ViewInv
  <2>2. \/ shown' = [v \in Views |-> Refresh(view'[v], text')]
        \/ shown' = shown
        \/ shown' = [shown EXCEPT !["pane"] = Refresh(view'["pane"], text')]
    BY DEF ShowMainUI
  <2> QED BY <1>3, <2>1, <2>2 DEF Views
<1>5. loaded' \in BOOLEAN /\ made' \subseteq Parts /\ scarce' \in BOOLEAN /\ log' \in Seq(Lines)
  BY <1>1 DEF ViewInv
<1> QED BY <1>1, <1>2, <1>4, <1>5 DEF ViewInv

\* The module is unloaded.
LEMMA Unloaded ==
  ASSUME ViewInv, UiClean
  PROVE  ViewInv'
<1>1. /\ loaded' = FALSE
      /\ text' = Del(Del(text, view["pane"]), view["output"])
      /\ view' = [v \in Views |-> [items |-> <<>>, top |-> list_head]]
      /\ UNCHANGED <<oops, made, shown, log, scarce>>
  BY DEF UiClean
<1>2. view'["output"] = [items |-> <<>>, top |-> list_head]
      /\ view'["pane"] = [items |-> <<>>, top |-> list_head]
  BY <1>1 DEF Views
<1>3. Sound(view'["output"]) /\ Items(view'["output"]) = {}
      /\ Sound(view'["pane"]) /\ Items(view'["pane"]) = {}
  BY <1>2, EmptySound
<1>4. text' = [n \in Nodes |-> Free]
  <2>1. \A n \in Nodes : text[n] # Free <=> n \in Items(view["output"]) \cup Items(view["pane"])
    BY DEF ViewInv, Owned
  <2>2. \A n \in Nodes : text'[n] = Free
    BY <1>1, <2>1 DEF Del
  <2>3. text' = [n \in Nodes |-> text'[n]]
    BY <1>1 DEF Del
  <2> QED BY <2>2, <2>3
<1>5. Owned'
  BY <1>3, <1>4 DEF Owned
<1>6. view' \in [Views -> [items : Seq(Nodes), top : Nodes \cup {list_head}]]
  <2>1. [items |-> <<>>, top |-> list_head] \in [items : Seq(Nodes), top : Nodes \cup {list_head}]
    OBVIOUS
  <2> QED BY <1>1, <2>1
<1>7. text' \in [Nodes -> Lines \cup {Free}]
  BY <1>4
<1>8. view'["pane"].top = list_head
  BY <1>2
<1>9. /\ loaded' \in BOOLEAN /\ scarce' \in BOOLEAN /\ log' \in Seq(Lines)
      /\ oops' \in BOOLEAN /\ made' \subseteq Parts
      /\ shown' \in [Views -> Seq(Lines \cup {Junk, Free})]
      /\ ~loaded'
  BY <1>1 DEF ViewInv
<1> QED BY <1>3, <1>5, <1>6, <1>7, <1>8, <1>9 DEF ViewInv

LEMMA NextViewInv == ViewInv /\ [Next]_vars => ViewInv'
<1> SUFFICES ASSUME ViewInv, [Next]_vars PROVE ViewInv'
  OBVIOUS
<1>1. ASSUME NEW l \in Lines, OutputAddline(l) PROVE ViewInv'
  <2>1. AddItem(l)
    BY <1>1 DEF OutputAddline
  <2>2. ASSUME NEW n \in Available,
               text' = [text EXCEPT ![n] = l],
               view' = [view EXCEPT !["output"] = ScrollDown(Add(@, n))],
               log' = Append(log, l), oops' = oops
        PROVE  ViewInv'
    BY <1>1, <2>2, LineAdded
  <2>3. ASSUME scarce, view' = [view EXCEPT !["output"] = ScrollDown(@)],
               UNCHANGED <<text, log, oops>>
        PROVE  ViewInv'
    BY <1>1, <2>3, LineLost
  <2>4. ASSUME oops' = TRUE, UNCHANGED <<text, view, log>>
        PROVE  ViewInv'
    <3>1. UNCHANGED <<loaded, made, scarce, shown>>
      BY <1>1, <2>4 DEF OutputAddline
    <3> QED BY <2>4, <3>1 DEF ViewInv, Owned
  <2> QED BY <2>1, <2>2, <2>3, <2>4 DEF AddItem
<1>2. ASSUME NEW ls \in PaneLines, ShowMainUI(ls) PROVE ViewInv'
  BY <1>2, ScreenDrawn
<1>3. CASE UiClean
  BY <1>3, Unloaded
<1>4. CASE UNCHANGED vars
  <2>1. loaded' = loaded /\ text' = text /\ view' = view /\ shown' = shown
        /\ log' = log /\ scarce' = scarce /\ oops' = oops /\ made' = made
    BY <1>4 DEF vars
  <2>2. Owned'
    BY <2>1 DEF ViewInv, Owned
  <2> QED BY <2>1, <2>2 DEF ViewInv
<1> QED BY <1>1, <1>2, <1>3, <1>4 DEF Next

LEMMA AlwaysViewInv == Spec => []ViewInv
<1>1. Init => ViewInv
  BY InitViewInv
<1>2. ViewInv /\ [Next]_vars => ViewInv'
  BY NextViewInv
<1> QED BY <1>1, <1>2, PTL DEF Spec

-----------------------------------------------------------------------------
(* What follows from it.                                                   *)

\* A view whose items stand once has as many of them as its list is long.
LEMMA ItemsCounted ==
  ASSUME NEW v, Sound(v)
  PROVE  Cardinality(Items(v)) = Len(v.items)
<1>1. v.items \in Seq(Nodes) /\ Once(v.items) /\ Len(v.items) \in Nat
  BY LenProperties DEF Sound
<1>2. v.items \in [1..Len(v.items) -> Nodes] /\ DOMAIN v.items = 1..Len(v.items)
  BY <1>1, LenProperties
<1>3. v.items \in Bijection(1..Len(v.items), Items(v))
  <2>1. v.items \in [1..Len(v.items) -> Items(v)]
    BY <1>2 DEF Items
  <2>2. v.items \in Injection(1..Len(v.items), Items(v))
    BY <1>1, <2>1, Fun_IsInj DEF Once
  <2>3. v.items \in Surjection(1..Len(v.items), Items(v))
    BY <2>1, Fun_IsSurj DEF Items
  <2> QED BY <2>2, <2>3 DEF Bijection
<1>4. ExistsBijection(1..Len(v.items), Items(v))
  BY <1>3 DEF ExistsBijection
<1> QED BY <1>1, <1>4, FS_CountingElements

(***************************************************************************)
(* top_line of a view is its head or one of its own items, in every order  *)
(* of lines added and lost, sessions and unloading, and whichever kmalloc  *)
(* fails, with or without an oops: ui_listview_clear may leave it where it *)
(* is, since the view it clears is never scrolled.                         *)
(***************************************************************************)
THEOREM AlwaysTopLinked == Spec => []TopLinked
<1>1. ViewInv => TopLinked
  <2> SUFFICES ASSUME ViewInv PROVE TopLinked
    OBVIOUS
  <2>1. ASSUME NEW v, Sound(v) PROVE v.top \in Items(v) \cup {list_head}
    <3>1. PICK a \in 1..(Len(v.items) + 1) : v.top = Circle(v.items)[a]
      BY <2>1 DEF Sound
    <3>2. v.items \in Seq(Nodes) /\ Len(v.items) \in Nat
      BY <2>1, LenProperties DEF Sound
    <3>3. v.top = IF a = 1 THEN list_head ELSE v.items[a - 1]
      BY <3>1, <3>2, CircleIs
    <3>4. a # 1 => a - 1 \in 1..Len(v.items)
      BY <3>1, <3>2
    <3> QED BY <3>3, <3>4 DEF Items
  <2>2. \A v \in Views : Sound(view[v])
    BY DEF ViewInv, Views
  <2>3. TypeOK
    BY DEF ViewInv, TypeOK
  <2> QED BY <2>1, <2>2, <2>3 DEF TopLinked
<1> QED BY <1>1, AlwaysViewInv, PTL

(***************************************************************************)
(* What is allocated is what is linked, each item once and in one view: no *)
(* path of additem, clear and del leaks an item or links one twice,        *)
(* whichever kmalloc fails, of a view, an item or a text.                  *)
(***************************************************************************)
THEOREM AlwaysHeapOwned == Spec => []HeapOwned
<1>1. ViewInv => HeapOwned
  <2> SUFFICES ASSUME ViewInv PROVE HeapOwned
    OBVIOUS
  <2>1. \A v \in Views : Cardinality(Items(view[v])) = Len(view[v].items)
    BY ItemsCounted DEF ViewInv, Views
  <2>2. \A v, w \in Views : v # w => Items(view[v]) \cap Items(view[w]) = {}
    BY DEF ViewInv, Owned, Views
  <2>3. UNION {Items(view[v]) : v \in Views} = Items(view["output"]) \cup Items(view["pane"])
    BY DEF Views
  <2>4. \A n \in Items(view["output"]) \cup Items(view["pane"]) : n \in Nodes
    BY ElementOfSeq DEF ViewInv, Sound, Items
  <2>5. {n \in Nodes : text[n] # Free} = Items(view["output"]) \cup Items(view["pane"])
    BY <2>4 DEF ViewInv, Owned
  <2> QED BY <2>1, <2>2, <2>3, <2>5 DEF HeapOwned
<1> QED BY <1>1, AlwaysViewInv, PTL

(***************************************************************************)
(* With memory for every line, whatever is drawn leaves the output view    *)
(* with the last lines of the log, as many as fit the view: scrolling by   *)
(* one node per line keeps pace for every height and every font.           *)
(***************************************************************************)
THEOREM AlwaysTailShown == Spec => TailShown
<1> DEFINE Shows == loaded' /\ ~oops' /\ ~scarce => shown'["output"] = Latest(log')
<1>1. ViewInv /\ ViewInv' /\ [Next]_vars => [Shows]_vars
  <2> SUFFICES ASSUME ViewInv, ViewInv', Next, loaded', ~oops', ~scarce
               PROVE  shown'["output"] = Latest(log')
    OBVIOUS
  <2>1. shown'["output"] = Refresh(view'["output"], text') /\ scarce' = scarce
    <3>1. ASSUME NEW l \in Lines, OutputAddline(l)
          PROVE  shown'["output"] = Refresh(view'["output"], text') /\ scarce' = scarce
      BY <3>1 DEF OutputAddline, ViewInv, Views
    <3>2. ASSUME NEW ls \in PaneLines, ShowMainUI(ls)
          PROVE  shown'["output"] = Refresh(view'["output"], text') /\ scarce' = scarce
      BY <3>2 DEF ShowMainUI, Views
    <3>3. ~UiClean
      BY DEF UiClean
    <3> QED BY <3>1, <3>2, <3>3 DEF Next
  <2>2. /\ Sound(view'["output"]) /\ text' \in [Nodes -> Lines \cup {Free}]
        /\ log' \in Seq(Lines) /\ Keeps(view'["output"], text', log')
    BY <2>1 DEF ViewInv
  <2> QED BY <2>1, <2>2, DrawsTail
<1> QED BY <1>1, AlwaysViewInv, PTL DEF Spec, TailShown
=============================================================================

-------------------------- MODULE CommandLineProofs --------------------------
(***************************************************************************)
(* Proofs about CommandLine, for every size of the buffer, every font and  *)
(* every set of screens: the buffer holds a string that ends where the     *)
(* editor stands, the help line announces what ENTER executes, and the     *)
(* buffer implements the line of characters of CommandPrompt.              *)
(***************************************************************************)
EXTENDS CommandLine, FiniteSetTheorems, SequenceTheorems, WellFoundedInduction, TLAPS

-----------------------------------------------------------------------------
(* The operators on strings.                                               *)

\* A set of naturals that is not empty has a least element: the smallest of
\* the intervals from 0 to one of its elements ends there.
LEMMA LeastNat ==
  ASSUME NEW S, S \subseteq Nat, S # {}
  PROVE  \E n \in S : \A m \in S : n <= m
<1> DEFINE T == {0..n : n \in S}
<1>1. T \subseteq FiniteSubsetsOf(Nat)
  <2> SUFFICES ASSUME NEW n \in S PROVE 0..n \in FiniteSubsetsOf(Nat)
    OBVIOUS
  <2>1. n \in Nat /\ 0 \in Int /\ n \in Int
    OBVIOUS
  <2>2. IsFiniteSet(0..n)
    BY <2>1, FS_Interval
  <2>3. 0..n \subseteq Nat
    BY <2>1
  <2> QED BY <2>2, <2>3 DEF FiniteSubsetsOf
<1>2. T # {}
  OBVIOUS
<1>3. IsWellFoundedOn(StrictSubsetOrdering(Nat), FiniteSubsetsOf(Nat))
  BY FS_StrictSubsetOrderingWellFounded
<1> HIDE DEF T
<1>4. PICK x \in T : \A y \in T : ~(<<y, x>> \in StrictSubsetOrdering(Nat))
  BY <1>1, <1>2, <1>3, WFMin
<1>5. PICK n \in S : x = 0..n
  BY DEF T
<1>6. ASSUME NEW m \in S, m < n PROVE FALSE
  <2>1. 0..m \in T
    BY DEF T
  <2>2. 0..m \subseteq 0..n /\ 0..m # 0..n
    <3>1. n \in 0..n /\ n \notin 0..m
      BY <1>6
    <3>2. 0..m \subseteq 0..n
      BY <1>6
    <3> QED BY <3>1, <3>2
  <2>3. 0..m \in SUBSET Nat /\ 0..n \in SUBSET Nat
    OBVIOUS
  <2>4. <<0..m, 0..n>> \in StrictSubsetOrdering(Nat)
    BY <2>2, <2>3 DEF StrictSubsetOrdering
  <2> QED BY <2>1, <2>4, <1>4, <1>5
<1> QED BY <1>6

\* The string of an array that holds a NUL ends before the first one: it is
\* never longer than what stands before any NUL of the array.
LEMMA StringEnds ==
  ASSUME NEW n \in Nat, NEW t \in [0..n -> Chars], NEW e \in 0..n, t[e] = NUL
  PROVE  \E k \in 0..e : /\ t[k] = NUL
                         /\ \A j \in 0..(k - 1) : t[j] # NUL
                         /\ CString(t) = [i \in 1..k |-> t[i - 1]]
                         /\ CString(t) \in Seq(Chars) /\ Len(CString(t)) = k
<1> DEFINE S == {i \in 0..n : t[i] = NUL}
           IsEnd(i) == t[i] = NUL /\ \A j \in 0..(i - 1) : t[j] # NUL
<1>1. PICK k \in S : \A m \in S : k <= m
  <2> S \subseteq Nat /\ S # {}
    OBVIOUS
  <2> HIDE DEF S
  <2> QED BY LeastNat
<1>2. k \in 0..e /\ IsEnd(k)
  BY <1>1
<1>3. \A i \in 0..n : IsEnd(i) => i = k
  BY <1>2
<1>4. DOMAIN t = 0..n
  OBVIOUS
<1>5. (CHOOSE i \in 0..n : IsEnd(i)) = k
  <2> HIDE DEF IsEnd
  <2> QED BY <1>2, <1>3
<1>6. CString(t) = [i \in 1..k |-> t[i - 1]]
  BY <1>4, <1>5 DEF CString
<1>7. CString(t) \in Seq(Chars) /\ Len(CString(t)) = k
  <2>1. \A i \in 1..k : t[i - 1] \in Chars
    BY <1>2
  <2> QED BY <1>2, <1>6, <2>1, IsASeq, LenProperties
<1> QED BY <1>2, <1>6, <1>7

\* The first word of a string is what stands before its first space.
LEMMA WordEnds ==
  ASSUME NEW n \in Nat, NEW s \in [1..n -> Chars]
  PROVE  \E k \in 0..n : /\ Word(s) = [i \in 1..k |-> s[i]]
                         /\ Len(Word(s)) = k
                         /\ \A j \in 1..k : s[j] # Space
                         /\ k < n => s[k + 1] = Space
<1> DEFINE S == {i \in 1..n : s[i] = Space}
           before == {i \in 1..n : \A j \in 1..i : s[j] # Space}
<1>1. \E k \in 0..n : (\A j \in 1..k : s[j] # Space) /\ (k < n => s[k + 1] = Space)
  <2>1. CASE S = {}
    <3>1. \A j \in 1..n : s[j] # Space
      BY <2>1
    <3>2. n \in 0..n /\ ~(n < n)
      OBVIOUS
    <3> QED BY <3>1, <3>2
  <2>2. CASE S # {}
    <3>1. PICK k \in S : \A m \in S : k <= m
      <4> S \subseteq Nat
        OBVIOUS
      <4> HIDE DEF S
      <4> QED BY <2>2, LeastNat
    <3>2. k - 1 \in 0..n /\ s[(k - 1) + 1] = Space /\ \A j \in 1..(k - 1) : s[j] # Space
      BY <3>1
    <3> QED BY <3>2
  <2> QED BY <2>1, <2>2
<1>2. PICK k \in 0..n : (\A j \in 1..k : s[j] # Space) /\ (k < n => s[k + 1] = Space)
  BY <1>1
<1>3. before = 1..k
  <2>1. ASSUME NEW i \in before PROVE i \in 1..k
    <3>1. CASE i > k
      <4>1. k < n /\ k + 1 \in 1..i
        BY <3>1
      <4> QED BY <4>1, <1>2
    <3> QED BY <3>1
  <2>2. ASSUME NEW i \in 1..k PROVE i \in before
    BY <1>2
  <2> QED BY <2>1, <2>2
<1>4. Word(s) = [i \in 1..k |-> s[i]]
  <2>1. Len(s) = n
    BY LenProperties
  <2>2. Word(s) = [i \in before |-> s[i]]
    BY <2>1 DEF Word
  <2> HIDE DEF before
  <2> QED BY <2>2, <1>3
<1>5. Len(Word(s)) = k
  <2>1. k \in Nat
    OBVIOUS
  <2> QED BY <2>1, <1>4, LenProperties
<1> QED BY <1>2, <1>4, <1>5

\* The characters that matter differ from each other.
LEMMA Characters ==
  /\ NUL \in Chars /\ Space \in Chars /\ Space # NUL
  /\ Folds(NUL) \notin Commands
<1>1. NUL \in Chars /\ Space \in Chars
  BY Zenon DEF Chars
<1>2. Space # NUL
  BY Zenon DEF Space, NUL
<1>3. DOMAIN Upper = {"x", "t", "h"}
  BY DEF Upper
<1>4. Folds(NUL) = "NUL"
  BY <1>3 DEF Folds, NUL
<1>5. Folds(NUL) \notin Commands
  BY <1>4 DEF Commands
<1> QED BY <1>1, <1>2, <1>5

\* A help line shows one of three things, and names commands only.
LEMMA HelpType ==
  ASSUME NEW s
  PROVE  HelpLine(s) \in [says : {"default", "description", "names"}, of : SUBSET Commands]
<1>1. CASE s = <<>>
  BY <1>1 DEF HelpLine
<1>2. CASE s # <<>> /\ HasSpace(s)
  <2>1. HelpLine(s) = [says |-> "description", of |-> {cmd \in Commands : Equals(cmd, Word(s))}]
    BY <1>2 DEF HelpLine
  <2> QED BY <2>1
<1>3. CASE s # <<>> /\ ~HasSpace(s)
  <2>1. HelpLine(s) = [says |-> "names", of |-> {cmd \in Commands : PrefixOf(cmd, s)}]
    BY <1>3 DEF HelpLine
  <2> QED BY <2>1
<1> QED BY <1>1, <1>2, <1>3

\* What is executed is a command of the table, or nothing.
LEMMA ExecutedType ==
  ASSUME NEW s
  PROVE  Executed(s) \in Commands \cup {"none"}
<1> DEFINE named == {cmd \in Commands : Equals(cmd, Word(s))}
<1>1. named # {} => (CHOOSE cmd \in named : TRUE) \in named
  OBVIOUS
<1> QED BY <1>1 DEF Executed

-----------------------------------------------------------------------------
(* The string ends where the editor stands.  Terminated is inductive as it *)
(* is: the NUL at next is what ADDCHAR and DELCHAR write last, and the     *)
(* room that Full leaves is what the cursor needs.                         *)

LEMMA InitTerminated == Init => Terminated
<1> SUFFICES ASSUME Init PROVE Terminated
  OBVIOUS
<1> USE SizesAssumption
<1>1. PICK junk \in Chars : text = [i \in 0..(TextSize - 1) |-> IF i = 0 THEN NUL ELSE junk]
  BY DEF Init
<1>2. text \in [0..(TextSize - 1) -> Chars] /\ text[0] = NUL
  BY <1>1, Characters
<1>3. next = 0 /\ cursor = 0 /\ width \in Widths /\ help = HelpLine(<<>>)
      /\ ran = "none" /\ open = FALSE
  BY DEF Init
<1>4. 0 * FontWidth <= width
  BY <1>3
<1>5. help \in [says : {"default", "description", "names"}, of : SUBSET Commands]
  BY <1>3, HelpType
<1>6. 0 \in 0..(TextSize - 1)
  OBVIOUS
<1> QED BY <1>2, <1>3, <1>4, <1>5, <1>6 DEF Terminated, TypeOK

\* A character typed leaves the string ended behind it.
LEMMA TypedTerminated ==
  ASSUME Terminated, NEW c \in Keys, KeyChar(c)
  PROVE  Terminated'
<1> USE SizesAssumption
<1>1. help' = HelpLine(CString(text')) /\ AddChar(c) /\ UNCHANGED <<width, ran, open>>
  BY DEF KeyChar
<1>2. help' \in [says : {"default", "description", "names"}, of : SUBSET Commands]
  BY <1>1, HelpType
<1>3. CASE Full
  BY <1>1, <1>2, <1>3 DEF AddChar, edit, Terminated, TypeOK
<1>4. CASE ~Full
  <2>1. next + 1 \in 0..(TextSize - 1) /\ (next + 1) * FontWidth <= width
    <3>1. next \in 0..(TextSize - 1) /\ next # TextSize - 1
      BY <1>4 DEF Full, Terminated, TypeOK
    <3>2. (next + 1) * FontWidth \in Int /\ width \in Int
      BY <3>1 DEF Terminated, TypeOK
    <3> QED BY <1>4, <3>1, <3>2 DEF Full
  <2>2. /\ text' = [text EXCEPT ![next] = c, ![next + 1] = NUL]
        /\ next' = next + 1 /\ cursor' = next'
    BY <1>1, <1>4 DEF AddChar
  <2>3. c \in Chars
    BY KeysAssumption
  <2>4. text' \in [0..(TextSize - 1) -> Chars] /\ text'[next + 1] = NUL
    BY <2>1, <2>2, <2>3, Characters DEF Terminated, TypeOK
  <2> QED BY <1>1, <1>2, <2>1, <2>2, <2>4 DEF Terminated, TypeOK
<1> QED BY <1>3, <1>4

\* A character rubbed out is replaced by the end of the string.
LEMMA RubbedTerminated ==
  ASSUME Terminated, KeyBackspace
  PROVE  Terminated'
<1> USE SizesAssumption
<1>1. help' = HelpLine(CString(text')) /\ DelChar /\ UNCHANGED <<width, ran, open>>
  BY DEF KeyBackspace
<1>2. help' \in [says : {"default", "description", "names"}, of : SUBSET Commands]
  BY <1>1, HelpType
<1>3. CASE next = 0
  BY <1>1, <1>2, <1>3 DEF DelChar, edit, Terminated, TypeOK
<1>4. CASE next # 0
  <2>1. next - 1 \in 0..(TextSize - 1) /\ next \in Nat
    BY <1>4 DEF Terminated, TypeOK
  <2>2. (next - 1) * FontWidth <= width
    <3>1. (next - 1) * FontWidth = next * FontWidth - FontWidth
      BY <2>1
    <3>2. next * FontWidth \in Int /\ width \in Int /\ next * FontWidth <= width
      BY <2>1 DEF Terminated, TypeOK
    <3> QED BY <3>1, <3>2
  <2>3. text' = [text EXCEPT ![next - 1] = NUL] /\ next' = next - 1 /\ cursor' = next'
    BY <1>1, <1>4 DEF DelChar
  <2>4. text' \in [0..(TextSize - 1) -> Chars] /\ text'[next - 1] = NUL
    BY <2>1, <2>3, Characters DEF Terminated, TypeOK
  <2> QED BY <1>1, <1>2, <2>1, <2>2, <2>3, <2>4 DEF Terminated, TypeOK
<1> QED BY <1>3, <1>4

\* ENTER leaves an empty line, whatever is left in the buffer behind it.
LEMMA EnteredTerminated ==
  ASSUME Terminated, KeyEnter
  PROVE  Terminated'
<1> USE SizesAssumption
<1> DEFINE cut == [i \in DOMAIN text |->
                     IF text[i] = Space /\ i = Len(Word(CString(text))) THEN NUL ELSE text[i]]
<1>1. /\ help' = HelpLine(CString(text)) /\ ran' = Executed(CString(text))
      /\ text' = [cut EXCEPT ![0] = NUL] /\ next' = 0 /\ cursor' = 0
      /\ open' = (ran' = "none") /\ width' = width
  BY DEF KeyEnter
<1>2. text' \in [0..(TextSize - 1) -> Chars] /\ text'[0] = NUL
  <2>1. \A i \in 0..(TextSize - 1) : text[i] \in Chars
    BY DEF Terminated, TypeOK
  <2>2. DOMAIN text = 0..(TextSize - 1) /\ 0 \in 0..(TextSize - 1)
    BY DEF Terminated, TypeOK
  <2>3. cut \in [0..(TextSize - 1) -> Chars]
    BY <2>1, <2>2, Characters
  <2> HIDE DEF cut
  <2> QED BY <1>1, <2>2, <2>3, Characters
<1>3. 0 * FontWidth <= width
  BY DEF Terminated, TypeOK
<1>4. help' \in [says : {"default", "description", "names"}, of : SUBSET Commands]
  BY <1>1, HelpType
<1>5. ran' \in Commands \cup {"none"}
  BY <1>1, ExecutedType
<1>6. width' \in Widths
  BY <1>1 DEF Terminated, TypeOK
<1>7. 0 \in 0..(TextSize - 1)
  OBVIOUS
<1> HIDE DEF cut
<1> QED BY <1>1, <1>2, <1>3, <1>4, <1>5, <1>6, <1>7 DEF Terminated, TypeOK

LEMMA NextTerminated == Terminated /\ [Next]_vars => Terminated'
<1> SUFFICES ASSUME Terminated, [Next]_vars PROVE Terminated'
  OBVIOUS
<1>1. ASSUME NEW c \in Keys, KeyChar(c) PROVE Terminated'
  BY <1>1, TypedTerminated
<1>2. CASE KeyBackspace
  BY <1>2, RubbedTerminated
<1>3. CASE KeyEnter
  BY <1>3, EnteredTerminated
<1>4. CASE ShowMainUI
  BY <1>4, HelpType DEF ShowMainUI, edit, Terminated, TypeOK
<1>5. CASE UNCHANGED vars
  BY <1>5 DEF vars, Terminated, TypeOK
<1> QED BY <1>1, <1>2, <1>3, <1>4, <1>5 DEF Next

(***************************************************************************)
(* get_command, get_helpline, exec_command and the screen read a string    *)
(* that ends where the editor stands, inside the buffer and the rectangle. *)
(***************************************************************************)
THEOREM AlwaysTerminated == Spec => []Terminated
<1>1. Init => Terminated
  BY InitTerminated
<1>2. Terminated /\ [Next]_vars => Terminated'
  BY NextTerminated
<1> QED BY <1>1, <1>2, PTL DEF Spec

-----------------------------------------------------------------------------
(* The help line.                                                          *)

\* The name of a command is not changed by the folding of its case.
LEMMA NamesFold == \A cmd \in Commands : Folds(cmd) = cmd
<1>1. DOMAIN Upper = {"x", "t", "h"}
  BY DEF Upper
<1> QED BY <1>1 DEF Folds, Commands

\* Nothing is executed exactly when no name equals the first word.
LEMMA ExecutedNamed ==
  ASSUME NEW s
  PROVE  LET named == {cmd \in Commands : Equals(cmd, Word(s))}
         IN  /\ Executed(s) = "none" <=> named = {}
             /\ Executed(s) # "none" => Executed(s) \in named
<1> DEFINE named == {cmd \in Commands : Equals(cmd, Word(s))}
<1>1. "none" \notin named
  BY DEF Commands
<1>2. Executed(s) = IF named = {} THEN "none" ELSE CHOOSE cmd \in named : TRUE
  BY DEF Executed
<1> HIDE DEF named
<1>3. named # {} => Executed(s) \in named
  BY <1>2
<1>4. named = {} => Executed(s) = "none"
  BY <1>2
<1> QED BY <1>1, <1>3, <1>4 DEF named

\* get_helpline and exec_command agree on every line: is_prefix and strcasecmp
\* on a line of one word, the same search for a space on the others.
LEMMA HelpAgrees ==
  ASSUME NEW n \in Nat, NEW s \in [1..n -> Chars]
  PROVE  /\ Invalid(HelpLine(s)) <=> Executed(s) = "none" /\ s # <<>>
         /\ Executed(s) # "none" => Executed(s) \in HelpLine(s).of
<1> DEFINE named  == {cmd \in Commands : Equals(cmd, Word(s))}
           begins == {cmd \in Commands : PrefixOf(cmd, s)}
<1>1. (Executed(s) = "none" <=> named = {}) /\ (Executed(s) # "none" => Executed(s) \in named)
  BY ExecutedNamed
<1>2. PICK k \in 0..n : /\ Word(s) = [i \in 1..k |-> s[i]] /\ Len(Word(s)) = k
                        /\ \A j \in 1..k : s[j] # Space
                        /\ k < n => s[k + 1] = Space
  BY WordEnds
<1>3. Len(s) = n
  BY LenProperties
<1>4. CASE s = <<>>
  <2>1. k = 0
    BY <1>3, <1>4
  <2>2. named = {}
    BY <1>2, <2>1 DEF Equals
  <2>3. HelpLine(s).says = "default"
    BY <1>4 DEF HelpLine
  <2> HIDE DEF named
  <2> QED BY <1>1, <1>4, <2>2, <2>3 DEF Invalid
<1>5. CASE s # <<>> /\ HasSpace(s)
  <2>1. HelpLine(s) = [says |-> "description", of |-> named]
    BY <1>5 DEF HelpLine
  <2> HIDE DEF named
  <2> QED BY <1>1, <1>5, <2>1 DEF Invalid
<1>6. CASE s # <<>> /\ ~HasSpace(s)
  <2>1. HelpLine(s) = [says |-> "names", of |-> begins]
    BY <1>6 DEF HelpLine
  <2>2. k = n
    <3>1. \A j \in 1..n : s[j] # Space
      BY <1>3, <1>6 DEF HasSpace
    <3> QED BY <1>2, <3>1
  <2>3. n # 0
    <3>1. n = 0 => s = <<>>
      BY <1>3
    <3> QED BY <1>6, <3>1
  <2>4. ASSUME NEW cmd \in Commands PROVE Equals(cmd, Word(s)) <=> PrefixOf(cmd, s)
    <3>1. CASE n = 1
      <4>1. Word(s)[1] = s[1] /\ Len(Word(s)) = 1
        BY <1>2, <2>2, <3>1
      <4>2. Equals(cmd, Word(s)) <=> Folds(s[1]) = cmd
        BY <4>1 DEF Equals
      <4>3. PrefixOf(cmd, s) <=> s[1] = cmd \/ Folds(s[1]) = cmd
        BY <1>3, <3>1 DEF PrefixOf
      <4> QED BY <4>2, <4>3, NamesFold
    <3>2. CASE n # 1
      BY <1>2, <1>3, <2>2, <2>3, <3>2 DEF Equals, PrefixOf
    <3> QED BY <3>1, <3>2
  <2>5. named = begins
    BY <2>4
  <2> HIDE DEF named, begins
  <2> QED BY <1>1, <1>6, <2>1, <2>5 DEF Invalid
<1> QED BY <1>4, <1>5, <1>6

(***************************************************************************)
(* What the help line says when ENTER is typed is what exec_command does,  *)
(* whatever the line and whatever is left in the buffer behind it.         *)
(***************************************************************************)
THEOREM HelpIsTrue == Spec => HelpTellsTruth
<1> DEFINE Tells == open /\ KeyEnter => (Invalid(help') <=> ran' = "none" /\ CString(text) # <<>>)
                                         /\ (ran' # "none" => ran' \in help'.of)
<1>1. Terminated /\ [Next]_vars => [Tells]_vars
  <2> SUFFICES ASSUME Terminated, KeyEnter PROVE Tells
    OBVIOUS
  <2>1. help' = HelpLine(CString(text)) /\ ran' = Executed(CString(text))
    BY DEF KeyEnter
  <2>2. TextSize - 1 \in Nat /\ next \in 0..(TextSize - 1) /\ text[next] = NUL
        /\ text \in [0..(TextSize - 1) -> Chars]
    BY SizesAssumption DEF Terminated, TypeOK
  <2>3. \E k \in 0..next : CString(text) = [i \in 1..k |-> text[i - 1]]
                           /\ CString(text) \in Seq(Chars) /\ Len(CString(text)) = k
    BY <2>2, StringEnds
  <2>4. Len(CString(text)) \in Nat /\ CString(text) \in [1..Len(CString(text)) -> Chars]
    BY <2>3, LenProperties
  <2> QED BY <2>1, <2>4, HelpAgrees
<1> QED BY <1>1, AlwaysTerminated, PTL DEF Spec, HelpTellsTruth

-----------------------------------------------------------------------------
(* The refinement: the first next characters of the buffer are the line of *)
(* CommandPrompt, what is behind them is not seen.                         *)

line == [i \in 1..next |-> text[i - 1]]

\* A multiple of the width of a character fits as long as there are fewer
\* characters than fit.
LEMMA FitsByCount ==
  ASSUME NEW n \in Nat, NEW w \in Nat, NEW f \in Nat \ {0}
  PROVE  (n + 1) * f > w <=> ~(n < w \div f)
<1> DEFINE q == w \div f
           r == w % f
<1>1. q \in Nat /\ r \in Nat /\ r < f /\ w = f * q + r
  BY Z3
<1> HIDE DEF q, r
<1>2. CASE n < q
  <2>1. PICK d \in Nat : q = n + 1 + d
    <3>1. q - n - 1 \in Nat /\ q = n + 1 + (q - n - 1)
      BY <1>1, <1>2
    <3> QED BY <3>1
  <2>2. f * q = (n + 1) * f + d * f /\ d * f \in Nat /\ (n + 1) * f \in Nat
    BY <2>1
  <2>3. (n + 1) * f <= w
    BY <1>1, <2>2
  <2> QED BY <1>1, <1>2, <2>2, <2>3 DEF q
<1>3. CASE ~(n < q)
  <2>1. PICK d \in Nat : n = q + d
    <3>1. n - q \in Nat /\ n = q + (n - q)
      BY <1>1, <1>3
    <3> QED BY <3>1
  <2>2. (n + 1) * f = f * q + d * f + f /\ d * f \in Nat /\ f * q \in Nat
    BY <1>1, <2>1
  <2>3. (n + 1) * f > w
    BY <1>1, <2>2
  <2> QED BY <1>3, <2>3 DEF q
<1> QED BY <1>2, <1>3

\* The editor takes a character when fewer than Fit characters are typed.
LEMMA FullMeansFit ==
  ASSUME Terminated
  PROVE  Full <=> ~(next < Fit(width))
<1>1. next \in Nat /\ width \in Nat /\ FontWidth \in Nat \ {0} /\ next <= TextSize - 1
      /\ TextSize \in Nat
  BY SizesAssumption DEF Terminated, TypeOK
<1>2. (next + 1) * FontWidth > width <=> ~(next < width \div FontWidth)
  BY <1>1, FitsByCount
<1>3. width \div FontWidth \in Int
  BY <1>1
<1> QED BY <1>1, <1>2, <1>3 DEF Full, Fit

\* The line is a sequence of as many characters as the editor counts.
LEMMA LineType == Terminated => line \in Seq(Chars) /\ Len(line) = next
<1> SUFFICES ASSUME Terminated PROVE line \in Seq(Chars) /\ Len(line) = next
  OBVIOUS
<1>1. next \in Nat /\ \A i \in 1..next : text[i - 1] \in Chars
  BY SizesAssumption DEF Terminated, TypeOK
<1> QED BY <1>1, IsASeq, LenProperties DEF line

\* strcasecmp on the first word of the buffer's string is the test of the
\* promise on the line.
LEMMA EqualsOrders ==
  ASSUME Terminated, NEW cmd \in Commands
  PROVE  Equals(cmd, Word(CString(text))) <=> Prompt!Orders(cmd)
<1> DEFINE s == CString(text)
<1>1. TextSize - 1 \in Nat /\ next \in 0..(TextSize - 1) /\ text[next] = NUL
      /\ text \in [0..(TextSize - 1) -> Chars] /\ next \in Nat
  BY SizesAssumption DEF Terminated, TypeOK
<1>2. PICK e \in 0..next : /\ text[e] = NUL /\ \A j \in 0..(e - 1) : text[j] # NUL
                           /\ s = [i \in 1..e |-> text[i - 1]]
                           /\ s \in Seq(Chars) /\ Len(s) = e
  BY <1>1, StringEnds, SMTT(30)
<1>3. s \in [1..e -> Chars] /\ e \in Nat
  BY <1>2, LenProperties
<1> HIDE DEF s
<1>4. PICK k \in 0..e : /\ Word(s) = [i \in 1..k |-> s[i]] /\ Len(Word(s)) = k
                        /\ \A j \in 1..k : s[j] # Space
                        /\ k < e => s[k + 1] = Space
  BY <1>3, WordEnds
<1>5. line \in Seq(Chars) /\ Len(line) = next /\ \A i \in 1..next : line[i] = text[i - 1]
  BY LineType DEF line
<1>6. Prompt!Orders(cmd) <=> /\ line # <<>> /\ Folds(line[1]) = cmd
                             /\ next > 1 => line[2] \in {Space, NUL}
  <2>1. line # <<>> => line[1] \in Chars
    BY <1>5
  <2> QED BY <1>5, <2>1 DEF Prompt!Orders, line
<1>7. line # <<>> <=> next > 0
  BY <1>1, <1>5
<1>8. CASE e = 0
  <2>1. ~Equals(cmd, Word(s))
    BY <1>3, <1>4, <1>8 DEF Equals
  <2>2. next > 0 => line[1] = NUL
    BY <1>1, <1>2, <1>5, <1>8
  <2> QED BY <1>6, <1>7, <2>1, <2>2, Characters DEF s
<1>9. CASE e > 0
  <2>1. next > 0 /\ line[1] = text[0] /\ s[1] = text[0]
    BY <1>1, <1>2, <1>5, <1>9
  <2>2. Equals(cmd, Word(s)) <=> k = 1 /\ Folds(text[0]) = cmd
    <3>1. k = 1 => Word(s)[1] = s[1]
      BY <1>4
    <3> QED BY <1>4, <2>1, <3>1 DEF Equals
  <2>3. Folds(Space) \notin Commands
    <3>1. Space \notin DOMAIN Upper
      <4>1. DOMAIN Upper = {"x", "t", "h"}
        BY DEF Upper
      <4> QED BY <4>1, Zenon DEF Space
    <3>2. Folds(Space) = Space
      BY <3>1 DEF Folds
    <3>3. Space \notin Commands
      BY Zenon DEF Space, Commands
    <3> QED BY <3>2, <3>3
  <2>4. CASE text[0] = Space
    <3>1. k = 0
      BY <1>4, <1>9, <2>1, <2>4
    <3> QED BY <1>6, <2>1, <2>2, <2>3, <2>4, <3>1 DEF s
  <2>5. CASE text[0] # Space
    <3>1. k >= 1
      BY <1>4, <1>9, <2>1, <2>5
    <3>2. CASE e = 1
      <4>1. k = 1 /\ text[1] = NUL
        BY <1>2, <1>4, <3>1, <3>2
      <4>2. next > 1 => line[2] = NUL
        BY <1>1, <1>5, <4>1
      <4> QED BY <1>6, <1>7, <2>1, <2>2, <4>1, <4>2 DEF s
    <3>3. CASE e > 1
      <4>1. next > 1 /\ line[2] = text[1] /\ s[2] = text[1] /\ text[1] # NUL
        BY <1>1, <1>2, <1>5, <3>3
      <4>2. k = 1 <=> text[1] = Space
        BY <1>3, <1>4, <3>1, <3>3, <4>1
      <4> QED BY <1>6, <1>7, <2>1, <2>2, <4>1, <4>2 DEF s
    <3> QED BY <1>3, <1>9, <3>2, <3>3
  <2> QED BY <2>4, <2>5
<1> QED BY <1>3, <1>8, <1>9

LEMMA RefineInit == Init => Prompt!Init
<1> SUFFICES ASSUME Init PROVE Prompt!Init
  OBVIOUS
<1>1. width \in Widths /\ next = 0 /\ ran = "none"
  BY DEF Init
<1>2. [i \in 1..next |-> text[i - 1]] = <<>>
  <2>1. [i \in 1..0 |-> text[i - 1]] = <<>>
    OBVIOUS
  <2> QED BY <1>1, <2>1
<1> QED BY <1>1, <1>2 DEF Prompt!Init

\* A character is appended while there is room.
LEMMA RefineType ==
  ASSUME Terminated, Terminated', NEW c \in Keys, KeyChar(c)
  PROVE  Prompt!Type(c)
<1>1. AddChar(c) /\ width' = width /\ ran' = ran
  BY DEF KeyChar
<1>2. next \in Nat /\ text \in [0..(TextSize - 1) -> Chars] /\ next \in 0..(TextSize - 1)
      /\ TextSize \in Nat
  BY SizesAssumption DEF Terminated, TypeOK
<1>3. line \in Seq(Chars) /\ Len(line) = next
  BY LineType
<1>4. c \in Chars
  BY KeysAssumption
<1>5. line' = IF Len(line) < Fit(width) THEN Append(line, c) ELSE line
  <2>1. CASE Full
    BY <1>1, <1>3, <2>1, FullMeansFit DEF AddChar, edit, line
  <2>2. CASE ~Full
    <3>1. /\ next < Fit(width) /\ next # TextSize - 1
          /\ text' = [text EXCEPT ![next] = c, ![next + 1] = NUL]
          /\ next' = next + 1
      BY <1>1, <2>2, FullMeansFit DEF AddChar, Full
    <3>2. line' = [i \in 1..(next + 1) |-> text'[i - 1]]
      BY <3>1 DEF line
    <3>3. \A i \in 1..(next + 1) : text'[i - 1] = IF i = next + 1 THEN c ELSE text[i - 1]
      BY <1>2, <3>1
    <3>4. Append(line, c) \in Seq(Chars) /\ Len(Append(line, c)) = next + 1
          /\ \A i \in 1..(next + 1) : Append(line, c)[i] = IF i = next + 1 THEN c ELSE line[i]
      BY <1>2, <1>3, <1>4, AppendProperties
    <3>5. \A i \in 1..next : line[i] = text[i - 1]
      BY DEF line
    <3>6. line' \in Seq(Chars) /\ Len(line') = next + 1
      <4>1. line' \in Seq(Chars) /\ Len(line') = next'
        <5>1. next' \in Nat /\ \A i \in 1..next' : text'[i - 1] \in Chars
          BY SizesAssumption DEF Terminated, TypeOK
        <5> QED BY <5>1, IsASeq, LenProperties DEF line
      <4> QED BY <4>1, <3>1
    <3>7. \A i \in 1..(next + 1) : line'[i] = Append(line, c)[i]
      BY <1>2, <3>2, <3>3, <3>4, <3>5
    <3>8. line' = Append(line, c)
      BY <3>4, <3>6, <3>7, SeqEqual
    <3> QED BY <1>3, <3>1, <3>8
  <2> QED BY <2>1, <2>2
<1>6. Fit(width)' = Fit(width)
  BY <1>1 DEF Fit
<1> QED BY <1>1, <1>5, <1>6 DEF Prompt!Type, line

\* The last character of the line is rubbed out.
LEMMA RefineRubOut ==
  ASSUME Terminated, Terminated', KeyBackspace
  PROVE  Prompt!RubOut
<1>1. DelChar /\ width' = width /\ ran' = ran
  BY DEF KeyBackspace
<1>2. next \in Nat /\ text \in [0..(TextSize - 1) -> Chars] /\ next \in 0..(TextSize - 1)
      /\ TextSize \in Nat
  BY SizesAssumption DEF Terminated, TypeOK
<1>3. line \in Seq(Chars) /\ Len(line) = next
  BY LineType
<1>4. line' = SubSeq(line, 1, Len(line) - 1)
  <2>1. CASE next = 0
    <3>1. text' = text /\ next' = next
      BY <1>1, <2>1 DEF DelChar, edit
    <3>2. line = <<>>
      BY <1>3, <2>1
    <3>3. SubSeq(line, 1, 0 - 1) = <<>>
      BY <3>2
    <3> QED BY <1>3, <2>1, <3>1, <3>2, <3>3 DEF line
  <2>2. CASE next # 0
    <3>1. text' = [text EXCEPT ![next - 1] = NUL] /\ next' = next - 1
      BY <1>1, <2>2 DEF DelChar
    <3>2. line' = [i \in 1..(next - 1) |-> text'[i - 1]]
      BY <3>1 DEF line
    <3>3. \A i \in 1..(next - 1) : text'[i - 1] = text[i - 1]
      BY <1>2, <3>1
    <3>4. SubSeq(line, 1, next - 1) = [i \in 1..(next - 1) |-> line[i]]
      BY <1>2, <1>3
    <3>5. \A i \in 1..(next - 1) : line[i] = text[i - 1]
      BY <1>2 DEF line
    <3> QED BY <1>3, <3>2, <3>3, <3>4, <3>5
  <2> QED BY <2>1, <2>2
<1>5. Fit(width)' = Fit(width)
  BY <1>1 DEF Fit
<1> QED BY <1>1, <1>4, <1>5 DEF Prompt!RubOut, line

\* The command that the first word of the line names is executed, and the
\* line is empty after it.
LEMMA RefineSubmit ==
  ASSUME Terminated, KeyEnter
  PROVE  Prompt!Submit
<1>1. ran' = Executed(CString(text)) /\ next' = 0 /\ width' = width
  BY DEF KeyEnter
<1>2. line' = <<>>
  <2>1. [i \in 1..0 |-> text'[i - 1]] = <<>>
    OBVIOUS
  <2> QED BY <1>1, <2>1 DEF line
<1> DEFINE named  == {cmd \in Commands : Equals(cmd, Word(CString(text)))}
           orders == {cmd \in {"X", "T"} : Prompt!Orders(cmd)}
<1>3. \A cmd \in Commands : Equals(cmd, Word(CString(text))) <=> Prompt!Orders(cmd)
  BY EqualsOrders
<1>4. \A x, y \in named : x = y
  BY DEF Equals
<1>5. ran' = IF \E cmd \in {"X", "T"} : Prompt!Orders(cmd)
             THEN CHOOSE cmd \in {"X", "T"} : Prompt!Orders(cmd) ELSE "none"
  <2>1. CASE \E cmd \in {"X", "T"} : Prompt!Orders(cmd)
    <3>1. PICK cmd \in {"X", "T"} : Prompt!Orders(cmd)
      BY <2>1
    <3>2. cmd \in Commands /\ cmd \in named /\ named # {}
      BY <1>3, <3>1 DEF Commands
    <3>3. Executed(CString(text)) \in named
      BY <3>2, ExecutedNamed
    <3> DEFINE chosen == CHOOSE x \in {"X", "T"} : Prompt!Orders(x)
    <3>4. chosen \in {"X", "T"} /\ Prompt!Orders(chosen)
      BY <3>1
    <3>5. chosen \in named
      <4> HIDE DEF chosen
      <4> QED BY <1>3, <3>4 DEF Commands
    <3> HIDE DEF named
    <3>6. Executed(CString(text)) = chosen
      <4> HIDE DEF chosen
      <4> QED BY <1>4, <3>3, <3>5
    <3> QED BY <1>1, <2>1, <3>6
  <2>2. CASE ~\E cmd \in {"X", "T"} : Prompt!Orders(cmd)
    <3>1. named = {}
      BY <1>3, <2>2 DEF Commands
    <3>2. Executed(CString(text)) = "none"
      BY <3>1, ExecutedNamed
    <3> QED BY <1>1, <2>2, <3>2
  <2> QED BY <2>1, <2>2
<1>6. Fit(width)' = Fit(width)
  BY <1>1 DEF Fit
<1> QED BY <1>2, <1>5, <1>6 DEF Prompt!Submit, line

LEMMA RefineNext == Terminated /\ Terminated' /\ [Next]_vars => [Prompt!Next]_(Prompt!vars)
<1> SUFFICES ASSUME Terminated, Terminated', [Next]_vars PROVE [Prompt!Next]_(Prompt!vars)
  OBVIOUS
<1>1. ASSUME NEW c \in Keys, KeyChar(c) PROVE Prompt!Next
  BY <1>1, RefineType, KeysAssumption DEF Prompt!Next
<1>2. CASE KeyBackspace
  BY <1>2, RefineRubOut DEF Prompt!Next
<1>3. CASE KeyEnter
  BY <1>3, RefineSubmit DEF Prompt!Next
<1>4. ASSUME text' = text, next' = next, width' = width, ran' = ran
      PROVE  UNCHANGED Prompt!vars
  BY <1>4 DEF Prompt!vars, Fit
<1>5. CASE ShowMainUI
  BY <1>4, <1>5 DEF ShowMainUI, edit
<1>6. CASE UNCHANGED vars
  BY <1>4, <1>6 DEF vars
<1> QED BY <1>1, <1>2, <1>3, <1>5, <1>6 DEF Next

(***************************************************************************)
(* The buffer that ADDCHAR, DELCHAR, get_command and exec_command share    *)
(* implements the promise: a line of at most Fit characters, of which the  *)
(* first word, in either case, names what ENTER executes.                  *)
(***************************************************************************)
THEOREM BufferImplementsPrompt == Spec => ImplementsPrompt
<1>1. Init => Prompt!Init
  BY RefineInit
<1>2. Terminated /\ Terminated' /\ [Next]_vars => [Prompt!Next]_(Prompt!vars)
  BY RefineNext
<1> QED BY <1>1, <1>2, AlwaysTerminated, PTL DEF Spec, ImplementsPrompt, Prompt!Spec
=============================================================================

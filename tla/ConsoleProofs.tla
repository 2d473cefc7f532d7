---------------------------- MODULE ConsoleProofs ---------------------------
(***************************************************************************)
(* For every size of the terminal and whatever comes in whatever order:    *)
(* the messages stand above the line of input, that line stays as it was   *)
(* typed, and what is typed is sent.                                       *)
(*                                                                         *)
(* What is drawn is computed by folds.  Fold stands for all of them, so    *)
(* that one induction serves them.                                         *)
(***************************************************************************)
EXTENDS Console, WellFoundedInduction, TLAPS

-----------------------------------------------------------------------------
(* Folds.                                                                  *)

Draw(kind, state, x) ==
  CASE kind = "char" -> PutChar(state, x)
    [] kind = "part" -> PrintPart(state, x)
    [] OTHER -> Above(state, x)

\* A set of natural numbers has a smallest one: the form in which this module
\* uses induction, with the set of the numbers where a claim fails.
LEMMA SmallestIn ==
  ASSUME NEW T, T \subseteq Nat, T # {}
  PROVE  \E n \in T : \A k \in T : n <= k
<1>1. IsWellFoundedOn(OpToRel(<, Nat), Nat)
  BY NatLessThanWellFounded
<1>2. \E n \in T : \A k \in T : <<k, n>> \notin OpToRel(<, Nat)
  BY <1>1, WFMin
<1>3. \A k, n \in Nat : k < n => <<k, n>> \in OpToRel(<, Nat)
  BY Zenon DEF OpToRel
<1> DEFINE R == OpToRel(<, Nat)
<1>4. PICK n \in T : \A k \in T : <<k, n>> \notin R
  BY <1>2
<1>5. \A k \in Nat : k < n => <<k, n>> \in R
  BY <1>3
<1> HIDE DEF R
<1>6. \A k \in T : ~(k < n)
  BY <1>4, <1>5
<1> QED BY <1>6

IsRun(kind, f, s, seq) ==
  /\ DOMAIN f = 0..Len(seq) /\ f[0] = s
  /\ \A i \in 1..Len(seq) : f[i] = Draw(kind, f[i - 1], seq[i])

\* The function that MapThenFoldSet chooses for FoldLeft.
Iter(kind, s, seq, i, g) ==
  g = [S \in SUBSET (1..i) |->
         IF S = {} THEN s ELSE Draw(kind, g[S \ {Max(S)}], seq[Max(S)])]

Fold(kind, s, seq) == (CHOOSE g : Iter(kind, s, seq, Len(seq), g))[1..Len(seq)]

LEMMA MaxIs ==
  ASSUME NEW i \in Nat, NEW S, S \subseteq 1..i, i \in S
  PROVE  Max(S) = i
<1>1. \A y \in S : i >= y
  OBVIOUS
<1>2. \A j \in S : (\A y \in S : j >= y) => j = i
  OBVIOUS
<1> QED BY <1>1, <1>2 DEF Max

\* One more element: the sets that hold its index, and those that do not.
LEMMA IterStep ==
  ASSUME NEW kind, NEW s, NEW seq, NEW i \in Nat, NEW g, Iter(kind, s, seq, i, g)
  PROVE  \E h : Iter(kind, s, seq, i + 1, h)
<1> DEFINE h == [S \in SUBSET (1..(i + 1)) |->
                   IF i + 1 \in S THEN Draw(kind, g[S \ {i + 1}], seq[i + 1]) ELSE g[S]]
<1> DEFINE e == [S \in SUBSET (1..(i + 1)) |->
         IF S = {} THEN s ELSE Draw(kind, h[S \ {Max(S)}], seq[Max(S)])]
<1>1. ASSUME NEW S \in SUBSET (1..(i + 1)) PROVE h[S] = e[S]
  <2>1. CASE i + 1 \in S
    <3>1. Max(S) = i + 1
      <4>1. i + 1 \in Nat /\ S \subseteq 1..(i + 1)
        OBVIOUS
      <4> QED BY <2>1, <4>1, MaxIs
    <3>2. S \ {i + 1} \in SUBSET (1..(i + 1)) /\ i + 1 \notin S \ {i + 1}
      OBVIOUS
    <3>3. h[S \ {i + 1}] = g[S \ {i + 1}]
      BY <3>2
    <3>4. h[S] = Draw(kind, g[S \ {i + 1}], seq[i + 1])
      BY <2>1
    <3>5. e[S] = Draw(kind, h[S \ {i + 1}], seq[i + 1])
      BY <2>1, <3>1
    <3> HIDE DEF h, e
    <3> QED BY <3>3, <3>4, <3>5
  <2>2. CASE i + 1 \notin S
    <3>1. S \in SUBSET (1..i)
      BY <2>2
    <3>2. h[S] = g[S]
      BY <2>2
    <3>3. CASE S = {}
      BY <3>1, <3>2, <3>3 DEF Iter
    <3>4. CASE S # {}
      <4>1. Max(S) \in S
        <5>1. \E n \in 1..i : n \in S /\ \A y \in S : n >= y
          <6>1. {n \in Nat : \A y \in S : n >= y} # {}
            BY <3>1
          <6>2. PICK n \in Nat : (\A y \in S : n >= y) /\ \A k \in Nat : (\A y \in S : k >= y) => n <= k
            BY <6>1, SmallestIn
          <6>3. n \in S
            <7>1. SUFFICES ASSUME n \notin S PROVE FALSE
              OBVIOUS
            <7>2. n # 0 /\ n - 1 \in Nat /\ \A y \in S : n - 1 >= y
              <8>1. PICK y \in S : TRUE
                BY <3>4
              <8>2. y \in 1..i /\ n >= y
                BY <3>1, <6>2, <8>1
              <8>3. \A z \in S : z \in Nat /\ n >= z /\ n # z
                BY <3>1, <6>2, <7>1
              <8>4. n - 1 \in Nat /\ n # 0
                BY <8>2
              <8> QED BY <8>3, <8>4
            <7> QED BY <6>2, <7>2
          <6> QED BY <3>1, <6>2, <6>3
        <5> QED BY <5>1 DEF Max
      <4>2. S \ {Max(S)} \in SUBSET (1..(i + 1)) /\ i + 1 \notin S \ {Max(S)}
        BY <2>2
      <4>3. h[S \ {Max(S)}] = g[S \ {Max(S)}]
        BY <4>2
      <4>4. g[S] = Draw(kind, g[S \ {Max(S)}], seq[Max(S)])
        BY <3>1, <3>4 DEF Iter
      <4>5. e[S] = Draw(kind, h[S \ {Max(S)}], seq[Max(S)])
        BY <3>4
      <4> HIDE DEF h, e
      <4> QED BY <3>2, <4>3, <4>4, <4>5
    <3> QED BY <3>3, <3>4
  <2> QED BY <2>1, <2>2
<1>2. h = e
  BY <1>1
<1>3. Iter(kind, s, seq, i + 1, h)
  BY <1>2 DEF Iter
<1> QED BY <1>3

LEMMA IterExists ==
  ASSUME NEW kind, NEW s, NEW seq, NEW i \in Nat
  PROVE  \E g : Iter(kind, s, seq, i, g)
<1> DEFINE T == {n \in Nat : ~\E g : Iter(kind, s, seq, n, g)}
<1>1. SUFFICES ASSUME T # {} PROVE FALSE
  OBVIOUS
<1>2. PICK n \in T : \A k \in T : n <= k
  BY <1>1, SmallestIn
<1>3. CASE n = 0
  <2> DEFINE g == [S \in SUBSET (1..0) |-> s]
  <2>1. g = [S \in SUBSET (1..0) |->
              IF S = {} THEN s ELSE Draw(kind, g[S \ {Max(S)}], seq[Max(S)])]
    OBVIOUS
  <2>2. Iter(kind, s, seq, 0, g)
    BY <2>1 DEF Iter
  <2> QED BY <1>3, <2>2
<1>4. CASE n # 0
  <2>1. n - 1 \in Nat /\ n - 1 \notin T
    BY <1>2, <1>4
  <2>2. \E g : Iter(kind, s, seq, n - 1, g)
    BY <2>1
  <2>3. \E g : Iter(kind, s, seq, (n - 1) + 1, g)
    BY <2>1, <2>2, IterStep
  <2>4. (n - 1) + 1 = n
    OBVIOUS
  <2> QED BY <2>3, <2>4
<1> QED BY <1>3, <1>4

LEMMA FirstNumbers ==
  ASSUME NEW n \in Nat, NEW i \in 1..n
  PROVE  /\ Max(1..i) = i
         /\ (1..i) \ {i} = 1..(i - 1) /\ 1..i \in SUBSET (1..n) /\ 1..i # {}
<1>1. i \in Nat /\ i \in 1..i
  OBVIOUS
<1>2. Max(1..i) = i
  BY <1>1, MaxIs
<1>3. (1..i) \ {i} = 1..(i - 1)
  OBVIOUS
<1> QED BY <1>1, <1>2, <1>3

LEMMA FoldIsRun ==
  ASSUME NEW kind, NEW s, NEW seq, Len(seq) \in Nat, DOMAIN seq = 1..Len(seq),
         NEW f, IsRun(kind, f, s, seq)
  PROVE  Fold(kind, s, seq) = f[Len(seq)]
<1> DEFINE n == Len(seq)
           iter == CHOOSE g : Iter(kind, s, seq, n, g)
<1>2. Fold(kind, s, seq) = iter[1..n]
  BY DEF Fold
<1>3. Iter(kind, s, seq, n, iter)
  BY IterExists
<1> HIDE DEF iter
<1> DEFINE T == {i \in 0..n : iter[1..i] # f[i]}
<1>4. ASSUME T # {} PROVE FALSE
  <2>1. PICK i \in T : \A k \in T : i <= k
    <3>1. T \subseteq Nat
      OBVIOUS
    <3> HIDE DEF T
    <3> QED BY <1>4, <3>1, SmallestIn
  <2>2. CASE i = 0
    <3>1. 1..0 \in SUBSET (1..n) /\ 1..0 = {}
      OBVIOUS
    <3>2. iter[1..0] = s
      BY <1>3, <3>1 DEF Iter
    <3> QED BY <2>1, <2>2, <3>2 DEF IsRun
  <2>3. CASE i # 0
    <3>1. i - 1 \in 0..n /\ i - 1 \notin T /\ i \in 1..n
      BY <2>1, <2>3
    <3>2. iter[1..(i - 1)] = f[i - 1]
      BY <3>1
    <3>3. /\ Max(1..i) = i
          /\ (1..i) \ {i} = 1..(i - 1) /\ 1..i \in SUBSET (1..n) /\ 1..i # {}
      <4> HIDE DEF n
      <4>1. n \in Nat
        BY DEF n
      <4> QED BY <3>1, <4>1, FirstNumbers
    <3>5. iter[1..i] = Draw(kind, iter[1..(i - 1)], seq[i])
      BY <1>3, <3>3 DEF Iter
    <3>6. f[i] = Draw(kind, f[i - 1], seq[i])
      BY <3>1 DEF IsRun
    <3> QED BY <2>1, <3>2, <3>5, <3>6
  <2> QED BY <2>2, <2>3
<1> QED BY <1>2, <1>4

LEMMA RunExists ==
  ASSUME NEW kind, NEW s, NEW seq, Len(seq) \in Nat
  PROVE  \E f : IsRun(kind, f, s, seq)
<1>1. PICK g : Iter(kind, s, seq, Len(seq), g)
  BY IterExists
<1> DEFINE f == [i \in 0..Len(seq) |-> g[1..i]]
<1>2. f[0] = s
  <2>1. 1..0 \in SUBSET (1..Len(seq)) /\ 1..0 = {}
    OBVIOUS
  <2> QED BY <1>1, <2>1 DEF Iter
<1>3. ASSUME NEW i \in 1..Len(seq) PROVE f[i] = Draw(kind, f[i - 1], seq[i])
  <2>1. /\ Max(1..i) = i
        /\ (1..i) \ {i} = 1..(i - 1) /\ 1..i \in SUBSET (1..Len(seq)) /\ 1..i # {}
    BY FirstNumbers
  <2>3. g[1..i] = Draw(kind, g[1..(i - 1)], seq[i])
    BY <1>1, <2>1 DEF Iter
  <2> QED BY <2>3
<1>4. IsRun(kind, f, s, seq)
  BY <1>2, <1>3 DEF IsRun
<1> QED BY <1>4

LEMMA FoldsAre ==
  ASSUME NEW s, NEW seq, Len(seq) \in Nat, DOMAIN seq = 1..Len(seq)
  PROVE  /\ FoldLeft(PutChar, s, seq) = Fold("char", s, seq)
         /\ FoldLeft(PrintPart, s, seq) = Fold("part", s, seq)
         /\ FoldLeft(Above, s, seq) = Fold("picture", s, seq)
<1>1. \A t, x : PutChar(t, x) = Draw("char", t, x)
  BY DEF Draw
<1>2. \A t, x : PrintPart(t, x) = Draw("part", t, x)
  BY DEF Draw
<1>4. \A t, x : Above(t, x) = Draw("picture", t, x)
  BY DEF Draw
<1>5. FoldLeft(PutChar, s, seq) = Fold("char", s, seq)
  BY <1>1, Zenon DEF FoldLeft, MapThenFoldSet, Fold, Iter
<1>6. FoldLeft(PrintPart, s, seq) = Fold("part", s, seq)
  BY <1>2, Zenon DEF FoldLeft, MapThenFoldSet, Fold, Iter
<1>8. FoldLeft(Above, s, seq) = Fold("picture", s, seq)
  BY <1>4, Zenon DEF FoldLeft, MapThenFoldSet, Fold, Iter
<1> QED BY <1>5, <1>6, <1>8

\* Induction along a fold: after i elements the state is in Q[i].
LEMMA FoldInvariant ==
  ASSUME NEW kind, NEW s, NEW seq, Len(seq) \in Nat, DOMAIN seq = 1..Len(seq),
         NEW Q, s \in Q[0],
         \A i \in 1..Len(seq) : \A t \in Q[i - 1] : Draw(kind, t, seq[i]) \in Q[i]
  PROVE  Fold(kind, s, seq) \in Q[Len(seq)]
<1> DEFINE n == Len(seq)
<1>1. PICK f : IsRun(kind, f, s, seq)
  BY RunExists
<1>2. Fold(kind, s, seq) = f[n]
  BY <1>1, FoldIsRun
<1> DEFINE T == {i \in 0..n : f[i] \notin Q[i]}
<1>3. ASSUME T # {} PROVE FALSE
  <2>1. PICK i \in T : \A k \in T : i <= k
    <3>1. T \subseteq Nat
      OBVIOUS
    <3> HIDE DEF T
    <3> QED BY <1>3, <3>1, SmallestIn
  <2>2. CASE i = 0
    BY <1>1, <2>1, <2>2 DEF IsRun
  <2>3. CASE i # 0
    <3>1. i - 1 \in 0..n /\ i - 1 \notin T /\ i \in 1..n
      BY <2>1, <2>3
    <3>2. f[i - 1] \in Q[i - 1]
      BY <3>1
    <3>3. f[i] = Draw(kind, f[i - 1], seq[i])
      BY <1>1, <3>1 DEF IsRun
    <3> QED BY <2>1, <3>1, <3>2, <3>3
  <2> QED BY <2>2, <2>3
<1> QED BY <1>2, <1>3

-----------------------------------------------------------------------------
(* Sequences.                                                              *)

LEMMA SameSequences ==
  ASSUME NEW S, NEW s \in Seq(S), NEW t \in Seq(S), Len(s) = Len(t),
         \A i \in 1..Len(s) : s[i] = t[i]
  PROVE  s = t
OBVIOUS

LEMMA ConcatAt ==
  ASSUME NEW S, NEW s \in Seq(S), NEW t \in Seq(S), NEW i \in 1..Len(s \o t)
  PROVE  \/ i \in 1..Len(s) /\ (s \o t)[i] = s[i]
         \/ i - Len(s) \in 1..Len(t) /\ (s \o t)[i] = t[i - Len(s)]
OBVIOUS

LEMMA LenConcat ==
  ASSUME NEW S, NEW s \in Seq(S), NEW t \in Seq(S)
  PROVE  s \o t \in Seq(S) /\ Len(s \o t) = Len(s) + Len(t)
OBVIOUS

LEMMA SeqGrows ==
  ASSUME NEW S, NEW T, S \subseteq T
  PROVE  \A s \in Seq(S) : s \in Seq(T)
<1> SUFFICES ASSUME NEW s \in Seq(S) PROVE s \in Seq(T)
  OBVIOUS
<1>1. Len(s) \in Nat /\ s \in [1..Len(s) -> T]
  OBVIOUS
<1> QED BY <1>1

LEMMA ConcatAssociative ==
  ASSUME NEW S, NEW s \in Seq(S), NEW t \in Seq(S), NEW u \in Seq(S)
  PROVE  s \o (t \o u) = (s \o t) \o u
OBVIOUS

LEMMA ConcatAppend ==
  ASSUME NEW S, NEW s \in Seq(S), NEW t \in Seq(S), NEW u \in Seq(S), NEW x \in S
  PROVE  s \o t \o Append(u, x) = Append(s \o t \o u, x)
OBVIOUS

LEMMA ConcatEntered ==
  ASSUME NEW S, NEW s \in Seq(S), NEW t \in Seq(S), NEW u \in Seq(S), NEW x \in S
  PROVE  /\ s \o (t \o Append(u, x)) = Append(s \o t \o u, x)
         /\ s \o (t \o Append(u, x)) \in Seq(S)
         /\ (t \o Append(u, x))[Len(t \o Append(u, x))] = x
<1> DEFINE v == Append(u, x)
<1>1. v \in Seq(S)
  OBVIOUS
<1>2. (s \o t) \o v = Append(s \o t \o u, x)
  BY ConcatAppend
<1>3. (t \o v)[Len(t \o v)] = x
  OBVIOUS
<1> HIDE DEF v
<1>4. s \o (t \o v) = (s \o t) \o v
  BY <1>1, ConcatAssociative
<1>5. s \o (t \o v) \in Seq(S)
  BY <1>1
<1> QED BY <1>2, <1>3, <1>4, <1>5 DEF v

LEMMA CutGrows ==
  ASSUME NEW S, NEW s \in Seq(S), NEW i \in 1..Len(s)
  PROVE  /\ SubSeq(s, 1, i - 1) \in Seq(S) /\ Len(SubSeq(s, 1, i - 1)) = i - 1
         /\ Append(SubSeq(s, 1, i - 1), s[i]) = SubSeq(s, 1, i)
<1>1. \A j \in 1..Len(s) : s[j] \in S
  OBVIOUS
<1> QED BY <1>1

LEMMA FrontIs ==
  ASSUME NEW S, NEW s \in Seq(S), s # <<>>
  PROVE  /\ Front(s) \in Seq(S) /\ Len(Front(s)) = Len(s) - 1
         /\ \A i \in 1..Len(Front(s)) : Front(s)[i] = s[i]
         /\ Append(Front(s), s[Len(s)]) = s
<1>1. Len(s) \in 1..Len(s)
  OBVIOUS
<1>2. Append(SubSeq(s, 1, Len(s) - 1), s[Len(s)]) = s
  <2>1. Append(SubSeq(s, 1, Len(s) - 1), s[Len(s)]) = SubSeq(s, 1, Len(s))
    BY <1>1, CutGrows
  <2>2. SubSeq(s, 1, Len(s)) = s
    OBVIOUS
  <2> QED BY <2>1, <2>2
<1>3. \A i \in 1..(Len(s) - 1) : SubSeq(s, 1, Len(s) - 1)[i] = s[i]
  OBVIOUS
<1>4. SubSeq(s, 1, Len(s) - 1) \in Seq(S) /\ Len(SubSeq(s, 1, Len(s) - 1)) = Len(s) - 1
  BY <1>1, CutGrows
<1> QED BY <1>2, <1>3, <1>4 DEF Front

LEMMA SliceIs ==
  ASSUME NEW S, NEW s \in Seq(S), NEW a \in Nat, a >= 1, NEW b \in Nat, b <= Len(s)
  PROVE  /\ SubSeq(s, a, b) \in Seq(S)
         /\ Len(SubSeq(s, a, b)) = IF a <= b THEN b - a + 1 ELSE 0
         /\ \A j \in 1..Len(SubSeq(s, a, b)) :
              SubSeq(s, a, b)[j] = s[a + j - 1] /\ a + j - 1 \in 1..Len(s)
<1>1. \A j \in 1..Len(s) : s[j] \in S
  OBVIOUS
<1>2. CASE a <= b
  <2>1. SubSeq(s, a, b) = [j \in 1..(b - a + 1) |-> s[a + j - 1]]
    BY <1>2
  <2>2. \A j \in 1..(b - a + 1) : a + j - 1 \in 1..Len(s)
    BY <1>2
  <2> DEFINE n == b - a + 1
             cut == SubSeq(s, a, b)
  <2>3. n \in Nat
    BY <1>2
  <2>4. cut = [j \in 1..n |-> s[a + j - 1]]
    BY <2>1
  <2>5. \A j \in 1..n : a + j - 1 \in 1..Len(s)
    BY <2>2
  <2> HIDE DEF n, cut
  <2>6. cut \in [1..n -> S]
    BY <1>1, <2>4, <2>5
  <2>7. cut \in Seq(S) /\ Len(cut) = n
    BY <2>3, <2>6
  <2>8. \A j \in 1..Len(cut) : cut[j] = s[a + j - 1] /\ a + j - 1 \in 1..Len(s)
    BY <2>4, <2>5, <2>7
  <2> QED BY <1>2, <2>7, <2>8 DEF cut, n
<1>3. CASE ~(a <= b)
  BY <1>3
<1> QED BY <1>2, <1>3

LEMMA ReverseIs ==
  ASSUME NEW S, NEW s \in Seq(S)
  PROVE  /\ Reverse(s) \in Seq(S) /\ Len(Reverse(s)) = Len(s)
         /\ \A i \in 1..Len(s) : Reverse(s)[i] = s[(Len(s) - i) + 1]
<1> DEFINE n == Len(s)
<1>1. n \in Nat /\ \A i \in 1..n : s[i] \in S
  OBVIOUS
<1>2. Reverse(s) = [i \in 1..n |-> s[(n - i) + 1]]
  BY DEF Reverse
<1>3. \A i \in 1..n : (n - i) + 1 \in 1..n
  BY <1>1
<1> HIDE DEF n
<1>4. Reverse(s) \in [1..n -> S]
  BY <1>1, <1>2, <1>3
<1>5. Reverse(s) \in Seq(S) /\ Len(Reverse(s)) = n
  BY <1>1, <1>4
<1> QED BY <1>2, <1>5 DEF n

LEMMA ConsIs ==
  ASSUME NEW S, NEW s \in Seq(S), NEW x \in S
  PROVE  /\ <<x>> \o s \in Seq(S) /\ Len(<<x>> \o s) = Len(s) + 1
         /\ (<<x>> \o s)[1] = x
         /\ \A j \in 1..Len(s) : (<<x>> \o s)[j + 1] = s[j]
OBVIOUS

LEMMA SuffixGrows ==
  ASSUME NEW S, NEW s \in Seq(S), NEW p \in Seq(S), NEW a \in 1..Len(s)
  PROVE  /\ SubSeq(s, a + 1, Len(s)) \o p \in Seq(S)
         /\ <<s[a]>> \o (SubSeq(s, a + 1, Len(s)) \o p) = SubSeq(s, a, Len(s)) \o p
<1> DEFINE n == Len(s)
           short == SubSeq(s, a + 1, n)
           long == SubSeq(s, a, n)
<1>1. n \in Nat /\ a \in Nat /\ a >= 1 /\ a <= n /\ s[a] \in S
  OBVIOUS
<1>2. /\ short \in Seq(S) /\ Len(short) = n - a
      /\ \A j \in 1..(n - a) : short[j] = s[a + j]
  <2>1. /\ Len(short) = IF a + 1 <= n THEN n - (a + 1) + 1 ELSE 0
        /\ short \in Seq(S)
        /\ \A j \in 1..Len(short) : short[j] = s[(a + 1) + j - 1]
    BY <1>1, SliceIs
  <2> HIDE DEF short, n
  <2> QED BY <1>1, <2>1
<1>3. /\ long \in Seq(S) /\ Len(long) = n - a + 1
      /\ \A j \in 1..(n - a + 1) : long[j] = s[a + j - 1]
  <2>1. /\ Len(long) = IF a <= n THEN n - a + 1 ELSE 0
        /\ long \in Seq(S)
        /\ \A j \in 1..Len(long) : long[j] = s[a + j - 1]
    BY <1>1, SliceIs
  <2> HIDE DEF long, n
  <2> QED BY <1>1, <2>1
<1> HIDE DEF short, long, n
<1> DEFINE x == s[a]
           more == <<x>> \o short
<1>4. more = long
  <2>2. x = s[a] /\ x \in S
    BY <1>1
  <2> HIDE DEF x
  <2>1. /\ more \in Seq(S) /\ Len(more) = n - a + 1 /\ more[1] = x
        /\ \A j \in 1..(n - a) : more[j + 1] = short[j]
    <3>1. /\ more \in Seq(S) /\ Len(more) = Len(short) + 1 /\ more[1] = x
          /\ \A j \in 1..Len(short) : more[j + 1] = short[j]
      BY <1>2, <2>2, ConsIs
    <3> HIDE DEF more
    <3> QED BY <1>1, <1>2, <3>1
  <2> HIDE DEF more
  <2>3. ASSUME NEW j \in 1..(n - a + 1) PROVE more[j] = long[j]
    <3>1. CASE j = 1
      BY <1>1, <1>3, <2>1, <2>2, <3>1
    <3>2. CASE j # 1
      <4>1. j - 1 \in 1..(n - a) /\ (j - 1) + 1 = j /\ a + (j - 1) = a + j - 1
        BY <1>1, <3>2
      <4>2. more[j] = short[j - 1]
        BY <2>1, <4>1
      <4> QED BY <1>2, <1>3, <4>1, <4>2
    <3> QED BY <3>1, <3>2
  <2> QED BY <1>3, <2>1, <2>3, SameSequences
<1>5. <<x>> \o (short \o p) = (<<x>> \o short) \o p
  <2>1. <<x>> \in Seq(S)
    BY <1>1
  <2> HIDE DEF x
  <2> QED BY <1>2, <2>1
<1>6. short \o p \in Seq(S)
  BY <1>2
<1> QED BY <1>4, <1>5, <1>6 DEF short, long, n

LEMMA WholeCut ==
  ASSUME NEW S, NEW s \in Seq(S), NEW p \in Seq(S)
  PROVE  /\ SubSeq(s, Len(s) - 0 + 1, Len(s)) \o p = p
         /\ SubSeq(s, Len(s) - Len(s) + 1, Len(s)) = s
<1>1. SubSeq(s, Len(s) - 0 + 1, Len(s)) = <<>>
  OBVIOUS
<1>2. Len(s) - Len(s) + 1 = 1
  OBVIOUS
<1>3. SubSeq(s, 1, Len(s)) = s
  OBVIOUS
<1>4. <<>> \o p = p
  OBVIOUS
<1> QED BY <1>1, <1>2, <1>3, <1>4

LEMMA RemoveAtIs ==
  ASSUME NEW S, NEW s \in Seq(S), NEW k \in 1..Len(s)
  PROVE  /\ RemoveAt(s, k) \in Seq(S) /\ Len(RemoveAt(s, k)) = Len(s) - 1
         /\ \A i \in k..(Len(s) - 1) : RemoveAt(s, k)[i] = s[i + 1]
<1> DEFINE n == Len(s)
           low == SubSeq(s, 1, k - 1)
           high == SubSeq(s, k + 1, n)
<1>1. n \in Nat /\ k \in Nat /\ k >= 1 /\ k <= n
  OBVIOUS
<1>2. low \in Seq(S) /\ Len(low) = k - 1
  BY CutGrows
<1>3. /\ high \in Seq(S) /\ Len(high) = n - k
      /\ \A j \in 1..(n - k) : high[j] = s[k + j]
  <2>1. /\ Len(high) = IF k + 1 <= n THEN n - (k + 1) + 1 ELSE 0
        /\ high \in Seq(S)
        /\ \A j \in 1..Len(high) : high[j] = s[(k + 1) + j - 1]
    BY <1>1, SliceIs
  <2> HIDE DEF high, n
  <2> QED BY <1>1, <2>1
<1>4. RemoveAt(s, k) = low \o high
  BY DEF RemoveAt
<1> HIDE DEF low, high, n
<1>5. low \o high \in Seq(S) /\ Len(low \o high) = n - 1
  BY <1>1, <1>2, <1>3
<1>6. ASSUME NEW i \in k..(n - 1) PROVE (low \o high)[i] = s[i + 1]
  <2>1. i \in Nat /\ i - (k - 1) \in 1..(n - k) /\ k + (i - (k - 1)) = i + 1
    BY <1>1
  <2>2. (low \o high)[i] = high[i - (k - 1)]
    BY <1>1, <1>2, <1>3, <2>1
  <2> QED BY <1>3, <2>1, <2>2
<1> QED BY <1>4, <1>5, <1>6 DEF n

-----------------------------------------------------------------------------
(* The terminal.                                                           *)

LEMMA Characters ==
  /\ SP \in Character /\ NL \in Character /\ SP # NL
  /\ \A key \in Key : key \in Character /\ key # NL
<1>1. SP # NL
  BY DEF SP, NL
<1> QED BY <1>1, ConsoleAssumption

Row == {row \in Seq(Character) : Len(row) <= Cols}

Screens == [rows : [1..Rows -> Row], row : 1..Rows, col : 0..Cols]

LEMMA Sizes ==
  /\ Rows \in Nat /\ Rows > 2 /\ Cols \in Nat /\ Cols > 0
  /\ MESSAGE_LIMIT \in Nat /\ MESSAGE_LIMIT > 0
BY ConsoleAssumption

LEMMA RowType ==
  ASSUME NEW row \in Row
  PROVE  row \in Seq(Character) /\ Len(row) \in 0..Cols /\ DOMAIN row = 1..Len(row)
BY Sizes DEF Row

LEMMA EmptyRow == <<>> \in Row /\ Len(<<>>) = 0
BY Sizes DEF Row

LEMMA WrittenType ==
  ASSUME NEW row \in Row, NEW c \in 1..Cols, NEW char \in Character
  PROVE  /\ Written(row, c, char) \in Row
         /\ c = Len(row) + 1 => Written(row, c, char) = Append(row, char)
<1> DEFINE n == IF c > Len(row) THEN c ELSE Len(row)
           new == [i \in 1..n |-> IF i = c THEN char ELSE Char(row, i)]
<1>1. Len(row) \in Nat /\ Len(row) <= Cols /\ row \in Seq(Character) /\ Cols \in Nat
  BY RowType, Sizes
<1>2. n \in Nat /\ n <= Cols
  BY <1>1
<1>3. ASSUME NEW i \in 1..n PROVE Char(row, i) \in Character
  <2>1. i \in Nat /\ i >= 1
    OBVIOUS
  <2>2. i <= Len(row) => row[i] \in Character
    BY <1>1, <2>1
  <2> QED BY <2>2, Characters DEF Char
<1>4. new \in Seq(Character) /\ Len(new) = n
  <2>1. new \in [1..n -> Character]
    BY <1>3
  <2> HIDE DEF n, new
  <2> QED BY <1>2, <2>1
<1>5. ASSUME c = Len(row) + 1 PROVE new = Append(row, char)
  <2>1. n = Len(row) + 1
    BY <1>1, <1>5
  <2> DEFINE more == Append(row, char)
  <2>2. more \in Seq(Character) /\ Len(more) = n /\ \A i \in 1..Len(row) : more[i] = row[i]
    BY <1>1, <2>1
  <2>3. more[c] = char
    BY <1>1, <1>5
  <2> HIDE DEF more
  <2>4. ASSUME NEW i \in 1..n PROVE new[i] = more[i]
    <3>1. i # c => i \in 1..Len(row)
      BY <1>1, <1>5, <2>1
    <3> QED BY <2>2, <2>3, <3>1 DEF Char
  <2> HIDE DEF new, n
  <2>5. new \in [1..n -> Character] /\ more \in [1..n -> Character]
    BY <1>2, <1>4, <2>2
  <2>6. new = more
    <3>1. new = [i \in 1..n |-> new[i]] /\ more = [i \in 1..n |-> more[i]]
      BY <2>5
    <3>2. [i \in 1..n |-> new[i]] = [i \in 1..n |-> more[i]]
      BY <2>4
    <3> QED BY <3>1, <3>2
  <2> QED BY <2>6 DEF more
<1>6. Written(row, c, char) = new
  BY DEF Written
<1> HIDE DEF new, n
<1> QED BY <1>2, <1>4, <1>5, <1>6 DEF Row

LEMMA NewLineIs ==
  ASSUME NEW t \in Screens
  PROVE  /\ NewLine(t) \in Screens /\ NewLine(t).col = 0
         /\ t.row < Rows => NewLine(t).row = t.row + 1 /\ NewLine(t).rows = t.rows
         /\ t.row = Rows => /\ NewLine(t).row = Rows /\ NewLine(t).rows[Rows] = <<>>
                            /\ \A i \in 1..(Rows - 1) : NewLine(t).rows[i] = t.rows[i + 1]
<1>1. t.rows \in [1..Rows -> Row] /\ t.row \in 1..Rows /\ t.col \in 0..Cols
  BY DEF Screens
<1>2. CASE t.row < Rows
  <2>1. NewLine(t) = [rows |-> t.rows, row |-> t.row + 1, col |-> 0]
    BY <1>2 DEF NewLine, Screens
  <2> QED BY <1>1, <1>2, <2>1, Sizes DEF Screens
<1>3. CASE ~(t.row < Rows)
  <2> DEFINE new == Append(Tail(t.rows), <<>>)
  <2>1. NewLine(t) = [rows |-> new, row |-> t.row, col |-> 0]
    BY <1>3 DEF NewLine, Screens
  <2>2. t.rows \in Seq(Row) /\ Len(t.rows) = Rows
    BY <1>1, Sizes
  <2>3. /\ new \in Seq(Row) /\ Len(new) = Rows /\ new[Rows] = <<>>
        /\ \A i \in 1..(Rows - 1) : new[i] = t.rows[i + 1]
    BY <2>2, Sizes, EmptyRow
  <2> HIDE DEF new
  <2>4. new \in [1..Rows -> Row]
    BY <2>3
  <2> QED BY <1>1, <1>3, <2>1, <2>3, <2>4, Sizes DEF Screens
<1> QED BY <1>2, <1>3

LEMMA PutCharIs ==
  ASSUME NEW t \in Screens, NEW char \in Character
  PROVE  /\ PutChar(t, char) \in Screens /\ PutChar(t, char).row >= t.row
         /\ char # NL /\ t.col < Cols =>
              PutChar(t, char) =
                [rows |-> [t.rows EXCEPT ![t.row] = Written(@, t.col + 1, char)],
                 row |-> t.row, col |-> t.col + 1]
<1>1. t.rows \in [1..Rows -> Row] /\ t.row \in 1..Rows /\ t.col \in 0..Cols
  BY DEF Screens
<1>2. CASE char = NL
  BY <1>1, <1>2, NewLineIs, Sizes DEF PutChar
<1>3. CASE char # NL
  <2> DEFINE at == IF t.col = Cols THEN NewLine(t) ELSE t
  <2>1. at \in Screens /\ at.col < Cols /\ at.row >= t.row
    BY <1>1, NewLineIs, Sizes
  <2>2. t.col < Cols => at = t
    BY <1>1, Sizes
  <2>3. PutChar(t, char) = [at EXCEPT !.rows[at.row] = Written(@, at.col + 1, char), !.col = @ + 1]
    BY <1>3 DEF PutChar
  <2> HIDE DEF at
  <2>4. at.rows \in [1..Rows -> Row] /\ at.row \in 1..Rows /\ at.col \in 0..Cols
    BY <2>1 DEF Screens
  <2>5. PutChar(t, char) = [rows |-> [at.rows EXCEPT ![at.row] = Written(@, at.col + 1, char)],
                            row |-> at.row, col |-> at.col + 1]
    BY <2>1, <2>3 DEF Screens
  <2>6. Written(at.rows[at.row], at.col + 1, char) \in Row
    <3>1. at.col + 1 \in 1..Cols /\ at.rows[at.row] \in Row
      BY <2>1, <2>4, Sizes
    <3> QED BY <3>1, WrittenType
  <2>7. PutChar(t, char) \in Screens
    BY <2>1, <2>4, <2>5, <2>6, Sizes DEF Screens
  <2> QED BY <2>1, <2>2, <2>5, <2>7
<1> QED BY <1>2, <1>3

LEMMA PutIs ==
  ASSUME NEW t \in Screens, NEW text \in Seq(Character)
  PROVE  Put(t, text) \in Screens /\ Put(t, text).row >= t.row
<1> DEFINE n == Len(text)
           Q == [i \in 0..n |-> {u \in Screens : u.row >= t.row}]
<1>1. n \in Nat /\ DOMAIN text = 1..n /\ \A i \in 1..n : text[i] \in Character
  OBVIOUS
<1>2. Put(t, text) = Fold("char", t, text)
  BY <1>1, FoldsAre DEF Put
<1>3. ASSUME NEW i \in 1..n, NEW u \in Q[i - 1]
      PROVE  Draw("char", u, text[i]) \in Q[i]
  <2>1. i - 1 \in 0..n /\ i \in 0..n
    BY <1>1
  <2>2. u \in Screens /\ u.row >= t.row /\ u.row \in Nat /\ t.row \in Nat
    BY <2>1 DEF Screens
  <2>3. PutChar(u, text[i]) \in Screens /\ PutChar(u, text[i]).row >= u.row
    BY <1>1, <2>2, PutCharIs
  <2>4. PutChar(u, text[i]).row \in Nat
    BY <2>3 DEF Screens
  <2>5. PutChar(u, text[i]).row >= t.row
    BY <2>2, <2>3, <2>4
  <2>6. Draw("char", u, text[i]) = PutChar(u, text[i])
    BY DEF Draw
  <2> QED BY <2>1, <2>3, <2>5, <2>6
<1>4. t \in Q[0]
  <2>1. 0 \in 0..n /\ t.row >= t.row
    BY <1>1 DEF Screens
  <2> QED BY <2>1
<1> HIDE DEF Q
<1>5. Fold("char", t, text) \in Q[n]
  BY <1>1, <1>3, <1>4, FoldInvariant
<1> QED BY <1>1, <1>2, <1>5 DEF Q

OneLine(text) == \A i \in 1..Len(text) : text[i] # NL

\* A part that fits, in an empty row.
LEMMA PutPart ==
  ASSUME NEW t \in Screens, NEW part \in Row, OneLine(part), t.col = 0, t.rows[t.row] = <<>>
  PROVE  Put(t, part) = [rows |-> [t.rows EXCEPT ![t.row] = part], row |-> t.row, col |-> Len(part)]
<1> DEFINE n == Len(part)
           At(i) == [rows |-> [t.rows EXCEPT ![t.row] = SubSeq(part, 1, i)], row |-> t.row, col |-> i]
           Q == [i \in 0..n |-> {At(i)}]
<1>1. /\ part \in Seq(Character) /\ n \in Nat /\ n <= Cols /\ DOMAIN part = 1..n
      /\ t.rows \in [1..Rows -> Row] /\ t.row \in 1..Rows /\ Cols \in Nat
  BY RowType, Sizes DEF Screens
<1>2. Put(t, part) = Fold("char", t, part)
  BY <1>1, FoldsAre DEF Put
<1>3. ASSUME NEW i \in 1..n
      PROVE  PutChar(At(i - 1), part[i]) = At(i)
  <2> DEFINE before == SubSeq(part, 1, i - 1)
             after == SubSeq(part, 1, i)
  <2>1. /\ before \in Seq(Character) /\ Len(before) = i - 1
        /\ Append(before, part[i]) = after
    <3>1. i \in Nat /\ i <= Len(part) /\ i >= 1
      BY <1>1
    <3> QED BY <1>1, <3>1, CutGrows
  <2>2. part[i] \in Character /\ part[i] # NL
    BY <1>1 DEF OneLine
  <2> HIDE DEF before, after
  <2>3. before \in Row
    BY <1>1, <2>1 DEF Row
  <2> DEFINE u == [rows |-> [t.rows EXCEPT ![t.row] = before], row |-> t.row, col |-> i - 1]
  <2>4. u \in Screens /\ u.col < Cols /\ u.row = t.row /\ u.rows[u.row] = before /\ u.col + 1 = i
    <3>1. [t.rows EXCEPT ![t.row] = before] \in [1..Rows -> Row]
      BY <1>1, <2>3
    <3>2. i - 1 \in 0..Cols /\ i - 1 < Cols /\ (i - 1) + 1 = i
      BY <1>1
    <3>3. u.row = t.row /\ u.rows[u.row] = before /\ u.col = i - 1
      BY <1>1
    <3> QED BY <1>1, <3>1, <3>2, <3>3 DEF Screens
  <2>5. PutChar(u, part[i]) = [rows |-> [u.rows EXCEPT ![u.row] = Written(@, u.col + 1, part[i])],
                               row |-> u.row, col |-> u.col + 1]
    <3> HIDE DEF u
    <3> QED BY <2>2, <2>4, PutCharIs
  <2>6. Written(before, i, part[i]) = after
    <3>1. i \in 1..Cols /\ i = Len(before) + 1
      BY <1>1, <2>1
    <3> QED BY <2>1, <2>2, <2>3, <3>1, WrittenType
  <2>7. [u.rows EXCEPT ![u.row] = Written(@, u.col + 1, part[i])] = [t.rows EXCEPT ![t.row] = after]
    BY <1>1, <2>6
  <2>8. PutChar(u, part[i]) = [rows |-> [t.rows EXCEPT ![t.row] = after], row |-> t.row, col |-> i]
    <3> HIDE DEF u
    <3> QED BY <2>4, <2>5, <2>7
  <2> QED BY <2>8 DEF before, after
<1>4. t \in Q[0]
  <2>1. SubSeq(part, 1, 0) = <<>>
    BY <1>1
  <2>2. [t.rows EXCEPT ![t.row] = <<>>] = t.rows
    BY <1>1
  <2>3. t = At(0)
    BY <2>1, <2>2 DEF Screens
  <2>4. 0 \in 0..n
    BY <1>1
  <2> HIDE DEF At
  <2> QED BY <2>3, <2>4
<1>5. ASSUME NEW i \in 1..n, NEW u \in Q[i - 1]
      PROVE  Draw("char", u, part[i]) \in Q[i]
  <2>1. i - 1 \in 0..n /\ i \in 0..n
    BY <1>1
  <2> HIDE DEF At
  <2>2. u = At(i - 1)
    BY <2>1
  <2>3. Draw("char", u, part[i]) = PutChar(u, part[i])
    BY DEF Draw
  <2> QED BY <1>3, <2>1, <2>2, <2>3
<1> HIDE DEF Q
<1>6. Fold("char", t, part) \in Q[n]
  BY <1>1, <1>4, <1>5, FoldInvariant
<1>7. Put(t, part) = At(n)
  BY <1>1, <1>2, <1>6 DEF Q
<1>8. SubSeq(part, 1, n) = part
  BY <1>1
<1> QED BY <1>7, <1>8

-----------------------------------------------------------------------------
(* What StdOutputWriter prints.                                            *)

Up(row) == IF row > 1 THEN row - 1 ELSE 1

LEMMA UpIsARow == ASSUME NEW row \in 1..Rows PROVE Up(row) \in 1..Rows
BY Sizes DEF Up

LEMMA PrintPartIs ==
  ASSUME NEW t \in Screens, NEW part \in Row
  PROVE  /\ PrintPart(t, part) \in Screens
         /\ OneLine(part) =>
              PrintPart(t, part) = [rows |-> [t.rows EXCEPT ![Up(t.row)] = part],
                                    row |-> Up(t.row), col |-> Len(part)]
<1>1. t.rows \in [1..Rows -> Row] /\ t.row \in 1..Rows /\ Up(t.row) \in 1..Rows
  BY UpIsARow DEF Screens
<1> DEFINE u == [rows |-> [t.rows EXCEPT ![Up(t.row)] = <<>>], row |-> Up(t.row), col |-> 0]
<1>2. EraseLine(CursorUp(t)) = u
  <2>1. CursorUp(t) = [rows |-> t.rows, row |-> Up(t.row), col |-> 0]
    <3>1. CursorUp(t) = [t EXCEPT !.row = Up(t.row), !.col = 0]
      BY DEF CursorUp, Up
    <3>2. t = [rows |-> t.rows, row |-> t.row, col |-> t.col]
      BY DEF Screens
    <3> QED BY <3>1, <3>2
  <2> QED BY <2>1 DEF EraseLine
<1>3. u \in Screens
  <2>1. [t.rows EXCEPT ![Up(t.row)] = <<>>] \in [1..Rows -> Row]
    BY <1>1, EmptyRow
  <2> QED BY <1>1, <2>1, Sizes DEF Screens
<1>4. u.rows = [t.rows EXCEPT ![Up(t.row)] = <<>>] /\ u.row = Up(t.row) /\ u.col = 0
      /\ u.rows[u.row] = <<>>
  BY <1>1
<1> HIDE DEF u
<1>5. PrintPart(t, part) = Put(u, part)
  BY <1>2 DEF PrintPart
<1>6. part \in Seq(Character)
  BY RowType
<1>7. ASSUME OneLine(part)
      PROVE  Put(u, part) = [rows |-> [t.rows EXCEPT ![Up(t.row)] = part],
                             row |-> Up(t.row), col |-> Len(part)]
  <2>1. Put(u, part) = [rows |-> [u.rows EXCEPT ![u.row] = part], row |-> u.row, col |-> Len(part)]
    BY <1>3, <1>4, <1>7, PutPart
  <2>2. [u.rows EXCEPT ![u.row] = part] = [t.rows EXCEPT ![Up(t.row)] = part]
    BY <1>1, <1>4
  <2> QED BY <1>4, <2>1, <2>2
<1> QED BY <1>3, <1>5, <1>6, <1>7, PutIs

LEMMA ChunksAre ==
  ASSUME NEW text \in Seq(Character)
  PROVE  /\ Chunks(text) \in Seq(Row)
         /\ OneLine(text) => \A i \in 1..Len(Chunks(text)) : OneLine(Chunks(text)[i])
<1>1. Cols \in Nat /\ Cols > 0 /\ Len(text) \in Nat
  BY Sizes
<1>2. CASE text = <<>>
  <2>1. <<SP>> \in Row /\ OneLine(<<SP>>)
    BY Characters, <1>1 DEF Row, OneLine
  <2>2. Chunks(text) = <<<<SP>>>>
    BY <1>2 DEF Chunks
  <2> QED BY <2>1, <2>2
<1>3. CASE text # <<>>
  <2> DEFINE n == (Len(text) + Cols - 1) \div Cols
             from(i) == (i - 1) * Cols + 1
             to(i) == IF i * Cols < Len(text) THEN i * Cols ELSE Len(text)
             cut == [i \in 1..n |-> SubSeq(text, from(i), to(i))]
  <2>1. Chunks(text) = cut
    BY <1>3 DEF Chunks
  <2>2. n \in Nat
    <3>1. Len(text) + Cols - 1 \in Nat
      BY <1>1
    <3> QED BY <1>1, <3>1
  <2>3. ASSUME NEW i \in 1..n
        PROVE  /\ from(i) \in Nat /\ from(i) >= 1 /\ to(i) \in Nat /\ to(i) <= Len(text)
               /\ to(i) - from(i) + 1 <= Cols
    <3>1. i - 1 \in Nat /\ i \in Nat
      BY <2>2
    <3>2. (i - 1) * Cols \in Nat /\ i * Cols = (i - 1) * Cols + Cols
      BY <1>1, <3>1
    <3> DEFINE a == (i - 1) * Cols
    <3>3. a \in Nat /\ i * Cols = a + Cols
      BY <3>2
    <3> HIDE DEF a
    <3>4. from(i) = a + 1 /\ to(i) = IF a + Cols < Len(text) THEN a + Cols ELSE Len(text)
      BY <3>3 DEF a
    <3> HIDE DEF from, to
    <3> QED BY <1>1, <3>3, <3>4
  <2>4. ASSUME NEW i \in 1..n PROVE cut[i] \in Row /\ (OneLine(text) => OneLine(cut[i]))
    <3> DEFINE a == from(i)
               b == to(i)
    <3>1. a \in Nat /\ a >= 1 /\ b \in Nat /\ b <= Len(text) /\ b - a + 1 <= Cols
      BY <2>3
    <3>2. cut[i] = SubSeq(text, a, b)
      OBVIOUS
    <3> HIDE DEF a, b, cut
    <3>3. /\ SubSeq(text, a, b) \in Seq(Character)
          /\ Len(SubSeq(text, a, b)) <= Cols
          /\ \A j \in 1..Len(SubSeq(text, a, b)) :
               /\ SubSeq(text, a, b)[j] = text[a + j - 1]
               /\ a + j - 1 \in 1..Len(text)
      BY <1>1, <3>1, SliceIs
    <3> QED BY <3>2, <3>3 DEF Row, OneLine
  <2>5. cut \in [1..n -> Row]
    BY <2>4
  <2>6. cut \in Seq(Row) /\ Len(cut) = n
    <3> HIDE DEF cut, n
    <3> QED BY <2>2, <2>5
  <2> HIDE DEF cut, n
  <2> QED BY <2>1, <2>4, <2>6
<1> QED BY <1>2, <1>3

LEMMA PrintTextType ==
  ASSUME NEW t \in Screens, NEW text \in Seq(Character)
  PROVE  PrintText(t, text) \in Screens
<1> DEFINE parts == Reverse(Chunks(text))
<1>1. parts \in Seq(Row)
  BY ChunksAre, ReverseIs
<1> HIDE DEF parts
<1> DEFINE n == Len(parts)
           Q == [i \in 0..n |-> Screens]
<1>2. n \in Nat /\ DOMAIN parts = 1..n /\ \A i \in 1..n : parts[i] \in Row
  BY <1>1
<1>3. PrintText(t, text) = Fold("part", t, parts)
  BY <1>2, FoldsAre DEF PrintText, parts
<1>4. ASSUME NEW i \in 1..n, NEW u \in Q[i - 1]
      PROVE  Draw("part", u, parts[i]) \in Q[i]
  <2>1. Q[i] = Screens /\ Q[i - 1] = Screens
    BY <1>2
  <2>2. PrintPart(u, parts[i]) \in Screens
    BY <1>2, <2>1, PrintPartIs
  <2> QED BY <2>1, <2>2 DEF Draw
<1>5. t \in Q[0]
  BY <1>2
<1> HIDE DEF Q
<1>6. Fold("part", t, parts) \in Q[n]
  BY <1>2, <1>4, <1>5, FoldInvariant
<1> QED BY <1>2, <1>3, <1>6 DEF Q

\* The screen t after a picture was drawn on the screen s, above its cursor.
Drawn(s, t, picture) ==
  /\ t \in Screens
  /\ t.row = IF Len(picture) < s.row THEN s.row - Len(picture) ELSE 1
  /\ s.row > 1 => \A i \in s.row..Rows : t.rows[i] = s.rows[i]
  /\ \A i \in 1..(s.row - 1) :
       LET j == Len(picture) - (s.row - 1) + i
       IN j > 0 /\ (i = 1 => j = 1) => t.rows[i] = picture[j]

LEMMA DrawPart ==
  ASSUME NEW s \in Screens, NEW t, NEW picture \in Seq(Row), Drawn(s, t, picture),
         NEW part \in Row, OneLine(part)
  PROVE  Drawn(s, PrintPart(t, part), <<part>> \o picture)
<1> DEFINE u == PrintPart(t, part)
           more == <<part>> \o picture
           n == Len(picture)
           r == s.row
<1>1. /\ t \in Screens /\ t.rows \in [1..Rows -> Row] /\ t.row \in 1..Rows
      /\ r \in 1..Rows /\ Rows \in Nat /\ n \in Nat
      /\ Up(t.row) \in 1..Rows
  <2>1. t \in Screens
    BY DEF Drawn
  <2>2. t.rows \in [1..Rows -> Row] /\ t.row \in 1..Rows /\ r \in 1..Rows
    BY <2>1 DEF Screens
  <2>3. Up(t.row) \in 1..Rows
    BY <2>2, UpIsARow
  <2> QED BY <2>1, <2>2, <2>3, Sizes
<1>2. /\ u \in Screens
      /\ u.rows = [t.rows EXCEPT ![Up(t.row)] = part] /\ u.row = Up(t.row)
  <2>1. u = [rows |-> [t.rows EXCEPT ![Up(t.row)] = part], row |-> Up(t.row), col |-> Len(part)]
    BY <1>1, PrintPartIs
  <2>2. u \in Screens
    BY <1>1, PrintPartIs
  <2> HIDE DEF u
  <2> QED BY <2>1, <2>2
<1>3. /\ Len(more) = n + 1 /\ more[1] = part
      /\ \A j \in 1..n : more[j + 1] = picture[j]
  BY ConsIs
<1>4. t.row = IF n < r THEN r - n ELSE 1
  BY DEF Drawn
<1> HIDE DEF u, more, n
<1>5. u.row = IF n + 1 < r THEN r - (n + 1) ELSE 1
  BY <1>1, <1>2, <1>4 DEF Up
<1>6. ASSUME r > 1, NEW i \in r..Rows PROVE u.rows[i] = s.rows[i]
  <2>1. Up(t.row) # i /\ i \in 1..Rows
    BY <1>1, <1>4, <1>6 DEF Up
  <2>2. t.rows[i] = s.rows[i]
    BY <1>6 DEF Drawn
  <2> QED BY <1>1, <1>2, <2>1, <2>2
<1>7. ASSUME NEW i \in 1..(r - 1), (n + 1) - (r - 1) + i > 0,
             i = 1 => (n + 1) - (r - 1) + i = 1
      PROVE  u.rows[i] = more[(n + 1) - (r - 1) + i]
  <2> DEFINE j == n - (r - 1) + i
  <2>1. (n + 1) - (r - 1) + i = j + 1 /\ j \in Int /\ j >= 0 /\ i \in 1..Rows /\ j <= n
    <3>1. i \in Nat /\ i >= 1 /\ i <= r - 1 /\ r \in Nat /\ r <= Rows
      BY <1>1
    <3> HIDE DEF r
    <3> QED BY <1>1, <1>7, <3>1
  <2>2. CASE j = 0
    <3>1. i = r - (n + 1) /\ n + 1 < r
      BY <1>1, <2>2
    <3>2. u.row = i
      BY <1>5, <3>1
    <3>3. u.rows[i] = part
      BY <1>1, <1>2, <2>1, <3>2
    <3> QED BY <1>3, <2>1, <2>2, <3>3
  <2>3. CASE j # 0
    <3>1. j > 0 /\ j \in 1..n /\ i # 1
      <4>1. n \in Nat
        BY <1>1
      <4> HIDE DEF j, r
      <4>2. i # 1
        BY <1>7, <2>1, <2>3
      <4> QED BY <2>1, <2>3, <4>1, <4>2
    <3>2. t.rows[i] = picture[j]
      BY <3>1 DEF Drawn, n
    <3>3. Up(t.row) # i
      BY <1>1, <1>2, <1>5, <3>1
    <3>4. u.rows[i] = t.rows[i]
      BY <1>1, <1>2, <2>1, <3>3
    <3> HIDE DEF j
    <3> QED BY <1>3, <2>1, <3>1, <3>2, <3>4
  <2> QED BY <2>2, <2>3
<1> QED BY <1>2, <1>3, <1>5, <1>6, <1>7 DEF Drawn, u, more, n

LEMMA DrawText ==
  ASSUME NEW s \in Screens, NEW t, NEW picture \in Seq(Row), Drawn(s, t, picture),
         NEW text \in Seq(Character), OneLine(text)
  PROVE  Drawn(s, PrintText(t, text), Above(picture, text)) /\ Above(picture, text) \in Seq(Row)
<1> DEFINE chunks == Chunks(text)
           parts == Reverse(chunks)
           n == Len(chunks)
           P(m) == SubSeq(chunks, n - m + 1, n) \o picture
           Q == [m \in 0..n |-> {u \in Screens : Drawn(s, u, P(m))}]
<1>1. /\ chunks \in Seq(Row) /\ n \in Nat
      /\ \A i \in 1..n : chunks[i] \in Row /\ OneLine(chunks[i])
  BY ChunksAre
<1>2. PrintText(t, text) = FoldLeft(PrintPart, t, parts) /\ Above(picture, text) = chunks \o picture
  BY DEF PrintText, Above
<1> HIDE DEF chunks
<1>3. /\ parts \in Seq(Row) /\ Len(parts) = n /\ DOMAIN parts = 1..n
      /\ \A i \in 1..n : parts[i] = chunks[n - i + 1]
  BY <1>1, ReverseIs
<1> HIDE DEF parts
<1>4. FoldLeft(PrintPart, t, parts) = Fold("part", t, parts)
  BY <1>1, <1>3, FoldsAre
<1>5. ASSUME NEW m \in 1..n
      PROVE  P(m - 1) \in Seq(Row) /\ <<parts[m]>> \o P(m - 1) = P(m)
  <2> DEFINE a == n - m + 1
  <2>1. a \in 1..n /\ n - (m - 1) + 1 = a + 1 /\ parts[m] = chunks[a]
    BY <1>1, <1>3
  <2> HIDE DEF a, n
  <2>2. /\ SubSeq(chunks, a + 1, n) \o picture \in Seq(Row)
        /\ <<chunks[a]>> \o (SubSeq(chunks, a + 1, n) \o picture) = SubSeq(chunks, a, n) \o picture
    BY <1>1, <2>1, SuffixGrows DEF n
  <2> QED BY <2>1, <2>2 DEF a
<1>6. ASSUME NEW m \in 1..n, NEW u \in Q[m - 1]
      PROVE  Draw("part", u, parts[m]) \in Q[m]
  <2>1. m - 1 \in 0..n /\ m \in 0..n
    BY <1>1
  <2>2. P(m - 1) \in Seq(Row) /\ <<parts[m]>> \o P(m - 1) = P(m)
    BY <1>5
  <2>3. parts[m] \in Row /\ OneLine(parts[m])
    <3>1. n - m + 1 \in 1..n
      BY <1>1
    <3> QED BY <1>1, <1>3, <3>1
  <2> HIDE DEF P, n
  <2>4. u \in Screens /\ Drawn(s, u, P(m - 1))
    BY <2>1
  <2>5. Drawn(s, PrintPart(u, parts[m]), P(m))
    BY <2>2, <2>3, <2>4, DrawPart
  <2>6. PrintPart(u, parts[m]) \in Screens
    BY <2>5 DEF Drawn
  <2> QED BY <2>1, <2>5, <2>6 DEF Draw
<1>7. P(0) = picture /\ P(n) = chunks \o picture
  BY <1>1, WholeCut
<1>8. t \in Q[0]
  <2>1. 0 \in 0..n
    BY <1>1
  <2> HIDE DEF P
  <2> QED BY <1>7, <2>1 DEF Drawn
<1> HIDE DEF Q
<1>9. Fold("part", t, parts) \in Q[n]
  BY <1>1, <1>3, <1>6, <1>8, FoldInvariant
<1>10. Drawn(s, Fold("part", t, parts), P(n))
  BY <1>1, <1>9 DEF Q
<1>11. chunks \o picture \in Seq(Row)
  BY <1>1
<1> HIDE DEF P
<1> QED BY <1>2, <1>4, <1>7, <1>10, <1>11

\* A text is printed above the row that it is in or below.
LEMMA PrintTextAbove ==
  ASSUME NEW t \in Screens, NEW text \in Seq(Character), OneLine(text),
         NEW r \in 2..Rows, t.row <= r
  PROVE  /\ PrintText(t, text).row <= r
         /\ \A i \in r..Rows : PrintText(t, text).rows[i] = t.rows[i]
<1> DEFINE parts == Reverse(Chunks(text))
<1>1. /\ parts \in Seq(Row)
      /\ \A i \in 1..Len(parts) : OneLine(parts[i])
  <2> DEFINE chunks == Chunks(text)
  <2>1. chunks \in Seq(Row) /\ \A i \in 1..Len(chunks) : OneLine(chunks[i])
    BY ChunksAre
  <2> HIDE DEF chunks
  <2>2. /\ Reverse(chunks) \in Seq(Row) /\ Len(Reverse(chunks)) = Len(chunks)
        /\ \A i \in 1..Len(chunks) : Reverse(chunks)[i] = chunks[Len(chunks) - i + 1]
    BY <2>1, ReverseIs
  <2>3. \A i \in 1..Len(chunks) : Len(chunks) - i + 1 \in 1..Len(chunks)
    BY <2>1
  <2> QED BY <2>1, <2>2, <2>3 DEF chunks
<1> HIDE DEF parts
<1> DEFINE n == Len(parts)
           Kept == {u \in Screens : u.row <= r /\ \A i \in r..Rows : u.rows[i] = t.rows[i]}
           Q == [i \in 0..n |-> Kept]
<1>2. n \in Nat /\ DOMAIN parts = 1..n /\ \A i \in 1..n : parts[i] \in Row
  BY <1>1
<1>3. PrintText(t, text) = Fold("part", t, parts)
  BY <1>2, FoldsAre DEF PrintText, parts
<1>4. ASSUME NEW u \in Kept, NEW part \in Row, OneLine(part)
      PROVE  PrintPart(u, part) \in Kept
  <2>1. /\ u \in Screens /\ u.row <= r /\ u.row \in 1..Rows /\ u.rows \in [1..Rows -> Row]
        /\ r \in Nat /\ r > 1 /\ Rows \in Nat
    BY Sizes DEF Screens
  <2>2. Up(u.row) \in 1..Rows /\ Up(u.row) < r
    BY <2>1, UpIsARow DEF Up
  <2> DEFINE v == PrintPart(u, part)
  <2>3. /\ v \in Screens
        /\ v = [rows |-> [u.rows EXCEPT ![Up(u.row)] = part], row |-> Up(u.row), col |-> Len(part)]
    BY <1>4, <2>1, PrintPartIs
  <2> HIDE DEF v
  <2>4. v.row <= r /\ \A i \in r..Rows : v.rows[i] = u.rows[i]
    BY <2>1, <2>2, <2>3
  <2>5. \A i \in r..Rows : v.rows[i] = t.rows[i]
    BY <2>4
  <2> QED BY <2>3, <2>4, <2>5 DEF v
<1>5. t \in Kept
  OBVIOUS
<1> HIDE DEF Kept
<1>6. ASSUME NEW i \in 1..n, NEW u \in Q[i - 1]
      PROVE  Draw("part", u, parts[i]) \in Q[i]
  <2>1. Q[i] = Kept /\ Q[i - 1] = Kept
    BY <1>2
  <2> QED BY <1>1, <1>2, <1>4, <2>1 DEF Draw
<1>7. t \in Q[0] /\ Q[n] = Kept
  BY <1>2, <1>5
<1> HIDE DEF Q
<1>8. Fold("part", t, parts) \in Kept
  BY <1>2, <1>6, <1>7, FoldInvariant
<1> QED BY <1>3, <1>8 DEF Kept

Writers == [messages_ : Seq(Seq(Character)), clients_count_line_ : Seq(Character),
            connection_state_line_ : Seq(Character), info_line_ : Seq(Character)]

OneLiners(w) ==
  /\ OneLine(w.info_line_) /\ OneLine(w.connection_state_line_) /\ OneLine(w.clients_count_line_)
  /\ \A i \in 1..Len(w.messages_) : OneLine(w.messages_[i])

LEMMA UpwardsAre ==
  ASSUME NEW w \in Writers
  PROVE  /\ Upwards(w) \in Seq(Seq(Character)) /\ Len(Upwards(w)) \in Nat /\ Len(Upwards(w)) > 0
         /\ OneLiners(w) => \A i \in 1..Len(Upwards(w)) : OneLine(Upwards(w)[i])
<1> DEFINE lines == <<<<SP>>, w.info_line_, w.connection_state_line_, w.clients_count_line_, <<SP>>>>
           texts == w.messages_
<1>1. <<SP>> \in Seq(Character) /\ OneLine(<<SP>>)
  BY Characters DEF OneLine
<1>2. lines \in Seq(Seq(Character)) /\ Len(lines) = 5 /\ texts \in Seq(Seq(Character))
  BY <1>1 DEF Writers
<1>3. OneLiners(w) => /\ \A i \in 1..5 : OneLine(lines[i])
                      /\ \A i \in 1..Len(texts) : OneLine(texts[i])
  BY <1>1 DEF OneLiners
<1>4. Upwards(w) = lines \o texts
  BY DEF Upwards
<1> HIDE DEF lines, texts
<1>5. ASSUME NEW i \in 1..Len(lines \o texts)
      PROVE  \/ i \in 1..5 /\ (lines \o texts)[i] = lines[i]
             \/ i - 5 \in 1..Len(texts) /\ (lines \o texts)[i] = texts[i - 5]
  BY <1>2, ConcatAt
<1>6. /\ lines \o texts \in Seq(Seq(Character))
      /\ Len(lines \o texts) \in Nat /\ Len(lines \o texts) > 0
  <2>1. Len(texts) \in Nat
    BY <1>2
  <2>2. lines \o texts \in Seq(Seq(Character)) /\ Len(lines \o texts) = Len(lines) + Len(texts)
    BY <1>2, LenConcat
  <2> QED BY <1>2, <2>1, <2>2
<1> QED BY <1>2, <1>3, <1>4, <1>5, <1>6

LEMMA EraseEnteredIs ==
  ASSUME NEW s \in Screens
  PROVE  LET t == EraseEntered(s)
         IN /\ t \in Screens /\ t.row = Up(s.row) /\ t.col = 0
            /\ t.rows[Rows] = <<>>
            /\ \A i \in Up(s.row)..(Rows - 1) : t.rows[i] = s.rows[i + 1]
<1> DEFINE k == Up(s.row)
           cut == RemoveAt(s.rows, k)
           new == Append(cut, <<>>)
<1>1. /\ s.rows \in [1..Rows -> Row] /\ s.row \in 1..Rows /\ k \in 1..Rows /\ Rows \in Nat
      /\ Rows > 2
  BY UpIsARow, Sizes DEF Screens
<1>2. CursorUp(s) = [rows |-> s.rows, row |-> k, col |-> 0]
  <2>1. CursorUp(s) = [s EXCEPT !.row = k, !.col = 0]
    BY DEF CursorUp, Up
  <2>2. s = [rows |-> s.rows, row |-> s.row, col |-> s.col]
    BY DEF Screens
  <2> QED BY <2>1, <2>2
<1>3. EraseEntered(s) = [rows |-> new, row |-> k, col |-> 0]
  <2> HIDE DEF k
  <2> QED BY <1>2 DEF EraseEntered, RemoveLine
<1> HIDE DEF k
<1>4. s.rows \in Seq(Row) /\ Len(s.rows) = Rows
  BY <1>1
<1>5. /\ cut \in Seq(Row) /\ Len(cut) = Rows - 1
      /\ \A i \in k..(Rows - 1) : cut[i] = s.rows[i + 1]
  BY <1>1, <1>4, RemoveAtIs
<1> HIDE DEF cut
<1>6. /\ new \in Seq(Row) /\ Len(new) = Rows /\ new[Rows] = <<>>
      /\ \A i \in k..(Rows - 1) : new[i] = s.rows[i + 1]
  BY <1>1, <1>5, EmptyRow
<1> HIDE DEF new
<1>7. new \in [1..Rows -> Row]
  BY <1>6
<1>8. [rows |-> new, row |-> k, col |-> 0] \in Screens
  BY <1>1, <1>7, Sizes DEF Screens
<1> QED BY <1>3, <1>6, <1>8 DEF k

LEMMA WriteMessageIs ==
  ASSUME NEW w \in Writers, Len(w.messages_) <= MESSAGE_LIMIT, NEW message \in Seq(Character)
  PROVE  LET v == WriteMessage(w, message)
             n == Len(w.messages_)
         IN /\ v \in Writers
            /\ v.info_line_ = w.info_line_ /\ v.connection_state_line_ = w.connection_state_line_
            /\ v.clients_count_line_ = w.clients_count_line_
            /\ Len(v.messages_) = IF n < MESSAGE_LIMIT THEN n + 1 ELSE MESSAGE_LIMIT
            /\ v.messages_[1] = message
            /\ \A i \in 1..(Len(v.messages_) - 1) : v.messages_[i + 1] = w.messages_[i]
<1> DEFINE old == w.messages_
           kept == IF Len(old) >= MESSAGE_LIMIT THEN Front(old) ELSE old
           new == <<message>> \o kept
<1>1. old \in Seq(Seq(Character)) /\ Len(old) \in Nat /\ MESSAGE_LIMIT \in Nat /\ MESSAGE_LIMIT > 0
  BY Sizes DEF Writers
<1>2. WriteMessage(w, message) =
        [messages_ |-> new, clients_count_line_ |-> w.clients_count_line_,
         connection_state_line_ |-> w.connection_state_line_, info_line_ |-> w.info_line_]
  <2>1. WriteMessage(w, message) = [w EXCEPT !.messages_ = new]
    BY DEF WriteMessage
  <2>2. w = [messages_ |-> w.messages_, clients_count_line_ |-> w.clients_count_line_,
             connection_state_line_ |-> w.connection_state_line_, info_line_ |-> w.info_line_]
    BY DEF Writers
  <2> HIDE DEF new
  <2> QED BY <2>1, <2>2
<1>3. /\ kept \in Seq(Seq(Character))
      /\ Len(kept) = IF Len(old) < MESSAGE_LIMIT THEN Len(old) ELSE MESSAGE_LIMIT - 1
      /\ \A i \in 1..Len(kept) : kept[i] = old[i]
  <2> HIDE DEF old
  <2>1. CASE Len(old) >= MESSAGE_LIMIT
    <3>1. Len(old) = MESSAGE_LIMIT /\ old # <<>> /\ kept = Front(old)
      BY <1>1, <2>1 DEF old
    <3>2. /\ Front(old) \in Seq(Seq(Character)) /\ Len(Front(old)) = Len(old) - 1
          /\ \A i \in 1..Len(Front(old)) : Front(old)[i] = old[i]
      BY <1>1, <3>1, FrontIs
    <3> QED BY <1>1, <3>1, <3>2
  <2>2. CASE ~(Len(old) >= MESSAGE_LIMIT)
    BY <1>1, <2>2
  <2> QED BY <2>1, <2>2
<1> HIDE DEF kept
<1>4. /\ new \in Seq(Seq(Character)) /\ Len(new) = Len(kept) + 1 /\ new[1] = message
      /\ \A i \in 1..Len(kept) : new[i + 1] = kept[i]
  BY <1>3, ConsIs
<1> HIDE DEF new, old
<1>5. WriteMessage(w, message) \in Writers
  BY <1>2, <1>4 DEF Writers
<1>6. Len(new) = IF Len(old) < MESSAGE_LIMIT THEN Len(old) + 1 ELSE MESSAGE_LIMIT
  BY <1>1, <1>3, <1>4
<1>7. ASSUME NEW i \in 1..(Len(new) - 1) PROVE new[i + 1] = old[i]
  <2>1. i \in 1..Len(kept)
    BY <1>1, <1>3, <1>4
  <2> QED BY <1>3, <1>4, <2>1
<1> DEFINE v == WriteMessage(w, message)
<1>8. /\ v \in Writers /\ v.messages_ = new
      /\ v.info_line_ = w.info_line_ /\ v.connection_state_line_ = w.connection_state_line_
      /\ v.clients_count_line_ = w.clients_count_line_
  BY <1>2, <1>5
<1> HIDE DEF v
<1>9. /\ Len(v.messages_) = IF Len(old) < MESSAGE_LIMIT THEN Len(old) + 1 ELSE MESSAGE_LIMIT
      /\ v.messages_[1] = message
      /\ \A i \in 1..(Len(v.messages_) - 1) : v.messages_[i + 1] = old[i]
  BY <1>4, <1>6, <1>7, <1>8
<1> QED BY <1>8, <1>9 DEF old, v

LEMMA MessagesBounded ==
  ASSUME NEW w \in Writers, Len(w.messages_) <= MESSAGE_LIMIT, NEW message \in Seq(Character)
  PROVE  /\ WriteMessage(w, message) \in Writers
         /\ Len(WriteMessage(w, message).messages_) <= MESSAGE_LIMIT
<1> DEFINE v == WriteMessage(w, message)
<1>1. /\ v \in Writers
      /\ Len(v.messages_) = IF Len(w.messages_) < MESSAGE_LIMIT THEN Len(w.messages_) + 1
                                                              ELSE MESSAGE_LIMIT
  BY WriteMessageIs
<1>2. Len(w.messages_) \in Nat /\ MESSAGE_LIMIT \in Nat
  BY Sizes DEF Writers
<1> HIDE DEF v
<1>3. Len(v.messages_) <= MESSAGE_LIMIT
  BY <1>1, <1>2
<1> QED BY <1>1, <1>3 DEF v

-----------------------------------------------------------------------------
(* What waits to be written.                                               *)

Op == [do : {"print", "save", "restore", "reset"}, text : Seq(Character)]

Follows ==
  {<<"reset", "save">>, <<"save", "print">>, <<"print", "print">>,
   <<"print", "restore">>, <<"restore", "save">>}

Chain(o) == \A i \in 1..(Len(o) - 1) : <<o[i].do, o[i + 1].do>> \in Follows

OneLined(o) == \A i \in 1..Len(o) : OneLine(o[i].text)

LEMMA ChainConcat ==
  ASSUME NEW a \in Seq(Op), NEW b \in Seq(Op), a # <<>>, b # <<>>, Chain(a), Chain(b),
         <<a[Len(a)].do, b[1].do>> \in Follows
  PROVE  LET o == a \o b
         IN /\ o \in Seq(Op) /\ o # <<>> /\ Len(o) = Len(a) + Len(b) /\ Chain(o)
            /\ o[1] = a[1]
            /\ \A i \in 1..Len(b) : o[Len(a) + i] = b[i]
            /\ OneLined(a) /\ OneLined(b) => OneLined(o)
<1> DEFINE o == a \o b
<1>1. /\ o \in Seq(Op) /\ Len(o) = Len(a) + Len(b)
      /\ Len(a) \in Nat /\ Len(a) > 0 /\ Len(b) \in Nat /\ Len(b) > 0
  OBVIOUS
<1>2. /\ \A i \in 1..Len(a) : o[i] = a[i]
      /\ \A i \in 1..Len(b) : o[Len(a) + i] = b[i]
  OBVIOUS
<1> HIDE DEF o
<1>3. ASSUME NEW i \in 1..(Len(o) - 1) PROVE <<o[i].do, o[i + 1].do>> \in Follows
  <2>1. CASE i < Len(a)
    <3>1. i \in 1..(Len(a) - 1) /\ o[i] = a[i] /\ o[i + 1] = a[i + 1]
      BY <1>1, <1>2, <2>1
    <3> QED BY <3>1 DEF Chain
  <2>2. CASE i = Len(a)
    <3>1. o[i] = a[i] /\ o[i + 1] = b[1]
      BY <1>1, <1>2, <2>2
    <3> QED BY <2>2, <3>1
  <2>3. CASE i > Len(a)
    <3> DEFINE j == i - Len(a)
    <3>1. j \in 1..(Len(b) - 1) /\ j \in 1..Len(b) /\ j + 1 \in 1..Len(b)
          /\ i = Len(a) + j /\ i + 1 = Len(a) + (j + 1)
      BY <1>1, <2>3
    <3> HIDE DEF j
    <3>2. o[i] = b[j] /\ o[i + 1] = b[j + 1]
      BY <1>2, <3>1
    <3> QED BY <3>1, <3>2 DEF Chain
  <2> QED BY <1>1, <2>1, <2>2, <2>3
<1>4. ASSUME OneLined(a), OneLined(b), NEW i \in 1..Len(o) PROVE OneLine(o[i].text)
  <2>1. CASE i <= Len(a)
    BY <1>1, <1>2, <1>4, <2>1 DEF OneLined
  <2>2. CASE i > Len(a)
    <3> DEFINE j == i - Len(a)
    <3>1. j \in 1..Len(b) /\ i = Len(a) + j
      BY <1>1, <2>2
    <3> HIDE DEF j
    <3> QED BY <1>2, <1>4, <3>1 DEF OneLined
  <2> QED BY <1>1, <2>1, <2>2
<1>5. Chain(o) /\ (OneLined(a) /\ OneLined(b) => OneLined(o))
  BY <1>3, <1>4 DEF Chain, OneLined
<1>6. o # <<>> /\ o[1] = a[1]
  BY <1>1, <1>2
<1> QED BY <1>1, <1>2, <1>5, <1>6 DEF o

\* One escape sequence.
LEMMA EscapeIs ==
  ASSUME NEW do \in {"save", "restore", "reset"}
  PROVE  LET o == <<Escape(do)>>
         IN /\ o \in Seq(Op) /\ o # <<>> /\ Len(o) = 1 /\ o[1] = Escape(do) /\ Escape(do).do = do
            /\ Chain(o) /\ OneLined(o)
<1>1. Escape(do) \in Op /\ Escape(do).do = do /\ Escape(do).text = <<>>
  BY DEF Escape, Op
<1> DEFINE o == <<Escape(do)>>
<1>2. o \in Seq(Op) /\ o # <<>> /\ Len(o) = 1 /\ o[1] = Escape(do)
  BY <1>1
<1> HIDE DEF o
<1>3. OneLine(<<>>)
  BY DEF OneLine
<1>4. Chain(o) /\ OneLined(o)
  BY <1>1, <1>2, <1>3 DEF Chain, OneLined
<1> QED BY <1>1, <1>2, <1>4 DEF o

LEMMA UpdateScreenIs ==
  ASSUME NEW w \in Writers
  PROVE  LET U == Upwards(w)
             D == UpdateScreen(w)
             n == Len(U)
         IN /\ n \in Nat /\ n > 0 /\ D \in Seq(Op) /\ Len(D) = n + 2 /\ Chain(D)
            /\ D[1] = Escape("save") /\ D[n + 2] = Escape("restore")
            /\ \A i \in 1..n : D[i + 1] = Printed(U[i])
            /\ OneLiners(w) => OneLined(D)
<1> DEFINE U == Upwards(w)
           n == Len(U)
           prints == [i \in DOMAIN U |-> Printed(U[i])]
           first == <<Escape("save")>>
           last == <<Escape("restore")>>
           saved_ == first \o prints
           D == saved_ \o last
<1>1. /\ U \in Seq(Seq(Character)) /\ n \in Nat /\ n > 0
      /\ OneLiners(w) => \A i \in 1..n : OneLine(U[i])
  BY UpwardsAre
<1>2. D = UpdateScreen(w)
  BY DEF UpdateScreen
<1>3. /\ first \in Seq(Op) /\ first # <<>> /\ Len(first) = 1 /\ first[1] = Escape("save")
      /\ Chain(first) /\ OneLined(first) /\ first[1].do = "save"
  BY EscapeIs
<1>4. /\ last \in Seq(Op) /\ last # <<>> /\ Len(last) = 1 /\ last[1] = Escape("restore")
      /\ Chain(last) /\ OneLined(last) /\ last[1].do = "restore"
  BY EscapeIs
<1> HIDE DEF U, first, last
<1>5. /\ prints \in Seq(Op) /\ Len(prints) = n /\ prints # <<>>
      /\ \A i \in 1..n : prints[i] = Printed(U[i]) /\ prints[i].do = "print" /\ prints[i].text = U[i]
  <2>1. DOMAIN U = 1..n /\ \A i \in 1..n : U[i] \in Seq(Character)
    BY <1>1
  <2>2. \A i \in 1..n : /\ Printed(U[i]) \in Op
                        /\ Printed(U[i]).do = "print" /\ Printed(U[i]).text = U[i]
    BY <2>1 DEF Printed, Op
  <2>3. prints = [i \in 1..n |-> Printed(U[i])]
    BY <2>1
  <2>4. n \in Nat /\ n > 0
    BY <1>1
  <2> HIDE DEF prints, n
  <2>5. prints \in Seq(Op) /\ Len(prints) = n
    BY <2>2, <2>3, <2>4
  <2>6. prints # <<>>
    BY <2>4, <2>5
  <2> QED BY <2>2, <2>3, <2>5, <2>6
<1> HIDE DEF prints
<1>6. Chain(prints) /\ (OneLiners(w) => OneLined(prints))
  <2>1. ASSUME NEW i \in 1..(n - 1) PROVE <<prints[i].do, prints[i + 1].do>> \in Follows
    <3>1. i \in 1..n /\ i + 1 \in 1..n
      BY <1>1
    <3> QED BY <1>5, <3>1 DEF Follows
  <2> QED BY <1>1, <1>5, <2>1 DEF Chain, OneLined
<1> HIDE DEF n
<1>7. /\ saved_ \in Seq(Op) /\ saved_ # <<>> /\ Len(saved_) = 1 + n /\ Chain(saved_)
      /\ saved_[1] = Escape("save") /\ \A i \in 1..n : saved_[1 + i] = prints[i]
      /\ OneLiners(w) => OneLined(saved_)
  <2>1. <<first[Len(first)].do, prints[1].do>> \in Follows
    BY <1>1, <1>3, <1>5 DEF Follows
  <2> QED BY <1>3, <1>5, <1>6, <2>1, ChainConcat
<1> HIDE DEF saved_
<1>8. /\ D \in Seq(Op) /\ Len(D) = n + 2 /\ Chain(D) /\ D[1] = Escape("save")
      /\ D[n + 2] = Escape("restore") /\ (OneLiners(w) => OneLined(D))
  <2>1. <<saved_[Len(saved_)].do, last[1].do>> \in Follows
    <3>1. saved_[1 + n] = prints[n] /\ prints[n].do = "print"
      BY <1>1, <1>5, <1>7
    <3> QED BY <1>4, <1>7, <3>1 DEF Follows
  <2>2. /\ D \in Seq(Op) /\ Len(D) = Len(saved_) + Len(last) /\ Chain(D) /\ D[1] = saved_[1]
        /\ \A i \in 1..Len(last) : D[Len(saved_) + i] = last[i]
        /\ OneLined(saved_) /\ OneLined(last) => OneLined(D)
    BY <1>4, <1>7, <2>1, ChainConcat
  <2>3. D[Len(saved_) + 1] = last[1] /\ Len(saved_) + 1 = n + 2
    BY <1>1, <1>4, <1>7, <2>2
  <2> HIDE DEF D
  <2> QED BY <1>1, <1>4, <1>7, <2>2, <2>3
<1>9. ASSUME NEW i \in 1..n PROVE D[i + 1] = Printed(U[i])
  <2>1. i + 1 \in 1..Len(saved_)
    BY <1>1, <1>7
  <2>2. D[i + 1] = saved_[i + 1]
    BY <1>4, <1>7, <2>1
  <2>3. saved_[1 + i] = prints[i] /\ 1 + i = i + 1
    BY <1>1, <1>7
  <2> QED BY <1>5, <2>2, <2>3
<1> HIDE DEF D
<1> QED BY <1>1, <1>2, <1>8, <1>9 DEF U, n

\* What waits ends with the drawing of what the writer holds, or with what is
\* left of it.
Queued(o, w) ==
  /\ o \in Seq(Op) /\ Chain(o)
  /\ \A i \in 1..Len(o) :
       i <= Len(UpdateScreen(w)) =>
         o[Len(o) + 1 - i] = UpdateScreen(w)[Len(UpdateScreen(w)) + 1 - i]

LEMMA QueuedUpdate ==
  ASSUME NEW w \in Writers
  PROVE  LET D == UpdateScreen(w)
         IN Queued(D, w) /\ D # <<>> /\ D[1].do = "save" /\ (OneLiners(w) => OneLined(D))
<1> DEFINE D == UpdateScreen(w)
<1>1. /\ D \in Seq(Op) /\ Chain(D) /\ Len(D) > 0 /\ D[1] = Escape("save")
      /\ OneLiners(w) => OneLined(D)
  BY UpdateScreenIs
<1>2. Escape("save").do = "save"
  BY EscapeIs
<1> HIDE DEF D
<1> QED BY <1>1, <1>2 DEF Queued, D

LEMMA QueuedMore ==
  ASSUME NEW w \in Writers, NEW a \in Seq(Op), a # <<>>, Chain(a),
         <<a[Len(a)].do, "save">> \in Follows
  PROVE  LET o == a \o UpdateScreen(w)
         IN /\ Queued(o, w) /\ o # <<>> /\ o[1] = a[1] /\ o[Len(o)].do = "restore"
            /\ OneLined(a) /\ OneLiners(w) => OneLined(o)
<1> DEFINE D == UpdateScreen(w)
           m == Len(D)
           o == a \o D
<1>1. /\ D \in Seq(Op) /\ Chain(D) /\ m \in Nat /\ m > 0 /\ D # <<>> /\ D[1] = Escape("save")
      /\ D[m] = Escape("restore")
      /\ OneLiners(w) => OneLined(D)
  BY UpdateScreenIs
<1>2. Escape("save").do = "save" /\ Escape("restore").do = "restore"
  BY EscapeIs
<1> HIDE DEF D
<1>3. /\ o \in Seq(Op) /\ o # <<>> /\ Len(o) = Len(a) + m /\ Chain(o)
      /\ o[1] = a[1]
      /\ \A i \in 1..m : o[Len(a) + i] = D[i]
      /\ OneLined(a) /\ OneLined(D) => OneLined(o)
  <2>1. <<a[Len(a)].do, D[1].do>> \in Follows
    BY <1>1, <1>2
  <2> QED BY <1>1, <2>1, ChainConcat
<1> HIDE DEF o
<1>4. ASSUME NEW i \in 1..Len(o), i <= m PROVE o[Len(o) + 1 - i] = D[m + 1 - i]
  <2>1. m + 1 - i \in 1..m /\ Len(o) + 1 - i = Len(a) + (m + 1 - i)
    BY <1>1, <1>3, <1>4
  <2> QED BY <1>3, <2>1
<1>5. o[Len(o)] = D[m]
  BY <1>1, <1>3
<1> HIDE DEF m
<1>6. Queued(o, w)
  BY <1>3, <1>4 DEF Queued, D, m
<1> QED BY <1>1, <1>2, <1>3, <1>5, <1>6 DEF o, D

LEMMA QueuedReset ==
  ASSUME NEW w \in Writers
  PROVE  LET o == ResetInputLine(w)
         IN /\ Queued(o, w) /\ o # <<>> /\ o[1].do = "reset" /\ o[Len(o)].do = "restore"
            /\ OneLiners(w) => OneLined(o)
<1> DEFINE a == <<Escape("reset")>>
<1>1. /\ a \in Seq(Op) /\ a # <<>> /\ Len(a) = 1 /\ a[1] = Escape("reset") /\ Escape("reset").do = "reset"
      /\ Chain(a) /\ OneLined(a)
  BY EscapeIs
<1>2. ResetInputLine(w) = a \o UpdateScreen(w)
  BY DEF ResetInputLine
<1> HIDE DEF a
<1>3. <<a[Len(a)].do, "save">> \in Follows
  BY <1>1 DEF Follows
<1> QED BY <1>1, <1>2, <1>3, QueuedMore

\* Two drawings, one after the other.
LEMMA QueuedTwice ==
  ASSUME NEW v \in Writers, NEW w \in Writers
  PROVE  LET o == ResetInputLine(v) \o UpdateScreen(w)
         IN /\ Queued(o, w) /\ o # <<>> /\ o[1].do = "reset" /\ o[Len(o)].do = "restore"
            /\ OneLiners(v) /\ OneLiners(w) => OneLined(o)
<1> DEFINE a == ResetInputLine(v)
<1>1. /\ a \in Seq(Op) /\ Chain(a) /\ a # <<>> /\ a[1].do = "reset" /\ a[Len(a)].do = "restore"
      /\ OneLiners(v) => OneLined(a)
  BY QueuedReset DEF Queued
<1> HIDE DEF a
<1>2. <<a[Len(a)].do, "save">> \in Follows
  BY <1>1 DEF Follows
<1>3. LET o == a \o UpdateScreen(w)
      IN /\ Queued(o, w) /\ o # <<>> /\ o[1] = a[1] /\ o[Len(o)].do = "restore"
         /\ OneLined(a) /\ OneLiners(w) => OneLined(o)
  BY <1>1, <1>2, QueuedMore
<1> QED BY <1>1, <1>3 DEF a

\* The next of what waits, and what waits after it.
LEMMA QueuedNext ==
  ASSUME NEW w \in Writers, NEW o, Queued(o, w), o # <<>>
  PROVE  LET n == Len(Upwards(w))
             m == Len(o)
             rest == Tail(o)
         IN /\ n \in Nat /\ m \in Nat /\ m > 0 /\ Head(o) = o[1] /\ o[1] \in Op
            /\ Queued(rest, w) /\ Len(rest) = m - 1
            /\ OneLined(o) => OneLine(o[1].text) /\ OneLined(rest)
            /\ m = 1 => o[1].do = "restore"
            /\ m \in 2..(n + 1) => o[1] = Printed(Upwards(w)[n + 2 - m])
            /\ m = n + 2 => o[1].do = "save"
            /\ rest # <<>> => <<o[1].do, rest[1].do>> \in Follows /\ Head(rest) = rest[1]
            /\ rest = <<>> => m = 1
<1> DEFINE n == Len(Upwards(w))
           D == UpdateScreen(w)
           m == Len(o)
           rest == Tail(o)
<1>1. /\ n \in Nat /\ Len(D) = n + 2 /\ D[1] = Escape("save") /\ D[n + 2] = Escape("restore")
      /\ \A i \in 1..n : D[i + 1] = Printed(Upwards(w)[i])
  BY UpdateScreenIs
<1>2. /\ o \in Seq(Op) /\ Chain(o)
      /\ \A i \in 1..m : i <= Len(D) => o[m + 1 - i] = D[Len(D) + 1 - i]
  BY DEF Queued
<1>3. /\ m \in Nat /\ m > 0 /\ Head(o) = o[1] /\ o[1] \in Op
      /\ rest \in Seq(Op) /\ Len(rest) = m - 1 /\ \A i \in 1..(m - 1) : rest[i] = o[i + 1]
  BY <1>2
<1>4. Escape("save").do = "save" /\ Escape("restore").do = "restore"
  BY EscapeIs
<1> HIDE DEF n, D, m, rest
<1>5. m <= n + 2 => o[1] = D[n + 3 - m]
  <2>1. m \in 1..m /\ m + 1 - m = 1 /\ Len(D) + 1 - m = n + 3 - m
    BY <1>1, <1>3
  <2> QED BY <1>1, <1>2, <2>1
<1>6. m = 1 => o[1].do = "restore"
  <2>1. m = 1 => m <= n + 2 /\ n + 3 - m = n + 2
    BY <1>1
  <2> QED BY <1>1, <1>4, <1>5, <2>1
<1>7. ASSUME m \in 2..(n + 1) PROVE o[1] = Printed(Upwards(w)[n + 2 - m])
  <2>1. m <= n + 2 /\ n + 2 - m \in 1..n /\ n + 3 - m = (n + 2 - m) + 1
    BY <1>1, <1>3, <1>7
  <2> QED BY <1>1, <1>5, <2>1
<1>8. m = n + 2 => o[1].do = "save"
  <2>1. m = n + 2 => m <= n + 2 /\ n + 3 - m = 1
    BY <1>1
  <2> QED BY <1>1, <1>4, <1>5, <2>1
<1>9. ASSUME NEW i \in 1..(Len(rest) - 1) PROVE <<rest[i].do, rest[i + 1].do>> \in Follows
  <2>1. i \in 1..(m - 1) /\ i + 1 \in 1..(m - 1)
    BY <1>3
  <2> QED BY <1>2, <1>3, <2>1 DEF Chain, m
<1>10. ASSUME NEW i \in 1..Len(rest), i <= Len(D)
       PROVE  rest[Len(rest) + 1 - i] = D[Len(D) + 1 - i]
  <2>1. i \in 1..m /\ m - i \in 1..(m - 1) /\ Len(rest) + 1 - i = m - i /\ (m - i) + 1 = m + 1 - i
    BY <1>3
  <2>2. rest[m - i] = o[m + 1 - i]
    BY <1>3, <2>1
  <2> QED BY <1>2, <1>10, <2>1, <2>2
<1>11. Queued(rest, w)
  BY <1>3, <1>9, <1>10 DEF Queued, Chain, D
<1>12. ASSUME OneLined(o) PROVE OneLine(o[1].text) /\ OneLined(rest)
  <2>1. \A i \in 1..m : OneLine(o[i].text)
    BY <1>12 DEF OneLined, m
  <2>2. 1 \in 1..m /\ \A i \in 1..Len(rest) : i + 1 \in 1..m /\ rest[i] = o[i + 1]
    BY <1>3
  <2> QED BY <2>1, <2>2 DEF OneLined
<1>13. /\ rest # <<>> => <<o[1].do, rest[1].do>> \in Follows /\ Head(rest) = rest[1]
       /\ rest = <<>> => m = 1
  <2>1. CASE m = 1
    BY <1>3, <2>1
  <2>2. CASE m # 1
    <3>1. 1 \in 1..(m - 1) /\ rest[1] = o[1 + 1] /\ rest # <<>>
      BY <1>3, <2>2
    <3> QED BY <1>2, <1>3, <3>1 DEF Chain, m
  <2> QED BY <2>1, <2>2
<1> QED BY <1>1, <1>3, <1>6, <1>7, <1>8, <1>11, <1>12, <1>13 DEF n, m, rest

-----------------------------------------------------------------------------
(* Types.                                                                  *)

Positions == [row : 1..Rows, col : 0..Cols]

Typed ==
  /\ screen \in Screens /\ saved \in Positions
  /\ writer \in Writers /\ Len(writer.messages_) <= MESSAGE_LIMIT
  /\ Queued(output, writer)
  /\ {connected, eof, closed, missed, ahead, torn, strayed} \subseteq BOOLEAN
  /\ line \in Seq(Key)
  /\ {input, typed, sent} \subseteq Seq(Key \union {NL})
  /\ log \in Seq(Seq(Character)) /\ flushes \in Nat
  /\ strayed => ahead

LEMMA TextTypes ==
  /\ \A text \in Texts \union Counts : text \in Seq(Character)
  /\ {Info, Connecting, Connected, You, Error} \subseteq Seq(Character)
  /\ \A text \in Seq(Key \union {NL}) : text \in Seq(Character)
<1>1. Key \union {NL} \subseteq Character
  BY Characters
<1>2. \A text \in Seq(Key \union {NL}) : text \in Seq(Character)
  BY <1>1, SeqGrows
<1> QED BY <1>2, ConsoleAssumption

LEMMA MessageType ==
  ASSUME Typed, input # <<>>
  PROVE  /\ Front(input) \in Seq(Key \union {NL})
         /\ You \o Front(input) \in Seq(Character)
         /\ Append(Front(input), NL) \in Seq(Key \union {NL})
<1>1. Front(input) \in Seq(Key \union {NL})
  BY FrontIs DEF Typed
<1>2. Front(input) \in Seq(Character) /\ You \in Seq(Character)
  BY <1>1, TextTypes
<1>3. You \o Front(input) \in Seq(Character)
  BY <1>2
<1>4. NL \in Key \union {NL}
  OBVIOUS
<1> QED BY <1>1, <1>3, <1>4

\* What the terminal gets next.
LEMMA OutputNext ==
  ASSUME Typed, output # <<>>
  PROVE  LET n == Len(Upwards(writer))
             m == Len(output)
             rest == Tail(output)
         IN /\ n \in Nat /\ m \in Nat /\ m > 0 /\ Head(output) \in Op
            /\ Queued(rest, writer) /\ Len(rest) = m - 1
            /\ OneLined(output) => OneLine(Head(output).text) /\ OneLined(rest)
            /\ m = 1 => Head(output).do = "restore"
            /\ m \in 2..(n + 1) => Head(output) = Printed(Upwards(writer)[n + 2 - m])
            /\ m = n + 2 => Head(output).do = "save"
            /\ rest # <<>> => <<Head(output).do, Head(rest).do>> \in Follows
            /\ rest = <<>> => m = 1 /\ Head(output).do = "restore"
<1>1. writer \in Writers /\ Queued(output, writer)
  BY DEF Typed
<1> DEFINE n == Len(Upwards(writer))
           m == Len(output)
           rest == Tail(output)
<1>2. /\ n \in Nat /\ m \in Nat /\ m > 0 /\ Head(output) = output[1] /\ output[1] \in Op
      /\ Queued(rest, writer) /\ Len(rest) = m - 1
      /\ OneLined(output) => OneLine(output[1].text) /\ OneLined(rest)
      /\ m = 1 => output[1].do = "restore"
      /\ m \in 2..(n + 1) => output[1] = Printed(Upwards(writer)[n + 2 - m])
      /\ m = n + 2 => output[1].do = "save"
      /\ rest # <<>> => <<output[1].do, rest[1].do>> \in Follows /\ Head(rest) = rest[1]
      /\ rest = <<>> => m = 1
  BY <1>1, QueuedNext
<1> HIDE DEF n, m, rest
<1>3. rest # <<>> => <<Head(output).do, Head(rest).do>> \in Follows
  BY <1>2
<1> QED BY <1>2, <1>3 DEF n, m, rest

LEMMA TypedStep == Typed /\ [Next]_vars => Typed'
<1> SUFFICES ASSUME Typed, [Next]_vars PROVE Typed'
  OBVIOUS
<1> USE DEF Typed
<1>1. ASSUME NEW key \in Key, Type(key) PROVE Typed'
  <2>1. key \in Character
    BY Characters
  <2>2. screen' \in Screens
    BY <1>1, <2>1, PutCharIs DEF Type
  <2>3. line' \in Seq(Key) /\ typed' \in Seq(Key \union {NL})
    BY <1>1 DEF Type
  <2> QED BY <1>1, <2>2, <2>3 DEF Type, Typing, Resetting, Away
<1>2. ASSUME Enter PROVE Typed'
  <2>1. screen' \in Screens
    BY <1>2, NewLineIs DEF Enter
  <2>2. line \in Seq(Key \union {NL})
    BY SeqGrows
  <2>3. line' \in Seq(Key) /\ {input', typed'} \subseteq Seq(Key \union {NL})
    BY <1>2, <2>2 DEF Enter
  <2> QED BY <1>2, <2>1, <2>3 DEF Enter, Typing, Resetting, Away
<1>3. ASSUME CtrlD PROVE Typed'
  <2>1. line \in Seq(Key \union {NL})
    BY SeqGrows
  <2>2. line' \in Seq(Key) /\ input' \in Seq(Key \union {NL})
    BY <1>3, <2>1 DEF CtrlD
  <2>3. flushes' \in Nat /\ eof' \in BOOLEAN
    BY <1>3 DEF CtrlD
  <2> QED BY <1>3, <2>2, <2>3 DEF CtrlD, Typing, Resetting, Away
<1>4. ASSUME Write PROVE Typed'
  <2>1. output # <<>> /\ output' = Tail(output)
    BY <1>4 DEF Write, SaveCursor, PrintNext, RestoreCursor, EraseInput, Writes
  <2>2. UNCHANGED <<writer, connected, line, input, eof, closed, typed, log, sent, missed,
                    ahead, flushes, strayed>>
    BY <1>4 DEF Write, SaveCursor, PrintNext, RestoreCursor, EraseInput, Writes
  <2>3. Queued(output', writer') /\ Head(output).text \in Seq(Character)
    BY <2>1, <2>2, OutputNext DEF Op
  <2>4. screen' \in Screens /\ saved' \in Positions /\ torn' \in BOOLEAN
    <3>1. /\ screen.row \in 1..Rows /\ screen.col \in 0..Cols /\ screen.rows \in [1..Rows -> Row]
          /\ saved.row \in 1..Rows /\ saved.col \in 0..Cols
      BY DEF Screens, Positions
    <3>2. CASE SaveCursor
      BY <3>1, <3>2 DEF SaveCursor, Positions
    <3>3. CASE PrintNext
      BY <2>3, <3>3, PrintTextType DEF PrintNext
    <3>4. CASE RestoreCursor
      <4>1. screen' = [screen EXCEPT !.row = saved.row, !.col = saved.col] /\ UNCHANGED <<saved, torn>>
        BY <3>4 DEF RestoreCursor
      <4> QED BY <3>1, <4>1 DEF Screens
    <3>5. CASE EraseInput
      BY <3>5, EraseEnteredIs DEF EraseInput
    <3> QED BY <1>4, <3>2, <3>3, <3>4, <3>5 DEF Write
  <2> QED BY <2>2, <2>3, <2>4
<1>5. ASSUME NEW w \in Writers, Len(w.messages_) <= MESSAGE_LIMIT, Shows(w)
      PROVE  /\ writer' \in Writers /\ Len(writer'.messages_) <= MESSAGE_LIMIT
             /\ Queued(output', writer') /\ UNCHANGED <<screen, saved, torn, strayed>>
  BY <1>5, QueuedUpdate DEF Shows
<1>6. ASSUME NEW text \in Texts, OnTextMessage(text) PROVE Typed'
  <2>1. text \in Seq(Character)
    BY TextTypes
  <2>2. /\ writer' \in Writers /\ Len(writer'.messages_) <= MESSAGE_LIMIT
        /\ Queued(output', writer') /\ UNCHANGED <<screen, saved, torn, strayed>>
    BY <1>5, <1>6, <2>1, MessagesBounded DEF OnTextMessage
  <2>3. log' \in Seq(Seq(Character))
    BY <1>6, <2>1 DEF OnTextMessage
  <2> QED BY <1>6, <2>2, <2>3 DEF OnTextMessage
<1>7. ASSUME NEW text \in Counts, OnServerInfoMessage(text) PROVE Typed'
  <2> DEFINE w == [writer EXCEPT !.clients_count_line_ = text]
  <2>1. w \in Writers /\ w.messages_ = writer.messages_
    BY TextTypes DEF Writers
  <2>2. Shows(w)
    BY <1>7 DEF OnServerInfoMessage
  <2> HIDE DEF w
  <2>3. /\ writer' \in Writers /\ Len(writer'.messages_) <= MESSAGE_LIMIT
        /\ Queued(output', writer') /\ UNCHANGED <<screen, saved, torn, strayed>>
    BY <1>5, <2>1, <2>2
  <2> QED BY <1>7, <2>3 DEF OnServerInfoMessage
<1>8. ASSUME OnConnected PROVE Typed'
  <2> DEFINE w == [writer EXCEPT !.connection_state_line_ = Connected]
  <2>1. w \in Writers /\ w.messages_ = writer.messages_
    BY TextTypes DEF Writers
  <2>2. Shows(w)
    BY <1>8 DEF OnConnected
  <2> HIDE DEF w
  <2>3. /\ writer' \in Writers /\ Len(writer'.messages_) <= MESSAGE_LIMIT
        /\ Queued(output', writer') /\ UNCHANGED <<screen, saved, torn, strayed>>
    BY <1>5, <2>1, <2>2
  <2> QED BY <1>8, <2>3 DEF OnConnected
<1>9. ASSUME OnIn PROVE Typed'
  <2>1. /\ input' = <<>> /\ input' \in Seq(Key \union {NL})
        /\ UNCHANGED <<screen, saved, connected, line, eof, typed, ahead, torn, flushes, strayed>>
    BY <1>9 DEF OnIn
  <2>2. CASE eof
    <3>1. closed' = TRUE /\ UNCHANGED <<output, writer, log, sent, missed>>
      BY <1>9, <2>2 DEF OnIn, OnReaderClosed
    <3> QED BY <2>1, <3>1
  <2>3. CASE ~eof /\ connected
    <3> DEFINE message == Front(input)
    <3>1. /\ writer' = WriteMessage(writer, You \o message)
          /\ output' = ResetInputLine(writer) \o UpdateScreen(writer')
          /\ log' = Append(log, You \o message) /\ sent' = sent \o Append(message, NL)
          /\ UNCHANGED <<closed, missed>> /\ input # <<>>
      BY <1>9, <2>3 DEF OnIn, OnMessageRead
    <3>2. You \o message \in Seq(Character) /\ Append(message, NL) \in Seq(Key \union {NL})
      BY <3>1, MessageType
    <3> HIDE DEF message
    <3>3. writer' \in Writers /\ Len(writer'.messages_) <= MESSAGE_LIMIT
      BY <3>1, <3>2, MessagesBounded
    <3>4. Queued(output', writer')
      BY <3>1, <3>3, QueuedTwice
    <3>5. log' \in Seq(Seq(Character)) /\ sent' \in Seq(Key \union {NL})
      BY <3>1, <3>2
    <3> QED BY <2>1, <3>1, <3>3, <3>4, <3>5
  <2>4. CASE ~eof /\ ~connected
    <3>1. /\ output' = ResetInputLine(writer) /\ missed' = TRUE
          /\ UNCHANGED <<closed, writer, log, sent>>
      BY <1>9, <2>4 DEF OnIn, OnMessageRead
    <3>2. Queued(output', writer')
      BY <3>1, QueuedReset
    <3> QED BY <2>1, <3>1, <3>2
  <2> QED BY <2>2, <2>3, <2>4
<1>10. ASSUME ConnectionEnds PROVE Typed'
  <2>1. screen' \in Screens
    <3>1. Error \in Seq(Character)
      BY TextTypes
    <3> QED BY <1>10, <3>1, NewLineIs, PutIs DEF ConnectionEnds, WriteError
  <2> QED BY <1>10, <2>1 DEF ConnectionEnds, history
<1>11. ASSUME UNCHANGED vars PROVE Typed'
  BY <1>11 DEF vars, terminal, history
<1> QED BY <1>1, <1>2, <1>3, <1>4, <1>6, <1>7, <1>8, <1>9, <1>10, <1>11 DEF Next, User, Handler

LEMMA OneLineIs == \A text : NL \notin ToSet(text) /\ text \in Seq(Character) => OneLine(text)
BY DEF ToSet, OneLine

\* What the client has printed when its loop starts.
LEMMA InitIs ==
  ASSUME Init
  PROVE  /\ writer \in Writers /\ Len(writer.messages_) = 0 /\ OneLiners(writer)
         /\ Queued(output, writer) /\ OneLined(output)
         /\ output # <<>> /\ Head(output).do = "reset"
<1>1. writer = [messages_ |-> <<>>, clients_count_line_ |-> <<>>,
                connection_state_line_ |-> Connecting, info_line_ |-> Info]
  BY DEF Init
<1> DEFINE w0 == [writer EXCEPT !.info_line_ = <<>>, !.connection_state_line_ = <<>>]
           w1 == [w0 EXCEPT !.info_line_ = Info]
           a == ResetInputLine(w0) \o UpdateScreen(w1)
<1>2. output = a \o UpdateScreen(writer)
  BY DEF Init
<1>3. {Info, Connecting, <<>>} \subseteq Seq(Character) /\ <<>> \in Seq(Seq(Character)) /\ Len(<<>>) = 0
  BY TextTypes
<1>4. w0 \in Writers /\ w1 \in Writers /\ writer \in Writers /\ Len(writer.messages_) = 0
  BY <1>1, <1>3 DEF Writers
<1>5. OneLine(<<>>) /\ OneLine(Info) /\ OneLine(Connecting)
  BY <1>3, ConsoleAssumption, OneLineIs DEF OneLine
<1>6. OneLiners(w0) /\ OneLiners(w1) /\ OneLiners(writer)
  BY <1>1, <1>3, <1>5 DEF OneLiners
<1> HIDE DEF w0, w1
<1>7. /\ a \in Seq(Op) /\ Chain(a) /\ OneLined(a)
      /\ a # <<>> /\ a[1].do = "reset" /\ a[Len(a)].do = "restore"
  BY <1>4, <1>6, QueuedTwice DEF Queued
<1> HIDE DEF a
<1>8. <<a[Len(a)].do, "save">> \in Follows
  BY <1>7 DEF Follows
<1>9. Queued(output, writer) /\ output # <<>> /\ output[1] = a[1] /\ OneLined(output)
  BY <1>2, <1>4, <1>6, <1>7, <1>8, QueuedMore
<1>10. Head(output) = output[1]
  BY <1>9 DEF Queued
<1> QED BY <1>4, <1>6, <1>7, <1>9, <1>10

LEMMA TypedInit == Init => Typed
<1> SUFFICES ASSUME Init PROVE Typed
  OBVIOUS
<1>1. <<>> \in Seq(Seq(Character)) /\ <<>> \in Seq(Key) /\ <<>> \in Seq(Key \union {NL})
  OBVIOUS
<1>2. screen \in Screens /\ saved \in Positions
  <2>1. screen = Cleared /\ saved = [row |-> 1, col |-> 0]
    BY DEF Init
  <2> QED BY <2>1, EmptyRow, Sizes DEF Cleared, Screens, Positions
<1>3. writer \in Writers /\ Len(writer.messages_) <= MESSAGE_LIMIT /\ Queued(output, writer)
  BY InitIs, Sizes
<1> QED BY <1>1, <1>2, <1>3 DEF Init, Typed

LEMMA TypedAlways == Spec => []Typed
BY TypedInit, TypedStep, PTL DEF Spec

(***************************************************************************)
(* The screen never gets wider or higher than it is, the cursor stays on   *)
(* it, and at most MESSAGE_LIMIT messages are kept, whatever is typed and  *)
(* whatever arrives (StdOutputWriter.cpp:43-49, 95-122).                   *)
(***************************************************************************)
THEOREM ConsoleTypeCorrect == Spec => []TypeOK
<1>1. Typed => TypeOK
  <2> SUFFICES ASSUME Typed PROVE TypeOK
    OBVIOUS
  <2>1. /\ screen.rows \in [1..Rows -> Row] /\ screen.row \in 1..Rows /\ screen.col \in 0..Cols
        /\ saved.row \in 1..Rows /\ saved.col \in 0..Cols
    BY DEF Typed, Screens, Positions
  <2>2. \A i \in 1..Rows : Len(screen.rows[i]) <= Cols
    BY <2>1 DEF Row
  <2> QED BY <2>1, <2>2 DEF Typed, TypeOK
<1> QED BY <1>1, TypedAlways, PTL

-----------------------------------------------------------------------------
(* What is drawn.                                                          *)

\* The messages that are kept are the last ones, from the bottom upwards.
Recent ==
  /\ Len(writer.messages_) = IF Len(log) > MESSAGE_LIMIT THEN MESSAGE_LIMIT ELSE Len(log)
  /\ \A i \in 1..Len(writer.messages_) : writer.messages_[i] = log[Len(log) + 1 - i]

Status ==
  /\ writer.info_line_ = Info
  /\ writer.connection_state_line_ \in {Connecting, Connected}
  /\ writer.clients_count_line_ \in Counts \union {<<>>}

LEMMA RecentWrite ==
  ASSUME Typed, Recent, Status, NEW message \in Seq(Character),
         writer' = WriteMessage(writer, message), log' = Append(log, message)
  PROVE  Recent' /\ Status'
<1> DEFINE v == WriteMessage(writer, message)
           n == Len(writer.messages_)
           more == Append(log, message)
<1>1. /\ v.info_line_ = writer.info_line_
      /\ v.connection_state_line_ = writer.connection_state_line_
      /\ v.clients_count_line_ = writer.clients_count_line_
      /\ Len(v.messages_) = IF n < MESSAGE_LIMIT THEN n + 1 ELSE MESSAGE_LIMIT
      /\ v.messages_[1] = message
      /\ \A i \in 1..(Len(v.messages_) - 1) : v.messages_[i + 1] = writer.messages_[i]
  BY WriteMessageIs DEF Typed
<1>2. n \in Nat /\ Len(log) \in Nat /\ MESSAGE_LIMIT \in Nat /\ MESSAGE_LIMIT > 0
  BY Sizes DEF Typed, Writers
<1>3. /\ Len(more) = Len(log) + 1 /\ more[Len(log) + 1] = message
      /\ \A i \in 1..Len(log) : more[i] = log[i]
  BY DEF Typed
<1>4. n = IF Len(log) > MESSAGE_LIMIT THEN MESSAGE_LIMIT ELSE Len(log)
  BY DEF Recent
<1>5. writer' = v /\ log' = more
  OBVIOUS
<1> HIDE DEF v, n, more
<1>6. Len(v.messages_) = IF Len(more) > MESSAGE_LIMIT THEN MESSAGE_LIMIT ELSE Len(more)
  BY <1>1, <1>2, <1>3, <1>4
<1>7. ASSUME NEW i \in 1..Len(v.messages_)
      PROVE  v.messages_[i] = more[Len(more) + 1 - i]
  <2>1. CASE i = 1
    BY <1>1, <1>2, <1>3, <2>1
  <2>2. CASE i # 1
    <3>1. /\ i - 1 \in 1..(Len(v.messages_) - 1) /\ i - 1 \in 1..n /\ (i - 1) + 1 = i
          /\ Len(log) + 1 - (i - 1) = Len(more) + 1 - i
          /\ Len(log) + 1 - (i - 1) \in 1..Len(log)
      BY <1>1, <1>2, <1>3, <1>4, <1>6, <2>2
    <3>2. v.messages_[i] = writer.messages_[i - 1]
      BY <1>1, <3>1
    <3>3. writer.messages_[i - 1] = log[Len(log) + 1 - (i - 1)]
      BY <3>1 DEF Recent, n
    <3> QED BY <1>3, <3>1, <3>2, <3>3
  <2> QED BY <2>1, <2>2
<1>8. Recent'
  BY <1>5, <1>6, <1>7 DEF Recent
<1> QED BY <1>1, <1>5, <1>8 DEF Status

LEMMA RecentStep == Typed /\ Recent /\ Status /\ [Next]_vars => Recent' /\ Status'
<1> SUFFICES ASSUME Typed, Recent, Status, [Next]_vars PROVE Recent' /\ Status'
  OBVIOUS
<1>1. ASSUME UNCHANGED <<writer, log>> PROVE Recent' /\ Status'
  BY <1>1 DEF Recent, Status
<1>2. ASSUME User \/ Write \/ ConnectionEnds \/ UNCHANGED vars PROVE UNCHANGED <<writer, log>>
  BY <1>2 DEF User, Type, Enter, CtrlD, Write, SaveCursor, PrintNext, RestoreCursor, EraseInput,
              Writes, ConnectionEnds, vars, history
<1>3. ASSUME NEW text \in Texts, OnTextMessage(text) PROVE Recent' /\ Status'
  BY <1>3, RecentWrite, TextTypes DEF OnTextMessage, Shows
<1>4. ASSUME NEW text \in Counts, OnServerInfoMessage(text) PROVE Recent' /\ Status'
  <2>1. /\ writer'.messages_ = writer.messages_ /\ writer'.info_line_ = writer.info_line_
        /\ writer'.connection_state_line_ = writer.connection_state_line_
        /\ writer'.clients_count_line_ = text /\ log' = log
    BY <1>4 DEF OnServerInfoMessage, Shows, Typed, Writers
  <2> QED BY <2>1 DEF Recent, Status
<1>5. ASSUME OnConnected PROVE Recent' /\ Status'
  <2>1. /\ writer'.messages_ = writer.messages_ /\ writer'.info_line_ = writer.info_line_
        /\ writer'.connection_state_line_ = Connected
        /\ writer'.clients_count_line_ = writer.clients_count_line_ /\ log' = log
    BY <1>5 DEF OnConnected, Shows, Typed, Writers
  <2> QED BY <2>1 DEF Recent, Status
<1>6. ASSUME OnIn PROVE Recent' /\ Status'
  <2>1. CASE eof \/ ~connected
    <3>1. UNCHANGED <<writer, log>>
      BY <1>6, <2>1 DEF OnIn, OnReaderClosed, OnMessageRead
    <3> QED BY <1>1, <3>1
  <2>2. CASE ~eof /\ connected
    <3>1. /\ writer' = WriteMessage(writer, You \o Front(input))
          /\ log' = Append(log, You \o Front(input)) /\ input # <<>>
      BY <1>6, <2>2 DEF OnIn, OnMessageRead
    <3>2. You \o Front(input) \in Seq(Character)
      BY <3>1, MessageType
    <3> QED BY <3>1, <3>2, RecentWrite
  <2> QED BY <2>1, <2>2
<1> QED BY <1>1, <1>2, <1>3, <1>4, <1>5, <1>6 DEF Next, Handler

LEMMA RecentInit == Init => Recent /\ Status
<1> SUFFICES ASSUME Init PROVE Recent /\ Status
  OBVIOUS
<1>1. writer = [messages_ |-> <<>>, clients_count_line_ |-> <<>>,
                connection_state_line_ |-> Connecting, info_line_ |-> Info] /\ log = <<>>
  BY DEF Init
<1>2. ~(Len(<<>>) > MESSAGE_LIMIT) /\ Len(<<>>) = 0
  BY Sizes
<1> QED BY <1>1, <1>2 DEF Recent, Status

LEMMA PictureIs ==
  Typed /\ Recent /\ Status /\ OneLineTexts
    => OneLiners(writer) /\ Picture = FoldLeft(Above, <<>>, Upwards(writer))
<1> SUFFICES ASSUME Typed, Recent, Status, OneLineTexts
             PROVE  OneLiners(writer) /\ Picture = FoldLeft(Above, <<>>, Upwards(writer))
  OBVIOUS
<1> DEFINE shown == IF Len(log) > MESSAGE_LIMIT THEN MESSAGE_LIMIT ELSE Len(log)
           last == [i \in 1..shown |-> log[Len(log) + 1 - i]]
<1>1. writer.messages_ \in Seq(Seq(Character)) /\ Len(writer.messages_) = shown
  BY DEF Typed, Writers, Recent
<1>2. \A i \in 1..shown : writer.messages_[i] = log[Len(log) + 1 - i]
  BY <1>1 DEF Recent
<1>3. writer.messages_ = last
  <2> HIDE DEF shown
  <2>1. writer.messages_ = [i \in 1..shown |-> writer.messages_[i]]
    BY <1>1
  <2> QED BY <1>2, <2>1
<1>4. Picture = FoldLeft(Above, <<>>, Upwards(writer))
  BY <1>3, Zenon DEF Picture, Upwards
<1>5. ASSUME NEW i \in 1..shown PROVE OneLine(writer.messages_[i])
  <2>1. Len(log) + 1 - i \in 1..Len(log) /\ DOMAIN log = 1..Len(log)
    BY Sizes DEF Typed
  <2>2. log[Len(log) + 1 - i] \in Seq(Character)
    BY <2>1 DEF Typed
  <2>3. NL \notin ToSet(log[Len(log) + 1 - i])
    BY <2>1 DEF OneLineTexts
  <2> QED BY <1>2, <2>2, <2>3, OneLineIs
<1>6. OneLine(<<>>) /\ \A text \in Counts \union {Info, Connecting, Connected} : OneLine(text)
  BY ConsoleAssumption, OneLineIs DEF OneLine
<1> QED BY <1>1, <1>4, <1>5, <1>6 DEF OneLiners, Status

\* A handler prints when all else is written.
LEMMA HandlerIs ==
  ASSUME Typed, Handler
  PROVE  /\ ~closed /\ output = <<>> /\ UNCHANGED <<saved, line, ahead, torn, flushes, strayed>>
         /\ screen' = screen \/ (closed' /\ screen' = WriteError(screen, Error))
         /\ input' \in {input, <<>>}
         /\ output' # <<>> => Head(output').do \in {"save", "reset"}
         /\ output' # <<>> /\ Head(output').do = "reset" => input # <<>> /\ input' = <<>>
<1>1. writer \in Writers /\ \A o, w : Queued(o, w) /\ o # <<>> => Head(o) = o[1]
  BY DEF Typed, Queued
<1>2. Typed'
  BY TypedStep DEF Next
<1>3. writer' \in Writers
  BY <1>2 DEF Typed
<1>4. ASSUME NEW w, Shows(w)
      PROVE  /\ UNCHANGED <<screen, saved, torn, strayed>>
             /\ output' # <<>> => Head(output').do = "save"
  <2>1. output' = UpdateScreen(writer') /\ UNCHANGED <<screen, saved, torn, strayed>>
    BY <1>4 DEF Shows
  <2>2. Queued(output', writer') /\ output'[1].do = "save"
    BY <1>3, <2>1, QueuedUpdate
  <2> QED BY <1>1, <2>1, <2>2
<1>5. CASE \E text \in Texts : OnTextMessage(text)
  BY <1>4, <1>5 DEF OnTextMessage, Handling
<1>6. CASE \E text \in Counts : OnServerInfoMessage(text)
  BY <1>4, <1>6 DEF OnServerInfoMessage, Handling
<1>7. CASE OnConnected
  BY <1>4, <1>7 DEF OnConnected, Handling
<1>8. CASE OnIn
  <2>1. /\ ~closed /\ output = <<>> /\ input' = <<>>
        /\ UNCHANGED <<screen, saved, line, ahead, torn, flushes, strayed>>
    BY <1>8 DEF OnIn, Handling
  <2>2. CASE eof
    BY <1>8, <2>1, <2>2 DEF OnIn, OnReaderClosed
  <2>3. CASE ~eof
    <3>1. input # <<>>
      BY <1>8, <2>3 DEF OnIn
    <3>2. output' = ResetInputLine(writer) \o UpdateScreen(writer') \/ output' = ResetInputLine(writer)
      BY <1>8, <2>3 DEF OnIn, OnMessageRead
    <3>3. output' # <<>> => Head(output').do = "reset"
      BY <1>1, <1>3, <3>2, QueuedTwice, QueuedReset
    <3> QED BY <2>1, <3>1, <3>3
  <2> QED BY <2>2, <2>3
<1>9. CASE ConnectionEnds
  BY <1>9 DEF ConnectionEnds, Handling, history
<1> QED BY <1>5, <1>6, <1>7, <1>8, <1>9 DEF Handler

LEMMA WriteIs ==
  ASSUME Write
  PROVE  /\ output # <<>> /\ output' = Tail(output)
         /\ UNCHANGED <<writer, connected, line, input, eof, closed, typed, log, sent, missed,
                        ahead, flushes, strayed>>
BY DEF Write, SaveCursor, PrintNext, RestoreCursor, EraseInput, Writes

LEMMA UserIs ==
  ASSUME User
  PROVE  /\ UNCHANGED <<saved, writer, output, closed, log>> /\ ~closed
         /\ torn' = (torn \/ Away)
         /\ ahead' = (ahead \/ input # <<>> \/ Resetting \/ Away)
         /\ strayed' = (strayed \/ Resetting \/ Away)
BY DEF User, Type, Enter, CtrlD, Typing

\* The pictures of the first texts, from the bottom upwards.
Painted == CHOOSE p : IsRun("picture", p, <<>>, Upwards(writer))

LEMMA PaintedIs ==
  ASSUME writer \in Writers
  PROVE  LET U == Upwards(writer)
         IN /\ Painted[0] = <<>>
            /\ \A i \in 1..Len(U) : Painted[i] = Above(Painted[i - 1], U[i])
            /\ Painted[Len(U)] = FoldLeft(Above, <<>>, U)
<1> DEFINE U == Upwards(writer)
<1>1. Len(U) \in Nat /\ DOMAIN U = 1..Len(U)
  BY UpwardsAre
<1>2. \E p : IsRun("picture", p, <<>>, U)
  BY <1>1, RunExists
<1>3. IsRun("picture", Painted, <<>>, U)
  BY <1>2 DEF Painted
<1> HIDE DEF U
<1>4. FoldLeft(Above, <<>>, U) = Painted[Len(U)]
  BY <1>1, <1>3, FoldsAre, FoldIsRun
<1>5. Painted[0] = <<>> /\ \A i \in 1..Len(U) : Painted[i] = Above(Painted[i - 1], U[i])
  BY <1>3 DEF IsRun, Draw
<1> QED BY <1>4, <1>5 DEF U

\* The last drawing, as far as it is written.
Underway ==
  LET n == Len(Upwards(writer))
      k == n + 1 - Len(output)
  IN Len(output) \in 1..(n + 1) /\ ~torn /\ OneLineTexts =>
       /\ Painted[k] \in Seq(Row)
       /\ \E s \in Screens : s.row = saved.row /\ Drawn(s, screen, Painted[k])

LEMMA UnderwayStep ==
  Typed /\ Recent /\ Status /\ Underway /\ [Next]_vars => Underway'
<1> SUFFICES ASSUME Typed, Recent, Status, Underway, [Next]_vars PROVE Underway'
  OBVIOUS
<1> DEFINE U == Upwards(writer)
           n == Len(U)
           m == Len(output)
<1>1. /\ writer \in Writers /\ screen \in Screens /\ Queued(output, writer)
      /\ U \in Seq(Seq(Character)) /\ n \in Nat /\ m \in Nat
      /\ OneLiners(writer) => \A i \in 1..n : OneLine(U[i])
  <2>1. output \in Seq(Op)
    BY DEF Typed, Queued
  <2>2. m \in Nat
    BY <2>1
  <2> HIDE DEF m
  <2> QED BY <2>2, UpwardsAre DEF Typed
<1>2. output # <<>> =>
        /\ m > 0 /\ Len(Tail(output)) = m - 1
        /\ m = 1 => Head(output).do = "restore"
        /\ m \in 2..(n + 1) =>
             /\ Head(output).do = "print"
             /\ Head(output).text = U[n + 2 - m]
        /\ m = n + 2 => Head(output).do = "save"
  BY OutputNext DEF Printed
<1>3. m \in 1..(n + 1) => Away
  <2>1. m \in 1..(n + 1) => output # <<>>
    <3>1. output = <<>> => m = 0
      OBVIOUS
    <3> HIDE DEF m, n
    <3> QED BY <3>1
  <2>2. m \in 1..(n + 1) => m = 1 \/ m \in 2..(n + 1)
    <3> HIDE DEF m, n
    <3> QED BY <1>1
  <2> HIDE DEF m, n
  <2> QED BY <1>2, <2>1, <2>2 DEF Away
<1>4. CASE User
  <2>1. UNCHANGED <<writer, output>> /\ torn' = (torn \/ Away)
    BY <1>4, UserIs
  <2> HIDE DEF m
  <2> QED BY <1>3, <2>1 DEF Underway, m
<1>5. CASE Handler
  <2>1. Typed'
    BY TypedStep
  <2>2. output' # <<>> => Head(output').do \in {"save", "reset"}
    BY <1>5, HandlerIs
  <2>3. output' = <<>> => Len(output') = 0
    OBVIOUS
  <2>4. ASSUME output' # <<>>
        PROVE  Len(output') \notin 1..(Len(Upwards(writer')) + 1)
    <3>1. writer' \in Writers /\ Queued(output', writer')
      BY <2>1 DEF Typed
    <3> DEFINE nn == Len(Upwards(writer'))
               mm == Len(output')
    <3>2. /\ nn \in Nat /\ mm \in Nat /\ Head(output') = output'[1]
          /\ mm = 1 => output'[1].do = "restore"
          /\ mm \in 2..(nn + 1) => output'[1] = Printed(Upwards(writer')[nn + 2 - mm])
      BY <2>4, <3>1, QueuedNext
    <3> HIDE DEF nn, mm
    <3>3. mm \in 1..(nn + 1) => output'[1].do \in {"restore", "print"}
      BY <3>2 DEF Printed
    <3> QED BY <2>2, <2>4, <3>2, <3>3 DEF nn, mm
  <2> QED BY <2>3, <2>4 DEF Underway
<1>6. CASE Write
  <2>1. /\ output # <<>> /\ output' = Tail(output) /\ writer' = writer /\ log' = log
        /\ Len(output') = m - 1 /\ Upwards(writer') = U /\ Painted' = Painted
    BY <1>2, <1>6, WriteIs DEF Painted
  <2> SUFFICES ASSUME m - 1 \in 1..(n + 1), ~torn', OneLineTexts'
               PROVE  /\ Painted[n + 2 - m] \in Seq(Row)
                      /\ \E s \in Screens : s.row = saved'.row /\ Drawn(s, screen', Painted[n + 2 - m])
    <3>1. n + 1 - (m - 1) = n + 2 - m
      BY <1>1
    <3> HIDE DEF m, n
    <3> QED BY <2>1, <3>1 DEF Underway, n
  <2>2. m = n + 2 \/ m \in 2..(n + 1)
    <3> HIDE DEF m, n
    <3> QED BY <1>1
  <2>3. CASE m = n + 2
    <3>1. SaveCursor
      BY <1>2, <1>6, <2>1, <2>3 DEF Write, PrintNext, RestoreCursor, EraseInput, Writes
    <3>2. saved'.row = screen.row /\ screen' = screen
      BY <3>1 DEF SaveCursor
    <3>3. n + 2 - m = 0 /\ Painted[0] = <<>> /\ <<>> \in Seq(Row)
      BY <1>1, <2>3, PaintedIs
    <3>4. Drawn(screen, screen, <<>>)
      <4>1. screen.row \in 1..Rows /\ Rows \in Nat
        BY <1>1, Sizes DEF Screens
      <4> QED BY <1>1, <4>1 DEF Drawn
    <3> HIDE DEF m, n
    <3> QED BY <1>1, <3>2, <3>3, <3>4
  <2>4. CASE m \in 2..(n + 1)
    <3> DEFINE k == n + 1 - m
    <3>1. PrintNext
      BY <1>2, <1>6, <2>1, <2>4 DEF Write, SaveCursor, RestoreCursor, EraseInput, Writes
    <3>2. /\ screen' = PrintText(screen, Head(output).text) /\ UNCHANGED <<saved, torn>>
      BY <3>1 DEF PrintNext
    <3>3. k + 1 \in 1..n /\ n + 2 - m = k + 1 /\ (k + 1) - 1 = k /\ m \in 1..(n + 1)
      BY <1>1, <2>4
    <3>4. Painted[k + 1] = Above(Painted[k], U[k + 1])
      BY <1>1, <3>3, PaintedIs
    <3>5. /\ Painted[k] \in Seq(Row)
          /\ \E s \in Screens : s.row = saved.row /\ Drawn(s, screen, Painted[k])
      <4>1. ~torn /\ OneLineTexts
        BY <2>1, <3>2 DEF OneLineTexts
      <4> QED BY <3>3, <4>1 DEF Underway
    <3>6. U[k + 1] \in Seq(Character) /\ OneLine(U[k + 1])
      <4>1. OneLineTexts
        BY <2>1 DEF OneLineTexts
      <4>2. OneLiners(writer)
        BY <4>1, PictureIs
      <4> HIDE DEF k
      <4> QED BY <1>1, <3>3, <4>2
    <3>7. Head(output).text = U[k + 1]
      <4>1. Head(output).text = U[n + 2 - m]
        BY <1>2, <2>1, <2>4
      <4> HIDE DEF k, U, m, n
      <4> QED BY <3>3, <4>1
    <3> HIDE DEF k, U, m
    <3>8. PICK s \in Screens : s.row = saved.row /\ Drawn(s, screen, Painted[k])
      BY <3>5
    <3>9. Drawn(s, PrintText(screen, U[k + 1]), Painted[k + 1]) /\ Painted[k + 1] \in Seq(Row)
      BY <3>4, <3>5, <3>6, <3>8, DrawText
    <3> QED BY <3>2, <3>3, <3>7, <3>8, <3>9
  <2> QED BY <2>2, <2>3, <2>4
<1>7. CASE UNCHANGED vars
  <2>1. UNCHANGED <<writer, output, torn, log, saved, screen>>
    BY <1>7 DEF vars, terminal, history
  <2>2. Painted' = Painted /\ OneLineTexts' = OneLineTexts
    BY <2>1 DEF Painted, OneLineTexts
  <2> HIDE DEF U, n, m
  <2> QED BY <2>1, <2>2 DEF Underway
<1> QED BY <1>4, <1>5, <1>6, <1>7 DEF Next

LEMMA UnderwayInit == Init => Underway
<1> SUFFICES ASSUME Init PROVE Underway
  OBVIOUS
<1>1. writer \in Writers /\ Queued(output, writer) /\ output # <<>> /\ Head(output).do = "reset"
  BY InitIs
<1> DEFINE n == Len(Upwards(writer))
           m == Len(output)
<1>2. /\ n \in Nat /\ m \in Nat /\ Head(output) = output[1]
      /\ m = 1 => output[1].do = "restore"
      /\ m \in 2..(n + 1) => output[1] = Printed(Upwards(writer)[n + 2 - m])
  BY <1>1, QueuedNext
<1> HIDE DEF n, m
<1>3. m \notin 1..(n + 1)
  BY <1>1, <1>2 DEF Printed
<1> QED BY <1>3 DEF Underway, n, m

LEMMA DrawnIsShown ==
  Typed /\ Recent /\ Status /\ Underway /\ [Next]_vars
  /\ output # <<>> /\ output' = <<>> /\ ~torn' /\ OneLineTexts' => PictureIsShown'
<1> SUFFICES ASSUME Typed, Recent, Status, Underway, [Next]_vars,
                    output # <<>>, output' = <<>>, ~torn', OneLineTexts'
             PROVE  PictureIsShown'
  OBVIOUS
<1>1. Write
  <2>1. ASSUME User PROVE FALSE
    BY <2>1, UserIs
  <2>2. ASSUME Handler PROVE FALSE
    BY <2>2, HandlerIs
  <2>3. ASSUME UNCHANGED vars PROVE FALSE
    BY <2>3 DEF vars, terminal
  <2> QED BY <2>1, <2>2, <2>3 DEF Next
<1>2. Tail(output) = <<>> /\ UNCHANGED <<writer, log>>
  BY <1>1, WriteIs
<1> DEFINE n == Len(Upwards(writer))
<1>3. Head(output).do = "restore" /\ Len(output) = 1 /\ n \in Nat
  BY <1>2, OutputNext
<1>4. RestoreCursor
  BY <1>1, <1>3 DEF Write, SaveCursor, PrintNext, EraseInput, Writes
<1>5. /\ screen'.rows = screen.rows /\ screen'.row = saved.row /\ ~torn
  <2>1. screen' = [screen EXCEPT !.row = saved.row, !.col = saved.col] /\ torn' = torn
    BY <1>4 DEF RestoreCursor
  <2> QED BY <2>1 DEF Typed, Screens
<1>6. OneLineTexts /\ Picture' = Picture
  BY <1>2 DEF OneLineTexts, Picture
<1> DEFINE picture == Picture
<1>7. picture = Painted[n]
  BY <1>6, PictureIs, PaintedIs DEF Typed
<1> HIDE DEF picture
<1>8. PICK s \in Screens : s.row = saved.row /\ Drawn(s, screen, picture)
  <2>1. Len(output) \in 1..(n + 1) /\ n + 1 - Len(output) = n
    BY <1>3
  <2> QED BY <1>5, <1>6, <1>7, <2>1 DEF Underway
<1>9. \A i \in 1..(screen'.row - 1) :
        LET j == Len(picture) - (screen'.row - 1) + i
        IN j > 0 /\ (i = 1 => j = 1) => screen'.rows[i] = picture[j]
  BY <1>5, <1>8 DEF Drawn
<1> QED BY <1>6, <1>9 DEF PictureIsShown, picture

(***************************************************************************)
(* Whatever the program draws on a terminal of whatever size, the rows     *)
(* above the cursor then show the last messages in the order they were     *)
(* written, with the client's lines under them, unless something was typed *)
(* into this drawing (StdOutputWriter.cpp:23-49, 95-122).                  *)
(***************************************************************************)
THEOREM ConsolePrintedAbove == Spec => PrintedAbove
<1>1. Typed /\ Recent /\ Status /\ Underway /\ [Next]_vars =>
        [output # <<>> /\ output' = <<>> /\ ~torn' => (OneLineTexts => PictureIsShown)']_vars
  BY DrawnIsShown
<1>2. Spec => [](Typed /\ Recent /\ Status /\ Underway)
  <2>1. Init => Typed /\ Recent /\ Status /\ Underway
    BY TypedInit, RecentInit, UnderwayInit
  <2>2. Typed /\ Recent /\ Status /\ Underway /\ [Next]_vars
          => (Typed /\ Recent /\ Status /\ Underway)'
    BY TypedStep, RecentStep, UnderwayStep
  <2> QED BY <2>1, <2>2, PTL DEF Spec
<1> QED BY <1>1, <1>2, PTL DEF Spec, PrintedAbove

-----------------------------------------------------------------------------
(* What is sent.                                                           *)

\* What can be read ends with an entered line.
LinesEntered == flushes = 0 /\ input # <<>> => input[Len(input)] = NL

LEMMA SentStep ==
  Typed /\ SentAsTyped /\ LinesEntered /\ [Next]_vars => SentAsTyped' /\ LinesEntered'
<1> SUFFICES ASSUME Typed, SentAsTyped, LinesEntered, [Next]_vars
             PROVE  SentAsTyped' /\ LinesEntered'
  OBVIOUS
<1> DEFINE S == Key \union {NL}
<1>1. /\ sent \in Seq(S) /\ input \in Seq(S) /\ line \in Seq(S) /\ typed \in Seq(S)
      /\ flushes \in Nat /\ NL \in S /\ \A key \in Key : key \in S
  BY SeqGrows DEF Typed
<1> HIDE DEF S
<1>2. ASSUME NEW key \in Key, Type(key) PROVE SentAsTyped' /\ LinesEntered'
  <2>1. /\ line' = Append(line, key) /\ typed' = Append(typed, key)
        /\ UNCHANGED <<input, sent, closed, missed, flushes>>
    BY <1>2 DEF Type
  <2>2. sent \o input \o Append(line, key) = Append(sent \o input \o line, key)
    BY <1>1, ConcatAppend
  <2> QED BY <2>1, <2>2 DEF SentAsTyped, LinesEntered
<1>3. ASSUME Enter PROVE SentAsTyped' /\ LinesEntered'
  <2>1. /\ input' = input \o Append(line, NL) /\ line' = <<>> /\ typed' = Append(typed, NL)
        /\ UNCHANGED <<sent, closed, missed, flushes>>
    BY <1>3 DEF Enter
  <2>2. sent \o (input \o Append(line, NL)) \o <<>> = Append(sent \o input \o line, NL)
    <3>1. sent \o (input \o Append(line, NL)) = Append(sent \o input \o line, NL)
      <4> DEFINE entered == Append(line, NL)
      <4>1. sent \o input \o entered = Append(sent \o input \o line, NL)
        BY <1>1, ConcatAppend
      <4>2. entered \in Seq(S)
        BY <1>1
      <4> HIDE DEF entered
      <4>3. sent \in Seq(S) /\ input \in Seq(S)
        BY <1>1
      <4>4. sent \o (input \o entered) = (sent \o input) \o entered
        BY <4>2, <4>3, ConcatAssociative
      <4> QED BY <4>1, <4>4 DEF entered
    <3>2. sent \o (input \o Append(line, NL)) \in Seq(S)
      BY <1>1, ConcatEntered, Zenon
    <3> DEFINE new == sent \o (input \o Append(line, NL))
    <3> HIDE DEF new
    <3>3. new \o <<>> = new
      BY <3>2 DEF new
    <3> QED BY <3>1, <3>3 DEF new
  <2>3. (input \o Append(line, NL))[Len(input \o Append(line, NL))] = NL
    BY <1>1, ConcatEntered
  <2> QED BY <2>1, <2>2, <2>3 DEF SentAsTyped, LinesEntered
<1>4. ASSUME CtrlD PROVE SentAsTyped' /\ LinesEntered'
  <2>1. CASE line = <<>>
    <3>1. /\ input' = input \o line /\ line' = <<>> /\ UNCHANGED <<sent, typed, closed, missed, flushes>>
      BY <1>4, <2>1 DEF CtrlD
    <3>2. input \o <<>> = input
      BY <1>1
    <3> QED BY <2>1, <3>1, <3>2 DEF SentAsTyped, LinesEntered
  <2>2. CASE line # <<>>
    <3>1. flushes' # 0
      BY <1>1, <1>4, <2>2 DEF CtrlD
    <3> QED BY <3>1 DEF SentAsTyped, LinesEntered
  <2> QED BY <2>1, <2>2
<1>5. ASSUME OnIn PROVE SentAsTyped' /\ LinesEntered'
  <2>1. LinesEntered'
    BY <1>5 DEF OnIn, LinesEntered
  <2>2. CASE eof
    BY <1>5, <2>1, <2>2 DEF OnIn, OnReaderClosed, SentAsTyped
  <2>3. CASE ~eof /\ ~connected
    BY <1>5, <2>1, <2>3 DEF OnIn, OnMessageRead, SentAsTyped
  <2>4. CASE ~eof /\ connected
    <3>1. /\ sent' = sent \o Append(Front(input), NL) /\ input # <<>> /\ input' = <<>>
          /\ UNCHANGED <<line, typed, closed, missed, flushes>>
      BY <1>5, <2>4 DEF OnIn, OnMessageRead
    <3>2. ASSUME flushes = 0 PROVE sent' \o input' \o line' = sent \o input \o line
      <4>1. Append(Front(input), NL) = input
        BY <1>1, <3>1, <3>2, FrontIs DEF LinesEntered
      <4>2. (sent \o input) \o <<>> \o line = sent \o input \o line
        BY <1>1
      <4> QED BY <3>1, <4>1, <4>2
    <3> QED BY <2>1, <3>1, <3>2 DEF SentAsTyped
  <2> QED BY <2>2, <2>3, <2>4
<1>6. ASSUME (\E text \in Texts : OnTextMessage(text)) \/ (\E text \in Counts : OnServerInfoMessage(text))
             \/ OnConnected \/ Write \/ UNCHANGED vars
      PROVE  UNCHANGED <<line, input, sent, typed, closed, missed, flushes>>
  BY <1>6, WriteIs DEF OnTextMessage, OnServerInfoMessage, OnConnected, vars, history
<1>7. ASSUME UNCHANGED <<line, input, sent, typed, closed, missed, flushes>>
      PROVE  SentAsTyped' /\ LinesEntered'
  BY <1>7 DEF SentAsTyped, LinesEntered
<1>8. ASSUME ConnectionEnds PROVE SentAsTyped' /\ LinesEntered'
  BY <1>8 DEF ConnectionEnds, SentAsTyped, LinesEntered, history
<1> QED BY <1>2, <1>3, <1>4, <1>5, <1>6, <1>7, <1>8 DEF Next, User, Handler

(***************************************************************************)
(* Once connected, everything that is typed is sent or waits, and nothing  *)
(* twice or out of order, however the lines are gathered in messages       *)
(* (StdInputReader.cpp:29-52).                                             *)
(***************************************************************************)
THEOREM ConsoleSentAsTyped == Spec => []SentAsTyped
<1>1. Init => SentAsTyped /\ LinesEntered
  BY DEF Init, SentAsTyped, LinesEntered
<1> QED BY <1>1, SentStep, TypedInit, TypedStep, PTL DEF Spec

-----------------------------------------------------------------------------
(* The line of input.                                                      *)

\* Where the line is, before and after a step.
LEMMA HomeIs ==
  /\ ~Away => Home = [row |-> screen.row, col |-> screen.col]
  /\ Away => Home = saved
  /\ ~Away' => Home' = [row |-> screen'.row, col |-> screen'.col]
  /\ Away' => Home' = saved'
BY DEF Home

LEMMA HomeType ==
  ASSUME Typed
  PROVE  Home \in Positions /\ Home.row \in 1..Rows /\ Home.col \in 0..Cols
<1>1. Home \in Positions
  BY DEF Typed, Screens, Positions, Home
<1> QED BY <1>1 DEF Positions

\* A line that was entered has moved the cursor down, where it was not at the
\* bottom.
CursorLow ==
  ~strayed =>
    /\ Home.row + flushes + 1 >= Rows
    /\ input # <<>> \/ Resetting => Home.row + flushes >= Rows
    /\ Resetting => input = <<>>

\* The rows below the line are empty, so that what follows a line that was
\* entered starts with an empty row; a drawing stays above it.
InputKept ==
  ~closed /\ ~ahead /\ flushes = 0 /\ OneLineTexts =>
    /\ \A i \in (Home.row + 1)..Rows : screen.rows[i] = <<>>
    /\ Len(line) <= Cols => screen.rows[Home.row] = line /\ Home.col = Len(line)
    /\ input # <<>> \/ Resetting => line = <<>>
    /\ Away => screen.row <= saved.row

\* Every step of the writing, and where the line is after it.
LEMMA WriteSteps ==
  ASSUME Typed, Write
  PROVE  /\ ~Resetting'
         /\ \/ /\ SaveCursor /\ ~Away /\ screen' = screen
               /\ Home' = Home
               /\ Away' => saved'.row = screen.row
            \/ /\ PrintNext /\ Away /\ Away' /\ saved' = saved
               /\ screen' = PrintText(screen, Head(output).text)
               /\ Home' = Home
            \/ /\ RestoreCursor /\ Away /\ ~Away' /\ screen'.rows = screen.rows
               /\ Home' = Home
            \/ /\ EraseInput /\ Resetting /\ ~Away /\ ~Away'
               /\ screen' = EraseEntered(screen)
               /\ Home' = [row |-> screen'.row, col |-> screen'.col]
<1>1. output # <<>> /\ output' = Tail(output)
  BY WriteIs
<1>2. /\ output' # <<>> => <<Head(output).do, Head(output').do>> \in Follows
      /\ output' = <<>> => Head(output).do = "restore"
      /\ Head(output).text \in Seq(Character)
  BY <1>1, OutputNext DEF Op
<1>3. ~Resetting'
  BY <1>2 DEF Resetting, Follows
<1>4. screen \in Screens /\ saved \in Positions
  BY DEF Typed
<1>5. CASE SaveCursor
  <2>1. saved' = [row |-> screen.row, col |-> screen.col] /\ screen' = screen /\ Head(output).do = "save"
    BY <1>5 DEF SaveCursor, Writes
  <2>2. ~Away
    BY <2>1 DEF Away
  <2> QED BY <1>3, <1>5, <2>1, <2>2, HomeIs
<1>6. CASE PrintNext
  <2>1. Head(output).do = "print" /\ saved' = saved /\ screen' = PrintText(screen, Head(output).text)
    BY <1>6 DEF PrintNext, Writes
  <2>2. Away /\ Away'
    BY <1>1, <1>2, <2>1 DEF Away, Follows
  <2> QED BY <1>3, <1>6, <2>1, <2>2, HomeIs
<1>7. CASE RestoreCursor
  <2>1. Head(output).do = "restore" /\ screen' = [screen EXCEPT !.row = saved.row, !.col = saved.col]
    BY <1>7 DEF RestoreCursor, Writes
  <2>2. Away /\ ~Away'
    BY <1>1, <1>2, <2>1 DEF Away, Follows
  <2>3. /\ screen'.rows = screen.rows
        /\ [row |-> screen'.row, col |-> screen'.col] = saved
    BY <1>4, <2>1 DEF Screens, Positions
  <2> QED BY <1>3, <1>7, <2>2, <2>3, HomeIs
<1>8. CASE EraseInput
  <2>1. Head(output).do = "reset" /\ screen' = EraseEntered(screen)
    BY <1>8 DEF EraseInput, Writes
  <2>2. Resetting /\ ~Away /\ ~Away'
    BY <1>1, <1>2, <2>1 DEF Away, Resetting, Follows
  <2> QED BY <1>3, <1>8, <2>1, <2>2, HomeIs
<1> QED BY <1>5, <1>6, <1>7, <1>8 DEF Write

LEMMA CursorStep == Typed /\ CursorLow /\ [Next]_vars => CursorLow'
<1> SUFFICES ASSUME Typed, CursorLow, [Next]_vars, ~strayed' PROVE CursorLow'
  BY DEF CursorLow
<1>1. Typed'
  BY TypedStep
<1>2. /\ screen \in Screens /\ screen.row \in 1..Rows /\ flushes \in Nat /\ Rows \in Nat /\ Rows > 2
      /\ screen' \in Screens /\ screen'.row \in 1..Rows
      /\ Home.row \in 1..Rows
      /\ input \in Seq(Key \union {NL})
  BY <1>1, HomeType, Sizes DEF Typed, Screens
<1>3. ~strayed
  <2>1. CASE User
    BY <2>1, UserIs
  <2>2. CASE Write
    BY <2>2, WriteIs
  <2>3. CASE Handler
    BY <2>3, HandlerIs
  <2>4. CASE UNCHANGED vars
    BY <2>4 DEF vars, history
  <2> QED BY <2>1, <2>2, <2>3, <2>4 DEF Next
<1>4. /\ Home.row + flushes + 1 >= Rows
      /\ input # <<>> \/ Resetting => Home.row + flushes >= Rows
      /\ Resetting => input = <<>>
  BY <1>3 DEF CursorLow
<1>5. ASSUME User
      PROVE  /\ ~Away /\ ~Resetting /\ ~Away' /\ ~Resetting'
             /\ Home.row = screen.row /\ Home'.row = screen'.row
  <2>1. ~Away /\ ~Resetting /\ output' = output
    BY <1>5, UserIs
  <2>2. ~Away' /\ ~Resetting'
    BY <2>1 DEF Away, Resetting
  <2> QED BY <2>1, <2>2, HomeIs
<1>6. ASSUME NEW key \in Key, Type(key) PROVE CursorLow'
  <2>1. screen'.row >= screen.row /\ input' = input /\ flushes' = flushes
    BY <1>2, <1>6, PutCharIs, Characters DEF Type
  <2>2. User
    BY <1>6 DEF User
  <2> QED BY <1>2, <1>4, <1>5, <2>1, <2>2 DEF CursorLow
<1>7. ASSUME Enter PROVE CursorLow'
  <2>1. screen' = NewLine(screen) /\ flushes' = flushes /\ User
    BY <1>7 DEF Enter, User
  <2>2. screen'.row >= Rows \/ screen'.row = screen.row + 1
    BY <1>2, <2>1, NewLineIs
  <2> QED BY <1>2, <1>4, <1>5, <2>1, <2>2 DEF CursorLow
<1>8. ASSUME CtrlD PROVE CursorLow'
  <2>1. screen' = screen /\ User
    BY <1>8 DEF CtrlD, User
  <2>2. CASE line = <<>>
    <3>1. input' = input /\ flushes' = flushes
      <4>1. input \o <<>> = input
        BY <1>2
      <4> QED BY <1>8, <2>2, <4>1 DEF CtrlD
    <3> QED BY <1>4, <1>5, <2>1, <3>1 DEF CursorLow
  <2>3. CASE line # <<>>
    <3>1. flushes' = flushes + 1
      BY <1>8, <2>3 DEF CtrlD
    <3> QED BY <1>2, <1>4, <1>5, <2>1, <3>1 DEF CursorLow
  <2> QED BY <2>2, <2>3
<1>9. ASSUME Write PROVE CursorLow'
  <2>1. input' = input /\ flushes' = flushes /\ ~Resetting'
    BY <1>9, WriteIs, WriteSteps
  <2>2. CASE Home' = Home
    BY <1>4, <2>1, <2>2 DEF CursorLow
  <2>3. CASE /\ EraseInput /\ Resetting /\ ~Away
             /\ screen' = EraseEntered(screen) /\ Home'.row = screen'.row
    <3>1. screen'.row = Up(screen.row)
      BY <1>2, <2>3, EraseEnteredIs
    <3>2. Home.row = screen.row
      BY <2>3, HomeIs
    <3> QED BY <1>2, <1>4, <2>1, <2>3, <3>1, <3>2 DEF CursorLow, Up
  <2> QED BY <1>9, <2>2, <2>3, WriteSteps
<1>10. ASSUME Handler PROVE CursorLow'
  <2>1. /\ output = <<>> /\ flushes' = flushes
        /\ screen' = screen \/ (closed' /\ screen' = WriteError(screen, Error))
        /\ input' \in {input, <<>>}
        /\ output' # <<>> => Head(output').do \in {"save", "reset"}
        /\ output' # <<>> /\ Head(output').do = "reset" => input # <<>> /\ input' = <<>>
    BY <1>10, HandlerIs
  <2>2. ~Away /\ ~Away' /\ (Resetting' => input # <<>> /\ input' = <<>>)
    BY <2>1 DEF Away, Resetting
  <2>3. Home.row = screen.row /\ Home'.row = screen'.row
    BY <2>2, HomeIs
  <2>4. WriteError(screen, Error).row >= screen.row
    <3>1. Error \in Seq(Character)
      BY TextTypes
    <3> DEFINE t == NewLine(screen)
               u == Put(t, Error)
    <3>2. WriteError(screen, Error) = NewLine(u)
      BY DEF WriteError
    <3>3. t \in Screens /\ t.row >= screen.row
      BY <1>2, NewLineIs
    <3> HIDE DEF t
    <3>4. u \in Screens /\ u.row >= t.row
      BY <3>1, <3>3, PutIs
    <3> HIDE DEF u
    <3>5. u.row \in 1..Rows /\ t.row \in 1..Rows /\ NewLine(u) \in Screens
      BY <3>3, <3>4, NewLineIs DEF Screens
    <3>6. NewLine(u).row >= u.row /\ NewLine(u).row \in 1..Rows
      BY <1>2, <3>4, <3>5, NewLineIs DEF Screens
    <3> QED BY <1>2, <3>2, <3>3, <3>4, <3>5, <3>6
  <2>5. screen'.row >= screen.row
    BY <1>2, <2>1, <2>4
  <2> QED BY <1>2, <1>4, <2>1, <2>2, <2>3, <2>5 DEF CursorLow
<1>11. ASSUME UNCHANGED vars PROVE CursorLow'
  BY <1>4, <1>11 DEF vars, terminal, history, CursorLow, Home, Away, Resetting
<1> QED BY <1>6, <1>7, <1>8, <1>9, <1>10, <1>11 DEF Next, User

\* Nothing is written below the cursor.
LEMMA PutCharBelow ==
  ASSUME NEW t \in Screens, NEW char \in Character, char # NL
  PROVE  LET u == PutChar(t, char)
         IN \A i \in (u.row + 1)..Rows : i \in (t.row + 1)..Rows /\ u.rows[i] = t.rows[i]
<1> DEFINE at == IF t.col = Cols THEN NewLine(t) ELSE t
           u == PutChar(t, char)
<1>1. /\ t.rows \in [1..Rows -> Row] /\ t.row \in 1..Rows /\ Rows \in Nat
  BY Sizes DEF Screens
<1>2. at \in Screens
  BY NewLineIs
<1>3. (at.row = t.row + 1 \/ at.row = t.row) /\ (at.rows = t.rows \/ at.row = Rows)
  BY <1>1, NewLineIs
<1>4. u = [at EXCEPT !.rows[at.row] = Written(@, at.col + 1, char), !.col = @ + 1]
  BY DEF PutChar
<1> HIDE DEF at
<1>5. at.rows \in [1..Rows -> Row] /\ at.row \in 1..Rows
  BY <1>2 DEF Screens
<1>6. u.row = at.row /\ \A i \in 1..Rows : i # at.row => u.rows[i] = at.rows[i]
  BY <1>2, <1>4, <1>5 DEF Screens
<1> HIDE DEF u
<1>7. ASSUME NEW i \in (u.row + 1)..Rows PROVE i \in (t.row + 1)..Rows /\ u.rows[i] = t.rows[i]
  <2>1. i \in 1..Rows /\ i # at.row /\ i > at.row
    BY <1>5, <1>6, <1>1
  <2>2. at.rows = t.rows
    BY <1>1, <1>3, <2>1
  <2>3. i \in (t.row + 1)..Rows
    BY <1>1, <1>3, <1>5, <2>1
  <2> QED BY <1>6, <2>1, <2>2, <2>3
<1> QED BY <1>7 DEF u

\* Where the program puts the cursor: in an empty row, the last but one.
AtBottom(s) ==
  /\ s \in Screens /\ s.row = Rows - 1 /\ s.col = 0
  /\ s.rows[Rows - 1] = <<>> /\ s.rows[Rows] = <<>>

LEMMA ResetAtBottom ==
  ASSUME NEW s \in Screens, s.row = Rows, s.rows[Rows] = <<>>
  PROVE  AtBottom(EraseEntered(s))
<1> DEFINE t == EraseEntered(s)
<1>1. Up(Rows) = Rows - 1 /\ Rows - 1 \in Up(Rows)..(Rows - 1) /\ Rows - 1 + 1 = Rows
  BY Sizes DEF Up
<1>2. /\ t \in Screens /\ t.row = Rows - 1 /\ t.col = 0 /\ t.rows[Rows] = <<>>
      /\ t.rows[Rows - 1] = s.rows[Rows - 1 + 1]
  BY <1>1, EraseEnteredIs
<1> HIDE DEF t
<1>3. AtBottom(t)
  BY <1>1, <1>2 DEF AtBottom
<1> QED BY <1>3 DEF t

LEMMA OneLinesBefore ==
  ASSUME log \in Seq(Seq(Character)), OneLineTexts', log' = log \/ \E text : log' = Append(log, text)
  PROVE  OneLineTexts
<1>1. \A i \in DOMAIN log : i \in DOMAIN log' /\ log'[i] = log[i]
  <2>1. CASE log' = log
    BY <2>1
  <2>2. ASSUME NEW text, log' = Append(log, text)
        PROVE  \A i \in DOMAIN log : i \in DOMAIN log' /\ log'[i] = log[i]
    BY <2>2
  <2> QED BY <2>1, <2>2
<1> QED BY <1>1 DEF OneLineTexts

\* What must hold for the line to be shown does not come back once it is lost.
LEMMA PremiseStays ==
  Typed /\ [Next]_vars /\ ~closed' /\ ~ahead' /\ flushes' = 0 /\ OneLineTexts'
    => ~closed /\ ~ahead /\ flushes = 0 /\ OneLineTexts
<1> SUFFICES ASSUME Typed, [Next]_vars, ~closed', ~ahead', flushes' = 0, OneLineTexts'
             PROVE  ~closed /\ ~ahead /\ flushes = 0 /\ OneLineTexts
  OBVIOUS
<1>1. /\ ~closed /\ flushes = 0 /\ ~ahead
      /\ log' = log \/ \E text : log' = Append(log, text) /\ text \in Seq(Character)
  <2>1. \A text \in Texts : text \in Seq(Character)
    BY TextTypes
  <2>2. input # <<>> => You \o Front(input) \in Seq(Character)
    BY MessageType
  <2>3. CASE User
    BY <2>3 DEF User, Type, Enter, CtrlD, Typing, Typed
  <2>4. CASE \E text \in Texts : OnTextMessage(text)
    BY <2>1, <2>4 DEF OnTextMessage
  <2>5. CASE (\E text \in Counts : OnServerInfoMessage(text)) \/ OnConnected \/ Write \/ UNCHANGED vars
    <3>1. UNCHANGED <<closed, ahead, flushes, log>>
      BY <2>5, WriteIs DEF OnServerInfoMessage, OnConnected, vars, history
    <3> QED BY <3>1
  <2>6. CASE OnIn
    <3>1. ~closed /\ ~eof /\ UNCHANGED <<ahead, flushes>> /\ input # <<>>
      BY <2>6 DEF OnIn, OnReaderClosed, Handling
    <3>2. log' = log \/ log' = Append(log, You \o Front(input))
      BY <2>6, <3>1 DEF OnIn, OnMessageRead
    <3> QED BY <2>2, <3>1, <3>2
  <2>7. CASE ConnectionEnds
    BY <2>7 DEF ConnectionEnds
  <2> QED BY <2>3, <2>4, <2>5, <2>6, <2>7 DEF Next, Handler
<1>2. OneLineTexts
  BY <1>1, OneLinesBefore DEF Typed
<1> QED BY <1>1, <1>2

\* As long as all that is written is in one line.
LEMMA OneLinedStep ==
  Typed /\ Recent /\ Status /\ (OneLineTexts => OneLined(output)) /\ [Next]_vars
    => (OneLineTexts' => OneLined(output'))
<1> SUFFICES ASSUME Typed, Recent, Status, OneLineTexts => OneLined(output), [Next]_vars,
                    OneLineTexts'
             PROVE  OneLined(output')
  OBVIOUS
<1>1. Typed' /\ Recent' /\ Status'
  BY TypedStep, RecentStep
<1>2. (Typed /\ Recent /\ Status /\ OneLineTexts => OneLiners(writer))'
  BY PictureIs, PTL
<1>3. OneLiners(writer') /\ writer' \in Writers /\ writer \in Writers
  BY <1>1, <1>2 DEF OneLiners, Typed
<1>4. CASE User \/ UNCHANGED vars
  <2>1. UNCHANGED <<output, log>>
    BY <1>4, UserIs DEF vars, terminal, history
  <2> QED BY <2>1 DEF OneLineTexts
<1>5. CASE Write
  <2>1. output # <<>> /\ output' = Tail(output) /\ log' = log
    BY <1>5, WriteIs
  <2>2. OneLined(output)
    BY <2>1 DEF OneLineTexts
  <2> QED BY <2>1, <2>2, OutputNext
<1>6. CASE \E w : Shows(w)
  BY <1>3, <1>6, QueuedUpdate DEF Shows
<1>7. CASE OnIn /\ ~eof
  <2>1. output' = ResetInputLine(writer) \o UpdateScreen(writer')
        \/ output' = ResetInputLine(writer)
    BY <1>7 DEF OnIn, OnMessageRead
  <2>2. log' = log \/ log' = Append(log, You \o Front(input))
    BY <1>7 DEF OnIn, OnMessageRead
  <2>3. OneLineTexts
    BY <2>2, OneLinesBefore DEF Typed
  <2>4. OneLiners(writer)
    BY <2>3, PictureIs
  <2> QED BY <1>3, <2>1, <2>4, QueuedTwice, QueuedReset
<1>8. CASE (OnIn /\ eof) \/ ConnectionEnds
  <2>1. UNCHANGED <<output, log>>
    BY <1>8 DEF OnIn, OnReaderClosed, ConnectionEnds, history
  <2> QED BY <2>1 DEF OneLineTexts
<1> QED BY <1>4, <1>5, <1>6, <1>7, <1>8
        DEF Next, Handler, OnTextMessage, OnServerInfoMessage, OnConnected

LEMMA InputInit == Init => CursorLow /\ InputKept /\ (OneLineTexts => OneLined(output))
<1> SUFFICES ASSUME Init PROVE CursorLow /\ InputKept /\ OneLined(output)
  OBVIOUS
<1>1. OneLined(output) /\ output # <<>> /\ Head(output).do = "reset"
  BY InitIs
<1>2. screen.row = Rows /\ screen.col = 0 /\ screen.rows[Rows] = <<>> /\ Rows \in Nat
  BY Sizes DEF Init, Cleared
<1>3. ~Away /\ Home.row = Rows /\ Home.col = 0
  BY <1>1, <1>2, HomeIs DEF Away
<1>4. line = <<>> /\ input = <<>> /\ flushes = 0 /\ Len(<<>>) = 0
  BY DEF Init
<1> QED BY <1>1, <1>2, <1>3, <1>4 DEF CursorLow, InputKept

LEMMA KeptStep ==
  Typed /\ Recent /\ Status /\ CursorLow /\ InputKept
  /\ (OneLineTexts => OneLined(output)) /\ [Next]_vars
    => InputKept'
<1> SUFFICES ASSUME Typed, Recent, Status, CursorLow, InputKept,
                    OneLineTexts => OneLined(output), [Next]_vars,
                    ~closed', ~ahead', flushes' = 0, OneLineTexts'
             PROVE  InputKept'
  BY DEF InputKept
<1> DEFINE Kept == /\ \A i \in (Home.row + 1)..Rows : screen.rows[i] = <<>>
                   /\ Len(line) <= Cols => screen.rows[Home.row] = line /\ Home.col = Len(line)
                   /\ input # <<>> \/ Resetting => line = <<>>
                   /\ Away => screen.row <= saved.row
<1>1. ~closed /\ ~ahead /\ flushes = 0 /\ OneLineTexts /\ OneLined(output) /\ ~strayed
  BY PremiseStays DEF Typed
<1>2. Kept
  BY <1>1 DEF InputKept
<1>3. /\ screen \in Screens /\ screen.row \in 1..Rows /\ screen.rows \in [1..Rows -> Row]
      /\ screen.col \in 0..Cols /\ line \in Seq(Key)
      /\ input \in Seq(Key \union {NL}) /\ Rows \in Nat /\ Rows > 2 /\ Cols \in Nat /\ Cols > 0
      /\ Home.row \in 1..Rows
  BY HomeType, Sizes DEF Typed, Screens
<1>4. Home.row >= Rows - 1 /\ Home.row > 1 /\ (input # <<>> \/ Resetting => Home.row = Rows)
  BY <1>1, <1>3 DEF CursorLow
<1>5. ASSUME User
      PROVE  /\ ~Away /\ ~Resetting /\ ~Away' /\ ~Resetting' /\ input = <<>>
             /\ Home.row = screen.row /\ Home'.row = screen'.row
             /\ Home.col = screen.col /\ Home'.col = screen'.col
  <2>1. ~Away /\ ~Resetting /\ output' = output /\ input = <<>>
    BY <1>5, UserIs
  <2>2. ~Away' /\ ~Resetting'
    BY <2>1 DEF Away, Resetting
  <2> QED BY <2>1, <2>2, HomeIs
<1>6. ASSUME NEW key \in Key, Type(key) PROVE Kept'
  <2>1. /\ User /\ input' = input /\ line' = Append(line, key)
        /\ screen' = PutChar(screen, key)
    BY <1>6 DEF Type, User
  <2>2. key \in Character /\ key # NL
    BY Characters
  <2>3. \A i \in (screen'.row + 1)..Rows : screen'.rows[i] = <<>>
    BY <1>2, <1>3, <1>5, <2>1, <2>2, PutCharBelow
  <2>4. ASSUME Len(line') <= Cols
        PROVE  screen'.rows[screen'.row] = line' /\ screen'.col = Len(line')
    <3>1. Len(line') = Len(line) + 1 /\ Len(line) \in Nat /\ Len(line) < Cols
      BY <1>3, <2>1, <2>4
    <3>2. screen.rows[screen.row] = line /\ screen.col = Len(line) /\ screen.col < Cols
      BY <1>2, <1>3, <1>5, <2>1, <3>1
    <3>3. screen' = [rows |-> [screen.rows EXCEPT ![screen.row] = Written(@, screen.col + 1, key)],
                     row |-> screen.row, col |-> screen.col + 1]
      BY <1>3, <2>1, <2>2, <3>2, PutCharIs
    <3>4. Written(line, Len(line) + 1, key) = Append(line, key)
      <4>1. line \in Row /\ Len(line) + 1 \in 1..Cols
        BY <1>3, <3>1, <3>2
      <4> QED BY <2>2, <4>1, WrittenType
    <3> QED BY <1>3, <2>1, <3>1, <3>2, <3>3, <3>4
  <2> QED BY <1>5, <2>1, <2>3, <2>4
<1>7. ASSUME Enter PROVE Kept'
  <2>1. User /\ line' = <<>> /\ screen' = NewLine(screen) /\ Len(<<>>) = 0
    BY <1>7 DEF Enter, User
  <2>2. screen'.col = 0
    BY <1>3, <2>1, NewLineIs
  <2>3. CASE screen.row < Rows
    <3>1. screen'.row = screen.row + 1 /\ screen'.rows = screen.rows
      BY <1>3, <2>1, <2>3, NewLineIs
    <3>2. screen.row + 1 \in (screen.row + 1)..Rows
          /\ \A i \in (screen'.row + 1)..Rows : i \in (screen.row + 1)..Rows
      BY <1>3, <2>3, <3>1
    <3> QED BY <1>2, <1>5, <2>1, <2>2, <3>1, <3>2
  <2>4. CASE screen.row = Rows
    <3>1. screen'.row = Rows /\ screen'.rows[Rows] = <<>>
      BY <1>3, <2>1, <2>4, NewLineIs
    <3>2. (screen'.row + 1)..Rows = {}
      BY <1>3, <3>1
    <3> QED BY <1>5, <2>1, <2>2, <3>1, <3>2
  <2> QED BY <1>3, <2>3, <2>4
<1>8. ASSUME CtrlD PROVE Kept'
  <2>1. line = <<>> /\ User
    BY <1>1, <1>8 DEF CtrlD, User
  <2>2. input \o <<>> = input
    BY <1>3
  <2>3. UNCHANGED <<screen, line, input>>
    BY <1>8, <2>1, <2>2 DEF CtrlD
  <2> QED BY <1>2, <1>5, <2>1, <2>3
<1>9. ASSUME Write PROVE Kept'
  <2>1. UNCHANGED <<input, line>> /\ output # <<>> /\ ~Resetting'
    BY <1>9, WriteIs, WriteSteps
  <2>2. CASE SaveCursor /\ screen' = screen /\ Home' = Home /\ (Away' => saved'.row = screen.row)
    BY <1>2, <1>3, <2>1, <2>2
  <2>3. CASE /\ PrintNext /\ Away /\ saved' = saved /\ Home' = Home
             /\ screen' = PrintText(screen, Head(output).text)
    <3> DEFINE text == Head(output).text
    <3>1. text \in Seq(Character) /\ OneLine(text)
      BY <1>1, <2>1, OutputNext DEF Op
    <3>2. Home.row = saved.row /\ Home.row \in 2..Rows /\ screen.row <= Home.row
      BY <1>2, <1>3, <1>4, <2>3, HomeIs
    <3> HIDE DEF text
    <3>3. screen'.row <= Home.row /\ \A i \in Home.row..Rows : screen'.rows[i] = screen.rows[i]
      BY <1>3, <2>3, <3>1, <3>2, PrintTextAbove DEF text
    <3>4. Home.row \in Home.row..Rows /\ (Home.row + 1)..Rows \subseteq Home.row..Rows
      BY <1>3
    <3> QED BY <1>2, <2>1, <2>3, <3>2, <3>3, <3>4
  <2>4. CASE RestoreCursor /\ ~Away' /\ screen'.rows = screen.rows /\ Home' = Home
    BY <1>2, <2>1, <2>4
  <2>5. CASE /\ EraseInput /\ Resetting /\ ~Away /\ ~Away'
             /\ screen' = EraseEntered(screen)
             /\ Home' = [row |-> screen'.row, col |-> screen'.col]
    <3>1. line = <<>> /\ Len(line) = 0 /\ screen.row = Rows /\ screen.rows[Rows] = <<>>
      BY <1>2, <1>3, <1>4, <2>5, HomeIs
    <3>2. AtBottom(screen')
      BY <1>3, <2>5, <3>1, ResetAtBottom
    <3>3. screen'.row = Rows - 1 /\ \A i \in (Rows - 1 + 1)..Rows : i = Rows
      BY <1>3, <3>2 DEF AtBottom
    <3> QED BY <2>1, <2>5, <3>1, <3>2, <3>3 DEF AtBottom
  <2> QED BY <1>9, <2>2, <2>3, <2>4, <2>5, WriteSteps
<1>10. ASSUME Handler PROVE Kept'
  <2>1. /\ output = <<>> /\ line' = line /\ screen' = screen /\ input' \in {input, <<>>}
        /\ output' # <<>> => Head(output').do \in {"save", "reset"}
        /\ output' # <<>> /\ Head(output').do = "reset" => input # <<>>
    BY <1>10, HandlerIs
  <2>2. ~Away /\ ~Away' /\ (Resetting' => input # <<>>)
    BY <2>1 DEF Away, Resetting
  <2>3. Home' = Home
    BY <2>1, <2>2, HomeIs
  <2> QED BY <1>2, <2>1, <2>2, <2>3
<1>11. ASSUME UNCHANGED vars PROVE Kept'
  BY <1>2, <1>11 DEF vars, terminal, Home, Away, Resetting
<1>12. Kept'
  BY <1>6, <1>7, <1>8, <1>9, <1>10, <1>11 DEF Next, User
<1> QED BY <1>12 DEF InputKept

(***************************************************************************)
(* What the user has typed of a line stands in a row of its own at the     *)
(* bottom of the screen, whatever is drawn before, while or after it is    *)
(* typed, as long as it is not typed into a drawing, and a line that was   *)
(* entered is erased from there, on a terminal of whatever size            *)
(* (Client.cpp:62-63, StdOutputWriter.cpp:26, 38, 61-65).                  *)
(***************************************************************************)
THEOREM ConsoleInputShown == Spec => []InputShown
<1> DEFINE Inv == /\ Typed /\ Recent /\ Status /\ CursorLow /\ InputKept
                  /\ OneLineTexts => OneLined(output)
<1>1. Init => Inv
  BY TypedInit, RecentInit, InputInit
<1>2. Inv /\ [Next]_vars => Inv'
  <2> SUFFICES ASSUME Inv, [Next]_vars PROVE Inv'
    OBVIOUS
  <2>1. Typed' /\ Recent' /\ Status' /\ CursorLow' /\ InputKept'
    BY TypedStep, RecentStep, CursorStep, KeptStep
  <2>2. OneLineTexts' => OneLined(output')
    BY OneLinedStep
  <2> QED BY <2>1, <2>2 DEF OneLined
<1>3. Inv => InputShown
  BY DEF CursorLow, InputKept, InputShown
<1> QED BY <1>1, <1>2, <1>3, PTL DEF Spec
=============================================================================

---------------------------- MODULE ParserProofs ----------------------------
(***************************************************************************)
(* Whatever the other end sends and however it is cut: the buffer is       *)
(* bounded, and the parser makes of the stream what it would make of       *)
(* single bytes.  And of messages that fit it makes those messages.        *)
(*                                                                         *)
(* Induction is by the smallest number for which a claim fails, with the   *)
(* set of these numbers written out (SmallestIn).                          *)
(***************************************************************************)
EXTENDS Parser, FiniteSetTheorems, WellFoundedInduction, TLAPS

Buffers ==
  /\ stream \in Seq(Byte)
  /\ data_to_parse_ \in Seq(Byte)
  /\ parsing \in BOOLEAN
  /\ BufferBounded

LEMMA LimitType == MAX_MESSAGE_LENGTH \in Nat \ {0, 1}
BY ParserAssumption

LEMMA BuildType == ASSUME NEW m \in Message PROVE Build(m) \in Seq(Byte)
<1>1. /\ m.header \in Headers
      /\ m.texts \in Seq(Seq(Byte \ {SEPARATOR})) /\ Len(m.texts) = Fields(m.header)
  BY DEF Message
<1>2. <<m.header, SEPARATOR>> \in Seq(Byte)
  BY <1>1 DEF Byte
<1>3. \A i \in 1..Len(m.texts) : m.texts[i] \in Seq(Byte \ {SEPARATOR})
  BY <1>1
<1>4. ASSUME NEW text \in Seq(Byte \ {SEPARATOR}) PROVE BuildText(text) \in Seq(Byte)
  <2>1. text \in Seq(Byte) /\ SEPARATOR \in Byte
    BY DEF Byte
  <2> QED BY <2>1 DEF BuildText
<1>5. BuildText(m.texts[1]) \in Seq(Byte)
  BY <1>1, <1>3, <1>4 DEF Fields
<1>6. m.header = "c" => BuildText(m.texts[2]) \in Seq(Byte)
  BY <1>1, <1>3, <1>4 DEF Fields
<1> QED BY <1>2, <1>5, <1>6 DEF Build

\* A buffer over the limit holds something that ParseMessage would take out.
LEMMA LongBufferEnds ==
  ASSUME NEW b \in Seq(Byte), Len(b) > MAX_MESSAGE_LENGTH
  PROVE  \E n \in DOMAIN b : Ends(b, n)
<1>1. MAX_MESSAGE_LENGTH + 1 \in DOMAIN b
  BY LimitType
<1>2. Ends(b, MAX_MESSAGE_LENGTH + 1)
  BY LimitType DEF Ends
<1> QED BY <1>1, <1>2

LEMMA CutType ==
  ASSUME NEW b \in Seq(Byte), NEW n \in 1..Len(b)
  PROVE  SubSeq(b, 1, n) \in Seq(Byte) /\ SubSeq(b, n + 1, Len(b)) \in Seq(Byte)
<1>1. \A i \in 1..Len(b) : b[i] \in Byte
  OBVIOUS
<1> QED BY <1>1

LEMMA BuffersStep == Buffers /\ [Next]_vars => Buffers'
<1> SUFFICES ASSUME Buffers, [Next]_vars PROVE Buffers'
  OBVIOUS
<1> USE DEF Buffers, BufferBounded
<1>1. ASSUME NEW m \in Writes, Write(m) PROVE Buffers'
  <2>1. Build(m) \in Seq(Byte)
    <3>1. m \in Message
      BY ParserAssumption
    <3> QED BY <3>1, BuildType
  <2>2. stream' \in Seq(Byte)
    BY <1>1, <2>1 DEF Write
  <2> QED BY <1>1, <2>2 DEF Write
<1>2. ASSUME NEW bytes \in Junk, WriteJunk(bytes) PROVE Buffers'
  <2>1. stream' \in Seq(Byte)
    BY <1>2, ParserAssumption DEF WriteJunk
  <2> QED BY <1>2, <2>1 DEF WriteJunk
<1>3. ASSUME NEW n \in DOMAIN stream, ParseData(n) PROVE Buffers'
  <2>1. SubSeq(stream, 1, n) \in Seq(Byte) /\ SubSeq(stream, n + 1, Len(stream)) \in Seq(Byte)
    BY CutType
  <2>2. /\ data_to_parse_' = data_to_parse_ \o SubSeq(stream, 1, n)
        /\ stream' = SubSeq(stream, n + 1, Len(stream))
        /\ parsing' = TRUE
    BY <1>3 DEF ParseData
  <2>3. data_to_parse_' \in Seq(Byte) /\ stream' \in Seq(Byte)
    BY <2>1, <2>2
  <2> QED BY <2>2, <2>3
<1>4. CASE ParseMessage
  <2>1. PICK n \in DOMAIN data_to_parse_ :
          data_to_parse_' = SubSeq(data_to_parse_, n + 1, Len(data_to_parse_))
    BY <1>4 DEF ParseMessage
  <2>2. data_to_parse_' \in Seq(Byte)
    BY <2>1, CutType
  <2> QED BY <1>4, <2>2 DEF ParseMessage
<1>5. CASE Incomplete
  <2>1. ~(Len(data_to_parse_) > MAX_MESSAGE_LENGTH)
    <3>1. \A n \in DOMAIN data_to_parse_ : ~Ends(data_to_parse_, n)
      BY <1>5 DEF Incomplete
    <3> QED BY <3>1, LongBufferEnds
  <2>2. UNCHANGED <<stream, data_to_parse_>> /\ parsing' = FALSE
    BY <1>5 DEF Incomplete
  <2>3. Len(data_to_parse_) <= MAX_MESSAGE_LENGTH
    BY <2>1, LimitType
  <2>4. BufferBounded'
    BY <2>2, <2>3
  <2> QED BY <2>2, <2>4
<1>6. CASE UNCHANGED vars
  BY <1>6 DEF vars
<1> QED BY <1>1, <1>2, <1>3, <1>4, <1>5, <1>6 DEF Next

LEMMA BuffersInit == Init => Buffers
<1> SUFFICES ASSUME Init PROVE Buffers
  OBVIOUS
<1>1. <<>> \in Seq(Byte) /\ Len(<<>>) <= MAX_MESSAGE_LENGTH
  BY LimitType
<1>2. stream = <<>> /\ data_to_parse_ = <<>> /\ parsing = FALSE
  BY DEF Init
<1> QED BY <1>1, <1>2 DEF Buffers, BufferBounded

(***************************************************************************)
(* However much a peer sends without ever ending a message, the buffer     *)
(* holds MAX_MESSAGE_LENGTH bytes at most between two calls of ParseData   *)
(* (Parser.cpp:72-81, 116-120).                                            *)
(***************************************************************************)
THEOREM ParserBufferBounded == Spec => []BufferBounded
<1>1. Buffers => BufferBounded
  BY DEF Buffers
<1> QED BY <1>1, BuffersInit, BuffersStep, PTL DEF Spec

-----------------------------------------------------------------------------
(* Induction and folds.                                                    *)

\* A set of natural numbers has a smallest one: the form in which this module
\* uses induction, with the set of the numbers where a claim fails.
LEMMA SmallestIn ==
  ASSUME NEW T, T \subseteq Nat, T # {}
  PROVE  \E n \in T : \A k \in T : n <= k
<1>1. IsWellFoundedOn(OpToRel(<, Nat), Nat)
  BY NatLessThanWellFounded
<1>2. \E n \in T : \A k \in T : <<k, n>> \notin OpToRel(<, Nat)
  BY <1>1, WFMin
<1>3. \A k, n \in Nat : k < n => <<k, n>> \in OpToRel(<, Nat)
  BY Zenon DEF OpToRel
<1> DEFINE R == OpToRel(<, Nat)
<1>4. PICK n \in T : \A k \in T : <<k, n>> \notin R
  BY <1>2
<1>5. \A k \in Nat : k < n => <<k, n>> \in R
  BY <1>3
<1> HIDE DEF R
<1>6. \A k \in T : ~(k < n)
  BY <1>4, <1>5
<1> QED BY <1>6

-----------------------------------------------------------------------------
(* The byte-by-byte parser: FoldLeft(Push, s, bytes) as a sequence of states. *)

IsRun(f, s, bytes) ==
  /\ DOMAIN f = 0..Len(bytes) /\ f[0] = s
  /\ \A i \in 1..Len(bytes) : f[i] = Push(f[i - 1], bytes[i])

\* The function that MapThenFoldSet chooses for FoldLeft.
Iter(s, bytes, i, g) ==
  g = [S \in SUBSET (1..i) |->
         IF S = {} THEN s ELSE Push(g[S \ {Max(S)}], bytes[Max(S)])]

LEMMA MaxIs ==
  ASSUME NEW i \in Nat, NEW S, S \subseteq 1..i, i \in S
  PROVE  Max(S) = i
<1>1. \A y \in S : i >= y
  OBVIOUS
<1>2. \A j \in S : (\A y \in S : j >= y) => j = i
  OBVIOUS
<1> QED BY <1>1, <1>2 DEF Max

\* One more byte: the sets that hold its index, and those that do not.
LEMMA IterStep ==
  ASSUME NEW s, NEW bytes, NEW i \in Nat, NEW g, Iter(s, bytes, i, g)
  PROVE  \E h : Iter(s, bytes, i + 1, h)
<1> DEFINE h == [S \in SUBSET (1..(i + 1)) |->
                   IF i + 1 \in S THEN Push(g[S \ {i + 1}], bytes[i + 1]) ELSE g[S]]
<1> DEFINE e == [S \in SUBSET (1..(i + 1)) |->
         IF S = {} THEN s ELSE Push(h[S \ {Max(S)}], bytes[Max(S)])]
<1>1. ASSUME NEW S \in SUBSET (1..(i + 1)) PROVE h[S] = e[S]
  <2>1. CASE i + 1 \in S
    <3>1. Max(S) = i + 1
      <4>1. i + 1 \in Nat /\ S \subseteq 1..(i + 1)
        OBVIOUS
      <4> QED BY <2>1, <4>1, MaxIs
    <3>2. S \ {i + 1} \in SUBSET (1..(i + 1)) /\ i + 1 \notin S \ {i + 1}
      OBVIOUS
    <3>3. h[S \ {i + 1}] = g[S \ {i + 1}]
      BY <3>2
    <3>4. h[S] = Push(g[S \ {i + 1}], bytes[i + 1])
      BY <2>1
    <3>5. e[S] = Push(h[S \ {i + 1}], bytes[i + 1])
      BY <2>1, <3>1
    <3> HIDE DEF h, e
    <3> QED BY <3>3, <3>4, <3>5
  <2>2. CASE i + 1 \notin S
    <3>1. S \in SUBSET (1..i)
      BY <2>2
    <3>2. h[S] = g[S]
      BY <2>2
    <3>3. CASE S = {}
      BY <3>1, <3>2, <3>3 DEF Iter
    <3>4. CASE S # {}
      <4>1. Max(S) \in S
        <5>1. \E n \in 1..i : n \in S /\ \A y \in S : n >= y
          <6>1. {n \in Nat : \A y \in S : n >= y} # {}
            BY <3>1
          <6>2. PICK n \in Nat : (\A y \in S : n >= y) /\ \A k \in Nat : (\A y \in S : k >= y) => n <= k
            BY <6>1, SmallestIn
          <6>3. n \in S
            <7>1. SUFFICES ASSUME n \notin S PROVE FALSE
              OBVIOUS
            <7>2. n # 0 /\ n - 1 \in Nat /\ \A y \in S : n - 1 >= y
              <8>1. PICK y \in S : TRUE
                BY <3>4
              <8>2. y \in 1..i /\ n >= y
                BY <3>1, <6>2, <8>1
              <8>3. \A z \in S : z \in Nat /\ n >= z /\ n # z
                BY <3>1, <6>2, <7>1
              <8>4. n - 1 \in Nat /\ n # 0
                BY <8>2
              <8> QED BY <8>3, <8>4
            <7> QED BY <6>2, <7>2
          <6> QED BY <3>1, <6>2, <6>3
        <5> QED BY <5>1 DEF Max
      <4>2. S \ {Max(S)} \in SUBSET (1..(i + 1)) /\ i + 1 \notin S \ {Max(S)}
        BY <2>2
      <4>3. h[S \ {Max(S)}] = g[S \ {Max(S)}]
        BY <4>2
      <4>4. g[S] = Push(g[S \ {Max(S)}], bytes[Max(S)])
        BY <3>1, <3>4 DEF Iter
      <4>5. e[S] = Push(h[S \ {Max(S)}], bytes[Max(S)])
        BY <3>4
      <4> HIDE DEF h, e
      <4> QED BY <3>2, <4>3, <4>4, <4>5
    <3> QED BY <3>3, <3>4
  <2> QED BY <2>1, <2>2
<1>2. h = e
  BY <1>1
<1>3. Iter(s, bytes, i + 1, h)
  BY <1>2 DEF Iter
<1> QED BY <1>3

LEMMA IterExists ==
  ASSUME NEW s, NEW bytes, NEW i \in Nat
  PROVE  \E g : Iter(s, bytes, i, g)
<1> DEFINE T == {n \in Nat : ~\E g : Iter(s, bytes, n, g)}
<1>1. SUFFICES ASSUME T # {} PROVE FALSE
  OBVIOUS
<1>2. PICK n \in T : \A k \in T : n <= k
  BY <1>1, SmallestIn
<1>3. CASE n = 0
  <2> DEFINE g == [S \in SUBSET (1..0) |-> s]
  <2>1. g = [S \in SUBSET (1..0) |->
              IF S = {} THEN s ELSE Push(g[S \ {Max(S)}], bytes[Max(S)])]
    OBVIOUS
  <2>2. Iter(s, bytes, 0, g)
    BY <2>1 DEF Iter
  <2> QED BY <1>3, <2>2
<1>4. CASE n # 0
  <2>1. n - 1 \in Nat /\ n - 1 \notin T
    BY <1>2, <1>4
  <2>2. \E g : Iter(s, bytes, n - 1, g)
    BY <2>1
  <2>3. \E g : Iter(s, bytes, (n - 1) + 1, g)
    BY <2>1, <2>2, IterStep
  <2>4. (n - 1) + 1 = n
    OBVIOUS
  <2> QED BY <2>3, <2>4
<1> QED BY <1>3, <1>4

LEMMA FirstNumbers ==
  ASSUME NEW n \in Nat, NEW i \in 1..n
  PROVE  /\ Max(1..i) = i
         /\ (1..i) \ {i} = 1..(i - 1) /\ 1..i \in SUBSET (1..n) /\ 1..i # {}
<1>1. i \in Nat /\ i \in 1..i
  OBVIOUS
<1>2. Max(1..i) = i
  BY <1>1, MaxIs
<1>3. (1..i) \ {i} = 1..(i - 1)
  OBVIOUS
<1> QED BY <1>1, <1>2, <1>3

LEMMA FoldIsRun ==
  ASSUME NEW s, NEW bytes, Len(bytes) \in Nat, DOMAIN bytes = 1..Len(bytes),
         NEW f, IsRun(f, s, bytes)
  PROVE  FoldLeft(Push, s, bytes) = f[Len(bytes)]
<1> DEFINE n == Len(bytes)
           iter == CHOOSE g : Iter(s, bytes, n, g)
<1>1. FoldLeft(Push, s, bytes) =
        (CHOOSE g : g = [S \in SUBSET (DOMAIN bytes) |->
           IF S = {} THEN s ELSE Push(g[S \ {Max(S)}], bytes[Max(S)])])[DOMAIN bytes]
  BY Zenon DEF FoldLeft, MapThenFoldSet
<1>2. FoldLeft(Push, s, bytes) = iter[1..n]
  BY <1>1, Zenon DEF Iter
<1>3. Iter(s, bytes, n, iter)
  BY IterExists
<1> HIDE DEF iter
<1> DEFINE T == {i \in 0..n : iter[1..i] # f[i]}
<1>4. ASSUME T # {} PROVE FALSE
  <2>1. PICK i \in T : \A k \in T : i <= k
    <3>1. T \subseteq Nat
      OBVIOUS
    <3> HIDE DEF T
    <3> QED BY <1>4, <3>1, SmallestIn
  <2>2. CASE i = 0
    <3>1. 1..0 \in SUBSET (1..n) /\ 1..0 = {}
      OBVIOUS
    <3>2. iter[1..0] = s
      BY <1>3, <3>1 DEF Iter
    <3> QED BY <2>1, <2>2, <3>2 DEF IsRun
  <2>3. CASE i # 0
    <3>1. i - 1 \in 0..n /\ i - 1 \notin T /\ i \in 1..n
      BY <2>1, <2>3
    <3>2. iter[1..(i - 1)] = f[i - 1]
      BY <3>1
    <3>3. /\ Max(1..i) = i
          /\ (1..i) \ {i} = 1..(i - 1) /\ 1..i \in SUBSET (1..n) /\ 1..i # {}
      <4> HIDE DEF n
      <4>1. n \in Nat
        BY DEF n
      <4> QED BY <3>1, <4>1, FirstNumbers
    <3>5. iter[1..i] = Push(iter[1..(i - 1)], bytes[i])
      BY <1>3, <3>3 DEF Iter
    <3>6. f[i] = Push(f[i - 1], bytes[i])
      BY <3>1 DEF IsRun
    <3> QED BY <2>1, <3>2, <3>5, <3>6
  <2> QED BY <2>2, <2>3
<1> QED BY <1>2, <1>4

LEMMA RunExists ==
  ASSUME NEW s, NEW bytes, Len(bytes) \in Nat
  PROVE  \E f : IsRun(f, s, bytes)
<1>1. PICK g : Iter(s, bytes, Len(bytes), g)
  BY IterExists
<1> DEFINE f == [i \in 0..Len(bytes) |-> g[1..i]]
<1>2. f[0] = s
  <2>1. 1..0 \in SUBSET (1..Len(bytes)) /\ 1..0 = {}
    OBVIOUS
  <2> QED BY <1>1, <2>1 DEF Iter
<1>3. ASSUME NEW i \in 1..Len(bytes) PROVE f[i] = Push(f[i - 1], bytes[i])
  <2>1. /\ Max(1..i) = i
        /\ (1..i) \ {i} = 1..(i - 1) /\ 1..i \in SUBSET (1..Len(bytes)) /\ 1..i # {}
    BY FirstNumbers
  <2>3. g[1..i] = Push(g[1..(i - 1)], bytes[i])
    BY <1>1, <2>1 DEF Iter
  <2> QED BY <2>3
<1>4. IsRun(f, s, bytes)
  BY <1>2, <1>3 DEF IsRun
<1> QED BY <1>4

\* Bytes that come after others are folded into what those have left.
LEMMA FoldConcat ==
  ASSUME NEW s, NEW a \in Seq(Byte), NEW b \in Seq(Byte)
  PROVE  FoldLeft(Push, s, a \o b) = FoldLeft(Push, FoldLeft(Push, s, a), b)
<1>0. Len(a) \in Nat /\ Len(b) \in Nat
  OBVIOUS
<1>1. PICK f : IsRun(f, s, a)
  BY <1>0, RunExists
<1>2. FoldLeft(Push, s, a) = f[Len(a)]
  BY <1>1, FoldIsRun
<1>3. PICK g : IsRun(g, f[Len(a)], b)
  BY <1>0, RunExists
<1>4. FoldLeft(Push, f[Len(a)], b) = g[Len(b)]
  BY <1>3, FoldIsRun
<1> DEFINE n == Len(a)
           h == [i \in 0..(Len(a) + Len(b)) |-> IF i <= n THEN f[i] ELSE g[i - n]]
<1>5. /\ Len(a \o b) = n + Len(b) /\ a \o b \in Seq(Byte)
      /\ \A i \in 1..n : (a \o b)[i] = a[i]
      /\ \A i \in (n + 1)..(n + Len(b)) : (a \o b)[i] = b[i - n]
  OBVIOUS
<1>6. ASSUME NEW i \in 1..(n + Len(b)) PROVE h[i] = Push(h[i - 1], (a \o b)[i])
  <2>1. CASE i <= n
    <3>1. i \in 1..n /\ i - 1 <= n /\ i - 1 \in 0..(n + Len(b))
      BY <2>1
    <3>2. h[i] = f[i] /\ h[i - 1] = f[i - 1]
      BY <3>1
    <3>3. f[i] = Push(f[i - 1], a[i])
      BY <1>1, <3>1 DEF IsRun
    <3> QED BY <1>5, <3>1, <3>2, <3>3
  <2>2. CASE i > n
    <3>1. i - n \in 1..Len(b) /\ i \in (n + 1)..(n + Len(b)) /\ i - 1 \in 0..(n + Len(b))
      BY <2>2
    <3>2. g[i - n] = Push(g[(i - n) - 1], b[i - n])
      BY <1>3, <3>1 DEF IsRun
    <3>3. h[i] = g[i - n]
      BY <2>2, <3>1
    <3>4. h[i - 1] = g[(i - n) - 1]
      <4>1. CASE i - 1 = n
        <5>1. h[i - 1] = f[n] /\ (i - n) - 1 = 0
          BY <3>1, <4>1
        <5> QED BY <1>3, <5>1 DEF IsRun
      <4>2. CASE i - 1 # n
        <5>1. ~(i - 1 <= n) /\ (i - 1) - n = (i - n) - 1
          BY <2>2, <4>2
        <5> QED BY <3>1, <5>1
      <4> QED BY <4>1, <4>2
    <3>5. (a \o b)[i] = b[i - n]
      BY <1>5, <3>1
    <3> HIDE DEF h
    <3> QED BY <3>2, <3>3, <3>4, <3>5
  <2> QED BY <2>1, <2>2
<1>7. h[0] = s
  BY <1>1 DEF IsRun
<1>8. IsRun(h, s, a \o b)
  BY <1>5, <1>6, <1>7 DEF IsRun
<1>9. FoldLeft(Push, s, a \o b) = h[n + Len(b)]
  <2>1. DOMAIN (a \o b) = 1..Len(a \o b) /\ Len(a \o b) \in Nat
    BY <1>5
  <2> HIDE DEF h
  <2> QED BY <1>5, <1>8, <2>1, FoldIsRun
<1>10. h[n + Len(b)] = g[Len(b)]
  <2>1. CASE Len(b) = 0
    BY <1>3, <2>1 DEF IsRun
  <2>2. CASE Len(b) # 0
    <3>1. ~(n + Len(b) <= n) /\ (n + Len(b)) - n = Len(b) /\ n + Len(b) \in 0..(n + Len(b))
      BY <2>2
    <3> QED BY <3>1
  <2> QED BY <2>1, <2>2
<1> HIDE DEF h, n
<1> QED BY <1>2, <1>4, <1>9, <1>10

-----------------------------------------------------------------------------
(* Where a message ends is said by the bytes up to there.                  *)

LEMMA EndsLooksBack ==
  ASSUME NEW a \in Seq(Byte), NEW b \in Seq(Byte), NEW n \in Nat,
         n <= Len(a), n <= Len(b), \A i \in 1..n : a[i] = b[i]
  PROVE  Ends(a, n) <=> Ends(b, n)
<1>1. CASE n >= 2
  <2>1. TextEnds(a, n) = TextEnds(b, n)
    BY DEF TextEnds
  <2>2. a[1] = b[1] /\ a[2] = b[2]
    BY <1>1
  <2>3. HeaderIsGood(a) <=> HeaderIsGood(b)
    BY <2>2 DEF HeaderIsGood
  <2> QED BY <2>1, <2>2, <2>3 DEF Ends
<1>2. CASE ~(n >= 2)
  BY <1>2 DEF Ends
<1> QED BY <1>1, <1>2

Empty(out) == [out |-> out, rest |-> <<>>]
Partial(out, bytes) == [out |-> out, rest |-> bytes]

LEMMA PushByte ==
  ASSUME NEW out, NEW bytes \in Seq(Byte), NEW i \in 1..Len(bytes)
  PROVE  Push(Partial(out, SubSeq(bytes, 1, i - 1)), bytes[i]) =
           IF Ends(bytes, i) THEN Empty(Append(out, Parsed(SubSeq(bytes, 1, i))))
                             ELSE Partial(out, SubSeq(bytes, 1, i))
<1>1. Append(SubSeq(bytes, 1, i - 1), bytes[i]) = SubSeq(bytes, 1, i)
  OBVIOUS
<1>2. SubSeq(bytes, 1, i) \in Seq(Byte) /\ Len(SubSeq(bytes, 1, i)) = i
  BY CutType
<1>3. \A j \in 1..i : SubSeq(bytes, 1, i)[j] = bytes[j]
  OBVIOUS
<1>4. Ends(SubSeq(bytes, 1, i), i) <=> Ends(bytes, i)
  <2>1. i \in Nat /\ i <= Len(bytes)
    OBVIOUS
  <2> DEFINE cut == SubSeq(bytes, 1, i)
  <2>2. cut \in Seq(Byte) /\ i <= Len(cut) /\ \A j \in 1..i : cut[j] = bytes[j]
    BY <1>2, <1>3, <2>1
  <2> HIDE DEF cut
  <2>3. Ends(cut, i) <=> Ends(bytes, i)
    BY <2>1, <2>2, EndsLooksBack
  <2> QED BY <2>3 DEF cut
<1> QED BY <1>1, <1>2, <1>4 DEF Push, Partial, Empty

\* Bytes in which nothing ends are kept.
LEMMA FoldQuiet ==
  ASSUME NEW out, NEW bytes \in Seq(Byte),
         \A n \in DOMAIN bytes : ~Ends(bytes, n)
  PROVE  FoldLeft(Push, Empty(out), bytes) = Partial(out, bytes)
<1> DEFINE f == [i \in 0..Len(bytes) |-> Partial(out, SubSeq(bytes, 1, i))]
<1>1. f[0] = Empty(out)
  <2>1. SubSeq(bytes, 1, 0) = <<>>
    OBVIOUS
  <2> QED BY <2>1 DEF Partial, Empty
<1>2. ASSUME NEW i \in 1..Len(bytes) PROVE f[i] = Push(f[i - 1], bytes[i])
  <2>1. ~Ends(bytes, i)
    OBVIOUS
  <2>2. f[i] = Partial(out, SubSeq(bytes, 1, i)) /\ f[i - 1] = Partial(out, SubSeq(bytes, 1, i - 1))
    OBVIOUS
  <2> HIDE DEF f
  <2> QED BY <2>1, <2>2, PushByte
<1>3. IsRun(f, Empty(out), bytes)
  BY <1>1, <1>2 DEF IsRun
<1>4. SubSeq(bytes, 1, Len(bytes)) = bytes
  OBVIOUS
<1>5. f[Len(bytes)] = Partial(out, bytes)
  BY <1>4
<1> HIDE DEF f
<1> QED BY <1>3, <1>5, FoldIsRun

\* Bytes that a message ends with make that message.
LEMMA FoldStop ==
  ASSUME NEW out, NEW bytes \in Seq(Byte), NEW n \in DOMAIN bytes, Stops(bytes, n)
  PROVE  FoldLeft(Push, Empty(out), SubSeq(bytes, 1, n)) =
           Empty(Append(out, Parsed(SubSeq(bytes, 1, n))))
<1> DEFINE cut == SubSeq(bytes, 1, n)
           f == [i \in 0..n |-> IF i = n THEN Empty(Append(out, Parsed(cut)))
                                         ELSE Partial(out, SubSeq(cut, 1, i))]
<1>1. cut \in Seq(Byte) /\ Len(cut) = n /\ n \in Nat \ {0}
  BY CutType
<1>2. \A i \in 1..n : cut[i] = bytes[i]
  OBVIOUS
<1>3. ASSUME NEW i \in 1..n PROVE Ends(cut, i) <=> i = n
  <2>1. Ends(cut, i) <=> Ends(bytes, i)
    <3>1. i \in Nat /\ i <= Len(cut) /\ i <= Len(bytes) /\ \A j \in 1..i : cut[j] = bytes[j]
      BY <1>1, <1>2
    <3> HIDE DEF cut
    <3> QED BY <1>1, <3>1, EndsLooksBack
  <2>2. i # n => i \in 1..(n - 1)
    OBVIOUS
  <2> QED BY <2>1, <2>2 DEF Stops
<1>4. f[0] = Empty(out)
  <2>1. SubSeq(cut, 1, 0) = <<>> /\ n # 0
    BY <1>1
  <2> QED BY <2>1 DEF Partial, Empty
<1>5. ASSUME NEW i \in 1..n PROVE f[i] = Push(f[i - 1], cut[i])
  <2>1. f[i - 1] = Partial(out, SubSeq(cut, 1, i - 1))
    <3>1. i - 1 # n /\ i - 1 \in 0..n
      OBVIOUS
    <3> QED BY <3>1
  <2>2. SubSeq(cut, 1, n) = cut
    BY <1>1
  <2>3. f[i] = IF i = n THEN Empty(Append(out, Parsed(cut)))
                        ELSE Partial(out, SubSeq(cut, 1, i))
    OBVIOUS
  <2>4. Ends(cut, i) <=> i = n
    BY <1>3
  <2> HIDE DEF f, cut
  <2>5. i \in 1..Len(cut)
    BY <1>1
  <2>6. Push(Partial(out, SubSeq(cut, 1, i - 1)), cut[i]) =
          IF i = n THEN Empty(Append(out, Parsed(SubSeq(cut, 1, i))))
                   ELSE Partial(out, SubSeq(cut, 1, i))
    BY <1>1, <2>4, <2>5, PushByte
  <2> QED BY <2>1, <2>2, <2>3, <2>6
<1>6. IsRun(f, Empty(out), cut)
  BY <1>1, <1>4, <1>5 DEF IsRun
<1>7. f[n] = Empty(Append(out, Parsed(cut)))
  BY <1>1
<1>8. DOMAIN cut = 1..Len(cut) /\ Len(cut) \in Nat
  BY <1>1
<1> HIDE DEF f, cut
<1>9. FoldLeft(Push, Empty(out), cut) = f[Len(cut)]
  BY <1>6, <1>8, FoldIsRun
<1> QED BY <1>1, <1>7, <1>9 DEF cut

-----------------------------------------------------------------------------
(* The parser and the single bytes.                                        *)

\* Between two calls no message waits in the buffer; in the loop, the rest of
\* the buffer brings the parser to where the single bytes brought it.
InStep ==
  /\ parsing => reference = FoldLeft(Push, Empty(parsed), data_to_parse_)
  /\ ~parsing => /\ reference = Partial(parsed, data_to_parse_)
                 /\ \A n \in DOMAIN data_to_parse_ : ~Ends(data_to_parse_, n)

LEMMA CutConcat ==
  ASSUME NEW b \in Seq(Byte), NEW n \in 1..Len(b)
  PROVE  SubSeq(b, 1, n) \o SubSeq(b, n + 1, Len(b)) = b
OBVIOUS

LEMMA InStepStep == Buffers /\ InStep /\ [Next]_vars => InStep'
<1> SUFFICES ASSUME Buffers, InStep, [Next]_vars PROVE InStep'
  OBVIOUS
<1>0. data_to_parse_ \in Seq(Byte) /\ stream \in Seq(Byte)
  BY DEF Buffers
<1>1. ASSUME NEW m \in Writes, Write(m) PROVE InStep'
  BY <1>1 DEF Write, InStep
<1>2. ASSUME NEW bytes \in Junk, WriteJunk(bytes) PROVE InStep'
  BY <1>2 DEF WriteJunk, InStep
<1>3. ASSUME NEW n \in DOMAIN stream, ParseData(n) PROVE InStep'
  <2> DEFINE chunk == SubSeq(stream, 1, n)
  <2>1. /\ ~parsing /\ parsing' /\ parsed' = parsed
        /\ data_to_parse_' = data_to_parse_ \o chunk
        /\ reference' = FoldLeft(Push, reference, chunk)
    BY <1>3 DEF ParseData
  <2>2. chunk \in Seq(Byte)
    BY <1>0, CutType
  <2>3. reference = FoldLeft(Push, Empty(parsed), data_to_parse_)
    BY <1>0, <2>1, FoldQuiet DEF InStep
  <2> HIDE DEF chunk
  <2>4. reference' = FoldLeft(Push, Empty(parsed), data_to_parse_ \o chunk)
    BY <1>0, <2>1, <2>2, <2>3, FoldConcat
  <2> QED BY <2>1, <2>4 DEF InStep
<1>4. CASE ParseMessage
  <2>1. PICK n \in DOMAIN data_to_parse_ :
          /\ parsing /\ Stops(data_to_parse_, n) /\ parsing' = parsing
          /\ parsed' = Append(parsed, Parsed(SubSeq(data_to_parse_, 1, n)))
          /\ data_to_parse_' = SubSeq(data_to_parse_, n + 1, Len(data_to_parse_))
          /\ reference' = reference
    BY <1>4 DEF ParseMessage
  <2> DEFINE first == SubSeq(data_to_parse_, 1, n)
             rest == SubSeq(data_to_parse_, n + 1, Len(data_to_parse_))
  <2>2. first \in Seq(Byte) /\ rest \in Seq(Byte) /\ first \o rest = data_to_parse_
    <3>1. n \in 1..Len(data_to_parse_)
      BY <1>0
    <3> QED BY <1>0, <3>1, CutType, CutConcat
  <2>3. FoldLeft(Push, Empty(parsed), first) = Empty(parsed')
    BY <1>0, <2>1, FoldStop
  <2> HIDE DEF first, rest
  <2>4. FoldLeft(Push, Empty(parsed), first \o rest) = FoldLeft(Push, Empty(parsed'), rest)
    <3>1. FoldLeft(Push, Empty(parsed), first \o rest)
            = FoldLeft(Push, FoldLeft(Push, Empty(parsed), first), rest)
      BY <2>2, FoldConcat
    <3> QED BY <2>3, <3>1
  <2>5. data_to_parse_' = rest
    BY <2>1 DEF rest
  <2> QED BY <2>1, <2>2, <2>4, <2>5 DEF InStep
<1>5. CASE Incomplete
  <2>1. /\ parsing /\ ~parsing'
        /\ \A n \in DOMAIN data_to_parse_ : ~Ends(data_to_parse_, n)
        /\ UNCHANGED <<data_to_parse_, parsed, reference>>
    BY <1>5 DEF Incomplete
  <2>2. reference = Partial(parsed, data_to_parse_)
    BY <1>0, <2>1, FoldQuiet DEF InStep
  <2> QED BY <2>1, <2>2 DEF InStep
<1>6. CASE UNCHANGED vars
  BY <1>6 DEF vars, InStep
<1> QED BY <1>1, <1>2, <1>3, <1>4, <1>5, <1>6 DEF Next

LEMMA InStepInit == Init => InStep
<1> SUFFICES ASSUME Init PROVE InStep
  OBVIOUS
<1>1. data_to_parse_ = <<>> /\ parsing = FALSE /\ reference = Partial(parsed, <<>>)
  BY DEF Init, Partial
<1>2. DOMAIN data_to_parse_ = {}
  BY <1>1
<1> QED BY <1>1, <1>2 DEF InStep

(***************************************************************************)
(* However the stream is cut, and whatever is in it, the parser makes of   *)
(* it what it would make of single bytes (Parser.cpp:64-82): for every     *)
(* limit, every set of messages and every junk.                            *)
(***************************************************************************)
THEOREM ParserChunksDoNotMatter == Spec => []ChunksDoNotMatter
<1>1. InStep => ChunksDoNotMatter
  BY DEF InStep, ChunksDoNotMatter, Partial
<1> QED BY <1>1, BuffersInit, BuffersStep, InStepInit, InStepStep, PTL DEF Spec


-----------------------------------------------------------------------------
(* What the Build functions build, and what ParseMessage makes of it.       *)

Text == Seq(Byte \ {SEPARATOR})

LEMMA MessageTexts ==
  ASSUME NEW m \in Message
  PROVE  /\ m.header \in Headers /\ m.texts[1] \in Text
         /\ m.header = "c" => m.texts[2] \in Text /\ m.texts = <<m.texts[1], m.texts[2]>>
         /\ m.header # "c" => m.texts = <<m.texts[1]>>
         /\ m = [header |-> m.header, texts |-> m.texts]
<1>1. /\ m.header \in Headers
      /\ m.texts \in Seq(Text) /\ Len(m.texts) = Fields(m.header)
      /\ m = [header |-> m.header, texts |-> m.texts]
  BY DEF Message, Text
<1>2. \A i \in 1..Len(m.texts) : m.texts[i] \in Text
  BY <1>1
<1>3. CASE m.header = "c"
  <2>1. Len(m.texts) = 2
    BY <1>1, <1>3 DEF Fields
  <2> QED BY <1>1, <1>2, <1>3, <2>1
<1>4. CASE m.header # "c"
  <2>1. Len(m.texts) = 1
    BY <1>1, <1>4 DEF Fields
  <2> QED BY <1>1, <1>2, <1>4, <2>1
<1> QED BY <1>3, <1>4

\* The bytes of a message.
LEMMA BuildOne ==
  ASSUME NEW m \in Message, m.header # "c"
  PROVE  LET t == m.texts[1] b == Build(m)
         IN /\ b \in Seq(Byte) /\ Len(b) = Len(t) + 3
            /\ b[1] = m.header /\ b[2] = SEPARATOR /\ b[Len(t) + 3] = SEPARATOR
            /\ \A i \in 1..Len(t) : b[i + 2] = t[i]
<1> DEFINE t == m.texts[1]
<1>1. t \in Text
  BY MessageTexts
<1>2. Build(m) = <<m.header, SEPARATOR>> \o Append(t, SEPARATOR) \o <<>>
  BY DEF Build, BuildText
<1>3. Build(m) \in Seq(Byte)
  BY BuildType
<1>4. t \in Seq(Byte)
  BY <1>1 DEF Text
<1> HIDE DEF t
<1>5. /\ Len(Append(t, SEPARATOR)) = Len(t) + 1
      /\ Append(t, SEPARATOR)[Len(t) + 1] = SEPARATOR
      /\ \A i \in 1..Len(t) : Append(t, SEPARATOR)[i] = t[i]
      /\ Append(t, SEPARATOR) \in Seq(Byte)
  BY <1>4 DEF Byte
<1> DEFINE tail == Append(t, SEPARATOR)
<1>6. tail \o <<>> = tail
  BY <1>5
<1> HIDE DEF tail
<1>7. Build(m) = <<m.header, SEPARATOR>> \o tail
  BY <1>2, <1>5, <1>6 DEF tail
<1>8. /\ Len(<<m.header, SEPARATOR>> \o tail) = Len(tail) + 2
      /\ (<<m.header, SEPARATOR>> \o tail)[1] = m.header
      /\ (<<m.header, SEPARATOR>> \o tail)[2] = SEPARATOR
      /\ \A i \in 1..Len(tail) : (<<m.header, SEPARATOR>> \o tail)[i + 2] = tail[i]
  BY <1>5 DEF tail
<1>9. Len(t) \in Nat /\ Len(tail) = Len(t) + 1 /\ tail[Len(t) + 1] = SEPARATOR /\ \A i \in 1..Len(t) : tail[i] = t[i]
  BY <1>4, <1>5 DEF tail
<1>10. Build(m)[(Len(t) + 1) + 2] = SEPARATOR /\ (Len(t) + 1) + 2 = Len(t) + 3
  BY <1>7, <1>8, <1>9
<1>11. \A i \in 1..Len(t) : Build(m)[i + 2] = t[i]
  BY <1>7, <1>8, <1>9
<1> QED BY <1>3, <1>7, <1>8, <1>9, <1>10, <1>11 DEF t

LEMMA BuildTwo ==
  ASSUME NEW m \in Message, m.header = "c"
  PROVE  LET t == m.texts[1] u == m.texts[2] b == Build(m)
         IN /\ b \in Seq(Byte) /\ Len(b) = Len(t) + Len(u) + 4
            /\ b[1] = m.header /\ b[2] = SEPARATOR
            /\ b[Len(t) + 3] = SEPARATOR /\ b[Len(b)] = SEPARATOR
            /\ \A i \in 1..Len(t) : b[i + 2] = t[i]
            /\ \A i \in 1..Len(u) : b[i + Len(t) + 3] = u[i]
<1> DEFINE t == m.texts[1]
           u == m.texts[2]
           v == Append(t, SEPARATOR)
           w == Append(u, SEPARATOR)
<1>1. t \in Text /\ u \in Text
  BY MessageTexts
<1>2. Build(m) = <<m.header, SEPARATOR>> \o v \o w
  BY DEF Build, BuildText
<1>3. Build(m) \in Seq(Byte)
  BY BuildType
<1>4. t \in Seq(Byte) /\ u \in Seq(Byte)
  BY <1>1 DEF Text
<1> HIDE DEF t, u
<1>5. /\ Len(t) \in Nat /\ Len(v) = Len(t) + 1 /\ v[Len(t) + 1] = SEPARATOR
      /\ v \in Seq(Byte) /\ \A i \in 1..Len(t) : v[i] = t[i]
  BY <1>4 DEF Byte
<1>6. /\ Len(u) \in Nat /\ Len(w) = Len(u) + 1 /\ w[Len(u) + 1] = SEPARATOR
      /\ w \in Seq(Byte) /\ \A i \in 1..Len(u) : w[i] = u[i]
  BY <1>4 DEF Byte
<1> HIDE DEF v, w
<1> DEFINE x == <<m.header, SEPARATOR>> \o v
<1>7. /\ Len(x) = Len(v) + 2 /\ x[1] = m.header /\ x[2] = SEPARATOR
      /\ \A i \in 1..Len(v) : x[i + 2] = v[i]
      /\ x \in Seq(Byte)
  <2>1. m.header \in Byte /\ SEPARATOR \in Byte
    BY MessageTexts DEF Byte
  <2> QED BY <1>5, <2>1
<1>8. Build(m) = x \o w
  BY <1>2
<1> HIDE DEF x
<1>9. /\ Len(Build(m)) = Len(x) + Len(w)
      /\ \A i \in 1..Len(x) : Build(m)[i] = x[i]
      /\ \A i \in 1..Len(w) : Build(m)[Len(x) + i] = w[i]
  <2>1. x \in Seq(Byte) /\ w \in Seq(Byte)
    BY <1>6, <1>7
  <2> QED BY <1>8, <2>1
<1>10. Len(x) = Len(t) + 3 /\ Len(Build(m)) = Len(t) + Len(u) + 4
  BY <1>5, <1>6, <1>7, <1>9
<1>11. Build(m)[1] = m.header /\ Build(m)[2] = SEPARATOR
  BY <1>5, <1>7, <1>9, <1>10
<1>12. ASSUME NEW i \in 1..(Len(t) + 1) PROVE Build(m)[i + 2] = v[i]
  <2>1. i \in 1..Len(v) /\ i + 2 \in 1..Len(x)
    BY <1>5, <1>10
  <2> QED BY <1>7, <1>9, <2>1
<1>13. Build(m)[Len(t) + 3] = SEPARATOR
  <2>1. Len(t) + 1 \in 1..(Len(t) + 1) /\ (Len(t) + 1) + 2 = Len(t) + 3
    BY <1>5
  <2> QED BY <1>5, <1>12, <2>1
<1>14. \A i \in 1..Len(t) : Build(m)[i + 2] = t[i]
  BY <1>5, <1>12
<1>15. ASSUME NEW i \in 1..(Len(u) + 1) PROVE Build(m)[i + Len(t) + 3] = w[i]
  <2>1. i \in 1..Len(w) /\ Len(x) + i = i + Len(t) + 3
    BY <1>5, <1>6, <1>10
  <2> QED BY <1>9, <2>1
<1>16. \A i \in 1..Len(u) : Build(m)[i + Len(t) + 3] = u[i]
  BY <1>6, <1>15
<1>17. Build(m)[Len(Build(m))] = SEPARATOR
  <2>1. Len(u) + 1 \in 1..(Len(u) + 1) /\ (Len(u) + 1) + Len(t) + 3 = Len(Build(m))
    BY <1>5, <1>6, <1>10
  <2> QED BY <1>6, <1>15, <2>1
<1> QED BY <1>3, <1>10, <1>11, <1>13, <1>14, <1>16, <1>17 DEF t, u

LEMMA BuildLength ==
  ASSUME NEW m \in Message
  PROVE  Len(Build(m)) \in Nat /\ Len(Build(m)) >= 3
<1>1. /\ Len(m.texts[1]) \in Nat
      /\ m.header = "c" => Len(m.texts[2]) \in Nat
  BY MessageTexts DEF Text
<1>2. CASE m.header = "c"
  <2>1. Len(Build(m)) = Len(m.texts[1]) + Len(m.texts[2]) + 4
    BY <1>2, BuildTwo
  <2>2. Len(m.texts[1]) \in Nat /\ Len(m.texts[2]) \in Nat
    BY <1>1, <1>2
  <2> DEFINE i == Len(m.texts[1])
             j == Len(m.texts[2])
  <2> HIDE DEF i, j
  <2>3. i \in Nat /\ j \in Nat /\ Len(Build(m)) = i + j + 4
    BY <2>1, <2>2 DEF i, j
  <2> QED BY <2>3
<1>3. CASE m.header # "c"
  <2>1. Len(Build(m)) = Len(m.texts[1]) + 3
    BY <1>3, BuildOne
  <2> QED BY <1>1, <2>1
<1> QED BY <1>2, <1>3

LEMMA NotSeparator == ASSUME NEW t \in Text, NEW i \in 1..Len(t) PROVE t[i] # SEPARATOR
BY DEF Text

\* The separators after the header of a message end its texts.
LEMMA TextEndsOne ==
  ASSUME NEW m \in Message, m.header # "c", NEW n \in 0..Len(Build(m))
  PROVE  TextEnds(Build(m), n) = IF n = Len(Build(m)) THEN {Len(Build(m))} ELSE {}
<1> DEFINE t == m.texts[1]
           b == Build(m)
<1>1. t \in Text /\ Len(t) \in Nat
  BY MessageTexts DEF Text
<1>2. /\ Len(b) = Len(t) + 3 /\ b[Len(t) + 3] = SEPARATOR
      /\ \A i \in 1..Len(t) : b[i + 2] = t[i]
  BY BuildOne
<1> HIDE DEF t, b
<1>3. ASSUME NEW k \in 3..n, k # Len(b) PROVE b[k] # SEPARATOR
  <2>1. n \in 0..Len(b)
    BY DEF b
  <2>2. k - 2 \in 1..Len(t) /\ (k - 2) + 2 = k
    BY <1>1, <1>2, <1>3, <2>1
  <2> QED BY <1>1, <1>2, <2>2, NotSeparator
<1>4. TextEnds(b, n) = IF n = Len(b) THEN {Len(b)} ELSE {}
  <2>1. n \in 0..Len(b)
    BY DEF b
  <2> QED BY <1>1, <1>2, <1>3, <2>1 DEF TextEnds
<1> QED BY <1>4 DEF b

LEMMA TextEndsTwo ==
  ASSUME NEW m \in Message, m.header = "c", NEW n \in 0..Len(Build(m))
  PROVE  LET first == Len(m.texts[1]) + 3
         IN /\ first \in 3..(Len(Build(m)) - 1)
            /\ TextEnds(Build(m), n) = (IF first <= n THEN {first} ELSE {})
                 \union (IF n = Len(Build(m)) THEN {Len(Build(m))} ELSE {})
<1> DEFINE t == m.texts[1]
           u == m.texts[2]
           b == Build(m)
<1>1. t \in Text /\ Len(t) \in Nat /\ u \in Text /\ Len(u) \in Nat
  BY MessageTexts DEF Text
<1>2. /\ Len(b) = Len(t) + Len(u) + 4 /\ b[Len(t) + 3] = SEPARATOR /\ b[Len(b)] = SEPARATOR
      /\ \A i \in 1..Len(t) : b[i + 2] = t[i]
      /\ \A i \in 1..Len(u) : b[i + Len(t) + 3] = u[i]
  BY BuildTwo
<1>0. n \in 0..Len(b)
  OBVIOUS
<1> HIDE DEF t, u, b
<1>3. ASSUME NEW k \in 3..n, k # Len(b), k # Len(t) + 3 PROVE b[k] # SEPARATOR
  <2>1. CASE k < Len(t) + 3
    <3>1. k - 2 \in 1..Len(t) /\ (k - 2) + 2 = k
      BY <1>0, <1>1, <1>2, <1>3, <2>1
    <3> QED BY <1>1, <1>2, <3>1, NotSeparator
  <2>2. CASE ~(k < Len(t) + 3)
    <3>1. k - (Len(t) + 3) \in 1..Len(u) /\ (k - (Len(t) + 3)) + Len(t) + 3 = k
      <4>1. k \in Nat /\ k <= Len(t) + Len(u) + 3 /\ k > Len(t) + 3
        <5>1. Len(b) = Len(t) + Len(u) + 4 /\ Len(t) \in Nat /\ Len(u) \in Nat
          BY <1>1, <1>2
        <5>2. k \in Nat /\ k <= n /\ n <= Len(b) /\ n \in Nat
          BY <1>0
        <5>3. k # Len(b) /\ k # Len(t) + 3 /\ ~(k < Len(t) + 3)
          BY <1>3, <2>2
        <5>4. Len(b) \in Nat
          BY <5>1
        <5> QED BY <5>1, <5>2, <5>3, <5>4
      <4> QED BY <1>1, <4>1
    <3> QED BY <1>1, <1>2, <3>1, NotSeparator
  <2> QED BY <2>1, <2>2
<1>4. Len(t) + 3 \in 3..(Len(b) - 1)
  BY <1>1, <1>2
<1>5. TextEnds(b, n) = (IF Len(t) + 3 <= n THEN {Len(t) + 3} ELSE {})
                 \union (IF n = Len(b) THEN {Len(b)} ELSE {})
  <2>1. \A k \in 3..n : b[k] = SEPARATOR <=> k = Len(b) \/ k = Len(t) + 3
    BY <1>2, <1>3
  <2> QED BY <1>0, <1>1, <1>2, <1>4, <2>1 DEF TextEnds
<1> QED BY <1>4, <1>5 DEF b, t

LEMMA CardinalityTwo ==
  ASSUME NEW x, NEW y, x # y
  PROVE  Cardinality({x}) = 1 /\ Cardinality({x, y}) = 2 /\ Cardinality({}) = 0
<1>1. Cardinality({}) = 0 /\ IsFiniteSet({}) /\ IsFiniteSet({x}) /\ Cardinality({x}) = 1
  BY FS_EmptySet, FS_Singleton
<1>2. y \notin {x}
  OBVIOUS
<1>3. Cardinality({x} \union {y}) = 2
  BY <1>1, <1>2, FS_AddElement
<1>4. {x} \union {y} = {x, y}
  OBVIOUS
<1> QED BY <1>1, <1>3, <1>4

\* A message that fits ends where it was built to end, and not before.
LEMMA BuildEnds ==
  ASSUME NEW m \in Message, Sendable(m), NEW n \in 0..Len(Build(m))
  PROVE  Ends(Build(m), n) <=> n = Len(Build(m))
<1> DEFINE b == Build(m)
<1>0. Len(b) \in Nat /\ Len(b) >= 3 /\ Len(b) <= MAX_MESSAGE_LENGTH + 1 /\ m.header \in Headers
  BY BuildLength, MessageTexts DEF Sendable
<1>1. b[1] = m.header /\ b[2] = SEPARATOR
  BY BuildOne, BuildTwo
<1>2. HeaderIsGood(b)
  BY <1>0, <1>1 DEF HeaderIsGood
<1>3. Cardinality(TextEnds(b, n)) = Fields(b[1]) <=> n = Len(b)
  <2>1. CASE m.header = "c"
    <3> DEFINE first == Len(m.texts[1]) + 3
    <3>1. /\ first \in 3..(Len(b) - 1)
          /\ TextEnds(b, n) = (IF first <= n THEN {first} ELSE {})
                 \union (IF n = Len(b) THEN {Len(b)} ELSE {})
      BY <2>1, TextEndsTwo
    <3>2. Fields(b[1]) = 2
      BY <1>1, <2>1 DEF Fields
    <3> HIDE DEF first, b
    <3>3. Cardinality({first}) = 1 /\ Cardinality({first, Len(b)}) = 2 /\ Cardinality({}) = 0
      <4>1. first # Len(b)
        BY <1>0, <3>1
      <4> QED BY <4>1, CardinalityTwo
    <3>4. CASE n = Len(b)
      <4>1. TextEnds(b, n) = {first, Len(b)}
        BY <1>0, <3>1, <3>4
      <4> QED BY <3>2, <3>3, <3>4, <4>1
    <3>5. CASE n # Len(b)
      <4>1. TextEnds(b, n) = {first} \/ TextEnds(b, n) = {}
        BY <3>1, <3>5
      <4>2. Cardinality(TextEnds(b, n)) = 1 \/ Cardinality(TextEnds(b, n)) = 0
        BY <3>3, <4>1
      <4> QED BY <3>2, <3>5, <4>2
    <3> QED BY <3>4, <3>5
  <2>2. CASE m.header # "c"
    <3>1. TextEnds(b, n) = IF n = Len(b) THEN {Len(b)} ELSE {}
      BY <2>2, TextEndsOne
    <3>2. Fields(b[1]) = 1
      BY <1>1, <2>2 DEF Fields
    <3> HIDE DEF b
    <3>3. Cardinality({Len(b)}) = 1 /\ Cardinality({}) = 0
      BY FS_EmptySet, FS_Singleton
    <3> QED BY <3>1, <3>2, <3>3
  <2> QED BY <2>1, <2>2
<1>4. n \in 0..Len(b)
  OBVIOUS
<1> HIDE DEF b
<1>5. Ends(b, n) <=> n = Len(b)
  <2>1. ~(n > MAX_MESSAGE_LENGTH) \/ n = Len(b)
    BY <1>0, <1>4, LimitType
  <2>2. n = Len(b) => n >= 2
    BY <1>0, <1>4
  <2> QED BY <1>2, <1>3, <2>1, <2>2 DEF Ends
<1> QED BY <1>5 DEF b

LEMMA SliceIs ==
  ASSUME NEW b \in Seq(Byte), NEW t \in Seq(Byte), NEW k \in Nat,
         k + Len(t) <= Len(b), \A i \in 1..Len(t) : b[i + k] = t[i]
  PROVE  SubSeq(b, k + 1, k + Len(t)) = t
<1> DEFINE s == SubSeq(b, k + 1, k + Len(t))
<1>1. Len(s) = Len(t) /\ s \in Seq(Byte)
  OBVIOUS
<1>2. ASSUME NEW i \in 1..Len(t) PROVE s[i] = t[i]
  <2>1. s[i] = b[(k + 1) + i - 1] /\ (k + 1) + i - 1 = i + k
    OBVIOUS
  <2> QED BY <2>1
<1> HIDE DEF s
<1>3. s = t
  BY <1>1, <1>2
<1> QED BY <1>3 DEF s

LEMMA NumberOfDigits ==
  ASSUME NEW t \in Seq(Digits)
  PROVE  Number(t) = Len(t)
<1> DEFINE s == Append(t, SEPARATOR)
           I == {i \in 1..Len(s) : s[i] \notin Digits}
<1>1. /\ Len(s) = Len(t) + 1 /\ s[Len(t) + 1] = SEPARATOR
      /\ \A i \in 1..Len(t) : s[i] \in Digits
      /\ Len(t) \in Nat
  OBVIOUS
<1>2. SEPARATOR \notin Digits
  BY DEF SEPARATOR, Digits
<1> HIDE DEF s
<1>3. I = {Len(t) + 1}
  BY <1>1, <1>2
<1>4. Min(I) = Len(t) + 1
  BY <1>1, <1>3 DEF Min
<1>5. Number(t) = (IF I # {} THEN Min(I) ELSE 0) - 1
  BY Zenon DEF Number, SelectInSeq, s
<1> HIDE DEF I
<1> QED BY <1>1, <1>3, <1>4, <1>5

\* What the Build functions put together, ParseMessage takes apart.
LEMMA ParsedBuild ==
  ASSUME NEW m \in Message, Sendable(m)
  PROVE  Parsed(Build(m)) = m
<1> DEFINE b == Build(m)
           n == Len(b)
           ends == TextEnds(b, n)
           first == CHOOSE k \in ends : \A j \in ends : k <= j
           t == m.texts[1]
           u == m.texts[2]
           text == SubSeq(b, 3, first - 1)
           last == SubSeq(b, first + 1, n - 1)
<1>1. n \in Nat /\ n >= 3 /\ m.header \in Headers /\ b \in Seq(Byte)
  BY BuildLength, MessageTexts, BuildType
<1>2. b[1] = m.header /\ b[2] = SEPARATOR /\ HeaderIsGood(b)
  BY <1>1, BuildOne, BuildTwo DEF HeaderIsGood
<1>3. t \in Text /\ t \in Seq(Byte) /\ Len(t) \in Nat
  BY MessageTexts DEF Text
<1>4. \A i \in 1..Len(t) : b[i + 2] = t[i]
  BY BuildOne, BuildTwo
<1>5. Cardinality(ends) = Fields(b[1])
  <2>1. n \in 0..Len(b) /\ Ends(b, n)
    BY <1>1, BuildEnds
  <2>2. CASE m.header = "c"
    <3> DEFINE k == Len(m.texts[1]) + 3
    <3>1. k \in 3..(n - 1) /\ ends = (IF k <= n THEN {k} ELSE {})
                 \union (IF n = Len(b) THEN {Len(b)} ELSE {})
      BY <2>1, <2>2, TextEndsTwo
    <3> HIDE DEF k, b
    <3>2. ends = {k, n} /\ k # n
      BY <1>1, <3>1
    <3> HIDE DEF ends, n
    <3>3. Cardinality(ends) = 2
      BY <3>2, CardinalityTwo
    <3> QED BY <1>2, <2>2, <3>3 DEF Fields
  <2>3. CASE m.header # "c"
    <3>1. ends = {n}
      BY <2>1, <2>3, TextEndsOne
    <3> HIDE DEF ends, n, b
    <3>2. Cardinality(ends) = 1
      BY <3>1, FS_Singleton
    <3> QED BY <1>2, <2>3, <3>2 DEF Fields
  <2> QED BY <2>2, <2>3
<1>6. first = Len(t) + 3
  <2>1. n \in 0..Len(b)
    BY <1>1
  <2>2. CASE m.header = "c"
    <3>1. Len(t) + 3 \in 3..(n - 1) /\ ends = (IF Len(t) + 3 <= n THEN {Len(t) + 3} ELSE {})
                 \union (IF n = Len(b) THEN {Len(b)} ELSE {})
      BY <2>1, <2>2, TextEndsTwo
    <3> HIDE DEF t, b
    <3>2. ends = {Len(t) + 3, n} /\ Len(t) + 3 < n /\ Len(t) + 3 \in Nat
      BY <1>1, <1>3, <3>1
    <3> HIDE DEF ends, n
    <3> QED BY <1>1, <3>2
  <2>3. CASE m.header # "c"
    <3>1. ends = {n}
      BY <2>1, <2>3, TextEndsOne
    <3>2. n = Len(t) + 3
      BY <2>3, BuildOne
    <3> HIDE DEF ends, n, b, t
    <3> QED BY <1>1, <3>1, <3>2
  <2> QED BY <2>2, <2>3
<1>7. Len(t) + 3 <= n
  <2>1. CASE m.header = "c"
    <3>1. Len(t) + 3 \in 3..(n - 1)
      BY <1>1, <2>1, TextEndsTwo
    <3> HIDE DEF t, n
    <3> QED BY <1>1, <3>1
  <2>2. CASE m.header # "c"
    <3>1. n = Len(t) + 3
      BY <2>2, BuildOne
    <3> HIDE DEF t, n
    <3> QED BY <1>1, <3>1
  <2> QED BY <2>1, <2>2
<1>8. text = t
  <2>1. SubSeq(b, 2 + 1, 2 + Len(t)) = t
    <3>1. 2 + Len(t) <= Len(b)
      BY <1>1, <1>3, <1>7
    <3> HIDE DEF b, t
    <3> QED BY <1>1, <1>3, <1>4, <3>1, SliceIs
  <2>2. first - 1 = 2 + Len(t) /\ 2 + 1 = 3
    <3> HIDE DEF first, t
    <3> QED BY <1>3, <1>6
  <2> HIDE DEF b, t, first
  <2> QED BY <2>1, <2>2
<1>9. m.header = "c" => last = u
  <2> SUFFICES ASSUME m.header = "c" PROVE last = u
    OBVIOUS
  <2> DEFINE k == Len(t) + 3
  <2>1. u \in Seq(Byte) /\ Len(u) \in Nat
    BY MessageTexts DEF Text
  <2>2. /\ Len(b) = Len(t) + Len(u) + 4
        /\ \A i \in 1..Len(u) : b[i + Len(t) + 3] = u[i]
    BY BuildTwo
  <2> HIDE DEF t, u, b, first
  <2>3. k \in Nat /\ k + Len(u) <= Len(b) /\ \A i \in 1..Len(u) : b[i + k] = u[i]
    <3>1. \A i \in 1..Len(u) : i + k = i + Len(t) + 3
      BY <1>3, <2>1
    <3>2. k \in Nat /\ k + Len(u) <= Len(b)
      BY <1>3, <2>1, <2>2
    <3> QED BY <2>2, <3>1, <3>2
  <2>4. first + 1 = k + 1 /\ n - 1 = k + Len(u)
    BY <1>3, <1>6, <2>1, <2>2
  <2> HIDE DEF k, n
  <2>5. SubSeq(b, k + 1, k + Len(u)) = u
    BY <1>1, <2>1, <2>3, SliceIs
  <2> QED BY <2>4, <2>5
<1>10. Parsed(b) =
         LET Is(texts) == [header |-> b[1], texts |-> texts]
         IN CASE b[1] = "c" -> Is(<<text, last>>)
              [] b[1] = "i" -> IF b[3] \in Digits
                               THEN Is(<<SubSeq(text, 1, Number(text))>>) ELSE Error
              [] OTHER -> Is(<<text>>)
  <2> HIDE DEF b
  <2> QED BY <1>2, <1>5 DEF Parsed
<1>11. m = [header |-> m.header, texts |-> m.texts]
  BY MessageTexts
<1> HIDE DEF text, last, b
<1>12. CASE m.header = "c"
  <2>1. m.texts = <<t, u>>
    BY <1>12, MessageTexts
  <2> HIDE DEF t, u
  <2>2. Parsed(b) = [header |-> m.header, texts |-> <<t, u>>]
    BY <1>2, <1>8, <1>9, <1>10, <1>12
  <2> QED BY <1>11, <2>1, <2>2 DEF b
<1>13. CASE m.header # "c"
  <2>1. m.texts = <<t>>
    BY <1>13, MessageTexts
  <2>2. m.header = "i" => t \in Seq(Digits) /\ t # <<>>
    BY DEF Sendable
  <2> HIDE DEF t
  <2>3. CASE m.header = "i"
    <3>1. Number(t) = Len(t)
      BY <2>2, <2>3, NumberOfDigits
    <3>2. SubSeq(t, 1, Len(t)) = t
      BY <1>3
    <3>3. b[3] \in Digits
      <4>1. 1 \in 1..Len(t) /\ t[1] \in Digits
        BY <2>2, <2>3
      <4>2. b[1 + 2] = t[1] /\ 1 + 2 = 3
        BY <1>4, <4>1
      <4> QED BY <4>1, <4>2
    <3>4. Parsed(b) = [header |-> m.header, texts |-> <<SubSeq(t, 1, Number(t))>>]
      BY <1>2, <1>8, <1>10, <2>3, <3>3
    <3> QED BY <1>11, <2>1, <3>1, <3>2, <3>4 DEF b
  <2>4. CASE m.header # "i"
    <3>1. Parsed(b) = [header |-> m.header, texts |-> <<t>>]
      BY <1>2, <1>8, <1>10, <1>13, <2>4
    <3> QED BY <1>11, <2>1, <3>1 DEF b
  <2> QED BY <2>3, <2>4
<1> QED BY <1>12, <1>13

-----------------------------------------------------------------------------
(* The messages under way.                                                 *)

\* The bytes that were sent and that no message was made of yet.
Pending == data_to_parse_ \o stream

CleanUpTo(s, c) == \A j \in 1..c : s[j] # Error

\* The messages i + 1 to c of s follow each other in p, each up to f[j].
Cuts(f, s, p, i, c) ==
  /\ f[i] = 0
  /\ \A j \in i..c : f[j] \in 0..Len(p)
  /\ \A j \in (i + 1)..c :
       /\ f[j] = f[j - 1] + Len(Build(s[j]))
       /\ \A q \in 1..Len(Build(s[j])) : p[f[j - 1] + q] = Build(s[j])[q]

Framed ==
  /\ sent \in Seq(Message \union {Error})
  /\ \A j \in DOMAIN sent : sent[j] # Error => sent[j] \in Writes
  /\ \E S : parsed \in Seq(S)
  /\ CleanUpTo(sent, Len(sent)) => Len(parsed) <= Len(sent)
  /\ \A i \in DOMAIN parsed :
       i <= Len(sent) /\ CleanUpTo(sent, i) => parsed[i] = sent[i]
  /\ \A c \in Len(parsed)..Len(sent) : CleanUpTo(sent, c) =>
       \E f : Cuts(f, sent, Pending, Len(parsed), c)
                /\ (c = Len(sent) => f[c] = Len(Pending))

\* At a message that is built and fits, the parser finds its end when it is there.
LEMMA AtMessage ==
  ASSUME NEW a \in Seq(Byte), NEW b \in Seq(Byte), NEW m \in Message, Sendable(m),
         Len(Build(m)) <= Len(a \o b),
         \A q \in 1..Len(Build(m)) : (a \o b)[q] = Build(m)[q],
         NEW n \in DOMAIN a
  PROVE  /\ n <= Len(Build(m)) => (Ends(a, n) <=> n = Len(Build(m)))
         /\ Stops(a, n) => n = Len(Build(m)) /\ SubSeq(a, 1, n) = Build(m)
<1> DEFINE p == Build(m)
<1>1. p \in Seq(Byte) /\ Len(p) \in Nat /\ Len(p) >= 3
  BY BuildType, BuildLength
<1>2. n \in Nat \ {0} /\ n <= Len(a) /\ \A q \in 1..Len(a) : (a \o b)[q] = a[q]
  OBVIOUS
<1>3. ASSUME NEW k \in 1..Len(a), k <= Len(p) PROVE Ends(a, k) <=> k = Len(p)
  <2>1. \A q \in 1..k : a[q] = p[q]
    BY <1>1, <1>2, <1>3
  <2>2. k \in Nat /\ k <= Len(a) /\ k \in 0..Len(p)
    BY <1>1, <1>3
  <2>3. Ends(p, k) <=> k = Len(p)
    BY <2>2, BuildEnds
  <2> HIDE DEF p
  <2> QED BY <1>1, <1>3, <2>1, <2>2, <2>3, EndsLooksBack
<1>4. ASSUME Stops(a, n) PROVE n = Len(p) /\ SubSeq(a, 1, n) = p
  <2>1. Ends(a, n) /\ \A k \in 1..(n - 1) : ~Ends(a, k)
    BY <1>4 DEF Stops
  <2> HIDE DEF p
  <2>2. n >= Len(p)
    BY <1>1, <1>2, <1>3, <2>1
  <2>3. Len(p) \in 1..Len(a)
    BY <1>1, <1>2, <2>2
  <2>4. Ends(a, Len(p))
    BY <1>1, <1>3, <2>3
  <2>5. n = Len(p)
    BY <1>1, <1>2, <2>1, <2>2, <2>4
  <2>6. \A q \in 1..n : a[q] = p[q]
    BY <1>2, <2>3, <2>5 DEF p
  <2>7. Len(SubSeq(a, 1, n)) = n /\ \A q \in 1..n : SubSeq(a, 1, n)[q] = a[q]
    OBVIOUS
  <2>8. SubSeq(a, 1, n) \in Seq(Byte)
    BY CutType
  <2>9. SubSeq(a, 1, n) = p
    BY <1>1, <2>5, <2>6, <2>7, <2>8
  <2> QED BY <2>5, <2>9
<1> QED BY <1>2, <1>3, <1>4

\* Messages and bytes that come later leave the cuts where they are.
LEMMA CutsStay ==
  ASSUME NEW s, NEW p \in Seq(Byte), NEW s2, NEW p2 \in Seq(Byte),
         NEW i \in Nat, NEW c \in Nat, i <= c, NEW f, Cuts(f, s, p, i, c),
         Len(p) <= Len(p2), \A q \in 1..Len(p) : p2[q] = p[q],
         \A j \in 1..c : s2[j] = s[j],
         \A j \in 1..c : Len(Build(s[j])) \in Nat
  PROVE  Cuts(f, s2, p2, i, c)
<1>1. f[i] = 0 /\ \A j \in i..c : f[j] \in 0..Len(p2)
  BY DEF Cuts
<1>2. ASSUME NEW j \in (i + 1)..c
      PROVE  /\ f[j] = f[j - 1] + Len(Build(s2[j]))
             /\ \A q \in 1..Len(Build(s2[j])) : p2[f[j - 1] + q] = Build(s2[j])[q]
  <2>1. j \in 1..c /\ j \in i..c /\ j - 1 \in i..c /\ s2[j] = s[j]
    OBVIOUS
  <2>2. /\ f[j] = f[j - 1] + Len(Build(s[j])) /\ f[j] \in 0..Len(p) /\ f[j - 1] \in 0..Len(p)
        /\ \A q \in 1..Len(Build(s[j])) : p[f[j - 1] + q] = Build(s[j])[q]
    BY <2>1 DEF Cuts
  <2>3. \A q \in 1..Len(Build(s[j])) : f[j - 1] + q \in 1..Len(p)
    <3> DEFINE l == Len(Build(s[j]))
               x == f[j - 1]
    <3> SUFFICES ASSUME NEW q \in 1..l PROVE x + q \in 1..Len(p)
      OBVIOUS
    <3>1. l \in Nat /\ x \in 0..Len(p) /\ x + l \in 0..Len(p) /\ Len(p) \in Nat
      BY <2>1, <2>2
    <3> HIDE DEF l, x
    <3> QED BY <3>1
  <2> QED BY <2>1, <2>2, <2>3
<1> QED BY <1>1, <1>2 DEF Cuts

\* A message that is sent is the last.
LEMMA CutsGrow ==
  ASSUME NEW s \in Seq(Message \union {Error}), NEW p \in Seq(Byte), NEW m \in Message,
         NEW i \in 0..Len(s), NEW f, Cuts(f, s, p, i, Len(s)), f[Len(s)] = Len(p),
         CleanUpTo(s, Len(s))
  PROVE  \E g : /\ Cuts(g, Append(s, m), p \o Build(m), i, Len(s) + 1)
                /\ g[Len(s) + 1] = Len(p \o Build(m))
<1> DEFINE c == Len(s)
           b == Build(m)
           s2 == Append(s, m)
           p2 == p \o b
           g == [j \in i..(c + 1) |-> IF j = c + 1 THEN Len(p2) ELSE f[j]]
<1>1. b \in Seq(Byte) /\ Len(b) \in Nat /\ c \in Nat /\ i \in Nat /\ i <= c
  BY BuildType, BuildLength
<1>2. s2[c + 1] = m /\ \A j \in 1..c : s2[j] = s[j]
  OBVIOUS
<1> HIDE DEF b
<1>3. /\ p2 \in Seq(Byte) /\ Len(p2) = Len(p) + Len(b)
      /\ \A q \in 1..Len(p) : p2[q] = p[q]
      /\ \A q \in 1..Len(b) : p2[Len(p) + q] = b[q]
  BY <1>1
<1>4. \A j \in 1..c : Len(Build(s[j])) \in Nat
  <2>1. \A j \in 1..c : s[j] \in Message
    BY DEF CleanUpTo
  <2> QED BY <2>1, BuildLength
<1>5. Cuts(f, s2, p2, i, c)
  <2>1. Len(p) <= Len(p2)
    BY <1>1, <1>3
  <2> HIDE DEF s2, p2, c
  <2>2. Cuts(f, s, p, i, c)
    BY DEF c
  <2> QED BY <1>1, <1>2, <1>3, <1>4, <2>1, <2>2, CutsStay
<1>6. g[i] = 0 /\ \A j \in i..c : g[j] = f[j] /\ g[j] \in 0..Len(p2)
  <2> HIDE DEF s2, p2, c
  <2>1. \A j \in i..c : g[j] = f[j]
    BY <1>1
  <2> QED BY <1>1, <1>5, <2>1 DEF Cuts
<1>7. g[c + 1] = Len(p2) /\ g[c + 1] \in 0..Len(p2)
  BY <1>1, <1>3
<1>8. g[c + 1] = g[(c + 1) - 1] + Len(b) /\ g[c] = Len(p)
  <2>1. g[c] = f[c] /\ f[c] = Len(p) /\ (c + 1) - 1 = c
    BY <1>1, <1>6
  <2> HIDE DEF g, c, p2
  <2> QED BY <1>3, <1>7, <2>1
<1> HIDE DEF g, s2, p2
<1>9. ASSUME NEW j \in (i + 1)..(c + 1)
      PROVE  /\ g[j] = g[j - 1] + Len(Build(s2[j]))
             /\ \A q \in 1..Len(Build(s2[j])) : p2[g[j - 1] + q] = Build(s2[j])[q]
  <2>1. CASE j = c + 1
    <3>1. Build(s2[j]) = b /\ (c + 1) - 1 = c
      BY <1>1, <1>2, <2>1 DEF b
    <3> QED BY <1>3, <1>8, <2>1, <3>1
  <2>2. CASE j # c + 1
    <3>1. j \in (i + 1)..c /\ j \in i..c /\ j - 1 \in i..c
      BY <1>1, <2>2
    <3>2. g[j] = f[j] /\ g[j - 1] = f[j - 1]
      BY <1>6, <3>1
    <3> QED BY <1>5, <3>1, <3>2 DEF Cuts
  <2> QED BY <2>1, <2>2
<1>10. \A j \in i..(c + 1) : g[j] \in 0..Len(p2)
  <2>1. \A j \in i..(c + 1) : j \in i..c \/ j = c + 1
    BY <1>1
  <2> QED BY <1>6, <1>7, <2>1
<1>11. Cuts(g, s2, p2, i, c + 1)
  BY <1>6, <1>9, <1>10 DEF Cuts
<1> QED BY <1>7, <1>11 DEF s2, p2, b

LEMMA TailIs ==
  ASSUME NEW p \in Seq(Byte), NEW n \in 0..Len(p)
  PROVE  LET t == SubSeq(p, n + 1, Len(p))
         IN /\ t \in Seq(Byte) /\ Len(t) = Len(p) - n
            /\ \A q \in 1..(Len(p) - n) : t[q] = p[q + n]
<1> DEFINE t == SubSeq(p, n + 1, Len(p))
<1>1. t \in Seq(Byte)
  <2>1. \A i \in 1..Len(p) : p[i] \in Byte
    OBVIOUS
  <2> QED BY <2>1
<1>2. Len(t) = Len(p) - n
  <2>1. CASE n = Len(p)
    <3>1. t = <<>>
      BY <2>1
    <3> QED BY <2>1, <3>1
  <2>2. CASE n # Len(p)
    <3>1. n + 1 \in 1..Len(p) /\ Len(p) \in Nat
      BY <2>2
    <3> QED BY <3>1
  <2> QED BY <2>1, <2>2
<1>3. ASSUME NEW q \in 1..(Len(p) - n) PROVE t[q] = p[q + n]
  <2>1. n \in Nat /\ q \in Nat /\ Len(p) \in Nat /\ (n + 1) + q - 1 = q + n
    OBVIOUS
  <2>2. t[q] = p[(n + 1) + q - 1]
    OBVIOUS
  <2> HIDE DEF t
  <2> QED BY <2>1, <2>2
<1> QED BY <1>1, <1>2, <1>3

\* The first message is taken away: the cuts of the others move up.
LEMMA CutsShift ==
  ASSUME NEW s, NEW p \in Seq(Byte), NEW i \in Nat, NEW c \in Nat, i < c,
         NEW f, Cuts(f, s, p, i, c), NEW n \in 0..Len(p), n = Len(Build(s[i + 1])),
         \A j \in 1..c : Len(Build(s[j])) \in Nat
  PROVE  \E g : /\ Cuts(g, s, SubSeq(p, n + 1, Len(p)), i + 1, c)
                /\ g[c] = f[c] - n
<1> DEFINE p2 == SubSeq(p, n + 1, Len(p))
           g == [j \in (i + 1)..c |-> f[j] - n]
<1>1. Len(p2) = Len(p) - n /\ \A q \in 1..(Len(p) - n) : p2[q] = p[q + n]
  BY TailIs
<1>2. f[i] = 0 /\ \A j \in i..c : f[j] \in 0..Len(p)
  BY DEF Cuts
<1>3. g[i + 1] = 0
  <2>1. i + 1 \in (i + 1)..c /\ (i + 1) - 1 = i
    OBVIOUS
  <2>2. f[i + 1] = f[i] + n
    BY <2>1 DEF Cuts
  <2> QED BY <1>2, <2>1, <2>2
<1>31. \A j \in (i + 1)..c : f[j] >= n
  <2> DEFINE T == {j \in (i + 1)..c : ~(f[j] >= n)}
  <2> SUFFICES ASSUME T # {} PROVE FALSE
    OBVIOUS
  <2>1. PICK j \in T : \A k \in T : j <= k
    <3>1. T \subseteq Nat
      OBVIOUS
    <3> HIDE DEF T
    <3> QED BY <3>1, SmallestIn
  <2>2. j \in (i + 1)..c /\ j \in i..c /\ j - 1 \in i..c /\ j \in 1..c
    BY <2>1
  <2>3. f[j] = f[j - 1] + Len(Build(s[j])) /\ f[j - 1] \in Nat /\ Len(Build(s[j])) \in Nat
    <3>1. f[j] = f[j - 1] + Len(Build(s[j]))
      BY <2>2 DEF Cuts
    <3>2. f[j - 1] \in Nat
      BY <1>2, <2>2
    <3>3. Len(Build(s[j])) \in Nat
      BY <2>2
    <3> QED BY <3>1, <3>2, <3>3
  <2>4. CASE j = i + 1
    <3>1. j - 1 = i
      BY <2>4
    <3> QED BY <1>2, <2>1, <2>3, <2>4, <3>1
  <2>5. CASE j # i + 1
    <3>1. j - 1 \in (i + 1)..c /\ j - 1 \notin T
      BY <2>1, <2>2, <2>5
    <3>2. f[j - 1] >= n
      BY <3>1
    <3> QED BY <2>1, <2>3, <3>2
  <2> QED BY <2>4, <2>5
<1>4. ASSUME NEW j \in (i + 1)..c PROVE g[j] = f[j] - n /\ g[j] \in 0..Len(p2) /\ f[j] \in Nat
  <2>1. f[j] \in 0..Len(p) /\ f[j] >= n
    BY <1>2, <1>31
  <2> HIDE DEF p2
  <2> QED BY <1>1, <2>1
<1> HIDE DEF g, p2
<1>5. ASSUME NEW j \in ((i + 1) + 1)..c
      PROVE  /\ g[j] = g[j - 1] + Len(Build(s[j]))
             /\ \A q \in 1..Len(Build(s[j])) : p2[g[j - 1] + q] = Build(s[j])[q]
  <2>1. j \in (i + 1)..c /\ j - 1 \in (i + 1)..c /\ j \in 1..c
    OBVIOUS
  <2>2. /\ f[j] = f[j - 1] + Len(Build(s[j]))
        /\ \A q \in 1..Len(Build(s[j])) : p[f[j - 1] + q] = Build(s[j])[q]
    BY <2>1 DEF Cuts
  <2>3. g[j] = f[j] - n /\ g[j - 1] = f[j - 1] - n /\ f[j] \in Nat /\ f[j - 1] \in Nat
    BY <1>4, <2>1
  <2>4. Len(Build(s[j])) \in Nat
    BY <2>1
  <2>5. g[j] = g[j - 1] + Len(Build(s[j]))
    BY <2>2, <2>3, <2>4
  <2>6. g[j] \in 0..(Len(p) - n) /\ g[j - 1] \in 0..(Len(p) - n)
    BY <1>1, <1>4, <2>1
  <2>7. ASSUME NEW q \in 1..Len(Build(s[j])) PROVE p2[g[j - 1] + q] = Build(s[j])[q]
    <3>1. g[j - 1] + q \in 1..(Len(p) - n) /\ (g[j - 1] + q) + n = f[j - 1] + q
      <4> DEFINE l == Len(Build(s[j]))
                 x == g[j - 1]
                 y == f[j - 1]
                 z == g[j]
      <4>1. /\ q \in 1..l /\ l \in Nat /\ x \in 0..(Len(p) - n) /\ x + l \in 0..(Len(p) - n)
            /\ x = y - n /\ y \in Nat /\ Len(p) \in Nat /\ n \in Nat
        BY <2>3, <2>4, <2>5, <2>6
      <4> HIDE DEF l, x, y
      <4>2. x + q \in 1..(Len(p) - n) /\ (x + q) + n = y + q
        BY <4>1
      <4> QED BY <4>2 DEF x, y
    <3> QED BY <1>1, <2>2, <3>1
  <2> QED BY <2>5, <2>7
<1>6. Cuts(g, s, p2, i + 1, c)
  BY <1>3, <1>4, <1>5 DEF Cuts
<1>7. c \in (i + 1)..c
  OBVIOUS
<1> QED BY <1>4, <1>6, <1>7 DEF p2

LEMMA TailConcat ==
  ASSUME NEW a \in Seq(Byte), NEW b \in Seq(Byte), NEW n \in 0..Len(a)
  PROVE  SubSeq(a, n + 1, Len(a)) \o b = SubSeq(a \o b, n + 1, Len(a \o b))
<1> DEFINE t == SubSeq(a, n + 1, Len(a))
           p == a \o b
           u == SubSeq(p, n + 1, Len(p))
<1>1. t \in Seq(Byte) /\ Len(t) = Len(a) - n /\ \A q \in 1..(Len(a) - n) : t[q] = a[q + n]
  BY TailIs
<1>2. /\ p \in Seq(Byte) /\ Len(p) = Len(a) + Len(b) /\ n \in 0..Len(p)
      /\ \A q \in 1..Len(a) : p[q] = a[q]
      /\ \A q \in 1..Len(b) : p[Len(a) + q] = b[q]
  OBVIOUS
<1> HIDE DEF t, p
<1>3. u \in Seq(Byte) /\ Len(u) = Len(p) - n /\ \A q \in 1..(Len(p) - n) : u[q] = p[q + n]
  BY <1>2, TailIs
<1> HIDE DEF u
<1> DEFINE v == t \o b
<1>4. /\ v \in Seq(Byte) /\ Len(v) = Len(t) + Len(b)
      /\ \A q \in 1..Len(t) : v[q] = t[q]
      /\ \A q \in 1..Len(b) : v[Len(t) + q] = b[q]
  <2>1. t \in Seq(Byte)
    BY <1>1
  <2> QED BY <2>1
<1> HIDE DEF v
<1>5. Len(v) = Len(u) /\ Len(a) \in Nat /\ Len(b) \in Nat /\ n \in Nat
  BY <1>1, <1>2, <1>3, <1>4
<1>6. ASSUME NEW q \in 1..Len(u) PROVE v[q] = u[q]
  <2>1. q \in Nat /\ u[q] = p[q + n]
    BY <1>2, <1>3, <1>5
  <2>2. CASE q <= Len(a) - n
    <3>1. q \in 1..Len(t) /\ q \in 1..(Len(a) - n) /\ q + n \in 1..Len(a)
      BY <1>1, <1>5, <2>1, <2>2
    <3> QED BY <1>1, <1>2, <1>4, <2>1, <3>1
  <2>3. CASE ~(q <= Len(a) - n)
    <3>1. /\ q - (Len(a) - n) \in 1..Len(b)
          /\ Len(t) + (q - (Len(a) - n)) = q
          /\ Len(a) + (q - (Len(a) - n)) = q + n
      BY <1>1, <1>2, <1>3, <1>5, <2>1, <2>3
    <3> QED BY <1>2, <1>4, <2>1, <3>1
  <2> QED BY <2>2, <2>3
<1>7. v = u
  <2>1. v \in Seq(Byte) /\ u \in Seq(Byte) /\ Len(v) = Len(u)
    BY <1>3, <1>4, <1>5
  <2> QED BY <1>6, <2>1
<1> QED BY <1>7 DEF v, u, t, p

LEMMA ConcatAssoc ==
  ASSUME NEW a \in Seq(Byte), NEW b \in Seq(Byte), NEW c \in Seq(Byte)
  PROVE  (a \o b) \o c = a \o (b \o c)
OBVIOUS

LEMMA ErrorIsNoMessage == Error \notin Message
BY DEF Error, Message, Headers

LEMMA FramedWrite ==
  ASSUME Buffers, Framed, NEW m \in Writes, Write(m)
  PROVE  Framed'
<1>1. /\ sent' = Append(sent, m) /\ stream' = stream \o Build(m)
      /\ UNCHANGED <<data_to_parse_, parsed>>
  BY DEF Write
<1>2. /\ data_to_parse_ \in Seq(Byte) /\ stream \in Seq(Byte)
      /\ m \in Message /\ Build(m) \in Seq(Byte) /\ m # Error
  <2>1. m \in Message
    BY ParserAssumption
  <2> QED BY <2>1, BuildType, ErrorIsNoMessage DEF Buffers
<1>3. Pending \in Seq(Byte) /\ Pending' = Pending \o Build(m) /\ Pending' \in Seq(Byte)
  <2>1. Pending \in Seq(Byte)
    BY <1>2 DEF Pending
  <2>2. Pending' = Pending \o Build(m)
    BY <1>1, <1>2, ConcatAssoc DEF Pending
  <2> QED BY <1>2, <2>1, <2>2
<1>4. sent \in Seq(Message \union {Error}) /\ Len(sent) \in Nat
  BY DEF Framed
<1>5. /\ sent' \in Seq(Message \union {Error}) /\ Len(sent') = Len(sent) + 1
      /\ sent'[Len(sent) + 1] = m /\ \A j \in 1..Len(sent) : sent'[j] = sent[j]
  BY <1>1, <1>2, <1>4
<1>6. \A j \in DOMAIN sent' : sent'[j] # Error => sent'[j] \in Writes
  <2>1. \A j \in DOMAIN sent' : j \in 1..Len(sent) \/ j = Len(sent) + 1
    BY <1>4, <1>5
  <2> QED BY <1>4, <1>5, <2>1 DEF Framed
<1>7. ASSUME NEW c \in 0..Len(sent) PROVE CleanUpTo(sent', c) <=> CleanUpTo(sent, c)
  <2>1. \A j \in 1..c : sent'[j] = sent[j]
    BY <1>4, <1>5
  <2> QED BY <2>1 DEF CleanUpTo
<1>8. CleanUpTo(sent', Len(sent')) => CleanUpTo(sent, Len(sent))
  BY <1>4, <1>5 DEF CleanUpTo
<1>9. parsed' = parsed /\ Len(parsed) \in Nat
  <2>1. PICK S : parsed \in Seq(S)
    BY DEF Framed
  <2> QED BY <1>1, <2>1
<1>10. CleanUpTo(sent', Len(sent')) => Len(parsed') <= Len(sent')
  BY <1>4, <1>5, <1>8, <1>9 DEF Framed
<1>11. ASSUME NEW i \in DOMAIN parsed', i <= Len(sent'), CleanUpTo(sent', i)
       PROVE  parsed'[i] = sent'[i]
  <2>1. i \in 1..Len(parsed)
    <3>1. PICK S : parsed \in Seq(S)
      BY DEF Framed
    <3> QED BY <1>1, <3>1
  <2>2. i <= Len(sent)
    <3>1. CASE i = Len(sent) + 1
      <4>1. Len(parsed) <= Len(sent)
        BY <1>5, <1>8, <1>11, <3>1 DEF Framed
      <4> QED BY <1>4, <1>9, <2>1, <3>1, <4>1
    <3>2. CASE i # Len(sent) + 1
      BY <1>4, <1>5, <1>11, <2>1, <3>2
    <3> QED BY <3>1, <3>2
  <2>3. CleanUpTo(sent, i) /\ sent'[i] = sent[i]
    BY <1>4, <1>5, <1>7, <1>11, <2>1, <2>2
  <2> QED BY <1>9, <1>11, <2>2, <2>3 DEF Framed
<1>12. ASSUME NEW c \in Len(parsed)..Len(sent'), CleanUpTo(sent', c)
       PROVE  \E f : Cuts(f, sent', Pending', Len(parsed), c)
                /\ (c = Len(sent') => f[c] = Len(Pending'))
  <2>1. CASE c = Len(sent) + 1
    <3>1. CleanUpTo(sent, Len(sent)) /\ Len(parsed) \in 0..Len(sent)
      BY <1>4, <1>5, <1>8, <1>9, <1>12, <2>1 DEF Framed
    <3>2. PICK f : Cuts(f, sent, Pending, Len(parsed), Len(sent)) /\ f[Len(sent)] = Len(Pending)
      <4>1. Len(sent) \in Len(parsed)..Len(sent)
        BY <1>4, <3>1
      <4> QED BY <3>1, <4>1 DEF Framed
    <3>3. \E g : /\ Cuts(g, Append(sent, m), Pending \o Build(m), Len(parsed), Len(sent) + 1)
                 /\ g[Len(sent) + 1] = Len(Pending \o Build(m))
      <4> DEFINE s == sent
                 p == Pending
                 i == Len(parsed)
      <4>1. /\ s \in Seq(Message \union {Error}) /\ p \in Seq(Byte) /\ m \in Message
            /\ i \in 0..Len(s) /\ Cuts(f, s, p, i, Len(s)) /\ f[Len(s)] = Len(p)
            /\ CleanUpTo(s, Len(s))
        BY <1>2, <1>3, <1>4, <3>1, <3>2
      <4> HIDE DEF s, p, i
      <4>2. \E g : /\ Cuts(g, Append(s, m), p \o Build(m), i, Len(s) + 1)
                   /\ g[Len(s) + 1] = Len(p \o Build(m))
        BY <4>1, CutsGrow
      <4> QED BY <4>2 DEF s, p, i
    <3> QED BY <1>1, <1>3, <2>1, <3>3
  <2>2. CASE c # Len(sent) + 1
    <3>1. c \in Len(parsed)..Len(sent) /\ c \in 0..Len(sent) /\ c # Len(sent')
      BY <1>4, <1>5, <1>9, <2>2
    <3>2. CleanUpTo(sent, c)
      BY <1>7, <1>12, <3>1
    <3>3. PICK f : Cuts(f, sent, Pending, Len(parsed), c)
      BY <3>1, <3>2 DEF Framed
    <3>4. \A j \in 1..c : sent'[j] = sent[j] /\ Len(Build(sent[j])) \in Nat
      <4>1. \A j \in 1..c : j \in 1..Len(sent) /\ sent[j] \in Message
        BY <1>4, <3>1, <3>2 DEF CleanUpTo
      <4> QED BY <1>5, <4>1, BuildLength
    <3>5. Len(Pending) <= Len(Pending') /\ \A q \in 1..Len(Pending) : Pending'[q] = Pending[q]
      BY <1>2, <1>3
    <3>6. Cuts(f, sent', Pending', Len(parsed), c)
      <4>1. c \in Nat /\ Len(parsed) <= c
        BY <1>4, <1>9, <3>1
      <4> QED BY <1>3, <1>9, <3>3, <3>4, <3>5, <4>1, CutsStay
    <3> QED BY <3>1, <3>6
  <2> QED BY <2>1, <2>2
<1>13. \E S : parsed' \in Seq(S)
  BY <1>9 DEF Framed
<1> QED BY <1>5, <1>6, <1>9, <1>10, <1>11, <1>12, <1>13 DEF Framed

LEMMA FramedTypes ==
  ASSUME Buffers, Framed
  PROVE  /\ data_to_parse_ \in Seq(Byte) /\ stream \in Seq(Byte) /\ Pending \in Seq(Byte)
         /\ sent \in Seq(Message \union {Error}) /\ Len(sent) \in Nat
         /\ Len(parsed) \in Nat /\ DOMAIN parsed = 1..Len(parsed)
<1>1. PICK S : parsed \in Seq(S)
  BY DEF Framed
<1>2. data_to_parse_ \in Seq(Byte) /\ stream \in Seq(Byte)
  BY DEF Buffers
<1> QED BY <1>1, <1>2 DEF Framed, Pending

LEMMA FramedWriteJunk ==
  ASSUME Buffers, Framed, NEW bytes \in Junk, WriteJunk(bytes)
  PROVE  Framed'
<1>1. /\ sent' = Append(sent, Error) /\ stream' = stream \o bytes
      /\ data_to_parse_' = data_to_parse_ /\ parsed' = parsed
  BY DEF WriteJunk
<1>2. /\ data_to_parse_ \in Seq(Byte) /\ stream \in Seq(Byte) /\ Pending \in Seq(Byte)
      /\ sent \in Seq(Message \union {Error}) /\ Len(sent) \in Nat
      /\ Len(parsed) \in Nat /\ DOMAIN parsed = 1..Len(parsed)
  BY FramedTypes
<1>3. bytes \in Seq(Byte)
  BY ParserAssumption
<1>4. Pending' = Pending \o bytes /\ Pending' \in Seq(Byte)
  <2>1. Pending' = data_to_parse_ \o (stream \o bytes)
    BY <1>1 DEF Pending
  <2>2. Pending' = Pending \o bytes
    BY <1>2, <1>3, <2>1, ConcatAssoc DEF Pending
  <2> QED BY <1>2, <1>3, <2>2
<1>5. /\ sent' \in Seq(Message \union {Error}) /\ Len(sent') = Len(sent) + 1
      /\ sent'[Len(sent) + 1] = Error /\ \A j \in 1..Len(sent) : sent'[j] = sent[j]
  BY <1>1, <1>2
<1>6. \A j \in DOMAIN sent' : sent'[j] # Error => sent'[j] \in Writes
  <2>1. \A j \in DOMAIN sent' : j \in 1..Len(sent) \/ j = Len(sent) + 1
    BY <1>2, <1>5
  <2> QED BY <1>2, <1>5, <2>1 DEF Framed
<1>7. ASSUME NEW c \in 0..Len(sent) PROVE CleanUpTo(sent', c) <=> CleanUpTo(sent, c)
  <2>1. \A j \in 1..c : sent'[j] = sent[j]
    BY <1>2, <1>5
  <2> QED BY <2>1 DEF CleanUpTo
<1>8. ~CleanUpTo(sent', Len(sent'))
  <2>1. Len(sent) + 1 \in 1..Len(sent')
    BY <1>2, <1>5
  <2> QED BY <1>5, <2>1 DEF CleanUpTo
<1>9. ASSUME NEW c \in 0..Len(sent'), CleanUpTo(sent', c)
      PROVE  c \in 0..Len(sent) /\ CleanUpTo(sent, c)
  <2>1. c # Len(sent')
    BY <1>8, <1>9
  <2>2. c \in 0..Len(sent)
    BY <1>2, <1>5, <2>1
  <2> QED BY <1>7, <1>9, <2>2
<1>10. ASSUME NEW i \in DOMAIN parsed', i <= Len(sent'), CleanUpTo(sent', i)
       PROVE  parsed'[i] = sent'[i]
  <2>1. i \in 1..Len(parsed) /\ i \in 0..Len(sent')
    BY <1>1, <1>2, <1>5, <1>10
  <2>2. i \in 1..Len(sent) /\ CleanUpTo(sent, i)
    BY <1>2, <1>9, <1>10, <2>1
  <2>3. sent'[i] = sent[i] /\ i <= Len(sent) /\ i \in DOMAIN parsed
    BY <1>2, <1>5, <2>1, <2>2
  <2> QED BY <1>1, <2>2, <2>3 DEF Framed
<1>11. ASSUME NEW c \in Len(parsed)..Len(sent'), CleanUpTo(sent', c)
       PROVE  \E f : Cuts(f, sent', Pending', Len(parsed), c)
                /\ (c = Len(sent') => f[c] = Len(Pending'))
  <2>1. c \in 0..Len(sent')
    BY <1>2, <1>5
  <2>2. c \in 0..Len(sent) /\ CleanUpTo(sent, c)
    BY <1>9, <1>11, <2>1
  <2>3. c \in Len(parsed)..Len(sent) /\ c # Len(sent') /\ c \in Nat /\ Len(parsed) <= c
    BY <1>2, <1>5, <2>2
  <2>4. PICK f : Cuts(f, sent, Pending, Len(parsed), c)
    BY <2>2, <2>3 DEF Framed
  <2>5. \A j \in 1..c : sent'[j] = sent[j] /\ Len(Build(sent[j])) \in Nat
    <3>1. \A j \in 1..c : j \in 1..Len(sent) /\ sent[j] \in Message
      BY <1>2, <2>2 DEF CleanUpTo
    <3> QED BY <1>5, <3>1, BuildLength
  <2>6. Len(Pending) <= Len(Pending') /\ \A q \in 1..Len(Pending) : Pending'[q] = Pending[q]
    BY <1>2, <1>3, <1>4
  <2>7. Cuts(f, sent', Pending', Len(parsed), c)
    BY <1>2, <1>4, <2>3, <2>4, <2>5, <2>6, CutsStay
  <2> QED BY <2>3, <2>7
<1>12. \E S : parsed' \in Seq(S)
  BY <1>1 DEF Framed
<1>13. Len(parsed') = Len(parsed)
  BY <1>1
<1> QED BY <1>5, <1>6, <1>8, <1>10, <1>11, <1>12, <1>13 DEF Framed

LEMMA FramedParseMessage ==
  ASSUME Buffers, Framed, WritesSendable, ParseMessage
  PROVE  Framed'
<1>1. PICK n \in DOMAIN data_to_parse_ :
        /\ Stops(data_to_parse_, n)
        /\ parsed' = Append(parsed, Parsed(SubSeq(data_to_parse_, 1, n)))
        /\ data_to_parse_' = SubSeq(data_to_parse_, n + 1, Len(data_to_parse_))
        /\ sent' = sent /\ stream' = stream
  BY DEF ParseMessage
<1>2. /\ data_to_parse_ \in Seq(Byte) /\ stream \in Seq(Byte) /\ Pending \in Seq(Byte)
      /\ sent \in Seq(Message \union {Error}) /\ Len(sent) \in Nat
      /\ Len(parsed) \in Nat /\ DOMAIN parsed = 1..Len(parsed)
  BY FramedTypes
<1> DEFINE message == Parsed(SubSeq(data_to_parse_, 1, n))
<1>3. /\ Len(parsed') = Len(parsed) + 1 /\ parsed'[Len(parsed) + 1] = message
      /\ \A i \in 1..Len(parsed) : parsed'[i] = parsed[i]
      /\ DOMAIN parsed' = 1..(Len(parsed) + 1)
      /\ \E S : parsed' \in Seq(S)
  <2>1. PICK S : parsed \in Seq(S)
    BY DEF Framed
  <2> HIDE DEF message
  <2>2. parsed \in Seq(S \union {message}) /\ parsed' = Append(parsed, message)
    BY <1>1, <2>1 DEF message
  <2>3. parsed' \in Seq(S \union {message})
    BY <2>2
  <2> QED BY <2>2, <2>3
<1>4. Pending' = SubSeq(Pending, n + 1, Len(Pending))
  <2>1. n \in 0..Len(data_to_parse_)
    BY <1>2
  <2> QED BY <1>1, <1>2, <2>1, TailConcat DEF Pending
\* The messages sent next are in the buffer, so that the first of them is found.
<1>5. ASSUME NEW c \in (Len(parsed) + 1)..Len(sent), CleanUpTo(sent, c)
      PROVE  /\ message = sent[Len(parsed) + 1]
             /\ \E f : Cuts(f, sent, Pending', Len(parsed) + 1, c)
                        /\ (c = Len(sent) => f[c] = Len(Pending'))
  <2> DEFINE k == Len(parsed) + 1
             m == sent[k]
  <2>1. k \in 1..c /\ c \in 1..Len(sent) /\ c \in Len(parsed)..Len(sent) /\ k - 1 = Len(parsed)
    BY <1>2
  <2>2. \A j \in 1..c : sent[j] \in Message /\ sent[j] \in Writes /\ Len(Build(sent[j])) \in Nat
    <3>1. \A j \in 1..c : j \in DOMAIN sent /\ sent[j] # Error
      BY <1>2, <1>5, <2>1 DEF CleanUpTo
    <3>2. \A j \in 1..c : sent[j] \in Writes
      BY <3>1 DEF Framed
    <3>3. \A j \in 1..c : sent[j] \in Message
      BY <3>2, ParserAssumption
    <3> QED BY <3>2, <3>3, BuildLength
  <2>3. PICK f : /\ Cuts(f, sent, Pending, Len(parsed), c)
                 /\ c = Len(sent) => f[c] = Len(Pending)
    BY <1>5, <2>1 DEF Framed
  <2>4. m \in Message /\ Sendable(m)
    BY <2>1, <2>2 DEF WritesSendable
  <2> HIDE DEF k, m
  <2>5. /\ f[k - 1] = 0 /\ f[k] \in 0..Len(Pending) /\ f[k] = f[k - 1] + Len(Build(m))
        /\ \A q \in 1..Len(Build(m)) : Pending[f[k - 1] + q] = Build(m)[q]
    <3>1. k \in (Len(parsed) + 1)..c /\ k \in Len(parsed)..c
      BY <1>2, <2>1 DEF k
    <3> QED BY <2>1, <2>3, <3>1 DEF Cuts, m
  <2>6. /\ Len(Build(m)) \in Nat /\ f[k] = Len(Build(m)) /\ Len(Build(m)) <= Len(Pending)
        /\ \A q \in 1..Len(Build(m)) : Pending[q] = Build(m)[q]
    <3>1. Len(Build(m)) \in Nat
      BY <2>4, BuildLength
    <3>2. f[k] = Len(Build(m)) /\ Len(Build(m)) <= Len(Pending)
      BY <2>5, <3>1
    <3>3. \A q \in 1..Len(Build(m)) : f[k - 1] + q = q
      BY <2>5
    <3> QED BY <2>5, <3>1, <3>2, <3>3
  <2>7. n = Len(Build(m)) /\ SubSeq(data_to_parse_, 1, n) = Build(m)
    BY <1>1, <1>2, <2>4, <2>6, AtMessage DEF Pending
  <2>8. message = m
    BY <2>4, <2>7, ParsedBuild
  <2>9. \E g : /\ Cuts(g, sent, SubSeq(Pending, n + 1, Len(Pending)), Len(parsed) + 1, c)
               /\ g[c] = f[c] - n
    <3>1. n \in 0..Len(Pending) /\ n = Len(Build(sent[Len(parsed) + 1]))
      BY <2>6, <2>7 DEF m, k
    <3>2. c \in Nat /\ Len(parsed) < c
      BY <1>2
    <3> DEFINE i == Len(parsed)
               p == Pending
               s == sent
               l == n
               d == c
    <3>3. /\ i \in Nat /\ d \in Nat /\ i < d /\ p \in Seq(Byte) /\ Cuts(f, s, p, i, d)
          /\ l \in 0..Len(p) /\ l = Len(Build(s[i + 1]))
          /\ \A j \in 1..d : Len(Build(s[j])) \in Nat
      BY <1>2, <2>2, <2>3, <3>1, <3>2
    <3> HIDE DEF i, p, s, l, d
    <3>4. \E g : /\ Cuts(g, s, SubSeq(p, l + 1, Len(p)), i + 1, d)
                 /\ g[d] = f[d] - l
      BY <3>3, CutsShift
    <3> QED BY <3>4 DEF i, p, s, l, d
  <2>10. PICK g : /\ Cuts(g, sent, Pending', Len(parsed) + 1, c)
                  /\ g[c] = f[c] - n
    BY <1>4, <2>9
  <2>11. Len(Pending') = Len(Pending) - n
    <3>1. n \in 0..Len(Pending)
      BY <2>6, <2>7
    <3> QED BY <1>2, <1>4, <3>1, TailIs
  <2>12. c = Len(sent) => g[c] = Len(Pending')
    BY <2>3, <2>10, <2>11
  <2> QED BY <2>8, <2>10, <2>12 DEF m, k
<1> HIDE DEF message
<1>6. ASSUME CleanUpTo(sent, Len(sent)) PROVE Len(parsed) + 1 <= Len(sent)
  <2> SUFFICES ASSUME ~(Len(parsed) + 1 <= Len(sent)) PROVE FALSE
    OBVIOUS
  <2>1. Len(parsed) = Len(sent)
    BY <1>2, <1>6 DEF Framed
  <2>2. PICK f : Cuts(f, sent, Pending, Len(parsed), Len(sent)) /\ f[Len(sent)] = Len(Pending)
    <3>1. Len(sent) \in Len(parsed)..Len(sent)
      BY <1>2, <2>1
    <3> QED BY <1>6, <3>1 DEF Framed
  <2>3. Len(Pending) = 0
    BY <2>1, <2>2 DEF Cuts
  <2>4. Len(Pending) = Len(data_to_parse_) + Len(stream)
    BY <1>2 DEF Pending
  <2>5. n \in 1..Len(data_to_parse_) /\ Len(stream) \in Nat
    BY <1>2
  <2> QED BY <2>3, <2>4, <2>5
<1>7. ASSUME NEW i \in DOMAIN parsed', i <= Len(sent), CleanUpTo(sent, i)
      PROVE  parsed'[i] = sent[i]
  <2>1. CASE i = Len(parsed) + 1
    <3>1. i \in (Len(parsed) + 1)..Len(sent)
      BY <1>2, <1>7, <2>1
    <3> QED BY <1>3, <1>5, <1>7, <2>1, <3>1
  <2>2. CASE i # Len(parsed) + 1
    <3>1. i \in 1..Len(parsed) /\ i \in DOMAIN parsed
      BY <1>2, <1>3, <2>2
    <3> QED BY <1>3, <1>7, <3>1 DEF Framed
  <2> QED BY <2>1, <2>2
<1>8. Len(parsed') = Len(parsed) + 1 /\ sent' = sent
  BY <1>1, <1>3
<1>9. sent' \in Seq(Message \union {Error})
      /\ \A j \in DOMAIN sent' : sent'[j] # Error => sent'[j] \in Writes
  BY <1>8 DEF Framed
<1> QED BY <1>3, <1>5, <1>6, <1>7, <1>8, <1>9 DEF Framed

LEMMA FramedStep == WritesSendable /\ Buffers /\ Framed /\ [Next]_vars => Framed'
<1> SUFFICES ASSUME WritesSendable, Buffers, Framed, [Next]_vars PROVE Framed'
  OBVIOUS
<1>1. ASSUME UNCHANGED <<sent, parsed>>, Pending' = Pending PROVE Framed'
  BY <1>1 DEF Framed
<1>2. ASSUME NEW n \in DOMAIN stream, ParseData(n) PROVE Framed'
  <2>1. data_to_parse_ \in Seq(Byte) /\ stream \in Seq(Byte) /\ n \in 1..Len(stream)
    BY DEF Buffers
  <2>2. SubSeq(stream, 1, n) \in Seq(Byte) /\ SubSeq(stream, n + 1, Len(stream)) \in Seq(Byte)
    BY <2>1, CutType
  <2>3. SubSeq(stream, 1, n) \o SubSeq(stream, n + 1, Len(stream)) = stream
    BY <2>1, CutConcat
  <2>4. Pending' = (data_to_parse_ \o SubSeq(stream, 1, n)) \o SubSeq(stream, n + 1, Len(stream))
    BY <1>2 DEF Pending, ParseData
  <2>5. Pending' = Pending
    <3> DEFINE a == SubSeq(stream, 1, n)
               b == SubSeq(stream, n + 1, Len(stream))
    <3>1. /\ a \in Seq(Byte) /\ b \in Seq(Byte) /\ a \o b = stream
          /\ Pending' = (data_to_parse_ \o a) \o b
      BY <2>2, <2>3, <2>4
    <3> HIDE DEF a, b
    <3> QED BY <2>1, <3>1, ConcatAssoc DEF Pending
  <2> QED BY <1>1, <1>2, <2>5 DEF ParseData
<1>3. CASE Incomplete
  <2>1. UNCHANGED <<sent, parsed>> /\ Pending' = Pending
    BY <1>3 DEF Incomplete, Pending
  <2> QED BY <1>1, <2>1
<1>4. CASE UNCHANGED vars
  <2>1. UNCHANGED <<sent, parsed>> /\ Pending' = Pending
    BY <1>4 DEF vars, Pending
  <2> QED BY <1>1, <2>1
<1> QED BY <1>2, <1>3, <1>4, FramedWrite, FramedWriteJunk, FramedParseMessage DEF Next

LEMMA FramedInit == Init => Framed
<1> SUFFICES ASSUME Init PROVE Framed
  OBVIOUS
<1>1. /\ sent = <<>> /\ parsed = <<>> /\ data_to_parse_ = <<>> /\ stream = <<>>
  BY DEF Init
<1>2. Pending = <<>> /\ Len(sent) = 0 /\ Len(parsed) = 0 /\ Len(Pending) = 0
  BY <1>1 DEF Pending
<1> DEFINE f == [j \in {0} |-> 0]
<1>3. Cuts(f, sent, Pending, 0, 0) /\ f[0] = 0
  BY <1>2 DEF Cuts
<1>4. sent \in Seq(Message \union {Error}) /\ parsed \in Seq({}) /\ DOMAIN sent = {} /\ DOMAIN parsed = {}
  BY <1>1
<1> HIDE DEF f
<1> QED BY <1>2, <1>3, <1>4 DEF Framed

\* When the buffer is empty or holds the start of a message, and all that was
\* sent has arrived, all of it is parsed.
LEMMA FramedImplies ==
  ASSUME WritesSendable, Buffers, InStep, Framed
  PROVE  ParsedAsSent
<1>1. /\ data_to_parse_ \in Seq(Byte) /\ stream \in Seq(Byte) /\ Pending \in Seq(Byte)
      /\ sent \in Seq(Message \union {Error}) /\ Len(sent) \in Nat
      /\ Len(parsed) \in Nat /\ DOMAIN parsed = 1..Len(parsed)
  BY FramedTypes
<1>2. \A i \in DOMAIN sent : i \in Clean <=> CleanUpTo(sent, i)
  BY <1>1 DEF Clean, CleanUpTo
<1>3. Clean = DOMAIN sent => CleanUpTo(sent, Len(sent))
  BY <1>1 DEF Clean, CleanUpTo
<1>4. ASSUME NEW i \in DOMAIN parsed \intersect Clean PROVE parsed[i] = sent[i]
  <2>1. i \in DOMAIN sent /\ i <= Len(sent)
    BY <1>1 DEF Clean
  <2> QED BY <1>2, <1>4, <2>1 DEF Framed
<1>5. ASSUME ~parsing, stream = <<>>, Clean = DOMAIN sent PROVE Len(parsed) = Len(sent)
  <2> SUFFICES ASSUME Len(parsed) # Len(sent) PROVE FALSE
    OBVIOUS
  <2>1. CleanUpTo(sent, Len(sent)) /\ Len(parsed) < Len(sent)
    BY <1>1, <1>3, <1>5 DEF Framed
  <2>2. PICK f : Cuts(f, sent, Pending, Len(parsed), Len(sent))
    <3>1. Len(sent) \in Len(parsed)..Len(sent)
      BY <1>1, <2>1
    <3> QED BY <2>1, <3>1 DEF Framed
  <2> DEFINE k == Len(parsed) + 1
             m == sent[k]
  <2>3. k \in 1..Len(sent) /\ k \in (Len(parsed) + 1)..Len(sent) /\ k \in Len(parsed)..Len(sent)
        /\ k - 1 = Len(parsed)
    BY <1>1, <2>1
  <2>4. m \in Writes /\ m \in Message /\ Sendable(m)
    <3>1. m \in Writes
      BY <1>1, <2>1, <2>3 DEF Framed, CleanUpTo
    <3> QED BY <3>1, ParserAssumption DEF WritesSendable
  <2> HIDE DEF k, m
  <2>5. /\ f[k - 1] = 0 /\ f[k] \in 0..Len(Pending) /\ f[k] = f[k - 1] + Len(Build(m))
        /\ \A q \in 1..Len(Build(m)) : Pending[f[k - 1] + q] = Build(m)[q]
    BY <2>2, <2>3 DEF Cuts, m
  <2>6. Len(Build(m)) \in Nat /\ Len(Build(m)) >= 3
    BY <2>4, BuildLength
  <2>7. Pending = data_to_parse_
    BY <1>1, <1>5 DEF Pending
  <2>8. /\ Len(Build(m)) <= Len(data_to_parse_)
        /\ \A q \in 1..Len(Build(m)) : data_to_parse_[q] = Build(m)[q]
    <3>1. \A q \in 1..Len(Build(m)) : f[k - 1] + q = q
      BY <2>5
    <3> QED BY <2>5, <2>6, <2>7, <3>1
  <2>9. Len(Build(m)) \in DOMAIN data_to_parse_
    BY <1>1, <2>6, <2>8
  <2>10. Ends(data_to_parse_, Len(Build(m)))
    <3>1. Ends(Build(m), Len(Build(m)))
      <4>1. Len(Build(m)) \in 0..Len(Build(m))
        BY <2>6
      <4> QED BY <2>4, <4>1, BuildEnds
    <3>2. Build(m) \in Seq(Byte)
      BY <2>4, BuildType
    <3> DEFINE b == Build(m)
               n == Len(b)
    <3>3. b \in Seq(Byte) /\ n \in Nat /\ n <= Len(data_to_parse_) /\ n <= Len(b)
          /\ \A q \in 1..n : data_to_parse_[q] = b[q]
      BY <2>6, <2>8, <3>2
    <3> HIDE DEF b, n
    <3>4. Ends(data_to_parse_, n) <=> Ends(b, n)
      BY <1>1, <3>3, EndsLooksBack
    <3> QED BY <3>1, <3>4 DEF b, n
  <2> QED BY <1>5, <2>9, <2>10 DEF InStep
<1>6. Clean = DOMAIN sent => Len(parsed) <= Len(sent)
  BY <1>3 DEF Framed
<1> QED BY <1>4, <1>5, <1>6 DEF ParsedAsSent

(***************************************************************************)
(* What was sent is parsed, in order, unchanged and completely, however    *)
(* the stream is cut (Parser.cpp:27-158), for every limit and every set of *)
(* messages that fit it.  Longer ones are errors: the limit is the code's  *)
(* (Parser.cpp:117), and nothing there keeps a user from typing more, so   *)
(* that it is a hypothesis here.                                           *)
(***************************************************************************)
THEOREM ParserParsedAsSent ==
  ASSUME WritesSendable
  PROVE  Spec => []ParsedAsSent
<1>1. Buffers /\ InStep /\ Framed => ParsedAsSent
  BY FramedImplies
<1>2. Buffers /\ Framed /\ [Next]_vars => Framed'
  BY FramedStep
<1> QED BY <1>1, <1>2, BuffersInit, BuffersStep, InStepInit, InStepStep, FramedInit, PTL DEF Spec
=============================================================================

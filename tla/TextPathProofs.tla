--------------------------- MODULE TextPathProofs ---------------------------
(***************************************************************************)
(* Texts that fit come through, for every limit, every nick name and every *)
(* set of texts: what ParserProofs proves of a parser, for the one in the  *)
(* server and the one in the client, and what the server does between.     *)
(***************************************************************************)
EXTENDS TextPath, FiniteSetTheorems, TLAPS

UP == INSTANCE ParserProofs WITH
        Writes <- {TextMessageToServer(t) : t \in Texts},
        Junk <- {}, MaxWrites <- MaxTexts,
        sent <- typed, stream <- up, data_to_parse_ <- server_data,
        parsing <- server_parsing, parsed <- server_parsed,
        reference <- server_reference

DP == INSTANCE ParserProofs WITH
        Writes <- {TextMessageToClient(NickName, t) : t \in Texts}
                    \union {ServerInfoMessage},
        Junk <- {}, MaxWrites <- MaxTexts + MaxInfos,
        sent <- relayed, stream <- down, data_to_parse_ <- client_data,
        parsing <- client_parsing, parsed <- client_parsed,
        reference <- client_reference

-----------------------------------------------------------------------------
(* The definitions of Up and Down are those of UP and DP.                  *)

LEMMA UpLists ==
  /\ \A S : Up!Cardinality(S) = UP!Cardinality(S)
  /\ \A m : Up!Build(m) = UP!Build(m)
  /\ \A t : Up!Number(t) = UP!Number(t)
<1>1. \A S : Up!Cardinality(S) = UP!Cardinality(S)
  BY DEF Up!Cardinality, UP!Cardinality
<1>2. \A m : Up!Build(m) = UP!Build(m)
  BY DEF Up!Build, UP!Build, Up!BuildText, UP!BuildText, Up!SEPARATOR, UP!SEPARATOR
<1>3. \A t : Up!Number(t) = UP!Number(t)
  BY Zenon DEF Up!Number, UP!Number, Up!SelectInSeq, UP!SelectInSeq, Up!Min, UP!Min,
               Up!Digits, UP!Digits, Up!SEPARATOR, UP!SEPARATOR
<1> QED BY <1>1, <1>2, <1>3

LEMMA UpEnds ==
  \A b, n : /\ Up!TextEnds(b, n) = UP!TextEnds(b, n)
           /\ Up!Ends(b, n) = UP!Ends(b, n)
           /\ Up!HeaderIsGood(b) = UP!HeaderIsGood(b)
           /\ Up!Stops(b, n) = UP!Stops(b, n)
<1>1. \A b, n : Up!TextEnds(b, n) = UP!TextEnds(b, n)
  BY DEF Up!TextEnds, UP!TextEnds, Up!SEPARATOR, UP!SEPARATOR
<1>2. \A b : Up!HeaderIsGood(b) = UP!HeaderIsGood(b)
  BY DEF Up!HeaderIsGood, UP!HeaderIsGood, Up!Headers, UP!Headers, Up!SEPARATOR, UP!SEPARATOR
<1>3. \A b, n : Up!Ends(b, n) = UP!Ends(b, n)
  BY <1>1, <1>2, UpLists DEF Up!Ends, UP!Ends, Up!Fields, UP!Fields
<1> QED BY <1>1, <1>2, <1>3 DEF Up!Stops, UP!Stops

LEMMA UpParsed == \A b : Up!Parsed(b) = UP!Parsed(b)
BY Zenon, UpLists, UpEnds DEF Up!Parsed, UP!Parsed, Up!Fields, UP!Fields, Up!Error, UP!Error,
                            Up!Digits, UP!Digits

LEMMA UpFold == \A s, b : Up!FoldLeft(Up!Push, s, b) = UP!FoldLeft(UP!Push, s, b)
<1>1. \A s, b : Up!Push(s, b) = UP!Push(s, b)
  BY UpEnds, UpParsed DEF Up!Push, UP!Push
<1> QED BY Zenon, <1>1 DEF Up!FoldLeft, UP!FoldLeft, Up!MapThenFoldSet, UP!MapThenFoldSet,
                           Up!Max, UP!Max

LEMMA UpSteps == [Up!Next]_(Up!vars) => [UP!Next]_(UP!vars)
<1>1. \A m : Up!Write(m) => UP!Write(m)
  BY UpLists DEF Up!Write, UP!Write
<1>2. \A bytes : Up!WriteJunk(bytes) => UP!WriteJunk(bytes)
  BY DEF Up!WriteJunk, UP!WriteJunk, Up!Error, UP!Error
<1>3. \A n : Up!ParseData(n) => UP!ParseData(n)
  BY UpFold DEF Up!ParseData, UP!ParseData
<1>4. Up!ParseMessage => UP!ParseMessage
  BY UpEnds, UpParsed DEF Up!ParseMessage, UP!ParseMessage
<1>5. Up!Incomplete => UP!Incomplete
  BY UpEnds DEF Up!Incomplete, UP!Incomplete
<1> QED BY <1>1, <1>2, <1>3, <1>4, <1>5 DEF Up!Next, UP!Next, Up!vars, UP!vars

LEMMA DownLists ==
  /\ \A S : Down!Cardinality(S) = DP!Cardinality(S)
  /\ \A m : Down!Build(m) = DP!Build(m)
  /\ \A t : Down!Number(t) = DP!Number(t)
<1>1. \A S : Down!Cardinality(S) = DP!Cardinality(S)
  BY DEF Down!Cardinality, DP!Cardinality
<1>2. \A m : Down!Build(m) = DP!Build(m)
  BY DEF Down!Build, DP!Build, Down!BuildText, DP!BuildText, Down!SEPARATOR, DP!SEPARATOR
<1>3. \A t : Down!Number(t) = DP!Number(t)
  BY Zenon DEF Down!Number, DP!Number, Down!SelectInSeq, DP!SelectInSeq, Down!Min, DP!Min,
               Down!Digits, DP!Digits, Down!SEPARATOR, DP!SEPARATOR
<1> QED BY <1>1, <1>2, <1>3

LEMMA DownEnds ==
  \A b, n : /\ Down!TextEnds(b, n) = DP!TextEnds(b, n)
           /\ Down!Ends(b, n) = DP!Ends(b, n)
           /\ Down!HeaderIsGood(b) = DP!HeaderIsGood(b)
           /\ Down!Stops(b, n) = DP!Stops(b, n)
<1>1. \A b, n : Down!TextEnds(b, n) = DP!TextEnds(b, n)
  BY DEF Down!TextEnds, DP!TextEnds, Down!SEPARATOR, DP!SEPARATOR
<1>2. \A b : Down!HeaderIsGood(b) = DP!HeaderIsGood(b)
  BY DEF Down!HeaderIsGood, DP!HeaderIsGood, Down!Headers, DP!Headers, Down!SEPARATOR, DP!SEPARATOR
<1>3. \A b, n : Down!Ends(b, n) = DP!Ends(b, n)
  BY <1>1, <1>2, DownLists DEF Down!Ends, DP!Ends, Down!Fields, DP!Fields
<1> QED BY <1>1, <1>2, <1>3 DEF Down!Stops, DP!Stops

LEMMA DownParsed == \A b : Down!Parsed(b) = DP!Parsed(b)
BY Zenon, DownLists, DownEnds DEF Down!Parsed, DP!Parsed, Down!Fields, DP!Fields, Down!Error, DP!Error,
                            Down!Digits, DP!Digits

LEMMA DownFold == \A s, b : Down!FoldLeft(Down!Push, s, b) = DP!FoldLeft(DP!Push, s, b)
<1>1. \A s, b : Down!Push(s, b) = DP!Push(s, b)
  BY DownEnds, DownParsed DEF Down!Push, DP!Push
<1> QED BY Zenon, <1>1 DEF Down!FoldLeft, DP!FoldLeft, Down!MapThenFoldSet, DP!MapThenFoldSet,
                           Down!Max, DP!Max

LEMMA DownSteps == [Down!Next]_(Down!vars) => [DP!Next]_(DP!vars)
<1>1. \A m : Down!Write(m) => DP!Write(m)
  BY DownLists DEF Down!Write, DP!Write
<1>2. \A bytes : Down!WriteJunk(bytes) => DP!WriteJunk(bytes)
  BY DEF Down!WriteJunk, DP!WriteJunk, Down!Error, DP!Error
<1>3. \A n : Down!ParseData(n) => DP!ParseData(n)
  BY DownFold DEF Down!ParseData, DP!ParseData
<1>4. Down!ParseMessage => DP!ParseMessage
  BY DownEnds, DownParsed DEF Down!ParseMessage, DP!ParseMessage
<1>5. Down!Incomplete => DP!Incomplete
  BY DownEnds DEF Down!Incomplete, DP!Incomplete
<1> QED BY <1>1, <1>2, <1>3, <1>4, <1>5 DEF Down!Next, DP!Next, Down!vars, DP!vars

-----------------------------------------------------------------------------
(* Each direction is a parser that messages are sent to.                   *)

Text == Seq(Up!Byte \ {Up!SEPARATOR})

LEMMA TextType == Texts \subseteq Text /\ NickName \in Text
BY TextPathAssumption DEF Text

LEMMA UpAssumption == UP!ParserAssumption
<1>1. ASSUME NEW t \in Text PROVE TextMessageToServer(t) \in UP!Message
  <2>1. t \in Seq(UP!Byte \ {UP!SEPARATOR})
    BY DEF Text, Up!Byte, UP!Byte, Up!SEPARATOR, UP!SEPARATOR, Up!Headers, UP!Headers,
           Up!Digits, UP!Digits
  <2>2. <<t>> \in Seq(Seq(UP!Byte \ {UP!SEPARATOR})) /\ Len(<<t>>) = 1
    BY <2>1
  <2> QED BY <2>2 DEF UP!Message, UP!Headers, UP!Fields, TextMessageToServer
<1>2. MAX_MESSAGE_LENGTH \in Nat \ {0, 1} /\ MaxTexts \in Nat
  BY TextPathAssumption
<1>3. {} \subseteq Seq(UP!Byte)
  OBVIOUS
<1> QED BY <1>1, <1>2, <1>3, TextType DEF UP!ParserAssumption

LEMMA DownAssumption == DP!ParserAssumption
<1>1. ASSUME NEW t \in Text, NEW u \in Text PROVE TextMessageToClient(u, t) \in DP!Message
  <2>1. t \in Seq(DP!Byte \ {DP!SEPARATOR}) /\ u \in Seq(DP!Byte \ {DP!SEPARATOR})
    BY DEF Text, Up!Byte, DP!Byte, Up!SEPARATOR, DP!SEPARATOR, Up!Headers, DP!Headers,
           Up!Digits, DP!Digits
  <2>2. <<u, t>> \in Seq(Seq(DP!Byte \ {DP!SEPARATOR})) /\ Len(<<u, t>>) = 2
    BY <2>1
  <2> QED BY <2>2 DEF DP!Message, DP!Headers, DP!Fields, TextMessageToClient
<1>2. ServerInfoMessage \in DP!Message
  <2>1. <<"1">> \in Seq(DP!Byte \ {DP!SEPARATOR})
    BY DEF DP!Byte, DP!SEPARATOR, DP!Digits
  <2>2. <<<<"1">>>> \in Seq(Seq(DP!Byte \ {DP!SEPARATOR})) /\ Len(<<<<"1">>>>) = 1
    BY <2>1
  <2> QED BY <2>2 DEF DP!Message, DP!Headers, DP!Fields, ServerInfoMessage
<1>3. MAX_MESSAGE_LENGTH \in Nat \ {0, 1} /\ MaxTexts + MaxInfos \in Nat
  BY TextPathAssumption
<1>4. {} \subseteq Seq(DP!Byte)
  OBVIOUS
<1> QED BY <1>1, <1>2, <1>3, <1>4, TextType DEF DP!ParserAssumption

\* Every step of the path is one of each direction, or leaves it alone.
LEMMA UpStep == [Next]_vars => [UP!Next]_(UP!vars)
<1>1. [Next]_vars => [Up!Next]_(Up!vars)
  <2> SUFFICES ASSUME [Next]_vars PROVE [Up!Next]_(Up!vars)
    OBVIOUS
  <2>1. ASSUME UNCHANGED upward PROVE UNCHANGED Up!vars
    BY <2>1 DEF upward, Up!vars
  <2>2. ASSUME NEW t \in Texts, SendTextMessage(t) PROVE Up!Next
    BY <2>2 DEF SendTextMessage, Up!Next
  <2>3. ASSUME ServerReceives PROVE Up!Next
    BY <2>3 DEF ServerReceives, Up!Next
  <2>4. ASSUME Relay PROVE Up!Next
    BY <2>4 DEF Relay, Up!Next
  <2>5. ASSUME NotifyServerInfo \/ ClientReceives \/ UNCHANGED vars PROVE UNCHANGED upward
    BY <2>5 DEF NotifyServerInfo, ClientReceives, vars
  <2> QED BY <2>1, <2>2, <2>3, <2>4, <2>5 DEF Next
<1> QED BY <1>1, UpSteps

\* What the server sends on is one of the messages that Down is sent.
LEMMA RelaySends ==
  ASSUME Relay
  PROVE  \/ /\ Last(server_parsed').header = "s"
            /\ Down!Write(TextMessageToClient(NickName, Last(server_parsed').texts[1]))
         \/ /\ Last(server_parsed').header # "s"
            /\ UNCHANGED downward
BY DEF Relay

-----------------------------------------------------------------------------
(* What arrives at the server, and what it sends on.                       *)

UpWrites == {TextMessageToServer(t) : t \in Texts}
DownWrites == {TextMessageToClient(NickName, t) : t \in Texts} \union {ServerInfoMessage}

IsSequence(s) == \E S : s \in Seq(S)

UpTypes == typed \in Seq(UpWrites) /\ IsSequence(server_parsed)
DownTypes == relayed \in Seq(DownWrites) /\ IsSequence(client_parsed)

\* The messages that were parsed are the first of those that were sent.
Prefix(s, t) == Len(s) <= Len(t) /\ \A i \in 1..Len(s) : s[i] = t[i]

LEMMA SequenceFacts ==
  ASSUME NEW s, IsSequence(s)
  PROVE  /\ Len(s) \in Nat /\ DOMAIN s = 1..Len(s)
         /\ \A e : /\ IsSequence(Append(s, e)) /\ Len(Append(s, e)) = Len(s) + 1
                   /\ Append(s, e)[Len(s) + 1] = e
                   /\ \A i \in 1..Len(s) : Append(s, e)[i] = s[i]
                   /\ Last(Append(s, e)) = e
<1>1. PICK S : s \in Seq(S)
  BY DEF IsSequence
<1>2. ASSUME NEW e
      PROVE  /\ IsSequence(Append(s, e)) /\ Len(Append(s, e)) = Len(s) + 1
             /\ Append(s, e)[Len(s) + 1] = e
             /\ \A i \in 1..Len(s) : Append(s, e)[i] = s[i]
  <2>1. s \in Seq(S \union {e})
    BY <1>1
  <2>2. Append(s, e) \in Seq(S \union {e})
    BY <2>1
  <2> QED BY <2>1, <2>2 DEF IsSequence
<1>3. \A e : Last(Append(s, e)) = e
  BY <1>2 DEF Last
<1> QED BY <1>1, <1>2, <1>3

LEMMA UpTypesStep == UpTypes /\ [UP!Next]_(UP!vars) => UpTypes'
<1> SUFFICES ASSUME UpTypes, [UP!Next]_(UP!vars) PROVE UpTypes'
  OBVIOUS
<1>1. typed' \in Seq(UpWrites)
  <2>1. ASSUME NEW m \in UpWrites, UP!Write(m) PROVE typed' \in Seq(UpWrites)
    BY <2>1 DEF UpTypes, UP!Write
  <2>2. typed' = typed \/ \E m \in UpWrites : UP!Write(m)
    BY DEF UP!Next, UP!ParseData, UP!ParseMessage, UP!Incomplete, UP!vars, UpWrites
  <2> QED BY <2>1, <2>2 DEF UpTypes
<1>2. IsSequence(server_parsed')
  <2>1. server_parsed' = server_parsed \/ \E e : server_parsed' = Append(server_parsed, e)
    BY DEF UP!Next, UP!Write, UP!ParseData, UP!ParseMessage, UP!Incomplete, UP!vars
  <2>2. IsSequence(server_parsed) /\ \A e : IsSequence(Append(server_parsed, e))
    BY SequenceFacts DEF UpTypes
  <2> QED BY <2>1, <2>2
<1> QED BY <1>1, <1>2 DEF UpTypes

LEMMA UpPrefix ==
  ASSUME UpTypes, UP!ParsedAsSent
  PROVE  /\ Prefix(server_parsed, typed)
         /\ up = <<>> /\ ~server_parsing => Len(server_parsed) = Len(typed)
<1>1. typed \in Seq(UpWrites) /\ \A i \in 1..Len(typed) : typed[i] \in UpWrites
  BY DEF UpTypes
<1>2. \A m \in UpWrites : m # UP!Error
  BY DEF UpWrites, TextMessageToServer, UP!Error
<1>3. UP!Clean = DOMAIN typed
  <2>1. DOMAIN typed = 1..Len(typed) /\ Len(typed) \in Nat
    BY <1>1
  <2>2. \A i \in DOMAIN typed : \A j \in 1..i : typed[j] # UP!Error
    BY <1>1, <1>2, <2>1
  <2> QED BY <2>2 DEF UP!Clean
<1>4. Len(server_parsed) \in Nat /\ DOMAIN server_parsed = 1..Len(server_parsed)
  BY SequenceFacts DEF UpTypes
<1> QED BY <1>1, <1>3, <1>4 DEF UP!ParsedAsSent, Prefix

LEMMA DownPrefix ==
  ASSUME DownTypes, DP!ParsedAsSent
  PROVE  /\ Prefix(client_parsed, relayed)
         /\ down = <<>> /\ ~client_parsing => Len(client_parsed) = Len(relayed)
<1>1. relayed \in Seq(DownWrites) /\ \A i \in 1..Len(relayed) : relayed[i] \in DownWrites
  BY DEF DownTypes
<1>2. \A m \in DownWrites : m # DP!Error
  BY DEF DownWrites, TextMessageToClient, ServerInfoMessage, DP!Error
<1>3. DP!Clean = DOMAIN relayed
  <2>1. DOMAIN relayed = 1..Len(relayed) /\ Len(relayed) \in Nat
    BY <1>1
  <2>2. \A i \in DOMAIN relayed : \A j \in 1..i : relayed[j] # DP!Error
    BY <1>1, <1>2, <2>1
  <2> QED BY <2>2 DEF DP!Clean
<1>4. Len(client_parsed) \in Nat /\ DOMAIN client_parsed = 1..Len(client_parsed)
  BY SequenceFacts DEF DownTypes
<1> QED BY <1>1, <1>3, <1>4 DEF DP!ParsedAsSent, Prefix

\* In a step of the relay, the message that was parsed is one that was typed.
LEMMA RelayedText ==
  ASSUME UpTypes, UpTypes', Prefix(server_parsed, typed)', Relay
  PROVE  /\ Len(server_parsed') = Len(server_parsed) + 1
         /\ \A i \in 1..Len(server_parsed) : server_parsed'[i] = server_parsed[i]
         /\ \E t \in Texts : /\ server_parsed'[Len(server_parsed) + 1] = TextMessageToServer(t)
                             /\ Down!Write(TextMessageToClient(NickName, t))
<1>1. PICK e : server_parsed' = Append(server_parsed, e)
  BY DEF Relay, Up!ParseMessage
<1>2. /\ Len(server_parsed) \in Nat /\ Len(server_parsed') = Len(server_parsed) + 1
      /\ \A i \in 1..Len(server_parsed) : server_parsed'[i] = server_parsed[i]
      /\ server_parsed'[Len(server_parsed) + 1] = e /\ Last(server_parsed') = e
  BY <1>1, SequenceFacts DEF UpTypes
<1>3. e \in UpWrites
  <2>1. Len(server_parsed) + 1 \in 1..Len(server_parsed')
    BY <1>2
  <2>2. e = typed'[Len(server_parsed) + 1] /\ Len(server_parsed') <= Len(typed')
    BY <1>2, <2>1 DEF Prefix
  <2>3. typed' \in Seq(UpWrites)
    BY DEF UpTypes
  <2> QED BY <1>2, <2>2, <2>3
<1>4. PICK t \in Texts : e = TextMessageToServer(t)
  BY <1>3 DEF UpWrites
<1>5. e.header = "s" /\ e.texts[1] = t
  BY <1>4 DEF TextMessageToServer
<1>6. Down!Write(TextMessageToClient(NickName, t))
  BY <1>2, <1>5, RelaySends
<1> QED BY <1>2, <1>4, <1>6

LEMMA DownStep ==
  ASSUME UpTypes, UpTypes', Prefix(server_parsed, typed)', [Next]_vars
  PROVE  [DP!Next]_(DP!vars)
<1>1. [Down!Next]_(Down!vars)
  <2>1. ASSUME UNCHANGED downward PROVE UNCHANGED Down!vars
    BY <2>1 DEF downward, Down!vars
  <2>2. ASSUME NEW t \in Texts, SendTextMessage(t) PROVE UNCHANGED downward
    BY <2>2 DEF SendTextMessage
  <2>3. ASSUME ServerReceives \/ UNCHANGED vars PROVE UNCHANGED downward
    BY <2>3 DEF ServerReceives, vars
  <2>4. ASSUME Relay PROVE Down!Next
    BY <2>4, RelayedText DEF Down!Next
  <2>5. ASSUME NotifyServerInfo \/ ClientReceives PROVE Down!Next
    BY <2>5 DEF NotifyServerInfo, ClientReceives, Down!Next
  <2> QED BY <2>1, <2>2, <2>3, <2>4, <2>5 DEF Next
<1> QED BY <1>1, DownSteps

LEMMA DownTypesStep == DownTypes /\ [DP!Next]_(DP!vars) => DownTypes'
<1> SUFFICES ASSUME DownTypes, [DP!Next]_(DP!vars) PROVE DownTypes'
  OBVIOUS
<1>1. relayed' \in Seq(DownWrites)
  <2>1. ASSUME NEW m \in DownWrites, DP!Write(m) PROVE relayed' \in Seq(DownWrites)
    BY <2>1 DEF DownTypes, DP!Write
  <2>2. relayed' = relayed \/ \E m \in DownWrites : DP!Write(m)
    BY DEF DP!Next, DP!ParseData, DP!ParseMessage, DP!Incomplete, DP!vars, DownWrites
  <2> QED BY <2>1, <2>2 DEF DownTypes
<1>2. IsSequence(client_parsed')
  <2>1. client_parsed' = client_parsed \/ \E e : client_parsed' = Append(client_parsed, e)
    BY DEF DP!Next, DP!Write, DP!ParseData, DP!ParseMessage, DP!Incomplete, DP!vars
  <2>2. IsSequence(client_parsed) /\ \A e : IsSequence(Append(client_parsed, e))
    BY SequenceFacts DEF DownTypes
  <2> QED BY <2>1, <2>2
<1> QED BY <1>1, <1>2 DEF DownTypes

LEMMA PathInit == Init => UP!Init /\ DP!Init /\ UpTypes /\ DownTypes
<1> SUFFICES ASSUME Init PROVE UP!Init /\ DP!Init /\ UpTypes /\ DownTypes
  OBVIOUS
<1>1. UP!Init /\ DP!Init
  BY DEF Init, Up!Init, UP!Init, Down!Init, DP!Init
<1>2. typed = <<>> /\ server_parsed = <<>> /\ relayed = <<>> /\ client_parsed = <<>>
  BY <1>1 DEF UP!Init, DP!Init
<1>3. <<>> \in Seq({}) /\ <<>> \in Seq(UpWrites) /\ <<>> \in Seq(DownWrites)
  OBVIOUS
<1> QED BY <1>1, <1>2, <1>3 DEF UpTypes, DownTypes, IsSequence

-----------------------------------------------------------------------------
(* The texts among the server's messages are those it has parsed.          *)

TextNumber(i) == Cardinality(TextsIn(relayed, i))

Relayed ==
  /\ TextNumber(Len(relayed)) = Len(server_parsed)
  /\ \A i \in TextsIn(relayed, Len(relayed)) :
       /\ TextNumber(i) \in 1..Len(server_parsed)
       /\ relayed[i].texts = <<NickName, server_parsed[TextNumber(i)].texts[1]>>

LEMMA TextsFinite ==
  ASSUME NEW s, NEW n \in Nat
  PROVE  IsFiniteSet(TextsIn(s, n)) /\ Cardinality(TextsIn(s, n)) \in Nat
<1>1. IsFiniteSet(1..n) /\ TextsIn(s, n) \subseteq 1..n
  BY FS_Interval DEF TextsIn
<1>2. IsFiniteSet(TextsIn(s, n))
  BY <1>1, FS_Subset
<1> QED BY <1>2, FS_CardinalityType

\* The first messages decide about the texts among them.
LEMMA TextsOfPrefix ==
  ASSUME NEW s, NEW t, NEW n \in Nat, \A i \in 1..n : s[i] = t[i]
  PROVE  \A i \in 0..n : TextsIn(s, i) = TextsIn(t, i)
BY DEF TextsIn

\* Another message is a text or is not.
LEMMA TextsAppend ==
  ASSUME NEW s, IsSequence(s), NEW m
  PROVE  LET n == Len(s) t == Append(s, m)
         IN /\ \A i \in 0..n : TextsIn(t, i) = TextsIn(s, i)
            /\ TextsIn(t, n + 1) = IF m.header = "c" THEN TextsIn(s, n) \union {n + 1}
                                                     ELSE TextsIn(s, n)
            /\ Cardinality(TextsIn(t, n + 1)) =
                 Cardinality(TextsIn(s, n)) + IF m.header = "c" THEN 1 ELSE 0
<1> DEFINE n == Len(s)
           t == Append(s, m)
<1>1. /\ n \in Nat /\ t[n + 1] = m /\ \A i \in 1..n : t[i] = s[i]
  BY SequenceFacts
<1> HIDE DEF n, t
<1>2. \A i \in 0..n : TextsIn(t, i) = TextsIn(s, i)
  BY <1>1, TextsOfPrefix
<1>3. TextsIn(t, n + 1) = IF m.header = "c" THEN TextsIn(s, n) \union {n + 1}
                                            ELSE TextsIn(s, n)
  BY <1>1 DEF TextsIn
<1>4. IsFiniteSet(TextsIn(s, n)) /\ Cardinality(TextsIn(s, n)) \in Nat /\ n + 1 \notin TextsIn(s, n)
  <2>1. n + 1 \notin TextsIn(s, n)
    BY <1>1 DEF TextsIn
  <2> QED BY <1>1, <2>1, TextsFinite
<1>5. Cardinality(TextsIn(s, n) \union {n + 1}) = Cardinality(TextsIn(s, n)) + 1
  BY <1>4, FS_AddElement
<1>6. Cardinality(TextsIn(t, n + 1)) =
        Cardinality(TextsIn(s, n)) + IF m.header = "c" THEN 1 ELSE 0
  BY <1>3, <1>4, <1>5
<1> QED BY <1>2, <1>3, <1>6 DEF n, t

LEMMA TextAt ==
  ASSUME NEW s, NEW i \in Nat
  PROVE  i \in TextsIn(s, i) <=> i # 0 /\ s[i].header = "c"
BY DEF TextsIn

LEMMA DownTypesImply ==
  ASSUME DownTypes
  PROVE  /\ IsSequence(relayed) /\ Len(relayed) \in Nat
         /\ IsSequence(client_parsed) /\ Len(client_parsed) \in Nat
<1>1. IsSequence(relayed) /\ IsSequence(client_parsed)
  BY DEF DownTypes, IsSequence
<1> QED BY <1>1, SequenceFacts

LEMMA RelayedWrite ==
  ASSUME UpTypes, DownTypes, Relayed, NEW m, relayed' = Append(relayed, m),
         \/ /\ m.header # "c" /\ server_parsed' = server_parsed
         \/ /\ m.header = "c"
            /\ Len(server_parsed') = Len(server_parsed) + 1
            /\ \A i \in 1..Len(server_parsed) : server_parsed'[i] = server_parsed[i]
            /\ m.texts = <<NickName, server_parsed'[Len(server_parsed) + 1].texts[1]>>
  PROVE  Relayed'
<1> DEFINE n == Len(relayed)
           k == Len(server_parsed)
<1>1. /\ IsSequence(relayed) /\ n \in Nat /\ k \in Nat
  BY DownTypesImply, SequenceFacts DEF UpTypes
<1>2. /\ Len(relayed') = n + 1 /\ relayed'[n + 1] = m
      /\ \A i \in 1..n : relayed'[i] = relayed[i]
  BY <1>1, SequenceFacts
<1>3. /\ \A i \in 0..n : TextsIn(relayed', i) = TextsIn(relayed, i)
      /\ TextsIn(relayed', n + 1) = IF m.header = "c" THEN TextsIn(relayed, n) \union {n + 1}
                                                     ELSE TextsIn(relayed, n)
      /\ Cardinality(TextsIn(relayed', n + 1)) =
           Cardinality(TextsIn(relayed, n)) + IF m.header = "c" THEN 1 ELSE 0
  BY <1>1, TextsAppend
<1>4. Cardinality(TextsIn(relayed, n)) = k
  BY DEF Relayed, TextNumber
<1>5. Cardinality(TextsIn(relayed', n + 1)) = Len(server_parsed')
  BY <1>1, <1>3, <1>4
<1>6. ASSUME NEW i \in TextsIn(relayed, n)
      PROVE  /\ TextNumber(i)' \in 1..Len(server_parsed')
             /\ relayed'[i].texts = <<NickName, server_parsed'[TextNumber(i)'].texts[1]>>
  <2>1. i \in 1..n
    BY DEF TextsIn
  <2>2. TextNumber(i)' = TextNumber(i) /\ relayed'[i] = relayed[i]
    <3>1. TextsIn(relayed', i) = TextsIn(relayed, i)
      BY <1>1, <1>3, <2>1
    <3> QED BY <1>2, <2>1, <3>1 DEF TextNumber
  <2>3. TextNumber(i) \in 1..k /\ relayed[i].texts = <<NickName, server_parsed[TextNumber(i)].texts[1]>>
    BY DEF Relayed
  <2>4. Len(server_parsed') >= k /\ server_parsed'[TextNumber(i)] = server_parsed[TextNumber(i)]
        /\ Len(server_parsed') \in Nat
    BY <1>1, <2>3
  <2> HIDE DEF k
  <2>5. TextNumber(i) \in 1..Len(server_parsed')
    BY <1>1, <2>3, <2>4
  <2> QED BY <2>2, <2>3, <2>4, <2>5
<1>7. ASSUME NEW i, i = n + 1, m.header = "c"
      PROVE  /\ TextNumber(i)' \in 1..Len(server_parsed')
             /\ relayed'[i].texts = <<NickName, server_parsed'[TextNumber(i)'].texts[1]>>
  <2>1. TextNumber(i)' = Cardinality(TextsIn(relayed', n + 1))
    BY <1>7 DEF TextNumber
  <2>2. TextNumber(i)' = Len(server_parsed')
    BY <1>5, <2>1
  <2>3. Len(server_parsed') = k + 1
    BY <1>7
  <2>4. relayed'[i].texts = <<NickName, server_parsed'[k + 1].texts[1]>>
    BY <1>2, <1>7
  <2> HIDE DEF n, k
  <2> QED BY <1>1, <2>2, <2>3, <2>4
<1>8. ASSUME NEW i \in TextsIn(relayed', n + 1)
      PROVE  /\ TextNumber(i)' \in 1..Len(server_parsed')
             /\ relayed'[i].texts = <<NickName, server_parsed'[TextNumber(i)'].texts[1]>>
  <2>1. CASE i \in TextsIn(relayed, n)
    BY <1>6, <2>1
  <2>2. CASE i \notin TextsIn(relayed, n)
    <3>1. i = n + 1 /\ m.header = "c"
      BY <1>3, <2>2
    <3> QED BY <1>7, <3>1
  <2> QED BY <2>1, <2>2
<1>9. TextsIn(relayed', Len(relayed')) = TextsIn(relayed', n + 1)
  BY <1>2
<1> HIDE DEF n
<1> QED BY <1>5, <1>8, <1>9, <1>2 DEF Relayed, TextNumber

LEMMA RelayedStep ==
  ASSUME UpTypes, UpTypes', Prefix(server_parsed, typed)', DownTypes, Relayed, [Next]_vars
  PROVE  Relayed'
<1>1. ASSUME UNCHANGED <<relayed, server_parsed>> PROVE Relayed'
  BY <1>1 DEF Relayed, TextNumber
<1>2. ASSUME NEW t \in Texts, SendTextMessage(t) PROVE UNCHANGED <<relayed, server_parsed>>
  BY <1>2 DEF SendTextMessage, Up!Write, downward
<1>3. ASSUME ServerReceives PROVE UNCHANGED <<relayed, server_parsed>>
  BY <1>3 DEF ServerReceives, Up!ParseData, Up!Incomplete, downward
<1>4. ASSUME Relay PROVE Relayed'
  <2>1. PICK t \in Texts :
          /\ Len(server_parsed') = Len(server_parsed) + 1
          /\ \A i \in 1..Len(server_parsed) : server_parsed'[i] = server_parsed[i]
          /\ server_parsed'[Len(server_parsed) + 1] = TextMessageToServer(t)
          /\ Down!Write(TextMessageToClient(NickName, t))
    BY <1>4, RelayedText
  <2> DEFINE m == TextMessageToClient(NickName, t)
  <2>2. /\ m.header = "c" /\ m.texts = <<NickName, TextMessageToServer(t).texts[1]>>
    BY DEF TextMessageToClient, TextMessageToServer
  <2>3. relayed' = Append(relayed, m)
    BY <2>1 DEF Down!Write
  <2> HIDE DEF m
  <2> QED BY <2>1, <2>2, <2>3, RelayedWrite
<1>5. ASSUME NotifyServerInfo PROVE Relayed'
  <2>1. relayed' = Append(relayed, ServerInfoMessage) /\ server_parsed' = server_parsed
    BY <1>5 DEF NotifyServerInfo, Down!Write, upward
  <2>2. ServerInfoMessage.header # "c"
    BY DEF ServerInfoMessage
  <2> QED BY <2>1, <2>2, RelayedWrite
<1>6. ASSUME ClientReceives PROVE UNCHANGED <<relayed, server_parsed>>
  BY <1>6 DEF ClientReceives, Down!ParseData, Down!ParseMessage, Down!Incomplete, upward
<1>7. ASSUME UNCHANGED vars PROVE UNCHANGED <<relayed, server_parsed>>
  BY <1>7 DEF vars, upward, downward
<1> QED BY <1>1, <1>2, <1>3, <1>4, <1>5, <1>6, <1>7 DEF Next

LEMMA RelayedInit == Init => Relayed
<1> SUFFICES ASSUME Init PROVE Relayed
  OBVIOUS
<1>1. relayed = <<>> /\ server_parsed = <<>>
  BY DEF Init, Up!Init, Down!Init
<1>2. Len(relayed) = 0 /\ Len(server_parsed) = 0 /\ TextsIn(relayed, 0) = {}
  BY <1>1 DEF TextsIn
<1> QED BY <1>2, FS_EmptySet DEF Relayed, TextNumber

-----------------------------------------------------------------------------

Path == UpTypes /\ DownTypes /\ Relayed /\ UP!ParsedAsSent /\ DP!ParsedAsSent

LEMMA PathHolds == ASSUME AllFit PROVE Spec => []Path
<1>1. UP!WritesSendable /\ DP!WritesSendable
  <2>1. \A m : Up!Sendable(m) => UP!Sendable(m)
    BY UpLists DEF Up!Sendable, UP!Sendable, Up!Digits, UP!Digits
  <2>2. \A m : Down!Sendable(m) => DP!Sendable(m)
    BY DownLists DEF Down!Sendable, DP!Sendable, Down!Digits, DP!Digits
  <2> QED BY <2>1, <2>2 DEF AllFit, Up!WritesSendable, UP!WritesSendable,
                            Down!WritesSendable, DP!WritesSendable
<1>2. UP!Spec => []UP!ParsedAsSent
  BY <1>1, UpAssumption, UP!ParserParsedAsSent
<1>3. DP!Spec => []DP!ParsedAsSent
  BY <1>1, DownAssumption, DP!ParserParsedAsSent
<1>4. Spec => UP!Spec
  BY PathInit, UpStep, PTL DEF Spec, UP!Spec
<1>5. Spec => []UpTypes
  BY PathInit, UpStep, UpTypesStep, PTL DEF Spec
<1>6. UpTypes /\ UP!ParsedAsSent => Prefix(server_parsed, typed)
  BY UpPrefix
<1>7. Spec => [](UpTypes /\ UP!ParsedAsSent /\ Prefix(server_parsed, typed))
  BY <1>2, <1>4, <1>5, <1>6, PTL
<1>8. UpTypes /\ UpTypes' /\ Prefix(server_parsed, typed)' /\ [Next]_vars
        => [DP!Next]_(DP!vars)
  BY DownStep
<1>9. Spec => DP!Spec
  BY <1>7, <1>8, PathInit, PTL DEF Spec, DP!Spec
<1>10. Spec => []DownTypes
  BY <1>9, PathInit, DownTypesStep, PTL DEF DP!Spec, Spec
<1>11. UpTypes /\ UpTypes' /\ Prefix(server_parsed, typed)' /\ DownTypes /\ Relayed
         /\ [Next]_vars => Relayed'
  BY RelayedStep
<1>12. Spec => []Relayed
  BY <1>7, <1>10, <1>11, RelayedInit, PTL DEF Spec
<1> QED BY <1>3, <1>7, <1>9, <1>10, <1>12, PTL DEF Path

(***************************************************************************)
(* Whatever is typed and however both streams are cut: a client is shown   *)
(* the texts in order, unchanged and under the sender's nick name          *)
(* (Server.cpp:45-52, Parser.cpp:27-158).                                  *)
(***************************************************************************)
THEOREM PathTextsIntact == ASSUME AllFit PROVE Spec => []TextsIntact
<1>1. ASSUME Path PROVE TextsIntact
  <2>0. UpTypes /\ DownTypes /\ Relayed /\ UP!ParsedAsSent /\ DP!ParsedAsSent
    BY <1>1 DEF Path
  <2>1. Prefix(server_parsed, typed) /\ Prefix(client_parsed, relayed)
    BY <2>0, UpPrefix, DownPrefix
  <2>2. Len(client_parsed) \in Nat /\ Len(relayed) \in Nat
    BY <2>0, DownTypesImply
  <2>3. \A i \in 0..Len(client_parsed) : TextsIn(client_parsed, i) = TextsIn(relayed, i)
    BY <2>1, <2>2, TextsOfPrefix DEF Prefix
  <2>4. ASSUME NEW i \in TextsIn(client_parsed, Len(client_parsed))
        PROVE  LET k == Cardinality(TextsIn(client_parsed, i))
               IN /\ k <= Len(typed)
                  /\ client_parsed[i].texts = <<NickName, typed[k].texts[1]>>
    <3> DEFINE k == TextNumber(i)
    <3>1. i \in 1..Len(client_parsed)
      BY DEF TextsIn
    <3>2. Cardinality(TextsIn(client_parsed, i)) = k /\ client_parsed[i] = relayed[i]
      <4>1. i \in 0..Len(client_parsed)
        BY <2>2, <3>1
      <4> QED BY <2>1, <2>3, <3>1, <4>1 DEF TextNumber, Prefix
    <3>3. i \in TextsIn(relayed, Len(relayed))
      <4>1. i \in 1..Len(relayed) /\ client_parsed[i].header = "c"
        BY <2>1, <2>2, <3>1 DEF Prefix, TextsIn
      <4> QED BY <3>2, <4>1 DEF TextsIn
    <3>4. /\ k \in 1..Len(server_parsed)
          /\ relayed[i].texts = <<NickName, server_parsed[k].texts[1]>>
      BY <2>0, <3>3 DEF Relayed
    <3> HIDE DEF k
    <3>5. Len(server_parsed) \in Nat /\ Len(typed) \in Nat
      BY <2>0, SequenceFacts DEF UpTypes
    <3>6. k <= Len(typed) /\ server_parsed[k] = typed[k]
      BY <2>1, <3>4, <3>5 DEF Prefix
    <3> QED BY <3>2, <3>4, <3>6
  <2> QED BY <2>4 DEF TextsIntact
<1> QED BY <1>1, PathHolds, PTL

(***************************************************************************)
(* Once everything has arrived, no text is missing, and none of the        *)
(* server's own messages (Server.cpp:71-76, Parser.cpp:64-114).            *)
(***************************************************************************)
THEOREM PathNothingMissing == ASSUME AllFit PROVE Spec => []NothingMissing
<1>1. ASSUME Path PROVE NothingMissing
  <2>0. UpTypes /\ DownTypes /\ Relayed /\ UP!ParsedAsSent /\ DP!ParsedAsSent
    BY <1>1 DEF Path
  <2>1. /\ up = <<>> /\ ~server_parsing => Len(server_parsed) = Len(typed)
        /\ Prefix(client_parsed, relayed)
        /\ down = <<>> /\ ~client_parsing => Len(client_parsed) = Len(relayed)
    BY <2>0, UpPrefix, DownPrefix
  <2>2. Len(client_parsed) \in Nat /\ DOMAIN client_parsed = 1..Len(client_parsed)
        /\ DOMAIN relayed = 1..Len(relayed)
    BY <2>0, DownTypesImply, SequenceFacts
  <2>3. \A i \in 1..Len(client_parsed) : client_parsed[i] = relayed[i]
    BY <2>1 DEF Prefix
  <2>4. ASSUME AllArrived
        PROVE  Cardinality(TextsIn(client_parsed, Len(client_parsed))) = Len(typed)
    <3>1. Len(client_parsed) = Len(relayed) /\ Len(server_parsed) = Len(typed)
      BY <2>1, <2>4 DEF AllArrived
    <3>2. Len(client_parsed) \in 0..Len(client_parsed)
      BY <2>2
    <3>3. TextsIn(client_parsed, Len(client_parsed)) = TextsIn(relayed, Len(client_parsed))
      BY <2>2, <2>3, <3>2, TextsOfPrefix
    <3> QED BY <2>0, <3>1, <3>3 DEF Relayed, TextNumber
  <2>5. ASSUME down = <<>>, ~client_parsing
        PROVE  Cardinality(CountsIn(client_parsed)) = Cardinality(CountsIn(relayed))
    <3>1. DOMAIN client_parsed = DOMAIN relayed
      BY <2>1, <2>2, <2>5
    <3>2. CountsIn(client_parsed) = CountsIn(relayed)
      BY <2>2, <2>3, <3>1 DEF CountsIn
    <3> QED BY <3>2
  <2> QED BY <2>4, <2>5 DEF NothingMissing
<1> QED BY <1>1, PathHolds, PTL
=============================================================================

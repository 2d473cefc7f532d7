--------------------------- MODULE ChatRoomProofs ---------------------------
(***************************************************************************)
(* What a member of the room is told is right: proofs about ChatRoom for   *)
(* any set of clients, any limit and any number of texts.                  *)
(***************************************************************************)
EXTENDS ChatRoom, TLAPS, FiniteSetTheorems

RoomAssumption == Texts \in [Client -> Nat]

Message == [kind : {"info", "text", "leave", "lost"}, who : Nat, n : Nat]

RoomTypes ==
  /\ members \subseteq Client /\ IsFiniteSet(members)
  /\ joined \in Nat
  /\ nick \in [Client -> Nat]
  /\ said \in [Client -> Nat]
  /\ inbox \in [Client -> Seq(Message)]

\* Who has not come yet has heard and said nothing.
Fresh == \A p \in Client : nick[p] = 0 => said[p] = 0 /\ inbox[p] = <<>>

\* Texts and leave messages are of somebody who came; texts were said.
WhoCame ==
  \A q \in Client : \A i \in DOMAIN inbox[q] :
    /\ inbox[q][i].who <= joined
    /\ inbox[q][i].who # 0 <=> inbox[q][i].kind \in {"text", "leave"}
    /\ \A p \in Client :
         inbox[q][i].kind = "text" /\ inbox[q][i].who = nick[p] =>
           inbox[q][i].n \in 1..said[p]

RoomInv == RoomTypes /\ NicksUnique /\ Fresh /\ WhoCame

-----------------------------------------------------------------------------
(* What is sent.                                                           *)

\* The messages are added behind what q has, lost or not.
Gets(q, msgs) ==
  /\ Len(inbox'[q]) = Len(inbox[q]) + Len(msgs)
  /\ \A i \in 1..Len(inbox[q]) : inbox'[q][i] = inbox[q][i]
  /\ \A i \in 1..Len(msgs) :
       /\ inbox'[q][Len(inbox[q]) + i] \in {msgs[i], Lost}
       /\ q \notin Deaf => inbox'[q][Len(inbox[q]) + i] = msgs[i]

LEMMA SeqFacts ==
  ASSUME NEW S, NEW s \in Seq(S)
  PROVE  Len(s) \in Nat /\ DOMAIN s = 1..Len(s) /\ \A i \in 1..Len(s) : s[i] \in S
OBVIOUS

LEMMA ConcatFacts ==
  ASSUME NEW S, NEW s \in Seq(S), NEW t \in Seq(S)
  PROVE  /\ s \o t \in Seq(S)
         /\ Len(s \o t) = Len(s) + Len(t)
         /\ \A i \in 1..Len(s) : (s \o t)[i] = s[i]
         /\ \A i \in 1..Len(t) : (s \o t)[Len(s) + i] = t[i]
OBVIOUS

LEMMA SendGets ==
  ASSUME RoomTypes, NEW targets, NEW msgs \in Seq(Message), Send(targets, msgs)
  PROVE  /\ inbox' \in [Client -> Seq(Message)]
         /\ \A q \in Client :
              IF q \in targets THEN Gets(q, msgs) ELSE inbox'[q] = inbox[q]
<1>1. PICK lost \in SUBSET ((targets \intersect Deaf) \X DOMAIN msgs) :
        inbox' = [q \in Client |->
                    IF q \in targets
                    THEN inbox[q] \o [i \in DOMAIN msgs |->
                           IF <<q, i>> \in lost THEN Lost ELSE msgs[i]]
                    ELSE inbox[q]]
  BY DEF Send
<1> DEFINE new(q) == [i \in DOMAIN msgs |->
                        IF <<q, i>> \in lost THEN Lost ELSE msgs[i]]
<1>2. Len(msgs) \in Nat /\ DOMAIN msgs = 1..Len(msgs) /\ Lost \in Message
  BY DEF Lost, Message
<1>3. \A q \in Client : new(q) \in Seq(Message) /\ Len(new(q)) = Len(msgs)
  BY <1>2
<1>4. ASSUME NEW q \in Client
      PROVE  inbox'[q] = IF q \in targets THEN inbox[q] \o new(q) ELSE inbox[q]
  BY <1>1
<1>5. \A q \in Client : \A i \in 1..Len(msgs) :
        new(q)[i] \in {msgs[i], Lost} /\ (q \notin Deaf => new(q)[i] = msgs[i])
  BY <1>2
<1> HIDE DEF new
<1>6. ASSUME NEW q \in Client PROVE inbox[q] \in Seq(Message)
  BY DEF RoomTypes
<1>7. inbox' \in [Client -> Seq(Message)]
  <2>1. ASSUME NEW q \in Client PROVE inbox'[q] \in Seq(Message)
    <3>1. inbox[q] \in Seq(Message) /\ new(q) \in Seq(Message)
      BY <1>3, <1>6
    <3>2. inbox[q] \o new(q) \in Seq(Message)
      BY <3>1, ConcatFacts
    <3> QED BY <1>4, <3>1, <3>2
  <2>2. inbox' = [q \in Client |-> inbox'[q]]
    BY <1>1
  <2> QED BY <2>1, <2>2
<1>8. ASSUME NEW q \in Client, q \in targets PROVE Gets(q, msgs)
  <2>1. inbox'[q] = inbox[q] \o new(q)
    BY <1>4, <1>8
  <2>2. /\ Len(inbox'[q]) = Len(inbox[q]) + Len(msgs)
        /\ \A i \in 1..Len(inbox[q]) : inbox'[q][i] = inbox[q][i]
        /\ \A i \in 1..Len(msgs) : inbox'[q][Len(inbox[q]) + i] = new(q)[i]
    BY <1>3, <1>6, <2>1, ConcatFacts
  <2> QED BY <1>5, <2>2 DEF Gets
<1> QED BY <1>4, <1>7, <1>8

\* The messages of a member's inbox after a step are old ones or new ones.
LEMMA OldOrNew ==
  ASSUME RoomTypes, inbox' \in [Client -> Seq(Message)], NEW q \in Client,
         NEW msgs \in Seq(Message), Gets(q, msgs), NEW i \in DOMAIN inbox'[q]
  PROVE  \/ i \in DOMAIN inbox[q] /\ inbox'[q][i] = inbox[q][i]
         \/ \E m \in 1..Len(msgs) :
              /\ i = Len(inbox[q]) + m
              /\ inbox'[q][i] \in {msgs[m], Lost}
              /\ q \notin Deaf => inbox'[q][i] = msgs[m]
<1>1. /\ Len(inbox[q]) \in Nat /\ DOMAIN inbox[q] = 1..Len(inbox[q])
      /\ Len(msgs) \in Nat
      /\ DOMAIN inbox'[q] = 1..(Len(inbox[q]) + Len(msgs))
  <2>1. inbox[q] \in Seq(Message) /\ inbox'[q] \in Seq(Message)
    BY DEF RoomTypes
  <2> QED BY <2>1, SeqFacts DEF Gets
<1>2. CASE i <= Len(inbox[q])
  BY <1>1, <1>2 DEF Gets
<1>3. CASE i > Len(inbox[q])
  <2>1. i - Len(inbox[q]) \in 1..Len(msgs)
    BY <1>1, <1>3 DEF Gets
  <2> QED BY <1>1, <2>1 DEF Gets
<1> QED BY <1>1, <1>2, <1>3

\* The steps of the room, as far as their effect on inboxes goes.
LEMMA JoinGets ==
  ASSUME RoomTypes, NEW p \in Client, Join(p)
  PROVE  LET msgs == <<Info(Cardinality(members'))>>
         IN /\ msgs \in Seq(Message)
            /\ IsFiniteSet(members')
            /\ p \notin members =>
                 Cardinality(members') = Cardinality(members) + 1
            /\ Cardinality(members) \in Nat /\ Cardinality(members') \in Nat
            /\ inbox' \in [Client -> Seq(Message)]
            /\ \A q \in Client : IF q \in members' THEN Gets(q, msgs)
                                 ELSE inbox'[q] = inbox[q]
<1>1. /\ IsFiniteSet(members')
      /\ p \notin members => Cardinality(members') = Cardinality(members) + 1
      /\ Cardinality(members) \in Nat /\ Cardinality(members') \in Nat
  BY FS_AddElement, FS_CardinalityType DEF Join, RoomTypes
<1>2. <<Info(Cardinality(members'))>> \in Seq(Message)
  BY <1>1 DEF Info, Message
<1> QED BY <1>1, <1>2, SendGets DEF Join

LEMMA DepartGets ==
  ASSUME RoomTypes, NEW p \in Client, Depart(p)
  PROVE  LET msgs == <<Info(Cardinality(members')), Leave(nick[p])>>
         IN /\ msgs \in Seq(Message)
            /\ IsFiniteSet(members')
            /\ Cardinality(members) = Cardinality(members') + 1
            /\ Cardinality(members) \in Nat /\ Cardinality(members') \in Nat
            /\ inbox' \in [Client -> Seq(Message)]
            /\ \A q \in Client : IF q \in members' THEN Gets(q, msgs)
                                 ELSE inbox'[q] = inbox[q]
<1>1. /\ IsFiniteSet(members')
      /\ Cardinality(members) = Cardinality(members') + 1
      /\ Cardinality(members) \in Nat /\ Cardinality(members') \in Nat
  <2>1. /\ IsFiniteSet(members')
        /\ Cardinality(members') = Cardinality(members) - 1
        /\ Cardinality(members) \in Nat /\ Cardinality(members') \in Nat
    BY FS_RemoveElement, FS_CardinalityType DEF Depart, RoomTypes
  <2> QED BY <2>1
<1>2. <<Info(Cardinality(members')), Leave(nick[p])>> \in Seq(Message)
  BY <1>1 DEF Info, Leave, Message, RoomTypes
<1>3. Send(members', <<Info(Cardinality(members')), Leave(nick[p])>>)
  BY DEF Depart
<1> QED BY <1>1, <1>2, <1>3, SendGets

\* The texts of a step of Say.
New(p, k) == [i \in 1..k |-> Text(nick[p], said[p] + i)]

LEMMA SayGets ==
  ASSUME RoomAssumption, RoomTypes, NEW p \in Client, Say(p)
  PROVE  \E k \in Nat \ {0} :
           /\ New(p, k) \in Seq(Message) /\ Len(New(p, k)) = k
           /\ said' = [said EXCEPT ![p] = @ + k]
           /\ inbox' \in [Client -> Seq(Message)]
           /\ \A q \in Client : IF q \in members \ {p} THEN Gets(q, New(p, k))
                                ELSE inbox'[q] = inbox[q]
<1>1. PICK k \in 1..(Texts[p] - said[p]) :
        /\ said' = [said EXCEPT ![p] = @ + k]
        /\ Send(members \ {p}, New(p, k))
  BY DEF Say, New
<1>2. k \in Nat \ {0}
  BY <1>1 DEF RoomAssumption, RoomTypes
<1>3. \A i \in 1..k : Text(nick[p], said[p] + i) \in Message
  BY <1>2 DEF Text, Message, RoomTypes
<1>4. New(p, k) \in Seq(Message) /\ Len(New(p, k)) = k
  BY <1>2, <1>3 DEF New
<1> QED BY <1>1, <1>2, <1>4, SendGets

-----------------------------------------------------------------------------
(* The inductive invariant.                                                *)

LEMMA JoinInv ==
  ASSUME RoomInv, NEW p \in Client, Join(p) PROVE RoomInv'
<1> USE DEF RoomInv
<1> DEFINE msgs == <<Info(Cardinality(members'))>>
<1>1. /\ msgs \in Seq(Message) /\ Len(msgs) = 1
      /\ IsFiniteSet(members')
      /\ inbox' \in [Client -> Seq(Message)]
      /\ \A q \in Client : IF q \in members' THEN Gets(q, msgs)
                           ELSE inbox'[q] = inbox[q]
  BY JoinGets
<1>2. /\ members' = members \union {p} /\ joined' = joined + 1 /\ said' = said
      /\ nick[p] = 0 /\ nick' = [nick EXCEPT ![p] = joined + 1]
  BY DEF Join
<1>3. RoomTypes'
  BY <1>1, <1>2 DEF RoomTypes
<1>4. NicksUnique' /\ Fresh'
  <2>1. \A q \in Client : nick'[q] = IF q = p THEN joined + 1 ELSE nick[q]
    BY <1>2 DEF RoomTypes
  <2>2. NicksUnique'
    BY <1>2, <2>1 DEF NicksUnique, RoomTypes
  <2>3. \A q \in Client : nick'[q] = 0 => q \notin members' /\ nick[q] = 0
    BY <1>2, <2>1 DEF NicksUnique, RoomTypes
  <2> QED BY <1>1, <1>2, <2>2, <2>3 DEF Fresh
<1>5. WhoCame'
  <2> SUFFICES ASSUME NEW q \in Client, NEW i \in DOMAIN inbox'[q],
                      NEW r \in Client
               PROVE  /\ inbox'[q][i].who <= joined'
                      /\ inbox'[q][i].who # 0
                           <=> inbox'[q][i].kind \in {"text", "leave"}
                      /\ inbox'[q][i].kind = "text" /\ inbox'[q][i].who = nick'[r] =>
                           inbox'[q][i].n \in 1..said'[r]
    BY DEF WhoCame
  <2>1. CASE i \in DOMAIN inbox[q] /\ inbox'[q][i] = inbox[q][i]
    <3>1. inbox[q][i].who <= joined /\ inbox[q][i].who \in Nat
      <4>1. inbox[q] \in Seq(Message)
        BY DEF RoomTypes
      <4>2. inbox[q][i] \in Message
        BY <2>1, <4>1, SeqFacts
      <4> QED BY <2>1, <4>2 DEF WhoCame, Message
    <3>2. nick'[r] = IF r = p THEN joined + 1 ELSE nick[r]
      BY <1>2 DEF RoomTypes
    <3>3. joined \in Nat
      BY DEF RoomTypes
    <3> QED BY <1>2, <2>1, <3>1, <3>2, <3>3 DEF WhoCame
  <2>2. CASE inbox'[q][i] \in {Info(Cardinality(members')), Lost}
    BY <1>2, <2>2 DEF Info, Lost, RoomTypes
  <2> HIDE DEF msgs
  <2>3. \/ i \in DOMAIN inbox[q] /\ inbox'[q][i] = inbox[q][i]
        \/ \E m \in 1..Len(msgs) : inbox'[q][i] \in {msgs[m], Lost}
    BY <1>1, OldOrNew
  <2>4. msgs[1] = Info(Cardinality(members'))
    BY DEF msgs
  <2> QED BY <1>1, <2>1, <2>2, <2>3, <2>4
<1> QED BY <1>3, <1>4, <1>5

LEMMA DepartInv ==
  ASSUME RoomInv, NEW p \in Client, Depart(p) PROVE RoomInv'
<1> USE DEF RoomInv
<1> DEFINE msgs == <<Info(Cardinality(members')), Leave(nick[p])>>
<1>1. /\ msgs \in Seq(Message) /\ Len(msgs) = 2
      /\ msgs[1] = Info(Cardinality(members')) /\ msgs[2] = Leave(nick[p])
      /\ IsFiniteSet(members')
      /\ inbox' \in [Client -> Seq(Message)]
      /\ \A q \in Client : IF q \in members' THEN Gets(q, msgs)
                           ELSE inbox'[q] = inbox[q]
  BY DepartGets
<1>2. /\ members' = members \ {p} /\ p \in members
      /\ UNCHANGED <<joined, nick, said>>
  BY DEF Depart
<1>3. RoomTypes' /\ NicksUnique'
  BY <1>1, <1>2 DEF RoomTypes, NicksUnique
<1>4. Fresh'
  BY <1>1, <1>2 DEF Fresh, NicksUnique
<1>5. WhoCame'
  <2> SUFFICES ASSUME NEW q \in Client, NEW i \in DOMAIN inbox'[q]
               PROVE  /\ inbox'[q][i].who <= joined
                      /\ inbox'[q][i].who # 0
                           <=> inbox'[q][i].kind \in {"text", "leave"}
                      /\ \A r \in Client :
                           inbox'[q][i].kind = "text" /\ inbox'[q][i].who = nick[r] =>
                             inbox'[q][i].n \in 1..said[r]
    BY <1>2 DEF WhoCame
  <2>1. CASE i \in DOMAIN inbox[q] /\ inbox'[q][i] = inbox[q][i]
    BY <2>1 DEF WhoCame
  <2>2. CASE inbox'[q][i] \in {Info(Cardinality(members')), Leave(nick[p]), Lost}
    BY <1>2, <2>2 DEF Info, Leave, Lost, RoomTypes, NicksUnique
  <2> HIDE DEF msgs
  <2>3. \/ i \in DOMAIN inbox[q] /\ inbox'[q][i] = inbox[q][i]
        \/ \E m \in 1..Len(msgs) : inbox'[q][i] \in {msgs[m], Lost}
    BY <1>1, OldOrNew
  <2> QED BY <1>1, <2>1, <2>2, <2>3
<1> QED BY <1>3, <1>4, <1>5

LEMMA SayInv ==
  ASSUME RoomAssumption, RoomInv, NEW p \in Client, Say(p) PROVE RoomInv'
<1> USE DEF RoomInv
<1>1. PICK k \in Nat \ {0} :
        /\ New(p, k) \in Seq(Message) /\ Len(New(p, k)) = k
        /\ said' = [said EXCEPT ![p] = @ + k]
        /\ inbox' \in [Client -> Seq(Message)]
        /\ \A q \in Client : IF q \in members \ {p} THEN Gets(q, New(p, k))
                             ELSE inbox'[q] = inbox[q]
  BY SayGets
<1>2. p \in members /\ UNCHANGED <<members, joined, nick>>
  BY DEF Say
<1>3. RoomTypes' /\ NicksUnique'
  BY <1>1, <1>2 DEF RoomTypes, NicksUnique
<1>4. Fresh'
  BY <1>1, <1>2 DEF Fresh, NicksUnique, RoomTypes
<1>5. WhoCame'
  <2> SUFFICES ASSUME NEW q \in Client, NEW i \in DOMAIN inbox'[q]
               PROVE  /\ inbox'[q][i].who <= joined
                      /\ inbox'[q][i].who # 0
                           <=> inbox'[q][i].kind \in {"text", "leave"}
                      /\ \A r \in Client :
                           inbox'[q][i].kind = "text" /\ inbox'[q][i].who = nick[r] =>
                             inbox'[q][i].n \in 1..said'[r]
    BY <1>2 DEF WhoCame
  <2>1. \A r \in Client : said'[r] = IF r = p THEN said[p] + k ELSE said[r]
    BY <1>1 DEF RoomTypes
  <2>2. CASE i \in DOMAIN inbox[q] /\ inbox'[q][i] = inbox[q][i]
    <3>1. \A r \in Client : 1..said[r] \subseteq 1..said'[r]
      <4>1. \A r \in Client : said[r] \in Nat /\ said[r] <= said'[r]
        BY <1>1, <2>1 DEF RoomTypes
      <4> QED BY <1>1, <4>1
    <3> QED BY <2>2, <3>1 DEF WhoCame
  <2>3. CASE inbox'[q][i] = Lost
    BY <2>3 DEF Lost, RoomTypes
  <2>4. CASE \E m \in 1..k : inbox'[q][i] = Text(nick[p], said[p] + m)
    <3>1. PICK m \in 1..k : inbox'[q][i] = Text(nick[p], said[p] + m)
      BY <2>4
    <3>2. /\ inbox'[q][i].who = nick[p] /\ inbox'[q][i].kind = "text"
          /\ inbox'[q][i].n = said[p] + m
      BY <3>1 DEF Text
    <3>3. nick[p] # 0 /\ nick[p] <= joined /\ \A r \in Client : nick[r] = nick[p] => r = p
      BY <1>2 DEF NicksUnique, RoomTypes
    <3>4. said[p] + m \in 1..said'[p]
      BY <2>1 DEF RoomTypes
    <3> QED BY <3>2, <3>3, <3>4
  <2>5. \/ i \in DOMAIN inbox[q] /\ inbox'[q][i] = inbox[q][i]
        \/ \E m \in 1..k : inbox'[q][i] \in {New(p, k)[m], Lost}
    BY <1>1, OldOrNew
  <2>6. \A m \in 1..k : New(p, k)[m] = Text(nick[p], said[p] + m)
    BY DEF New
  <2> QED BY <2>2, <2>3, <2>4, <2>5, <2>6
<1> QED BY <1>3, <1>4, <1>5

LEMMA RoomInvariant == RoomAssumption => (Spec => []RoomInv)
<1> SUFFICES ASSUME RoomAssumption PROVE Spec => []RoomInv
  OBVIOUS
<1>1. Init => RoomInv
  <2> SUFFICES ASSUME Init PROVE RoomInv
    OBVIOUS
  <2>1. IsFiniteSet({})
    BY FS_EmptySet
  <2> QED BY <2>1 DEF Init, RoomInv, RoomTypes, NicksUnique, Fresh, WhoCame
<1>2. RoomInv /\ [Next]_vars => RoomInv'
  <2>1. CASE UNCHANGED vars
    BY <2>1 DEF vars, RoomInv, RoomTypes, NicksUnique, Fresh, WhoCame
  <2> QED BY <2>1, JoinInv, DepartInv, SayInv DEF Next
<1> QED BY <1>1, <1>2, PTL DEF Spec

-----------------------------------------------------------------------------
(* Counts.                                                                 *)

LEMMA Boxes ==
  ASSUME RoomTypes, NEW q \in Client
  PROVE  /\ Len(inbox[q]) \in Nat /\ DOMAIN inbox[q] = 1..Len(inbox[q])
         /\ \A i \in DOMAIN inbox[q] : inbox[q][i] \in Message
<1>1. inbox[q] \in Seq(Message)
  BY DEF RoomTypes
<1> QED BY <1>1, SeqFacts

LEMMA NewBoxes ==
  ASSUME inbox' \in [Client -> Seq(Message)], NEW q \in Client
  PROVE  Len(inbox'[q]) \in Nat /\ DOMAIN inbox'[q] = 1..Len(inbox'[q])
<1>1. inbox'[q] \in Seq(Message)
  OBVIOUS
<1> QED BY <1>1, SeqFacts

\* The new messages of one that is not deaf begin with a count, and none of
\* the others is one.
LEMMA CountLast ==
  ASSUME RoomTypes, inbox' \in [Client -> Seq(Message)],
         NEW q \in Client \ Deaf, NEW msgs, Len(msgs) \in {1, 2}, Gets(q, msgs),
         NEW count, msgs[1] = Info(count), Len(msgs) = 2 => msgs[2].kind # "info"
  PROVE  /\ inbox'[q][Len(inbox[q]) + 1] = Info(count)
         /\ \A j \in DOMAIN inbox'[q] :
              j > Len(inbox[q]) + 1 => inbox'[q][j] = msgs[2] /\ Len(msgs) = 2
         /\ LastCountIs(q, count)'
<1> DEFINE L == Len(inbox[q])
<1>1. L \in Nat /\ DOMAIN inbox'[q] = 1..(L + Len(msgs))
  BY Boxes, NewBoxes DEF Gets
<1>2. inbox'[q][L + 1] = Info(count)
  BY DEF Gets
<1>3. \A j \in DOMAIN inbox'[q] :
        j > L + 1 => inbox'[q][j] = msgs[2] /\ Len(msgs) = 2
  <2> SUFFICES ASSUME NEW j \in DOMAIN inbox'[q], j > L + 1
               PROVE  inbox'[q][j] = msgs[2] /\ Len(msgs) = 2
    OBVIOUS
  <2>1. j \in 1..(L + Len(msgs)) /\ j > L + 1 /\ L \in Nat
    BY <1>1
  <2>2. j = L + 2 /\ Len(msgs) = 2
    <3> HIDE DEF L
    <3>1. CASE Len(msgs) = 1
      BY <2>1, <3>1
    <3>2. CASE Len(msgs) = 2
      BY <2>1, <3>2
    <3> QED BY <3>1, <3>2
  <2> QED BY <2>2 DEF Gets
<1>4. L + 1 \in DOMAIN inbox'[q]
  BY <1>1
<1>5. LastCountIs(q, count)'
  BY <1>2, <1>3, <1>4 DEF LastCountIs
<1> QED BY <1>2, <1>3, <1>5

(***************************************************************************)
(* Each member that misses no message was last told the number of members  *)
(* there are now.                                                          *)
(***************************************************************************)
THEOREM RoomCountIsCurrent == RoomAssumption => (Spec => []CountIsCurrent)
<1> SUFFICES ASSUME RoomAssumption PROVE Spec => []CountIsCurrent
  OBVIOUS
<1>1. Init => CountIsCurrent
  BY DEF Init, CountIsCurrent
<1>2. RoomInv /\ CountIsCurrent /\ [Next]_vars => CountIsCurrent'
  <2> SUFFICES ASSUME RoomInv, CountIsCurrent, [Next]_vars
               PROVE  CountIsCurrent'
    OBVIOUS
  <2> USE DEF RoomInv
  <2>1. ASSUME NEW p \in Client, Join(p) PROVE CountIsCurrent'
    <3> DEFINE msgs == <<Info(Cardinality(members'))>>
    <3>1. /\ inbox' \in [Client -> Seq(Message)]
          /\ \A q \in Client : q \in members' => Gets(q, msgs)
          /\ Len(msgs) = 1 /\ msgs[1] = Info(Cardinality(members'))
      BY <2>1, JoinGets
    <3>2. members' \subseteq Client
      BY <2>1 DEF Join, RoomTypes
    <3> HIDE DEF msgs
    <3> QED BY <3>1, <3>2, CountLast DEF CountIsCurrent
  <2>2. ASSUME NEW p \in Client, Depart(p) PROVE CountIsCurrent'
    <3> DEFINE msgs == <<Info(Cardinality(members')), Leave(nick[p])>>
    <3>1. /\ inbox' \in [Client -> Seq(Message)]
          /\ \A q \in Client : q \in members' => Gets(q, msgs)
          /\ Len(msgs) = 2 /\ msgs[1] = Info(Cardinality(members'))
          /\ msgs[2].kind # "info"
      BY <2>2, DepartGets DEF Leave
    <3>2. members' \subseteq Client
      BY <2>2 DEF Depart, RoomTypes
    <3> HIDE DEF msgs
    <3> QED BY <3>1, <3>2, CountLast DEF CountIsCurrent
  <2>3. ASSUME NEW p \in Client, Say(p) PROVE CountIsCurrent'
    <3>1. PICK k \in Nat \ {0} :
            /\ New(p, k) \in Seq(Message) /\ Len(New(p, k)) = k
            /\ inbox' \in [Client -> Seq(Message)]
            /\ \A q \in Client : IF q \in members \ {p} THEN Gets(q, New(p, k))
                                 ELSE inbox'[q] = inbox[q]
      BY <2>3, SayGets
    <3>2. members' = members /\ members \subseteq Client
      BY <2>3 DEF Say, RoomTypes
    <3> SUFFICES ASSUME NEW q \in members \ Deaf
                 PROVE  LastCountIs(q, Cardinality(members))'
      BY <3>2 DEF CountIsCurrent
    <3>3. LastCountIs(q, Cardinality(members))
      BY DEF CountIsCurrent
    <3>4. CASE q = p
      BY <3>1, <3>2, <3>3, <3>4 DEF LastCountIs
    <3>5. CASE q # p
      <4>1. Gets(q, New(p, k)) /\ q \in Client
        BY <3>1, <3>2, <3>5
      <4>2. \A m \in 1..k : New(p, k)[m].kind = "text"
        BY DEF New, Text
      <4>3. PICK i \in DOMAIN inbox[q] :
              /\ inbox[q][i] = Info(Cardinality(members))
              /\ \A j \in DOMAIN inbox[q] : j > i => inbox[q][j].kind # "info"
        BY <3>3 DEF LastCountIs
      <4>4. i \in DOMAIN inbox'[q] /\ inbox'[q][i] = inbox[q][i]
        <5>1. /\ Len(inbox[q]) \in Nat /\ DOMAIN inbox[q] = 1..Len(inbox[q])
              /\ DOMAIN inbox'[q] = 1..(Len(inbox[q]) + k)
          BY <3>1, <4>1, Boxes, NewBoxes DEF Gets
        <5>2. i \in 1..Len(inbox[q])
          BY <4>3, <5>1
        <5> QED BY <3>1, <4>1, <5>1, <5>2 DEF Gets
      <4>5. ASSUME NEW j \in DOMAIN inbox'[q], j > i
            PROVE  inbox'[q][j].kind # "info"
        <5>1. \/ j \in DOMAIN inbox[q] /\ inbox'[q][j] = inbox[q][j]
              \/ \E m \in 1..k : inbox'[q][j] = New(p, k)[m]
          BY <3>1, <4>1, OldOrNew
        <5> QED BY <4>2, <4>3, <4>5, <5>1
      <4> QED BY <3>2, <4>3, <4>4, <4>5 DEF LastCountIs
    <3> QED BY <3>4, <3>5
  <2>4. CASE UNCHANGED vars
    BY <2>4 DEF vars, CountIsCurrent, LastCountIs
  <2> QED BY <2>1, <2>2, <2>3, <2>4 DEF Next
<1> QED BY <1>1, <1>2, RoomInvariant, PTL DEF Spec

-----------------------------------------------------------------------------
(* Counts and leave messages.                                              *)

\* What is sent behind a count that is no leave message leaves it as it was.
LEMMA OldCounts ==
  ASSUME RoomTypes, inbox' \in [Client -> Seq(Message)],
         NEW q \in Client \ Deaf, NEW msgs \in Seq(Message), Gets(q, msgs),
         Len(msgs) > 0, msgs[1].kind # "leave",
         NEW i \in Infos(q), NEW j \in Infos(q), CountsFollow(q, i, j)
  PROVE  CountsFollow(q, i, j)'
<1> DEFINE L == Len(inbox[q])
<1>1. /\ L \in Nat /\ DOMAIN inbox[q] = 1..L /\ Len(msgs) \in Nat
      /\ Len(inbox'[q]) = L + Len(msgs)
  BY Boxes, SeqFacts DEF Gets
<1>2. i \in 1..L /\ j \in 1..L
  BY <1>1 DEF Infos
<1>3. inbox'[q][i] = inbox[q][i] /\ inbox'[q][j] = inbox[q][j]
  BY <1>2 DEF Gets
<1>4. inbox'[q][L + 1] = msgs[1]
  BY <1>1 DEF Gets
<1>5. j < L => inbox'[q][j + 1] = inbox[q][j + 1]
  <2> SUFFICES ASSUME j < L PROVE j + 1 \in 1..L
    BY DEF Gets
  <2> QED BY <1>1, <1>2
<1> HIDE DEF L
<1>6. CASE j < L
  <2>1. j < Len(inbox'[q])
    BY <1>1, <1>2, <1>6
  <2> QED BY <1>1, <1>3, <1>5, <1>6, <2>1 DEF CountsFollow, L
<1>7. CASE j = L
  <2>1. j < Len(inbox'[q]) /\ ~(j < L)
    BY <1>1, <1>7
  <2>2. inbox'[q][j + 1].kind # "leave"
    BY <1>4, <1>7
  <2> QED BY <1>3, <2>1, <2>2 DEF CountsFollow, L
<1> QED BY <1>1, <1>2, <1>6, <1>7

\* A count that is sent follows the last one, be it for one that came or,
\* with the leave message behind it, for one that left.
LEMMA NewCount ==
  ASSUME RoomTypes, inbox' \in [Client -> Seq(Message)],
         NEW q \in Client \ Deaf, CountsMatch(q),
         NEW msgs \in Seq(Message), Len(msgs) \in {1, 2}, Gets(q, msgs),
         NEW count \in Nat, NEW old \in Nat, msgs[1] = Info(count),
         inbox[q] = <<>> \/ LastCountIs(q, old),
         Len(msgs) = 1 => count = old + 1,
         Len(msgs) = 2 => msgs[2].kind = "leave" /\ old = count + 1
  PROVE  CountsMatch(q)'
<1> DEFINE L == Len(inbox[q])
<1>1. /\ L \in Nat /\ DOMAIN inbox[q] = 1..L
      /\ Len(inbox'[q]) = L + Len(msgs) /\ DOMAIN inbox'[q] = 1..(L + Len(msgs))
  BY Boxes, NewBoxes DEF Gets
<1>2. /\ inbox'[q][L + 1] = Info(count)
      /\ \A j \in DOMAIN inbox'[q] :
           j > L + 1 => inbox'[q][j] = msgs[2] /\ Len(msgs) = 2
  BY CountLast
<1>3. Info(count).kind = "info" /\ Info(count).n = count
  BY DEF Info
<1>4. \A i \in 1..L : inbox'[q][i] = inbox[q][i]
  BY DEF Gets
<1> HIDE DEF L
<1>5. Infos(q)' = Infos(q) \union {L + 1}
  <2>1. \A i \in 1..L : i \in Infos(q)' <=> i \in Infos(q)
    BY <1>1, <1>4 DEF Infos
  <2>2. L + 1 \in Infos(q)'
    BY <1>1, <1>2, <1>3 DEF Infos
  <2>3. \A i \in DOMAIN inbox'[q] : i > L + 1 => i \notin Infos(q)'
    BY <1>2 DEF Infos
  <2>4. Infos(q) \subseteq 1..L /\ Infos(q)' \subseteq 1..(L + Len(msgs))
    BY <1>1 DEF Infos
  <2> QED BY <1>1, <2>1, <2>2, <2>3, <2>4
<1>6. Infos(q) \subseteq 1..L
  BY <1>1 DEF Infos
<1>7. ASSUME NEW i \in Infos(q)', NEW j \in Infos(q)', i < j,
             \A k \in Infos(q)' : k <= i \/ k >= j
      PROVE  CountsFollow(q, i, j)'
  <2>1. i \in Infos(q)
    BY <1>1, <1>5, <1>6, <1>7
  <2>2. CASE j \in Infos(q)
    <3>1. CountsFollow(q, i, j)
      BY <1>5, <1>7, <2>1, <2>2 DEF CountsMatch
    <3>2. Len(msgs) > 0 /\ msgs[1].kind # "leave"
      BY <1>3
    <3> HIDE DEF Infos
    <3> QED BY <2>1, <2>2, <3>1, <3>2, OldCounts
  <2>3. CASE j = L + 1
    <3>1. inbox[q] # <<>>
      BY <2>1 DEF Infos
    <3>2. PICK last \in DOMAIN inbox[q] :
            /\ inbox[q][last] = Info(old)
            /\ \A k \in DOMAIN inbox[q] : k > last => inbox[q][k].kind # "info"
      BY <3>1 DEF LastCountIs
    <3>3. last \in Infos(q)
      BY <3>2 DEF Infos, Info
    <3>4. last = i
      <4>1. last <= i
        BY <1>1, <1>5, <1>6, <1>7, <2>3, <3>3
      <4>2. ~(i > last)
        BY <2>1, <3>2 DEF Infos
      <4> QED BY <1>6, <2>1, <3>3, <4>1, <4>2
    <3>5. inbox'[q][i].n = old /\ inbox'[q][j].n = count
      BY <1>2, <1>3, <1>4, <1>6, <2>1, <2>3, <3>2, <3>4 DEF Info
    <3>6. CASE Len(msgs) = 1
      <4>1. ~(j < Len(inbox'[q]))
        BY <1>1, <2>3, <3>6
      <4> QED BY <3>5, <3>6, <4>1 DEF CountsFollow
    <3>7. CASE Len(msgs) = 2
      <4>1. j < Len(inbox'[q]) /\ j + 1 \in DOMAIN inbox'[q] /\ j + 1 > L + 1
        BY <1>1, <2>3, <3>7
      <4>2. inbox'[q][j + 1].kind = "leave"
        BY <1>2, <3>7, <4>1
      <4> QED BY <3>5, <3>7, <4>1, <4>2 DEF CountsFollow
    <3> QED BY <3>6, <3>7
  <2> QED BY <1>5, <2>2, <2>3
<1>8. ASSUME NEW i \in DOMAIN inbox'[q], inbox'[q][i].kind = "leave"
      PROVE  i - 1 \in Infos(q)'
  <2>1. CASE i \in 1..L
    BY <1>1, <1>4, <1>5, <1>8, <2>1 DEF CountsMatch
  <2>2. CASE i = L + 1
    BY <1>2, <1>3, <1>8, <2>2
  <2>3. CASE i > L + 1
    <3>1. i = L + 2
      <4>1. CASE Len(msgs) = 1
        BY <1>1, <2>3, <4>1
      <4>2. CASE Len(msgs) = 2
        BY <1>1, <2>3, <4>2
      <4> QED BY <4>1, <4>2
    <3>2. i - 1 = L + 1
      BY <1>1, <3>1
    <3> QED BY <1>5, <3>2
  <2> QED BY <1>1, <2>1, <2>2, <2>3
<1> QED BY <1>7, <1>8 DEF CountsMatch

\* Texts leave the counts alone.
LEMMA TextsKeepCounts ==
  ASSUME RoomTypes, inbox' \in [Client -> Seq(Message)],
         NEW q \in Client \ Deaf, CountsMatch(q),
         NEW msgs \in Seq(Message), Len(msgs) > 0, Gets(q, msgs),
         \A m \in 1..Len(msgs) : msgs[m].kind = "text"
  PROVE  CountsMatch(q)'
<1> DEFINE L == Len(inbox[q])
<1>1. L \in Nat /\ DOMAIN inbox[q] = 1..L /\ Len(msgs) \in Nat
  BY Boxes, SeqFacts
<1>2. DOMAIN inbox'[q] = 1..(L + Len(msgs))
  BY NewBoxes DEF Gets
<1>3. \A i \in 1..L : inbox'[q][i] = inbox[q][i]
  BY DEF Gets
<1>4. \A i \in DOMAIN inbox'[q] : i \in 1..L \/ inbox'[q][i].kind = "text"
  BY <1>1, OldOrNew
<1> HIDE DEF L
<1>5. Infos(q)' = Infos(q)
  BY <1>1, <1>2, <1>3, <1>4 DEF Infos
<1>6. msgs[1].kind # "leave"
  BY <1>1
<1>7. ASSUME NEW i \in Infos(q)', NEW j \in Infos(q)', i < j,
             \A k \in Infos(q)' : k <= i \/ k >= j
      PROVE  CountsFollow(q, i, j)'
  <2>1. CountsFollow(q, i, j) /\ i \in Infos(q) /\ j \in Infos(q)
    BY <1>5, <1>7 DEF CountsMatch
  <2> QED BY <1>6, <2>1, OldCounts
<1>8. ASSUME NEW i \in DOMAIN inbox'[q], inbox'[q][i].kind = "leave"
      PROVE  i - 1 \in Infos(q)'
  BY <1>1, <1>3, <1>4, <1>5, <1>8 DEF CountsMatch
<1> QED BY <1>7, <1>8 DEF CountsMatch

(***************************************************************************)
(* The counts and the leave messages that one gets agree: one more for one *)
(* that came, one less together with the leave message of one that left.   *)
(***************************************************************************)
THEOREM RoomLeavesMatchCounts == RoomAssumption => (Spec => []LeavesMatchCounts)
<1> SUFFICES ASSUME RoomAssumption PROVE Spec => []LeavesMatchCounts
  OBVIOUS
<1>1. Init => LeavesMatchCounts
  BY DEF Init, LeavesMatchCounts, CountsMatch, Infos
<1>2. RoomInv /\ CountIsCurrent /\ LeavesMatchCounts /\ [Next]_vars
        => LeavesMatchCounts'
  <2> SUFFICES ASSUME RoomInv, CountIsCurrent, LeavesMatchCounts, [Next]_vars,
                      NEW q \in Client \ Deaf
               PROVE  CountsMatch(q)'
    BY DEF LeavesMatchCounts
  <2> USE DEF RoomInv
  <2>1. CountsMatch(q)
    BY DEF LeavesMatchCounts
  <2>2. ASSUME inbox'[q] = inbox[q] PROVE CountsMatch(q)'
    BY <2>1, <2>2 DEF CountsMatch, Infos, CountsFollow
  <2>3. q \in members => LastCountIs(q, Cardinality(members))
    BY DEF CountIsCurrent
  <2>4. ASSUME NEW p \in Client, Join(p), q \in members' PROVE CountsMatch(q)'
    <3> DEFINE msgs == <<Info(Cardinality(members'))>>
    <3>1. /\ inbox' \in [Client -> Seq(Message)] /\ msgs \in Seq(Message)
          /\ Gets(q, msgs)
          /\ Len(msgs) = 1 /\ msgs[1] = Info(Cardinality(members'))
          /\ p \notin members => Cardinality(members') = Cardinality(members) + 1
          /\ Cardinality(members) \in Nat /\ Cardinality(members') \in Nat
      BY <2>4, JoinGets
    <3>2. p \notin members /\ (q = p \/ q \in members) /\ inbox[p] = <<>>
      BY <2>4 DEF Join, NicksUnique, Fresh
    <3>3. CountsMatch(q)
      BY <2>1
    <3>4. Cardinality(members') = Cardinality(members) + 1
      BY <3>1, <3>2
    <3>5. inbox[q] = <<>> \/ LastCountIs(q, Cardinality(members))
      BY <2>3, <3>2
    <3> HIDE DEF msgs
    <3>6. Len(msgs) = 1
      BY <3>1
    <3>7. Len(msgs) \in {1, 2} /\ ~(Len(msgs) = 2)
      BY <3>6
    <3>8. RoomTypes
      OBVIOUS
    <3> QED BY <3>1, <3>3, <3>4, <3>5, <3>6, <3>7, <3>8, NewCount
  <2>5. ASSUME NEW p \in Client, Depart(p), q \in members' PROVE CountsMatch(q)'
    <3> DEFINE msgs == <<Info(Cardinality(members')), Leave(nick[p])>>
    <3>1. /\ inbox' \in [Client -> Seq(Message)] /\ msgs \in Seq(Message)
          /\ Gets(q, msgs)
          /\ Len(msgs) = 2 /\ msgs[1] = Info(Cardinality(members'))
          /\ msgs[2].kind = "leave"
          /\ Cardinality(members) = Cardinality(members') + 1
          /\ Cardinality(members) \in Nat /\ Cardinality(members') \in Nat
      BY <2>5, DepartGets DEF Leave
    <3>2. q \in members
      BY <2>5 DEF Depart
    <3> HIDE DEF msgs
    <3> QED BY <2>1, <2>3, <3>1, <3>2, NewCount
  <2>6. ASSUME NEW p \in Client, Say(p) PROVE CountsMatch(q)'
    <3>1. PICK k \in Nat \ {0} :
            /\ New(p, k) \in Seq(Message) /\ Len(New(p, k)) = k
            /\ inbox' \in [Client -> Seq(Message)]
            /\ IF q \in members \ {p} THEN Gets(q, New(p, k))
               ELSE inbox'[q] = inbox[q]
      BY <2>6, SayGets
    <3>2. \A m \in 1..k : New(p, k)[m].kind = "text"
      BY DEF New, Text
    <3>3. k > 0
      BY <3>1
    <3> QED BY <2>1, <2>2, <3>1, <3>2, <3>3, TextsKeepCounts
  <2>7. ASSUME NEW p \in Client, Join(p) \/ Depart(p), q \notin members'
        PROVE  CountsMatch(q)'
    BY <2>2, <2>7, JoinGets, DepartGets
  <2>8. CASE UNCHANGED vars
    BY <2>2, <2>8 DEF vars
  <2> QED BY <2>4, <2>5, <2>6, <2>7, <2>8 DEF Next
<1> QED BY <1>1, <1>2, RoomInvariant, RoomCountIsCurrent, PTL DEF Spec

-----------------------------------------------------------------------------
(* Leave messages.                                                         *)

\* What is sent is of nobody or of w, whose leave message, if it is sent, is
\* the last.
LeavesFit(q, msgs, w) ==
  /\ w # 0
  /\ \A i \in DOMAIN inbox[q] : inbox[q][i].kind = "leave" => inbox[q][i].who # w
  /\ \A m \in 1..Len(msgs) :
       /\ msgs[m].who \in {0, w}
       /\ msgs[m].kind = "leave" => m = Len(msgs) /\ msgs[m].who = w

LEMMA NewLeaves ==
  ASSUME RoomTypes, inbox' \in [Client -> Seq(Message)], LeaveIsFinal, WhoCame,
         NEW q \in Client, NEW msgs \in Seq(Message), Gets(q, msgs),
         NEW w, LeavesFit(q, msgs, w),
         NEW i \in DOMAIN inbox'[q], inbox'[q][i].kind = "leave"
  PROVE  /\ \A j \in DOMAIN inbox'[q] : j > i => inbox'[q][j].who # inbox'[q][i].who
         /\ \/ i \in DOMAIN inbox[q] /\ inbox'[q][i] = inbox[q][i]
            \/ inbox'[q][i].who = w /\ \E m \in 1..Len(msgs) : msgs[m].kind = "leave"
<1> USE DEF LeavesFit
<1> DEFINE L == Len(inbox[q])
<1>1. /\ L \in Nat /\ DOMAIN inbox[q] = 1..L /\ Len(msgs) \in Nat
      /\ DOMAIN inbox'[q] = 1..(L + Len(msgs))
  BY Boxes, NewBoxes, SeqFacts DEF Gets
<1>2. \A j \in DOMAIN inbox'[q] :
        \/ j \in DOMAIN inbox[q] /\ inbox'[q][j] = inbox[q][j]
        \/ \E m \in 1..Len(msgs) :
             j = L + m /\ inbox'[q][j] \in {msgs[m], Lost}
  BY OldOrNew
<1>3. Lost.kind # "leave" /\ Lost.who = 0
  BY DEF Lost
<1> HIDE DEF L
<1>4. CASE i \in DOMAIN inbox[q] /\ inbox'[q][i] = inbox[q][i]
  <2>1. /\ inbox[q][i].who # 0 /\ inbox[q][i].who # w
        /\ \A j \in DOMAIN inbox[q] : j > i => inbox[q][j].who # inbox[q][i].who
    BY <1>4 DEF WhoCame, LeaveIsFinal
  <2> QED BY <1>2, <1>3, <1>4, <2>1
<1>5. CASE \E m \in 1..Len(msgs) : i = L + m /\ inbox'[q][i] \in {msgs[m], Lost}
  <2>1. PICK m \in 1..Len(msgs) : i = L + m /\ inbox'[q][i] \in {msgs[m], Lost}
    BY <1>5
  <2>2. msgs[m].kind = "leave" /\ inbox'[q][i].who = w /\ m = Len(msgs)
    BY <1>3, <2>1
  <2>3. \A j \in DOMAIN inbox'[q] : ~(j > i)
    BY <1>1, <2>1, <2>2
  <2> QED BY <2>2, <2>3
<1> QED BY <1>2, <1>4, <1>5

(***************************************************************************)
(* Nothing of one that left is heard behind its leave message, and one     *)
(* whose leave message was sent is no member.                              *)
(***************************************************************************)
THEOREM RoomLeaveIsFinal == RoomAssumption => (Spec => []LeaveIsFinal)
<1> SUFFICES ASSUME RoomAssumption PROVE Spec => []LeaveIsFinal
  OBVIOUS
<1>1. Init => LeaveIsFinal
  BY DEF Init, LeaveIsFinal
<1>2. RoomInv /\ LeaveIsFinal /\ [Next]_vars => LeaveIsFinal'
  <2> SUFFICES ASSUME RoomInv, LeaveIsFinal, [Next]_vars,
                      NEW q \in Client, NEW i \in DOMAIN inbox'[q],
                      inbox'[q][i].kind = "leave"
               PROVE  /\ \A j \in DOMAIN inbox'[q] :
                           j > i => inbox'[q][j].who # inbox'[q][i].who
                      /\ \A p \in members' : nick'[p] # inbox'[q][i].who
    BY DEF LeaveIsFinal
  <2> USE DEF RoomInv
  <2> DEFINE Final == \A j \in DOMAIN inbox'[q] :
                        j > i => inbox'[q][j].who # inbox'[q][i].who
             Old == i \in DOMAIN inbox[q] /\ inbox'[q][i] = inbox[q][i]
  <2>1. Old => /\ \A p \in members : nick[p] # inbox'[q][i].who
               /\ inbox'[q][i].who <= joined
    BY DEF LeaveIsFinal, WhoCame
  <2>2. inbox'[q] = inbox[q] => Final /\ Old
    BY DEF LeaveIsFinal
  <2>3. ASSUME NEW p \in Client, Join(p)
        PROVE  Final /\ \A r \in members' : nick'[r] # inbox'[q][i].who
    <3> DEFINE msgs == <<Info(Cardinality(members'))>>
    <3>1. /\ inbox' \in [Client -> Seq(Message)] /\ msgs \in Seq(Message)
          /\ IF q \in members' THEN Gets(q, msgs) ELSE inbox'[q] = inbox[q]
          /\ Len(msgs) = 1 /\ msgs[1].who = 0 /\ msgs[1].kind # "leave"
      BY <2>3, JoinGets DEF Info
    <3>2. \A j \in DOMAIN inbox[q] :
            inbox[q][j].kind = "leave" => inbox[q][j].who # joined + 1
      <4>1. \A j \in DOMAIN inbox[q] : inbox[q][j].who \in Nat
        BY Boxes DEF Message
      <4> QED BY <4>1 DEF WhoCame, RoomTypes
    <3> HIDE DEF msgs
    <3>3. Final /\ Old
      <4>1. joined + 1 # 0
        BY DEF RoomTypes
      <4>2. \A m \in 1..Len(msgs) : msgs[m].who = 0 /\ msgs[m].kind # "leave"
        BY <3>1
      <4>3. CASE q \in members'
        <5>1. Gets(q, msgs)
          BY <3>1, <4>3
        <5>2. RoomTypes /\ WhoCame
          OBVIOUS
        <5>3. /\ Final
              /\ Old \/ (/\ inbox'[q][i].who = joined + 1
                         /\ \E m \in 1..Len(msgs) : msgs[m].kind = "leave")
          <6> HIDE DEF RoomInv
          <6>1. LeavesFit(q, msgs, joined + 1)
            BY <3>1, <3>2, <4>1, <4>2 DEF LeavesFit
          <6> QED BY <3>1, <5>1, <5>2, <6>1, NewLeaves
        <5> QED BY <4>2, <5>3
      <4> QED BY <2>2, <3>1, <4>3
    <3>4. /\ inbox[q][i].who \in Nat
          /\ members' = members \union {p}
          /\ \A r \in Client : nick'[r] = IF r = p THEN joined + 1 ELSE nick[r]
      <4>1. inbox[q][i] \in Message
        BY <3>3, Boxes
      <4> QED BY <2>3, <4>1 DEF Join, RoomTypes, Message
    <3>5. members \subseteq Client /\ joined \in Nat
      BY DEF RoomTypes
    <3> QED BY <2>1, <3>3, <3>4, <3>5
  <2>4. ASSUME NEW p \in Client, Depart(p)
        PROVE  Final /\ \A r \in members' : nick'[r] # inbox'[q][i].who
    <3> DEFINE msgs == <<Info(Cardinality(members')), Leave(nick[p])>>
    <3>1. /\ inbox' \in [Client -> Seq(Message)] /\ msgs \in Seq(Message)
          /\ IF q \in members' THEN Gets(q, msgs) ELSE inbox'[q] = inbox[q]
          /\ Len(msgs) = 2 /\ msgs[1].who = 0 /\ msgs[1].kind # "leave"
          /\ msgs[2].who = nick[p]
      BY <2>4, DepartGets DEF Info, Leave
    <3>2. /\ p \in members /\ nick[p] # 0 /\ nick' = nick
          /\ members' = members \ {p}
          /\ \A r \in members' : nick[r] # nick[p]
      BY <2>4 DEF Depart, NicksUnique, RoomTypes
    <3>3. \A j \in DOMAIN inbox[q] :
            inbox[q][j].kind = "leave" => inbox[q][j].who # nick[p]
      BY <3>2 DEF LeaveIsFinal
    <3> HIDE DEF msgs
    <3>4. Final /\ (Old \/ inbox'[q][i].who = nick[p])
      <4>1. \A m \in 1..Len(msgs) :
              /\ msgs[m].who \in {0, nick[p]}
              /\ msgs[m].kind = "leave" => m = Len(msgs) /\ msgs[m].who = nick[p]
        BY <3>1
      <4>2. CASE q \in members'
        <5>1. Gets(q, msgs)
          BY <3>1, <4>2
        <5>2. RoomTypes /\ WhoCame
          OBVIOUS
        <5>3. /\ Final
              /\ Old \/ (/\ inbox'[q][i].who = nick[p]
                         /\ \E m \in 1..Len(msgs) : msgs[m].kind = "leave")
          <6> HIDE DEF RoomInv
          <6>1. LeavesFit(q, msgs, nick[p])
            BY <3>1, <3>2, <3>3, <4>1 DEF LeavesFit
          <6> QED BY <3>1, <5>1, <5>2, <6>1, NewLeaves
        <5> QED BY <4>1, <5>3
      <4> QED BY <2>2, <3>1, <4>2
    <3> QED BY <2>1, <3>2, <3>4
  <2>5. ASSUME NEW p \in Client, Say(p)
        PROVE  Final /\ \A r \in members' : nick'[r] # inbox'[q][i].who
    <3>1. PICK k \in Nat \ {0} :
            /\ New(p, k) \in Seq(Message) /\ Len(New(p, k)) = k
            /\ inbox' \in [Client -> Seq(Message)]
            /\ IF q \in members \ {p} THEN Gets(q, New(p, k))
               ELSE inbox'[q] = inbox[q]
      BY <2>5, SayGets
    <3>2. /\ p \in members /\ nick[p] # 0 /\ nick' = nick /\ members' = members
      BY <2>5 DEF Say, NicksUnique
    <3>3. \A j \in DOMAIN inbox[q] :
            inbox[q][j].kind = "leave" => inbox[q][j].who # nick[p]
      BY <3>2 DEF LeaveIsFinal
    <3>4. Final /\ Old
      <4>1. \A m \in 1..Len(New(p, k)) :
              New(p, k)[m].who = nick[p] /\ New(p, k)[m].kind # "leave"
        BY <3>1 DEF New, Text
      <4>2. CASE q \in members \ {p}
        <5>1. Gets(q, New(p, k))
          BY <3>1, <4>2
        <5>2. RoomTypes /\ WhoCame
          OBVIOUS
        <5>3. /\ Final
              /\ Old \/ (/\ inbox'[q][i].who = nick[p]
                         /\ \E m \in 1..Len(New(p, k)) : New(p, k)[m].kind = "leave")
          <6> HIDE DEF RoomInv
          <6>1. LeavesFit(q, New(p, k), nick[p])
            BY <3>1, <3>2, <3>3, <4>1 DEF LeavesFit
          <6> QED BY <3>1, <5>1, <5>2, <6>1, NewLeaves
        <5> QED BY <4>1, <5>3
      <4> QED BY <2>2, <3>1, <4>2
    <3> QED BY <2>1, <3>2, <3>4
  <2>6. CASE UNCHANGED vars
    BY <2>6 DEF vars, LeaveIsFinal
  <2> QED BY <2>3, <2>4, <2>5, <2>6 DEF Next
<1> QED BY <1>1, <1>2, RoomInvariant, PTL DEF Spec

-----------------------------------------------------------------------------
(* Texts.                                                                  *)

\* What comes to q has no text of p in it.
NoTextOf(p, q) ==
  \/ inbox'[q] = inbox[q]
  \/ \E msgs \in Seq(Message) :
       /\ Gets(q, msgs)
       /\ \A m \in 1..Len(msgs) : msgs[m].kind = "text" => msgs[m].who # nick[p]

LEMMA KeepsTexts ==
  ASSUME RoomTypes, inbox' \in [Client -> Seq(Message)],
         NEW p \in Client, NEW q \in Client, nick'[p] = nick[p], NoTextOf(p, q)
  PROVE  /\ TextsAt(p, q)' = TextsAt(p, q)
         /\ Heard(p, q)' = Heard(p, q)
         /\ \A i \in TextsAt(p, q) : inbox'[q][i] = inbox[q][i]
<1>1. CASE inbox'[q] = inbox[q]
  BY <1>1 DEF TextsAt, Heard
<1>2. CASE inbox'[q] # inbox[q]
  <2>1. PICK msgs \in Seq(Message) :
          /\ Gets(q, msgs)
          /\ \A m \in 1..Len(msgs) : msgs[m].kind = "text" => msgs[m].who # nick[p]
    BY <1>2 DEF NoTextOf
  <2>2. \A i \in DOMAIN inbox'[q] :
          \/ i \in DOMAIN inbox[q] /\ inbox'[q][i] = inbox[q][i]
          \/ \E m \in 1..Len(msgs) : inbox'[q][i] \in {msgs[m], Lost}
    BY <2>1, OldOrNew
  <2>3. \A i \in DOMAIN inbox[q] :
          i \in DOMAIN inbox'[q] /\ inbox'[q][i] = inbox[q][i]
    <3>1. /\ Len(inbox[q]) \in Nat /\ DOMAIN inbox[q] = 1..Len(inbox[q])
          /\ Len(msgs) \in Nat /\ DOMAIN inbox'[q] = 1..(Len(inbox[q]) + Len(msgs))
      BY <2>1, Boxes, NewBoxes, SeqFacts DEF Gets
    <3> QED BY <2>1, <3>1 DEF Gets
  <2>4. TextsAt(p, q)' = TextsAt(p, q)
    <3>1. Lost.kind # "text"
      BY DEF Lost
    <3>2. ASSUME NEW i \in TextsAt(p, q)' PROVE i \in TextsAt(p, q)
      <4>1. /\ i \in DOMAIN inbox'[q] /\ inbox'[q][i].kind = "text"
            /\ inbox'[q][i].who = nick[p]
        BY <3>2 DEF TextsAt
      <4> QED BY <2>1, <2>2, <3>1, <4>1 DEF TextsAt
    <3>3. ASSUME NEW i \in TextsAt(p, q) PROVE i \in TextsAt(p, q)'
      BY <2>3, <3>3 DEF TextsAt
    <3> QED BY <3>2, <3>3
  <2>5. \A i \in TextsAt(p, q) : inbox'[q][i] = inbox[q][i]
    BY <2>3 DEF TextsAt
  <2> QED BY <2>4, <2>5 DEF Heard
<1> QED BY <1>1, <1>2

\* Nothing changes between p and q when no text of p comes.
LEMMA KeepsOrder ==
  ASSUME RoomTypes, inbox' \in [Client -> Seq(Message)],
         NEW p \in Client, NEW q \in Client, NoTextOf(p, q), HeardInOrder(p, q),
         nick'[p] = nick[p], nick'[q] = nick[q],
         {p, q} \subseteq members' =>
           {p, q} \subseteq members /\ said'[p] = said[p]
  PROVE  HeardInOrder(p, q)'
<1>1. /\ TextsAt(p, q)' = TextsAt(p, q)
      /\ Heard(p, q)' = Heard(p, q)
      /\ \A i \in TextsAt(p, q) : inbox'[q][i] = inbox[q][i]
  BY KeepsTexts
<1> QED BY <1>1 DEF HeardInOrder

\* The next k texts of p come behind those that q has heard.
LEMMA HearsMore ==
  ASSUME RoomInv, inbox' \in [Client -> Seq(Message)],
         NEW p \in members, NEW q \in members \ Deaf, p # q,
         NEW k \in Nat \ {0}, New(p, k) \in Seq(Message), Len(New(p, k)) = k,
         Gets(q, New(p, k)), HeardInOrder(p, q),
         nick' = nick, members' = members, said' = [said EXCEPT ![p] = @ + k]
  PROVE  HeardInOrder(p, q)'
<1> DEFINE L == Len(inbox[q])
           s == said[p]
<1>1. /\ p \in Client /\ q \in Client /\ RoomTypes /\ WhoCame
      /\ nick[p] \in Nat /\ nick[q] \in Nat
  BY DEF RoomInv, RoomTypes
<1>2. s \in Nat /\ said'[p] = s + k
  BY <1>1 DEF RoomTypes
<1>3. L \in Nat /\ DOMAIN inbox[q] = 1..L /\ DOMAIN inbox'[q] = 1..(L + k)
  BY <1>1, Boxes, NewBoxes DEF Gets
<1>4. \A i \in 1..L : inbox'[q][i] = inbox[q][i]
  BY DEF Gets
<1>5. \A m \in 1..k : inbox'[q][L + m] = Text(nick[p], s + m)
  <2>1. \A m \in 1..k : New(p, k)[m] = Text(nick[p], s + m)
    BY DEF New
  <2> QED BY <2>1 DEF Gets
<1> HIDE DEF L, s
<1>6. \A m \in 1..k : /\ inbox'[q][L + m].kind = "text"
                      /\ inbox'[q][L + m].who = nick[p]
                      /\ inbox'[q][L + m].n = s + m
  <2>1. \A n : /\ Text(nick[p], n).kind = "text"
               /\ Text(nick[p], n).who = nick[p] /\ Text(nick[p], n).n = n
    BY DEF Text
  <2> QED BY <1>5, <2>1
<1>7. TextsAt(p, q) \subseteq 1..L
  BY <1>3 DEF TextsAt
<1>8. \A i \in TextsAt(p, q) : inbox[q][i].n \in 1..s
  BY <1>1 DEF TextsAt, WhoCame, s
<1>9. TextsAt(p, q)' = TextsAt(p, q) \union ((L + 1)..(L + k))
  <2>1. \A i \in 1..L : i \in TextsAt(p, q)' <=> i \in TextsAt(p, q)
    <3>1. \A i \in 1..L : i \in DOMAIN inbox[q] /\ i \in DOMAIN inbox'[q]
      BY <1>3
    <3> QED BY <1>4, <3>1 DEF TextsAt
  <2>2. \A i \in (L + 1)..(L + k) : i \in TextsAt(p, q)'
    <3> SUFFICES ASSUME NEW i \in (L + 1)..(L + k) PROVE i \in TextsAt(p, q)'
      OBVIOUS
    <3>1. i - L \in 1..k /\ i = L + (i - L) /\ i \in DOMAIN inbox'[q]
      BY <1>3
    <3>2. inbox'[q][i].kind = "text" /\ inbox'[q][i].who = nick[p]
      BY <1>6, <3>1
    <3> QED BY <3>1, <3>2 DEF TextsAt
  <2>3. TextsAt(p, q)' \subseteq 1..(L + k)
    BY <1>3 DEF TextsAt
  <2>4. 1..(L + k) = (1..L) \union ((L + 1)..(L + k))
    BY <1>3
  <2>5. ASSUME NEW i \in TextsAt(p, q)'
        PROVE  i \in TextsAt(p, q) \/ i \in (L + 1)..(L + k)
    BY <2>1, <2>3, <2>4, <2>5
  <2>6. ASSUME NEW i \in TextsAt(p, q) PROVE i \in TextsAt(p, q)'
    BY <1>7, <2>1, <2>6
  <2> QED BY <2>2, <2>5, <2>6
<1>10. \A i \in (L + 1)..(L + k) : inbox'[q][i].n = s + (i - L)
  <2> SUFFICES ASSUME NEW i \in (L + 1)..(L + k)
               PROVE  inbox'[q][i].n = s + (i - L)
    OBVIOUS
  <2>1. i - L \in 1..k /\ i = L + (i - L)
    BY <1>3
  <2> QED BY <1>6, <2>1
<1>11. \A i \in TextsAt(p, q) : inbox'[q][i] = inbox[q][i]
  BY <1>4, <1>7
<1>12. Heard(p, q)' = Heard(p, q) \union ((s + 1)..(s + k))
  <2>1. Heard(p, q)' = {inbox'[q][i].n : i \in TextsAt(p, q)'}
    BY DEF Heard
  <2>2. ASSUME NEW n \in Heard(p, q)'
        PROVE  n \in Heard(p, q) \/ n \in (s + 1)..(s + k)
    <3>1. PICK i \in TextsAt(p, q)' : n = inbox'[q][i].n
      BY <2>1, <2>2
    <3>2. CASE i \in TextsAt(p, q)
      BY <1>11, <3>1, <3>2 DEF Heard
    <3>3. CASE i \in (L + 1)..(L + k)
      <4>1. n = s + (i - L) /\ i - L \in 1..k
        BY <1>3, <1>10, <3>1, <3>3
      <4> QED BY <1>2, <4>1
    <3> QED BY <1>9, <3>1, <3>2, <3>3
  <2>3. ASSUME NEW n \in Heard(p, q) PROVE n \in Heard(p, q)'
    BY <1>9, <1>11, <2>1, <2>3 DEF Heard
  <2>4. ASSUME NEW n \in (s + 1)..(s + k) PROVE n \in Heard(p, q)'
    <3>1. L + (n - s) \in (L + 1)..(L + k) /\ n - s \in 1..k /\ s + (n - s) = n
      BY <1>2, <1>3, <2>4
    <3>2. inbox'[q][L + (n - s)].n = n
      BY <1>6, <3>1
    <3> QED BY <1>9, <2>1, <3>1, <3>2
  <2> QED BY <2>2, <2>3, <2>4
<1>13. /\ \A i, j \in TextsAt(p, q) : i < j => inbox[q][i].n < inbox[q][j].n
       /\ \A m, n \in Heard(p, q) : m..n \subseteq Heard(p, q)
       /\ s \in Heard(p, q) \/ (Heard(p, q) = {} /\ (nick[q] > nick[p] \/ s = 0))
       /\ Heard(p, q) # {} /\ nick[q] < nick[p] => 1 \in Heard(p, q)
  BY DEF HeardInOrder, s
<1>14. Heard(p, q) \subseteq 1..s
  BY <1>8 DEF Heard
<1>15. ASSUME NEW i \in TextsAt(p, q)', NEW j \in TextsAt(p, q)', i < j
       PROVE  inbox'[q][i].n < inbox'[q][j].n
  <2>1. CASE i \in TextsAt(p, q) /\ j \in TextsAt(p, q)
    BY <1>11, <1>13, <1>15, <2>1
  <2>2. CASE i \in TextsAt(p, q) /\ j \in (L + 1)..(L + k)
    <3>1. inbox'[q][i].n \in 1..s /\ inbox'[q][j].n = s + (j - L) /\ j - L \in 1..k
      BY <1>3, <1>8, <1>10, <1>11, <2>2
    <3> QED BY <1>2, <3>1
  <2>3. CASE i \in (L + 1)..(L + k) /\ j \in TextsAt(p, q)
    BY <1>3, <1>7, <1>15, <2>3
  <2>4. CASE i \in (L + 1)..(L + k) /\ j \in (L + 1)..(L + k)
    <3>1. inbox'[q][i].n = s + (i - L) /\ inbox'[q][j].n = s + (j - L)
      BY <1>10, <2>4
    <3> QED BY <1>2, <1>3, <1>15, <2>4, <3>1
  <2> QED BY <1>9, <2>1, <2>2, <2>3, <2>4
<1>16. ASSUME NEW m \in Heard(p, q)', NEW n \in Heard(p, q)', NEW e \in m..n
       PROVE  e \in Heard(p, q)'
  <2>1. m \in Nat /\ n \in Nat
    BY <1>2, <1>12, <1>14
  <2>2. CASE e > s
    BY <1>2, <1>12, <1>14, <2>1, <2>2
  <2>3. CASE e <= s
    <3>1. m \in Heard(p, q)
      BY <1>2, <1>12, <2>1, <2>3
    <3>2. m..s \subseteq Heard(p, q)
      BY <1>13, <3>1
    <3> QED BY <1>2, <1>12, <2>1, <2>3, <3>2
  <2> QED BY <1>2, <2>1, <2>2, <2>3
<1>17. said'[p] \in Heard(p, q)'
  BY <1>2, <1>12
<1>18. nick[q] < nick[p] => 1 \in Heard(p, q)'
  <2> SUFFICES ASSUME nick[q] < nick[p], 1 \notin Heard(p, q)
               PROVE  1 \in Heard(p, q)'
    BY <1>12
  <2>1. s = 0
    BY <1>1, <1>13
  <2> QED BY <1>12, <2>1
<1> QED BY <1>15, <1>16, <1>17, <1>18 DEF HeardInOrder

(***************************************************************************)
(* One that misses no message hears the texts of the others in the order   *)
(* they were said, without a gap and without an echo of its own.           *)
(***************************************************************************)
THEOREM RoomTextsInOrder == RoomAssumption => (Spec => []TextsInOrder)
<1> SUFFICES ASSUME RoomAssumption PROVE Spec => []TextsInOrder
  OBVIOUS
<1>1. Init => TextsInOrder
  BY DEF Init, TextsInOrder
<1>2. RoomInv /\ TextsInOrder /\ [Next]_vars => TextsInOrder'
  <2> SUFFICES ASSUME RoomInv, TextsInOrder, [Next]_vars,
                      NEW q \in Client \ Deaf, nick'[q] # 0
               PROVE  /\ TextsAt(q, q)' = {}
                      /\ \A r \in Client \ {q} : nick'[r] # 0 => HeardInOrder(r, q)'
    BY DEF TextsInOrder
  <2>0. RoomTypes /\ NicksUnique /\ Fresh /\ WhoCame
    BY DEF RoomInv
  <2>1. nick[q] # 0 =>
          /\ TextsAt(q, q) = {}
          /\ \A r \in Client \ {q} : nick[r] # 0 => HeardInOrder(r, q)
    BY DEF TextsInOrder
  <2> DEFINE Goal == /\ TextsAt(q, q)' = {}
                     /\ \A r \in Client \ {q} : nick'[r] # 0 => HeardInOrder(r, q)'
  <2>2. ASSUME NEW p \in Client, Join(p) PROVE Goal
    <3> DEFINE msgs == <<Info(Cardinality(members'))>>
    <3>1. /\ inbox' \in [Client -> Seq(Message)] /\ msgs \in Seq(Message)
          /\ IF q \in members' THEN Gets(q, msgs) ELSE inbox'[q] = inbox[q]
          /\ Len(msgs) = 1 /\ msgs[1].kind # "text"
      BY <2>0, <2>2, JoinGets DEF Info
    <3>2. /\ members' = members \union {p} /\ said' = said /\ nick[p] = 0
          /\ said[p] = 0 /\ inbox[p] = <<>> /\ joined \in Nat
          /\ \A r \in Client : nick'[r] = IF r = p THEN joined + 1 ELSE nick[r]
          /\ \A r \in Client : nick[r] \in Nat /\ nick[r] <= joined
      BY <2>0, <2>2 DEF Join, Fresh, RoomTypes, NicksUnique
    <3> HIDE DEF msgs
    <3>3. \A r \in Client : NoTextOf(r, q)
      <4>1. \A m \in 1..Len(msgs) : msgs[m].kind # "text"
        BY <3>1
      <4> QED BY <3>1, <4>1 DEF NoTextOf
    <3>4. TextsAt(p, q)' = {}
      <4> SUFFICES ASSUME NEW i \in DOMAIN inbox'[q], inbox'[q][i].kind = "text"
                   PROVE  inbox'[q][i].who # nick'[p]
        BY DEF TextsAt
      <4>1. i \in DOMAIN inbox[q] /\ inbox'[q][i] = inbox[q][i]
        <5>1. Lost.kind # "text" /\ \A m \in 1..Len(msgs) : msgs[m].kind # "text"
          BY <3>1 DEF Lost
        <5>2. q \in members' =>
                \/ i \in DOMAIN inbox[q] /\ inbox'[q][i] = inbox[q][i]
                \/ \E m \in 1..Len(msgs) : inbox'[q][i] \in {msgs[m], Lost}
          BY <2>0, <3>1, OldOrNew
        <5> QED BY <3>1, <5>1, <5>2
      <4>2. inbox[q][i].who \in Nat /\ inbox[q][i].who <= joined
        <5>1. inbox[q][i] \in Message
          BY <2>0, <4>1, Boxes
        <5> QED BY <2>0, <4>1, <5>1 DEF WhoCame, Message
      <4> QED BY <3>2, <4>1, <4>2
    <3>5. Heard(p, q)' = {}
      BY <3>4 DEF Heard
    <3>6. ASSUME NEW r \in Client \ {q}, nick'[r] # 0, r # p, q # p
          PROVE  HeardInOrder(r, q)'
      <4>1. /\ nick'[r] = nick[r] /\ nick'[q] = nick[q]
            /\ HeardInOrder(r, q) /\ r \in Client
            /\ {r, q} \subseteq members' =>
                 {r, q} \subseteq members /\ said'[r] = said[r]
        BY <2>1, <3>2, <3>6
      <4> QED BY <2>0, <3>1, <3>3, <4>1, KeepsOrder
    <3>7. ASSUME NEW r \in Client \ {q}, r = p PROVE HeardInOrder(r, q)'
      BY <3>2, <3>4, <3>5, <3>7 DEF HeardInOrder
    <3>8. ASSUME NEW r \in Client \ {q}, nick'[r] # 0, q = p
          PROVE  HeardInOrder(r, q)'
      <4>1. nick'[r] = nick[r] /\ nick'[q] > nick'[r]
        BY <3>2, <3>8
      <4>2. TextsAt(r, q)' = {}
        <5>1. TextsAt(r, q) = {}
          BY <3>2, <3>8 DEF TextsAt
        <5> QED BY <2>0, <3>1, <3>3, <4>1, <5>1, KeepsTexts
      <4>3. Heard(r, q)' = {}
        BY <4>2 DEF Heard
      <4> QED BY <4>1, <4>2, <4>3 DEF HeardInOrder
    <3>9. TextsAt(q, q)' = {}
      <4>1. CASE q = p
        BY <3>4, <4>1
      <4>2. CASE q # p
        <5>1. nick'[q] = nick[q] /\ TextsAt(q, q) = {}
          BY <2>1, <3>2, <4>2
        <5> QED BY <2>0, <3>1, <3>3, <5>1, KeepsTexts
      <4> QED BY <4>1, <4>2
    <3> QED BY <3>6, <3>7, <3>8, <3>9
  <2>3. ASSUME inbox' \in [Client -> Seq(Message)], nick' = nick,
               NEW r \in Client \ {q}, nick[r] # 0, NoTextOf(r, q),
               {r, q} \subseteq members' =>
                 {r, q} \subseteq members /\ said'[r] = said[r]
        PROVE  HeardInOrder(r, q)'
    BY <2>0, <2>1, <2>3, KeepsOrder
  <2>4. ASSUME inbox' \in [Client -> Seq(Message)], nick' = nick, NoTextOf(q, q)
        PROVE  TextsAt(q, q)' = {}
    BY <2>0, <2>1, <2>4, KeepsTexts
  <2>5. ASSUME NEW p \in Client, Depart(p) PROVE Goal
    <3> DEFINE msgs == <<Info(Cardinality(members')), Leave(nick[p])>>
    <3>1. /\ inbox' \in [Client -> Seq(Message)] /\ msgs \in Seq(Message)
          /\ IF q \in members' THEN Gets(q, msgs) ELSE inbox'[q] = inbox[q]
          /\ Len(msgs) = 2 /\ msgs[1].kind # "text" /\ msgs[2].kind # "text"
      BY <2>0, <2>5, DepartGets DEF Info, Leave
    <3>2. members' \subseteq members /\ UNCHANGED <<nick, said>>
      BY <2>5 DEF Depart
    <3> HIDE DEF msgs
    <3>3. \A r \in Client : NoTextOf(r, q)
      <4>1. \A m \in 1..Len(msgs) : msgs[m].kind # "text"
        BY <3>1
      <4> QED BY <3>1, <4>1 DEF NoTextOf
    <3> QED BY <2>3, <2>4, <3>1, <3>2, <3>3
  <2>6. ASSUME NEW p \in Client, Say(p) PROVE Goal
    <3>1. PICK k \in Nat \ {0} :
            /\ New(p, k) \in Seq(Message) /\ Len(New(p, k)) = k
            /\ said' = [said EXCEPT ![p] = @ + k]
            /\ inbox' \in [Client -> Seq(Message)]
            /\ IF q \in members \ {p} THEN Gets(q, New(p, k))
               ELSE inbox'[q] = inbox[q]
      BY <2>0, <2>6, SayGets
    <3>2. p \in members /\ members' = members /\ nick' = nick /\ nick[p] # 0
      BY <2>0, <2>6 DEF Say, NicksUnique
    <3>3. \A r \in Client : r # p => said'[r] = said[r]
      BY <2>0, <3>1 DEF RoomTypes
    <3>4. ASSUME NEW r \in Client, r # p \/ q \notin members \ {p}, nick[r] # 0
          PROVE  NoTextOf(r, q)
      <4>1. \A m \in 1..k : New(p, k)[m].who = nick[p]
        BY DEF New, Text
      <4>2. r # p => nick[r] # nick[p]
        BY <2>0, <3>2, <3>4 DEF NicksUnique, RoomTypes
      <4> QED BY <3>1, <3>4, <4>1, <4>2 DEF NoTextOf
    <3>5. TextsAt(q, q)' = {}
      <4>1. NoTextOf(q, q)
        BY <3>2, <3>4
      <4> QED BY <2>4, <3>1, <3>2, <4>1
    <3>6. ASSUME NEW r \in Client \ {q}, nick'[r] # 0,
                 r # p \/ q \notin members
          PROVE  HeardInOrder(r, q)'
      <4>1. NoTextOf(r, q)
        BY <3>2, <3>4, <3>6
      <4> QED BY <2>3, <3>1, <3>2, <3>3, <3>6, <4>1
    <3>7. ASSUME NEW r \in Client \ {q}, r = p, q \in members
          PROVE  HeardInOrder(r, q)'
      <4>1. Gets(q, New(p, k)) /\ p # q /\ q \in members \ Deaf
        BY <3>1, <3>7
      <4>2. HeardInOrder(p, q)
        BY <2>1, <3>2, <3>7
      <4> QED BY <3>1, <3>2, <3>7, <4>1, <4>2, HearsMore
    <3> QED BY <3>5, <3>6, <3>7
  <2>7. CASE UNCHANGED vars
    <3>1. UNCHANGED <<members, nick, said, inbox>>
      BY <2>7 DEF vars
    <3>2. \A r \in Client : /\ TextsAt(r, q)' = TextsAt(r, q)
                           /\ Heard(r, q)' = Heard(r, q)
      BY <3>1 DEF TextsAt, Heard
    <3>3. \A r \in Client : HeardInOrder(r, q)' <=> HeardInOrder(r, q)
      BY <3>1, <3>2 DEF HeardInOrder
    <3> QED BY <2>1, <3>1, <3>2, <3>3
  <2> QED BY <2>2, <2>5, <2>6, <2>7 DEF Next
<1> QED BY <1>1, <1>2, RoomInvariant, PTL DEF Spec
=============================================================================

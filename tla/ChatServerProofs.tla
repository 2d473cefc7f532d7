-------------------------- MODULE ChatServerProofs --------------------------
(***************************************************************************)
(* The server is an instance of the event loop of module Poller, so that   *)
(* what PollerProofs proves of the loop holds of the server; on top of it, *)
(* the poller and the server agree on which connections there are, their   *)
(* number stays within the limit, and nick names are unique.  It is also   *)
(* the room of module ChatRoom, of which ChatRoomProofs then says what its *)
(* clients are told.                                                       *)
(***************************************************************************)
EXTENDS ChatServer, TLAPS, FiniteSetTheorems

USE ServerAssumption

Sub == Peer \union {Listener}

\* Nothing stops the server's loop.
NeverStops == is_stopped = FALSE

-----------------------------------------------------------------------------
(* The server implements the event loop.                                   *)

LEMMA MaskFact == \A s : Mask(s) \in Masks \union {{}}
BY DEF Mask, Masks

LEMMA EpollWaitStep == EpollWait => P!Next
<1> SUFFICES ASSUME EpollWait PROVE P!Next
  OBVIOUS
<1> DEFINE mask == [s \in ready |-> Mask(s)]
<1>1. mask \in [ready -> Masks \union {{}}]
  BY MaskFact
<1>2. P!EpollWait(mask)
  BY DEF EpollWait
<1> QED BY <1>1, <1>2 DEF P!Next, P!Run

LEMMA WakeStep ==
  ASSUME NEW s \in Sub, P!Wake({s}), UNCHANGED idle_loop
  PROVE  [P!Next]_(P!vars)
<1>1. CASE s \in subscribers
  <2>1. P!Kernel(s)
    BY <1>1 DEF P!Kernel, idle_loop
  <2> QED BY <2>1 DEF P!Next, Sub
<1>2. CASE s \notin subscribers
  BY <1>2 DEF P!Wake, P!vars, idle_loop
<1> QED BY <1>1, <1>2

\* A handler that returns is a step of the loop.
LEMMA ReturnsStep ==
  ASSUME is_stopped = FALSE, NEW s \in Sub, NEW bit \in P!Bits, P!Handling(s, bit),
         NEW closed \in SUBSET subscribers, closed \subseteq {s} \ {Listener},
         Returns(closed)
  PROVE  P!Next
<1>1. \E c \in SUBSET ([t \in Sub |-> {t} \ {Listener}][s] \intersect subscribers) :
        /\ P!HandlerReturns(c)
        /\ \E stop \in BOOLEAN : is_stopped' = (is_stopped \/ stop)
        /\ UNCHANGED running
  <2>1. is_stopped' = (is_stopped \/ FALSE)
    BY DEF Returns
  <2> QED BY <2>1 DEF Returns
<1>2. P!Handler(s)
  BY <1>1 DEF P!Handler, Sub
<1> QED BY <1>2 DEF P!Next, P!Run, Sub

LEMMA AdmitStep == ASSUME NEW p \in Peer, Admit(p) PROVE P!Next
<1>1. PICK f \in Fd : P!Subscribe(p, f)
  BY DEF Admit
<1>2. /\ P!Handling(Listener, "IN")
      /\ ready' = ready \union {p}
      /\ UNCHANGED <<events, current, is_stopped, running>>
  BY DEF Admit, Accepting
<1>3. P!Handler(Listener)
  BY <1>1, <1>2 DEF P!Handler, P!Bits
<1> QED BY <1>3 DEF P!Next, P!Run

LEMMA NextStep == NeverStops /\ [Next]_vars => [P!Next]_(P!vars)
<1> SUFFICES ASSUME NeverStops, [Next]_vars PROVE [P!Next]_(P!vars)
  OBVIOUS
<1> USE DEF NeverStops
<1>1. CASE EpollWait
  BY <1>1, EpollWaitStep
<1>2. CASE Dispatch
  BY <1>2 DEF Dispatch, P!Next, P!Run
<1>3. CASE AcceptDone
  BY <1>3, ReturnsStep DEF AcceptDone, Sub, P!Bits
<1>4. CASE AcceptFails
  BY <1>4, ReturnsStep DEF AcceptFails, Sub, P!Bits
<1>5. ASSUME NEW p \in Peer, Admit(p) PROVE P!Next
  BY <1>5, AdmitStep
<1>6. ASSUME NEW p \in Peer, Refuse(p) PROVE UNCHANGED P!vars
  BY <1>6 DEF Refuse, loop, P!vars
<1>7. ASSUME NEW p \in Peer, OnOut(p) PROVE P!Next
  <2>1. P!Handling(p, "OUT") /\ Returns({})
    BY <1>7 DEF OnOut
  <2>2. p \in Sub /\ "OUT" \in P!Bits
    BY DEF Sub, P!Bits
  <2> QED BY <2>1, <2>2, ReturnsStep
<1>8. ASSUME NEW p \in Peer, OnData(p) PROVE P!Next
  <2>1. P!Handling(p, "IN") /\ Returns({})
    BY <1>8 DEF OnData, Relay
  <2>2. p \in Sub /\ "IN" \in P!Bits
    BY DEF Sub, P!Bits
  <2> QED BY <2>1, <2>2, ReturnsStep
<1>9. ASSUME NEW p \in Peer, OnClosed(p) PROVE P!Next
  <2>1. PICK bit \in P!Bits : P!Handling(p, bit)
    BY <1>9 DEF OnClosed, Ending, P!Bits
  <2>2. p \in subscribers /\ Returns({p})
    BY <1>9, <2>1 DEF OnClosed, P!Handling, P!Exists
  <2> QED BY <2>1, <2>2, ReturnsStep DEF Sub
<1>10. ASSUME NEW p \in Peer, Connect(p) \/ Arrive(p) \/ Disconnect(p)
       PROVE  [P!Next]_(P!vars)
  <2>1. UNCHANGED idle_loop /\ (P!Wake({p}) \/ P!Wake({Listener}))
    BY <1>10 DEF Connect, Arrive, Disconnect, idle_loop
  <2> QED BY <2>1, WakeStep DEF Sub
<1>11. CASE UNCHANGED vars
  BY <1>11 DEF vars, loop, P!vars
<1> QED
  BY <1>1, <1>2, <1>3, <1>4, <1>5, <1>6, <1>7, <1>8, <1>9, <1>10, <1>11
  DEF Next, Server, Network

LEMMA NeverStopsStep == NeverStops /\ [Next]_vars => NeverStops'
BY DEF NeverStops, Next, Server, Network, vars, loop, EpollWait, Dispatch,
       AcceptDone, AcceptFails, Admit, Refuse, OnOut, OnData, Relay,
       OnClosed, RemoveClient, Connect, Arrive, Disconnect,
       Returns, idle_loop, P!EpollWait, P!Notify, P!Skip

(***************************************************************************)
(* Every behaviour of the server is one of the event loop with the         *)
(* server's discipline (Poller.cpp:59-112): the run server_members checks  *)
(* it for four peers.                                                      *)
(***************************************************************************)
THEOREM ServerKeepsPollerContract == Spec => PollerContract
<1>1. Init => P!Init /\ NeverStops
  BY DEF Init, P!Init, NeverStops
<1> QED BY <1>1, NextStep, NeverStopsStep, PTL DEF Spec, PollerContract, P!Spec

-----------------------------------------------------------------------------
(* What PollerProofs proves of the loop holds of the server.               *)

PP == INSTANCE PollerProofs WITH
        Sub <- Peer \union {Listener},
        Start <- {Listener},
        Opens <- {Listener},
        Closes <- [s \in Peer \union {Listener} |-> {s} \ {Listener}]

LEMMA ServerDiscipline == PP!PollerAssumption
BY DEF PP!PollerAssumption, PP!Bits, PP!Disciplined, Masks

(***************************************************************************)
(* In the server, too, a handler only ever runs for an event of the        *)
(* connection it is called on, although accept() keeps reusing the         *)
(* descriptors of connections that were closed (Poller.cpp:95-126).        *)
(***************************************************************************)
THEOREM ServerHandlersOwnEvents == Spec => []P!PollerInv
<1>1. P!Init => PP!Init
  BY DEF P!Init, PP!Init, P!Idle, PP!Idle
<1>2. [P!Next]_(P!vars) => [PP!Next]_(PP!vars)
  <2>1. \A mask : P!EpollWait(mask) => PP!EpollWait(mask)
    BY DEF P!EpollWait, PP!EpollWait, P!Between, PP!Between,
           P!Cardinality, PP!Cardinality
  <2>2. P!Notify => PP!Notify
    BY DEF P!Notify, PP!Notify, P!Between, PP!Between,
           P!Lookup, PP!Lookup, P!Open, PP!Open
  <2>3. (P!Skip => PP!Skip) /\ (P!Return => PP!Return)
    BY DEF P!Skip, PP!Skip, P!Return, PP!Return, P!Exists, PP!Exists,
           P!Idle, PP!Idle, P!Between, PP!Between
  <2>4. \A s, bit : P!Handling(s, bit) => PP!Handling(s, bit)
    BY DEF P!Handling, PP!Handling, P!Exists, PP!Exists, P!NextBit, PP!NextBit
  <2>5. \A closed : P!HandlerReturns(closed) => PP!HandlerReturns(closed)
    BY DEF P!HandlerReturns, PP!HandlerReturns, P!NextBit, PP!NextBit,
           P!Unsubscribed, PP!Unsubscribed, P!Idle, PP!Idle
  <2>6. \A n, f : P!Subscribe(n, f) => PP!Subscribe(n, f)
    BY DEF P!Subscribe, PP!Subscribe, P!Open, PP!Open
  <2>7. \A s : P!Handler(s) => PP!Handler(s)
    BY <2>4, <2>5, <2>6 DEF P!Handler, PP!Handler, P!Bits, PP!Bits
  <2>8. \A s : P!Kernel(s) => PP!Kernel(s)
    BY DEF P!Kernel, PP!Kernel, P!Wake, PP!Wake
  <2> QED
    BY <2>1, <2>2, <2>3, <2>7, <2>8
    DEF P!Next, PP!Next, P!Run, PP!Run, P!vars, PP!vars
<1>3. Spec => PP!Spec
  BY ServerKeepsPollerContract, <1>1, <1>2, PTL
  DEF PollerContract, P!Spec, PP!Spec
<1>4. PP!PollerInv => P!PollerInv
  BY DEF P!PollerInv, PP!PollerInv, P!TypeOK, PP!TypeOK, P!Event, PP!Event,
         P!Bits, PP!Bits, P!Registered, PP!Registered,
         P!OneEventEach, PP!OneEventEach,
         P!OpenersKeepBatch, PP!OpenersKeepBatch,
         P!BatchNotStale, PP!BatchNotStale, P!Open, PP!Open,
         P!HandlerOwnsEvent, PP!HandlerOwnsEvent, P!Exists, PP!Exists
<1>5. PP!Spec => []PP!PollerInv
  BY ServerDiscipline, PP!PollerInvariant
<1> QED BY <1>3, <1>4, <1>5, PTL

-----------------------------------------------------------------------------
(* The server's own state.                                                 *)

ServerTypes ==
  /\ peer \in [Peer -> {"idle", "up", "fin", "rst", "gone"}]
  /\ backlog \in Seq(Peer)
  /\ sent \in [Peer -> Nat]
  /\ taken \in [Peer -> Nat]
  /\ outbox \in [Peer -> Seq(Message)]
  /\ incoming_connections \subseteq Peer
  /\ incoming_connections_counter \in Nat
  /\ nick \in [Peer -> Nat]

\* The poller and the server agree, and the limit is kept.
Members ==
  /\ IsFiniteSet(incoming_connections)
  /\ Cardinality(incoming_connections) <= Limit
  /\ subscribers = incoming_connections \union {Listener}

\* Nothing is read before it arrives.
ReadArrived == \A p \in Peer : taken[p] <= sent[p]

ServerInv == ServerTypes /\ Members /\ ReadArrived /\ NicksUnique

LEMMA SendType ==
  ASSUME outbox \in [Peer -> Seq(Message)],
         NEW targets, NEW msgs \in Seq(Message), Send(targets, msgs)
  PROVE  outbox' \in [Peer -> Seq(Message)]
<1>1. PICK lost \in SUBSET ((targets \intersect Slow) \X DOMAIN msgs) :
        outbox' = [q \in Peer |->
                     IF q \in targets
                     THEN outbox[q] \o [i \in DOMAIN msgs |->
                            IF <<q, i>> \in lost THEN Lost ELSE msgs[i]]
                     ELSE outbox[q]]
  BY DEF Send
<1>2. ASSUME NEW q \in Peer
      PROVE  [i \in DOMAIN msgs |->
                IF <<q, i>> \in lost THEN Lost ELSE msgs[i]] \in Seq(Message)
  <2>1. Lost \in Message
    BY DEF Lost, Message
  <2>2. Len(msgs) \in Nat /\ DOMAIN msgs = 1..Len(msgs)
    OBVIOUS
  <2> QED BY <2>1, <2>2
<1> QED BY <1>1, <1>2

\* accept() takes the head of the backlog.
LEMMA TailType ==
  ASSUME NEW S, NEW s \in Seq(S), s # <<>>
  PROVE  Tail(s) \in Seq(S)
OBVIOUS

LEMMA AdmitInv == ASSUME ServerInv, NEW p \in Peer, Admit(p) PROVE ServerInv'
<1> USE DEF ServerInv
<1> DEFINE members == incoming_connections \union {p}
<1>1. /\ backlog # <<>> /\ backlog' = Tail(backlog)
      /\ subscribers' = subscribers \union {p}
      /\ p \notin subscribers
      /\ Cardinality(incoming_connections) < Limit
      /\ incoming_connections' = members
      /\ incoming_connections_counter' = incoming_connections_counter + 1
      /\ nick' = [nick EXCEPT ![p] = incoming_connections_counter + 1]
      /\ Send(members, <<Info(Cardinality(members))>>)
      /\ UNCHANGED <<peer, sent, taken>>
  BY DEF Admit, Accepting, P!Subscribe
<1>2. /\ IsFiniteSet(members)
      /\ Cardinality(members) = Cardinality(incoming_connections) + 1
      /\ Cardinality(incoming_connections) \in Nat
  BY <1>1, FS_AddElement, FS_CardinalityType DEF Members
<1>3. Members'
  BY <1>1, <1>2 DEF Members
<1>4. outbox' \in [Peer -> Seq(Message)]
  <2>1. <<Info(Cardinality(members))>> \in Seq(Message)
    BY <1>2 DEF Info, Message
  <2> QED BY <1>1, <2>1, SendType DEF ServerTypes
<1>5. ServerTypes'
  <2>1. backlog' \in Seq(Peer)
    BY <1>1, TailType DEF ServerTypes
  <2>2. nick' \in [Peer -> Nat] /\ incoming_connections_counter' \in Nat
    BY <1>1 DEF ServerTypes
  <2> QED BY <1>1, <1>4, <2>1, <2>2 DEF ServerTypes
<1>6. ReadArrived'
  BY <1>1 DEF ReadArrived
<1>7. NicksUnique'
  <2>1. \A q \in Peer : nick'[q] = IF q = p THEN incoming_connections_counter + 1
                                 ELSE nick[q]
    BY <1>1 DEF ServerTypes
  <2>2. \A q \in Peer : /\ nick[q] \in Nat
                        /\ nick[q] <= incoming_connections_counter
    BY DEF ServerTypes, NicksUnique
  <2>3. incoming_connections_counter \in Nat
    BY DEF ServerTypes
  <2>4. \A q, r \in Peer : nick'[q] = nick'[r] /\ nick'[q] # 0 => q = r
    BY <2>1, <2>2, <2>3 DEF NicksUnique
  <2>5. \A q \in Peer : nick'[q] <= incoming_connections_counter'
    BY <1>1, <2>1, <2>2, <2>3
  <2>6. ASSUME NEW q \in incoming_connections' PROVE nick'[q] # 0
    <3>1. q \in Peer /\ (q = p \/ q \in incoming_connections)
      BY <1>1 DEF ServerTypes
    <3>2. CASE q = p
      BY <3>2, <2>1, <2>3
    <3>3. CASE q # p
      BY <3>1, <3>3, <2>1 DEF NicksUnique
    <3> QED BY <3>2, <3>3
  <2> QED BY <2>4, <2>5, <2>6 DEF NicksUnique
<1> QED BY <1>3, <1>5, <1>6, <1>7

LEMMA OnDataInv == ASSUME ServerInv, NEW p \in Peer, OnData(p) PROVE ServerInv'
<1> USE DEF ServerInv
<1> DEFINE count == sent[p] \div 2 - taken[p] \div 2
           texts == [i \in 1..count |-> Text(nick[p], taken[p] \div 2 + i)]
<1>1. /\ taken' = [taken EXCEPT ![p] = sent[p]]
      /\ Send(incoming_connections \ {p}, texts)
      /\ subscribers' = subscribers
      /\ UNCHANGED <<peer, backlog, sent, incoming_connections,
                     incoming_connections_counter, nick>>
  BY DEF OnData, Relay, Complete, Returns, network, P!HandlerReturns, P!Unsubscribed
<1>2. outbox' \in [Peer -> Seq(Message)]
  <2>1. count \in Nat /\ taken[p] \div 2 \in Nat
    BY DEF ServerTypes, ReadArrived
  <2>2. \A i \in 1..count : Text(nick[p], taken[p] \div 2 + i) \in Message
    BY <2>1 DEF Text, Message, ServerTypes
  <2>3. texts \in Seq(Message)
    BY <2>1, <2>2
  <2> HIDE DEF texts
  <2> QED BY <1>1, <2>3, SendType DEF ServerTypes
<1>3. ServerTypes'
  BY <1>1, <1>2 DEF ServerTypes
<1>4. Members' /\ ReadArrived' /\ NicksUnique'
  BY <1>1 DEF Members, ReadArrived, NicksUnique, ServerTypes
<1> QED BY <1>3, <1>4

LEMMA OnClosedInv == ASSUME ServerInv, NEW p \in Peer, OnClosed(p) PROVE ServerInv'
<1> USE DEF ServerInv
<1> DEFINE members == incoming_connections \ {p}
<1>1. /\ incoming_connections' = members
      /\ Send(members, <<Info(Cardinality(members)), Leave(nick[p])>>)
      /\ peer' = [peer EXCEPT ![p] = "gone"]
      /\ subscribers' = subscribers \ {p}
      /\ UNCHANGED <<backlog, sent, taken, incoming_connections_counter, nick>>
  BY DEF OnClosed, RemoveClient, Returns, P!HandlerReturns, P!Unsubscribed
<1>2. /\ IsFiniteSet(members)
      /\ Cardinality(members) <= Cardinality(incoming_connections)
      /\ Cardinality(members) \in Nat
      /\ Cardinality(incoming_connections) \in Nat
  BY FS_Subset, FS_CardinalityType DEF Members
<1>3. Members'
  BY <1>1, <1>2 DEF Members
<1>4. outbox' \in [Peer -> Seq(Message)]
  <2>1. <<Info(Cardinality(members)), Leave(nick[p])>> \in Seq(Message)
    BY <1>2 DEF Info, Leave, Message, ServerTypes
  <2> QED BY <1>1, <2>1, SendType DEF ServerTypes
<1>5. ServerTypes'
  BY <1>1, <1>4 DEF ServerTypes
<1>6. ReadArrived' /\ NicksUnique'
  BY <1>1 DEF ReadArrived, NicksUnique
<1> QED BY <1>3, <1>5, <1>6

\* The network's steps and the refusals only change these three variables.
LEMMA NetworkInv ==
  ASSUME ServerInv, UNCHANGED <<subscribers, server>>,
         peer' \in [Peer -> {"idle", "up", "fin", "rst", "gone"}],
         backlog' \in Seq(Peer), sent' \in [Peer -> Nat],
         \A p \in Peer : sent[p] <= sent'[p]
  PROVE  ServerInv'
<1>1. ReadArrived'
  BY DEF ServerInv, ServerTypes, ReadArrived, server
<1> QED BY <1>1 DEF ServerInv, ServerTypes, Members, NicksUnique, server

LEMMA NetworkInvSent ==
  ASSUME ServerInv, UNCHANGED <<subscribers, sent, server>>,
         peer' \in [Peer -> {"idle", "up", "fin", "rst", "gone"}],
         backlog' \in Seq(Peer)
  PROVE  ServerInv'
<1>1. sent' \in [Peer -> Nat] /\ \A p \in Peer : sent[p] <= sent'[p]
  BY DEF ServerInv, ServerTypes
<1> QED BY <1>1, NetworkInv

LEMMA ServerInvStep == ServerInv /\ [Next]_vars => ServerInv'
<1> SUFFICES ASSUME ServerInv, [Next]_vars PROVE ServerInv'
  OBVIOUS
<1> USE DEF ServerInv
<1>1. ASSUME UNCHANGED <<subscribers, network, server>> PROVE ServerInv'
  BY <1>1 DEF ServerTypes, Members, ReadArrived, NicksUnique, network, server
<1>2. ASSUME Returns({}) PROVE UNCHANGED subscribers
  BY <1>2 DEF Returns, P!HandlerReturns, P!Unsubscribed
<1>3. CASE EpollWait \/ Dispatch
  BY <1>3, <1>1 DEF EpollWait, Dispatch, P!EpollWait, P!Notify, P!Skip
<1>4. CASE AcceptDone
  BY <1>4, <1>1, <1>2 DEF AcceptDone
<1>5. CASE AcceptFails
  <2>1. UNCHANGED <<subscribers, peer, sent, server>>
    BY <1>5, <1>2 DEF AcceptFails
  <2>2. backlog # <<>> /\ (backlog' = backlog \/ backlog' = Tail(backlog))
    BY <1>5 DEF AcceptFails
  <2>3. backlog \in Seq(Peer)
    BY DEF ServerTypes
  <2>4. Tail(backlog) \in Seq(Peer)
    BY <2>2, <2>3, TailType
  <2>5. backlog' \in Seq(Peer)
    BY <2>2, <2>3, <2>4
  <2> QED BY <2>1, <2>5, NetworkInvSent DEF ServerTypes
<1>6. ASSUME NEW p \in Peer, Admit(p) PROVE ServerInv'
  BY <1>6, AdmitInv
<1>7. ASSUME NEW p \in Peer, Refuse(p) PROVE ServerInv'
  <2>1. /\ backlog' \in Seq(Peer)
        /\ peer' = [peer EXCEPT ![p] = "gone"]
        /\ UNCHANGED <<subscribers, sent, server>>
    BY <1>7, TailType DEF Refuse, Accepting, ServerTypes, loop
  <2>2. peer' \in [Peer -> {"idle", "up", "fin", "rst", "gone"}]
    BY <2>1 DEF ServerTypes
  <2> QED BY <2>1, <2>2, NetworkInvSent
<1>8. ASSUME NEW p \in Peer, OnOut(p) PROVE ServerInv'
  BY <1>8, <1>1, <1>2 DEF OnOut
<1>9. ASSUME NEW p \in Peer, OnData(p) PROVE ServerInv'
  BY <1>9, OnDataInv
<1>10. ASSUME NEW p \in Peer, OnClosed(p) PROVE ServerInv'
  BY <1>10, OnClosedInv
<1>11. ASSUME NEW p \in Peer, Connect(p) PROVE ServerInv'
  <2>1. /\ peer' = [peer EXCEPT ![p] = "up"]
        /\ backlog' = Append(backlog, p)
        /\ UNCHANGED <<subscribers, sent, server>>
    BY <1>11 DEF Connect, idle_loop
  <2>2. backlog' \in Seq(Peer)
    BY <2>1 DEF ServerTypes
  <2>3. peer' \in [Peer -> {"idle", "up", "fin", "rst", "gone"}]
    BY <2>1 DEF ServerTypes
  <2> QED BY <2>1, <2>2, <2>3, NetworkInvSent
<1>12. ASSUME NEW p \in Peer, Arrive(p) PROVE ServerInv'
  <2>1. /\ sent' = [sent EXCEPT ![p] = @ + 1]
        /\ UNCHANGED <<subscribers, peer, backlog, server>>
    BY <1>12 DEF Arrive, idle_loop
  <2>2. sent' \in [Peer -> Nat] /\ \A q \in Peer : sent[q] <= sent'[q]
    BY <2>1 DEF ServerTypes
  <2> QED BY <2>1, <2>2, NetworkInv DEF ServerTypes
<1>13. ASSUME NEW p \in Peer, Disconnect(p) PROVE ServerInv'
  <2>1. /\ \E state \in {"fin", "rst"} : peer' = [peer EXCEPT ![p] = state]
        /\ UNCHANGED <<subscribers, sent, backlog, server>>
    BY <1>13 DEF Disconnect, idle_loop
  <2>2. peer' \in [Peer -> {"idle", "up", "fin", "rst", "gone"}]
    BY <2>1 DEF ServerTypes
  <2>3. backlog' \in Seq(Peer)
    BY <2>1 DEF ServerTypes
  <2> QED BY <2>1, <2>2, <2>3, NetworkInvSent
<1>14. CASE UNCHANGED vars
  BY <1>14, <1>1 DEF vars, loop
<1> QED
  BY <1>3, <1>4, <1>5, <1>6, <1>7, <1>8, <1>9, <1>10, <1>11, <1>12,
     <1>13, <1>14
  DEF Next, Server, Network

LEMMA ServerInvariant == Spec => []ServerInv
<1>1. Init => ServerInv
  <2> SUFFICES ASSUME Init PROVE ServerInv
    OBVIOUS
  <2>1. IsFiniteSet({}) /\ Cardinality({}) = 0
    BY FS_EmptySet
  <2> QED BY <2>1 DEF ServerInv, Init, P!Init, ServerTypes, Members,
                      ReadArrived, NicksUnique
<1> QED BY <1>1, ServerInvStep, PTL DEF Spec

(***************************************************************************)
(* Every variable of the server keeps its type.                            *)
(***************************************************************************)
THEOREM ServerTypeCorrect == Spec => []TypeOK
<1>1. P!PollerInv /\ ServerInv => TypeOK
  BY DEF P!PollerInv, ServerInv, ServerTypes, TypeOK
<1> QED BY <1>1, ServerHandlersOwnEvents, ServerInvariant, PTL

(***************************************************************************)
(* The poller dispatches to exactly the connections the server has, each   *)
(* has a descriptor of its own, and there are at most Limit of them        *)
(* (Server.cpp:21-40, TcpSocket.cpp:20-31).                                *)
(***************************************************************************)
THEOREM ServerSubscribersMatch == Spec => []SubscribersMatch
<1>1. P!PollerInv /\ ServerInv => SubscribersMatch
  BY DEF P!PollerInv, P!Registered, ServerInv, Members, SubscribersMatch
<1> QED BY <1>1, ServerHandlersOwnEvents, ServerInvariant, PTL

(***************************************************************************)
(* No nick name is ever given twice (Server.cpp:28-32).                    *)
(***************************************************************************)
THEOREM ServerNicksUnique == Spec => []NicksUnique
<1>1. ServerInv => NicksUnique
  BY DEF ServerInv
<1> QED BY <1>1, ServerInvariant, PTL

-----------------------------------------------------------------------------
(* Why a client is removed.                                                *)

\* What waits to be accepted is no client yet, and waits once.
BacklogFresh ==
  /\ \A p \in incoming_connections : peer[p] \in {"up", "fin", "rst"}
  /\ \A i \in DOMAIN backlog : /\ backlog[i] \notin incoming_connections
                               /\ peer[backlog[i]] \in {"up", "fin", "rst"}
  /\ \A i, j \in DOMAIN backlog : backlog[i] = backlog[j] => i = j

HangUp == {"HUP", "ERR"}

\* A hang-up that was reported is a reset, and still is when its turn comes.
HangupsAreReal ==
  /\ \A e \in events : \A p \in incoming_connections :
       fd[p] = e.fd /\ e.bits \intersect HangUp # {} => peer[p] = "rst"
  /\ current.sub \in incoming_connections /\ current.bits \intersect HangUp # {} =>
       peer[current.sub] = "rst"

DeadInv == BacklogFresh /\ HangupsAreReal

LEMMA MaskHangUp ==
  \A s \in Sub : Mask(s) \intersect HangUp # {} => s \in Peer /\ peer[s] = "rst"
<1> SUFFICES ASSUME NEW s \in Sub, Mask(s) \intersect HangUp # {}
             PROVE  s \in Peer /\ peer[s] = "rst"
  OBVIOUS
<1>1. CASE s = Listener
  BY <1>1 DEF Mask, HangUp
<1>2. CASE s # Listener /\ peer[s] # "rst"
  <2>1. Mask(s) \in {{"IN", "OUT"}, {"OUT"}}
    BY <1>2 DEF Mask
  <2> QED BY <2>1 DEF HangUp
<1> QED BY <1>1, <1>2 DEF Sub

LEMMA EpollWaitHangups ==
  ASSUME P!PollerInv, ServerInv, DeadInv, EpollWait PROVE DeadInv'
<1> DEFINE mask == [s \in ready |-> Mask(s)]
<1>1. P!EpollWait(mask) /\ UNCHANGED <<network, server>>
  BY DEF EpollWait
<1>2. UNCHANGED <<subscribers, fd, current>>
  BY <1>1 DEF P!EpollWait
<1>3. ASSUME NEW e \in events', NEW p \in incoming_connections,
             fd[p] = e.fd, e.bits \intersect HangUp # {}
      PROVE  peer[p] = "rst"
  <2>1. PICK batch \in SUBSET ready :
          events' = {[fd |-> fd[s], bits |-> mask[s], live |-> TRUE] : s \in batch}
    BY <1>1 DEF P!EpollWait
  <2>2. \A s \in ready : mask[s] = Mask(s)
    OBVIOUS
  <2> HIDE DEF mask
  <2>3. PICK s \in batch : e = [fd |-> fd[s], bits |-> mask[s], live |-> TRUE]
    BY <2>1, <1>3
  <2>4. e.fd = fd[s] /\ e.bits = Mask(s) /\ s \in ready
    BY <2>2, <2>3
  <2>5. s \in subscribers /\ p \in subscribers /\ s \in Sub
    BY <2>4 DEF P!PollerInv, P!Registered, P!TypeOK, ServerInv, Members, Sub
  <2>6. s = p
    BY <1>3, <2>4, <2>5 DEF P!PollerInv, P!Registered
  <2> QED BY <1>3, <2>4, <2>5, <2>6, MaskHangUp
<1>4. HangupsAreReal'
  BY <1>1, <1>2, <1>3 DEF DeadInv, HangupsAreReal, network, server
<1>5. BacklogFresh'
  BY <1>1 DEF DeadInv, BacklogFresh, network, server
<1> QED BY <1>4, <1>5 DEF DeadInv

LEMMA DispatchHangups ==
  ASSUME P!PollerInv, ServerInv, DeadInv, Dispatch PROVE DeadInv'
<1>1. UNCHANGED <<network, server>>
  BY DEF Dispatch
<1>2. BacklogFresh'
  BY <1>1 DEF DeadInv, BacklogFresh, network, server
<1>3. CASE P!Skip
  <2>1. current'.bits = {} /\ UNCHANGED <<fd, events>>
    BY <1>3 DEF P!Skip, P!Idle
  <2> QED BY <1>1, <1>2, <2>1 DEF DeadInv, HangupsAreReal, network, server
<1>4. CASE P!Notify
  <2>1. PICK e \in events :
          /\ events' = events \ {e}
          /\ current' = [sub |-> P!Lookup(e.fd), bits |-> e.bits, live |-> e.live]
    BY <1>4 DEF P!Notify
  <2>2. UNCHANGED fd
    BY <1>4 DEF P!Notify
  <2>3. P!Lookup(e.fd) \in Peer => fd[P!Lookup(e.fd)] = e.fd
    BY DEF P!Lookup, P!Open
  <2>4. incoming_connections \subseteq Peer
    BY DEF ServerInv, ServerTypes
  <2> QED BY <1>1, <1>2, <2>1, <2>2, <2>3, <2>4 DEF DeadInv, HangupsAreReal, network, server
<1> QED BY <1>3, <1>4 DEF Dispatch

\* A handler that returns leaves events that were there already.
LEMMA ReturnsHangups ==
  ASSUME P!PollerInv, ServerInv, HangupsAreReal,
         NEW closed \in SUBSET Peer, P!HandlerReturns(closed),
         incoming_connections' = incoming_connections \ closed,
         \A p \in incoming_connections' : peer'[p] = peer[p]
  PROVE  HangupsAreReal'
<1> DEFINE gone == {fd[t] : t \in closed}
<1>1. events' = {[e EXCEPT !.live = @ /\ e.fd \notin gone] : e \in events}
  BY DEF P!HandlerReturns
<1>2. \A e \in events : e \in [fd : Fd, bits : SUBSET P!Bits, live : BOOLEAN]
  BY DEF P!PollerInv, P!TypeOK, P!Event
<1> HIDE DEF gone
<1>3. ASSUME NEW e \in events'
      PROVE  \E g \in events : e.fd = g.fd /\ e.bits = g.bits
  <2>1. PICK g \in events : e = [g EXCEPT !.live = @ /\ g.fd \notin gone]
    BY <1>1
  <2> QED BY <1>2, <2>1
<1>4. \A p \in incoming_connections' : fd'[p] = fd[p] /\ p \in incoming_connections
  BY DEF P!HandlerReturns, ServerInv, ServerTypes
<1>5. /\ current'.bits \subseteq current.bits
      /\ current'.bits # {} => current'.sub = current.sub
  <2>1. current \in [sub : Sub \union {Null}, bits : SUBSET P!Bits, live : BOOLEAN]
    BY DEF P!PollerInv, P!TypeOK, Sub
  <2> DEFINE left == current.bits \ {P!NextBit(current.bits)}
  <2>2. \/ current' = P!Idle
        \/ current' = [current EXCEPT !.bits = left,
                                      !.live = @ /\ current.sub \notin closed]
    BY DEF P!HandlerReturns
  <2>3. CASE current' = P!Idle
    BY <2>3 DEF P!Idle
  <2>4. left \subseteq current.bits
    OBVIOUS
  <2> HIDE DEF left
  <2>5. CASE current' = [current EXCEPT !.bits = left,
                                       !.live = @ /\ current.sub \notin closed]
    <3>1. current'.bits = left
      BY <2>1, <2>5
    <3>2. current'.sub = current.sub
      BY <2>1, <2>5
    <3> QED BY <2>4, <3>1, <3>2
  <2> QED BY <2>2, <2>3, <2>5
<1> QED BY <1>3, <1>4, <1>5 DEF HangupsAreReal

\* Steps that leave the loop and the clients alone.
LEMMA HangupsStay ==
  ASSUME HangupsAreReal, UNCHANGED <<events, current, fd, incoming_connections>>,
         \A p \in incoming_connections : peer[p] = "rst" => peer'[p] = "rst"
  PROVE  HangupsAreReal'
BY DEF HangupsAreReal

\* accept() takes a connection that no client has, and leaves the others.
LEMMA BacklogTail ==
  ASSUME ServerInv, BacklogFresh, backlog # <<>>, backlog' = Tail(backlog)
  PROVE  /\ Head(backlog) \in Peer
         /\ Head(backlog) \notin incoming_connections
         /\ peer[Head(backlog)] \in {"up", "fin", "rst"}
         /\ \A i \in DOMAIN backlog' :
              /\ backlog'[i] # Head(backlog)
              /\ backlog'[i] \in Peer \ incoming_connections
              /\ peer[backlog'[i]] \in {"up", "fin", "rst"}
         /\ \A i, j \in DOMAIN backlog' : backlog'[i] = backlog'[j] => i = j
<1>1. backlog \in Seq(Peer)
  BY DEF ServerInv, ServerTypes
<1>2. Head(backlog) = backlog[1] /\ 1 \in DOMAIN backlog
  BY <1>1
<1>3. \A i \in DOMAIN backlog' : /\ i \in Nat \ {0}
                                 /\ i + 1 \in DOMAIN backlog
                                 /\ backlog'[i] = backlog[i + 1]
  BY <1>1
<1>4. \A i \in DOMAIN backlog : backlog[i] \in Peer
  BY <1>1
<1>5. \A i \in DOMAIN backlog' : backlog'[i] # Head(backlog)
  BY <1>2, <1>3 DEF BacklogFresh
<1>6. \A i, j \in DOMAIN backlog' : backlog'[i] = backlog'[j] => i = j
  <2> SUFFICES ASSUME NEW i \in DOMAIN backlog', NEW j \in DOMAIN backlog',
                      backlog'[i] = backlog'[j]
               PROVE  i = j
    OBVIOUS
  <2>1. i + 1 = j + 1
    BY <1>3 DEF BacklogFresh
  <2> QED BY <1>3, <2>1
<1> QED BY <1>2, <1>3, <1>4, <1>5, <1>6 DEF BacklogFresh

LEMMA AdmitHangups ==
  ASSUME P!PollerInv, ServerInv, DeadInv, NEW p \in Peer, Admit(p) PROVE DeadInv'
<1>1. PICK f \in Fd : P!Subscribe(p, f)
  BY DEF Admit
<1>2. /\ f \notin P!Open /\ p \notin subscribers
      /\ fd' = [fd EXCEPT ![p] = f]
  BY <1>1 DEF P!Subscribe
<1>3. /\ backlog # <<>> /\ p = Head(backlog) /\ backlog' = Tail(backlog)
      /\ incoming_connections' = incoming_connections \union {p}
      /\ UNCHANGED <<events, current, peer>>
      /\ P!Handling(Listener, "IN")
  BY DEF Admit, Accepting
<1>4. BacklogFresh'
  BY <1>3, BacklogTail DEF DeadInv, BacklogFresh
<1>5. \A e \in events : e.fd \in P!Open
  <2>1. \A e \in events : e.live
    BY DEF P!PollerInv, P!OpenersKeepBatch
  <2> QED BY <2>1 DEF P!PollerInv, P!OneEventEach
<1>6. fd'[p] = f /\ \A q \in incoming_connections : q # p /\ fd'[q] = fd[q]
  BY <1>2 DEF P!PollerInv, P!TypeOK, ServerInv, Members, Sub
<1>7. current.sub = Listener /\ Listener \notin incoming_connections'
  BY <1>3 DEF P!Handling, ServerInv, ServerTypes
<1>8. HangupsAreReal'
  BY <1>2, <1>3, <1>5, <1>6, <1>7 DEF DeadInv, HangupsAreReal
<1> QED BY <1>4, <1>8 DEF DeadInv

LEMMA RefuseHangups ==
  ASSUME ServerInv, DeadInv, NEW p \in Peer, Refuse(p) PROVE DeadInv'
<1>1. /\ backlog # <<>> /\ p = Head(backlog) /\ backlog' = Tail(backlog)
      /\ peer' = [peer EXCEPT ![p] = "gone"]
      /\ UNCHANGED <<events, current, fd, incoming_connections>>
  BY DEF Refuse, Accepting, loop, server
<1>2. \A q \in Peer : q # p => peer'[q] = peer[q]
  BY <1>1 DEF ServerInv, ServerTypes
<1>3. p \notin incoming_connections /\ incoming_connections \subseteq Peer
  BY <1>1, BacklogTail DEF DeadInv, ServerInv, ServerTypes
<1>4. HangupsAreReal'
  BY <1>1, <1>2, <1>3, HangupsStay DEF DeadInv
<1>5. BacklogFresh'
  BY <1>1, <1>2, <1>3, BacklogTail DEF DeadInv, BacklogFresh
<1> QED BY <1>4, <1>5 DEF DeadInv

LEMMA AcceptFailsHangups ==
  ASSUME P!PollerInv, ServerInv, DeadInv, AcceptFails PROVE DeadInv'
<1>1. /\ backlog # <<>>
      /\ backlog' = backlog \/ backlog' = Tail(backlog)
      /\ P!HandlerReturns({})
      /\ UNCHANGED <<peer, incoming_connections>>
  BY DEF AcceptFails, Returns, server
<1>2. HangupsAreReal'
  BY <1>1, ReturnsHangups DEF DeadInv
<1>3. BacklogFresh'
  <2>1. CASE backlog' = backlog
    BY <1>1, <2>1 DEF DeadInv, BacklogFresh
  <2>2. CASE backlog' = Tail(backlog)
    BY <1>1, <2>2, BacklogTail DEF DeadInv, BacklogFresh
  <2> QED BY <1>1, <2>1, <2>2
<1> QED BY <1>2, <1>3 DEF DeadInv

LEMMA OnClosedHangups ==
  ASSUME P!PollerInv, ServerInv, DeadInv, NEW p \in Peer, OnClosed(p) PROVE DeadInv'
<1>1. /\ incoming_connections' = incoming_connections \ {p}
      /\ peer' = [peer EXCEPT ![p] = "gone"]
      /\ backlog' = backlog
      /\ P!HandlerReturns({p})
      /\ p \in subscribers
  BY DEF OnClosed, RemoveClient, Returns, P!Handling, P!Exists
<1>2. \A q \in Peer : q # p => peer'[q] = peer[q]
  BY <1>1 DEF ServerInv, ServerTypes
<1>3. p \in incoming_connections /\ incoming_connections \subseteq Peer
  BY <1>1 DEF ServerInv, Members, ServerTypes
<1>4. HangupsAreReal'
  BY <1>1, <1>2, <1>3, ReturnsHangups DEF DeadInv
<1>5. \A i \in DOMAIN backlog : backlog[i] \in Peer /\ backlog[i] # p
  BY <1>3 DEF ServerInv, ServerTypes, DeadInv, BacklogFresh
<1>6. BacklogFresh'
  BY <1>1, <1>2, <1>3, <1>5 DEF DeadInv, BacklogFresh
<1> QED BY <1>4, <1>6 DEF DeadInv

LEMMA ConnectHangups ==
  ASSUME ServerInv, DeadInv, NEW p \in Peer, Connect(p) PROVE DeadInv'
<1>1. /\ peer[p] = "idle"
      /\ peer' = [peer EXCEPT ![p] = "up"]
      /\ backlog' = Append(backlog, p)
      /\ UNCHANGED <<events, current, fd, incoming_connections>>
  BY DEF Connect, idle_loop, server
<1>2. /\ peer'[p] = "up"
      /\ \A q \in Peer : q # p => peer'[q] = peer[q]
  BY <1>1 DEF ServerInv, ServerTypes
<1>3. p \notin incoming_connections /\ incoming_connections \subseteq Peer
  BY <1>1 DEF DeadInv, BacklogFresh, ServerInv, ServerTypes
<1>4. HangupsAreReal'
  BY <1>1, <1>2, <1>3, HangupsStay DEF DeadInv
<1>5. \A i \in DOMAIN backlog : backlog[i] \in Peer /\ backlog[i] # p
  <2>1. backlog \in Seq(Peer)
    BY DEF ServerInv, ServerTypes
  <2>2. \A i \in DOMAIN backlog : backlog[i] \in Peer
    BY <2>1
  <2>3. \A i \in DOMAIN backlog : backlog[i] # p
    BY <1>1 DEF DeadInv, BacklogFresh
  <2> QED BY <2>2, <2>3
<1>6. /\ backlog'[Len(backlog) + 1] = p
      /\ \A i \in DOMAIN backlog' :
           i # Len(backlog) + 1 => i \in DOMAIN backlog /\ backlog'[i] = backlog[i]
  BY <1>1 DEF ServerInv, ServerTypes
<1>7. ASSUME NEW i \in DOMAIN backlog'
      PROVE  /\ backlog'[i] \notin incoming_connections
             /\ peer'[backlog'[i]] \in {"up", "fin", "rst"}
  <2>1. CASE i = Len(backlog) + 1
    BY <1>2, <1>3, <1>6, <2>1
  <2>2. CASE i # Len(backlog) + 1
    BY <1>2, <1>5, <1>6, <2>2 DEF DeadInv, BacklogFresh
  <2> QED BY <2>1, <2>2
<1>8. \A i, j \in DOMAIN backlog' : backlog'[i] = backlog'[j] => i = j
  BY <1>5, <1>6 DEF DeadInv, BacklogFresh
<1>9. BacklogFresh'
  BY <1>1, <1>2, <1>3, <1>7, <1>8 DEF DeadInv, BacklogFresh
<1> QED BY <1>4, <1>9 DEF DeadInv

LEMMA DisconnectHangups ==
  ASSUME ServerInv, DeadInv, NEW p \in Peer, Disconnect(p) PROVE DeadInv'
<1>1. /\ peer[p] # "rst"
      /\ \E state \in {"fin", "rst"} : peer' = [peer EXCEPT ![p] = state]
      /\ UNCHANGED <<events, current, fd, incoming_connections, backlog>>
  BY DEF Disconnect, idle_loop, server
<1>2. /\ peer'[p] \in {"fin", "rst"}
      /\ \A q \in Peer : q # p => peer'[q] = peer[q]
  BY <1>1 DEF ServerInv, ServerTypes
<1>3. incoming_connections \subseteq Peer /\ backlog \in Seq(Peer)
  BY DEF ServerInv, ServerTypes
<1>4. HangupsAreReal'
  BY <1>1, <1>2, <1>3, HangupsStay DEF DeadInv
<1>5. \A i \in DOMAIN backlog : backlog[i] \in Peer
  BY <1>3
<1>6. BacklogFresh'
  BY <1>1, <1>2, <1>3, <1>5 DEF DeadInv, BacklogFresh
<1> QED BY <1>4, <1>6 DEF DeadInv

LEMMA DeadInvStep ==
  P!PollerInv /\ ServerInv /\ DeadInv /\ [Next]_vars => DeadInv'
<1> SUFFICES ASSUME P!PollerInv, ServerInv, DeadInv, [Next]_vars PROVE DeadInv'
  OBVIOUS
<1>1. ASSUME UNCHANGED <<events, current, fd, peer, backlog, incoming_connections>>
      PROVE  DeadInv'
  BY <1>1, HangupsStay DEF DeadInv, BacklogFresh
<1>2. ASSUME P!HandlerReturns({}), UNCHANGED <<peer, backlog, incoming_connections>>
      PROVE  DeadInv'
  <2>1. HangupsAreReal'
    BY <1>2, ReturnsHangups DEF DeadInv
  <2> QED BY <1>2, <2>1 DEF DeadInv, BacklogFresh
<1>3. CASE EpollWait
  BY <1>3, EpollWaitHangups
<1>4. CASE Dispatch
  BY <1>4, DispatchHangups
<1>5. CASE AcceptDone
  BY <1>5, <1>2 DEF AcceptDone, Returns, network, server
<1>6. CASE AcceptFails
  BY <1>6, AcceptFailsHangups
<1>7. ASSUME NEW p \in Peer, Admit(p) \/ Refuse(p) PROVE DeadInv'
  BY <1>7, AdmitHangups, RefuseHangups
<1>8. ASSUME NEW p \in Peer, OnOut(p) \/ OnData(p) PROVE DeadInv'
  BY <1>8, <1>2 DEF OnOut, OnData, Relay, Returns, network, server
<1>9. ASSUME NEW p \in Peer, OnClosed(p) PROVE DeadInv'
  BY <1>9, OnClosedHangups
<1>10. ASSUME NEW p \in Peer, Connect(p) \/ Disconnect(p) PROVE DeadInv'
  BY <1>10, ConnectHangups, DisconnectHangups
<1>11. ASSUME NEW p \in Peer, Arrive(p) PROVE DeadInv'
  BY <1>11, <1>1 DEF Arrive, idle_loop, server
<1>12. CASE UNCHANGED vars
  BY <1>12, <1>1 DEF vars, loop, network, server
<1> QED
  BY <1>3, <1>4, <1>5, <1>6, <1>7, <1>8, <1>9, <1>10, <1>11, <1>12
  DEF Next, Server, Network

LEMMA DeadInvariant == Spec => []DeadInv
<1>1. Init => DeadInv
  BY DEF Init, P!Init, P!Idle, DeadInv, BacklogFresh, HangupsAreReal
<1> QED
  BY <1>1, DeadInvStep, ServerHandlersOwnEvents, ServerInvariant, PTL DEF Spec

\* Whatever ends a connection in the server is an end of that connection.
LEMMA OnClosedIsDeath ==
  ASSUME P!PollerInv, ServerInv, DeadInv, NEW p \in Peer, OnClosed(p)
  PROVE  peer[p] \in {"fin", "rst"}
<1>1. PICK bit \in Ending(p) : P!Handling(p, bit)
  BY DEF OnClosed
<1>2. p \in incoming_connections /\ current.sub = p
  BY <1>1 DEF P!Handling, P!Exists, ServerInv, Members
<1>3. CASE bit = "IN"
  BY <1>1, <1>3 DEF Ending
<1>4. CASE bit \in HangUp
  <2>1. bit \in current.bits
    <3>1. current.bits \subseteq P!Bits /\ current.bits # {}
      BY <1>1 DEF P!Handling, P!PollerInv, P!TypeOK
    <3> QED BY <1>1, <3>1 DEF P!Handling, P!NextBit, P!Bits
  <2> QED BY <1>2, <1>4, <2>1 DEF DeadInv, HangupsAreReal
<1> QED BY <1>1, <1>3, <1>4 DEF Ending, HangUp

(***************************************************************************)
(* A client is only ever removed when its own connection has ended:        *)
(* neither a stale event nor the end of another connection whose           *)
(* descriptor it took over can remove it (Server.cpp:54-69,                *)
(* TcpSocket.cpp:72-126).                                                  *)
(***************************************************************************)
THEOREM ServerOnlyDeadPeersRemoved == Spec => OnlyDeadPeersRemoved
<1>1. P!PollerInv /\ ServerInv /\ DeadInv /\ [Next]_vars =>
        [\A p \in incoming_connections \ incoming_connections' :
           peer[p] \in {"fin", "rst"}]_vars
  <2> SUFFICES ASSUME P!PollerInv, ServerInv, DeadInv, Next,
                      NEW p \in incoming_connections,
                      p \notin incoming_connections'
               PROVE  peer[p] \in {"fin", "rst"}
    OBVIOUS
  <2>1. \E q \in Peer : OnClosed(q)
    BY DEF Next, Server, Network, EpollWait, Dispatch, AcceptDone, AcceptFails,
           Admit, Refuse, OnOut, OnData, Relay, Connect, Arrive, Disconnect,
           server
  <2>2. PICK q \in Peer : OnClosed(q)
    BY <2>1
  <2>3. q = p
    BY <2>2 DEF OnClosed, RemoveClient
  <2> QED BY <2>2, <2>3, OnClosedIsDeath
<1> QED
  BY <1>1, DeadInvariant, ServerHandlersOwnEvents, ServerInvariant, PTL
  DEF Spec, OnlyDeadPeersRemoved

-----------------------------------------------------------------------------
(* The server implements the room of module ChatRoom, so that what         *)
(* ChatRoomProofs proves of the room holds of the server.                  *)

\* Who has not been accepted has no nick name yet, and nobody writes more
\* than it has.
Newcomers ==
  /\ \A p \in Peer : peer[p] = "idle" => nick[p] = 0
  /\ \A i \in DOMAIN backlog : nick[backlog[i]] = 0
  /\ \A p \in Peer : sent[p] <= Halves[p]

\* Steps that give no nick name and put nobody into the backlog.
LEMMA NewcomersStay ==
  ASSUME ServerInv, Newcomers, UNCHANGED <<nick, sent>>,
         \A p \in Peer : peer'[p] = "idle" => peer[p] = "idle",
         backlog' = backlog \/ (backlog # <<>> /\ backlog' = Tail(backlog))
  PROVE  Newcomers'
<1>1. \A i \in DOMAIN backlog' : \E j \in DOMAIN backlog : backlog'[i] = backlog[j]
  <2>1. backlog \in Seq(Peer)
    BY DEF ServerInv, ServerTypes
  <2>2. CASE backlog' = backlog
    BY <2>2
  <2>3. CASE backlog # <<>> /\ backlog' = Tail(backlog)
    <3>1. \A i \in DOMAIN backlog' : i + 1 \in DOMAIN backlog /\ backlog'[i] = backlog[i + 1]
      BY <2>1, <2>3
    <3> QED BY <3>1
  <2> QED BY <2>2, <2>3
<1> QED BY <1>1 DEF Newcomers

LEMMA AdmitNewcomers ==
  ASSUME ServerInv, DeadInv, Newcomers, NEW p \in Peer, Admit(p)
  PROVE  Newcomers'
<1>1. /\ backlog # <<>> /\ p = Head(backlog) /\ backlog' = Tail(backlog)
      /\ nick' = [nick EXCEPT ![p] = incoming_connections_counter + 1]
      /\ UNCHANGED <<peer, sent>>
  BY DEF Admit, Accepting
<1>2. \A q \in Peer : q # p => nick'[q] = nick[q]
  BY <1>1 DEF ServerInv, ServerTypes
<1>3. peer[p] # "idle"
  BY <1>1, BacklogTail DEF DeadInv
<1>4. \A i \in DOMAIN backlog' : nick'[backlog'[i]] = 0
  <2> SUFFICES ASSUME NEW i \in DOMAIN backlog' PROVE nick'[backlog'[i]] = 0
    OBVIOUS
  <2>1. backlog'[i] # p /\ backlog'[i] \in Peer
    BY <1>1, BacklogTail DEF DeadInv
  <2>2. i + 1 \in DOMAIN backlog /\ backlog'[i] = backlog[i + 1]
    <3>1. backlog \in Seq(Peer)
      BY DEF ServerInv, ServerTypes
    <3> QED BY <1>1, <3>1
  <2> QED BY <1>2, <2>1, <2>2 DEF Newcomers
<1> QED BY <1>1, <1>2, <1>3, <1>4 DEF Newcomers

LEMMA ConnectNewcomers ==
  ASSUME ServerInv, Newcomers, NEW p \in Peer, Connect(p)
  PROVE  Newcomers'
<1>1. /\ peer[p] = "idle" /\ peer' = [peer EXCEPT ![p] = "up"]
      /\ backlog' = Append(backlog, p)
      /\ UNCHANGED <<nick, sent>>
  BY DEF Connect, server
<1>2. nick[p] = 0 /\ \A q \in Peer : peer'[q] = "idle" => peer[q] = "idle"
  BY <1>1 DEF Newcomers, ServerInv, ServerTypes
<1>3. \A i \in DOMAIN backlog' :
        backlog'[i] = p \/ (i \in DOMAIN backlog /\ backlog'[i] = backlog[i])
  <2>1. backlog \in Seq(Peer)
    BY DEF ServerInv, ServerTypes
  <2> QED BY <1>1, <2>1
<1> QED BY <1>1, <1>2, <1>3 DEF Newcomers

LEMMA ArriveNewcomers ==
  ASSUME ServerInv, Newcomers, NEW p \in Peer, Arrive(p)
  PROVE  Newcomers'
<1>1. /\ sent[p] < Halves[p] /\ sent' = [sent EXCEPT ![p] = @ + 1]
      /\ UNCHANGED <<nick, peer, backlog>>
  BY DEF Arrive, server
<1>2. \A q \in Peer : sent'[q] <= Halves[q]
  BY <1>1 DEF Newcomers, ServerInv, ServerTypes
<1> QED BY <1>1, <1>2 DEF Newcomers

LEMMA NewcomersStep ==
  ServerInv /\ DeadInv /\ Newcomers /\ [Next]_vars => Newcomers'
<1> SUFFICES ASSUME ServerInv, DeadInv, Newcomers, [Next]_vars PROVE Newcomers'
  OBVIOUS
<1>1. ASSUME UNCHANGED <<nick, sent, peer, backlog>> PROVE Newcomers'
  BY <1>1 DEF Newcomers
<1>2. CASE EpollWait \/ Dispatch \/ AcceptDone
  BY <1>1, <1>2 DEF EpollWait, Dispatch, AcceptDone, network, server
<1>3. CASE AcceptFails
  BY <1>3, NewcomersStay DEF AcceptFails, server
<1>4. ASSUME NEW p \in Peer, Admit(p) PROVE Newcomers'
  BY <1>4, AdmitNewcomers
<1>5. ASSUME NEW p \in Peer, Refuse(p) PROVE Newcomers'
  <2>1. /\ backlog # <<>> /\ backlog' = Tail(backlog)
        /\ peer' = [peer EXCEPT ![p] = "gone"]
        /\ UNCHANGED <<nick, sent>>
    BY <1>5 DEF Refuse, Accepting, server
  <2>2. \A q \in Peer : peer'[q] = "idle" => peer[q] = "idle"
    BY <2>1 DEF ServerInv, ServerTypes
  <2> QED BY <2>1, <2>2, NewcomersStay
<1>6. ASSUME NEW p \in Peer, OnOut(p) \/ OnData(p) PROVE Newcomers'
  BY <1>1, <1>6 DEF OnOut, OnData, Relay, network, server
<1>7. ASSUME NEW p \in Peer, OnClosed(p) PROVE Newcomers'
  <2>1. /\ peer' = [peer EXCEPT ![p] = "gone"]
        /\ UNCHANGED <<nick, sent, backlog>>
    BY <1>7 DEF OnClosed, RemoveClient
  <2>2. \A q \in Peer : peer'[q] = "idle" => peer[q] = "idle"
    BY <2>1 DEF ServerInv, ServerTypes
  <2> QED BY <2>1, <2>2, NewcomersStay
<1>8. ASSUME NEW p \in Peer, Connect(p) \/ Arrive(p) PROVE Newcomers'
  BY <1>8, ConnectNewcomers, ArriveNewcomers
<1>9. ASSUME NEW p \in Peer, Disconnect(p) PROVE Newcomers'
  <2>1. /\ \E state \in {"fin", "rst"} : peer' = [peer EXCEPT ![p] = state]
        /\ UNCHANGED <<nick, sent, backlog>>
    BY <1>9 DEF Disconnect, server
  <2>2. \A q \in Peer : peer'[q] = "idle" => peer[q] = "idle"
    BY <2>1 DEF ServerInv, ServerTypes
  <2> QED BY <2>1, <2>2, NewcomersStay
<1>10. CASE UNCHANGED vars
  BY <1>1, <1>10 DEF vars, network, server
<1> QED BY <1>2, <1>3, <1>4, <1>5, <1>6, <1>7, <1>8, <1>9, <1>10
        DEF Next, Server, Network

-----------------------------------------------------------------------------
(* Steps of the server and steps of the room.                              *)

LEMMA SameSend ==
  ASSUME NEW targets, NEW msgs, Send(targets, msgs) PROVE R!Send(targets, msgs)
BY DEF Send, R!Send, Lost, R!Lost

LEMMA SameCardinality == \A S : R!Cardinality(S) = Cardinality(S)
BY DEF Cardinality, R!Cardinality

LEMMA AdmitIsJoin ==
  ASSUME ServerInv, DeadInv, Newcomers, NEW p \in Peer, Admit(p) PROVE R!Join(p)
<1> DEFINE members == incoming_connections \union {p}
<1>1. /\ backlog # <<>> /\ p = Head(backlog)
      /\ Cardinality(incoming_connections) < Limit
      /\ incoming_connections' = members
      /\ incoming_connections_counter' = incoming_connections_counter + 1
      /\ nick' = [nick EXCEPT ![p] = incoming_connections_counter']
      /\ Send(members, <<Info(Cardinality(members))>>)
      /\ UNCHANGED taken
  BY DEF Admit, Accepting
<1>2. nick[p] = 0
  <2>1. backlog \in Seq(Peer)
    BY DEF ServerInv, ServerTypes
  <2>2. 1 \in DOMAIN backlog /\ backlog[1] = p
    BY <1>1, <2>1
  <2> QED BY <2>2 DEF Newcomers
<1>3. R!Send(incoming_connections', <<R!Info(R!Cardinality(incoming_connections'))>>)
  <2>1. R!Send(members, <<Info(Cardinality(members))>>)
    BY <1>1, SameSend
  <2>2. \A n : R!Info(n) = Info(n)
    BY DEF Info, R!Info
  <2> QED BY <1>1, <2>1, <2>2, SameCardinality
<1>4. R!Cardinality(incoming_connections) < Limit
  BY <1>1, SameCardinality
<1> QED BY <1>1, <1>2, <1>3, <1>4 DEF R!Join

LEMMA OnClosedIsDepart ==
  ASSUME ServerInv, NEW p \in Peer, OnClosed(p) PROVE R!Depart(p)
<1> DEFINE members == incoming_connections \ {p}
<1>1. /\ incoming_connections' = members
      /\ Send(members, <<Info(Cardinality(members)), Leave(nick[p])>>)
      /\ UNCHANGED <<taken, incoming_connections_counter, nick>>
      /\ p \in subscribers
  BY DEF OnClosed, RemoveClient, P!Handling, P!Exists
<1>2. p \in incoming_connections
  BY <1>1 DEF ServerInv, Members
<1>3. R!Send(incoming_connections',
             <<R!Info(R!Cardinality(incoming_connections')), R!Leave(nick[p])>>)
  <2>1. R!Send(members, <<Info(Cardinality(members)), Leave(nick[p])>>)
    BY <1>1, SameSend
  <2>2. \A n : R!Info(n) = Info(n) /\ R!Leave(n) = Leave(n)
    BY DEF Info, R!Info, Leave, R!Leave
  <2> QED BY <1>1, <2>1, <2>2, SameCardinality
<1> QED BY <1>1, <1>2, <1>3 DEF R!Depart

\* A read that completes no text goes unnoticed.
LEMMA SendNothing ==
  ASSUME ServerTypes, NEW targets, NEW msgs, msgs = <<>>, Send(targets, msgs)
  PROVE  outbox' = outbox
<1>1. PICK lost \in SUBSET ((targets \intersect Slow) \X DOMAIN msgs) :
        outbox' = [q \in Peer |->
                     IF q \in targets
                     THEN outbox[q] \o [i \in DOMAIN msgs |->
                            IF <<q, i>> \in lost THEN Lost ELSE msgs[i]]
                     ELSE outbox[q]]
  BY DEF Send
<1>2. ASSUME NEW q \in Peer
      PROVE  outbox[q] \o [i \in DOMAIN msgs |->
               IF <<q, i>> \in lost THEN Lost ELSE msgs[i]] = outbox[q]
  <2>1. [i \in DOMAIN msgs |-> IF <<q, i>> \in lost THEN Lost ELSE msgs[i]] = <<>>
    OBVIOUS
  <2>2. outbox[q] \in Seq(Message)
    BY DEF ServerTypes
  <2> QED BY <2>1, <2>2
<1>3. outbox' = [q \in Peer |-> outbox[q]]
  BY <1>1, <1>2
<1> QED BY <1>3 DEF ServerTypes

LEMMA OnDataIsSay ==
  ASSUME ServerInv, Newcomers, NEW p \in Peer, OnData(p) PROVE [R!Next]_(R!vars)
<1> DEFINE k == sent[p] \div 2 - taken[p] \div 2
           texts == [i \in 1..k |-> Text(nick[p], taken[p] \div 2 + i)]
           said == [q \in Peer |-> taken[q] \div 2]
<1>1. /\ taken' = [taken EXCEPT ![p] = sent[p]]
      /\ Send(incoming_connections \ {p}, texts)
      /\ UNCHANGED <<incoming_connections, incoming_connections_counter, nick>>
      /\ p \in subscribers
  BY DEF OnData, Relay, Complete, P!Handling, P!Exists
<1>2. p \in incoming_connections
  BY <1>1 DEF ServerInv, Members
<1>3. /\ taken[p] \in Nat /\ sent[p] \in Nat /\ Halves[p] \in Nat
      /\ taken[p] <= sent[p] /\ sent[p] <= Halves[p]
  BY DEF ServerInv, ServerTypes, ReadArrived, Newcomers
<1>4. k \in 0..(Halves[p] \div 2 - taken[p] \div 2)
  BY <1>3
<1>5. \A q \in Peer : taken'[q] = IF q = p THEN sent[p] ELSE taken[q]
  BY <1>1 DEF ServerInv, ServerTypes
<1>6. said' = [said EXCEPT ![p] = @ + k]
  <2>1. sent[p] \div 2 = taken[p] \div 2 + k
    BY <1>3
  <2>2. \A q \in Peer : said'[q] = IF q = p THEN taken[p] \div 2 + k ELSE said[q]
    BY <1>5, <2>1
  <2> HIDE DEF k
  <2> QED BY <2>2
<1> HIDE DEF k
<1>7. CASE k = 0
  <2>1. texts = <<>>
    BY <1>7
  <2>2. outbox' = outbox
    BY <1>1, <2>1, SendNothing DEF ServerInv
  <2>3. said' = said
    <3>1. sent[p] \div 2 = taken[p] \div 2
      BY <1>3, <1>7 DEF k
    <3>2. \A q \in Peer : taken'[q] \div 2 = taken[q] \div 2
      BY <1>5, <3>1
    <3> QED BY <3>2
  <2> QED BY <1>1, <2>2, <2>3 DEF R!vars
<1>8. CASE k # 0
  <2>1. k \in 1..([q \in Peer |-> Halves[q] \div 2][p] - said[p])
    BY <1>3, <1>4, <1>8
  <2>2. texts = [i \in 1..k |-> R!Text(nick[p], said[p] + i)]
    BY DEF Text, R!Text
  <2>3. R!Send(incoming_connections \ {p},
               [i \in 1..k |-> R!Text(nick[p], said[p] + i)])
    BY <1>1, <2>2, SameSend
  <2>4. R!Say(p)
    BY <1>1, <1>2, <1>6, <2>1, <2>3 DEF R!Say
  <2> QED BY <2>4 DEF R!Next
<1> QED BY <1>7, <1>8

LEMMA RoomStep ==
  ServerInv /\ DeadInv /\ Newcomers /\ [Next]_vars => [R!Next]_(R!vars)
<1> SUFFICES ASSUME ServerInv, DeadInv, Newcomers, [Next]_vars
             PROVE  [R!Next]_(R!vars)
  OBVIOUS
<1>1. ASSUME UNCHANGED server PROVE UNCHANGED R!vars
  BY <1>1 DEF server, R!vars
<1>2. CASE EpollWait \/ Dispatch \/ AcceptDone \/ AcceptFails
  BY <1>1, <1>2 DEF EpollWait, Dispatch, AcceptDone, AcceptFails
<1>3. ASSUME NEW p \in Peer, Admit(p) PROVE R!Next
  BY <1>3, AdmitIsJoin DEF R!Next
<1>4. ASSUME NEW p \in Peer, Refuse(p) \/ OnOut(p) PROVE UNCHANGED R!vars
  BY <1>1, <1>4 DEF Refuse, OnOut
<1>5. ASSUME NEW p \in Peer, OnData(p) PROVE [R!Next]_(R!vars)
  BY <1>5, OnDataIsSay
<1>6. ASSUME NEW p \in Peer, OnClosed(p) PROVE R!Next
  BY <1>6, OnClosedIsDepart DEF R!Next
<1>7. CASE Network
  BY <1>1, <1>7 DEF Network, Connect, Arrive, Disconnect
<1>8. CASE UNCHANGED vars
  BY <1>1, <1>8 DEF vars
<1> QED BY <1>2, <1>3, <1>4, <1>5, <1>6, <1>7, <1>8 DEF Next, Server

(***************************************************************************)
(* The server is the room to its clients: what it does on an event of one  *)
(* of its sockets is one that came, one that spoke or one that left, or    *)
(* nothing they notice (Server.cpp:21-83).                                 *)
(***************************************************************************)
THEOREM ServerKeepsRoomContract == Spec => RoomContract
<1>1. Init => R!Init
  <2> SUFFICES ASSUME Init PROVE R!Init
    OBVIOUS
  <2>1. [p \in Peer |-> taken[p] \div 2] = [p \in Peer |-> 0]
    BY DEF Init
  <2> QED BY <2>1 DEF Init, R!Init
<1>2. Init => Newcomers
  BY DEF Init, Newcomers
<1> QED
  BY <1>1, <1>2, NewcomersStep, RoomStep, DeadInvariant, ServerInvariant, PTL
  DEF Spec, RoomContract, R!Spec

-----------------------------------------------------------------------------
(* What ChatRoomProofs proves of the room holds of the server.             *)

RP == INSTANCE ChatRoomProofs WITH
        Client <- Peer,
        Texts <- [p \in Peer |-> Halves[p] \div 2],
        Deaf <- Slow,
        members <- incoming_connections,
        joined <- incoming_connections_counter,
        said <- [p \in Peer |-> taken[p] \div 2],
        inbox <- outbox

LEMMA ServerRoom == RP!RoomAssumption
BY DEF RP!RoomAssumption

LEMMA SameRoom == Spec => RP!Spec
<1>1. R!Init => RP!Init
  BY DEF R!Init, RP!Init
<1>2. [R!Next]_(R!vars) => [RP!Next]_(RP!vars)
  <2>1. \A S : R!Cardinality(S) = RP!Cardinality(S)
    BY DEF R!Cardinality, RP!Cardinality
  <2>2. /\ \A targets, msgs : R!Send(targets, msgs) => RP!Send(targets, msgs)
        /\ \A n : R!Info(n) = RP!Info(n) /\ R!Leave(n) = RP!Leave(n)
    BY DEF R!Send, RP!Send, R!Lost, RP!Lost, R!Info, RP!Info, R!Leave, RP!Leave
  <2>3. ASSUME NEW p, R!Join(p) PROVE RP!Join(p)
    <3>1. /\ nick[p] = 0
          /\ R!Cardinality(incoming_connections) < Limit
          /\ R!Send(incoming_connections',
                    <<R!Info(R!Cardinality(incoming_connections'))>>)
      BY <2>3 DEF R!Join
    <3>2. /\ RP!Cardinality(incoming_connections) < Limit
          /\ RP!Send(incoming_connections',
                     <<RP!Info(RP!Cardinality(incoming_connections'))>>)
      BY <2>1, <2>2, <3>1
    <3> QED BY <2>3, <3>2 DEF R!Join, RP!Join
  <2>4. \A p : R!Say(p) => RP!Say(p)
    BY DEF R!Say, RP!Say, R!Send, RP!Send, R!Text, RP!Text, R!Lost, RP!Lost
  <2>5. ASSUME NEW p, R!Depart(p) PROVE RP!Depart(p)
    <3>1. R!Send(incoming_connections',
                 <<R!Info(R!Cardinality(incoming_connections')), R!Leave(nick[p])>>)
      BY <2>5 DEF R!Depart
    <3>2. RP!Send(incoming_connections',
                  <<RP!Info(RP!Cardinality(incoming_connections')),
                    RP!Leave(nick[p])>>)
      BY <2>1, <2>2, <3>1
    <3> QED BY <2>5, <3>2 DEF R!Depart, RP!Depart
  <2> QED BY <2>3, <2>4, <2>5 DEF R!Next, RP!Next, R!vars, RP!vars
<1> QED BY <1>1, <1>2, ServerKeepsRoomContract, PTL DEF RoomContract, R!Spec, RP!Spec

(***************************************************************************)
(* A client whose sends succeed was last told the number of clients there  *)
(* are now, after every event (Server.cpp:71-76).                          *)
(***************************************************************************)
THEOREM ServerCountIsCurrent == Spec => []CountIsCurrent
<1>1. RP!CountIsCurrent => CountIsCurrent
  <2>1. \A S : R!Cardinality(S) = RP!Cardinality(S)
    BY DEF R!Cardinality, RP!Cardinality
  <2> QED BY <2>1 DEF CountIsCurrent, R!CountIsCurrent, RP!CountIsCurrent,
                      R!LastCountIs, RP!LastCountIs, R!Info, RP!Info
<1>2. RP!Spec => []RP!CountIsCurrent
  BY ServerRoom, RP!RoomCountIsCurrent
<1> QED BY <1>1, <1>2, SameRoom, PTL

(***************************************************************************)
(* The counts and leave messages a client gets agree, whatever happens to  *)
(* whose connection (Server.cpp:58-83).                                    *)
(***************************************************************************)
THEOREM ServerLeavesMatchCounts == Spec => []LeavesMatchCounts
<1>1. RP!LeavesMatchCounts => LeavesMatchCounts
  BY DEF LeavesMatchCounts, R!LeavesMatchCounts, RP!LeavesMatchCounts,
         R!CountsMatch, RP!CountsMatch, R!CountsFollow, RP!CountsFollow,
         R!Infos, RP!Infos
<1>2. RP!Spec => []RP!LeavesMatchCounts
  BY ServerRoom, RP!RoomLeavesMatchCounts
<1> QED BY <1>1, <1>2, SameRoom, PTL

(***************************************************************************)
(* A client's leave message is the last the others get of it               *)
(* (Server.cpp:58-69, 78-83).                                              *)
(***************************************************************************)
THEOREM ServerLeaveIsFinal == Spec => []LeaveIsFinal
<1>1. RP!LeaveIsFinal => LeaveIsFinal
  BY DEF LeaveIsFinal, R!LeaveIsFinal, RP!LeaveIsFinal
<1>2. RP!Spec => []RP!LeaveIsFinal
  BY ServerRoom, RP!RoomLeaveIsFinal
<1> QED BY <1>1, <1>2, SameRoom, PTL

(***************************************************************************)
(* A client whose sends succeed gets the texts of the others complete, in  *)
(* order, and never an echo (Server.cpp:45-52, Parser.cpp:64-82).          *)
(***************************************************************************)
THEOREM ServerTextsInOrder == Spec => []TextsInOrder
<1>1. RP!TextsInOrder => TextsInOrder
  <2>1. \A p, q : R!TextsAt(p, q) = RP!TextsAt(p, q)
    BY DEF R!TextsAt, RP!TextsAt
  <2>2. \A p, q : R!Heard(p, q) = RP!Heard(p, q)
    BY <2>1 DEF R!Heard, RP!Heard
  <2> QED BY <2>1, <2>2 DEF TextsInOrder, R!TextsInOrder, RP!TextsInOrder,
                            R!HeardInOrder, RP!HeardInOrder
<1>2. RP!Spec => []RP!TextsInOrder
  BY ServerRoom, RP!RoomTextsInOrder
<1> QED BY <1>1, <1>2, SameRoom, PTL
=============================================================================

-------------------------- MODULE ChatClientProofs --------------------------
(***************************************************************************)
(* The client is an instance of the event loop of module Poller, so that   *)
(* what PollerProofs proves of the loop holds of the client; on top of it, *)
(* the objects of the client come and go together, the user is told one    *)
(* reason at most, and lines are sent in order.                            *)
(***************************************************************************)
EXTENDS ChatClient, TLAPS

USE ClientAssumption

\* What the refinement needs to know of the client's state.
StopType == is_stopped \in BOOLEAN
ReadyKnown == ready \subseteq Sub
ConnType == conn \in {"connecting", "failed", "up", "fin", "rst"}

Shape == StopType /\ ReadyKnown /\ ConnType

-----------------------------------------------------------------------------
(* The client implements the event loop.                                   *)

LEMMA MaskFact == ConnType => \A s \in Sub : Mask(s) \in Masks
<1> SUFFICES ASSUME ConnType, NEW s \in Sub PROVE Mask(s) \in Masks
  OBVIOUS
<1>1. CASE s = Sock
  <2>1. Mask(s) \in {{}, {"OUT"}, {"OUT", "IN"}, {"IN", "OUT", "HUP", "ERR"}}
    BY <1>1 DEF Mask, ConnType
  <2> QED BY <2>1 DEF Masks
<1>2. CASE s = Timer
  BY <1>2 DEF Mask, Masks
<1>3. CASE s = Stdin
  <2>1. Mask(s) \in {{"OUT"}, {"IN", "OUT"}, {"IN", "OUT", "HUP", "ERR"}}
    BY <1>3 DEF Mask
  <2> QED BY <2>1 DEF Masks
<1> QED BY <1>1, <1>2, <1>3 DEF Sub

LEMMA EpollWaitStep == Shape /\ EpollWait => P!Next
<1> SUFFICES ASSUME Shape, EpollWait PROVE P!Next
  OBVIOUS
<1> DEFINE mask == [s \in ready |-> Mask(s)]
<1>1. mask \in [ready -> Masks \union {{}}]
  BY MaskFact DEF Shape, ReadyKnown
<1>2. P!EpollWait(mask)
  BY DEF EpollWait
<1> QED BY <1>1, <1>2 DEF P!Next, P!Run

LEMMA WakeStep ==
  ASSUME NEW s \in Sub, P!Wake({s}), UNCHANGED idle_loop
  PROVE  [P!Next]_(P!vars)
<1>1. CASE s \in subscribers
  <2>1. P!Kernel(s)
    BY <1>1 DEF P!Kernel, idle_loop
  <2> QED BY <2>1 DEF P!Next
<1>2. CASE s \notin subscribers
  BY <1>2 DEF P!Wake, P!vars, idle_loop
<1> QED BY <1>1, <1>2

\* A handler that returns is a step of the loop.
LEMMA HandlerStep ==
  ASSUME NEW s \in Sub, NEW bit \in P!Bits, P!Handling(s, bit),
         NEW closed \in SUBSET ({Sock, Timer} \intersect subscribers),
         NEW stop \in BOOLEAN,
         P!HandlerReturns(closed),
         is_stopped' = (is_stopped \/ stop), UNCHANGED running
  PROVE  P!Next
<1>1. closed \in SUBSET ([t \in Sub |-> {Sock, Timer}][s] \intersect subscribers)
  OBVIOUS
<1>2. P!Handler(s)
  BY <1>1 DEF P!Handler
<1> QED BY <1>2 DEF P!Next, P!Run

LEMMA ReturnsStep ==
  ASSUME Shape, NEW s \in Sub, NEW bit \in P!Bits, P!Handling(s, bit), Returns
  PROVE  P!Next
<1>1. is_stopped' = (is_stopped \/ FALSE) /\ UNCHANGED running
  BY DEF Returns, Shape, StopType
<1>2. P!HandlerReturns({})
  BY DEF Returns
<1> QED BY <1>1, <1>2, HandlerStep

LEMMA CloseClientStep ==
  ASSUME NEW s \in Sub, NEW bit \in P!Bits, P!Handling(s, bit), CloseClient
  PROVE  P!Next
<1>1. is_stopped' = (is_stopped \/ TRUE) /\ UNCHANGED running
  BY DEF CloseClient
<1>2. P!HandlerReturns({Sock, Timer} \intersect subscribers)
  BY DEF CloseClient
<1> QED BY <1>1, <1>2, HandlerStep

LEMMA NextStep == Shape /\ [Next]_vars => [P!Next]_(P!vars)
<1> SUFFICES ASSUME Shape, [Next]_vars PROVE [P!Next]_(P!vars)
  OBVIOUS
<1> USE DEF P!Bits, Sub
<1>1. CASE EpollWait
  BY <1>1, EpollWaitStep
<1>2. CASE Dispatch \/ Return
  BY <1>2 DEF Dispatch, Return, P!Next, P!Run
<1>3. CASE ConnectSucceeds
  <2>1. is_stopped' = (is_stopped \/ FALSE) /\ UNCHANGED running
    BY <1>3 DEF ConnectSucceeds, Shape, StopType
  <2>2. P!HandlerReturns({Timer} \intersect subscribers) /\ P!Handling(Sock, "OUT")
    BY <1>3 DEF ConnectSucceeds
  <2> QED BY <2>1, <2>2, HandlerStep
<1>4. CASE ConnectFails
  <2>1. P!Handling(Sock, "OUT") /\ CloseClient
    BY <1>4 DEF ConnectFails, ConnectionEnds
  <2> QED BY <2>1, CloseClientStep
<1>5. ASSUME NEW s \in Sub, OnOut(s) PROVE P!Next
  <2>1. P!Handling(s, "OUT") /\ Returns
    BY <1>5 DEF OnOut
  <2> QED BY <2>1, ReturnsStep
<1>6. CASE OnData
  <2>1. P!Handling(Sock, "IN") /\ Returns
    BY <1>6 DEF OnData
  <2> QED BY <2>1, ReturnsStep
<1>7. CASE OnClosed
  <2>1. PICK bit \in P!Bits : P!Handling(Sock, bit)
    BY <1>7 DEF OnClosed
  <2>2. CloseClient
    BY <1>7 DEF OnClosed, ConnectionEnds
  <2> QED BY <2>1, <2>2, CloseClientStep
<1>8. CASE OnTimeout
  <2>1. P!Handling(Timer, "IN") /\ CloseClient
    BY <1>8 DEF OnTimeout, ConnectionEnds
  <2> QED BY <2>1, CloseClientStep
<1>9. CASE OnMessageRead \/ OnMessageReadNull
  <2>1. P!Handling(Stdin, "IN") /\ Returns
    BY <1>9 DEF OnMessageRead, OnMessageReadNull
  <2> QED BY <2>1, ReturnsStep
<1>10. CASE OnReaderClosed
  <2>1. PICK bit \in P!Bits : P!Handling(Stdin, bit)
    BY <1>10 DEF OnReaderClosed
  <2>2. CloseClient
    BY <1>10 DEF OnReaderClosed
  <2> QED BY <2>1, <2>2, CloseClientStep
<1>11. CASE Kernel
  <2>1. UNCHANGED idle_loop /\ \E s \in Sub : P!Wake({s})
    BY <1>11 DEF Kernel, Established, Failed, PeerCloses, PeerResets,
                 ConnChanges, Arrive, Expire, TypeLine, EndInput
  <2> QED BY <2>1, WakeStep
<1>12. CASE UNCHANGED vars
  BY <1>12 DEF vars, loop, P!vars
<1> QED
  BY <1>1, <1>2, <1>3, <1>4, <1>5, <1>6, <1>7, <1>8, <1>9, <1>10, <1>11, <1>12
  DEF Next, Client

LEMMA ShapeStep == Shape /\ [Next]_vars => Shape'
<1> SUFFICES ASSUME Shape, [Next]_vars PROVE Shape'
  OBVIOUS
<1> USE DEF Shape, StopType, ReadyKnown, ConnType
<1>1. CASE EpollWait
  BY <1>1 DEF EpollWait, kernel, P!EpollWait
<1>2. CASE Dispatch \/ Return
  BY <1>2 DEF Dispatch, Return, kernel, P!Notify, P!Skip, P!Return
<1>3. ASSUME UNCHANGED conn, Returns \/ CloseClient PROVE Shape'
  BY <1>3 DEF Returns, CloseClient, P!HandlerReturns
<1>4. CASE ConnectSucceeds
  BY <1>4 DEF ConnectSucceeds, P!HandlerReturns, kernel
<1>5. CASE ConnectFails \/ OnClosed \/ OnTimeout \/ OnReaderClosed
  BY <1>5, <1>3 DEF ConnectFails, OnClosed, OnTimeout, OnReaderClosed,
                    ConnectionEnds, kernel
<1>6. CASE (\E s \in Sub : OnOut(s)) \/ OnData \/ OnMessageRead \/ OnMessageReadNull
  BY <1>6, <1>3 DEF OnOut, OnData, OnMessageRead, OnMessageReadNull, kernel
<1>7. CASE Kernel
  <2>1. UNCHANGED is_stopped /\ \E s \in Sub : P!Wake({s})
    BY <1>7 DEF Kernel, Established, Failed, PeerCloses, PeerResets, Sub,
                ConnChanges, Arrive, Expire, TypeLine, EndInput, idle_loop
  <2>2. ready' \subseteq Sub
    BY <2>1 DEF P!Wake
  <2>3. ConnType'
    BY <1>7 DEF Kernel, Established, Failed, PeerCloses, PeerResets,
                ConnChanges, Arrive, Expire, TypeLine, EndInput
  <2> QED BY <2>1, <2>2, <2>3
<1>8. CASE UNCHANGED vars
  BY <1>8 DEF vars, loop, kernel
<1> QED
  BY <1>1, <1>2, <1>4, <1>5, <1>6, <1>7, <1>8 DEF Next, Client

LEMMA InitShape == Init => P!Init /\ Shape
BY DEF Init, P!Init, Shape, StopType, ReadyKnown, ConnType

LEMMA ShapeInvariant == Spec => []Shape
BY InitShape, ShapeStep, PTL DEF Spec

(***************************************************************************)
(* Every behaviour of the client is one of the event loop with the         *)
(* client's discipline (Poller.cpp:59-112): the run client_safety checks   *)
(* it for four lines and three messages.                                   *)
(***************************************************************************)
THEOREM ClientKeepsPollerContract == Spec => PollerContract
BY InitShape, NextStep, ShapeStep, PTL DEF Spec, PollerContract, P!Spec

-----------------------------------------------------------------------------
(* What PollerProofs proves of the loop holds of the client.               *)

PP == INSTANCE PollerProofs WITH
        Start <- Sub,
        Opens <- {},
        Closes <- [s \in Sub |-> {Sock, Timer}]

LEMMA ClientDiscipline == PP!PollerAssumption
BY DEF PP!PollerAssumption, PP!Bits, PP!Disciplined, Masks, Sub

(***************************************************************************)
(* In the client, too, a handler only ever runs for an event of the object *)
(* it is called on, although handlers destroy each other's objects         *)
(* (Poller.cpp:95-126).                                                    *)
(***************************************************************************)
THEOREM ClientHandlersOwnEvents == Spec => []P!PollerInv
<1>1. P!Init => PP!Init
  BY DEF P!Init, PP!Init, P!Idle, PP!Idle
<1>2. [P!Next]_(P!vars) => [PP!Next]_(PP!vars)
  <2>1. \A mask : P!EpollWait(mask) => PP!EpollWait(mask)
    BY DEF P!EpollWait, PP!EpollWait, P!Between, PP!Between,
           P!Cardinality, PP!Cardinality
  <2>2. P!Notify => PP!Notify
    BY DEF P!Notify, PP!Notify, P!Between, PP!Between,
           P!Lookup, PP!Lookup, P!Open, PP!Open
  <2>3. (P!Skip => PP!Skip) /\ (P!Return => PP!Return)
    BY DEF P!Skip, PP!Skip, P!Return, PP!Return, P!Exists, PP!Exists,
           P!Idle, PP!Idle, P!Between, PP!Between
  <2>4. \A s, bit : P!Handling(s, bit) => PP!Handling(s, bit)
    BY DEF P!Handling, PP!Handling, P!Exists, PP!Exists, P!NextBit, PP!NextBit
  <2>5. \A closed : P!HandlerReturns(closed) => PP!HandlerReturns(closed)
    BY DEF P!HandlerReturns, PP!HandlerReturns, P!NextBit, PP!NextBit,
           P!Unsubscribed, PP!Unsubscribed, P!Idle, PP!Idle
  <2>6. \A n, f : P!Subscribe(n, f) => PP!Subscribe(n, f)
    BY DEF P!Subscribe, PP!Subscribe, P!Open, PP!Open
  <2>7. \A s : P!Handler(s) => PP!Handler(s)
    BY <2>4, <2>5, <2>6 DEF P!Handler, PP!Handler, P!Bits, PP!Bits
  <2>8. \A s : P!Kernel(s) => PP!Kernel(s)
    BY DEF P!Kernel, PP!Kernel, P!Wake, PP!Wake
  <2> QED
    BY <2>1, <2>2, <2>3, <2>7, <2>8
    DEF P!Next, PP!Next, P!Run, PP!Run, P!vars, PP!vars
<1>3. Spec => PP!Spec
  BY ClientKeepsPollerContract, <1>1, <1>2, PTL
  DEF PollerContract, P!Spec, PP!Spec
<1>4. PP!PollerInv => P!PollerInv
  BY DEF P!PollerInv, PP!PollerInv, P!TypeOK, PP!TypeOK, P!Event, PP!Event,
         P!Bits, PP!Bits, P!Registered, PP!Registered,
         P!OneEventEach, PP!OneEventEach,
         P!OpenersKeepBatch, PP!OpenersKeepBatch,
         P!BatchNotStale, PP!BatchNotStale, P!Open, PP!Open,
         P!HandlerOwnsEvent, PP!HandlerOwnsEvent, P!Exists, PP!Exists
<1>5. PP!Spec => []PP!PollerInv
  BY ClientDiscipline, PP!PollerInvariant
<1> QED BY <1>3, <1>4, <1>5, PTL

-----------------------------------------------------------------------------
(* The client's own state.                                                 *)

ClientTypes ==
  /\ conn \in {"connecting", "failed", "up", "fin", "rst"}
  /\ arrived \in 0..MaxMessages /\ shown \in 0..arrived
  /\ typed \in 0..MaxLines /\ taken \in 0..typed
  /\ expired \in BOOLEAN
  /\ input \in {"open", "eof", "hup"}
  /\ connected_ \in BOOLEAN
  /\ sent \in Seq(Nat \X Nat)
  /\ errors \in Seq({"timeout", "error", "closed"})
  /\ crashed \in BOOLEAN

\* OneReason, with what it was before the client was stopped.
Reasons ==
  /\ ~is_stopped => errors = <<>>
  /\ Len(errors) <= 1
  /\ connected_ => errors # <<"timeout">>

\* What the bits f of an event of s tell of the descriptor.
Tells(s, bits) ==
  "IN" \in bits =>
    /\ s = Sock => connected_ \/ "OUT" \in bits
    /\ s = Stdin => taken < typed \/ input # "open"

\* It is still true when the event is dispatched.
Told ==
  /\ \A e \in events : \A s \in subscribers : fd[s] = e.fd => Tells(s, e.bits)
  /\ current.sub \in subscribers => Tells(current.sub, current.bits)

ClientInv ==
  ClientTypes /\ SubscribersMatch /\ Reasons /\ Told /\ ConnectedFirst /\ LinesInOrder

LEMMA MaskTells == ConnType => \A s \in Sub : Tells(s, Mask(s))
<1> SUFFICES ASSUME ConnType, NEW s \in Sub PROVE Tells(s, Mask(s))
  OBVIOUS
<1>1. CASE s = Sock
  <2>1. Mask(s) \in {{}, {"OUT"}, {"OUT", "IN"}, {"IN", "OUT", "HUP", "ERR"}}
    BY <1>1 DEF Mask, ConnType
  <2> QED BY <1>1, <2>1 DEF Tells
<1>2. CASE s = Timer
  BY <1>2 DEF Tells
<1>3. CASE s = Stdin
  <2>1. "IN" \in Mask(s) => typed > taken \/ input # "open"
    BY <1>3 DEF Mask
  <2> QED BY <1>3, <2>1 DEF Tells
<1> QED BY <1>1, <1>2, <1>3 DEF Sub

\* Whatever keeps the batch and the facts it tells keeps Told.
LEMMA EpollWaitTold ==
  ASSUME P!PollerInv, ClientInv, EpollWait PROVE Told'
<1> DEFINE mask == [s \in ready |-> Mask(s)]
<1>1. P!EpollWait(mask) /\ UNCHANGED <<kernel, client>>
  BY DEF EpollWait
<1>2. \A e \in events' : \E s \in ready : e.fd = fd[s] /\ e.bits = Mask(s)
  <2>1. PICK batch \in SUBSET ready :
          events' = {[fd |-> fd[s], bits |-> mask[s], live |-> TRUE] : s \in batch}
    BY <1>1 DEF P!EpollWait
  <2>2. ASSUME NEW e \in events'
        PROVE  \E s \in batch : e = [fd |-> fd[s], bits |-> mask[s], live |-> TRUE]
    BY <2>1
  <2>3. \A s \in ready : mask[s] = Mask(s)
    OBVIOUS
  <2> HIDE DEF mask
  <2> QED BY <2>2, <2>3
<1>3. \A s, bits : Tells(s, bits)' <=> Tells(s, bits)
  BY <1>1 DEF Tells, kernel, client
<1>4. UNCHANGED <<subscribers, fd, current>> /\ current.bits = {}
  BY <1>1 DEF P!EpollWait, P!Between
<1>5. ready \subseteq subscribers /\ subscribers \subseteq Sub
  BY DEF P!PollerInv, P!Registered, P!TypeOK
<1>6. \A s, t \in subscribers : fd[s] = fd[t] => s = t
  BY DEF P!PollerInv, P!Registered
<1>7. ASSUME NEW e \in events', NEW s \in subscribers, fd[s] = e.fd
      PROVE  Tells(s, e.bits)
  <2>1. PICK t \in ready : e.fd = fd[t] /\ e.bits = Mask(t)
    BY <1>2
  <2>2. s = t
    BY <1>5, <1>6, <1>7, <2>1
  <2>3. Tells(s, Mask(s))
    BY <1>5, MaskTells DEF ClientInv, ClientTypes, ConnType
  <2> QED BY <2>1, <2>2, <2>3
<1>8. Tells(current.sub, {})
  BY DEF Tells
<1> QED BY <1>3, <1>4, <1>7, <1>8 DEF Told

LEMMA NotifyTold == ASSUME P!PollerInv, ClientInv, Dispatch PROVE Told'
<1>1. UNCHANGED <<kernel, client>>
  BY DEF Dispatch
<1>2. \A s, bits : Tells(s, bits)' <=> Tells(s, bits)
  BY <1>1 DEF Tells, kernel, client
<1>3. CASE P!Skip
  <2>1. current' = P!Idle /\ UNCHANGED <<subscribers, fd, events>>
    BY <1>3 DEF P!Skip
  <2>2. P!Idle.sub \notin subscribers
    BY DEF P!Idle, P!PollerInv, P!TypeOK
  <2> QED BY <1>2, <2>1, <2>2 DEF ClientInv, Told
<1>4. CASE P!Notify
  <2>1. PICK e \in events :
          /\ events' = events \ {e}
          /\ current' = [sub |-> P!Lookup(e.fd), bits |-> e.bits, live |-> e.live]
    BY <1>4 DEF P!Notify
  <2>2. UNCHANGED <<subscribers, fd>>
    BY <1>4 DEF P!Notify
  <2>3. P!Lookup(e.fd) \in subscribers => fd[P!Lookup(e.fd)] = e.fd
    BY DEF P!Lookup, P!Open, P!PollerInv, P!TypeOK
  <2> QED BY <1>2, <2>1, <2>2, <2>3 DEF ClientInv, Told
<1> QED BY <1>3, <1>4 DEF Dispatch

\* A handler of s used up the only event of s: what the other events tell is
\* left, and what is left of the bits of s.
LEMMA HandlerTold ==
  ASSUME P!PollerInv, ClientInv,
         NEW s \in Sub, NEW bit \in P!Bits, P!Handling(s, bit),
         NEW closed \in SUBSET subscribers, P!HandlerReturns(closed),
         \A t \in Sub : \A bits : t # s /\ Tells(t, bits) => Tells(t, bits)',
         NEW left, left = current.bits \ {bit},
         s \notin closed => Tells(s, left)'
  PROVE  Told'
<1>1. /\ current.sub = s /\ s \in subscribers /\ current.bits # {}
      /\ P!NextBit(current.bits) = bit
  BY DEF P!Handling, P!Exists
<1>2. /\ subscribers' = subscribers \ closed
      /\ fd' = [t \in Sub |-> IF t \in closed THEN NoFd ELSE fd[t]]
      /\ current' = IF left = {} THEN P!Idle
                    ELSE [current EXCEPT !.bits = left,
                                         !.live = @ /\ current.sub \notin closed]
  BY <1>1 DEF P!HandlerReturns, P!Unsubscribed
<1>3. \A e \in events' : \E g \in events : e.fd = g.fd /\ e.bits = g.bits
  <2> DEFINE gone == {fd[t] : t \in closed}
  <2>1. \A e \in events : e \in [fd : Fd, bits : SUBSET P!Bits, live : BOOLEAN]
    BY DEF P!PollerInv, P!TypeOK, P!Event
  <2>2. events' = {[e EXCEPT !.live = @ /\ e.fd \notin gone] : e \in events}
    BY DEF P!HandlerReturns
  <2> HIDE DEF gone
  <2> SUFFICES ASSUME NEW e \in events'
               PROVE  \E g \in events : e.fd = g.fd /\ e.bits = g.bits
    OBVIOUS
  <2>3. PICK g \in events : e = [g EXCEPT !.live = @ /\ g.fd \notin gone]
    BY <2>2
  <2> QED BY <2>1, <2>3
<1>4. \A e \in events : e.fd # fd[s]
  BY <1>1 DEF P!PollerInv, P!OneEventEach, P!HandlerOwnsEvent, P!Exists
<1>5. ASSUME NEW e \in events', NEW t \in subscribers', fd'[t] = e.fd
      PROVE  Tells(t, e.bits)'
  <2>1. PICK g \in events : e.fd = g.fd /\ e.bits = g.bits
    BY <1>3
  <2>2. t \in subscribers /\ t \in Sub /\ fd[t] = g.fd
    BY <1>2, <1>5, <2>1 DEF P!PollerInv, P!TypeOK
  <2>3. t # s
    BY <1>4, <2>2
  <2>4. Tells(t, g.bits)
    BY <2>2 DEF ClientInv, Told
  <2>5. Tells(t, g.bits)'
    BY <2>2, <2>3, <2>4
  <2> QED BY <2>1, <2>5 DEF Tells
<1>6. ASSUME current'.sub \in subscribers' PROVE Tells(current.sub, current.bits)'
  <2>1. current \in [sub : Sub \union {Null}, bits : SUBSET P!Bits, live : BOOLEAN]
        /\ subscribers \subseteq Sub
    BY DEF P!PollerInv, P!TypeOK
  <2>2. current' # P!Idle
    BY <1>2, <1>6, <2>1 DEF P!Idle
  <2>3. current'.sub = s /\ current'.bits = left
    BY <1>1, <1>2, <2>1, <2>2
  <2>4. Tells(s, left)'
    BY <1>2, <1>6, <2>3
  <2> QED BY <2>3, <2>4 DEF Tells
<1> QED BY <1>5, <1>6 DEF Told

\* What the handlers of s may still rely on.
LEMMA CurrentTells ==
  ASSUME P!PollerInv, ClientInv, NEW s, NEW bit, P!Handling(s, bit)
  PROVE  /\ Tells(s, current.bits)
         /\ s \in subscribers
         /\ bit \in current.bits \/ bit = "ERR"
         /\ bit # "IN" => "IN" \notin current.bits \/ bit = "OUT"
         /\ bit # "OUT" => "OUT" \notin current.bits
BY DEF P!Handling, P!Exists, P!NextBit, ClientInv, Told

\* A handler returns, and nothing that events tell has changed.
LEMMA ReturnsTold ==
  ASSUME P!PollerInv, ClientInv,
         NEW s \in Sub, NEW bit \in P!Bits, P!Handling(s, bit),
         NEW closed \in SUBSET subscribers, P!HandlerReturns(closed),
         UNCHANGED <<connected_, taken, typed, input>>,
         s \notin closed /\ bit = "OUT" => s # Sock \/ connected_
  PROVE  Told'
<1>1. \A t, bits : Tells(t, bits)' <=> Tells(t, bits)
  BY DEF Tells
<1>2. PICK left : left = current.bits \ {bit}
  OBVIOUS
<1>3. s \notin closed => Tells(s, left)
  BY <1>2, CurrentTells DEF Tells
<1>4. s \notin closed => Tells(s, left)'
  BY <1>1, <1>3
<1> QED BY <1>1, <1>2, <1>4, HandlerTold

\* ... or it closes the client.
LEMMA CloseClientTold ==
  ASSUME P!PollerInv, ClientInv,
         NEW s \in Sub, NEW bit \in P!Bits, P!Handling(s, bit), CloseClient,
         UNCHANGED <<connected_, typed, input>>,
         s = Stdin => bit \in {"IN", "HUP", "ERR"},
         s # Stdin => UNCHANGED taken
  PROVE  Told'
<1>0. PICK closed, left : /\ closed = {Sock, Timer} \intersect subscribers
                          /\ left = current.bits \ {bit}
  OBVIOUS
<1>1. closed \in SUBSET subscribers /\ P!HandlerReturns(closed)
  BY <1>0 DEF CloseClient
<1>2. \A t, bits : t # s /\ Tells(t, bits) => Tells(t, bits)'
  BY DEF Tells
<1>3. s \in subscribers /\ (s \notin closed => s = Stdin)
  BY <1>0, CurrentTells DEF Sub
<1>4. s = Stdin => "IN" \notin left
  BY <1>0, CurrentTells
<1>5. s \notin closed => Tells(s, left)'
  BY <1>3, <1>4 DEF Tells
<1> QED BY <1>1, <1>2, <1>5, <1>0, HandlerTold

LEMMA ConnectSucceedsInv ==
  ASSUME P!PollerInv, ClientInv, ConnectSucceeds PROVE ClientInv'
<1>1. /\ P!Handling(Sock, "OUT") /\ Sock \in subscribers
      /\ ~connected_ /\ connected_' = TRUE
      /\ P!HandlerReturns({Timer} \intersect subscribers)
      /\ subscribers' = subscribers \ {Timer}
      /\ UNCHANGED <<is_stopped, kernel, shown, taken, sent, errors, crashed>>
  BY DEF ConnectSucceeds, P!Handling, P!Exists, P!HandlerReturns, P!Unsubscribed
<1>2. ClientTypes'
  BY <1>1 DEF ClientInv, ClientTypes, kernel
<1>3. SubscribersMatch'
  BY <1>1 DEF ClientInv, SubscribersMatch
<1>4. Reasons'
  BY <1>1 DEF ClientInv, Reasons, SubscribersMatch
<1>5. Told'
  <2>0. PICK closed, left : /\ closed = {Timer} \intersect subscribers
                            /\ left = current.bits \ {"OUT"}
    OBVIOUS
  <2>1. \A t, bits : Tells(t, bits) => Tells(t, bits)'
    BY <1>1 DEF Tells, kernel
  <2>2. Tells(Sock, left)'
    BY <1>1 DEF Tells
  <2>3. closed \in SUBSET subscribers /\ P!HandlerReturns(closed)
    BY <1>1, <2>0
  <2>4. "OUT" \in P!Bits /\ Sock \in Sub
    BY DEF P!Bits, Sub
  <2> QED BY <1>1, <2>1, <2>2, <2>3, <2>4, <2>0, HandlerTold
<1>6. ConnectedFirst' /\ LinesInOrder'
  BY <1>1 DEF ClientInv, ConnectedFirst, LinesInOrder
<1> QED BY <1>2, <1>3, <1>4, <1>5, <1>6 DEF ClientInv

\* ConnectFails, OnClosed and OnTimeout.
LEMMA ConnectionEndsInv ==
  ASSUME P!PollerInv, ClientInv,
         NEW s \in {Sock, Timer}, NEW bit \in P!Bits, P!Handling(s, bit),
         NEW error \in {"timeout", "error", "closed"}, ConnectionEnds(error),
         error = "timeout" => s = Timer,
         UNCHANGED <<conn, arrived, typed, input>>, expired' \in BOOLEAN
  PROVE  ClientInv'
<1>1. /\ s \in subscribers /\ CloseClient
      /\ subscribers' = subscribers \ {Sock, Timer}
      /\ is_stopped' = TRUE
      /\ errors' = Append(errors, error)
      /\ UNCHANGED <<connected_, shown, taken, sent, crashed>>
  BY DEF ConnectionEnds, CloseClient, P!Handling, P!Exists,
         P!HandlerReturns, P!Unsubscribed
<1>2. ~is_stopped /\ errors = <<>> /\ (error = "timeout" => ~connected_)
  BY <1>1 DEF ClientInv, SubscribersMatch, Reasons
<1>3. errors' = <<error>>
  BY <1>1, <1>2
<1>4. ClientTypes'
  BY <1>1, <1>3 DEF ClientInv, ClientTypes
<1>5. SubscribersMatch'
  BY <1>1 DEF ClientInv, SubscribersMatch
<1>6. Reasons'
  <2>1. errors' = <<"timeout">> => error = "timeout"
    BY <1>3
  <2>2. Len(errors') <= 1
    BY <1>3
  <2> QED BY <1>1, <1>2, <2>1, <2>2 DEF Reasons
<1>7. Told'
  <2>1. s \in Sub /\ s # Stdin
    BY DEF Sub
  <2> QED BY <1>1, <2>1, CloseClientTold
<1>8. ConnectedFirst' /\ LinesInOrder'
  BY <1>1 DEF ClientInv, ConnectedFirst, LinesInOrder
<1> QED BY <1>4, <1>5, <1>6, <1>7, <1>8 DEF ClientInv

LEMMA OnOutInv == ASSUME P!PollerInv, ClientInv, NEW s \in Sub, OnOut(s) PROVE ClientInv'
<1>1. /\ P!Handling(s, "OUT") /\ P!HandlerReturns({})
      /\ s = Sock => connected_
      /\ subscribers' = subscribers
      /\ UNCHANGED <<is_stopped, kernel, client>>
  BY DEF OnOut, Returns, P!HandlerReturns, P!Unsubscribed
<1>2. UNCHANGED <<connected_, taken, typed, input>> /\ "OUT" \in P!Bits
  BY <1>1 DEF kernel, client, P!Bits
<1>3. Told'
  BY <1>1, <1>2, ReturnsTold
<1>4. ClientTypes' /\ SubscribersMatch' /\ Reasons' /\ ConnectedFirst' /\ LinesInOrder'
  BY <1>1 DEF ClientInv, ClientTypes, SubscribersMatch, Reasons, ConnectedFirst,
              LinesInOrder, kernel, client
<1> QED BY <1>3, <1>4 DEF ClientInv

LEMMA OnDataInv == ASSUME P!PollerInv, ClientInv, OnData PROVE ClientInv'
<1>1. /\ P!Handling(Sock, "IN") /\ P!HandlerReturns({})
      /\ shown' = arrived
      /\ subscribers' = subscribers
      /\ UNCHANGED <<is_stopped, kernel, connected_, taken, sent, errors, crashed>>
  BY DEF OnData, Returns, P!HandlerReturns, P!Unsubscribed
<1>2. UNCHANGED <<connected_, taken, typed, input>> /\ "IN" \in P!Bits /\ Sock \in Sub
  BY <1>1 DEF kernel, P!Bits, Sub
<1>3. Told'
  BY <1>1, <1>2, ReturnsTold
<1>4. connected_
  <2>1. Tells(Sock, current.bits) /\ "IN" \in current.bits /\ "OUT" \notin current.bits
    BY <1>1, CurrentTells
  <2> QED BY <2>1 DEF Tells
<1>5. ConnectedFirst'
  BY <1>1, <1>4 DEF ConnectedFirst
<1>6. ClientTypes' /\ SubscribersMatch' /\ Reasons' /\ LinesInOrder'
  BY <1>1 DEF ClientInv, ClientTypes, SubscribersMatch, Reasons, LinesInOrder, kernel
<1> QED BY <1>3, <1>5, <1>6 DEF ClientInv

\* The lines of the next message follow those of the last.
LEMMA LinesStep ==
  ASSUME ClientTypes, LinesInOrder, taken < typed, taken' = typed,
         \/ sent' = sent
         \/ sent' = Append(sent, <<taken + 1, typed>>)
  PROVE  LinesInOrder' /\ sent' \in Seq(Nat \X Nat)
<1>1. taken \in Nat /\ typed \in Nat /\ sent \in Seq(Nat \X Nat)
  BY DEF ClientTypes
<1>2. \A i \in DOMAIN sent : sent[i] \in Nat \X Nat
  BY <1>1
<1>3. CASE sent' = sent
  BY <1>1, <1>2, <1>3 DEF LinesInOrder
<1>4. CASE sent' = Append(sent, <<taken + 1, typed>>)
  <2>1. <<taken + 1, typed>> \in Nat \X Nat
    BY <1>1
  <2>2. sent' \in Seq(Nat \X Nat)
    BY <1>1, <1>4, <2>1
  <2>3. /\ Len(sent) \in Nat /\ DOMAIN sent = 1..Len(sent)
        /\ DOMAIN sent' = 1..(Len(sent) + 1)
        /\ \A i \in DOMAIN sent : sent'[i] = sent[i]
        /\ sent'[Len(sent) + 1] = <<taken + 1, typed>>
    BY <1>1, <1>4, <2>1
  <2>4. ASSUME NEW i \in DOMAIN sent'
        PROVE  /\ sent'[i][1] <= sent'[i][2] /\ sent'[i][2] <= taken'
               /\ i > 1 => sent'[i - 1][2] < sent'[i][1]
    <3>1. CASE i \in DOMAIN sent
      <4>1. i > 1 => i - 1 \in DOMAIN sent
        BY <2>3, <3>1
      <4>2. sent'[i] = sent[i] /\ (i > 1 => sent'[i - 1] = sent[i - 1])
        BY <2>3, <3>1, <4>1
      <4>3. sent[i][1] <= sent[i][2] /\ sent[i][2] <= taken
        BY <3>1 DEF LinesInOrder
      <4>4. i > 1 => sent[i - 1][2] < sent[i][1]
        BY <3>1 DEF LinesInOrder
      <4>5. sent[i][2] \in Nat /\ taken <= typed
        BY <1>1, <1>2, <3>1
      <4>6. sent[i][2] <= typed
        BY <1>1, <4>3, <4>5
      <4>7. sent'[i][1] <= sent'[i][2] /\ sent'[i][2] <= taken'
        BY <4>2, <4>3, <4>6
      <4>8. i > 1 => sent'[i - 1][2] < sent'[i][1]
        BY <4>2, <4>4
      <4> QED BY <4>7, <4>8
    <3>2. CASE i = Len(sent) + 1
      <4>1. sent'[i][1] = taken + 1 /\ sent'[i][2] = typed
        BY <2>3, <3>2
      <4>2. i > 1 => i - 1 \in DOMAIN sent
        BY <2>3, <3>2
      <4>3. i > 1 => sent'[i - 1][2] <= taken /\ sent'[i - 1][2] \in Nat
        BY <1>2, <2>3, <4>2 DEF LinesInOrder
      <4> QED BY <1>1, <4>1, <4>3
    <3> QED BY <2>3, <3>1, <3>2
  <2> QED BY <2>2, <2>4 DEF LinesInOrder
<1> QED BY <1>3, <1>4

LEMMA OnMessageReadInv ==
  ASSUME P!PollerInv, ClientInv, OnMessageRead \/ OnMessageReadNull PROVE ClientInv'
<1>1. /\ P!Handling(Stdin, "IN") /\ P!HandlerReturns({})
      /\ input = "open" /\ taken' = typed
      /\ \/ sent' = sent
         \/ connected_ /\ sent' = Append(sent, <<taken + 1, typed>>)
      /\ crashed' \in {crashed, TRUE}
      /\ subscribers' = subscribers
      /\ UNCHANGED <<is_stopped, kernel, connected_, shown, errors>>
  BY DEF OnMessageRead, OnMessageReadNull, Returns, P!HandlerReturns, P!Unsubscribed
<1>2. taken < typed
  <2>1. Tells(Stdin, current.bits) /\ "IN" \in current.bits
    BY <1>1, CurrentTells
  <2> QED BY <1>1, <2>1 DEF Tells
<1>3. LinesInOrder' /\ sent' \in Seq(Nat \X Nat)
  BY <1>1, <1>2, LinesStep DEF ClientInv
<1>4. ClientTypes'
  <2>1. crashed' \in BOOLEAN
    BY <1>1 DEF ClientInv, ClientTypes
  <2>2. taken' \in 0..typed' /\ shown' \in 0..arrived'
    BY <1>1 DEF ClientInv, ClientTypes, kernel
  <2> QED BY <1>1, <1>3, <2>1, <2>2 DEF ClientInv, ClientTypes, kernel
<1>5. SubscribersMatch' /\ Reasons'
  BY <1>1 DEF ClientInv, SubscribersMatch, Reasons
<1>6. ConnectedFirst'
  BY <1>1 DEF ClientInv, ConnectedFirst
<1>7. Told'
  <2>1. PICK left : left = current.bits \ {"IN"}
    OBVIOUS
  <2>2. Tells(Stdin, left)'
    BY <2>1 DEF Tells
  <2>3. \A t, bits : t # Stdin /\ Tells(t, bits) => Tells(t, bits)'
    BY <1>1 DEF Tells, kernel
  <2>4. Stdin \in Sub /\ "IN" \in P!Bits /\ {} \in SUBSET subscribers
    BY DEF Sub, P!Bits
  <2> QED BY <1>1, <2>1, <2>2, <2>3, <2>4, HandlerTold
<1> QED BY <1>3, <1>4, <1>5, <1>6, <1>7 DEF ClientInv

LEMMA OnReaderClosedInv ==
  ASSUME P!PollerInv, ClientInv, OnReaderClosed PROVE ClientInv'
<1>1. PICK bit \in {"IN", "HUP", "ERR"} : P!Handling(Stdin, bit)
  BY DEF OnReaderClosed
<1>2. /\ CloseClient
      /\ subscribers' = subscribers \ {Sock, Timer}
      /\ is_stopped' = TRUE
      /\ taken' = typed
      /\ UNCHANGED <<kernel, connected_, shown, sent, errors, crashed>>
  BY DEF OnReaderClosed, CloseClient, P!HandlerReturns, P!Unsubscribed
<1>3. ClientTypes' /\ SubscribersMatch' /\ Reasons' /\ ConnectedFirst'
  BY <1>2 DEF ClientInv, ClientTypes, SubscribersMatch, Reasons, ConnectedFirst, kernel
<1>4. LinesInOrder'
  <2>1. taken <= taken' /\ taken \in Nat /\ taken' \in Nat
        /\ \A i \in DOMAIN sent : sent[i] \in Nat \X Nat
    BY <1>2 DEF ClientInv, ClientTypes
  <2> QED BY <1>2, <2>1 DEF ClientInv, LinesInOrder
<1>5. Told'
  <2>1. Stdin \in Sub /\ bit \in P!Bits
    BY DEF Sub, P!Bits
  <2>2. UNCHANGED <<connected_, typed, input>>
    BY <1>2 DEF kernel
  <2> QED BY <1>1, <1>2, <2>1, <2>2, CloseClientTold
<1> QED BY <1>3, <1>4, <1>5 DEF ClientInv

\* The kernel only adds to what there is to read.
LEMMA KernelInv == ASSUME P!PollerInv, ClientInv, Kernel PROVE ClientInv'
<1>1. /\ UNCHANGED <<subscribers, fd, events, current, is_stopped, client>>
      /\ typed' \in {typed, typed + 1} /\ typed' <= MaxLines
      /\ input' = input \/ input' \in {"eof", "hup"}
      /\ conn' \in {"connecting", "failed", "up", "fin", "rst"}
      /\ arrived' \in {arrived, arrived + 1} /\ arrived' <= MaxMessages
      /\ expired' \in BOOLEAN
  <2> USE DEF idle_loop, ClientInv, ClientTypes
  <2>1. CASE Established \/ Failed \/ PeerCloses \/ PeerResets
    BY <2>1 DEF Established, Failed, PeerCloses, PeerResets, ConnChanges
  <2>2. CASE Arrive
    BY <2>2 DEF Arrive
  <2>3. CASE TypeLine
    BY <2>3 DEF TypeLine
  <2>4. CASE Expire
    BY <2>4 DEF Expire
  <2>5. CASE EndInput
    BY <2>5 DEF EndInput
  <2> QED BY <2>1, <2>2, <2>3, <2>4, <2>5 DEF Kernel
<1>2. ClientTypes'
  BY <1>1 DEF ClientInv, ClientTypes, client
<1>3. SubscribersMatch' /\ Reasons' /\ ConnectedFirst' /\ LinesInOrder'
  BY <1>1 DEF ClientInv, SubscribersMatch, Reasons, ConnectedFirst, LinesInOrder, client
<1>4. Told'
  <2>1. taken \in Nat /\ typed \in Nat
    BY DEF ClientInv, ClientTypes
  <2>2. \A t, bits : Tells(t, bits) => Tells(t, bits)'
    BY <1>1, <2>1 DEF Tells, client
  <2> QED BY <1>1, <2>2 DEF ClientInv, Told
<1> QED BY <1>2, <1>3, <1>4 DEF ClientInv

LEMMA ClientInvStep == P!PollerInv /\ ClientInv /\ [Next]_vars => ClientInv'
<1> SUFFICES ASSUME P!PollerInv, ClientInv, [Next]_vars PROVE ClientInv'
  OBVIOUS
<1>1. ASSUME UNCHANGED <<subscribers, is_stopped, kernel, client>>, Told'
      PROVE  ClientInv'
  BY <1>1 DEF ClientInv, ClientTypes, SubscribersMatch, Reasons, ConnectedFirst,
              LinesInOrder, kernel, client
<1>2. CASE EpollWait
  BY <1>1, <1>2, EpollWaitTold DEF EpollWait, P!EpollWait
<1>3. CASE Dispatch
  BY <1>1, <1>3, NotifyTold DEF Dispatch, P!Notify, P!Skip
<1>4. ASSUME UNCHANGED <<subscribers, fd, events, current, is_stopped, kernel, client>>
      PROVE  ClientInv'
  BY <1>1, <1>4 DEF ClientInv, Told, Tells, kernel, client
<1>5. CASE Return
  BY <1>4, <1>5 DEF Return, P!Return
<1>6. CASE ConnectSucceeds
  BY <1>6, ConnectSucceedsInv
<1>7. CASE ConnectFails
  <2>1. P!Handling(Sock, "OUT") /\ ConnectionEnds("error") /\ "OUT" \in P!Bits
    BY <1>7 DEF ConnectFails, P!Bits
  <2>2. UNCHANGED <<conn, arrived, typed, input>> /\ expired' \in BOOLEAN
    BY <1>7 DEF ConnectFails, kernel, ClientInv, ClientTypes
  <2> QED BY <2>1, <2>2, ConnectionEndsInv
<1>8. ASSUME NEW s \in Sub, OnOut(s) PROVE ClientInv'
  BY <1>8, OnOutInv
<1>9. CASE OnData
  BY <1>9, OnDataInv
<1>10. CASE OnClosed
  <2>1. PICK bit \in P!Bits, error \in {"error", "closed"} :
          P!Handling(Sock, bit) /\ ConnectionEnds(error)
    BY <1>10 DEF OnClosed, P!Bits
  <2>2. UNCHANGED <<conn, arrived, typed, input>> /\ expired' \in BOOLEAN
    BY <1>10 DEF OnClosed, kernel, ClientInv, ClientTypes
  <2> QED BY <2>1, <2>2, ConnectionEndsInv
<1>11. CASE OnTimeout
  <2>1. P!Handling(Timer, "IN") /\ ConnectionEnds("timeout") /\ "IN" \in P!Bits
    BY <1>11 DEF OnTimeout, P!Bits
  <2>2. UNCHANGED <<conn, arrived, typed, input>> /\ expired' \in BOOLEAN
    BY <1>11 DEF OnTimeout
  <2> QED BY <2>1, <2>2, ConnectionEndsInv
<1>12. CASE OnMessageRead \/ OnMessageReadNull
  BY <1>12, OnMessageReadInv
<1>13. CASE OnReaderClosed
  BY <1>13, OnReaderClosedInv
<1>14. CASE Kernel
  BY <1>14, KernelInv
<1>15. CASE UNCHANGED vars
  BY <1>4, <1>15 DEF vars, loop
<1> QED
  BY <1>2, <1>3, <1>5, <1>6, <1>7, <1>8, <1>9, <1>10, <1>11, <1>12,
     <1>13, <1>14, <1>15
  DEF Next, Client

LEMMA ClientInvariant == Spec => []ClientInv
<1>1. Init => ClientInv
  <2> SUFFICES ASSUME Init PROVE ClientInv
    OBVIOUS
  <2>1. subscribers = Sub /\ events = {} /\ current.sub \notin Sub
    BY DEF Init, P!Init, P!Idle
  <2>2. Told
    BY <2>1 DEF Told
  <2>3. ClientTypes
    <3>1. arrived = 0 /\ shown = 0 /\ typed = 0 /\ taken = 0
      BY DEF Init
    <3>2. /\ arrived \in 0..MaxMessages /\ shown \in 0..arrived
          /\ typed \in 0..MaxLines /\ taken \in 0..typed
      BY <3>1
    <3>3. sent = <<>> /\ errors = <<>>
      BY DEF Init
    <3>4. sent \in Seq(Nat \X Nat) /\ errors \in Seq({"timeout", "error", "closed"})
      BY <3>3
    <3> QED BY <3>2, <3>4 DEF Init, ClientTypes
  <2>4. SubscribersMatch
    BY <2>1 DEF Init, P!Init, SubscribersMatch, Sub
  <2>5. Reasons
    BY DEF Init, P!Init, Reasons
  <2>6. ConnectedFirst /\ LinesInOrder
    BY DEF Init, ConnectedFirst, LinesInOrder
  <2> QED BY <2>2, <2>3, <2>4, <2>5, <2>6 DEF ClientInv
<1> QED BY <1>1, ClientInvStep, ClientHandlersOwnEvents, PTL DEF Spec

(***************************************************************************)
(* Every variable of the client keeps its type.                            *)
(***************************************************************************)
THEOREM ClientTypeCorrect == Spec => []TypeOK
<1>1. P!PollerInv /\ ClientInv => TypeOK
  BY DEF P!PollerInv, ClientInv, ClientTypes, TypeOK
<1> QED BY <1>1, ClientHandlersOwnEvents, ClientInvariant, PTL

(***************************************************************************)
(* The socket exists until the client is stopped and the timer until it is *)
(* connected (TcpSocket.cpp:54, 104-105, Client.cpp:76-80).                *)
(***************************************************************************)
THEOREM ClientSubscribersMatch == Spec => []SubscribersMatch
<1>1. ClientInv => SubscribersMatch
  BY DEF ClientInv
<1> QED BY <1>1, ClientInvariant, PTL

(***************************************************************************)
(* The user is told one reason for the end of the connection at most, and  *)
(* never a timeout of a connection that was made (TcpSocket.cpp:102-130).  *)
(***************************************************************************)
THEOREM ClientOneReason == Spec => []OneReason
<1>1. ClientInv => OneReason
  BY DEF ClientInv, Reasons, OneReason, ClientTypes
<1> QED BY <1>1, ClientInvariant, PTL

(***************************************************************************)
(* Nothing is shown before the user was told of the connection, and        *)
(* nothing is sent (Poller.cpp:98-105): the order in which the poller      *)
(* tests the bits of an event is what this rests on.                       *)
(***************************************************************************)
THEOREM ClientConnectedFirst == Spec => []ConnectedFirst
<1>1. ClientInv => ConnectedFirst
  BY DEF ClientInv
<1> QED BY <1>1, ClientInvariant, PTL

(***************************************************************************)
(* Lines are sent in the order they were typed, and none is sent twice     *)
(* (StdInputReader.cpp:28-50, Client.cpp:61-70).                           *)
(***************************************************************************)
THEOREM ClientLinesInOrder == Spec => []LinesInOrder
<1>1. ClientInv => LinesInOrder
  BY DEF ClientInv
<1> QED BY <1>1, ClientInvariant, PTL
=============================================================================

---------------------------- MODULE PollerProofs ----------------------------
(***************************************************************************)
(* PollerInv is an inductive invariant of the event loop, for any number   *)
(* of objects and descriptors and for any handlers within the discipline.  *)
(*                                                                         *)
(* A handler runs for the object its event was reported for because an     *)
(* event only loses its owner in a step that closes descriptors, and a     *)
(* descriptor is only taken again in a step that opens one.  Handlers that *)
(* open close nothing but the object they run on, whose event has already  *)
(* left the batch; handlers that close others open nothing.                *)
(***************************************************************************)
EXTENDS Poller, TLAPS

USE PollerAssumption

-----------------------------------------------------------------------------
(* Facts about the operators.                                              *)

\* GetSubscriberByFileDescriptor returns nullptr or an owner of f.
LEMMA LookupFact ==
  ASSUME NEW f
  PROVE  /\ f \in Open => /\ Lookup(f) \in subscribers
                          /\ fd[Lookup(f)] = f
         /\ f \notin Open => Lookup(f) = Null
BY DEF Lookup, Open

\* The bit dispatched next is one of the remaining bits.
LEMMA NextBitFact ==
  ASSUME NEW bits \in SUBSET Bits, bits # {}
  PROVE  NextBit(bits) \in bits
BY DEF NextBit, Bits

-----------------------------------------------------------------------------
(* One lemma per step of the loop.                                         *)

LEMMA InitInv == Init => PollerInv
<1> SUFFICES ASSUME Init PROVE PollerInv
  OBVIOUS
<1>1. TypeOK
  BY DEF Init, TypeOK, Idle
<1>2. Registered
  BY DEF Init, Registered
<1>3. OneEventEach /\ OpenersKeepBatch /\ BatchNotStale /\ HandlerOwnsEvent
  BY DEF Init, OneEventEach, OpenersKeepBatch, BatchNotStale,
         HandlerOwnsEvent, Idle
<1> QED BY <1>1, <1>2, <1>3 DEF PollerInv

LEMMA EpollWaitInv ==
  ASSUME PollerInv, NEW mask \in [ready -> Masks \union {{}}], EpollWait(mask)
  PROVE  PollerInv'
<1> USE DEF PollerInv
<1> PICK batch \in SUBSET {s \in ready : mask[s] # {}} :
      /\ ready' = {s \in ready : mask[s] # {}} \ batch
      /\ events' = {[fd |-> fd[s], bits |-> mask[s], live |-> TRUE] : s \in batch}
  BY DEF EpollWait
<1>0. UNCHANGED <<subscribers, fd, current, is_stopped, running>> /\ current.bits = {}
  BY DEF EpollWait, Between
<1>1. \A s \in batch : /\ s \in subscribers
                      /\ fd[s] \in Fd
                      /\ mask[s] \in SUBSET Bits
  BY DEF Registered, TypeOK
<1>2. ASSUME NEW e \in events'
      PROVE  \E s \in batch : e = [fd |-> fd[s], bits |-> mask[s], live |-> TRUE]
  OBVIOUS
<1>3. ASSUME NEW e \in events'
      PROVE  e \in Event /\ e.live /\ e.fd \in Open'
  <2>1. PICK s \in batch : e = [fd |-> fd[s], bits |-> mask[s], live |-> TRUE]
    BY <1>2
  <2> QED BY <2>1, <1>1, <1>0 DEF Event, Open
<1>4. TypeOK'
  BY <1>3, <1>0 DEF TypeOK
<1>5. Registered'
  BY <1>0 DEF Registered
<1>6. OneEventEach'
  <2>1. ASSUME NEW e \in events', NEW g \in events', e.fd = g.fd PROVE e = g
    <3>1. PICK s \in batch : e = [fd |-> fd[s], bits |-> mask[s], live |-> TRUE]
      BY <1>2
    <3>2. PICK t \in batch : g = [fd |-> fd[t], bits |-> mask[t], live |-> TRUE]
      BY <1>2
    <3>3. s = t
      BY <3>1, <3>2, <2>1, <1>1 DEF Registered
    <3> QED BY <3>1, <3>2, <3>3
  <2> QED BY <2>1, <1>3, <1>0 DEF OneEventEach
<1>7. (OpenersKeepBatch /\ BatchNotStale /\ HandlerOwnsEvent)'
  BY <1>3, <1>0 DEF OpenersKeepBatch, BatchNotStale, HandlerOwnsEvent
<1> QED BY <1>4, <1>5, <1>6, <1>7

LEMMA NotifyInv == PollerInv /\ Notify => PollerInv'
<1> SUFFICES ASSUME PollerInv, Notify PROVE PollerInv'
  OBVIOUS
<1> USE DEF PollerInv
<1>1. PICK e \in events :
        /\ events' = events \ {e}
        /\ current' = [sub |-> Lookup(e.fd), bits |-> e.bits, live |-> e.live]
  BY DEF Notify
<1>2. UNCHANGED <<subscribers, fd, ready, is_stopped, running>>
  BY DEF Notify
<1>3. e \in Event
  BY DEF TypeOK
<1>4. Lookup(e.fd) \in Sub \union {Null}
  BY LookupFact DEF TypeOK
<1>5. TypeOK' /\ Registered'
  BY <1>1, <1>2, <1>3, <1>4 DEF TypeOK, Registered, Event
<1>6. OneEventEach'
  <2>1. e.live => Lookup(e.fd) \in subscribers /\ fd[Lookup(e.fd)] = e.fd
    BY LookupFact DEF OneEventEach
  <2>2. \A g \in events' : g.fd # e.fd
    BY <1>1 DEF OneEventEach
  <2> QED BY <1>1, <1>2, <2>1, <2>2 DEF OneEventEach, Open
<1>7. HandlerOwnsEvent'
  BY <1>1, <1>2, LookupFact DEF HandlerOwnsEvent, Exists, BatchNotStale, TypeOK
<1>8. (OpenersKeepBatch /\ BatchNotStale)'
  BY <1>1, <1>2 DEF OpenersKeepBatch, BatchNotStale, Open
<1> QED BY <1>5, <1>6, <1>7, <1>8

LEMMA SkipInv == PollerInv /\ Skip => PollerInv'
BY DEF PollerInv, Skip, TypeOK, Registered, OneEventEach, OpenersKeepBatch,
       BatchNotStale, HandlerOwnsEvent, Idle, Open, Exists

LEMMA ReturnInv == PollerInv /\ Return => PollerInv'
BY DEF PollerInv, Return, TypeOK, Registered, OneEventEach, OpenersKeepBatch,
       BatchNotStale, HandlerOwnsEvent, Open, Exists

LEMMA KernelInv ==
  ASSUME PollerInv, NEW s \in Sub, Kernel(s)
  PROVE  PollerInv'
BY DEF PollerInv, Kernel, Wake, TypeOK, Registered, OneEventEach,
       OpenersKeepBatch, BatchNotStale, HandlerOwnsEvent, Open, Exists

(***************************************************************************)
(* A handler destroys the objects in closed and returns.  Where handlers   *)
(* open descriptors it can only be the object of the current event, and no *)
(* other event names that object's descriptor.                             *)
(***************************************************************************)
LEMMA HandlerReturnsInv ==
  ASSUME PollerInv, NEW s \in Sub, NEW bit, Handling(s, bit),
         NEW closed \in SUBSET (Closes[s] \intersect subscribers),
         HandlerReturns(closed), is_stopped' \in BOOLEAN, UNCHANGED running
  PROVE  PollerInv'
<1> USE DEF PollerInv
<1> DEFINE gone == {fd[t] : t \in closed}
           left == current.bits \ {NextBit(current.bits)}
<1>1. /\ subscribers' = subscribers \ closed
      /\ fd' = [t \in Sub |-> IF t \in closed THEN NoFd ELSE fd[t]]
      /\ ready' = ready \ closed
      /\ events' = {[e EXCEPT !.live = @ /\ e.fd \notin gone] : e \in events}
      /\ current' = IF left = {} THEN Idle
                    ELSE [current EXCEPT
                            !.bits = left,
                            !.live = @ /\ current.sub \notin closed]
  BY DEF HandlerReturns, Unsubscribed
<1>2. /\ current.sub = s /\ s \in subscribers /\ current.live
      /\ current.bits # {}
  BY DEF Handling, Exists, HandlerOwnsEvent
<1>3. /\ Open' \subseteq Open
      /\ Open' \intersect gone = {}
  BY <1>1 DEF Open, Registered, TypeOK
<1>4. ASSUME NEW e \in events'
      PROVE  \E g \in events : /\ e.fd = g.fd /\ e.bits = g.bits
                               /\ e.live = (g.live /\ g.fd \notin gone)
                               /\ e = [g EXCEPT !.live = @ /\ g.fd \notin gone]
  <2>1. PICK g \in events : e = [g EXCEPT !.live = @ /\ g.fd \notin gone]
    BY <1>1
  <2>2. g \in Event
    BY DEF TypeOK
  <2> QED BY <2>1, <2>2 DEF Event
<1>5. TypeOK'
  <2>1. events' \subseteq Event
    <3> SUFFICES ASSUME NEW e \in events' PROVE e \in Event
      OBVIOUS
    <3>1. PICK g \in events : e = [g EXCEPT !.live = @ /\ g.fd \notin gone]
      BY <1>1
    <3>2. g \in Event
      BY DEF TypeOK
    <3> QED BY <3>1, <3>2 DEF Event
  <2>2. current' \in [sub : Sub \union {Null}, bits : SUBSET Bits, live : BOOLEAN]
    BY <1>1, <1>2 DEF TypeOK, Idle
  <2>3. fd' \in [Sub -> Fd \union {NoFd}]
    BY <1>1 DEF TypeOK
  <2> QED BY <1>1, <2>1, <2>2, <2>3 DEF TypeOK
<1>6. Registered'
  BY <1>1 DEF Registered, TypeOK
<1>7. Opens # {} => closed \subseteq {s}
  BY DEF PollerAssumption, Disciplined
<1>8. OneEventEach'
  <2>1. \A e, g \in events' : e.fd = g.fd => e = g
    BY <1>4 DEF OneEventEach
  <2>2. ASSUME NEW e \in events', e.live PROVE e.fd \in Open'
    <3>1. PICK g \in events : e.fd = g.fd /\ g.live /\ g.fd \notin gone
      BY <1>4, <2>2
    <3>2. PICK t \in subscribers : fd[t] = g.fd
      BY <3>1 DEF OneEventEach, Open
    <3>3. t \in subscribers' /\ fd'[t] = g.fd
      BY <3>1, <3>2, <1>1 DEF TypeOK
    <3> QED BY <3>1, <3>3 DEF Open
  <2>3. ASSUME current'.bits # {}, current'.live
        PROVE  /\ current'.sub \in subscribers'
               /\ \A e \in events' : e.fd # fd'[current'.sub]
    <3>1. current'.sub = s /\ s \notin closed
      BY <1>1, <1>2, <2>3 DEF Idle, TypeOK
    <3>2. s \in subscribers' /\ fd'[s] = fd[s]
      BY <3>1, <1>1, <1>2
    <3> QED BY <3>1, <3>2, <1>2, <1>4 DEF OneEventEach
  <2> QED BY <2>1, <2>2, <2>3 DEF OneEventEach
<1>9. OpenersKeepBatch'
  <2> SUFFICES ASSUME Opens # {}, NEW e \in events' PROVE e.live
    BY DEF OpenersKeepBatch
  <2>1. PICK g \in events : /\ e.fd = g.fd
                            /\ e.live = (g.live /\ g.fd \notin gone)
    BY <1>4
  <2>2. g.live /\ g.fd # fd[s]
    BY <1>2 DEF OpenersKeepBatch, OneEventEach
  <2> QED BY <2>1, <2>2, <1>7
<1>10. BatchNotStale'
  <2> SUFFICES ASSUME NEW e \in events', e.fd \in Open' PROVE e.live
    BY DEF BatchNotStale
  <2>1. PICK g \in events : /\ e.fd = g.fd
                            /\ e.live = (g.live /\ g.fd \notin gone)
    BY <1>4
  <2>2. g.live
    BY <2>1, <1>3 DEF BatchNotStale
  <2> QED BY <2>1, <2>2, <1>3
<1>11. HandlerOwnsEvent'
  BY <1>1, <1>2 DEF HandlerOwnsEvent, Exists, Idle, TypeOK
<1> QED BY <1>5, <1>6, <1>8, <1>9, <1>10, <1>11

(***************************************************************************)
(* A handler of an opener creates an object.  Its descriptor was free, so  *)
(* no event of the batch names it: they all still have their owners.       *)
(***************************************************************************)
LEMMA SubscribeInv ==
  ASSUME PollerInv, NEW s \in Opens, NEW bit, Handling(s, bit),
         NEW n \in Sub, NEW f \in Fd, Subscribe(n, f),
         ready' \in {ready, ready \union {n}},
         UNCHANGED <<events, current, is_stopped, running>>
  PROVE  PollerInv'
<1> USE DEF PollerInv
<1>1. /\ n \notin subscribers /\ f \notin Open
      /\ subscribers' = subscribers \union {n}
      /\ fd' = [fd EXCEPT ![n] = f]
      /\ Open' = Open \union {f}
  BY DEF Subscribe, Open, TypeOK
<1>2. /\ current.sub = s /\ s \in subscribers /\ current.live
      /\ current.bits # {}
  BY DEF Handling, Exists, HandlerOwnsEvent
<1>3. \A e \in events : e.live /\ e.fd \in Open
  BY DEF OpenersKeepBatch, OneEventEach
<1>4. TypeOK' /\ Registered'
  BY <1>1 DEF TypeOK, Registered, Open
<1>5. OneEventEach'
  BY <1>1, <1>2, <1>3 DEF OneEventEach, TypeOK
<1>6. (OpenersKeepBatch /\ BatchNotStale /\ HandlerOwnsEvent)'
  BY <1>1, <1>2, <1>3 DEF OpenersKeepBatch, BatchNotStale, HandlerOwnsEvent, Exists
<1> QED BY <1>4, <1>5, <1>6

LEMMA HandlerInv ==
  ASSUME PollerInv, NEW s \in Sub, Handler(s)
  PROVE  PollerInv'
<1>1. PICK bit \in Bits : Handling(s, bit)
  BY DEF Handler
<1>2. CASE \E closed \in SUBSET (Closes[s] \intersect subscribers) :
             /\ HandlerReturns(closed)
             /\ \E stop \in BOOLEAN : is_stopped' = (is_stopped \/ stop)
             /\ UNCHANGED running
  <2>1. is_stopped' \in BOOLEAN
    BY <1>2
  <2> QED BY <1>1, <1>2, <2>1, HandlerReturnsInv
<1>3. CASE /\ s \in Opens
           /\ \E n \in Sub, f \in Fd :
                /\ Subscribe(n, f)
                /\ ready' \in {ready, ready \union {n}}
           /\ UNCHANGED <<events, current, is_stopped, running>>
  BY <1>1, <1>3, SubscribeInv
<1> QED BY <1>2, <1>3 DEF Handler

-----------------------------------------------------------------------------
(* The theorems.                                                           *)

(***************************************************************************)
(* PollerInv holds in every reachable state of the loop.                   *)
(***************************************************************************)
THEOREM PollerInvariant == Spec => []PollerInv
<1>1. PollerInv /\ [Next]_vars => PollerInv'
  <2> SUFFICES ASSUME PollerInv, [Next]_vars PROVE PollerInv'
    OBVIOUS
  <2>1. CASE \E mask \in [ready -> Masks \union {{}}] : EpollWait(mask)
    BY <2>1, EpollWaitInv
  <2>2. CASE Notify
    BY <2>2, NotifyInv
  <2>3. CASE Skip
    BY <2>3, SkipInv
  <2>4. CASE Return
    BY <2>4, ReturnInv
  <2>5. CASE \E s \in Sub : Handler(s)
    BY <2>5, HandlerInv
  <2>6. CASE \E s \in Sub : Kernel(s)
    BY <2>6, KernelInv
  <2>7. CASE UNCHANGED vars
    BY <2>7 DEF vars, PollerInv, TypeOK, Registered, OneEventEach,
                OpenersKeepBatch, BatchNotStale, HandlerOwnsEvent, Open, Exists
  <2> QED BY <2>1, <2>2, <2>3, <2>4, <2>5, <2>6, <2>7 DEF Next, Run
<1> QED BY InitInv, <1>1, PTL DEF Spec

(***************************************************************************)
(* The variables of the loop keep their types (Poller.h).                  *)
(***************************************************************************)
THEOREM TypeCorrect == Spec => []TypeOK
<1>1. PollerInv => TypeOK
  BY DEF PollerInv
<1> QED BY PollerInvariant, <1>1, PTL

(***************************************************************************)
(* No handler ever runs for an event of another object than its own        *)
(* (Poller.cpp:95-126).                                                    *)
(***************************************************************************)
THEOREM HandlersOwnEvents == Spec => []HandlerOwnsEvent
<1>1. PollerInv => HandlerOwnsEvent
  BY DEF PollerInv
<1> QED BY PollerInvariant, <1>1, PTL

(***************************************************************************)
(* No event waiting in the batch names a descriptor of another             *)
(* registration than the one it was reported for (Poller.cpp:66-68).       *)
(***************************************************************************)
THEOREM BatchIsNotStale == Spec => []BatchNotStale
<1>1. PollerInv => BatchNotStale
  BY DEF PollerInv
<1> QED BY PollerInvariant, <1>1, PTL
=============================================================================

------------------------------- MODULE Poller -------------------------------
(***************************************************************************)
(* utils::Poller: the edge-triggered epoll loop that everything else in    *)
(* both programs is called from.                                           *)
(*                                                                         *)
(* The loop collects a batch of events that name file descriptors,         *)
(* resolves each descriptor to a subscriber only when the event's turn     *)
(* comes, and calls up to four handlers of that subscriber.  A handler may *)
(* destroy subscribers and create new ones, which may take a descriptor or *)
(* an address that was just freed: a descriptor in the batch, or the       *)
(* pointer the loop holds, can be stale when it is used.                   *)
(*                                                                         *)
(* This module is the contract that loop offers for any handlers within    *)
(* the discipline (Opens, Closes).  ChatServer and ChatClient are built    *)
(* from its operators and are checked to implement it.                     *)
(***************************************************************************)
EXTENDS Naturals, FiniteSets

CONSTANTS
  Sub,        \* subscriber objects, identified by their addresses
  Null,       \* nullptr
  Fd,         \* file descriptors
  NoFd,       \* the descriptor of an object that does not exist (any more)
  Start,      \* the subscribers that exist when Run() is called
  Masks,      \* the sets of event bits epoll_wait can report
  Opens,      \* the subscribers whose handlers subscribe new objects
  Closes,     \* Closes[s]: the subscribers that a handler of s may destroy
  MaxEvents   \* MAX_EVENTS

Bits == {"OUT", "IN", "HUP", "ERR"}

(***************************************************************************)
(* The discipline of the two programs: the server's handlers open sockets  *)
(* but destroy only the connection they are called on; the client's        *)
(* handlers destroy each other but open nothing once the loop runs.        *)
(***************************************************************************)
Disciplined ==
  \/ Opens = {}
  \/ \A s \in Sub : Closes[s] \subseteq {s}

ASSUME PollerAssumption ==
  /\ Null \notin Sub
  /\ NoFd \notin Fd
  /\ Start \subseteq Sub
  /\ Masks \subseteq SUBSET Bits
  /\ Opens \subseteq Sub
  /\ Closes \in [Sub -> SUBSET Sub]
  /\ MaxEvents \in Nat \ {0}
  /\ Disciplined

VARIABLES
  subscribers,  \* subscribers_
  fd,           \* what GetFileDescriptor() of each object returns
  ready,        \* the kernel's ready list: edges not yet reported
  events,       \* the part of the batch that is not dispatched yet
  current,      \* the event in NotifySubscriber: pointer and bits to go
  is_stopped,   \* is_stopped_
  running       \* Run() has not returned

vars == <<subscribers, fd, ready, events, current, is_stopped, running>>

(***************************************************************************)
(* "live" is a ghost of events and current: the registration the event was *)
(* reported for still exists.                                              *)
(***************************************************************************)
Event == [fd : Fd, bits : SUBSET Bits, live : BOOLEAN]
Idle == [sub |-> Null, bits |-> {}, live |-> FALSE]

TypeOK ==
  /\ subscribers \subseteq Sub
  /\ fd \in [Sub -> Fd \union {NoFd}]
  /\ ready \subseteq Sub
  /\ events \subseteq Event
  /\ current \in [sub : Sub \union {Null}, bits : SUBSET Bits, live : BOOLEAN]
  /\ is_stopped \in BOOLEAN
  /\ running \in BOOLEAN

Open == {fd[s] : s \in subscribers}

Init ==
  /\ subscribers = Start
  /\ fd \in [Sub -> Fd \union {NoFd}]
  /\ \A s \in Sub : fd[s] = NoFd <=> s \notin Start
  /\ \A s, t \in Start : fd[s] = fd[t] => s = t
  /\ ready = {}
  /\ events = {}
  /\ current = Idle
  /\ is_stopped = FALSE
  /\ running = TRUE

-----------------------------------------------------------------------------
(* The loop.  The order of a batch is chosen event by event.               *)

\* Between two events: nothing is being dispatched.
Between == running /\ current.bits = {}

(***************************************************************************)
(* epoll_wait returns.  mask[s] is the state of s's descriptor when its    *)
(* edge is taken off the ready list; an edge whose condition is gone is    *)
(* dropped, and at most MaxEvents are reported.                            *)
(***************************************************************************)
EpollWait(mask) ==
  LET reportable == {s \in ready : mask[s] # {}}
  IN /\ Between /\ events = {} /\ ~is_stopped
     /\ ready # {}
     /\ \E batch \in SUBSET reportable :
          /\ \/ batch = reportable /\ Cardinality(reportable) <= MaxEvents
             \/ Cardinality(batch) = MaxEvents
          /\ ready' = reportable \ batch
          /\ events' = {[fd |-> fd[s], bits |-> mask[s], live |-> TRUE] :
                          s \in batch}
     /\ UNCHANGED <<subscribers, fd, current, is_stopped, running>>

\* GetSubscriberByFileDescriptor.
Lookup(f) ==
  IF f \in Open THEN CHOOSE s \in subscribers : fd[s] = f ELSE Null

\* NotifySubscriber begins: the event's descriptor becomes a pointer.
Notify ==
  /\ Between
  /\ \E e \in events :
       /\ events' = events \ {e}
       /\ current' = [sub |-> Lookup(e.fd), bits |-> e.bits, live |-> e.live]
  /\ UNCHANGED <<subscribers, fd, ready, is_stopped, running>>

\* Faulty variant: the data is read before the connection is reported.
NextBitInFirst(bits) ==
  IF "IN" \in bits THEN "IN"
  ELSE IF "OUT" \in bits THEN "OUT"
  ELSE IF "HUP" \in bits THEN "HUP" ELSE "ERR"

\* The order in which NotifySubscriber tests the bits.
NextBit(bits) ==
  IF "OUT" \in bits THEN "OUT"
  ELSE IF "IN" \in bits THEN "IN"
  ELSE IF "HUP" \in bits THEN "HUP" ELSE "ERR"

\* SubscriberIsExist on the pointer NotifySubscriber holds.
Exists == current.sub \in subscribers

\* A handler of subscriber s for this bit is running.
Handling(s, bit) ==
  /\ running
  /\ current.bits # {}
  /\ current.sub = s /\ Exists
  /\ NextBit(current.bits) = bit

\* None of the remaining bits has a subscriber to go to.
Skip ==
  /\ running
  /\ current.bits # {} /\ ~Exists
  /\ current' = Idle
  /\ UNCHANGED <<subscribers, fd, ready, events, is_stopped, running>>

\* Faulty variant: is_stopped_ is only looked at when nothing is reported.
ReturnWhenQuiet ==
  /\ Between /\ events = {} /\ is_stopped /\ ready = {}
  /\ running' = FALSE
  /\ UNCHANGED <<subscribers, fd, ready, events, current, is_stopped>>

\* The batch is finished and Stop() was called: Run() returns.
Return ==
  /\ Between /\ events = {} /\ is_stopped
  /\ running' = FALSE
  /\ UNCHANGED <<subscribers, fd, ready, events, current, is_stopped>>

-----------------------------------------------------------------------------
(* What handlers do to the poller.                                         *)

\* Faulty variant: Unsubscribe leaves the pointer in subscribers_.
UnsubscribedLeaky(closed) == subscribers

\* Unsubscribe: the objects being destroyed leave subscribers_.
Unsubscribed(closed) == subscribers \ closed

(***************************************************************************)
(* The handler called for the current bit returns; meanwhile it destroyed  *)
(* the objects in closed: each is unsubscribed and its descriptor closed,  *)
(* which takes it off the kernel's lists.                                  *)
(***************************************************************************)
HandlerReturns(closed) ==
  LET gone == {fd[s] : s \in closed}
      left == current.bits \ {NextBit(current.bits)}
  IN /\ subscribers' = Unsubscribed(closed)
     /\ fd' = [s \in Sub |-> IF s \in closed THEN NoFd ELSE fd[s]]
     /\ ready' = ready \ closed
     /\ events' = {[e EXCEPT !.live = @ /\ e.fd \notin gone] : e \in events}
     /\ current' = IF left = {} THEN Idle
                   ELSE [current EXCEPT
                           !.bits = left,
                           !.live = @ /\ current.sub \notin closed]

\* A handler that is still running creates and subscribes an object.
Subscribe(s, f) ==
  /\ s \notin subscribers
  /\ f \notin Open
  /\ subscribers' = subscribers \union {s}
  /\ fd' = [fd EXCEPT ![s] = f]

\* The kernel: something happened on the descriptors of S.
Wake(S) == ready' = ready \union (S \intersect subscribers)

-----------------------------------------------------------------------------
(* The loop with any disciplined handlers.                                 *)

\* Faulty variant: handlers without the discipline, that may both destroy
\* any object and open new ones.
HandlerAtWill(s) ==
  /\ \E bit \in Bits : Handling(s, bit)
  /\ \/ \E closed \in SUBSET subscribers : HandlerReturns(closed)
     \/ /\ \E n \in Sub, f \in Fd : Subscribe(n, f)
        /\ UNCHANGED <<ready, events, current>>
  /\ UNCHANGED <<is_stopped, running>>

Handler(s) ==
  /\ \E bit \in Bits : Handling(s, bit)
  /\ \/ \E closed \in SUBSET (Closes[s] \intersect subscribers) :
          /\ HandlerReturns(closed)
          /\ \E stop \in BOOLEAN : is_stopped' = (is_stopped \/ stop)
          /\ UNCHANGED running
     \/ /\ s \in Opens
        /\ \E n \in Sub, f \in Fd :
             /\ Subscribe(n, f)
             /\ ready' \in {ready, ready \union {n}}
        /\ UNCHANGED <<events, current, is_stopped, running>>

Kernel(s) ==
  /\ s \in subscribers
  /\ Wake({s})
  /\ UNCHANGED <<subscribers, fd, events, current, is_stopped, running>>

\* Poller::Run with the handlers it calls.
Run ==
  \/ \E mask \in [ready -> Masks \union {{}}] : EpollWait(mask)
  \/ Notify \/ Skip \/ Return
  \/ \E s \in Sub : Handler(s)

Next == Run \/ \E s \in Sub : Kernel(s)

Spec == Init /\ [][Next]_vars

\* The one thread of the process keeps running, and handlers return.
FairSpec == Spec /\ WF_vars(Run)

-----------------------------------------------------------------------------

(***************************************************************************)
(* Every handler that runs was caused by an event of the object it runs    *)
(* on: neither the descriptor in the batch nor the pointer in              *)
(* NotifySubscriber ever resolves to an object that took over the          *)
(* descriptor or the address of a destroyed one (Poller.cpp:95-126).       *)
(***************************************************************************)
HandlerOwnsEvent == current.bits # {} /\ Exists => current.live

(***************************************************************************)
(* The same one step earlier: no event left in the batch names a           *)
(* descriptor that now belongs to another registration (Poller.cpp:66-68). *)
(***************************************************************************)
BatchNotStale == \A e \in events : e.fd \in Open => e.live

(***************************************************************************)
(* Stop() ends the loop: whatever is left in the batch and whatever the    *)
(* kernel keeps reporting, Run() returns (Poller.cpp:64-73).               *)
(***************************************************************************)
StopTerminates == is_stopped ~> ~running

\* What makes the two invariants above inductive; see PollerProofs.
Registered ==
  /\ \A s \in Sub : fd[s] \in Fd <=> s \in subscribers
  /\ \A s, t \in subscribers : fd[s] = fd[t] => s = t
  /\ ready \subseteq subscribers

OneEventEach ==
  /\ \A e, g \in events : e.fd = g.fd => e = g
  /\ \A e \in events : e.live => e.fd \in Open
  /\ current.bits # {} /\ current.live =>
       /\ current.sub \in subscribers
       /\ \A e \in events : e.fd # fd[current.sub]

\* Where handlers open descriptors, no event in the batch has lost its owner.
OpenersKeepBatch == Opens # {} => \A e \in events : e.live

PollerInv ==
  TypeOK /\ Registered /\ OneEventEach /\ OpenersKeepBatch
         /\ BatchNotStale /\ HandlerOwnsEvent
=============================================================================

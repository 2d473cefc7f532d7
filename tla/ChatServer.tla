----------------------------- MODULE ChatServer -----------------------------
(***************************************************************************)
(* The chat_server process: utils::Poller, net::TcpConnectionReceiver, one *)
(* net::TcpSocket and chat::ServerConnection per client, and chat::Server, *)
(* with the peers and the kernel's side of their connections.              *)
(*                                                                         *)
(* Every step of the server is a step of the event loop of module Poller:  *)
(* the handlers below are what runs between two of its steps.  A peer is   *)
(* one connection; a client that comes back is another peer.               *)
(*                                                                         *)
(* A text is sent in two halves, so that a read may end inside a message,  *)
(* as TCP allows; what the parser does with bytes is module Parser's.      *)
(***************************************************************************)
EXTENDS Naturals, FiniteSets, Sequences

CONSTANTS
  Peer,          \* remote ends of connections
  Listener,      \* the TcpConnectionReceiver
  Null, NoFd,
  Fd,            \* file descriptors, numbers
  Limit,         \* INCOMING_CONNECTIONS_LIMIT, also the listen backlog
  Halves,        \* Halves[p]: how many half texts p writes at most
  Slow,          \* peers that may not read: a send to them may fail, wholly or
                 \* in part
  AcceptErrors,  \* accept() may fail with a pending network error
  MaxEvents      \* MAX_EVENTS

ASSUME ServerAssumption ==
  /\ Listener \notin Peer
  /\ Null \notin Peer \union {Listener}
  /\ Fd \subseteq Nat /\ NoFd \notin Fd
  /\ Limit \in Nat
  /\ Halves \in [Peer -> Nat]
  /\ Slow \subseteq Peer
  /\ AcceptErrors \in BOOLEAN
  /\ MaxEvents \in Nat \ {0}

VARIABLES
  \* utils::Poller and the kernel's epoll
  subscribers, fd, ready, events, current, is_stopped, running,
  \* the network
  peer,     \* each peer's end of its connection, "gone" once the server
            \* closed its own end
  backlog,  \* connections that wait in the listening socket
  sent,     \* sent[p]: halves that reached p's socket at the server
  \* net::TcpSocket, chat::Parser
  taken,    \* taken[p]: halves of sent[p] that have been read and parsed
  outbox,   \* outbox[p]: what SendData was called with, as the kernel took it
  \* chat::Server
  incoming_connections,          \* incoming_connections_
  incoming_connections_counter,  \* incoming_connections_counter_
  nick                           \* nick[p]: the K of p's "ClientK", 0 if none

loop == <<subscribers, fd, ready, events, current, is_stopped, running>>
\* What the network leaves alone of the loop: it only wakes descriptors.
idle_loop == <<subscribers, fd, events, current, is_stopped, running>>
network == <<peer, backlog, sent>>
server == <<taken, outbox, incoming_connections,
            incoming_connections_counter, nick>>
vars == <<loop, network, server>>

(***************************************************************************)
(* The event loop this server runs in: only the receiver opens sockets,    *)
(* and a handler destroys no object but the connection it is called on.    *)
(***************************************************************************)
Masks == {{"IN"}, {"OUT"}, {"IN", "OUT"}, {"IN", "OUT", "HUP", "ERR"}}

P == INSTANCE Poller WITH
       Sub <- Peer \union {Listener},
       Start <- {Listener},
       Opens <- {Listener},
       Closes <- [s \in Peer \union {Listener} |-> {s} \ {Listener}]

(***************************************************************************)
(* What the clients get of it is the room of module ChatRoom: a text is    *)
(* said once the server has read both of its halves.                       *)
(***************************************************************************)
R == INSTANCE ChatRoom WITH
       Client <- Peer,
       Texts <- [p \in Peer |-> Halves[p] \div 2],
       Deaf <- Slow,
       members <- incoming_connections,
       joined <- incoming_connections_counter,
       said <- [p \in Peer |-> taken[p] \div 2],
       inbox <- outbox

\* What the server sends.  A message is lost when send() fails or does not take
\* all of it.
Info(count) == [kind |-> "info", who |-> 0, n |-> count]
Text(who, n) == [kind |-> "text", who |-> who, n |-> n]
Leave(who) == [kind |-> "leave", who |-> who, n |-> 0]
Lost == [kind |-> "lost", who |-> 0, n |-> 0]

Message == [kind : {"info", "text", "leave", "lost"}, who : Nat, n : Nat]

TypeOK ==
  /\ P!TypeOK
  /\ peer \in [Peer -> {"idle", "up", "fin", "rst", "gone"}]
  /\ backlog \in Seq(Peer)
  /\ sent \in [Peer -> Nat]
  /\ taken \in [Peer -> Nat]
  /\ outbox \in [Peer -> Seq(Message)]
  /\ incoming_connections \subseteq Peer
  /\ incoming_connections_counter \in Nat
  /\ nick \in [Peer -> Nat]

\* The listening socket took the lowest descriptor.
Init ==
  /\ P!Init
  /\ \A g \in Fd : fd[Listener] <= g
  /\ peer = [p \in Peer |-> "idle"]
  /\ backlog = <<>>
  /\ sent = [p \in Peer |-> 0]
  /\ taken = [p \in Peer |-> 0]
  /\ outbox = [p \in Peer |-> <<>>]
  /\ incoming_connections = {}
  /\ incoming_connections_counter = 0
  /\ nick = [p \in Peer |-> 0]

-----------------------------------------------------------------------------
(* The network: peers and the kernel's side of their connections.          *)

Connect(p) ==
  /\ peer[p] = "idle"
  /\ Len(backlog) <= Limit
  /\ peer' = [peer EXCEPT ![p] = "up"]
  /\ backlog' = Append(backlog, p)
  /\ P!Wake({Listener})
  /\ UNCHANGED <<idle_loop, sent, server>>

\* The next half of p's texts arrives.
Arrive(p) ==
  /\ peer[p] = "up" /\ sent[p] < Halves[p]
  /\ sent' = [sent EXCEPT ![p] = @ + 1]
  /\ P!Wake({p})
  /\ UNCHANGED <<idle_loop, peer, backlog, server>>

\* p shuts its connection down, or p or the network resets it.
Disconnect(p) ==
  /\ \/ peer[p] = "up" /\ peer' = [peer EXCEPT ![p] = "fin"]
     \/ peer[p] \in {"up", "fin"} /\ peer' = [peer EXCEPT ![p] = "rst"]
  /\ P!Wake({p})
  /\ UNCHANGED <<idle_loop, backlog, sent, server>>

\* Faulty variant: epoll is asked for a bit NotifySubscriber does not know.
MaskUnknownBit(s) == IF s = Listener THEN {"IN"} ELSE {"OUT", "RDHUP"}

\* The state of the descriptor of s, as epoll_wait reports it.
Mask(s) ==
  IF s = Listener THEN IF backlog = <<>> THEN {} ELSE {"IN"}
  ELSE CASE peer[s] = "rst" -> {"IN", "OUT", "HUP", "ERR"}
         [] peer[s] = "fin" -> {"IN", "OUT"}
         [] OTHER -> IF sent[s] > taken[s] THEN {"IN", "OUT"} ELSE {"OUT"}

Network ==
  \E p \in Peer : Connect(p) \/ Arrive(p) \/ Disconnect(p)

-----------------------------------------------------------------------------
(* The event loop.                                                         *)

EpollWait ==
  /\ P!EpollWait([s \in ready |-> Mask(s)])
  /\ UNCHANGED <<network, server>>

Dispatch ==
  /\ P!Notify \/ P!Skip
  /\ UNCHANGED <<network, server>>

\* A handler returns that destroyed the connections in closed.  Nothing in
\* the server calls Stop().
Returns(closed) ==
  /\ P!HandlerReturns(closed)
  /\ UNCHANGED <<is_stopped, running>>

\* TcpSocket::OnOut of an accepted connection, which is connected already.
OnOut(p) ==
  /\ P!Handling(p, "OUT")
  /\ Returns({})
  /\ UNCHANGED <<network, server>>

-----------------------------------------------------------------------------
(* chat::Server's messages.                                                *)

(***************************************************************************)
(* SendData on each of the connections in targets, for each message of     *)
(* msgs.  The socket buffer of a slow peer may be full, or have room for a *)
(* part of the message: what it does not take is dropped.                  *)
(***************************************************************************)
Send(targets, msgs) ==
  \E lost \in SUBSET ((targets \intersect Slow) \X DOMAIN msgs) :
    outbox' = [q \in Peer |->
                 IF q \in targets
                 THEN outbox[q] \o [i \in DOMAIN msgs |->
                        IF <<q, i>> \in lost THEN Lost ELSE msgs[i]]
                 ELSE outbox[q]]

-----------------------------------------------------------------------------
(* TcpConnectionReceiver::OnIn: one action per turn of its accept loop.    *)

Accepting(p) ==
  /\ P!Handling(Listener, "IN")
  /\ backlog # <<>> /\ p = Head(backlog)
  /\ backlog' = Tail(backlog)

\* Faulty variant: the nick name is made from the number of clients.
AdmitNickBySize(p) ==
  LET members == incoming_connections \union {p}
  IN /\ Accepting(p)
     /\ Cardinality(incoming_connections) < Limit
     /\ \E f \in Fd :
          /\ \A g \in Fd \ P!Open : f <= g
          /\ P!Subscribe(p, f)
     /\ ready' = ready \union {p}
     /\ incoming_connections_counter' = incoming_connections_counter + 1
     /\ nick' = [nick EXCEPT ![p] = Cardinality(members)]
     /\ incoming_connections' = members
     /\ Send(members, <<Info(Cardinality(members))>>)
     /\ UNCHANGED <<events, current, is_stopped, running, peer, sent, taken>>

\* OnNewConnection below the limit.  The descriptor is the lowest free one.
Admit(p) ==
  LET members == incoming_connections \union {p}
  IN /\ Accepting(p)
     /\ Cardinality(incoming_connections) < Limit
     /\ \E f \in Fd :
          /\ \A g \in Fd \ P!Open : f <= g
          /\ P!Subscribe(p, f)
     /\ ready' = ready \union {p}
     /\ incoming_connections_counter' = incoming_connections_counter + 1
     /\ nick' = [nick EXCEPT ![p] = incoming_connections_counter']
     /\ incoming_connections' = members
     /\ Send(members, <<Info(Cardinality(members))>>)
     /\ UNCHANGED <<events, current, is_stopped, running, peer, sent, taken>>

\* Faulty variant: the new socket is not closed.
RefuseLeaky(p) ==
  /\ Accepting(p)
  /\ Cardinality(incoming_connections) >= Limit
  /\ \E f \in Fd : P!Subscribe(p, f)
  /\ UNCHANGED <<ready, events, current, is_stopped, running, peer, sent, server>>

\* OnNewConnection at the limit: the new socket is closed at once.
Refuse(p) ==
  /\ Accepting(p)
  /\ Cardinality(incoming_connections) >= Limit
  /\ peer' = [peer EXCEPT ![p] = "gone"]
  /\ UNCHANGED <<loop, sent, server>>

\* Faulty variant: one accept() per event.
AcceptOnce ==
  /\ P!Handling(Listener, "IN")
  /\ Returns({})
  /\ UNCHANGED <<network, server>>

\* accept() has nothing (more) to return: the loop ends.
AcceptDone ==
  /\ P!Handling(Listener, "IN")
  /\ backlog = <<>>
  /\ Returns({})
  /\ UNCHANGED <<network, server>>

(***************************************************************************)
(* accept() returns another error than EAGAIN: for want of resources, or   *)
(* that of a connection which is already gone, which then leaves the       *)
(* backlog.  The loop ends, whatever else is waiting.                      *)
(***************************************************************************)
AcceptFails ==
  /\ AcceptErrors
  /\ P!Handling(Listener, "IN")
  /\ backlog # <<>>
  /\ \/ UNCHANGED backlog
     \/ peer[Head(backlog)] = "rst" /\ backlog' = Tail(backlog)
  /\ Returns({})
  /\ UNCHANGED <<peer, sent, server>>

-----------------------------------------------------------------------------
(* TcpSocket and ServerConnection of p.                                    *)

\* What ParseData finds complete once arrived halves of p have been read.
Complete(p, arrived) ==
  [i \in 1..(arrived \div 2 - taken[p] \div 2) |->
     Text(nick[p], taken[p] \div 2 + i)]

\* OnIn of p read up to arrived and returns; the texts go to targets.
Relay(p, arrived, targets) ==
  /\ taken' = [taken EXCEPT ![p] = arrived]
  /\ Send(targets, Complete(p, arrived))
  /\ Returns({})
  /\ UNCHANGED <<network, incoming_connections,
                 incoming_connections_counter, nick>>

\* Faulty variants: OnIn reads once only; OnIn stops at a short read,
\* before it sees the end of file; what was parsed stays in the parser's
\* buffer.
OnDataOneRead(p) ==
  /\ P!Handling(p, "IN") /\ peer[p] = "up"
  /\ Relay(p, taken[p] + 1, incoming_connections \ {p})

OnDataShortRead(p) ==
  /\ P!Handling(p, "IN") /\ peer[p] \in {"up", "fin"}
  /\ Relay(p, sent[p], incoming_connections \ {p})

OnDataKept(p) ==
  /\ P!Handling(p, "IN") /\ peer[p] = "up"
  /\ \E seen \in {0, sent[p]} :
       /\ taken' = [taken EXCEPT ![p] = seen]
       /\ Send(incoming_connections \ {p}, Complete(p, sent[p]))
  /\ Returns({})
  /\ UNCHANGED <<network, incoming_connections,
                 incoming_connections_counter, nick>>

\* OnIn up to EAGAIN: ParseData relays each text that is complete by now.
OnData(p) ==
  /\ P!Handling(p, "IN") /\ peer[p] = "up"
  /\ Relay(p, sent[p], incoming_connections \ {p})

\* The bits whose handler ends p's connection.
Ending(p) ==
  {"HUP", "ERR"} \union (IF peer[p] \in {"fin", "rst"} THEN {"IN"} ELSE {})

\* Faulty variant: the connection that is erased need not be the one that
\* ended.
RemoveClientOther(p, msgs) ==
  \E q \in incoming_connections :
    /\ incoming_connections' = incoming_connections \ {q}
    /\ Send(incoming_connections \ {q}, msgs)
    /\ peer' = [peer EXCEPT ![q] = "gone"]
    /\ UNCHANGED <<backlog, sent, taken, incoming_connections_counter, nick>>

\* Server::RemoveClient of p, with what it then sends to the members left.
RemoveClient(p, msgs) ==
  /\ incoming_connections' = incoming_connections \ {p}
  /\ Send(incoming_connections \ {p}, msgs)
  /\ peer' = [peer EXCEPT ![p] = "gone"]
  /\ UNCHANGED <<backlog, sent, taken, incoming_connections_counter, nick>>

\* Faulty variants: the leave message comes before the count; the count is
\* not sent; other connections that ended are closed along with p.
OnClosedLeaveFirst(p) ==
  /\ \E bit \in Ending(p) : P!Handling(p, bit)
  /\ RemoveClient(p, <<Leave(nick[p]),
                       Info(Cardinality(incoming_connections \ {p}))>>)
  /\ Returns({p})

OnClosedNoCount(p) ==
  /\ \E bit \in Ending(p) : P!Handling(p, bit)
  /\ RemoveClient(p, <<Leave(nick[p])>>)
  /\ Returns({p})

OnClosedSweep(p) ==
  /\ \E bit \in Ending(p) : P!Handling(p, bit)
  /\ RemoveClient(p, <<Info(Cardinality(incoming_connections \ {p})),
                       Leave(nick[p])>>)
  /\ Returns({q \in incoming_connections : peer[q] \in {"fin", "rst"}})

(***************************************************************************)
(* OnIn up to end of file or an error, or OnClosed or OnError: what this   *)
(* call read is dropped, and the server destroys the connection.           *)
(***************************************************************************)
OnClosed(p) ==
  /\ \E bit \in Ending(p) : P!Handling(p, bit)
  /\ RemoveClient(p, <<Info(Cardinality(incoming_connections \ {p})),
                       Leave(nick[p])>>)
  /\ Returns({p})

-----------------------------------------------------------------------------

Server ==
  \/ EpollWait
  \/ Dispatch
  \/ AcceptDone
  \/ AcceptFails
  \/ \E p \in Peer : \/ Admit(p) \/ Refuse(p)
                     \/ OnOut(p) \/ OnData(p) \/ OnClosed(p)

Next == Server \/ Network

Spec == Init /\ [][Next]_vars

\* The server's thread keeps running; nothing is assumed of the network.
FairSpec == Spec /\ WF_vars(Server)

-----------------------------------------------------------------------------
(* Safety.                                                                 *)

(***************************************************************************)
(* The poller knows the receiver and exactly the connections the server    *)
(* knows, each with a descriptor of its own, and there are never more than *)
(* the README's limit (Server.cpp:21-40, TcpSocket.cpp:20-31).             *)
(***************************************************************************)
SubscribersMatch ==
  /\ subscribers = incoming_connections \union {Listener}
  /\ \A s, t \in subscribers : fd[s] = fd[t] => s = t
  /\ Cardinality(incoming_connections) <= Limit

(***************************************************************************)
(* A nick name is given once: no two connections, not even one of the past *)
(* and one of the present, share one (Server.cpp:28-32).                   *)
(***************************************************************************)
NicksUnique ==
  /\ \A p, q \in Peer : nick[p] = nick[q] /\ nick[p] # 0 => p = q
  /\ \A p \in Peer : nick[p] <= incoming_connections_counter
  /\ \A p \in incoming_connections : nick[p] # 0

(***************************************************************************)
(* The last count a client was told is the number of clients there are     *)
(* now (Server.cpp:71-76).                                                 *)
(***************************************************************************)
CountIsCurrent == R!CountIsCurrent

(***************************************************************************)
(* A client can follow who is there: the count goes up by one for a client *)
(* that came, and down by one exactly together with a leave message for    *)
(* the client that left (Server.cpp:58-83).                                *)
(***************************************************************************)
LeavesMatchCounts == R!LeavesMatchCounts

(***************************************************************************)
(* The leave message of a client comes after the last of its texts, comes  *)
(* once, and only for a client that is gone (Server.cpp:58-69, 78-83).     *)
(***************************************************************************)
LeaveIsFinal == R!LeaveIsFinal

(***************************************************************************)
(* What a client gets of another's texts has no gap, no repetition and no  *)
(* change of order, is up to date while both are there, starts with the    *)
(* first text of a client that came later, and is never an echo, if its    *)
(* sends always succeed (Server.cpp:45-52, Parser.cpp:64-82).              *)
(***************************************************************************)
TextsInOrder == R!TextsInOrder

(***************************************************************************)
(* The server is the room to its clients, whatever happens to their        *)
(* connections: each of its steps is one of the room's, or none that they  *)
(* notice (Server.h:20-21).                                                *)
(***************************************************************************)
RoomContract == R!Spec

(***************************************************************************)
(* Server.h:20-21 has the server send incoming messages to the other       *)
(* clients, without exception: a text that arrived completely is relayed   *)
(* before its sender, who then closed the connection in order, is removed. *)
(***************************************************************************)
NoTextDropped ==
  [][\A p \in incoming_connections \ incoming_connections' :
       peer[p] = "fin" => taken[p] \div 2 = sent[p] \div 2]_vars

(***************************************************************************)
(* The server never drops a client whose connection is still up            *)
(* (Server.cpp:54-69, TcpSocket.cpp:72-100).                               *)
(***************************************************************************)
OnlyDeadPeersRemoved ==
  [][\A p \in incoming_connections \ incoming_connections' :
       peer[p] \in {"fin", "rst"}]_vars

(***************************************************************************)
(* The server is an instance of the event loop with its discipline, so     *)
(* what is proved of Poller holds of it (Poller.cpp:59-112).               *)
(***************************************************************************)
PollerContract == P!Spec

-----------------------------------------------------------------------------
(* Liveness.                                                               *)

(***************************************************************************)
(* A client whose connection ended is removed (TcpSocket.cpp:86-95): the   *)
(* edge that reports the end is never lost, whatever is being dispatched.  *)
(***************************************************************************)
DeadPeersRemoved ==
  \A p \in Peer :
    p \in incoming_connections /\ peer[p] \in {"fin", "rst"}
      ~> p \notin incoming_connections

(***************************************************************************)
(* A complete text that arrived is relayed, unless the sender's connection *)
(* ends first (TcpSocket.cpp:72-84).                                       *)
(***************************************************************************)
TextsRelayed ==
  \A p \in Peer : \A k \in 1..(Halves[p] \div 2) :
    p \in incoming_connections /\ sent[p] >= 2 * k
      ~> taken[p] >= 2 * k \/ peer[p] # "up"

(***************************************************************************)
(* A connection that waits in the backlog is accepted or refused           *)
(* (TcpConnectionReceiver.cpp:67-89).                                      *)
(***************************************************************************)
Waiting(p) == \E i \in DOMAIN backlog : backlog[i] = p

BacklogDrained == \A p \in Peer : Waiting(p) ~> ~Waiting(p)
=============================================================================

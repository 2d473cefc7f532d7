----------------------------- MODULE ChatClient -----------------------------
(***************************************************************************)
(* The chat_client process once Run() is called: the event loop of module  *)
(* Poller with three objects in it, the TcpSocket (with the                *)
(* ClientConnection that owns it), its connection timer and the            *)
(* StdInputReader; chat::Client; and the kernel's side of the connection,  *)
(* of the timer and of the standard input.                                 *)
(*                                                                         *)
(* Messages from the server and lines from the user are counted, in the    *)
(* order in which they come.  What is printed is kept where it tells the   *)
(* user something: the errors and the messages.                            *)
(***************************************************************************)
EXTENDS Naturals, FiniteSets, Sequences

CONSTANTS
  Sock, Timer, Stdin,  \* the three subscribers
  Null, NoFd,
  Fd,                  \* file descriptors, numbers
  MaxMessages,         \* bound: messages the server sends
  MaxLines,            \* bound: lines the user types
  MaxEvents

Sub == {Sock, Timer, Stdin}

ASSUME ClientAssumption ==
  /\ Sock # Timer /\ Timer # Stdin /\ Sock # Stdin
  /\ Null \notin Sub /\ Fd \subseteq Nat /\ NoFd \notin Fd
  /\ MaxMessages \in Nat /\ MaxLines \in Nat
  /\ MaxEvents \in Nat \ {0}

VARIABLES
  subscribers, fd, ready, events, current, is_stopped, running,
  \* the kernel
  conn,        \* the socket: connecting, failed, up, fin or rst
  arrived,     \* messages that reached the socket
  expired,     \* the timer has gone off and was not read
  typed,       \* lines that were typed
  input,       \* the terminal: open, eof (Ctrl+D) or hup (it hung up)
  \* TcpSocket, ClientConnection, StdInputReader, Client
  connected_,  \* connected_ of the socket, its last value once it is destroyed
  shown,       \* messages of the server that were written to the screen
  taken,       \* lines that were read
  sent,        \* <<i, j>> for each message sent, made of the lines i..j
  errors,      \* what WriteError printed
  crashed      \* the process died of a null pointer

loop == <<subscribers, fd, ready, events, current, is_stopped, running>>
kernel == <<conn, arrived, expired, typed, input>>
client == <<connected_, shown, taken, sent, errors, crashed>>
vars == <<loop, kernel, client>>

\* client_connection_ owns the socket, which owns the timer.
Masks == (SUBSET {"IN", "OUT"}) \union {{"IN", "OUT", "HUP", "ERR"}}

P == INSTANCE Poller WITH
       Start <- Sub,
       Opens <- {},
       Closes <- [s \in Sub |-> {Sock, Timer}]

ClientConnectionExists == Sock \in subscribers

TypeOK ==
  /\ P!TypeOK
  /\ conn \in {"connecting", "failed", "up", "fin", "rst"}
  /\ arrived \in 0..MaxMessages /\ shown \in 0..arrived
  /\ typed \in 0..MaxLines /\ taken \in 0..typed
  /\ expired \in BOOLEAN
  /\ input \in {"open", "eof", "hup"}
  /\ connected_ \in BOOLEAN
  /\ sent \in Seq(Nat \X Nat)
  /\ errors \in Seq({"timeout", "error", "closed"})
  /\ crashed \in BOOLEAN

\* The standard input is open from the start; Connect() makes the socket,
\* then the timer, each with the lowest free descriptor.
Init ==
  /\ P!Init
  /\ fd[Stdin] < fd[Sock] /\ fd[Sock] < fd[Timer]
  /\ conn = "connecting" /\ arrived = 0
  /\ expired = FALSE
  /\ typed = 0 /\ input = "open"
  /\ connected_ = FALSE
  /\ shown = 0 /\ taken = 0 /\ sent = <<>>
  /\ errors = <<>>
  /\ crashed = FALSE

-----------------------------------------------------------------------------
(* The kernel: the other end of the connection, the clock and the user.    *)

\* What the kernel leaves alone: it only wakes descriptors.
idle_loop == <<subscribers, fd, events, current, is_stopped, running>>

ConnChanges(state) ==
  /\ conn' = state
  /\ P!Wake({Sock})
  /\ UNCHANGED <<idle_loop, arrived, expired, typed, input, client>>

Established == conn = "connecting" /\ ConnChanges("up")
Failed == conn = "connecting" /\ ConnChanges("failed")
PeerCloses == conn = "up" /\ ConnChanges("fin")
PeerResets == conn \in {"up", "fin"} /\ ConnChanges("rst")

Arrive ==
  /\ conn = "up" /\ arrived < MaxMessages
  /\ arrived' = arrived + 1
  /\ P!Wake({Sock})
  /\ UNCHANGED <<idle_loop, conn, expired, typed, input, client>>

\* The timer goes off once.
Expire ==
  /\ Timer \in subscribers /\ ~expired
  /\ expired' = TRUE
  /\ P!Wake({Timer})
  /\ UNCHANGED <<idle_loop, conn, arrived, typed, input, client>>

TypeLine ==
  /\ input = "open" /\ typed < MaxLines
  /\ typed' = typed + 1
  /\ P!Wake({Stdin})
  /\ UNCHANGED <<idle_loop, conn, arrived, expired, input, client>>

EndInput ==
  /\ input = "open"
  /\ input' \in {"eof", "hup"}
  /\ P!Wake({Stdin})
  /\ UNCHANGED <<idle_loop, conn, arrived, expired, typed, client>>

\* Faulty variant: epoll is asked for a bit NotifySubscriber does not know.
MaskUnknownBit(s) == IF s = Sock THEN {"OUT", "RDHUP"} ELSE {"IN"}

\* The state of the descriptor of s, as epoll_wait reports it.
Mask(s) ==
  CASE s = Sock ->
         (CASE conn = "connecting" -> {}
            [] conn \in {"failed", "rst"} -> {"IN", "OUT", "HUP", "ERR"}
            [] conn = "fin" -> {"IN", "OUT"}
            [] conn = "up" -> {"OUT"} \union
                              (IF arrived > shown THEN {"IN"} ELSE {}))
    [] s = Timer -> IF expired THEN {"IN"} ELSE {}
    [] s = Stdin ->
         (CASE input = "hup" -> {"IN", "OUT", "HUP", "ERR"}
            [] input = "eof" -> {"IN", "OUT"}
            [] OTHER -> {"OUT"} \union (IF typed > taken THEN {"IN"} ELSE {}))

Kernel ==
  /\ running /\ ~crashed
  /\ Established \/ Failed \/ PeerCloses \/ PeerResets \/ Arrive
       \/ Expire \/ TypeLine \/ EndInput

-----------------------------------------------------------------------------
(* The event loop.                                                         *)

EpollWait ==
  /\ P!EpollWait([s \in ready |-> Mask(s)])
  /\ UNCHANGED <<kernel, client>>

Dispatch ==
  /\ P!Notify \/ P!Skip
  /\ UNCHANGED <<kernel, client>>

Return ==
  /\ P!Return
  /\ UNCHANGED <<kernel, client>>

\* A handler returns that destroyed nothing.
Returns ==
  /\ P!HandlerReturns({})
  /\ UNCHANGED <<is_stopped, running>>

\* Faulty variants: the connection is not destroyed; the reader is, too; the
\* loop is not stopped.
CloseClientStopOnly ==
  /\ P!HandlerReturns({})
  /\ is_stopped' = TRUE
  /\ UNCHANGED running

CloseClientAll ==
  /\ P!HandlerReturns(subscribers)
  /\ is_stopped' = TRUE
  /\ UNCHANGED running

CloseClientNoStop ==
  /\ P!HandlerReturns({Sock, Timer} \intersect subscribers)
  /\ UNCHANGED <<is_stopped, running>>

\* Client::CloseClient: the connection is destroyed with its socket and, if
\* it still has one, its timer; the loop is stopped.
CloseClient ==
  /\ P!HandlerReturns({Sock, Timer} \intersect subscribers)
  /\ is_stopped' = TRUE
  /\ UNCHANGED running

\* Client::OnConnectionTimeout, OnConnectionError and OnConnectionClosed.
ConnectionEnds(error) ==
  /\ errors' = Append(errors, error)
  /\ CloseClient
  /\ UNCHANGED <<connected_, shown, taken, sent, crashed>>

-----------------------------------------------------------------------------
(* TcpSocket and its timer.                                                *)

\* Faulty variant: the timer is not destroyed.
ConnectSucceedsTimerKept ==
  /\ P!Handling(Sock, "OUT")
  /\ ~connected_ /\ conn \in {"up", "fin"}
  /\ connected_' = TRUE
  /\ Returns
  /\ UNCHANGED <<kernel, shown, taken, sent, errors, crashed>>

\* OnOut: the first one tells the result of connect() and stops the timer.
ConnectSucceeds ==
  /\ P!Handling(Sock, "OUT")
  /\ ~connected_ /\ conn \in {"up", "fin"}
  /\ connected_' = TRUE
  /\ P!HandlerReturns({Timer} \intersect subscribers)
  /\ UNCHANGED <<is_stopped, running, kernel, shown, taken, sent, errors, crashed>>

ConnectFails ==
  /\ P!Handling(Sock, "OUT")
  /\ ~connected_ /\ conn \in {"failed", "rst"}
  /\ ConnectionEnds("error")
  /\ UNCHANGED kernel

\* OnOut of a connected socket and of the reader.
OnOut(s) ==
  /\ P!Handling(s, "OUT")
  /\ s = Sock => connected_
  /\ Returns
  /\ UNCHANGED <<kernel, client>>

\* Faulty variants: OnIn stops at a short read; OnIn reads only once.
OnDataShortRead ==
  /\ P!Handling(Sock, "IN")
  /\ conn \in {"up", "fin"}
  /\ shown' = arrived
  /\ Returns
  /\ UNCHANGED <<kernel, connected_, taken, sent, errors, crashed>>

OnDataOneRead ==
  /\ P!Handling(Sock, "IN")
  /\ conn = "up"
  /\ shown' = shown + 1
  /\ Returns
  /\ UNCHANGED <<kernel, connected_, taken, sent, errors, crashed>>

\* OnIn up to EAGAIN: every message that arrived is shown.
OnData ==
  /\ P!Handling(Sock, "IN")
  /\ conn = "up"
  /\ shown' = arrived
  /\ Returns
  /\ UNCHANGED <<kernel, connected_, taken, sent, errors, crashed>>

\* OnIn up to end of file or an error, OnClosed and OnError: what this call
\* read is dropped.
OnClosed ==
  /\ \/ /\ P!Handling(Sock, "IN")
        /\ conn = "fin" /\ ConnectionEnds("closed")
     \/ /\ P!Handling(Sock, "IN")
        /\ conn \in {"failed", "rst"} /\ ConnectionEnds("error")
     \/ P!Handling(Sock, "HUP") /\ ConnectionEnds("closed")
     \/ P!Handling(Sock, "ERR") /\ ConnectionEnds("error")
  /\ UNCHANGED kernel

\* Faulty variant: the timeout is ignored, as ServerConnection ignores it.
OnTimeoutIgnored ==
  /\ P!Handling(Timer, "IN")
  /\ expired' = FALSE
  /\ Returns
  /\ UNCHANGED <<conn, arrived, typed, input, client>>

\* Timer::OnIn reads the timer and reports the timeout.
OnTimeout ==
  /\ P!Handling(Timer, "IN")
  /\ expired' = FALSE
  /\ ConnectionEnds("timeout")
  /\ UNCHANGED <<conn, arrived, typed, input>>

-----------------------------------------------------------------------------
(* StdInputReader and what Client makes of it.                             *)

\* Faulty variant: what was read stays in the buffer.
OnMessageReadKept ==
  /\ P!Handling(Stdin, "IN")
  /\ input = "open" /\ ClientConnectionExists
  /\ taken' = typed
  /\ sent' = IF connected_ THEN Append(sent, <<1, typed>>) ELSE sent
  /\ Returns
  /\ UNCHANGED <<kernel, connected_, shown, errors, crashed>>

\* OnIn up to EAGAIN: all lines that were typed make one message, which is
\* sent if the socket is connected and forgotten if it is not yet.
OnMessageRead ==
  /\ P!Handling(Stdin, "IN")
  /\ input = "open" /\ ClientConnectionExists
  /\ taken' = typed
  /\ sent' = IF connected_ THEN Append(sent, <<taken + 1, typed>>) ELSE sent
  /\ Returns
  /\ UNCHANGED <<kernel, connected_, shown, errors, crashed>>

\* The same when client_connection_ has been reset already.
OnMessageReadNull ==
  /\ P!Handling(Stdin, "IN")
  /\ input = "open" /\ ~ClientConnectionExists
  /\ taken' = typed
  /\ crashed' = TRUE
  /\ Returns
  /\ UNCHANGED <<kernel, connected_, shown, sent, errors>>

\* OnIn up to end of file, OnClosed or OnError: Client::OnReaderClosed.
OnReaderClosed ==
  /\ \/ P!Handling(Stdin, "IN") /\ input # "open"
     \/ \E bit \in {"HUP", "ERR"} : P!Handling(Stdin, bit)
  /\ taken' = typed
  /\ CloseClient
  /\ UNCHANGED <<kernel, connected_, shown, sent, errors, crashed>>

-----------------------------------------------------------------------------

Client ==
  /\ ~crashed
  /\ \/ EpollWait \/ Dispatch \/ Return
     \/ ConnectSucceeds \/ ConnectFails
     \/ \E s \in Sub : OnOut(s)
     \/ OnData \/ OnClosed \/ OnTimeout
     \/ OnMessageRead \/ OnMessageReadNull \/ OnReaderClosed

Next == Client \/ Kernel

Spec == Init /\ [][Next]_vars

(***************************************************************************)
(* The client's thread keeps running, and the timer goes off in the end;   *)
(* nothing is assumed of the server, of the network and of the user.       *)
(***************************************************************************)
FairSpec == Spec /\ WF_vars(Client) /\ WF_vars(running /\ ~crashed /\ Expire)

-----------------------------------------------------------------------------
(* Safety.                                                                 *)

(***************************************************************************)
(* The objects the poller may call are exactly those that exist: the       *)
(* socket until the client is stopped, the timer while it is connecting,   *)
(* the reader always (TcpSocket.cpp:54, 104-105, Client.cpp:76-80).        *)
(***************************************************************************)
SubscribersMatch ==
  /\ Stdin \in subscribers
  /\ is_stopped <=> Sock \notin subscribers
  /\ Timer \in subscribers <=> Sock \in subscribers /\ ~connected_

(***************************************************************************)
(* The user is told at most one reason for the end of the connection, and  *)
(* a timeout only for a connection that was never made, even when timeout, *)
(* connection and end come in one batch (TcpSocket.cpp:102-130).           *)
(***************************************************************************)
OneReason ==
  /\ Len(errors) <= 1
  /\ errors # <<>> => is_stopped
  /\ connected_ => errors # <<"timeout">>

(***************************************************************************)
(* Nothing is shown or sent before "Connected to server", although the     *)
(* socket reports data and connection together (Poller.cpp:98-105).        *)
(***************************************************************************)
ConnectedFirst == shown > 0 \/ sent # <<>> => connected_

(***************************************************************************)
(* Lines are sent in the order they were typed and none twice              *)
(* (StdInputReader.cpp:29-52, Client.cpp:61-70).                           *)
(***************************************************************************)
LinesInOrder ==
  \A i \in DOMAIN sent :
    /\ sent[i][1] <= sent[i][2] /\ sent[i][2] <= taken
    /\ i > 1 => sent[i - 1][2] < sent[i][1]

(***************************************************************************)
(* The client is an instance of the event loop with its discipline, so     *)
(* what is proved of Poller holds of it (Poller.cpp:59-112).               *)
(***************************************************************************)
PollerContract == P!Spec

(***************************************************************************)
(* Client.h:24-26: the client handles the network errors, notifies and     *)
(* terminates the application; it does not die of them.                    *)
(***************************************************************************)
NeverCrashes == ~crashed

-----------------------------------------------------------------------------
(* Liveness.                                                               *)

Exited == ~running \/ crashed

(***************************************************************************)
(* The client never waits for the server for ever: it gets connected or    *)
(* gives up, at the latest after the timeout (TcpSocket.cpp:46-54).        *)
(***************************************************************************)
ConnectingEnds == <>(connected_ \/ Exited)

(***************************************************************************)
(* The end of the connection or of the input ends the program              *)
(* (Client.cpp:50-58, 72-80), unless the connection is still being made,   *)
(* when ConnectingEnds says that it does not stay so.                      *)
(***************************************************************************)
EndsWithConnection == conn \in {"failed", "fin", "rst"} ~> Exited

EndsWithInput == input # "open" ~> Exited

(***************************************************************************)
(* A message that arrived is shown (TcpSocket.cpp:72-84), unless the       *)
(* connection or the program ends first; in particular when it arrived     *)
(* before the client noticed that it was connected.                        *)
(***************************************************************************)
MessagesShown ==
  \A k \in 1..MaxMessages :
    arrived >= k ~> shown >= k \/ conn # "up" \/ Exited
=============================================================================

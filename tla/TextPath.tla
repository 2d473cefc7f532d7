------------------------------ MODULE TextPath ------------------------------
(***************************************************************************)
(* The way of a text from one client to another, byte by byte: the client  *)
(* that sends builds a message, the server's ServerConnection parses it    *)
(* and builds the message for the others, with the sender's nick name in   *)
(* front, and the ClientConnection of the client that receives parses      *)
(* that.  The server also sends this client its own messages in between.   *)
(*                                                                         *)
(* Each direction is an instance of Parser.  The server's turn of the      *)
(* parsing loop calls OnTextMessage, so the two move in one step there.    *)
(***************************************************************************)
EXTENDS Naturals, FiniteSets, Sequences, SequencesExt

CONSTANTS
  MAX_MESSAGE_LENGTH,
  Texts,      \* what the user may type
  NickName,   \* the sender's nick name
  MaxTexts,   \* bound: texts that are sent
  MaxInfos    \* bound: messages the server sends of its own

VARIABLES
  typed, up, server_data, server_parsing, server_parsed, server_reference,
  relayed, down, client_data, client_parsing, client_parsed, client_reference

upward == <<typed, up, server_data, server_parsing, server_parsed, server_reference>>
downward == <<relayed, down, client_data, client_parsing, client_parsed, client_reference>>
vars == <<upward, downward>>

\* Faulty variant: the nick name follows the text.
TextMessageToClientSwapped(nick, text) == [header |-> "c", texts |-> <<text, nick>>]

TextMessageToServer(text) == [header |-> "s", texts |-> <<text>>]

TextMessageToClient(nick, text) == [header |-> "c", texts |-> <<nick, text>>]

ServerInfoMessage == [header |-> "i", texts |-> <<<<"1">>>>]

Up == INSTANCE Parser WITH
        Writes <- {TextMessageToServer(t) : t \in Texts},
        Junk <- {}, MaxWrites <- MaxTexts,
        sent <- typed, stream <- up, data_to_parse_ <- server_data,
        parsing <- server_parsing, parsed <- server_parsed,
        reference <- server_reference

Down == INSTANCE Parser WITH
        Writes <- {TextMessageToClient(NickName, t) : t \in Texts}
                    \union {ServerInfoMessage},
        Junk <- {}, MaxWrites <- MaxTexts + MaxInfos,
        sent <- relayed, stream <- down, data_to_parse_ <- client_data,
        parsing <- client_parsing, parsed <- client_parsed,
        reference <- client_reference

ASSUME TextPathAssumption ==
  /\ MAX_MESSAGE_LENGTH \in Nat \ {0, 1}
  /\ NickName \in Seq(Up!Byte \ {Up!SEPARATOR})
  /\ Texts \subseteq Seq(Up!Byte \ {Up!SEPARATOR})
  /\ MaxTexts \in Nat /\ MaxInfos \in Nat

\* Texts that fit into a message, both to the server and to the clients.
AllFit == Up!WritesSendable /\ Down!WritesSendable

\* The messages among the first n that Client shows a text of.
TextsIn(messages, n) == {i \in 1..n : messages[i].header = "c"}

\* Those it takes the number of clients from.
CountsIn(messages) == {i \in DOMAIN messages : messages[i].header = "i"}

Init == Up!Init /\ Down!Init

\* The sender's ClientConnection::SendTextMessage.
SendTextMessage(text) ==
  /\ Up!Write(TextMessageToServer(text))
  /\ UNCHANGED downward

\* ServerConnection::OnDataReceived, up to the first message.
ServerReceives ==
  /\ (\E n \in DOMAIN up : Up!ParseData(n)) \/ Up!Incomplete
  /\ UNCHANGED downward

\* Faulty variant: the text is sent on as it came, without the nick name.
RelayAsItCame ==
  /\ Up!ParseMessage
  /\ LET m == Last(server_parsed')
     IN IF m.header = "s"
        THEN Down!Write(TextMessageToServer(m.texts[1]))
        ELSE UNCHANGED downward

\* OnTextMessageToServer and Server::OnTextMessage; whatever else the
\* parser finds is ignored here.
Relay ==
  /\ Up!ParseMessage
  /\ LET m == Last(server_parsed')
     IN IF m.header = "s"
        THEN Down!Write(TextMessageToClient(NickName, m.texts[1]))
        ELSE UNCHANGED downward

\* Server::NotifyServerInfo, on account of other clients; it comes between
\* two handlers of this one.
NotifyServerInfo ==
  /\ ~server_parsing
  /\ Cardinality(CountsIn(relayed)) < MaxInfos
  /\ Down!Write(ServerInfoMessage)
  /\ UNCHANGED upward

\* ClientConnection::OnDataReceived of the other client.
ClientReceives ==
  /\ (\E n \in DOMAIN down : Down!ParseData(n)) \/ Down!ParseMessage \/ Down!Incomplete
  /\ UNCHANGED upward

Next ==
  \/ \E t \in Texts : SendTextMessage(t)
  \/ ServerReceives \/ Relay \/ NotifyServerInfo
  \/ ClientReceives

Spec == Init /\ [][Next]_vars

-----------------------------------------------------------------------------

(***************************************************************************)
(* The texts that a client is shown are those another client typed, in     *)
(* order, unchanged and under that client's nick name: the server sends    *)
(* incoming messages to the other clients (Server.h:20-21, Server.cpp:     *)
(* 45-52).                                                                 *)
(***************************************************************************)
TextsIntact ==
  \A i \in TextsIn(client_parsed, Len(client_parsed)) :
    LET k == Cardinality(TextsIn(client_parsed, i))
    IN /\ k <= Len(typed)
       /\ client_parsed[i].texts = <<NickName, typed[k].texts[1]>>

(***************************************************************************)
(* And none is missing once everything has arrived, nor any of the         *)
(* server's own messages, whatever texts are around them (Server.cpp:      *)
(* 71-76, Parser.cpp:64-114).                                              *)
(***************************************************************************)
AllArrived == up = <<>> /\ ~server_parsing /\ down = <<>> /\ ~client_parsing

NothingMissing ==
  /\ AllArrived =>
       Cardinality(TextsIn(client_parsed, Len(client_parsed))) = Len(typed)
  /\ down = <<>> /\ ~client_parsing =>
       Cardinality(CountsIn(client_parsed)) = Cardinality(CountsIn(relayed))

(***************************************************************************)
(* The same (Server.h:20-21) of the texts that fit into a message, when    *)
(* users type longer ones as well.                                         *)
(***************************************************************************)
Fits(text) == Len(Down!Build(TextMessageToClient(NickName, text))) <= MAX_MESSAGE_LENGTH

ShortTextsArrive ==
  AllArrived =>
    \A t \in Texts :
      Fits(t) =>
        Cardinality({i \in DOMAIN client_parsed :
                       client_parsed[i] = TextMessageToClient(NickName, t)})
          = Cardinality({i \in DOMAIN typed : typed[i].texts[1] = t})
=============================================================================

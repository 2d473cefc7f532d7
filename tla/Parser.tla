------------------------------- MODULE Parser -------------------------------
(***************************************************************************)
(* chat::Parser on one direction of a connection: the messages that the    *)
(* other end builds, the byte stream that cuts them anywhere, and the      *)
(* buffer that ParseData puts them together in again.                      *)
(*                                                                         *)
(* A message is a header and the texts that follow it; a byte is one of    *)
(* the few values that the parser tells apart.  Whether a prefix of the    *)
(* buffer is a whole message is said by Ends, byte for byte as             *)
(* ParseMessage finds out, and not by following its calls.                 *)
(***************************************************************************)
EXTENDS Naturals, FiniteSets, Sequences, SequencesExt

CONSTANTS
  MAX_MESSAGE_LENGTH,
  Writes,     \* the messages that the other end may send
  Junk,       \* byte sequences that it may send although no message is such
  MaxWrites   \* bound: how often it sends

SEPARATOR == "NUL"
Headers == {"s", "c", "l", "i"}
Digits == {"0", "1", "2"}
Byte == Headers \union Digits \union {SEPARATOR, "x"}

\* How many texts follow a header: the ParseText() and ParseInteger() calls.
Fields(header) == IF header = "c" THEN 2 ELSE 1

Message ==
  {m \in [header : Headers, texts : Seq(Seq(Byte \ {SEPARATOR}))] :
     Len(m.texts) = Fields(m.header)}

ASSUME ParserAssumption ==
  /\ MAX_MESSAGE_LENGTH \in Nat \ {0, 1}
  /\ Writes \subseteq Message
  /\ Junk \subseteq Seq(Byte)
  /\ MaxWrites \in Nat

VARIABLES
  sent,            \* the messages that were sent
  stream,          \* bytes that were sent and are still under way
  data_to_parse_,
  parsing,         \* ParseData is in its loop
  parsed,          \* what the callbacks were called with, and the errors
  reference        \* history: what a parser that never sees two bytes at
                   \* once has made of the bytes that arrived

vars == <<sent, stream, data_to_parse_, parsing, parsed, reference>>

-----------------------------------------------------------------------------
(* Bytes and messages.                                                     *)

BuildText(text) == Append(text, SEPARATOR)

\* The four Build functions.
Build(m) ==
  <<m.header, SEPARATOR>> \o BuildText(m.texts[1])
    \o (IF m.header = "c" THEN BuildText(m.texts[2]) ELSE <<>>)

\* Messages that are parsed as they are sent: the limit lets them through, and
\* a number is the digits that std::to_string makes of it.
Sendable(m) ==
  /\ Len(Build(m)) <= MAX_MESSAGE_LENGTH + 1
  /\ m.header = "i" => m.texts[1] \in Seq(Digits) \ {<<>>}

WritesSendable == \A m \in Writes : Sendable(m)

HeaderIsGood(b) == b[1] \in Headers /\ b[2] = SEPARATOR

\* The separators among the first n bytes that end a text.
TextEnds(b, n) == {k \in 3..n : b[k] = SEPARATOR}

\* Faulty variants: the length of a message is not limited; a text message
\* ends with the nick name.
EndsUnlimited(b, n) ==
  /\ n >= 2
  /\ \/ ~HeaderIsGood(b)
     \/ Cardinality(TextEnds(b, n)) = Fields(b[1])

EndsAfterNick(b, n) ==
  /\ n >= 2
  /\ \/ ~HeaderIsGood(b)
     \/ TextEnds(b, n) # {}
     \/ n > MAX_MESSAGE_LENGTH

\* ParseMessage needs no more than the first n bytes of b: the header is
\* wrong, the last text is complete, or the message is too long.
Ends(b, n) ==
  /\ n >= 2
  /\ \/ ~HeaderIsGood(b)
     \/ Cardinality(TextEnds(b, n)) = Fields(b[1])
     \/ n > MAX_MESSAGE_LENGTH

\* ... and not with fewer, so that it stops there.
Stops(b, n) == Ends(b, n) /\ \A k \in 1..(n - 1) : ~Ends(b, k)

Error == [header |-> "error", texts |-> <<>>]

\* std::stoul reads the digits that a text starts with.
Number(text) == SelectInSeq(Append(text, SEPARATOR), LAMBDA c : c \notin Digits) - 1

\* What ParseMessage makes of the bytes it has read.
Parsed(b) ==
  LET n == Len(b)
      ends == TextEnds(b, n)
      first == CHOOSE k \in ends : \A j \in ends : k <= j
      text == SubSeq(b, 3, first - 1)
      last == SubSeq(b, first + 1, n - 1)
      Is(texts) == [header |-> b[1], texts |-> texts]
  IN CASE ~HeaderIsGood(b) \/ Cardinality(ends) # Fields(b[1]) -> Error
       [] OTHER ->
            CASE b[1] = "c" -> Is(<<text, last>>)
              [] b[1] = "i" -> IF b[3] \in Digits
                               THEN Is(<<SubSeq(text, 1, Number(text))>>) ELSE Error
              [] OTHER -> Is(<<text>>)

\* The same decisions, made byte by byte.
Push(state, byte) ==
  LET b == Append(state.rest, byte)
  IN IF Ends(b, Len(b))
     THEN [out |-> Append(state.out, Parsed(b)), rest |-> <<>>]
     ELSE [out |-> state.out, rest |-> b]

-----------------------------------------------------------------------------

Init ==
  /\ sent = <<>> /\ stream = <<>>
  /\ data_to_parse_ = <<>> /\ parsing = FALSE /\ parsed = <<>>
  /\ reference = [out |-> <<>>, rest |-> <<>>]

Write(m) ==
  /\ Len(sent) < MaxWrites
  /\ sent' = Append(sent, m)
  /\ stream' = stream \o Build(m)
  /\ UNCHANGED <<data_to_parse_, parsing, parsed, reference>>

WriteJunk(bytes) ==
  /\ Len(sent) < MaxWrites
  /\ sent' = Append(sent, Error)
  /\ stream' = stream \o bytes
  /\ UNCHANGED <<data_to_parse_, parsing, parsed, reference>>

\* ParseData is called with the n bytes that have arrived.
ParseData(n) ==
  /\ ~parsing
  /\ n \in 1..Len(stream)
  /\ data_to_parse_' = data_to_parse_ \o SubSeq(stream, 1, n)
  /\ stream' = SubSeq(stream, n + 1, Len(stream))
  /\ parsing' = TRUE
  /\ reference' = FoldLeft(Push, reference, SubSeq(stream, 1, n))
  /\ UNCHANGED <<sent, parsed>>

\* Faulty variants: the whole buffer is erased after a message; only one
\* message is looked for.
ParseMessageClear ==
  /\ parsing
  /\ \E n \in DOMAIN data_to_parse_ :
       /\ Stops(data_to_parse_, n)
       /\ parsed' = Append(parsed, Parsed(SubSeq(data_to_parse_, 1, n)))
       /\ data_to_parse_' = <<>>
  /\ UNCHANGED <<sent, stream, parsing, reference>>

ParseMessageOnce ==
  /\ parsing
  /\ \E n \in DOMAIN data_to_parse_ :
       /\ Stops(data_to_parse_, n)
       /\ parsed' = Append(parsed, Parsed(SubSeq(data_to_parse_, 1, n)))
       /\ data_to_parse_' = SubSeq(data_to_parse_, n + 1, Len(data_to_parse_))
  /\ parsing' = FALSE
  /\ UNCHANGED <<sent, stream, reference>>

\* A turn of its loop that finds a message or an error: the bytes are erased.
ParseMessage ==
  /\ parsing
  /\ \E n \in DOMAIN data_to_parse_ :
       /\ Stops(data_to_parse_, n)
       /\ parsed' = Append(parsed, Parsed(SubSeq(data_to_parse_, 1, n)))
       /\ data_to_parse_' = SubSeq(data_to_parse_, n + 1, Len(data_to_parse_))
  /\ UNCHANGED <<sent, stream, parsing, reference>>

\* The loop ends at an incomplete message, which stays, or with no data.
Incomplete ==
  /\ parsing
  /\ \A n \in DOMAIN data_to_parse_ : ~Ends(data_to_parse_, n)
  /\ parsing' = FALSE
  /\ UNCHANGED <<sent, stream, data_to_parse_, parsed, reference>>

Next ==
  \/ \E m \in Writes : Write(m)
  \/ \E bytes \in Junk : WriteJunk(bytes)
  \/ \E n \in DOMAIN stream : ParseData(n)
  \/ ParseMessage
  \/ Incomplete

Spec == Init /\ [][Next]_vars

-----------------------------------------------------------------------------

(***************************************************************************)
(* However the network cuts the stream, and whatever it carries, the       *)
(* parser makes of it what it would make of single bytes: it does not      *)
(* matter that a message is parsed again from its start when more of it    *)
(* arrives (Parser.cpp:64-82).                                             *)
(***************************************************************************)
ChunksDoNotMatter ==
  ~parsing => reference = [out |-> parsed, rest |-> data_to_parse_]

\* The messages that were sent before anything that is no message.
Clean == {i \in DOMAIN sent : \A j \in 1..i : sent[j] # Error}

(***************************************************************************)
(* What was sent is what is parsed, in the same order, and all of it at    *)
(* once: nothing that is complete waits in the buffer for more data        *)
(* (Parser.cpp:27-158).                                                    *)
(***************************************************************************)
ParsedAsSent ==
  /\ \A i \in DOMAIN parsed \intersect Clean : parsed[i] = sent[i]
  /\ Clean = DOMAIN sent => Len(parsed) <= Len(sent)
  /\ ~parsing /\ stream = <<>> /\ Clean = DOMAIN sent => Len(parsed) = Len(sent)

(***************************************************************************)
(* A peer cannot make the buffer grow: between two calls it never holds    *)
(* more than MAX_MESSAGE_LENGTH bytes (Parser.cpp:72-81, 116-120).         *)
(***************************************************************************)
BufferBounded == ~parsing => Len(data_to_parse_) <= MAX_MESSAGE_LENGTH
=============================================================================

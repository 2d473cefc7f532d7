------------------------------ MODULE MCParser ------------------------------
(* Parser with messages of every kind, and with bytes that are none. *)
EXTENDS Parser

Texts == {<<>>, <<"x">>, <<"s", "x">>}

\* At most 7 bytes each, one more than MAX_MESSAGE_LENGTH = 6.
MCMessages ==
  {[header |-> "s", texts |-> <<t>>] : t \in Texts} \union
  {[header |-> "c", texts |-> <<<<"x">>, t>>] : t \in Texts} \union
  {[header |-> "l", texts |-> <<<<"x">>>>], [header |-> "i", texts |-> <<<<"1">>>>]}

\* Wrong headers, a wrong number, a text without an end.
MCJunk ==
  {<<"x">>, <<"NUL">>, <<"i", "NUL", "x", "NUL">>, <<"i", "NUL", "1", "x", "NUL">>,
   <<"c", "NUL", "x">>}

\* The messages are such as the theorem about them is for.
ASSUME MCParserAssumption == WritesSendable
=============================================================================

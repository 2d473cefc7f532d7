----------------------------- MODULE MCTextPath -----------------------------
(* TextPath with short texts. *)
EXTENDS TextPath

MCNickName == <<"x">>

\* A text of n bytes; "s" is also a header.
Xs(n) == [i \in 1..n |-> "x"]

\* With the nick name, at most one byte more than MAX_MESSAGE_LENGTH = 7.
ShortTexts == {<<>>, <<"s">>, <<"x", "s", "x">>}

\* One byte more: the server accepts it, the other clients do not.
LongTexts == {<<"s">>, Xs(4)}

\* The first of them are such as the theorems about them are for.
ASSUME MCTextPathAssumption == Texts = ShortTexts => AllFit
=============================================================================

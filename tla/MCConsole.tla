----------------------------- MODULE MCConsole ------------------------------
(* Console on a terminal of eleven rows and two columns. *)
EXTENDS Console

MCCharacter == {SP, NL, "a", "b", "x", "y", "z", "2", "i", "n", "f", "?", "!", ":", "e", "r"}
MCTexts == {<<"x", "y", "z">>}
MCCounts == {<<"2">>}
MCInfo == <<"i", "n", "f">>
MCConnecting == <<"?">>
MCConnected == <<"!">>
MCYou == <<":">>
MCError == <<"e", "r", "r">>
=============================================================================

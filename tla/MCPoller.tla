------------------------------ MODULE MCPoller ------------------------------
(* Poller with the discipline of the server; the client's, which opens     *)
(* nothing, is checked by ChatClient as it implements Poller.              *)
EXTENDS Poller

CONSTANTS l, a, b, f1, f2, f3

MCSub == {l, a, b}
MCFd == {f1, f2, f3}
MCMasks == {{"OUT"}, {"IN", "OUT"}, {"IN", "OUT", "HUP", "ERR"}}

\* The server: a listener opens connections, each destroys only itself.
ServerStart == {l}
ServerOpens == {l}
ServerCloses == [s \in MCSub |-> {s} \ {l}]
=============================================================================

---------------------------- MODULE MCChatServer ----------------------------
(* ChatServer on small sets of peers. *)
EXTENDS ChatServer

CONSTANTS a, b, c

MCPeer == {a, b, c}
MCPeer2 == {a, b}
MCFd == 1..4

\* Nobody writes; a writes one text, or two and b one.
Silent == [p \in MCPeer |-> 0]
OneText == [p \in MCPeer |-> IF p = a THEN 2 ELSE 0]
ThreeTexts == [p \in MCPeer2 |-> IF p = a THEN 4 ELSE 2]

\* One peer may be slow.
MCSlow == {c}
=============================================================================

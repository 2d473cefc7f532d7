-------------------------- MODULE MCSingleInstance --------------------------
(* SingleInstance with a server that runs and others that take its place. *)
EXTENDS SingleInstance

CONSTANTS s1, s2, s3

MCServer == {s1, s2, s3}
MCDaemon == {s3}
MCForced == {s2, s3}
MCPid == 1..5
=============================================================================

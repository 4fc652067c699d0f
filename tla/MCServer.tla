------------------------------ MODULE MCServer ------------------------------
(***************************************************************************)
(* An instance of Server: two connections, and few descriptors for them.   *)
(***************************************************************************)
EXTENDS Server

CONSTANTS c1, c2

Handlers == {readQueryFromClient, acceptTcpHandler}
=============================================================================

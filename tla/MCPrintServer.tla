--------------------------- MODULE MCPrintServer ----------------------------
(***************************************************************************)
(* PrintServer on instances TLC can exhaust.                               *)
(***************************************************************************)
EXTENDS PrintServer
CONSTANTS c1, c2, c3

TwoClients == {c1, c2}
ThreeClients == {c1, c2, c3}
=============================================================================

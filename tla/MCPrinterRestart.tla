-------------------------- MODULE MCPrinterRestart --------------------------
(***************************************************************************)
(* PrinterRestart on an instance TLC can exhaust.                          *)
(***************************************************************************)
EXTENDS PrinterRestart, TLC
CONSTANTS c1, c2

TwoClients == {c1, c2}
Alike == Permutations(TwoClients)
=============================================================================

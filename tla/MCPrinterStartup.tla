-------------------------- MODULE MCPrinterStartup --------------------------
(***************************************************************************)
(* PrinterStartup on an instance TLC can exhaust.                          *)
(***************************************************************************)
EXTENDS PrinterStartup
CONSTANTS c1, c2

TwoClients == {c1, c2}
=============================================================================

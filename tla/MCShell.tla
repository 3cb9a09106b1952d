------------------------------ MODULE MCShell ------------------------------
(* A small instance of Shell: two slots, so that the numbers of commands    *)
(* wrap around the table, and a window of one command.                      *)
EXTENDS Shell
CONSTANTS p1, p2
TwoPids == {p1, p2}
=============================================================================

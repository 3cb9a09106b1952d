------------------------------ MODULE MCSfsDisk -----------------------------
(***************************************************************************)
(* SfsDisk on a disk TLC can exhaust: two files of two blocks each, whose  *)
(* names nothing tells apart.                                              *)
(***************************************************************************)
EXTENDS SfsDisk, TLC

CONSTANTS one, other   \* the names after their slash

TwoNames == {<<"/", one>>, <<"/", other>>}
Alike == Permutations({one, other})
=============================================================================

------------------------------- MODULE MCFuse -------------------------------
(***************************************************************************)
(* Fuse with two threads, two files of one byte and two descriptors.       *)
(***************************************************************************)
EXTENDS Fuse
CONSTANTS t1, t2

TwoThreads == {t1, t2}
TwoNames == {<<"/", "a">>, <<"/", "b">>}
\* The start of a file, and an offset past its capacity.
StartAndPast == {0, Capacity}

ASSUME NamesApartHere == NamesApart
=============================================================================

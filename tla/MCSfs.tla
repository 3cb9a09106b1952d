-------------------------------- MODULE MCSfs -------------------------------
(***************************************************************************)
(* Sfs on disks TLC can exhaust: two files of two blocks each, with the    *)
(* code's relation between the number of data blocks and the files,        *)
(* NUM_FREE_BLOCKS_LIST.                                                   *)
(***************************************************************************)
EXTENDS Sfs

\* A name as FUSE passes it, and the same name as the tests pass it, which the
\* comparison in sfs_remove takes for the first one.
TwoNames == {<<"/", "a">>, <<"a">>}
OneName == {<<"/", "a">>}
=============================================================================

----------------------------- MODULE FileStore ------------------------------
(***************************************************************************)
(* What sfs_api.c gives a client that closes a file before removing it:    *)
(* files are arrays of Capacity bytes that start out as NUL, a handle is a *)
(* file and a position, and a write changes the bytes it passes over in    *)
(* its own file and nothing else.  There are no inodes and no blocks here. *)
(*                                                                         *)
(* Four things the library does not promise are left open: where the       *)
(* position of a reopened file starts, how much of a write is stored       *)
(* before the disk is full while the position runs ahead of it, which file *)
(* a remove hits, and whether it lowers the position of an open handle.    *)
(***************************************************************************)
EXTENDS Integers, Sequences

CONSTANTS
  Names,     \* the names of files
  Handles,   \* what open returns
  Capacity,  \* the bytes a file can have
  Bytes,     \* their values, NUL among them
  NUL,
  Buffers,   \* what clients write
  Absent     \* the contents of a file that does not exist

VARIABLES
  contents,  \* of each name, its bytes or Absent
  handles    \* of each handle, the name it is open on, or Absent, and the position

storeVars == <<contents, handles>>

Unused == [name |-> Absent, pos |-> 0]
InUse(name) == \E h \in Handles : handles[h].name = name

Init ==
  /\ contents = [name \in Names |-> Absent]
  /\ handles = [h \in Handles |-> Unused]

\* Moves handle h and no other.
Moves(h) ==
  /\ handles' = [handles EXCEPT ![h] = handles'[h]]
  /\ handles'[h].pos \in Nat

Open(name, h) ==
  /\ ~InUse(name) /\ handles[h].name = Absent
  /\ Moves(h) /\ handles'[h].name = name
  /\ IF contents[name] = Absent
     THEN /\ handles'[h].pos = 0
          /\ contents' = [contents EXCEPT
                            ![name] = [p \in 0 .. Capacity - 1 |-> NUL]]
     ELSE UNCHANGED contents

Close(h) ==
  /\ handles[h].name # Absent
  /\ handles' = [handles EXCEPT ![h] = Unused]
  /\ UNCHANGED contents

\* Reading and seeking.
Reposition(h) ==
  /\ handles[h].name # Absent
  /\ Moves(h) /\ handles'[h].name = handles[h].name
  /\ handles'[h].pos <= Capacity
  /\ UNCHANGED contents

\* The first k bytes of the buffer are stored; the position may go further.
Write(h, buf, k) ==
  LET name == handles[h].name
      at == handles[h].pos
  IN  /\ name # Absent
      /\ at + k <= Capacity
      /\ Moves(h) /\ handles'[h].name = name
      /\ handles'[h].pos \in at + k .. at + Len(buf)
      /\ contents' = [contents EXCEPT ![name] =
                        [p \in 0 .. Capacity - 1 |->
                           IF p \in at .. at + k - 1
                           THEN buf[p - at + 1] ELSE @[p]]]

\* Besides, clearing a bit outside the bitmap may lower a position by one.
Remove(name) ==
  /\ contents[name] # Absent /\ ~InUse(name)
  /\ contents' = [contents EXCEPT ![name] = Absent]
  /\ \/ UNCHANGED handles
     \/ \E h \in Handles :
          /\ handles[h].pos > 0
          /\ handles' = [handles EXCEPT ![h].pos = @ - 1]

Next ==
  \/ \E name \in Names, h \in Handles : Open(name, h)
  \/ \E h \in Handles : Close(h) \/ Reposition(h)
  \/ \E h \in Handles, buf \in Buffers : \E k \in 0 .. Len(buf) :
       Write(h, buf, k)
  \/ \E name \in Names : Remove(name)

Spec == Init /\ [][Next]_storeVars
=============================================================================

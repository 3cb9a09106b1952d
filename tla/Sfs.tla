-------------------------------- MODULE Sfs ---------------------------------
(***************************************************************************)
(* sfs_api.c: a file system in one directory.  An inode has an array of    *)
(* block pointers, slot n - 1 of the directory belongs to inode n, a       *)
(* descriptor is a pair of an inode and a position, and a bitmap says      *)
(* which data blocks are in use.                                           *)
(*                                                                         *)
(* One action is one call of the library; its result is a parameter of the *)
(* action.  The model starts after mksfs(1).  The copies of the tables on  *)
(* disk matter only to mksfs(0) and are not part of this module; the data  *)
(* blocks, which live nowhere else, are.                                   *)
(*                                                                         *)
(* The twelve direct pointers and the indirect ones are one array of       *)
(* FileBlocks pointers: the code treats the two parts alike.  A pointer is *)
(* the number of the data block counted from the first one, and 0 is none: *)
(* that block belongs to the root.                                         *)
(***************************************************************************)
EXTENDS Integers, Sequences, FiniteSets, FiniteSetsExt

Seqs == INSTANCE SequencesExt   \* it has a Remove of its own

CONSTANTS
  Names,       \* the names clients use, as sequences of characters
  NumInodes,   \* NUM_INODES, the root's among them
  FileBlocks,  \* MAX_DATA_BLOCKS_PER_FILE
  BlockSize,   \* BLOCK_SZ
  WordBits,    \* the bits of one entry of free_blocks
  Words,       \* NUM_ENTRIES_FREE_BLOCKS
  Bytes,       \* the values of a byte, NUL = 0 among them
  MaxBuffer,   \* bound: the longest buffer a client reads or writes
  MaxSize      \* bound: how far the counter of NUL bytes of a file goes

NoName == <<>>   \* the "" of a free slot of the directory
NUL == 0

ASSUME GeometryAssumption ==
  /\ NumInodes \in Nat \ {0, 1}
  /\ FileBlocks \in Nat \ {0}
  /\ BlockSize \in Nat \ {0}
  /\ WordBits \in Nat \ {0}
  /\ Words \in Nat \ {0}
  /\ MaxBuffer \in Nat /\ MaxSize \in Nat

ASSUME NamesAssumption == NoName \notin Names /\ NUL \in Bytes

VARIABLES
  table,         \* the inodes
  root,          \* the directory
  fdt,           \* the descriptors
  used,          \* free_blocks: the data blocks whose bit is set
  blocks,        \* the contents of the data blocks
  current_file   \* how many files the current listing has returned

vars == <<table, root, fdt, used, blocks, current_file>>

Files == 1 .. NumInodes - 1        \* inodes, but for the root's
Fds == 1 .. NumInodes - 1          \* what fopen returns
Blocks == 0 .. Words * WordBits - 1
Pointers == 0 .. FileBlocks - 1
Offsets == 0 .. BlockSize - 1
Capacity == FileBlocks * BlockSize
Closed == -1

Empty == [o \in Offsets |-> NUL]
NoBlocks == [b \in Pointers |-> 0]

\* mksfs(1), the first time the process calls it.
Init ==
  /\ table = [n \in Files |-> [taken |-> 0, size |-> 0, ptrs |-> NoBlocks]]
  /\ root = [n \in Files |-> [name |-> NoName, mode |-> 0]]
  /\ fdt = [d \in Fds |-> [inode |-> Closed, rwptr |-> 0]]
  /\ used = {0}
  /\ blocks = [x \in Blocks |-> Empty]
  /\ current_file = 0
-----------------------------------------------------------------------------
(* Lookups. *)

Named(name) == {n \in Files : root[n].name = name}

\* Variant of IsOpen: the last descriptor is not looked at.
IsOpenShort(n) == \E d \in Fds \ {NumInodes - 1} : fdt[d].inode = n

IsOpen(n) == \E d \in Fds : fdt[d].inode = n
FreeFds == {d \in Fds : fdt[d].inode = Closed}
FreeInodes == {n \in Files : table[n].taken = 0}

\* Variant of FreeBlocks: the bits are not looked at.
FreeBlocksUnmarked == Blocks \ {0}

FreeBlocks == Blocks \ used

\* The byte at a position of a file, NUL where no block is.
ByteAt(n, p) ==
  LET x == table[n].ptrs[p \div BlockSize]
  IN  IF x = 0 THEN NUL ELSE blocks[x][p % BlockSize]

\* sfs_getfilesize: the NUL bytes that were ever written, and the bytes that
\* are not NUL now, of the first slot that has the name.
FileSize(name) ==
  IF Named(name) = {} THEN 0
  ELSE LET n == Min(Named(name))
       IN  table[n].size
             + Cardinality({p \in 0 .. Capacity - 1 : ByteAt(n, p) # NUL})
-----------------------------------------------------------------------------
(* sfs_fopen and sfs_fclose. *)

OpenExisting(name, fd) ==
  /\ Named(name) # {}
  /\ \A n \in Named(name) : ~IsOpen(n)
  /\ FreeFds # {} /\ fd = Min(FreeFds)
  /\ LET n == Min(Named(name)) IN
       /\ fdt' = [fdt EXCEPT ![fd] = [inode |-> n, rwptr |-> FileSize(name)]]
       /\ root' = [root EXCEPT ![n].mode = 1]
       /\ table' = [table EXCEPT ![n].taken = 1]
  /\ UNCHANGED <<used, blocks, current_file>>

Create(name, fd) ==
  /\ Named(name) = {}
  /\ FreeInodes # {}
  /\ FreeFds # {} /\ fd = Min(FreeFds)
  /\ LET n == Min(FreeInodes) IN
       /\ fdt' = [fdt EXCEPT ![fd] = [inode |-> n, rwptr |-> 0]]
       /\ table' = [table EXCEPT ![n].taken = 1]
       /\ root' = [root EXCEPT ![n] = [name |-> name, mode |-> 1]]
  /\ UNCHANGED <<used, blocks, current_file>>

CannotOpen(name, fd) ==
  /\ \/ \E n \in Named(name) : IsOpen(n)
     \/ FreeFds = {}
     \/ Named(name) = {} /\ FreeInodes = {}
  /\ fd = -1
  /\ UNCHANGED vars

Fopen(name, fd) ==
  OpenExisting(name, fd) \/ Create(name, fd) \/ CannotOpen(name, fd)

\* Variant of Fclose: the position is left behind.
FcloseKeepsPosition(fd, r) ==
  IF fdt[fd].inode = Closed
  THEN r = -1 /\ UNCHANGED vars
  ELSE /\ r = 0
       /\ fdt' = [fdt EXCEPT ![fd].inode = Closed]
       /\ UNCHANGED <<table, root, used, blocks, current_file>>

Fclose(fd, r) ==
  IF fdt[fd].inode = Closed
  THEN r = -1 /\ UNCHANGED vars
  ELSE /\ r = 0
       /\ fdt' = [fdt EXCEPT ![fd] = [inode |-> Closed, rwptr |-> 0]]
       /\ UNCHANGED <<table, root, used, blocks, current_file>>
-----------------------------------------------------------------------------
(* sfs_fseek, sfs_fread and sfs_fwrite. *)

\* Variant of Fseek: a negative location is accepted.
FseekBelowZero(fd, loc, r) ==
  IF loc >= Capacity \/ fdt[fd].inode = Closed
  THEN r = -1 /\ UNCHANGED vars
  ELSE /\ r = 0
       /\ fdt' = [fdt EXCEPT ![fd].rwptr = loc]
       /\ UNCHANGED <<table, root, used, blocks, current_file>>

Fseek(fd, loc, r) ==
  IF loc < 0 \/ loc >= Capacity \/ fdt[fd].inode = Closed
  THEN r = -1 /\ UNCHANGED vars
  ELSE /\ r = 0
       /\ fdt' = [fdt EXCEPT ![fd].rwptr = loc]
       /\ UNCHANGED <<table, root, used, blocks, current_file>>

\* Reads up to the capacity of the file, whatever its size: where no block is,
\* NUL bytes.  `out' is what the call put into the buffer.  Of a file in which
\* no NUL was written only the other bytes count, and they are counted in the
\* whole buffer, with what the client had left in the part not reached.
Fread(fd, length, out, r) ==
  LET n == fdt[fd].inode
      at == fdt[fd].rwptr
  IN  IF n = Closed \/ at >= Capacity
      THEN r = 0 /\ out = <<>> /\ UNCHANGED vars
      ELSE LET end == Min({at + length, Capacity}) IN
           /\ out = [k \in 1 .. end - at |-> ByteAt(n, at + k - 1)]
           /\ LET chars == Cardinality({k \in DOMAIN out : out[k] # NUL}) IN
                r \in IF table[n].size = 0
                       THEN chars .. chars + length - Len(out)
                       ELSE {Len(out)}
           /\ fdt' = [fdt EXCEPT ![fd].rwptr = end]
           /\ UNCHANGED <<table, root, used, blocks, current_file>>

\* How many of a set of numbers are at most x, and the k-th smallest of them.
Rank(S, x) == Cardinality({y \in S : y <= x})
Nth(S, k) == CHOOSE x \in S : Rank(S, x) = k

\* The loop of sfs_fwrite goes from block to block.  It allocates the missing
\* ones, lowest free block first, and gives up at the first for which there is
\* none: the bytes meant for that block are counted, and lost.
Fwrite(fd, buf, r) ==
  LET n == fdt[fd].inode
      at == fdt[fd].rwptr
  IN  IF n = Closed \/ buf = <<>> \/ at >= Capacity
      THEN r = 0 /\ UNCHANGED vars
      ELSE IF FileSize(root[n].name) >= Capacity
      THEN r = 0 /\ UNCHANGED vars
      ELSE
      LET last == Min({at + Len(buf), Capacity}) - 1
          touched == at \div BlockSize .. last \div BlockSize
          missing == {b \in touched : table[n].ptrs[b] = 0}
          room == Cardinality(FreeBlocks)
          failed == {b \in missing : Rank(missing, b) = room + 1}
          stored == {b \in touched : \A f \in failed : b < f}
          end == IF failed = {} THEN last + 1
                 ELSE Min({(Min(failed) + 1) * BlockSize, last + 1})
          ptrs == [b \in Pointers |->
                     IF b \in missing \cap stored
                     THEN Nth(FreeBlocks, Rank(missing, b))
                     ELSE table[n].ptrs[b]]
          Byte(b, o) == LET p == b * BlockSize + o IN
                        IF p \in at .. end - 1 THEN buf[p - at + 1]
                        ELSE ByteAt(n, p)
          nuls == Cardinality({k \in 1 .. end - at : buf[k] = NUL})
      IN  /\ r = IF stored = {} THEN 0 ELSE end - at
          /\ table[n].size + nuls <= MaxSize
          /\ table' = [table EXCEPT ![n].ptrs = ptrs, ![n].size = @ + nuls]
          /\ used' = used \cup {ptrs[b] : b \in missing \cap stored}
          /\ blocks' = [x \in Blocks |->
                          IF \E b \in stored : ptrs[b] = x
                          THEN LET b == CHOOSE b \in stored : ptrs[b] = x
                               IN  [o \in Offsets |-> Byte(b, o)]
                          ELSE blocks[x]]
          /\ fdt' = [fdt EXCEPT ![fd].rwptr = end]
          /\ UNCHANGED <<root, current_file>>
-----------------------------------------------------------------------------
(* sfs_remove. *)

\* Variant of Matches: the comparison ends with the slash.
MatchesSlash(stored, file) ==
  stored = file \/ (stored # NoName /\ stored[1] = "/")

\* The comparison of a stored name with the one to remove: equal, or a slash
\* followed by a beginning of it.
Matches(stored, file) ==
  \/ stored = file
  \/ /\ stored # NoName /\ stored[1] = "/"
     /\ Seqs!IsPrefix(Tail(stored), file)

\* Variant of Freed: the bits of a word are counted from the wrong end.
FreedMirrored(X) == {WordBits - 1 - x : x \in {y \in X : y < WordBits}}

\* Variant of Freed: the last bit of the word is taken for one of the next.
FreedBelow(X) == {x \in X : x < WordBits - 1}

\* The bits that are cleared for the blocks in X: that of x when x lies in the
\* first word: the code takes the quotient and the remainder of
\* WordBits - 1 - x, which is negative for the others.  When the remainder is 0
\* again the quotient is a negative index and the code clears a bit of the
\* memory before the bitmap.
Freed(X) == {x \in X : x < WordBits}
BeforeBitmap(x) == x >= WordBits /\ (x - (WordBits - 1)) % WordBits = 0

\* That memory is the last descriptor's position, or, in another layout of the
\* globals, nothing that has the bit set.
Strayed(X) ==
  LET last == NumInodes - 1
      even == [fdt EXCEPT ![last].rwptr = @ - (@ % 2)]
  IN  IF \E x \in X : BeforeBitmap(x) THEN {fdt, even} ELSE {fdt}

\* Variant of FreeSlot: the slot is still listed.
FreeSlotListed == [name |-> NoName, mode |-> 1]

\* What becomes of the slot of the directory, and of the inode.
FreeSlot == [name |-> NoName, mode |-> 0]

\* Variants of CleanInode: the size, or the pointers, are not reset.
CleanInodeKeepsSize(i) == [taken |-> 0, size |-> i.size, ptrs |-> NoBlocks]
CleanInodeKeepsBlocks(i) == [taken |-> 0, size |-> 0, ptrs |-> i.ptrs]

CleanInode(i) ==
  [taken |-> 0, size |-> 0,
   ptrs |-> IF i.taken = 1 THEN NoBlocks ELSE i.ptrs]

Remove(file, r) ==
  LET hits == {n \in Files : Matches(root[n].name, file)} IN
  IF hits = {}
  THEN r = -1 /\ UNCHANGED vars
  ELSE
  LET n == Min(hits)
      open == {d \in Fds : fdt[d].inode = n}
      held == IF table[n].taken = 1
              THEN {table[n].ptrs[b] : b \in Pointers} \ {0}
              ELSE {}
  IN  /\ r = IF open = {} THEN -1 ELSE Min(open)
      /\ root' = [root EXCEPT ![n] = FreeSlot]
      /\ table' = [table EXCEPT ![n] = CleanInode(@)]
      /\ used' = used \ Freed(held)
      /\ blocks' = [x \in Blocks |-> IF x \in held THEN Empty ELSE blocks[x]]
      /\ fdt' \in Strayed(held)
      /\ current_file' = 0
-----------------------------------------------------------------------------
(* sfs_getnextfilename. *)

Listed == {n \in Files : root[n].mode = 1}

\* Variant of Getnextfilename: the last file is left out.
GetnextfilenameShort(name, r) ==
  /\ IF FreeInodes # Files /\ current_file + 1 < Cardinality(Listed)
     THEN /\ r = 1
          /\ name = root[Nth(Listed, current_file + 1)].name
          /\ current_file' = current_file + 1
     ELSE r = 0 /\ name = NoName /\ current_file' = 0
  /\ UNCHANGED <<table, root, fdt, used, blocks>>

\* Variant of Getnextfilename: the cursor is not put back at the end.
GetnextfilenameStays(name, r) ==
  /\ IF FreeInodes # Files /\ current_file < Cardinality(Listed)
     THEN /\ r = 1
          /\ name = root[Nth(Listed, current_file + 1)].name
          /\ current_file' = current_file + 1
     ELSE r = 0 /\ name = NoName /\ UNCHANGED current_file
  /\ UNCHANGED <<table, root, fdt, used, blocks>>

\* Variant of Getnextfilename: the listing starts over with the first file.
GetnextfilenameRound(name, r) ==
  /\ IF FreeInodes # Files
     THEN /\ r = 1
          /\ name = root[Nth(Listed, current_file + 1)].name
          /\ current_file' = (current_file + 1) % Cardinality(Listed)
     ELSE r = 0 /\ name = NoName /\ current_file' = 0
  /\ UNCHANGED <<table, root, fdt, used, blocks>>

Getnextfilename(name, r) ==
  /\ IF FreeInodes # Files /\ current_file < Cardinality(Listed)
     THEN /\ r = 1
          /\ name = root[Nth(Listed, current_file + 1)].name
          /\ current_file' = current_file + 1
     ELSE r = 0 /\ name = NoName /\ current_file' = 0
  /\ UNCHANGED <<table, root, fdt, used, blocks>>
-----------------------------------------------------------------------------
Buffers == UNION {[1 .. k -> Bytes] : k \in 1 .. MaxBuffer}
Results == -1 .. NumInodes - 1

Next ==
  \/ \E name \in Names, fd \in Results : Fopen(name, fd)
  \/ \E fd \in Fds, r \in {-1, 0} : Fclose(fd, r)
  \/ \E fd \in Fds, buf \in Buffers : \E r \in 0 .. Len(buf) :
       Fwrite(fd, buf, r)
  \/ \E file \in Names, r \in Results : Remove(file, r)
  \/ \E name \in Names \cup {NoName}, r \in {0, 1} : Getnextfilename(name, r)
  \/ \E fd \in Fds, loc \in -1 .. Capacity, r \in {-1, 0} : Fseek(fd, loc, r)
  \/ \E fd \in Fds, length \in 1 .. MaxBuffer :
       \E k \in 0 .. length : \E out \in [1 .. k -> Bytes], r \in 0 .. length :
         Fread(fd, length, out, r)

Spec == Init /\ [][Next]_vars

\* Clients that close a file before they remove it.
Tidy == \A d \in Fds : fdt[d].inode # Closed
                         => root'[fdt[d].inode].name # NoName
TidySpec == Init /\ [][Next /\ Tidy]_vars
-----------------------------------------------------------------------------
(* Properties. *)

\* Every variable has its type; a position is never negative.
TypeOK ==
  /\ table \in [Files -> [taken : {0, 1}, size : 0 .. MaxSize,
                          ptrs : [Pointers -> Blocks]]]
  /\ root \in [Files -> [name : Names \cup {NoName}, mode : {0, 1}]]
  /\ fdt \in [Fds -> [inode : Files \cup {Closed}, rwptr : Nat]]
  /\ used \subseteq Blocks
  /\ blocks \in [Blocks -> [Offsets -> Bytes]]
  /\ current_file \in 0 .. NumInodes - 1

\* No data block belongs to two files, or twice to one, and one that belongs to
\* a file is not handed out again by sfs_fwrite; the root's block never is.
BlocksDistinct ==
  /\ 0 \in used
  /\ \A n \in Files, b \in Pointers :
       LET x == table[n].ptrs[b] IN
       x # 0 => /\ x \in used
                /\ \A m \in Files, c \in Pointers :
                     table[m].ptrs[c] = x => m = n /\ c = b

\* The directory and the inode table agree on which files there are and which
\* are listed, and sfs_fopen never makes two files of the same name.
DirectoryAgrees ==
  \A n \in Files :
    /\ table[n].taken = 1 <=> root[n].name # NoName
    /\ table[n].taken = root[n].mode
    /\ \A m \in Files :
         root[m].name = root[n].name /\ root[n].name # NoName => m = n

\* A byte of a file changes only under the moving position of a descriptor of
\* that file, or when the file is removed.  In particular a call on one file
\* never changes another, whatever blocks sfs_fwrite allocates.
WritesStayInFile ==
  [][\A n \in Files, p \in 0 .. Capacity - 1 :
       ByteAt(n, p)' # ByteAt(n, p) =>
         \/ root[n].name # NoName /\ root'[n].name = NoName
         \/ \E d \in Fds : /\ fdt[d].inode = n
                           /\ fdt[d].rwptr <= p /\ p < fdt'[d].rwptr]_vars

\* A file has at most one open descriptor, as long as clients are tidy: a slot
\* of the directory that is used again never inherits one.
OneDescriptorPerFile ==
  \A d, e \in Fds : fdt[d].inode # Closed /\ fdt[d].inode = fdt[e].inode
                      => d = e

\* As long as clients are tidy a free inode is clean: the file that sfs_fopen
\* makes of it is empty, whatever was removed before.
FreeInodesClean ==
  \A n \in FreeInodes : table[n].ptrs = NoBlocks /\ table[n].size = 0

\* Only blocks beyond the first word of the bitmap can be lost: a bit of that
\* word is set for the root or for a block that some inode points to, so that
\* sfs_remove gives back what a file had there, whatever its writes ran into.
LostBeyondWord ==
  \A x \in used \ {0} :
    x < WordBits => \E n \in Files, b \in Pointers : table[n].ptrs[b] = x

\* For tidy clients the library is a store of named byte arrays: inodes, the
\* bitmap and the allocation of blocks cannot be observed.
Contents(name) ==
  IF Named(name) = {} THEN NoName
  ELSE [p \in 0 .. Capacity - 1 |-> ByteAt(Min(Named(name)), p)]
Handle(d) ==
  [name |-> IF fdt[d].inode = Closed THEN NoName ELSE root[fdt[d].inode].name,
   pos |-> fdt[d].rwptr]

Store == INSTANCE FileStore
  WITH contents <- [name \in Names |-> Contents(name)],
       handles <- [d \in Fds |-> Handle(d)],
       Handles <- Fds, Absent <- NoName
ImplementsFileStore == Store!Spec
-----------------------------------------------------------------------------
(* What a comment says and the code does not do. *)

\* sfs_remove: "need to find a data block and free it".  A block whose bit is
\* set belongs to a file, so removing all files gives all blocks back.
NoBlockLeaked ==
  used = {0} \cup {table[n].ptrs[b] : n \in Files, b \in Pointers}
=============================================================================

------------------------------ MODULE SfsDisk -------------------------------
(***************************************************************************)
(* sfs_api.c over disk_emu.c: the copies of the inodes, the directory and  *)
(* the bitmap that the calls keep on the disk, and mksfs called again in   *)
(* the same process, with 0 to read them back or with 1 to format.         *)
(*                                                                         *)
(* Each action is a call of Sfs and what it writes.  The library writes    *)
(* whole arrays, and whole blocks of them: a write of the inodes goes on   *)
(* into the globals num_files and current_file, and one of the directory   *)
(* into the first descriptors, the globals being laid out in the order of  *)
(* their definitions.  mksfs(0) reads as much back.  In a build with       *)
(* another layout those globals are as mksfs(0) has just set them.  Nobody *)
(* lists files here, so that current_file is 0 in memory and on the disk.  *)
(*                                                                         *)
(* A descriptor that is open and a descriptor that a client holds are two  *)
(* things here: mksfs(0) brings back some that clients have closed, or     *)
(* believe that mksfs has closed, and no rule of theirs speaks of those.   *)
(*                                                                         *)
(* The directory on the disk holds the addresses of the names, which are   *)
(* never freed: for the process that wrote them they stay good.            *)
(***************************************************************************)
EXTENDS Sfs

CONSTANT Overrun   \* how many descriptors, 0 included, share blocks with root

ASSUME OverrunAssumption == Overrun \in Nat

VARIABLES
  disk,   \* what the disk holds besides the data blocks
  held,   \* history: the name each descriptor was opened under by a client
          \* that has not closed it, NoName if there is no such client
  again   \* history: mksfs has been called a second time

diskVars == <<vars, disk, held, again>>

HeldFds == {d \in Fds : held[d] # NoName}
NoneHeld == [d \in Fds |-> NoName]

AllClosed == [d \in Fds |-> [inode |-> Closed, rwptr |-> 0]]

\* The descriptors that go to the disk with the directory.
Shared(descriptors) ==
  [d \in Fds |-> IF d < Overrun THEN descriptors[d] ELSE AllClosed[d]]

\* mksfs(1) has written the tables it set up.
DiskInit ==
  /\ Init
  /\ disk = [table |-> table, root |-> root, used |-> used,
             fdt |-> Shared(fdt)]
  /\ held = NoneHeld /\ again = FALSE
-----------------------------------------------------------------------------
(* What the calls write. *)

\* write_blocks of the directory and of the inodes.
SavesFiles ==
  disk' = [disk EXCEPT !.root = root', !.fdt = Shared(fdt'), !.table = table']

\* A new file is written to the disk, a file that exists needs nothing.
DiskFopen(name, fd) ==
  \/ Create(name, fd) /\ SavesFiles
  \/ OpenExisting(name, fd) /\ UNCHANGED disk
  \/ CannotOpen(name, fd) /\ UNCHANGED disk

Nuls(buf, k) == Cardinality({p \in 1 .. k : buf[p] = NUL})

\* Variant of Saved: the inode as it was before the call.
SavedBefore(n, buf, k) == [table' EXCEPT ![n] = table[n]]

\* The inodes as the call writes them when it has copied k bytes of buf.
Saved(n, buf, k) == [table' EXCEPT ![n].size = table[n].size + Nuls(buf, k)]

\* The inodes and the bitmap are written whenever a block has been allocated,
\* and not otherwise: the NUL bytes that follow the last such block are counted
\* in memory only.
DiskFwrite(fd, buf, r) ==
  /\ Fwrite(fd, buf, r)
  /\ LET n == fdt[fd].inode
         new == {b \in Pointers : table'[n].ptrs[b] # table[n].ptrs[b]}
     IN  IF used' = used
         THEN UNCHANGED disk
         ELSE LET filled == (Max(new) + 1) * BlockSize - fdt[fd].rwptr
              IN  disk' = [disk EXCEPT
                             !.table = Saved(n, buf, Min({Len(buf), filled})),
                             !.used = used']

\* Variant of DiskRemove: the inodes are written before their sizes are reset.
DiskRemoveEarly(file, r) ==
  /\ Remove(file, r)
  /\ disk' = [disk EXCEPT
                !.root = root', !.fdt = Shared(fdt'), !.used = used',
                !.table = [n \in Files |->
                             [table'[n] EXCEPT !.size = table[n].size]]]

\* Without a file of that name the directory and the bitmap are written too.
DiskRemove(file, r) ==
  /\ Remove(file, r)
  /\ disk' = [disk EXCEPT !.root = root', !.fdt = Shared(fdt'), !.used = used',
                          !.table = IF root' = root THEN @ ELSE table']
-----------------------------------------------------------------------------
(* mksfs, called again. *)

Restored == disk.fdt

\* mksfs(0) closes all descriptors, then reads the tables over them.  Clients
\* give up those they had.
ReadBack ==
  /\ table' = disk.table /\ root' = disk.root /\ used' = disk.used
  /\ \/ fdt' = AllClosed
     \/ fdt' = Restored
  /\ current_file' = 0
  /\ held' = NoneHeld /\ again' = TRUE
  /\ UNCHANGED <<blocks, disk>>

\* An inode as mksfs(1) leaves it: neither pointers nor size are reset.
Formatted(inode) == [inode EXCEPT !.taken = 0]

\* The bits that are set stay so.
BitsAfter(bits) == bits \cup {0}

\* Variant of NewDisk: the file of the disk is opened and not made anew.
OldDisk == blocks

\* init_fresh_disk fills it with zeros.
NewDisk == [x \in Blocks |-> Empty]

\* The descriptors that mksfs(1) closes keep their positions, but nobody reads
\* them any more.
Format ==
  /\ table' = [n \in Files |-> Formatted(table[n])]
  /\ root' = [n \in Files |-> FreeSlot]
  /\ fdt' = AllClosed
  /\ used' = BitsAfter(used)
  /\ blocks' = NewDisk
  /\ current_file' = 0
  /\ disk' = [table |-> table', root |-> root', used |-> used',
              fdt |-> Shared(fdt')]
  /\ held' = NoneHeld /\ again' = TRUE
-----------------------------------------------------------------------------
\* Clients write only through descriptors that they hold; any may be closed.
DiskCalls ==
  \/ \E name \in Names, fd \in Results :
       /\ DiskFopen(name, fd)
       /\ held' = IF fd = -1 THEN held ELSE [held EXCEPT ![fd] = name]
  \/ \E fd \in Fds, r \in {-1, 0} :
       Fclose(fd, r) /\ held' = [held EXCEPT ![fd] = NoName] /\ UNCHANGED disk
  \/ \E fd \in HeldFds, buf \in Buffers : \E r \in 0 .. Len(buf) :
       DiskFwrite(fd, buf, r) /\ UNCHANGED held
  \/ \E file \in Names, r \in Results : DiskRemove(file, r) /\ UNCHANGED held

\* They remove no file that one of them holds.
DiskTidy == \A d \in HeldFds : root'[fdt[d].inode].name # NoName

\* Clients that close a file before they remove it, only append and list nothing.
DiskNext ==
  \/ DiskCalls /\ DiskTidy /\ UNCHANGED again
  \/ ReadBack
  \/ Format

DiskSpec == DiskInit /\ [][DiskNext]_diskVars
-----------------------------------------------------------------------------
(* Properties. *)

\* mksfs(0) finds every file again under its name, with its bytes, and no block
\* of one is free: the calls have written all of it, in spite of writing the
\* inodes and the bitmap only now and then.
FilesSurvive ==
  [][ReadBack =>
       \A n \in Files :
         /\ root'[n] = root[n] /\ table'[n].taken = table[n].taken
         /\ \A p \in 0 .. Capacity - 1 : ByteAt(n, p)' = ByteAt(n, p)
         /\ {table'[n].ptrs[b] : b \in Pointers} \subseteq used']_diskVars

\* What mksfs(0) may lose is a part of the size: NUL bytes of a file that were
\* counted since the inodes were last written.  It never makes a file longer.
SizeOnDisk ==
  \A n \in Files : disk.table[n].size <= table[n].size

\* The descriptor that sfs_fopen gave a client stays on the file of that name
\* until the client closes it, and no other client gets one of that file.  So it
\* is although mksfs(0) brings back descriptors that nobody holds, which sfs_fopen
\* takes for open, and which removals leave behind on an inode that is free and
\* that a new file may get.
HeldOnOwnFile ==
  \A d, e \in HeldFds :
    /\ fdt[d].inode # Closed
    /\ table[fdt[d].inode].taken = 1 /\ root[fdt[d].inode].name = held[d]
    /\ held[e] = held[d] => e = d

\* A file made after mksfs(1) has formatted the disk again reads as empty,
\* although its inode keeps the blocks of the one before: nobody else gets them.
FreeInodesBlank ==
  \A n \in FreeInodes, p \in 0 .. Capacity - 1 : ByteAt(n, p) = NUL

\* Until then the size is the length of the file for a client that appends, NUL
\* bytes included, so that sfs_fopen places the position at the end.
SizeIsPosition ==
  ~again => \A d \in Fds : fdt[d].inode # Closed =>
              fdt[d].rwptr = FileSize(root[fdt[d].inode].name)

(* What a comment says and the code does not do. *)

\* mksfs: "-1;//inode must be greater than 0 so 0  means inode fd entry is
\* free", of every descriptor.  mksfs(0) leaves them all closed.
ReadBackCloses ==
  [][ReadBack => \A d \in Fds : fdt'[d].inode = Closed]_diskVars
=============================================================================

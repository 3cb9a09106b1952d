---------------------------- MODULE SfsDiskProof -----------------------------
(***************************************************************************)
(* The tables on the disk follow the ones in memory closely enough: what   *)
(* mksfs(0) reads back is the directory, the bitmap and the blocks of all  *)
(* files, although sfs_fwrite writes the inodes only when it has allocated *)
(* a block.  What it reads back as descriptors may be anything, and does   *)
(* not disturb those that clients hold.  DiskInv says what the disk holds  *)
(* between two calls; the steps of the calls themselves are those of       *)
(* SfsProof.                                                               *)
(***************************************************************************)
EXTENDS SfsDisk, SfsProof

DiskTables == [table : [Files -> Inodes], root : [Files -> Slots],
               used : SUBSET Blocks, fdt : [Fds -> Descriptors]]

\* Only the size of an inode may lag behind.
DiskAgrees ==
  /\ disk.root = root /\ disk.used = used
  /\ \A n \in Files : /\ disk.table[n].taken = table[n].taken
                      /\ disk.table[n].ptrs = table[n].ptrs
                      /\ disk.table[n].size <= table[n].size

HeldRight == held \in [Fds -> Names \cup {NoName}] /\ HeldOnOwnFile

\* Only mksfs(0) makes descriptors that are open and that nobody holds.
OpenIsHeld == \A d \in Fds : fdt[d].inode # Closed => d \in HeldFds

\* Nothing is said of the descriptors on the disk but that they are descriptors:
\* they may be on any inode, free or not, and two on one.
DiskInv ==
  /\ CoreInv /\ HeldRight /\ FreeInodesBlank
  /\ disk \in DiskTables /\ DiskAgrees
  /\ ~again => OpenIsHeld
-----------------------------------------------------------------------------
(* The calls. *)

LEMMA DiskTyped ==
  ASSUME DiskInv
  PROVE  /\ TypeOK /\ DirectoryAgrees /\ BlocksDistinct /\ 0 \in used
         /\ table \in [Files -> Inodes] /\ root \in [Files -> Slots]
         /\ fdt \in [Fds -> Descriptors] /\ used \subseteq Blocks
         /\ disk \in DiskTables
         /\ Closed \notin Files /\ NoName \notin Names
  BY NamesAssumption
     DEF DiskInv, CoreInv, BlocksDistinct, TypeOK, Inodes, Slots, Descriptors,
         Files, Closed

\* A descriptor that a client holds is open, on a file.
LEMMA HeldIsLive ==
  ASSUME DiskInv, NEW d \in HeldFds
  PROVE  /\ d \in Fds /\ fdt[d].inode \in Files
         /\ table[fdt[d].inode].taken = 1
         /\ root[fdt[d].inode].name = held[d] /\ held[d] \in Names
  <1>1. d \in Fds /\ fdt[d].inode \in Files \cup {Closed} /\ held[d] # NoName
    BY DiskTyped DEF HeldFds, Descriptors
  <1> QED
    BY <1>1 DEF DiskInv, HeldRight, HeldOnOwnFile

LEMMA SharedTyped ==
  ASSUME NEW ds \in [Fds -> Descriptors]
  PROVE  /\ Shared(ds) \in [Fds -> Descriptors]
         /\ \A d \in Fds : Shared(ds)[d].inode \in {ds[d].inode, Closed}
  BY DEF Shared, AllClosed, Descriptors

\* The calls are those of Sfs; clients write through what they hold.
StoringHeld ==
  \E fd \in HeldFds, buf \in Buffers : \E n, end, k, ptrs, stored :
     Stores(n, fd, buf, end, k, ptrs, stored)

LEMMA DiskCalled ==
  ASSUME DiskInv, DiskCalls
  PROVE  Quiet \/ Opening \/ StoringHeld \/ Removing
  <1>0. TypeOK /\ 0 \in used
    BY DiskTyped
  <1>1. ASSUME NEW name \in Names, NEW fd, DiskFopen(name, fd)
        PROVE  Quiet \/ Opening
    <2>1. Fopen(name, fd)
      BY <1>1 DEF DiskFopen, Fopen
    <2> QED
      BY <1>0, <2>1, FopenKind
  <1>2. ASSUME NEW fd \in Fds, NEW r, Fclose(fd, r)
        PROVE  Quiet
    BY <1>0, <1>2, FcloseQuiet
  <1>3. ASSUME NEW fd \in HeldFds, NEW buf \in Buffers, NEW r,
               DiskFwrite(fd, buf, r)
        PROVE  Quiet \/ StoringHeld
    <2>1. fd \in Fds /\ Fwrite(fd, buf, r)
      BY <1>3 DEF DiskFwrite, HeldFds
    <2>2. CASE UNCHANGED vars
      BY <1>0, <2>2, UnchangedIsQuiet
    <2>3. CASE ~ UNCHANGED vars
      BY <1>0, <2>1, <2>3, FwriteStores DEF StoringHeld
    <2> QED
      BY <2>2, <2>3
  <1>4. ASSUME NEW file \in Names, NEW r, DiskRemove(file, r)
        PROVE  Quiet \/ Removing
    BY <1>0, <1>4, RemoveKind DEF DiskRemove, Removing
  <1> QED
    BY <1>1, <1>2, <1>3, <1>4 DEF DiskCalls

\* No block of a free inode, pointers to which only mksfs(1) leaves, is written.
LEMMA BlankStep ==
  ASSUME DiskInv, CoreInv', Quiet \/ Opening \/ StoringHeld \/ Removing
  PROVE  FreeInodesBlank'
  <1>0. /\ TypeOK /\ DirectoryAgrees /\ BlocksDistinct' /\ CoreInv
        /\ table \in [Files -> Inodes] /\ root \in [Files -> Slots]
        /\ Closed \notin Files /\ NoName \notin Names
    BY DiskTyped DEF CoreInv, DiskInv
  <1> SUFFICES ASSUME NEW m \in Files, table'[m].taken = 0,
                      NEW p \in 0 .. Capacity - 1
               PROVE  ByteAt(m, p)' = NUL
    BY DEF FreeInodesBlank, FreeInodes
  <1>1. table[m].taken = 0 => ByteAt(m, p) = NUL
    BY DEF DiskInv, FreeInodesBlank, FreeInodes
  <1>2. CASE Quiet
    BY <1>1, <1>2 DEF Quiet, ByteAt
  <1>3. CASE Opening
    <2>1. PICK name, d, n, pos : name \in Names /\ Opens(name, d, n, pos)
      BY <1>3 DEF Opening
    <2>2. m # n /\ table'[m] = table[m] /\ blocks' = blocks
      BY <1>0, <2>1 DEF Opens, Inodes
    <2> QED
      BY <1>1, <2>2 DEF ByteAt
  <1>4. CASE StoringHeld
    <2>1. PICK fd, buf, n, end, k, ptrs, stored :
             /\ fd \in HeldFds /\ fd \in Fds /\ buf \in Buffers
             /\ Stores(n, fd, buf, end, k, ptrs, stored)
      BY <1>4 DEF StoringHeld, HeldFds
    <2>2. /\ n = fdt[fd].inode /\ n \in Files
          /\ table'[n].taken = table[n].taken
          /\ \A l \in Files : l # n => table'[l] = table[l]
      BY <2>1 DEF Stores
    <2>3. table[n].taken = 1
      BY <2>1, <2>2, HeldIsLive
    <2>4. m # n /\ table[m].taken = 0
      BY <2>2, <2>3
    <2>5. ByteAt(m, p)' = ByteAt(m, p)
      BY <1>0, <2>1, <2>4, BufferTyped, BytesStored
    <2> QED
      BY <1>1, <2>4, <2>5
  <1>5. CASE Removing
    <2>1. PICK file, n : file \in Names /\ Removes(file, n)
      BY <1>5 DEF Removing
    <2>2. CASE m # n
      <3>1. table'[m] = table[m]
        BY <1>0, <2>1, <2>2 DEF Removes
      <3>2. ByteAt(m, p)' = ByteAt(m, p)
        BY <1>0, <2>1, <2>2, BytesRemoved
      <3> QED
        BY <1>1, <3>1, <3>2
    <2>3. CASE m = n
      <3>1. root[n].name # NoName /\ n \in Files
        BY <1>0, <2>1 DEF Removes, Matches
      <3>2. table[n].taken = 1
        BY <1>0, <3>1 DEF DirectoryAgrees
      <3>3. table'[m].ptrs = NoBlocks
        BY <1>0, <2>1, <2>3, <3>2 DEF Removes, CleanInode
      <3> QED
        BY <3>3, Positions DEF ByteAt, NoBlocks
    <2> QED
      BY <2>2, <2>3
  <1> QED
    BY <1>2, <1>3, <1>4, <1>5
-----------------------------------------------------------------------------
(* The disk after a call. *)

\* A step that writes nothing to the disk is right when it changes none of
\* what the disk must agree on, or makes a file longer.
LEMMA DiskStays ==
  ASSUME DiskInv, disk' = disk, root' = root, used' = used,
         \A n \in Files : /\ table'[n].taken = table[n].taken
                          /\ table'[n].ptrs = table[n].ptrs
                          /\ table'[n].size >= table[n].size
                          /\ table'[n].size \in Int
  PROVE  disk' \in DiskTables /\ DiskAgrees'
  <1>1. /\ disk \in DiskTables /\ DiskAgrees
        /\ table \in [Files -> Inodes]
    BY DiskTyped DEF DiskInv
  <1>2. DiskAgrees'
    <2>1. \A n \in Files : disk.table[n].size \in Int /\ table[n].size \in Int
      BY <1>1, GeometryAssumption DEF DiskTables, Inodes
    <2> QED
      BY <1>1, <2>1 DEF DiskAgrees
  <1> QED
    BY <1>1, <1>2

\* A step that writes all tables is right.
LEMMA DiskWritten ==
  ASSUME TypeOK',
         disk' = [table |-> table', root |-> root', used |-> used',
                  fdt |-> Shared(fdt')]
  PROVE  disk' \in DiskTables /\ DiskAgrees'
  <1>1. /\ table' \in [Files -> Inodes] /\ root' \in [Files -> Slots]
        /\ fdt' \in [Fds -> Descriptors] /\ used' \subseteq Blocks
    BY DEF TypeOK, Inodes, Slots, Descriptors
  <1>2. disk' \in DiskTables
    BY <1>1, SharedTyped DEF DiskTables
  <1>3. DiskAgrees'
    <2>1. \A n \in Files : table'[n].size \in Int
      BY <1>1, GeometryAssumption DEF Inodes
    <2> QED
      BY <2>1 DEF DiskAgrees
  <1> QED
    BY <1>2, <1>3

LEMMA MaxGreatest ==
  ASSUME NEW S \in SUBSET Int, IsFiniteSet(S), S # {}
  PROVE  Max(S) \in S
  <1>1. Cardinality(S) \in Nat /\ Cardinality(S) # 0
    BY FS_CardinalityType, FS_EmptySet
  <1>2. PICK x \in S : Rank(S, x) = Cardinality(S)
    BY <1>1, RankReached
  <1>3. ASSUME NEW y \in S PROVE x >= y
    <2>1. Rank(S, y) <= Cardinality(S)
      BY <1>1, RankBounds
    <2>2. Rank(S, y) \in Nat
      BY RankBounds
    <2> QED
      BY <1>1, <1>2, <2>1, <2>2, RankIncreases
  <1> QED
    BY <1>3 DEF Max

\* The NUL bytes in the first k bytes are among those in the first l.
LEMMA NulsIncrease ==
  ASSUME NEW buf, NEW k \in Int, NEW l \in Int, k <= l
  PROVE  Nuls(buf, k) \in Nat /\ NulsUpTo(buf, l) \in Nat /\ Nuls(buf, k) <= NulsUpTo(buf, l)
  <1> DEFINE K == {j \in 1 .. k : buf[j] = NUL}
             L == {j \in 1 .. l : buf[j] = NUL}
  <1>1. IsFiniteSet(1 .. l)
    BY FS_Interval
  <1>2. IsFiniteSet(L)
    BY <1>1, FS_Subset
  <1>3. K \subseteq L
    OBVIOUS
  <1>4. IsFiniteSet(K) /\ Cardinality(K) <= Cardinality(L)
    BY <1>2, <1>3, FS_Subset
  <1>5. Cardinality(K) \in Nat /\ Cardinality(L) \in Nat
    BY <1>2, <1>4, FS_CardinalityType
  <1> QED
    BY <1>4, <1>5 DEF Nuls, NulsUpTo

\* When sfs_fwrite writes the inodes, because of the last block it has
\* allocated, it has counted no more NUL bytes than it counts in the end.
LEMMA DiskFwriteRight ==
  ASSUME DiskInv, TypeOK', NEW fd \in Fds, NEW buf \in Buffers, NEW r,
         DiskFwrite(fd, buf, r)
  PROVE  disk' \in DiskTables /\ DiskAgrees'
  <1>0. /\ TypeOK /\ 0 \in used /\ table \in [Files -> Inodes]
        /\ disk \in DiskTables /\ DiskAgrees
        /\ Len(buf) \in Nat /\ MaxSize \in Nat
        /\ \A n \in Files : table[n].size \in Nat
    BY DiskTyped, BufferTyped, GeometryAssumption DEF DiskInv, Inodes
  <1>1. CASE UNCHANGED vars
    <2>1. disk' = disk /\ root' = root /\ used' = used /\ table' = table
      BY <1>1 DEF vars, DiskFwrite
    <2> QED
      BY <1>0, <2>1, DiskStays
  <1>2. CASE ~ UNCHANGED vars
    <2> DEFINE at == fdt[fd].rwptr
               n == fdt[fd].inode
    <2>1. PICK end, k, ptrs, stored : Stores(n, fd, buf, end, k, ptrs, stored)
      <3>1. PICK m, end, k, ptrs, stored : Stores(m, fd, buf, end, k, ptrs, stored)
        BY <1>0, <1>2, FwriteStores DEF DiskFwrite
      <3>2. m = n
        BY <3>1 DEF Stores
      <3> QED
        BY <3>1, <3>2
    <2>2. /\ n \in Files /\ at \in Nat /\ end \in Int /\ end > at
          /\ table' \in [Files -> Inodes] /\ table'[n].ptrs = ptrs
          /\ table'[n].taken = table[n].taken
          /\ table'[n].size = table[n].size + NulsUpTo(buf, end - at)
          /\ \A m \in Files : m # n => table'[m] = table[m]
          /\ root' = root /\ used' \subseteq Blocks
      BY <1>0, <2>1 DEF Stores
    <2>3. /\ \A b \in Pointers : ptrs[b] # table[n].ptrs[b] =>
               b \in stored /\ ptrs[b] \notin used /\ ptrs[b] \in used'
          /\ \A x \in used' \ used :
               \E b \in Pointers : ptrs[b] = x /\ table[n].ptrs[b] = 0
          /\ \A b \in stored : end = at + Len(buf) \/ (b + 1) * BlockSize <= end
          /\ ptrs \in [Pointers -> Blocks]
      BY <2>1 DEF Stores, FreeBlocks
    <2> HIDE DEF at, n
    <2>4. end - at \in Int /\ NulsUpTo(buf, end - at) \in Nat
      BY <2>2, NulsIncrease
    <2>5. CASE used' = used
      <3>1. disk' = disk
        BY <2>5 DEF DiskFwrite
      <3>2. table'[n].ptrs = table[n].ptrs
        <4>1. table[n].ptrs \in [Pointers -> Blocks]
          BY <1>0, <2>2 DEF Inodes
        <4> QED
          BY <2>2, <2>3, <2>5, <4>1
      <3> QED
        BY <1>0, <2>2, <2>4, <2>5, <3>1, <3>2, DiskStays
    <2>6. CASE used' # used
      <3> DEFINE new == {b \in Pointers : table'[n].ptrs[b] # table[n].ptrs[b]}
                 filled == (Max(new) + 1) * BlockSize - at
                 short == Min({Len(buf), filled})
      <3>1. disk' = [disk EXCEPT !.table = Saved(n, buf, short), !.used = used']
        BY <2>6 DEF DiskFwrite, n, at
      <3>2. Max(new) \in Pointers /\ Max(new) \in stored
        <4>1. PICK x \in Blocks : x \in used' /\ x \notin used
          <5>1. used \subseteq used'
            BY <2>1 DEF Stores
          <5> QED
            BY <2>2, <2>6, <5>1
        <4>2. PICK b \in Pointers : ptrs[b] = x /\ table[n].ptrs[b] = 0
          BY <2>3, <4>1
        <4>3. b \in new
          BY <1>0, <2>2, <4>1, <4>2
        <4>4. new \subseteq Pointers /\ new # {}
          BY <4>3
        <4> HIDE DEF new
        <4>5. new \in SUBSET Int /\ IsFiniteSet(new)
          BY <4>4, Finite, FS_Subset
        <4>6. Max(new) \in new
          BY <4>4, <4>5, MaxGreatest
        <4> QED
          BY <2>2, <2>3, <4>6 DEF new
      <3>3. short \in Int /\ short <= end - at
        <4> DEFINE top == (Max(new) + 1) * BlockSize
        <4>1. top \in Int /\ (end = at + Len(buf) \/ top <= end)
          BY <2>3, <3>2, GeometryAssumption DEF Pointers
        <4>2. filled = top - at
          OBVIOUS
        <4> HIDE DEF top, filled
        <4>3. short = IF Len(buf) <= filled THEN Len(buf) ELSE filled
          BY <1>0, <2>2, <4>1, <4>2, MinPair
        <4> HIDE DEF short
        <4> QED
          BY <1>0, <2>2, <4>1, <4>2, <4>3
      <3> DEFINE saved == Saved(n, buf, short)
      <3>4. /\ Nuls(buf, short) \in Nat
            /\ Nuls(buf, short) <= NulsUpTo(buf, end - at)
        <4> HIDE DEF short
        <4> QED
          BY <2>4, <3>3, NulsIncrease
      <3>5. /\ saved \in [Files -> Inodes]
            /\ \A m \in Files : /\ saved[m].taken = table'[m].taken
                                /\ saved[m].ptrs = table'[m].ptrs
                                /\ saved[m].size <= table'[m].size
        <4> HIDE DEF short
        <4>1. saved = [table' EXCEPT ![n].size = table[n].size + Nuls(buf, short)]
          BY DEF Saved
        <4> DEFINE size == table[n].size + Nuls(buf, short)
        <4>2. size \in 0 .. MaxSize /\ size <= table'[n].size
          <5>1. table[n].size \in Nat /\ table'[n].size \in 0 .. MaxSize
            BY <1>0, <2>2 DEF Inodes
          <5> QED
            BY <1>0, <2>2, <2>4, <3>4, <5>1
        <4>3. saved = [table' EXCEPT ![n].size = size]
          BY <4>1
        <4>4. \A m \in Files : table'[m].size \in Int
          BY <2>2, GeometryAssumption DEF Inodes
        <4> HIDE DEF size, saved
        <4> QED
          BY <2>2, <4>2, <4>3, <4>4 DEF Inodes
      <3> HIDE DEF saved, short
      <3>6. /\ disk'.table = saved /\ disk'.used = used' /\ disk'.root = root'
            /\ disk'.fdt = disk.fdt
            /\ disk' \in DiskTables
        <4>1. disk' = [disk EXCEPT !.table = saved, !.used = used']
          BY <3>1 DEF saved
        <4>2. disk.root = root
          BY <1>0 DEF DiskAgrees
        <4> QED
          BY <1>0, <2>2, <3>5, <4>1, <4>2 DEF DiskTables
      <3>7. DiskAgrees'
        BY <3>5, <3>6 DEF DiskAgrees
      <3> QED
        BY <3>6, <3>7
    <2> QED
      BY <2>5, <2>6
  <1> QED
    BY <1>1, <1>2

\* sfs_fopen of a file that exists finds its slot and its inode as they are to
\* be; a new file has everything written but the bitmap, which stays.
LEMMA DiskFopenRight ==
  ASSUME DiskInv, TypeOK', NEW name \in Names, NEW fd,
         DiskFopen(name, fd)
  PROVE  disk' \in DiskTables /\ DiskAgrees'
  <1>0. /\ TypeOK /\ DirectoryAgrees /\ table \in [Files -> Inodes]
        /\ root \in [Files -> Slots] /\ disk \in DiskTables /\ disk.used = used
        /\ name # NoName
        /\ \A n \in Files : table[n].size \in Nat
    BY DiskTyped, GeometryAssumption DEF DiskInv, DiskAgrees, Inodes
  <1>1. CASE Create(name, fd) /\ SavesFiles
    <2>1. disk' = [table |-> table', root |-> root', used |-> used',
                   fdt |-> Shared(fdt')]
      BY <1>0, <1>1 DEF Create, SavesFiles, DiskTables
    <2> QED
      BY <2>1, DiskWritten
  <1>2. CASE OpenExisting(name, fd) /\ UNCHANGED disk
    <2> DEFINE n == Min(Named(name))
    <2>1. n \in Files /\ root[n].name = name
      BY <1>2, NamedFile DEF OpenExisting
    <2>2. table[n].taken = 1 /\ root[n].mode = 1
      BY <1>0, <2>1 DEF DirectoryAgrees
    <2>3. /\ root' = [root EXCEPT ![n].mode = 1] /\ table' = [table EXCEPT ![n].taken = 1]
          /\ used' = used
      BY <1>2 DEF OpenExisting
    <2> HIDE DEF n
    <2>4. root' = root /\ table' = table
      BY <1>0, <2>1, <2>2, <2>3 DEF Slots, Inodes
    <2>5. disk' = disk /\ used' = used
      BY <1>2, <2>3
    <2> QED
      BY <1>0, <2>4, <2>5, DiskStays
  <1>3. CASE CannotOpen(name, fd) /\ UNCHANGED disk
    <2>1. disk' = disk /\ root' = root /\ used' = used /\ table' = table
      BY <1>3 DEF vars, CannotOpen
    <2> QED
      BY <1>0, <2>1, DiskStays
  <1> QED
    BY <1>1, <1>2, <1>3 DEF DiskFopen

LEMMA DiskRemoveRight ==
  ASSUME DiskInv, TypeOK', NEW file \in Names, NEW r,
         DiskRemove(file, r)
  PROVE  disk' \in DiskTables /\ DiskAgrees'
  <1>0. /\ TypeOK /\ disk \in DiskTables /\ DiskAgrees
        /\ root \in [Files -> Slots] /\ NoName \notin Names
        /\ fdt \in [Fds -> Descriptors]
        /\ table \in [Files -> Inodes]
        /\ \A n \in Files : table[n].size \in Nat
    BY DiskTyped, GeometryAssumption DEF DiskInv, Inodes
  <1>1. CASE root' = root
    <2>1. UNCHANGED vars
      <3>1. ASSUME ~ UNCHANGED vars PROVE FALSE
        <4>1. PICK n : Removes(file, n)
          BY <1>0, <3>1, RemoveRemoves DEF DiskRemove
        <4>2. root'[n].name = NoName /\ root[n].name # NoName
          BY <1>0, <4>1 DEF Removes, FreeSlot, Matches
        <4> QED
          BY <1>1, <4>2
      <3> QED
        BY <3>1
    <2>2. table' = table /\ used' = used /\ fdt' = fdt
      BY <2>1 DEF vars
    <2>3. disk' = [disk EXCEPT !.fdt = Shared(fdt)]
      BY <1>0, <1>1, <2>2 DEF DiskRemove, DiskAgrees, DiskTables
    <2>4. /\ disk'.table = disk.table /\ disk'.root = disk.root
          /\ disk'.used = disk.used /\ disk'.fdt = Shared(fdt)
      BY <1>0, <2>3 DEF DiskTables
    <2>5. Shared(fdt) \in [Fds -> Descriptors]
      BY <1>0, SharedTyped
    <2>6. disk' \in DiskTables
      BY <1>0, <2>3, <2>5 DEF DiskTables
    <2>7. DiskAgrees'
      BY <1>0, <1>1, <2>2, <2>4 DEF DiskAgrees
    <2> QED
      BY <2>6, <2>7
  <1>2. CASE root' # root
    <2>1. disk' = [table |-> table', root |-> root', used |-> used',
                   fdt |-> Shared(fdt')]
      BY <1>0, <1>2 DEF DiskRemove, DiskTables
    <2> QED
      BY <2>1, DiskWritten
  <1> QED
    BY <1>1, <1>2

-----------------------------------------------------------------------------
(* The descriptors that clients hold. *)

LEMMA OpeningChanges ==
  ASSUME TypeOK, NEW name, NEW fd, OpenExisting(name, fd) \/ Create(name, fd)
  PROVE  ~ UNCHANGED vars
  <1>1. fd \in Fds /\ fdt[fd].inode = Closed
    BY FreeFd DEF OpenExisting, Create
  <1>2. PICK n \in Files : fdt'[fd].inode = n
    <2>1. fdt \in [Fds -> Descriptors]
      BY DEF TypeOK, Descriptors
    <2>2. CASE OpenExisting(name, fd)
      BY <1>1, <2>1, <2>2, NamedFile DEF OpenExisting
    <2>3. CASE Create(name, fd)
      BY <1>1, <2>1, <2>3, FreeInode DEF Create
    <2> QED
      BY <2>2, <2>3
  <1> QED
    BY <1>1, <1>2 DEF vars, Files, Closed

\* sfs_fopen gives out a descriptor that was closed, so that nobody held it, for a
\* file that is new or that no descriptor was on.
LEMMA HeldFopen ==
  ASSUME DiskInv, NEW name \in Names, NEW fd, DiskFopen(name, fd),
         held' = IF fd = -1 THEN held ELSE [held EXCEPT ![fd] = name]
  PROVE  HeldRight' /\ (OpenIsHeld => OpenIsHeld')
  <1>0. /\ TypeOK /\ DirectoryAgrees
        /\ table \in [Files -> Inodes] /\ root \in [Files -> Slots]
        /\ fdt \in [Fds -> Descriptors]
        /\ held \in [Fds -> Names \cup {NoName}]
        /\ Closed \notin Files /\ NoName \notin Names /\ name # NoName
    BY DiskTyped DEF DiskInv, HeldRight
  <1>1. CASE CannotOpen(name, fd)
    BY <1>1 DEF CannotOpen, vars, DiskInv, HeldRight, HeldOnOwnFile, HeldFds,
                OpenIsHeld
  <1>2. CASE \E n, pos : Opens(name, fd, n, pos)
    <2>1. PICK n, pos : Opens(name, fd, n, pos)
      BY <1>2
    <2>2. /\ fd \in Fds /\ fdt[fd].inode = Closed /\ n \in Files
          /\ fdt' = [fdt EXCEPT ![fd] = [inode |-> n, rwptr |-> pos]]
          /\ table' = [table EXCEPT ![n].taken = 1]
          /\ root' = [root EXCEPT ![n] = [name |-> name, mode |-> 1]]
          /\ held' = [held EXCEPT ![fd] = name]
      BY <2>1 DEF Opens, Fds
    <2>3. fd \notin HeldFds
      BY <1>0, <2>2, HeldIsLive
    <2>4. ASSUME NEW d \in HeldFds
          PROVE  d # fd /\ fdt[d].inode # n /\ held[d] # name
      <3>1. /\ d \in Fds /\ fdt[d].inode \in Files /\ table[fdt[d].inode].taken = 1
            /\ root[fdt[d].inode].name = held[d]
        BY HeldIsLive
      <3>2. CASE root[n].name = name /\ ~IsOpen(n)
        BY <1>0, <2>2, <2>3, <3>1, <3>2 DEF IsOpen, DirectoryAgrees
      <3>3. CASE table[n].taken = 0 /\ Named(name) = {}
        BY <2>3, <3>1, <3>3 DEF Named
      <3> QED
        BY <2>1, <3>2, <3>3 DEF Opens
    <2>5. HeldFds' = HeldFds \cup {fd}
      BY <1>0, <2>2 DEF HeldFds
    <2>6. /\ \A d \in HeldFds : fdt'[d] = fdt[d] /\ held'[d] = held[d]
          /\ fdt'[fd].inode = n /\ held'[fd] = name
          /\ table'[n].taken = 1 /\ root'[n].name = name
          /\ \A m \in Files : m # n => table'[m] = table[m] /\ root'[m] = root[m]
      BY <1>0, <2>2, <2>4 DEF HeldFds, Inodes, Slots, Descriptors
    <2>7. ASSUME NEW d \in HeldFds'
          PROVE  /\ fdt'[d].inode # Closed /\ table'[fdt'[d].inode].taken = 1
                 /\ root'[fdt'[d].inode].name = held'[d]
      <3>1. CASE d = fd
        BY <1>0, <2>2, <2>6, <3>1
      <3>2. CASE d \in HeldFds
        BY <1>0, <2>4, <2>6, <3>2, HeldIsLive
      <3> QED
        BY <2>5, <3>1, <3>2
    <2>8. ASSUME NEW d \in HeldFds', NEW e \in HeldFds', held'[e] = held'[d]
          PROVE  e = d
      BY <2>4, <2>5, <2>6, <2>8 DEF DiskInv, HeldRight, HeldOnOwnFile
    <2>9. HeldOnOwnFile'
      BY <2>7, <2>8 DEF HeldOnOwnFile
    <2>10. held' \in [Fds -> Names \cup {NoName}]
      BY <1>0, <2>2
    <2>11. OpenIsHeld => OpenIsHeld'
      BY <1>0, <2>2, <2>5 DEF OpenIsHeld
    <2> QED
      BY <2>9, <2>10, <2>11 DEF HeldRight
  <1> QED
    <2>1. Fopen(name, fd)
      BY DEF DiskFopen, Fopen
    <2>2. CASE ~ UNCHANGED vars
      BY <1>0, <1>2, <2>1, <2>2, FopenOpens
    <2>3. CASE UNCHANGED vars
      <3>1. ~ OpenExisting(name, fd) /\ ~ Create(name, fd)
        BY <1>0, <2>3, OpeningChanges
      <3> QED
        BY <1>1, <2>1, <3>1 DEF Fopen
    <2> QED
      BY <2>2, <2>3

\* A step that leaves all descriptors that are held as they are, or closes the one
\* that is given up, and does not touch the files that the others are on.
LEMMA HeldStays ==
  ASSUME DiskInv,
         held' \in [Fds -> Names \cup {NoName}],
         HeldFds' \subseteq HeldFds,
         \A d \in HeldFds' :
           /\ held'[d] = held[d] /\ fdt'[d].inode = fdt[d].inode
           /\ table'[fdt[d].inode].taken = table[fdt[d].inode].taken
           /\ root'[fdt[d].inode].name = root[fdt[d].inode].name
  PROVE  HeldRight'
  <1>1. ASSUME NEW d \in HeldFds'
        PROVE  /\ fdt'[d].inode # Closed /\ table'[fdt'[d].inode].taken = 1
               /\ root'[fdt'[d].inode].name = held'[d]
    BY <1>1, HeldIsLive, DiskTyped
  <1>2. ASSUME NEW d \in HeldFds', NEW e \in HeldFds', held'[e] = held'[d]
        PROVE  e = d
    BY <1>2 DEF DiskInv, HeldRight, HeldOnOwnFile
  <1> QED
    BY <1>1, <1>2 DEF HeldRight, HeldOnOwnFile

LEMMA HeldFclose ==
  ASSUME DiskInv, NEW fd \in Fds, NEW r, Fclose(fd, r),
         held' = [held EXCEPT ![fd] = NoName]
  PROVE  HeldRight' /\ (OpenIsHeld => OpenIsHeld')
  <1>0. /\ fdt \in [Fds -> Descriptors] /\ held \in [Fds -> Names \cup {NoName}]
    BY DiskTyped DEF DiskInv, HeldRight
  <1>1. /\ root' = root /\ table' = table
        /\ \A d \in Fds : d # fd => fdt'[d] = fdt[d]
        /\ fdt'[fd].inode = Closed
    BY <1>0 DEF Fclose, vars
  <1>2. HeldFds' = HeldFds \ {fd} /\ \A d \in HeldFds' : d # fd /\ held'[d] = held[d]
    BY <1>0 DEF HeldFds
  <1>3. held' \in [Fds -> Names \cup {NoName}]
    BY <1>0
  <1>4. \A d \in HeldFds' :
           /\ held'[d] = held[d] /\ fdt'[d].inode = fdt[d].inode
           /\ table'[fdt[d].inode].taken = table[fdt[d].inode].taken
           /\ root'[fdt[d].inode].name = root[fdt[d].inode].name
    BY <1>1, <1>2 DEF HeldFds
  <1>5. HeldRight'
    BY <1>2, <1>3, <1>4, HeldStays
  <1>6. OpenIsHeld => OpenIsHeld'
    BY <1>1, <1>2 DEF OpenIsHeld
  <1> QED
    BY <1>5, <1>6

LEMMA HeldFwrite ==
  ASSUME DiskInv, NEW fd \in Fds, NEW buf \in Buffers, NEW r,
         DiskFwrite(fd, buf, r), held' = held
  PROVE  HeldRight' /\ (OpenIsHeld => OpenIsHeld')
  <1>0. /\ TypeOK /\ 0 \in used /\ fdt \in [Fds -> Descriptors]
        /\ held \in [Fds -> Names \cup {NoName}]
    BY DiskTyped DEF DiskInv, HeldRight
  <1>1. /\ root' = root /\ \A n \in Files : table'[n].taken = table[n].taken
        /\ \A d \in Fds : fdt'[d].inode = fdt[d].inode
    <2>1. CASE UNCHANGED vars
      BY <2>1 DEF vars
    <2>2. CASE ~ UNCHANGED vars
      <3>1. PICK n, end, k, ptrs, stored : Stores(n, fd, buf, end, k, ptrs, stored)
        BY <1>0, <2>2, FwriteStores DEF DiskFwrite
      <3>2. /\ root' = root /\ table'[n].taken = table[n].taken
            /\ \A m \in Files : m # n => table'[m] = table[m]
            /\ fdt' = [fdt EXCEPT ![fd].rwptr = end]
        BY <3>1 DEF Stores
      <3> QED
        BY <1>0, <3>2 DEF Descriptors
    <2> QED
      BY <2>1, <2>2
  <1>2. HeldFds' = HeldFds
    BY DEF HeldFds
  <1>3. \A d \in HeldFds' :
           /\ held'[d] = held[d] /\ fdt'[d].inode = fdt[d].inode
           /\ table'[fdt[d].inode].taken = table[fdt[d].inode].taken
           /\ root'[fdt[d].inode].name = root[fdt[d].inode].name
    BY <1>1, <1>2, HeldIsLive
  <1>4. HeldRight'
    BY <1>0, <1>2, <1>3, HeldStays
  <1>5. OpenIsHeld => OpenIsHeld'
    BY <1>1, <1>2 DEF OpenIsHeld
  <1> QED
    BY <1>4, <1>5

\* sfs_remove looks at no descriptor: it is the clients that spare the files they
\* hold.  A descriptor that nobody holds it leaves on a free inode.
LEMMA HeldRemove ==
  ASSUME DiskInv, DiskTidy, NEW file \in Names, NEW r, DiskRemove(file, r),
         held' = held
  PROVE  HeldRight' /\ (OpenIsHeld => OpenIsHeld')
  <1>0. /\ TypeOK /\ table \in [Files -> Inodes] /\ root \in [Files -> Slots]
        /\ held \in [Fds -> Names \cup {NoName}]
    BY DiskTyped DEF DiskInv, HeldRight
  <1>1. HeldFds' = HeldFds
    BY DEF HeldFds
  <1>2. /\ \A d \in Fds : fdt'[d].inode = fdt[d].inode
        /\ \A d \in HeldFds :
             /\ table'[fdt[d].inode].taken = table[fdt[d].inode].taken
             /\ root'[fdt[d].inode].name = root[fdt[d].inode].name
    <2>1. CASE UNCHANGED vars
      BY <2>1 DEF vars
    <2>2. CASE ~ UNCHANGED vars
      <3>1. PICK n : Removes(file, n)
        BY <1>0, <2>2, RemoveRemoves DEF DiskRemove
      <3>2. /\ n \in Files /\ root'[n].name = NoName
            /\ \A m \in Files : m # n => table'[m] = table[m] /\ root'[m] = root[m]
            /\ \A d \in Fds : fdt'[d].inode = fdt[d].inode
        BY <1>0, <3>1 DEF Removes, FreeSlot
      <3>3. \A d \in HeldFds : fdt[d].inode \in Files /\ fdt[d].inode # n
        BY <3>2, HeldIsLive DEF DiskTidy
      <3> QED
        BY <3>2, <3>3
    <2> QED
      BY <2>1, <2>2
  <1>3. HeldRight'
    <2>1. \A d \in HeldFds' :
           /\ held'[d] = held[d] /\ fdt'[d].inode = fdt[d].inode
           /\ table'[fdt[d].inode].taken = table[fdt[d].inode].taken
           /\ root'[fdt[d].inode].name = root[fdt[d].inode].name
      BY <1>1, <1>2 DEF HeldFds
    <2> QED
      BY <1>0, <1>1, <2>1, HeldStays
  <1>4. OpenIsHeld => OpenIsHeld'
    BY <1>1, <1>2 DEF OpenIsHeld
  <1> QED
    BY <1>3, <1>4

LEMMA DiskCallRight ==
  ASSUME DiskInv, DiskCalls, DiskTidy, again' = again
  PROVE  DiskInv'
  <1>0. /\ TypeOK /\ CoreInv
        /\ table \in [Files -> Inodes]
        /\ \A n \in Files : table[n].size \in Nat
    BY DiskTyped, GeometryAssumption DEF DiskInv, Inodes
  <1>1. Quiet \/ Opening \/ StoringHeld \/ Removing
    BY DiskCalled
  <1>2. CoreInv' /\ TypeOK'
    <2>1. StoringHeld => Storing
      BY DEF StoringHeld, Storing, HeldFds
    <2>2. Called
      BY <1>1, <2>1 DEF Called, Removing
    <2> QED
      BY <1>0, <2>2, CoreKept DEF CoreInv
  <1>3. FreeInodesBlank'
    BY <1>1, <1>2, BlankStep
  <1> DEFINE Right == /\ HeldRight' /\ (OpenIsHeld => OpenIsHeld')
                      /\ disk' \in DiskTables /\ DiskAgrees'
  <1>4. ASSUME NEW name \in Names, NEW fd, DiskFopen(name, fd),
               held' = IF fd = -1 THEN held ELSE [held EXCEPT ![fd] = name]
        PROVE  Right
    BY <1>2, <1>4, HeldFopen, DiskFopenRight
  <1>5. ASSUME NEW fd \in Fds, NEW r, Fclose(fd, r),
               held' = [held EXCEPT ![fd] = NoName], UNCHANGED disk
        PROVE  Right
    <2>1. root' = root /\ used' = used /\ table' = table
      BY <1>0, <1>5, FcloseQuiet DEF Quiet
    <2>2. disk' \in DiskTables /\ DiskAgrees'
      BY <1>0, <1>5, <2>1, DiskStays
    <2> QED
      BY <1>5, <2>2, HeldFclose
  <1>6. ASSUME NEW fd \in HeldFds, NEW buf \in Buffers, NEW r,
               DiskFwrite(fd, buf, r), held' = held
        PROVE  Right
    <2>1. fd \in Fds
      BY DEF HeldFds
    <2> QED
      BY <1>2, <1>6, <2>1, HeldFwrite, DiskFwriteRight
  <1>7. ASSUME NEW file \in Names, NEW r, DiskRemove(file, r), held' = held
        PROVE  Right
    BY <1>2, <1>7, HeldRemove, DiskRemoveRight
  <1>8. Right
    <2> HIDE DEF Right
    <2> QED
      BY <1>4, <1>5, <1>6, <1>7 DEF DiskCalls
  <1> QED
    BY <1>2, <1>3, <1>8 DEF DiskInv
-----------------------------------------------------------------------------
(* mksfs, called again. *)

LEMMA NobodyHolds == held' = NoneHeld => HeldRight'
  BY DEF NoneHeld, HeldRight, HeldOnOwnFile, HeldFds

LEMMA ReadBackRight ==
  ASSUME DiskInv, ReadBack
  PROVE  DiskInv'
  <1>0. /\ TypeOK /\ DirectoryAgrees /\ BlocksDistinct /\ FreeInodesBlank
        /\ disk \in DiskTables /\ DiskAgrees
        /\ table \in [Files -> Inodes] /\ root \in [Files -> Slots]
        /\ fdt \in [Fds -> Descriptors]
    BY DiskTyped DEF DiskInv
  <1>1. /\ table' \in [Files -> Inodes] /\ root' = root /\ used' = used
        /\ fdt' \in [Fds -> Descriptors] /\ blocks' = blocks
        /\ disk' = disk /\ current_file' = 0
        /\ fdt' = AllClosed \/ fdt' = disk.fdt
        /\ table' = disk.table
        /\ \A n \in Files : /\ table'[n].taken = table[n].taken
                            /\ table'[n].ptrs = table[n].ptrs
    BY <1>0 DEF ReadBack, Restored, AllClosed, DiskTables, DiskAgrees, Descriptors
  <1>2. TypeOK'
    BY <1>0, <1>1, GeometryAssumption DEF TypeOK, Inodes, Descriptors
  <1>3. BlocksDistinct' /\ DirectoryAgrees'
    BY <1>0, <1>1 DEF BlocksDistinct, DirectoryAgrees
  <1>4. HeldRight' /\ again'
    BY NobodyHolds DEF ReadBack
  <1>5. FreeInodesBlank'
    <2>1. \A n \in Files, p \in 0 .. Capacity - 1 : ByteAt(n, p)' = ByteAt(n, p)
      BY <1>1 DEF ByteAt
    <2> QED
      BY <1>0, <1>1, <2>1 DEF FreeInodesBlank, FreeInodes
  <1>6. disk' \in DiskTables /\ DiskAgrees'
    <2>1. DiskAgrees'
      <3>1. \A n \in Files : disk.table[n].size \in Int
        BY <1>0, GeometryAssumption DEF DiskTables, Inodes
      <3> QED
        BY <1>0, <1>1, <3>1 DEF DiskAgrees
    <2> QED
      BY <1>0, <1>1, <2>1
  <1> QED
    BY <1>2, <1>3, <1>4, <1>5, <1>6 DEF DiskInv, CoreInv

LEMMA FormatRight ==
  ASSUME DiskInv, Format
  PROVE  DiskInv'
  <1>0. /\ BlocksDistinct /\ table \in [Files -> Inodes] /\ used \subseteq Blocks
        /\ NoName \notin Names
    BY DiskTyped
  <1>1. /\ table' = [n \in Files |-> [table[n] EXCEPT !.taken = 0]]
        /\ root' = [n \in Files |-> [name |-> NoName, mode |-> 0]]
        /\ fdt' = AllClosed /\ used' = used \cup {0}
        /\ blocks' = [x \in Blocks |-> [o \in Offsets |-> NUL]]
        /\ current_file' = 0
    BY DEF Format, Formatted, FreeSlot, BitsAfter, NewDisk, Empty
  <1>2. /\ table' \in [Files -> Inodes]
        /\ \A n \in Files : table'[n].taken = 0 /\ table'[n].ptrs = table[n].ptrs
    BY <1>0, <1>1 DEF Inodes
  <1>3. TypeOK'
    <2>1. 0 \in Blocks
      BY Finite
    <2> QED
      BY <1>0, <1>1, <1>2, <2>1, GeometryAssumption, NamesAssumption
         DEF TypeOK, Inodes, AllClosed
  <1>4. BlocksDistinct'
    <2>1. \A n \in Files, b \in Pointers : table'[n].ptrs[b] = table[n].ptrs[b]
      BY <1>2
    <2>2. used' = used \cup {0}
      BY <1>1
    <2> QED
      BY <1>0, <2>1, <2>2 DEF BlocksDistinct
  <1>5. DirectoryAgrees'
    BY <1>1, <1>2 DEF DirectoryAgrees
  <1>6. HeldRight' /\ again'
    BY NobodyHolds DEF Format
  <1>7. FreeInodesBlank'
    <2>1. ASSUME NEW n \in Files, NEW p \in 0 .. Capacity - 1
          PROVE  ByteAt(n, p)' = NUL
      <3>1. /\ p \div BlockSize \in Pointers /\ p % BlockSize \in Offsets
            /\ table'[n].ptrs \in [Pointers -> Blocks]
        BY <1>2, Positions DEF Inodes
      <3> QED
        BY <1>1, <3>1 DEF ByteAt
    <2> QED
      BY <2>1 DEF FreeInodesBlank, FreeInodes
  <1>8. disk' \in DiskTables /\ DiskAgrees'
    BY <1>3, DiskWritten DEF Format
  <1> QED
    BY <1>3, <1>4, <1>5, <1>6, <1>7, <1>8 DEF DiskInv, CoreInv
-----------------------------------------------------------------------------
LEMMA DiskStart == DiskInit => DiskInv
  <1> SUFFICES ASSUME DiskInit PROVE DiskInv
    OBVIOUS
  <1>1. CoreInv /\ TypeOK
    BY CoreInit DEF DiskInit, CoreInv
  <1>2. HeldRight /\ OpenIsHeld
    BY DEF DiskInit, Init, NoneHeld, HeldRight, HeldOnOwnFile, HeldFds, OpenIsHeld
  <1>3. FreeInodesBlank
    <2>1. \A n \in Files : table[n].ptrs = NoBlocks
      BY DEF DiskInit, Init
    <2>2. \A n \in Files, p \in 0 .. Capacity - 1 : ByteAt(n, p) = NUL
      BY <2>1, Positions DEF ByteAt, NoBlocks
    <2> QED
      BY <2>2 DEF FreeInodesBlank, FreeInodes
  <1>4. /\ table \in [Files -> Inodes] /\ root \in [Files -> Slots]
        /\ fdt \in [Fds -> Descriptors] /\ used \subseteq Blocks
    BY <1>1 DEF TypeOK, Inodes, Slots, Descriptors
  <1>5. disk = [table |-> table, root |-> root, used |-> used, fdt |-> Shared(fdt)]
    BY DEF DiskInit
  <1>6. disk \in DiskTables
    BY <1>4, <1>5, SharedTyped DEF DiskTables
  <1>7. DiskAgrees
    <2>1. \A n \in Files : table[n].size \in Int
      BY <1>4, GeometryAssumption DEF Inodes
    <2> QED
      BY <1>5, <2>1 DEF DiskAgrees
  <1> QED
    BY <1>1, <1>2, <1>3, <1>6, <1>7 DEF DiskInv

LEMMA DiskStep == DiskInv /\ [DiskNext]_diskVars => DiskInv'
  <1> SUFFICES ASSUME DiskInv, [DiskNext]_diskVars PROVE DiskInv'
    OBVIOUS
  <1>1. CASE UNCHANGED diskVars
    BY <1>1 DEF diskVars, vars, DiskInv, CoreInv, TypeOK, BlocksDistinct,
                DirectoryAgrees, HeldRight, HeldOnOwnFile, HeldFds, OpenIsHeld,
                FreeInodesBlank, FreeInodes, ByteAt, DiskAgrees
  <1>2. CASE DiskCalls /\ DiskTidy /\ UNCHANGED again
    BY <1>2, DiskCallRight
  <1>3. CASE ReadBack
    BY <1>3, ReadBackRight
  <1>4. CASE Format
    BY <1>4, FormatRight
  <1> QED
    BY <1>1, <1>2, <1>3, <1>4 DEF DiskNext

LEMMA DiskCorrect == DiskSpec => []DiskInv
  BY DiskStart, DiskStep, PTL DEF DiskSpec

\* The blocks of files stay apart although mksfs(0) takes the bitmap and the
\* pointers from the disk, and mksfs(1) leaves old pointers in free inodes.
THEOREM DiskBlocksCorrect == DiskSpec => []BlocksDistinct
  BY DiskCorrect, PTL DEF DiskInv, CoreInv

\* mksfs loses no block either: mksfs(0) brings back bits and pointers that
\* belong together, and the blocks that mksfs(1) leaves to free inodes go to the
\* files made of those.
THEOREM DiskWordCorrect == DiskSpec => []LostBeyondWord
  <1>1. DiskInit => LostBeyondWord
    BY DEF DiskInit, Init, LostBeyondWord
  <1>2. DiskInv /\ LostBeyondWord /\ [DiskNext]_diskVars => LostBeyondWord'
    <2> SUFFICES ASSUME DiskInv, LostBeyondWord, [DiskNext]_diskVars
                 PROVE  LostBeyondWord'
      OBVIOUS
    <2>1. CASE DiskCalls
      BY <2>1, DiskCalled, WordKept
         DEF DiskInv, Called, Removing, StoringHeld, Storing, HeldFds
    <2>2. CASE ReadBack \/ Format \/ UNCHANGED diskVars
      <3>1. /\ used' \ {0} = used \ {0}
            /\ \A n \in Files : table'[n].ptrs = table[n].ptrs
        BY <2>2, DiskTyped
        DEF ReadBack, Format, Formatted, BitsAfter, diskVars, vars, DiskInv,
            DiskAgrees, Inodes
      <3> QED
        BY <3>1 DEF LostBeyondWord
    <2> QED
      BY <2>1, <2>2 DEF DiskNext
  <1> QED
    BY <1>1, <1>2, DiskCorrect, PTL DEF DiskSpec

\* Inodes and directory agree after mksfs as well.
THEOREM DiskDirectoryCorrect == DiskSpec => []DirectoryAgrees
  BY DiskCorrect, PTL DEF DiskInv, CoreInv

\* The size that mksfs(0) would find is never more than the size of the file.
THEOREM SizesCorrect == DiskSpec => []SizeOnDisk
  <1>1. DiskInv => SizeOnDisk
    BY DEF DiskInv, DiskAgrees, SizeOnDisk
  <1> QED
    BY <1>1, DiskCorrect, PTL

\* Whatever descriptors mksfs(0) has brought back, and wherever removals have left
\* those since, a client's own descriptor is on its own file.
THEOREM HeldCorrect == DiskSpec => []HeldOnOwnFile
  BY DiskCorrect, PTL DEF DiskInv, HeldRight

\* The old blocks of a free inode read as empty whatever mksfs is called for.
THEOREM BlankCorrect == DiskSpec => []FreeInodesBlank
  BY DiskCorrect, PTL DEF DiskInv

\* mksfs(0) at any moment gives back every file that there was.
THEOREM FilesCorrect == DiskSpec => FilesSurvive
  <1> DEFINE Survive ==
        ReadBack =>
          \A n \in Files :
            /\ root'[n] = root[n] /\ table'[n].taken = table[n].taken
            /\ \A p \in 0 .. Capacity - 1 : ByteAt(n, p)' = ByteAt(n, p)
            /\ {table'[n].ptrs[b] : b \in Pointers} \subseteq used'
  <1>1. ASSUME DiskInv PROVE Survive
    <2> SUFFICES ASSUME ReadBack, NEW n \in Files
                 PROVE  /\ root'[n] = root[n] /\ table'[n].taken = table[n].taken
                        /\ \A p \in 0 .. Capacity - 1 : ByteAt(n, p)' = ByteAt(n, p)
                        /\ {table'[n].ptrs[b] : b \in Pointers} \subseteq used'
      OBVIOUS
    <2>1. /\ root' = root /\ used' = used /\ blocks' = blocks
          /\ table'[n].taken = table[n].taken /\ table'[n].ptrs = table[n].ptrs
      BY <1>1 DEF ReadBack, DiskInv, DiskAgrees
    <2>2. \A b \in Pointers : table[n].ptrs[b] \in used
      BY <1>1, DiskTyped DEF BlocksDistinct
    <2> QED
      BY <2>1, <2>2 DEF ByteAt
  <1>2. DiskInv /\ [DiskNext]_diskVars => [Survive]_diskVars
    BY <1>1
  <1>3. FilesSurvive <=> [][Survive]_diskVars
    BY DEF FilesSurvive
  <1> QED
    BY <1>2, <1>3, DiskCorrect, PTL DEF DiskSpec
-----------------------------------------------------------------------------
(* The size of a file is where the next byte goes. *)

Chars(n) == {p \in 0 .. Capacity - 1 : ByteAt(n, p) # NUL}
Size(n) == table[n].size + Cardinality(Chars(n))

\* What appending clients see: beyond its size a file is empty, and the position
\* of an open descriptor is the size.
Appended ==
  /\ \A n \in FreeInodes : table[n].size = 0
  /\ \A n \in Files, p \in 0 .. Capacity - 1 : p >= Size(n) => ByteAt(n, p) = NUL
  /\ \A d \in Fds : fdt[d].inode # Closed => fdt[d].rwptr = Size(fdt[d].inode)

\* No block beyond the first word of the bitmap is in use, and there are free
\* blocks enough to fill up any one file.
Spare == used \subseteq 0 .. WordBits - 1 /\ \A n \in Files : RoomFor(n)

\* A step that neither changes what the file n holds nor frees it.
Holding(n) ==
  /\ table'[n].size = table[n].size
  /\ table'[n].taken = 0 => table[n].taken = 0
  /\ \A p \in 0 .. Capacity - 1 : ByteAt(n, p)' = ByteAt(n, p)

LEMMA CharsFinite ==
  ASSUME NEW n
  PROVE  IsFiniteSet(Chars(n)) /\ Cardinality(Chars(n)) \in Nat
  <1>1. IsFiniteSet(0 .. Capacity - 1) /\ Chars(n) \subseteq 0 .. Capacity - 1
    BY Positions, FS_Interval DEF Chars
  <1> QED
    BY <1>1, FS_Subset, FS_CardinalityType

\* No two slots have the same name, so sfs_getfilesize finds the right one.
LEMMA SizeOfName ==
  ASSUME DiskInv, NEW n \in Files, root[n].name # NoName
  PROVE  FileSize(root[n].name) = Size(n)
  <1>1. Named(root[n].name) = {n}
    BY DiskTyped DEF DirectoryAgrees, Named
  <1>2. IsFiniteSet({n}) /\ {n} \in SUBSET Int
    BY FS_Singleton, Finite
  <1>3. Min({n}) = n
    BY <1>2, MinLeast
  <1> QED
    BY <1>1, <1>3 DEF FileSize, Size, Chars

\* An empty file that is not open may be freed, all others must be held, and the
\* descriptors that are open afterwards be where they should have been before.
LEMMA AppendedStays ==
  ASSUME DiskInv', Appended,
         \A m \in Files : Holding(m) \/ (table'[m].taken = 0 /\ table'[m].size = 0),
         \A d \in Fds : fdt'[d].inode # Closed =>
            \E m \in Files : /\ m = fdt'[d].inode /\ Holding(m)
                             /\ fdt'[d].rwptr = Size(m)
  PROVE  Appended'
  <1>1. ASSUME NEW m \in Files, Holding(m) PROVE Size(m)' = Size(m)
    <2>1. Chars(m)' = Chars(m)
      BY <1>1 DEF Holding, Chars
    <2> QED
      BY <1>1, <2>1 DEF Holding, Size
  <1>2. \A m \in Files : table'[m].taken = 0 => table'[m].size = 0
    BY DEF Appended, FreeInodes, Holding
  <1>3. ASSUME NEW m \in Files, NEW p \in 0 .. Capacity - 1, p >= Size(m)'
        PROVE  ByteAt(m, p)' = NUL
    <2>1. CASE Holding(m)
      BY <1>1, <1>3, <2>1 DEF Appended, Holding
    <2>2. CASE table'[m].taken = 0
      BY <2>2 DEF DiskInv, FreeInodesBlank, FreeInodes
    <2> QED
      BY <2>1, <2>2
  <1>4. ASSUME NEW d \in Fds, fdt'[d].inode # Closed
        PROVE  (fdt[d].rwptr = Size(fdt[d].inode))'
    <2>1. PICK m \in Files :
             m = fdt'[d].inode /\ Holding(m) /\ fdt'[d].rwptr = Size(m)
      BY <1>4
    <2>2. fdt'[d].rwptr = Size(m)'
      BY <1>1, <2>1
    <2> QED
      BY <2>1, <2>2 DEF Size, Chars, ByteAt
  <1>5. \A m \in Files, p \in 0 .. Capacity - 1 : p >= Size(m)' => ByteAt(m, p)' = NUL
    BY <1>3
  <1>6. \A m \in FreeInodes' : table'[m].size = 0
    BY <1>2 DEF FreeInodes
  <1> QED
    BY <1>4, <1>5, <1>6 DEF Appended

LEMMA AppendedFopen ==
  ASSUME DiskInv, DiskInv', Appended, NEW name \in Names, NEW fd,
         DiskFopen(name, fd), ~ UNCHANGED vars
  PROVE  Appended'
  <1>0. /\ TypeOK /\ table \in [Files -> Inodes] /\ root \in [Files -> Slots]
        /\ fdt \in [Fds -> Descriptors]
        /\ Closed \notin Files /\ NoName \notin Names
    BY DiskTyped
  <1>1. PICK n, pos : Opens(name, fd, n, pos)
    <2>1. Fopen(name, fd)
      BY DEF DiskFopen, Fopen
    <2> QED
      BY <1>0, <2>1, FopenOpens
  <1>2. /\ fd \in Fds /\ n \in Files /\ blocks' = blocks
        /\ \/ root[n].name = name /\ pos = FileSize(name)
           \/ table[n].taken = 0 /\ pos = 0
        /\ fdt' = [fdt EXCEPT ![fd] = [inode |-> n, rwptr |-> pos]]
        /\ table' = [table EXCEPT ![n].taken = 1]
    BY <1>1 DEF Opens
  <1>3. \A m \in Files : Holding(m)
    <2>1. \A m \in Files : /\ table'[m].size = table[m].size
                           /\ table'[m].ptrs = table[m].ptrs
                           /\ table'[m].taken = 0 => table[m].taken = 0
      BY <1>0, <1>2 DEF Inodes
    <2> QED
      BY <1>2, <2>1 DEF Holding, ByteAt
  <1>4. pos = Size(n)
    <2>1. CASE root[n].name = name /\ pos = FileSize(name)
      BY <1>0, <1>2, <2>1, SizeOfName
    <2>2. CASE table[n].taken = 0 /\ pos = 0
      <3>1. n \in FreeInodes
        BY <1>2, <2>2 DEF FreeInodes
      <3>2. Chars(n) = {}
        BY <3>1 DEF Chars, DiskInv, FreeInodesBlank
      <3>3. table[n].size = 0
        BY <3>1 DEF Appended
      <3> QED
        BY <2>2, <3>2, <3>3, FS_EmptySet DEF Size
    <2> QED
      BY <1>2, <2>1, <2>2
  <1>5. ASSUME NEW d \in Fds, fdt'[d].inode # Closed
        PROVE  fdt'[d].inode \in Files /\ fdt'[d].rwptr = Size(fdt'[d].inode)
    <2>1. CASE d = fd
      BY <1>0, <1>2, <1>4, <2>1
    <2>2. CASE d # fd
      BY <1>0, <1>2, <1>5, <2>2 DEF Appended, Descriptors
    <2> QED
      BY <2>1, <2>2
  <1> QED
    BY <1>3, <1>5, AppendedStays

LEMMA AppendedFclose ==
  ASSUME DiskInv, DiskInv', Appended, NEW fd \in Fds, NEW r, Fclose(fd, r),
         ~ UNCHANGED vars
  PROVE  Appended'
  <1>0. fdt \in [Fds -> Descriptors]
    BY DiskTyped
  <1>1. /\ fdt' = [fdt EXCEPT ![fd] = [inode |-> Closed, rwptr |-> 0]]
        /\ table' = table /\ blocks' = blocks
    BY DEF Fclose
  <1>2. \A m \in Files : Holding(m)
    BY <1>1 DEF Holding, ByteAt
  <1>3. ASSUME NEW d \in Fds, fdt'[d].inode # Closed
        PROVE  fdt'[d].inode \in Files /\ fdt'[d].rwptr = Size(fdt'[d].inode)
    <2>1. d # fd
      BY <1>0, <1>1, <1>3
    <2> QED
      BY <1>0, <1>1, <1>3, <2>1 DEF Appended, Descriptors
  <1> QED
    BY <1>2, <1>3, AppendedStays

\* A client that closes a file first removes one that is not open; and the bit
\* that is cleared before the bitmap is one of a block beyond its first word.
LEMMA AppendedRemove ==
  ASSUME DiskInv, DiskInv', Appended, OpenIsHeld, Spare, DiskTidy, NEW file \in Names, NEW r,
         DiskRemove(file, r), ~ UNCHANGED vars
  PROVE  Appended'
  <1>0. /\ TypeOK /\ CoreInv /\ DirectoryAgrees /\ BlocksDistinct
        /\ table \in [Files -> Inodes] /\ root \in [Files -> Slots]
        /\ fdt \in [Fds -> Descriptors]
        /\ Closed \notin Files /\ NoName \notin Names
    BY DiskTyped DEF DiskInv
  <1>1. PICK n : Removes(file, n)
    BY <1>0, RemoveRemoves DEF DiskRemove
  <1>2. /\ n \in Files /\ root'[n].name = NoName /\ root[n].name # NoName
        /\ table' = [table EXCEPT ![n] = CleanInode(table[n])]
    BY <1>0, <1>1 DEF Removes, FreeSlot, Matches
  <1>3. fdt' = fdt
    <2>1. \A b \in Pointers : table[n].ptrs[b] # 0 => table[n].ptrs[b] \in used
      BY <1>0, <1>2 DEF BlocksDistinct
    <2>2. \A x \in Held(n) : x \in used
      BY <2>1 DEF Held
    <2>3. \A x \in used : x < WordBits
      BY GeometryAssumption DEF Spare
    <2> QED
      BY <1>1, <2>2, <2>3 DEF Removes
  <1>4. table'[n].taken = 0 /\ table'[n].size = 0
    BY <1>0, <1>2 DEF CleanInode
  <1>5. ASSUME NEW m \in Files, m # n PROVE Holding(m)
    <2>1. table'[m] = table[m]
      BY <1>0, <1>2, <1>5
    <2>2. \A p \in 0 .. Capacity - 1 : ByteAt(m, p)' = ByteAt(m, p)
      BY <1>0, <1>1, <1>5, BytesRemoved
    <2> QED
      BY <2>1, <2>2 DEF Holding
  <1>6. ASSUME NEW d \in Fds, fdt'[d].inode # Closed
        PROVE  /\ fdt'[d].inode \in Files /\ fdt'[d].inode # n
               /\ fdt'[d].rwptr = Size(fdt'[d].inode)
    BY <1>0, <1>2, <1>3, <1>6 DEF DiskTidy, OpenIsHeld, Appended, Descriptors
  <1> QED
    BY <1>4, <1>5, <1>6, AppendedStays

\* Of the next k bytes of a file those that are NUL are counted in the inode, and
\* the others by sfs_getfilesize: together they are k.
LEMMA BytesCounted ==
  ASSUME NEW buf, NEW at \in Nat, NEW end \in Int, end > at
  PROVE  LET S == {p \in at .. end - 1 : buf[p - at + 1] # NUL} IN
         /\ IsFiniteSet(S)
         /\ Cardinality(S) \in Nat /\ NulsUpTo(buf, end - at) \in Nat
         /\ Cardinality(S) + NulsUpTo(buf, end - at) = end - at
  <1> DEFINE I == at .. end - 1
             K == 1 .. end - at
             S == {p \in I : buf[p - at + 1] # NUL}
             Z == {p \in I : buf[p - at + 1] = NUL}
             N == {j \in K : buf[j] = NUL}
             f == [p \in Z |-> p - at + 1]
  <1>1. IsFiniteSet(I) /\ Cardinality(I) = end - at
    BY FS_Interval
  <1>2. /\ S \subseteq I /\ Z \subseteq I /\ I = S \cup Z /\ S \cap Z = {}
    OBVIOUS
  <1>3. IsFiniteSet(S) /\ IsFiniteSet(Z)
    BY <1>1, <1>2, FS_Subset
  <1>4. Cardinality(S) \in Nat /\ Cardinality(Z) \in Nat
    BY <1>3, FS_CardinalityType
  <1>5. Cardinality(S) + Cardinality(Z) = end - at
    <2>1. Cardinality(I) = Cardinality(S) + Cardinality(Z) - Cardinality({})
      <3> HIDE DEF S, Z, I
      <3> QED
        BY <1>2, <1>3, FS_Union
    <2>2. Cardinality({}) = 0
      BY FS_EmptySet
    <2> HIDE DEF S, Z, I
    <2> QED
      BY <1>1, <1>4, <2>1, <2>2
  <1>6. Cardinality(N) = Cardinality(Z)
    <2>1. f \in [Z -> N]
      <3>1. ASSUME NEW p \in Z PROVE p - at + 1 \in N
        <4>1. p \in at .. end - 1 /\ buf[p - at + 1] = NUL
          OBVIOUS
        <4>2. p - at + 1 \in 1 .. end - at
          BY <4>1
        <4> QED
          BY <4>1, <4>2
      <3> QED
        BY <3>1
    <2>2. \A p, q \in Z : f[p] = f[q] => p = q
      OBVIOUS
    <2>3. \A j \in N : \E p \in Z : f[p] = j
      <3> SUFFICES ASSUME NEW j \in N PROVE \E p \in Z : f[p] = j
        OBVIOUS
      <3>1. j \in 1 .. end - at /\ buf[j] = NUL
        OBVIOUS
      <3>2. j + at - 1 \in at .. end - 1 /\ (j + at - 1) - at + 1 = j
        BY <3>1
      <3>3. j + at - 1 \in Z
        BY <3>1, <3>2
      <3> QED
        BY <3>2, <3>3
    <2> HIDE DEF f, N, Z
    <2>4. f \in Bijection(Z, N)
      BY <2>1, <2>2, <2>3 DEF Bijection, Injection, Surjection, IsInjective
    <2> QED
      BY <1>3, <2>4, FS_Bijection DEF ExistsBijection
  <1>7. Cardinality(N) = NulsUpTo(buf, end - at)
    BY DEF NulsUpTo
  <1> HIDE DEF N, Z
  <1>8. /\ NulsUpTo(buf, end - at) \in Nat
        /\ Cardinality(S) + NulsUpTo(buf, end - at) = end - at
    <2> HIDE DEF S
    <2> QED
      BY <1>4, <1>5, <1>6, <1>7
  <1> QED
    BY <1>3, <1>4, <1>8

\* Where there is a block for every byte the position and the size go on by the
\* same amount: the bytes lie where the file was empty.
LEMMA AppendedFwrite ==
  ASSUME DiskInv, DiskInv', Appended, OpenIsHeld, Spare, NEW fd \in HeldFds,
         NEW buf \in Buffers, NEW r, DiskFwrite(fd, buf, r), ~ UNCHANGED vars
  PROVE  Appended'
  <1>0. /\ TypeOK /\ CoreInv /\ BlocksDistinct' /\ 0 \in used
        /\ table \in [Files -> Inodes] /\ fdt \in [Fds -> Descriptors]
        /\ Closed \notin Files /\ Len(buf) \in Nat /\ fd \in Fds
        /\ \A m \in Files : table[m].size \in Nat
    BY DiskTyped, BufferTyped, GeometryAssumption
       DEF DiskInv, CoreInv, Inodes, HeldFds
  <1>1. PICK n, end, k, ptrs, stored : Stores(n, fd, buf, end, k, ptrs, stored)
    BY <1>0, FwriteStores DEF DiskFwrite
  <1>2. PICK at \in Nat : at = fdt[fd].rwptr
    BY <1>0 DEF Descriptors
  <1>3. /\ n = fdt[fd].inode /\ n \in Files
        /\ end \in at + 1 .. at + Len(buf) /\ end <= Capacity
        /\ k = end - at
        /\ table'[n].size = table[n].size + NulsUpTo(buf, end - at)
        /\ table'[n].taken = table[n].taken
        /\ \A m \in Files : m # n => table'[m] = table[m]
        /\ fdt' = [fdt EXCEPT ![fd].rwptr = end]
    BY <1>1, <1>2 DEF Stores, Spare
  <1>4. at = Size(n)
    BY <1>0, <1>2, <1>3 DEF Appended
  <1>5. ASSUME NEW p \in 0 .. Capacity - 1
        PROVE  /\ ByteAt(n, p)' = IF p \in at .. end - 1 THEN buf[p - at + 1]
                                  ELSE ByteAt(n, p)
               /\ \A m \in Files : m # n => ByteAt(m, p)' = ByteAt(m, p)
    <2>1. at + k - 1 = end - 1
      BY <1>0, <1>3
    <2> QED
      BY <1>0, <1>1, <1>2, <2>1, BytesStored
  <1>6. Size(n)' = end
    <2> DEFINE S == {p \in at .. end - 1 : buf[p - at + 1] # NUL}
    <2>1. end \in Int /\ end > at /\ at .. end - 1 \subseteq 0 .. Capacity - 1
      BY <1>0, <1>3, Positions
    <2>2. Chars(n)' = Chars(n) \cup S
      <3>1. \A p \in 0 .. Capacity - 1 : p \in at .. end - 1 => ByteAt(n, p) = NUL
        BY <1>3, <1>4 DEF Appended
      <3> QED
        BY <1>5, <2>1, <3>1 DEF Chars
    <2>3. Chars(n) \cap S = {}
      <3>1. \A p \in Chars(n) : p \in 0 .. Capacity - 1 /\ ByteAt(n, p) # NUL
        BY DEF Chars
      <3>2. \A p \in Chars(n) : ~ (p >= at)
        BY <1>3, <1>4, <3>1 DEF Appended
      <3>3. \A p \in S : p >= at
        BY <2>1
      <3> QED
        BY <3>2, <3>3
    <2>4. /\ IsFiniteSet(S) /\ Cardinality(S) \in Nat
          /\ NulsUpTo(buf, end - at) \in Nat
          /\ Cardinality(S) + NulsUpTo(buf, end - at) = end - at
      BY <2>1, BytesCounted
    <2> HIDE DEF S
    <2> DEFINE c == Cardinality(Chars(n))
               s == Cardinality(S)
               z == NulsUpTo(buf, end - at)
               size == table[n].size
    <2>5. Cardinality(Chars(n)') = c + s
      <3>1. IsFiniteSet(Chars(n)) /\ c \in Nat /\ Cardinality({}) = 0
        BY CharsFinite, FS_EmptySet
      <3>2. Cardinality(Chars(n) \cup S) = c + s - Cardinality(Chars(n) \cap S)
        BY <2>4, <3>1, FS_Union
      <3>3. c + s - 0 = c + s
        BY <2>4, <3>1
      <3> HIDE DEF c, s
      <3> QED
        BY <2>2, <2>3, <3>1, <3>2, <3>3
    <2>6. Size(n)' = (size + z) + (c + s)
      BY <1>3, <2>5 DEF Size
    <2>7. at = size + c /\ s + z = end - at
      BY <1>4, <2>4 DEF Size
    <2>8. c \in Nat /\ s \in Nat /\ z \in Nat /\ size \in Nat
      BY <1>0, <1>3, <2>4, CharsFinite
    <2> HIDE DEF c, s, z, size
    <2> QED
      BY <2>1, <2>6, <2>7, <2>8
  <1>7. ASSUME NEW m \in Files, m # n
        PROVE  Size(m)' = Size(m) /\ table'[m] = table[m]
    <2>1. Chars(m)' = Chars(m)
      BY <1>5, <1>7 DEF Chars
    <2> QED
      BY <1>3, <1>7, <2>1 DEF Size
  <1>8. \A m \in FreeInodes' : table'[m].size = 0
    <2>1. table[n].taken # 0
      BY <1>3, HeldIsLive
    <2> QED
      BY <1>3, <2>1 DEF Appended, FreeInodes
  <1>9. ASSUME NEW m \in Files, NEW p \in 0 .. Capacity - 1, p >= Size(m)'
        PROVE  ByteAt(m, p)' = NUL
    <2>1. CASE m = n
      <3>1. p >= end /\ p >= at /\ p \notin at .. end - 1
        BY <1>3, <1>6, <1>9, <2>1
      <3> QED
        BY <1>4, <1>5, <2>1, <3>1 DEF Appended
    <2>2. CASE m # n
      BY <1>5, <1>7, <1>9, <2>2 DEF Appended
    <2> QED
      BY <2>1, <2>2
  <1>10. ASSUME NEW d \in Fds, fdt'[d].inode # Closed
         PROVE  (fdt[d].rwptr = Size(fdt[d].inode))'
    <2>1. fdt'[d].inode = fdt[d].inode
      BY <1>0, <1>3 DEF Descriptors
    <2>2. PICK m \in Files : m = fdt'[d].inode
      BY <1>0, <1>10, <2>1 DEF Descriptors
    <2>3. fdt'[d].rwptr = Size(m)'
      <3>1. CASE d = fd
        BY <1>0, <1>3, <1>6, <2>1, <2>2, <3>1 DEF Descriptors
      <3>2. CASE d # fd
        <4>1. m # n
          <5>1. d \in HeldFds
            BY <1>10, <2>1 DEF OpenIsHeld
          <5>2. m = n => held[d] = held[fd]
            BY <1>3, <2>1, <2>2, <5>1, HeldIsLive
          <5> QED
            BY <3>2, <5>1, <5>2 DEF DiskInv, HeldRight, HeldOnOwnFile
        <4>2. fdt'[d].rwptr = Size(m)
          BY <1>0, <1>3, <2>1, <2>2, <3>2 DEF Appended
        <4> QED
          BY <1>7, <4>1, <4>2
      <3> QED
        BY <3>1, <3>2
    <2> QED
      BY <2>2, <2>3 DEF Size, Chars, ByteAt
  <1>11. \A m \in Files, p \in 0 .. Capacity - 1 : p >= Size(m)' => ByteAt(m, p)' = NUL
    BY <1>9
  <1> QED
    BY <1>8, <1>10, <1>11 DEF Appended

LEMMA AppendedStart == DiskInit => Appended
  <1> SUFFICES ASSUME DiskInit PROVE Appended
    OBVIOUS
  <1>1. /\ \A n \in Files : table[n].size = 0 /\ table[n].ptrs = NoBlocks
        /\ \A d \in Fds : fdt[d].inode = Closed
    BY DEF DiskInit, Init
  <1>2. \A n \in Files, p \in 0 .. Capacity - 1 : ByteAt(n, p) = NUL
    BY <1>1, Positions DEF ByteAt, NoBlocks
  <1> QED
    BY <1>1, <1>2 DEF Appended, FreeInodes

LEMMA AppendedStep ==
  ASSUME DiskInv, DiskInv', Spare, [DiskNext]_diskVars, ~again => Appended
  PROVE  (~again => Appended)'
  <1> SUFFICES ASSUME ~again' PROVE Appended'
    OBVIOUS
  <1>1. CASE UNCHANGED vars /\ again' = again
    BY <1>1 DEF vars, Appended, FreeInodes, Size, Chars, ByteAt
  <1>2. CASE DiskCalls /\ DiskTidy /\ UNCHANGED again /\ ~ UNCHANGED vars
    <2>1. OpenIsHeld /\ Appended
      BY <1>2 DEF DiskInv
    <2> QED
      BY <1>2, <2>1, AppendedFopen, AppendedFclose, AppendedFwrite, AppendedRemove
         DEF DiskCalls
  <1>3. CASE ReadBack \/ Format
    BY <1>3 DEF ReadBack, Format
  <1> QED
    BY <1>1, <1>2, <1>3 DEF DiskNext, diskVars

LEMMA AppendedPosition == DiskInv /\ Appended => SizeIsPosition
  <1> SUFFICES ASSUME DiskInv, Appended, ~again, NEW d \in Fds, fdt[d].inode # Closed
               PROVE  fdt[d].rwptr = FileSize(root[fdt[d].inode].name)
    BY DEF SizeIsPosition
  <1>1. PICK n \in Files : n = fdt[d].inode
    BY DiskTyped DEF Descriptors
  <1>2. root[n].name # NoName
    BY <1>1, HeldIsLive, DiskTyped DEF DiskInv, OpenIsHeld
  <1> QED
    BY <1>1, <1>2, SizeOfName DEF Appended

\* sfs_fopen places the position at the end of the file and every write leaves it
\* there, on a disk of any size, if it is never so full that a file could not be
\* filled up and no block beyond the first word of the bitmap is ever in use.
THEOREM PositionWhenSpare == DiskSpec => ([]Spare => []SizeIsPosition)
  <1> DEFINE Inv == ~again => Appended
  <1>1. DiskInit => Inv
    BY AppendedStart
  <1>2. DiskInv /\ DiskInv' /\ Spare /\ Inv /\ [DiskNext]_diskVars => Inv'
    BY AppendedStep
  <1>3. DiskInv /\ Inv => SizeIsPosition
    <2>1. CASE again
      BY <2>1 DEF SizeIsPosition
    <2> QED
      BY <2>1, AppendedPosition
  <1> HIDE DEF Inv
  <1> QED
    BY <1>1, <1>2, <1>3, DiskCorrect, PTL DEF DiskSpec

\* The first word of the bitmap is the whole of it, and has a bit for the root
\* and one for every block that the files can have.
Roomy == Words = 1 /\ (NumInodes - 1) * FileBlocks < WordBits

\* On such a disk no block is lost, so that a file never lacks one: each bit that
\* is set is the root's or stands for a pointer that is not 0.
LEMMA RoomyIsSpare ==
  ASSUME Roomy, DiskInv, LostBeyondWord
  PROVE  Spare
  <1>0. /\ BlocksDistinct /\ 0 \in used /\ used \subseteq Blocks
        /\ WordBits \in Nat /\ FileBlocks \in Nat \ {0} /\ NumInodes - 1 \in Nat
    BY DiskTyped, GeometryAssumption
  <1>1. /\ Blocks = 0 .. WordBits - 1
        /\ IsFiniteSet(Blocks) /\ Cardinality(Blocks) = WordBits
    <2>1. Blocks = 0 .. WordBits - 1
      BY <1>0 DEF Roomy, Blocks
    <2> QED
      BY <1>0, <2>1, Finite, FS_Interval
  <1> DEFINE P == Files \X Pointers
             Z == {q \in P : table[q[1]].ptrs[q[2]] = 0}
             T == {q \in P : table[q[1]].ptrs[q[2]] # 0}
             late == used \ {0}
  <1>2. IsFiniteSet(P) /\ Cardinality(P) = (NumInodes - 1) * FileBlocks
    <2>1. Cardinality(Pointers) = FileBlocks
      BY <1>0, FS_Interval DEF Pointers
    <2> QED
      BY <2>1, Finite, FS_Product
  <1>3. /\ IsFiniteSet(Z) /\ IsFiniteSet(T)
        /\ Cardinality(Z) \in Nat /\ Cardinality(T) \in Nat
        /\ Cardinality(Z) + Cardinality(T) = (NumInodes - 1) * FileBlocks
    <2>1. Z \subseteq P /\ T \subseteq P /\ P = Z \cup T /\ Z \cap T = {}
      OBVIOUS
    <2> HIDE DEF Z, T, P
    <2>2. IsFiniteSet(Z) /\ IsFiniteSet(T)
      BY <1>2, <2>1, FS_Subset
    <2>3. Cardinality(Z) \in Nat /\ Cardinality(T) \in Nat /\ Cardinality({}) = 0
      BY <2>2, FS_CardinalityType, FS_EmptySet
    <2>4. Cardinality(P) = Cardinality(Z) + Cardinality(T) - Cardinality({})
      BY <2>1, <2>2, FS_Union
    <2> QED
      BY <1>2, <2>2, <2>3, <2>4
  <1>4. IsFiniteSet(late) /\ Cardinality(late) \in Nat /\ Cardinality(late) <= Cardinality(T)
    <2> DEFINE f == [q \in T |-> table[q[1]].ptrs[q[2]]]
    <2>1. f \in [T -> late]
      BY <1>0 DEF BlocksDistinct
    <2>2. \A x \in late : \E q \in T : f[q] = x
      <3> SUFFICES ASSUME NEW x \in late PROVE \E q \in T : f[q] = x
        OBVIOUS
      <3>1. x < WordBits /\ x # 0
        BY <1>0, <1>1
      <3>2. PICK m \in Files, b \in Pointers : table[m].ptrs[b] = x
        BY <3>1 DEF LostBeyondWord
      <3>3. <<m, b>> \in T
        BY <3>1, <3>2
      <3> QED
        BY <3>2, <3>3
    <2> HIDE DEF f, T, late
    <2>3. f \in Surjection(T, late)
      BY <2>1, <2>2 DEF Surjection
    <2> QED
      BY <1>3, <2>3, FS_Surjection, FS_CardinalityType
  <1>5. Cardinality(FreeBlocks) = WordBits - Cardinality(late) - 1
    <2>1. IsFiniteSet(used)
      BY <1>0, <1>1, FS_Subset
    <2>2. Cardinality(late) = Cardinality(used) - 1 /\ Cardinality(used) \in Nat
      BY <1>0, <2>1, FS_RemoveElement, FS_CardinalityType
    <2>3. Blocks \cap used = used
      BY <1>0
    <2>4. Cardinality(FreeBlocks) = Cardinality(Blocks) - Cardinality(used)
      <3>1. Cardinality(Blocks \ used) = Cardinality(Blocks) - Cardinality(Blocks \cap used)
        BY <1>1, FS_Difference, Zenon
      <3> QED
        BY <2>3, <3>1 DEF FreeBlocks
    <2> HIDE DEF late
    <2> QED
      BY <1>0, <1>1, <2>2, <2>4
  <1>6. ASSUME NEW n \in Files PROVE RoomFor(n)
    <2> DEFINE none == {b \in Pointers : table[n].ptrs[b] = 0}
               g == [b \in none |-> <<n, b>>]
    <2>1. g \in [none -> Z] /\ \A b, c \in none : g[b] = g[c] => b = c
      OBVIOUS
    <2> HIDE DEF g, none, Z
    <2>2. g \in Injection(none, Z)
      BY <2>1 DEF Injection, IsInjective
    <2>3. IsFiniteSet(none) /\ Cardinality(none) <= Cardinality(Z)
      BY <1>3, <2>2, FS_Injection
    <2>4. Cardinality(none) \in Nat
      BY <2>3, FS_CardinalityType
    <2> DEFINE a == (NumInodes - 1) * FileBlocks
    <2>5. a < WordBits /\ Cardinality(Z) + Cardinality(T) = a
      BY <1>3 DEF Roomy
    <2> HIDE DEF late, T, a
    <2>6. Cardinality(none) <= Cardinality(FreeBlocks)
      BY <1>0, <1>3, <1>4, <1>5, <2>3, <2>4, <2>5
    <2> QED
      BY <2>6 DEF RoomFor, none
  <1> QED
    BY <1>0, <1>1, <1>6 DEF Spare

\* On a disk that holds all that the files can have, within one word of the
\* bitmap, the size of a file is where appending clients stand, always.
THEOREM PositionCorrect == Roomy => (DiskSpec => []SizeIsPosition)
  <1> SUFFICES ASSUME Roomy PROVE DiskSpec => []SizeIsPosition
    OBVIOUS
  <1>1. DiskInv /\ LostBeyondWord => Spare
    BY RoomyIsSpare
  <1> QED
    BY <1>1, DiskCorrect, DiskWordCorrect, PositionWhenSpare, PTL
=============================================================================

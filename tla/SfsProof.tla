------------------------------ MODULE SfsProof ------------------------------
(***************************************************************************)
(* What sfs_api.c does right on a disk of any size, with any number of     *)
(* inodes and for all the names and buffers of its clients.                *)
(*                                                                         *)
(* A call leaves the tables and the blocks alone (Quiet), makes or opens a *)
(* file (Opening), stores bytes in one (Storing) or removes one            *)
(* (Removing).  Those four predicates say what a call does without         *)
(* saying how it finds a block, a slot or a descriptor; FourKinds shows    *)
(* that there are no others.  The invariants are CoreInv, for all clients, *)
(* and TidyInv, for clients that close a file before they remove it.       *)
(***************************************************************************)
EXTENDS Sfs, FiniteSetTheorems, TLAPS

-----------------------------------------------------------------------------
(* Finite sets of numbers: ranks, the k-th smallest and the smallest. *)

LEMMA RankIncreases ==
  ASSUME NEW S \in SUBSET Int, IsFiniteSet(S), NEW x \in S, NEW y \in S, x < y
  PROVE  Rank(S, x) < Rank(S, y)
  <1> DEFINE X == {z \in S : z <= x}
             Y == {z \in S : z <= y}
  <1>0. S \subseteq Int
    OBVIOUS
  <1>1. X \subseteq Y /\ y \in Y /\ y \notin X
    <2>1. \A z \in S : z <= x => z <= y
      BY <1>0
    <2>2. ~ (y <= x) /\ y <= y
      BY <1>0
    <2> QED
      BY <2>1, <2>2
  <1>2. IsFiniteSet(Y)
    BY FS_Subset
  <1>3. /\ Cardinality(X) <= Cardinality(Y)
        /\ Cardinality(Y) = Cardinality(X) => Y = X
    BY <1>1, <1>2, FS_Subset
  <1>4. Cardinality(X) \in Nat /\ Cardinality(Y) \in Nat
    BY <1>1, <1>2, FS_Subset, FS_CardinalityType
  <1>5. Cardinality(X) # Cardinality(Y)
    BY <1>1, <1>3
  <1> QED
    BY <1>3, <1>4, <1>5 DEF Rank

LEMMA RankBounds ==
  ASSUME NEW S \in SUBSET Int, IsFiniteSet(S), NEW x \in S
  PROVE  /\ Cardinality(S) \in Nat
         /\ Rank(S, x) \in 1 .. Cardinality(S)
  <1> DEFINE X == {z \in S : z <= x}
  <1>1. x \in X /\ X \subseteq S
    OBVIOUS
  <1>2. IsFiniteSet(X) /\ Cardinality(X) <= Cardinality(S)
    BY <1>1, FS_Subset
  <1>3. Cardinality(X) \in Nat /\ Cardinality(S) \in Nat
    BY <1>2, FS_CardinalityType
  <1>4. Cardinality(X) # 0
    BY <1>1, <1>2, FS_EmptySet
  <1> QED
    BY <1>2, <1>3, <1>4 DEF Rank

\* Ranks are a bijection from the set to 1 .. its cardinality.
LEMMA RankReached ==
  ASSUME NEW S \in SUBSET Int, IsFiniteSet(S), NEW k \in 1 .. Cardinality(S)
  PROVE  \E x \in S : Rank(S, x) = k
  <1> DEFINE n == Cardinality(S)
             f == [x \in S |-> Rank(S, x)]
  <1>1. n \in Nat
    BY FS_CardinalityType
  <1>2. f \in [S -> 1 .. n]
    BY RankBounds
  <1>3. ASSUME NEW x \in S, NEW y \in S, f[x] = f[y] PROVE x = y
    <2>1. f[x] \in 1 .. n /\ f[x] = Rank(S, x) /\ f[y] = Rank(S, y)
      BY <1>2
    <2>2. ~ (x < y) /\ ~ (y < x)
      BY <1>1, <1>3, <2>1, RankIncreases
    <2> QED
      BY <2>2
  <1>4. f \in Injection(S, 1 .. n)
    BY <1>2, <1>3 DEF Injection, IsInjective
  <1>5. IsFiniteSet(1 .. n) /\ Cardinality(1 .. n) = n
    BY <1>1, FS_Interval
  <1>6. f \in Surjection(S, 1 .. n)
    BY <1>4, <1>5, FS_Injection
  <1> QED
    BY <1>6 DEF Surjection

LEMMA NthRank ==
  ASSUME NEW S \in SUBSET Int, IsFiniteSet(S), NEW k \in 1 .. Cardinality(S)
  PROVE  Nth(S, k) \in S /\ Rank(S, Nth(S, k)) = k
  BY RankReached DEF Nth

LEMMA MinLeast ==
  ASSUME NEW S \in SUBSET Int, IsFiniteSet(S), S # {}
  PROVE  Min(S) \in S /\ \A y \in S : Min(S) <= y
  <1>1. Cardinality(S) \in Nat /\ Cardinality(S) # 0
    BY FS_CardinalityType, FS_EmptySet
  <1>2. PICK x \in S : Rank(S, x) = 1
    BY <1>1, RankReached
  <1>3. ASSUME NEW y \in S PROVE x <= y
    <2>1. Rank(S, y) >= 1
      BY RankBounds
    <2>2. Rank(S, y) \in Nat
      BY RankBounds
    <2> QED
      BY <1>2, <2>1, <2>2, RankIncreases
  <1> QED
    BY <1>3 DEF Min
-----------------------------------------------------------------------------
(* The geometry of the disk. *)

LEMMA Finite ==
  /\ IsFiniteSet(Files) /\ Files \subseteq Int /\ Cardinality(Files) = NumInodes - 1
  /\ IsFiniteSet(Fds) /\ Fds \subseteq Int
  /\ IsFiniteSet(Pointers) /\ Pointers \subseteq Int
  /\ IsFiniteSet(Blocks) /\ Blocks \subseteq Int /\ 0 \in Blocks
  <1>1. NumInodes - 1 \in Nat /\ FileBlocks - 1 \in Int /\ 1 \in Int /\ 0 \in Int
    BY GeometryAssumption
  <1>2. Words * WordBits - 1 \in Int /\ Words * WordBits - 1 >= 0
    <2>1. \A a, b \in Nat \ {0} : a * b \in Int /\ a * b >= 1
      OBVIOUS
    <2> QED
      BY <2>1, GeometryAssumption
  <1>3. /\ IsFiniteSet(Files) /\ Cardinality(Files) = NumInodes - 1
        /\ IsFiniteSet(Fds) /\ IsFiniteSet(Pointers)
    BY <1>1, FS_Interval DEF Files, Fds, Pointers
  <1>4. IsFiniteSet(Blocks)
    BY <1>1, <1>2, FS_Interval DEF Blocks
  <1>5. 0 \in Blocks
    BY <1>2 DEF Blocks
  <1> QED
    BY <1>3, <1>4, <1>5 DEF Files, Fds, Pointers, Blocks

\* A position lies in a block of the file, and is where the block says.
LEMMA Positions ==
  /\ Capacity \in Nat
  /\ \A p \in 0 .. Capacity - 1 :
       /\ p \div BlockSize \in Pointers
       /\ p % BlockSize \in Offsets
       /\ ((p \div BlockSize) * BlockSize) + (p % BlockSize) = p
  <1>0. FileBlocks \in Nat /\ BlockSize \in Nat /\ BlockSize > 0
    BY GeometryAssumption
  <1>1. Capacity \in Nat
    BY <1>0 DEF Capacity
  <1>2. ASSUME NEW p \in 0 .. Capacity - 1
        PROVE  /\ p \div BlockSize \in Pointers
               /\ p % BlockSize \in Offsets
               /\ ((p \div BlockSize) * BlockSize) + (p % BlockSize) = p
    <2> DEFINE q == p \div BlockSize
               r == p % BlockSize
    <2>1. p \in Nat
      BY <1>1
    <2>2. q \in Int /\ r \in 0 .. BlockSize - 1 /\ p = BlockSize * q + r
      BY <1>0, <2>1
    <2>3. p < FileBlocks * BlockSize
      BY <1>1, <2>1 DEF Capacity
    <2> HIDE DEF q, r
    <2>4. q >= 0
      <3>1. CASE q <= -1
        <4>1. BlockSize * q <= BlockSize * (-1)
          BY <1>0, <2>2, <3>1
        <4> QED
          BY <1>0, <2>1, <2>2, <4>1
      <3> QED
        BY <2>2, <3>1
    <2>5. q < FileBlocks
      <3>1. CASE q >= FileBlocks
        <4>1. BlockSize * q >= BlockSize * FileBlocks
          BY <1>0, <2>2, <3>1
        <4>2. BlockSize * FileBlocks = FileBlocks * BlockSize
          BY <1>0
        <4> QED
          BY <1>0, <2>1, <2>2, <2>3, <4>1, <4>2
      <3> QED
        BY <1>0, <2>2, <3>1
    <2>6. q * BlockSize = BlockSize * q
      BY <1>0, <2>2
    <2> QED
      BY <1>0, <2>2, <2>4, <2>5, <2>6 DEF Pointers, Offsets, q, r
  <1> QED
    BY <1>1, <1>2

LEMMA ByteTyped ==
  ASSUME TypeOK, NEW n \in Files, NEW p \in 0 .. Capacity - 1
  PROVE  ByteAt(n, p) \in Bytes
  BY Positions, NamesAssumption DEF ByteAt, TypeOK

\* sfs_getfilesize never fails and never answers less than 0.
LEMMA SizeTyped ==
  ASSUME TypeOK, NEW name
  PROVE  FileSize(name) \in Nat
  <1>1. CASE Named(name) = {}
    BY <1>1 DEF FileSize
  <1>2. CASE Named(name) # {}
    <2> DEFINE n == Min(Named(name))
               P == {p \in 0 .. Capacity - 1 : ByteAt(n, p) # NUL}
    <2>1. n \in Files
      <3>1. Named(name) \subseteq Files
        BY DEF Named
      <3>2. IsFiniteSet(Named(name))
        BY <3>1, Finite, FS_Subset
      <3> QED
        BY <1>2, <3>1, <3>2, Finite, MinLeast
    <2>2. Cardinality(P) \in Nat
      <3>1. IsFiniteSet(0 .. Capacity - 1)
        BY Positions, FS_Interval
      <3> QED
        BY <3>1, FS_Subset, FS_CardinalityType
    <2>3. table[n].size \in Nat
      BY <2>1, GeometryAssumption DEF TypeOK
    <2>4. FileSize(name) = table[n].size + Cardinality(P)
      BY <1>2 DEF FileSize
    <2> HIDE DEF P, n
    <2> QED
      BY <2>2, <2>3, <2>4
  <1> QED
    BY <1>1, <1>2

LEMMA NamedFile ==
  ASSUME NEW name, Named(name) # {}
  PROVE  Min(Named(name)) \in Files /\ root[Min(Named(name))].name = name
  <1>1. Named(name) \subseteq Files
    BY DEF Named
  <1>2. IsFiniteSet(Named(name))
    BY <1>1, Finite, FS_Subset
  <1>3. Min(Named(name)) \in Named(name)
    BY <1>1, <1>2, Finite, MinLeast
  <1> QED
    BY <1>3 DEF Named

LEMMA PositionOf ==
  ASSUME NEW b \in Pointers, NEW o \in Offsets
  PROVE  b * BlockSize + o \in 0 .. Capacity - 1
  <1>0. FileBlocks \in Nat /\ BlockSize \in Nat /\ b \in 0 .. FileBlocks - 1
        /\ o \in 0 .. BlockSize - 1
    BY GeometryAssumption DEF Pointers, Offsets
  <1>1. b * BlockSize \in Nat /\ b * BlockSize <= (FileBlocks - 1) * BlockSize
    BY <1>0
  <1>2. (FileBlocks - 1) * BlockSize = FileBlocks * BlockSize - BlockSize
    BY <1>0
  <1>3. FileBlocks * BlockSize \in Int
    BY <1>0
  <1> QED
    BY <1>0, <1>1, <1>2, <1>3 DEF Capacity

\* A position lies before the block f when its own block does.
LEMMA BlockBefore ==
  ASSUME NEW p \in 0 .. Capacity - 1, NEW f \in Int
  PROVE  f * BlockSize \in Int /\ (p \div BlockSize < f <=> p < f * BlockSize)
  <1> DEFINE q == p \div BlockSize
             r == p % BlockSize
             B == BlockSize
  <1>1. /\ q \in Int /\ r \in 0 .. B - 1 /\ B \in Nat \ {0} /\ p \in Int
        /\ (q * B) + r = p
    BY Positions, GeometryAssumption DEF Pointers, Offsets
  <1> HIDE DEF q, r, B
  <1>2. f * B \in Int /\ q * B \in Int /\ (q + 1) * B = q * B + B
    BY <1>1
  <1>3. ASSUME q < f PROVE p < f * B
    <2>1. f * B >= (q + 1) * B
      BY <1>1, <1>3
    <2> QED
      BY <1>1, <1>2, <2>1
  <1>4. ASSUME q >= f PROVE p >= f * B
    <2>1. q * B >= f * B
      BY <1>1, <1>4
    <2> QED
      BY <1>1, <1>2, <2>1
  <1>5. q < f <=> p < f * B
    BY <1>1, <1>2, <1>3, <1>4
  <1> QED
    BY <1>2, <1>5 DEF q, B

LEMMA BlocksInOrder ==
  ASSUME NEW p \in 0 .. Capacity - 1, NEW q \in 0 .. Capacity - 1, p <= q
  PROVE  p \div BlockSize <= q \div BlockSize
  <1> DEFINE x == p \div BlockSize
             y == q \div BlockSize
  <1>1. x \in Int /\ y \in Int /\ p \in Int /\ q \in Int
    BY Positions DEF Pointers
  <1>2. x < y + 1 <=> p < (y + 1) * BlockSize
    BY <1>1, BlockBefore
  <1>3. y < y + 1 <=> q < (y + 1) * BlockSize
    BY <1>1, BlockBefore
  <1>4. (y + 1) * BlockSize \in Int
    BY <1>1, BlockBefore
  <1> HIDE DEF x, y
  <1>5. x <= y
    BY <1>1, <1>2, <1>3, <1>4
  <1> QED
    BY <1>5 DEF x, y

LEMMA MinPair ==
  ASSUME NEW x \in Int, NEW y \in Int
  PROVE  Min({x, y}) = IF x <= y THEN x ELSE y
  <1>1. IsFiniteSet({x, y})
    <2>1. IsFiniteSet({x})
      BY FS_Singleton
    <2>2. {x, y} = {x} \cup {y}
      OBVIOUS
    <2> QED
      BY <2>1, <2>2, FS_AddElement
  <1>2. Min({x, y}) \in {x, y} /\ \A z \in {x, y} : Min({x, y}) <= z
    BY <1>1, MinLeast
  <1> QED
    BY <1>2

LEMMA BufferTyped ==
  ASSUME NEW buf \in Buffers
  PROVE  /\ Len(buf) \in Nat \ {0} /\ buf # <<>>
         /\ \A k \in 1 .. Len(buf) : buf[k] \in Bytes
  <1>1. PICK n \in 1 .. MaxBuffer : buf \in [1 .. n -> Bytes]
    BY DEF Buffers
  <1>2. n \in Nat \ {0}
    BY GeometryAssumption
  <1>3. Len(buf) = n
    BY <1>1, <1>2
  <1> QED
    BY <1>1, <1>2, <1>3
-----------------------------------------------------------------------------
(* sfs_fwrite. *)

\* The blocks that sfs_fwrite puts in the place of missing ones are free and
\* all different, because it stops before the first for which there is none.
LEMMA Allocation ==
  ASSUME NEW missing \in SUBSET Pointers, NEW stored \in SUBSET Pointers,
         NEW free \in SUBSET Blocks,
         \A b \in stored, f \in missing :
            Rank(missing, f) = Cardinality(free) + 1 => b < f
  PROVE  /\ \A b \in missing \cap stored : Nth(free, Rank(missing, b)) \in free
         /\ \A b, c \in missing \cap stored :
              Nth(free, Rank(missing, b)) = Nth(free, Rank(missing, c)) => b = c
  <1> DEFINE room == Cardinality(free)
  <1>1. /\ IsFiniteSet(missing) /\ IsFiniteSet(free)
        /\ missing \in SUBSET Int /\ free \in SUBSET Int
    BY Finite, FS_Subset
  <1>2. room \in Nat /\ Cardinality(missing) \in Nat
    BY <1>1, FS_CardinalityType
  <1>3. ASSUME NEW b \in missing \cap stored
        PROVE  Rank(missing, b) \in 1 .. room
    <2>1. Rank(missing, b) \in 1 .. Cardinality(missing)
      BY <1>1, RankBounds
    <2>2. CASE Cardinality(missing) <= room
      BY <1>2, <2>1, <2>2
    <2>3. CASE Cardinality(missing) > room
      <3>1. room + 1 \in 1 .. Cardinality(missing)
        BY <1>2, <2>3
      <3>2. PICK f \in missing : Rank(missing, f) = room + 1
        BY <1>1, <3>1, RankReached
      <3>3. b < f
        BY <3>2
      <3>4. Rank(missing, b) < Rank(missing, f)
        BY <1>1, <3>3, RankIncreases
      <3> QED
        BY <1>2, <2>1, <3>2, <3>4
    <2> QED
      BY <1>2, <2>2, <2>3
  <1>4. ASSUME NEW b \in missing \cap stored
        PROVE  /\ Nth(free, Rank(missing, b)) \in free
               /\ Rank(free, Nth(free, Rank(missing, b))) = Rank(missing, b)
    BY <1>1, <1>3, NthRank
  <1>5. ASSUME NEW b \in missing \cap stored, NEW c \in missing \cap stored,
               Nth(free, Rank(missing, b)) = Nth(free, Rank(missing, c))
        PROVE  b = c
    <2>1. Rank(missing, b) = Rank(missing, c)
      BY <1>4, <1>5
    <2>2. Rank(missing, b) \in Int /\ b \in Int /\ c \in Int
      BY <1>1, <1>2, <1>3
    <2>3. ~ (b < c) /\ ~ (c < b)
      BY <1>1, <2>1, <2>2, RankIncreases
    <2> QED
      BY <2>2, <2>3
  <1> QED
    BY <1>4, <1>5

Inodes == [taken : {0, 1}, size : 0 .. MaxSize, ptrs : [Pointers -> Blocks]]

NulsUpTo(buf, k) == Cardinality({j \in 1 .. k : buf[j] = NUL})

\* There are free blocks for all that the file n has none for.
RoomFor(n) ==
  Cardinality({b \in Pointers : table[n].ptrs[b] = 0}) <= Cardinality(FreeBlocks)

\* A call of sfs_fwrite that moves the position from `at' to `end' and stores
\* the first k of those bytes, in the blocks `stored'.
Stores(n, fd, buf, end, k, ptrs, stored) ==
  LET at == fdt[fd].rwptr IN
  /\ n = fdt[fd].inode /\ n \in Files
  /\ at \in Nat /\ end \in at + 1 .. at + Len(buf) /\ end <= Capacity
  /\ k \in 0 .. end - at
  /\ ptrs \in [Pointers -> Blocks] /\ stored \subseteq Pointers
  /\ \A b \in Pointers :
       \/ ptrs[b] = table[n].ptrs[b] /\ (b \in stored => ptrs[b] # 0)
       \/ /\ b \in stored /\ table[n].ptrs[b] = 0
          /\ ptrs[b] \in FreeBlocks /\ ptrs[b] \in used'
  /\ \A b, c \in Pointers :
       ptrs[b] \in FreeBlocks /\ ptrs[b] = ptrs[c]
         /\ ptrs[b] # table[n].ptrs[b] /\ ptrs[c] # table[n].ptrs[c] => b = c
  /\ \A p \in at .. end - 1 :
       /\ p \div BlockSize \in stored <=> p < at + k
       /\ p >= at + k => table[n].ptrs[p \div BlockSize] = 0
  /\ RoomFor(n) => k = end - at
  /\ table' \in [Files -> Inodes]
  /\ table'[n].ptrs = ptrs /\ table'[n].taken = table[n].taken
  /\ table'[n].size = table[n].size + NulsUpTo(buf, end - at)
  /\ \A m \in Files : m # n => table'[m] = table[m]
  /\ \A b \in stored : end = at + Len(buf) \/ (b + 1) * BlockSize <= end
  /\ used \subseteq used' /\ used' \subseteq Blocks
  /\ \A x \in used' \ used : \E b \in Pointers : ptrs[b] = x /\ table[n].ptrs[b] = 0
  /\ blocks' =
       [x \in Blocks |->
          IF \E b \in stored : ptrs[b] = x
          THEN LET b == CHOOSE b \in stored : ptrs[b] = x
               IN  [o \in Offsets |->
                      LET p == b * BlockSize + o IN
                      IF p \in at .. end - 1 THEN buf[p - at + 1]
                      ELSE ByteAt(n, p)]
          ELSE blocks[x]]
  /\ fdt' = [fdt EXCEPT ![fd].rwptr = end]
  /\ UNCHANGED <<root, current_file>>

LEMMA FwriteStores ==
  ASSUME TypeOK, 0 \in used, NEW fd \in Fds, NEW buf \in Buffers, NEW r,
         Fwrite(fd, buf, r), ~ UNCHANGED vars
  PROVE  \E n, end, k, ptrs, stored : Stores(n, fd, buf, end, k, ptrs, stored)
  <1> DEFINE n == fdt[fd].inode
             at == fdt[fd].rwptr
             last == Min({at + Len(buf), Capacity}) - 1
             touched == at \div BlockSize .. last \div BlockSize
             missing == {b \in touched : table[n].ptrs[b] = 0}
             room == Cardinality(FreeBlocks)
             failed == {b \in missing : Rank(missing, b) = room + 1}
             stored == {b \in touched : \A f \in failed : b < f}
             end == IF failed = {} THEN last + 1
                    ELSE Min({(Min(failed) + 1) * BlockSize, last + 1})
             ptrs == [b \in Pointers |->
                        IF b \in missing \cap stored
                        THEN Nth(FreeBlocks, Rank(missing, b))
                        ELSE table[n].ptrs[b]]
             nuls == Cardinality({k \in 1 .. end - at : buf[k] = NUL})
             k == IF failed = {} \/ Min(failed) * BlockSize >= end THEN end - at
                  ELSE IF Min(failed) * BlockSize <= at THEN 0
                  ELSE Min(failed) * BlockSize - at
  <1>1. ~ (n = Closed \/ buf = <<>> \/ at >= Capacity)
        /\ ~ (FileSize(root[n].name) >= Capacity)
    BY DEF Fwrite
  <1>2. /\ table[n].size + nuls <= MaxSize
        /\ table' = [table EXCEPT ![n].ptrs = ptrs, ![n].size = @ + nuls]
        /\ used' = used \cup {ptrs[b] : b \in missing \cap stored}
        /\ blocks' =
             [x \in Blocks |->
                IF \E b \in stored : ptrs[b] = x
                THEN LET b == CHOOSE b \in stored : ptrs[b] = x
                     IN  [o \in Offsets |->
                            LET p == b * BlockSize + o IN
                            IF p \in at .. end - 1 THEN buf[p - at + 1]
                            ELSE ByteAt(n, p)]
                ELSE blocks[x]]
        /\ fdt' = [fdt EXCEPT ![fd].rwptr = end]
        /\ UNCHANGED <<root, current_file>>
    BY <1>1 DEF Fwrite
  <1>3. /\ n \in Files /\ at \in Nat /\ at < Capacity /\ Capacity \in Nat
        /\ Len(buf) \in Nat \ {0}
    BY <1>1, BufferTyped, Positions DEF TypeOK
  <1>4. last \in at .. Capacity - 1 /\ last + 1 <= at + Len(buf)
    <2>1. last = (IF at + Len(buf) <= Capacity THEN at + Len(buf) ELSE Capacity) - 1
      BY <1>3, MinPair
    <2> HIDE DEF last
    <2> QED
      BY <1>3, <2>1
  <1>5. /\ at \div BlockSize \in Pointers /\ last \div BlockSize \in Pointers
        /\ ((at \div BlockSize) * BlockSize) + (at % BlockSize) = at
        /\ at % BlockSize \in Offsets
    BY <1>3, <1>4, Positions
  <1>6. touched \subseteq Pointers /\ missing \subseteq touched
        /\ failed \subseteq missing /\ stored \subseteq touched
    <2>1. touched \subseteq Pointers
      <3> DEFINE q == at \div BlockSize
                 t == last \div BlockSize
      <3>1. q \in Pointers /\ t \in Pointers
        BY <1>5
      <3> HIDE DEF q, t
      <3>2. q .. t \subseteq Pointers
        BY <3>1, GeometryAssumption DEF Pointers
      <3> QED
        BY <3>2 DEF q, t
    <2> QED
      BY <2>1
  <1>7. failed # {} => /\ Min(failed) \in failed /\ Min(failed) \in Int
                       /\ \A f \in failed : Min(failed) <= f
    <2>1. failed \in SUBSET Int /\ IsFiniteSet(failed)
      BY <1>6, Finite, FS_Subset
    <2> QED
      BY <2>1, MinLeast
  <1>8. /\ end \in at + 1 .. at + Len(buf) /\ end <= Capacity
        /\ end <= last + 1
        /\ failed # {} => end <= (Min(failed) + 1) * BlockSize
    <2>1. CASE failed = {}
      <3>1. end = last + 1
        BY <2>1
      <3> HIDE DEF end, last, failed, at
      <3> QED
        BY <1>3, <1>4, <2>1, <3>1
    <2>2. CASE failed # {}
      <3> DEFINE f == Min(failed)
                 q == at \div BlockSize
      <3>1. f \in Int /\ f >= q /\ q \in Int
        <4> DEFINE t == last \div BlockSize
        <4>1. f \in q .. t
          BY <1>6, <1>7, <2>2
        <4>2. q \in Int /\ t \in Int
          BY <1>5 DEF Pointers
        <4> HIDE DEF f, q, t
        <4> QED
          BY <4>1, <4>2
      <3>2. (f + 1) * BlockSize \in Int /\ (f + 1) * BlockSize > at
        <4>1. at \in 0 .. Capacity - 1 /\ q < f + 1
          BY <1>3, <3>1
        <4> HIDE DEF f, at
        <4> QED
          BY <3>1, <4>1, BlockBefore DEF q
      <3>3. end = Min({(f + 1) * BlockSize, last + 1})
        BY <2>2
      <3>4. end = IF (f + 1) * BlockSize <= last + 1
                  THEN (f + 1) * BlockSize ELSE last + 1
        <4>1. last + 1 \in Int
          BY <1>3, <1>4
        <4> HIDE DEF f, last, end
        <4> QED
          BY <3>2, <3>3, <4>1, MinPair
      <3>5. end <= (f + 1) * BlockSize /\ end \in at + 1 .. last + 1
        <4> DEFINE x == (f + 1) * BlockSize
        <4>1. x \in Int /\ x > at /\ end = IF x <= last + 1 THEN x ELSE last + 1
          BY <3>2, <3>4
        <4> HIDE DEF x, end, last, at
        <4>2. end <= x /\ end \in at + 1 .. last + 1
          BY <1>3, <1>4, <4>1
        <4> QED
          BY <4>2 DEF x
      <3>6. /\ end \in at + 1 .. at + Len(buf) /\ end <= Capacity
            /\ end <= last + 1
        <4> HIDE DEF end, last, at
        <4> QED
          BY <1>3, <1>4, <3>5
      <3> QED
        BY <3>5, <3>6
    <2> QED
      BY <2>1, <2>2
  <1>9. /\ \A b \in missing \cap stored : ptrs[b] \in FreeBlocks
        /\ \A b, c \in missing \cap stored : ptrs[b] = ptrs[c] => b = c
    <2>1. /\ missing \in SUBSET Pointers /\ stored \in SUBSET Pointers
          /\ FreeBlocks \in SUBSET Blocks
      BY <1>6 DEF FreeBlocks
    <2>2. \A b \in stored, f \in missing :
             Rank(missing, f) = Cardinality(FreeBlocks) + 1 => b < f
      OBVIOUS
    <2>3. \A b \in missing \cap stored :
             ptrs[b] = Nth(FreeBlocks, Rank(missing, b))
      BY <2>1
    <2> HIDE DEF missing, stored, ptrs
    <2> QED
      BY <2>1, <2>2, <2>3, Allocation
  <1>10. /\ ptrs \in [Pointers -> Blocks]
         /\ \A b \in Pointers :
              \/ ptrs[b] = table[n].ptrs[b] /\ (b \in stored => ptrs[b] # 0)
              \/ /\ b \in stored /\ table[n].ptrs[b] = 0
                 /\ ptrs[b] \in FreeBlocks /\ ptrs[b] \in used'
         /\ \A b, c \in Pointers :
              ptrs[b] \in FreeBlocks /\ ptrs[b] = ptrs[c]
                /\ ptrs[b] # table[n].ptrs[b] /\ ptrs[c] # table[n].ptrs[c]
              => b = c
    <2>1. \A b \in Pointers : table[n].ptrs[b] \in Blocks
      BY <1>3 DEF TypeOK
    <2>2. \A b \in Pointers : b \in missing \cap stored =>
             /\ b \in stored /\ table[n].ptrs[b] = 0
             /\ ptrs[b] \in FreeBlocks /\ ptrs[b] \in used'
      BY <1>2, <1>9
    <2>3. \A b \in Pointers : b \notin missing \cap stored =>
             ptrs[b] = table[n].ptrs[b] /\ (b \in stored => ptrs[b] # 0)
      BY <1>6
    <2>4. ptrs = [b \in Pointers |-> ptrs[b]]
      OBVIOUS
    <2> HIDE DEF ptrs, missing, stored
    <2>5. \A b \in Pointers : ptrs[b] \in Blocks
      BY <2>1, <2>2, <2>3 DEF FreeBlocks
    <2> QED
      BY <1>9, <2>2, <2>3, <2>4, <2>5
  <1>11. k \in 0 .. end - at
    <2>1. failed # {} => Min(failed) * BlockSize \in Int
      <3> DEFINE f == Min(failed)
      <3>1. failed # {} => f \in Int
        BY <1>7
      <3> HIDE DEF f, failed
      <3>2. failed # {} => f * BlockSize \in Int
        BY <3>1, GeometryAssumption
      <3> QED
        BY <3>2 DEF f
    <2> HIDE DEF end, at, failed
    <2> QED
      BY <1>3, <1>8, <2>1
  <1>12. ASSUME NEW p \in at .. end - 1
         PROVE  /\ p \div BlockSize \in stored <=> p < at + k
                /\ p >= at + k => table[n].ptrs[p \div BlockSize] = 0
    <2> DEFINE b == p \div BlockSize
    <2>1. /\ p \in 0 .. Capacity - 1 /\ at \in 0 .. Capacity - 1
          /\ last \in 0 .. Capacity - 1 /\ p <= last /\ at <= p
      <3>1. end <= last + 1
        BY <1>8
      <3> HIDE DEF end, at, last
      <3> QED
        BY <1>3, <1>4, <1>8, <3>1
    <2>2. b \in touched /\ b \in Int
      <3> DEFINE q == at \div BlockSize
                 t == last \div BlockSize
      <3>1. q \in Int /\ t \in Int /\ b \in Int
        BY <2>1, Positions DEF Pointers
      <3>2. q <= b /\ b <= t
        BY <2>1, BlocksInOrder
      <3>3. b \in q .. t
        <4> HIDE DEF q, b, t
        <4> QED
          BY <3>1, <3>2
      <3> QED
        BY <3>1, <3>3
    <2>3. CASE failed = {}
      <3>1. b \in stored
        BY <2>2, <2>3
      <3>2. k = end - at
        BY <2>3
      <3> HIDE DEF k, stored, end, at
      <3> QED
        BY <1>3, <1>8, <3>1, <3>2
    <2>4. CASE failed # {}
      <3> DEFINE f == Min(failed)
      <3>1. f \in Int /\ f \in failed /\ \A g \in failed : f <= g
        BY <1>7, <2>4
      <3>2. failed \subseteq Int
        BY <1>6, Finite
      <3>3. b \in stored <=> b < f
        <4>1. b \in stored <=> \A g \in failed : b < g
          BY <2>2
        <4> HIDE DEF f, failed, b, stored
        <4> QED
          BY <2>2, <3>1, <3>2, <4>1
      <3>4. f * BlockSize \in Int /\ (b < f <=> p < f * BlockSize)
        <4> HIDE DEF f
        <4> QED
          BY <2>1, <3>1, BlockBefore
      <3>5. p < f * BlockSize <=> p < at + k
        <4> DEFINE x == f * BlockSize
        <4>1. k = IF x >= end THEN end - at ELSE IF x <= at THEN 0 ELSE x - at
          BY <2>4
        <4>2. x \in Int
          BY <3>4
        <4> HIDE DEF k, x, at, end
        <4>3. p < x <=> p < at + k
          BY <1>3, <1>8, <4>1, <4>2
        <4> QED
          BY <4>3 DEF x
      <3>6. b < f + 1
        <4>1. p < (f + 1) * BlockSize
          <5> DEFINE x == (f + 1) * BlockSize
          <5>1. end <= x
            BY <1>8, <2>4
          <5>2. x \in Int
            <6> HIDE DEF f
            <6> QED
              BY <3>1, GeometryAssumption
          <5> HIDE DEF x
          <5> HIDE DEF end, at
          <5>3. p < x
            BY <1>3, <1>8, <5>1, <5>2
          <5> QED
            BY <5>3 DEF x
        <4> HIDE DEF f
        <4> QED
          BY <2>1, <3>1, <4>1, BlockBefore
      <3>7. table[n].ptrs[f] = 0
        BY <1>6, <3>1
      <3>8. p >= at + k => b = f
        <4>1. k \in Int /\ p \in Int /\ at \in Int
          <5> HIDE DEF k, end, at
          <5> QED
            BY <1>3, <1>8, <1>11
        <4>2. p >= at + k => ~ (b < f)
          <5> HIDE DEF k, f, b, at
          <5> QED
            BY <3>4, <3>5, <4>1
        <4> HIDE DEF f, b, k, at
        <4> QED
          BY <2>2, <3>1, <3>6, <4>2
      <3> QED
        BY <3>3, <3>4, <3>5, <3>7, <3>8
    <2> QED
      BY <2>3, <2>4
  <1>13. /\ table' \in [Files -> Inodes]
         /\ table'[n].ptrs = ptrs /\ table'[n].taken = table[n].taken
         /\ \A m \in Files : m # n => table'[m] = table[m]
    <2>1. nuls \in Nat
      <3> DEFINE K == {i \in 1 .. end - at : buf[i] = NUL}
      <3>1. IsFiniteSet(1 .. end - at)
        <4> HIDE DEF end, at
        <4> QED
          BY <1>3, <1>8, FS_Interval
      <3>2. IsFiniteSet(K)
        <4> HIDE DEF end, at
        <4> QED
          BY <3>1, FS_Subset
      <3>3. Cardinality(K) \in Nat
        <4> HIDE DEF K
        <4> QED
          BY <3>2, FS_CardinalityType
      <3> QED
        BY <3>3
    <2>2. table \in [Files -> Inodes]
      BY DEF TypeOK, Inodes
    <2>3. table[n].size + nuls <= MaxSize /\ table[n].size \in Nat
      <3> HIDE DEF nuls, ptrs, n, stored, missing, end
      <3>1. table[n].size + nuls <= MaxSize
        BY <1>2
      <3>2. table[n].size \in Nat
        BY <1>3, <2>2, GeometryAssumption DEF Inodes
      <3> QED
        BY <3>1, <3>2
    <2> HIDE DEF nuls, ptrs, n
    <2>4. table[n].size + nuls \in 0 .. MaxSize
      BY <2>1, <2>3, GeometryAssumption
    <2> QED
      BY <1>2, <1>3, <1>10, <2>2, <2>4 DEF Inodes
  <1>14. /\ used \subseteq used' /\ used' \subseteq Blocks
         /\ \A x \in used' \ used : \E b \in Pointers : ptrs[b] = x /\ table[n].ptrs[b] = 0
    <2>1. used \subseteq Blocks /\ \A b \in missing \cap stored : ptrs[b] \in Blocks
      BY <1>9 DEF FreeBlocks, TypeOK
    <2>2. \A b \in missing : b \in Pointers /\ table[n].ptrs[b] = 0
      BY <1>6
    <2> HIDE DEF ptrs, missing, stored, n
    <2> QED
      BY <1>2, <2>1, <2>2
  <1>15. stored \subseteq Pointers
    BY <1>6
  <1>16. ASSUME NEW b \in stored
         PROVE  end = at + Len(buf) \/ (b + 1) * BlockSize <= end
    <2>1. b \in Pointers /\ (b + 1) * BlockSize <= Capacity
      <3>1. b \in Pointers
        BY <1>15
      <3>2. b + 1 \in Int /\ b + 1 <= FileBlocks /\ BlockSize \in Nat /\ FileBlocks \in Nat
        BY <3>1, GeometryAssumption DEF Pointers
      <3>3. \A x, y \in Int : x <= y => x * BlockSize <= y * BlockSize
        BY <3>2
      <3> QED
        BY <3>1, <3>2, <3>3 DEF Capacity
    <2>2. (b + 1) * BlockSize \in Int
      BY <2>1, GeometryAssumption DEF Pointers
    <2>3. last + 1 = IF at + Len(buf) <= Capacity THEN at + Len(buf) ELSE Capacity
      <3>1. last + 1 = Min({at + Len(buf), Capacity})
        <4> DEFINE x == Min({at + Len(buf), Capacity})
        <4>1. x \in Int
          BY <1>3, MinPair
        <4> HIDE DEF x
        <4> QED
          BY <4>1 DEF last, x
      <3> QED
        BY <1>3, <3>1, MinPair
    <2>4. CASE failed = {}
      <3>1. end = last + 1
        BY <2>4
      <3> HIDE DEF end, last, at
      <3> QED
        BY <1>3, <2>1, <2>2, <2>3, <3>1
    <2>5. CASE failed # {}
      <3> DEFINE f == Min(failed)
                 x == (f + 1) * BlockSize
      <3>1. f \in Int /\ b < f
        BY <1>7, <2>5
      <3>2. x \in Int /\ (b + 1) * BlockSize <= x
        <4> HIDE DEF f
        <4>1. b + 1 \in Int /\ f + 1 \in Int /\ b + 1 <= f + 1 /\ BlockSize \in Nat
          BY <2>1, <3>1, GeometryAssumption DEF Pointers
        <4>2. \A y, z \in Int : y <= z => y * BlockSize <= z * BlockSize
          BY <4>1
        <4> QED
          BY <4>1, <4>2
      <3>3. end = IF x <= last + 1 THEN x ELSE last + 1
        <4>1. end = Min({x, last + 1})
          BY <2>5
        <4>2. last + 1 \in Int
          BY <1>3, <1>4
        <4> HIDE DEF x, last, end
        <4> QED
          BY <3>2, <4>1, <4>2, MinPair
      <3> HIDE DEF end, last, at, x
      <3> QED
        BY <1>3, <2>1, <2>2, <2>3, <3>2, <3>3
    <2> QED
      BY <2>4, <2>5
  <1>17. RoomFor(n) => k = end - at
    <2> SUFFICES ASSUME RoomFor(n) PROVE failed = {}
      OBVIOUS
    <2> DEFINE none == {b \in Pointers : table[n].ptrs[b] = 0}
    <2>1. IsFiniteSet(none) /\ IsFiniteSet(FreeBlocks) /\ missing \subseteq none
      <3>1. none \subseteq Pointers /\ FreeBlocks \subseteq Blocks
        BY DEF FreeBlocks
      <3> HIDE DEF none
      <3>2. IsFiniteSet(none) /\ IsFiniteSet(FreeBlocks)
        BY <3>1, Finite, FS_Subset
      <3>3. missing \subseteq none
        BY <1>6 DEF none
      <3> QED
        BY <3>2, <3>3
    <2>2. Cardinality(none) <= room
      BY DEF RoomFor
    <2>3. room \in Nat /\ missing \in SUBSET Int
      BY <1>6, <2>1, Finite, FS_CardinalityType
    <2>4. /\ IsFiniteSet(missing)
          /\ Cardinality(missing) <= Cardinality(none)
          /\ Cardinality(none) \in Nat
      <3> HIDE DEF none, missing
      <3> QED
        BY <2>1, FS_Subset, FS_CardinalityType
    <2>5. ASSUME NEW b \in missing PROVE Rank(missing, b) # room + 1
      <3> HIDE DEF none, missing, room
      <3>1. Cardinality(missing) \in Nat /\ Rank(missing, b) \in 1 .. Cardinality(missing)
        BY <2>3, <2>4, RankBounds
      <3> QED
        BY <2>2, <2>3, <2>4, <3>1
    <2> QED
      BY <2>5
  <1>18. Stores(n, fd, buf, end, k, ptrs, stored)
    <2>1. table'[n].size = table[n].size + NulsUpTo(buf, end - at)
      <3> HIDE DEF end, k, ptrs, stored, n
      <3> QED
        BY <1>2, <1>3 DEF NulsUpTo, TypeOK
    <2> HIDE DEF end, k, ptrs, stored
    <2> QED
      BY <1>2, <1>3, <1>8, <1>10, <1>11, <1>12, <1>13, <1>14, <1>15, <1>16, <1>17,
         <2>1
         DEF Stores
  <1> HIDE DEF end, k, ptrs, stored, n
  <1> QED
    BY <1>18
-----------------------------------------------------------------------------
(* The other calls that change tables. *)

Descriptors == [inode : Files \cup {Closed}, rwptr : Nat]
Slots == [name : Names \cup {NoName}, mode : {0, 1}]

LEMMA FreeFd ==
  ASSUME FreeFds # {}
  PROVE  Min(FreeFds) \in Fds /\ fdt[Min(FreeFds)].inode = Closed
  <1>1. FreeFds \subseteq Fds
    BY DEF FreeFds
  <1>2. Min(FreeFds) \in FreeFds
    BY <1>1, Finite, FS_Subset, MinLeast
  <1> QED
    BY <1>2 DEF FreeFds

LEMMA FreeInode ==
  ASSUME FreeInodes # {}
  PROVE  Min(FreeInodes) \in Files /\ table[Min(FreeInodes)].taken = 0
  <1>1. FreeInodes \subseteq Files
    BY DEF FreeInodes
  <1>2. Min(FreeInodes) \in FreeInodes
    BY <1>1, Finite, FS_Subset, MinLeast
  <1> QED
    BY <1>2 DEF FreeInodes

\* sfs_fopen gives a closed descriptor to a file that was not open, old or new.
Opens(name, d, n, pos) ==
  /\ d \in Fds /\ fdt[d].inode = Closed /\ n \in Files /\ pos \in Nat
  /\ \/ root[n].name = name /\ ~IsOpen(n) /\ pos = FileSize(name)
     \/ table[n].taken = 0 /\ Named(name) = {} /\ pos = 0
  /\ fdt' = [fdt EXCEPT ![d] = [inode |-> n, rwptr |-> pos]]
  /\ table' = [table EXCEPT ![n].taken = 1]
  /\ root' = [root EXCEPT ![n] = [name |-> name, mode |-> 1]]
  /\ UNCHANGED <<used, blocks, current_file>>

LEMMA FopenOpens ==
  ASSUME TypeOK, NEW name, NEW fd, Fopen(name, fd), ~ UNCHANGED vars
  PROVE  \E n, pos : Opens(name, fd, n, pos)
  <1>1. CASE OpenExisting(name, fd)
    <2> DEFINE n == Min(Named(name))
    <2>1. n \in Files /\ root[n].name = name /\ ~IsOpen(n)
      <3>1. Named(name) # {} /\ \A m \in Named(name) : ~IsOpen(m)
        BY <1>1 DEF OpenExisting
      <3>2. n \in Files /\ root[n].name = name
        BY <3>1, NamedFile
      <3> QED
        BY <3>1, <3>2 DEF Named
    <2>2. FileSize(name) \in Nat
      BY SizeTyped
    <2>3. fd \in Fds /\ fdt[fd].inode = Closed
      BY <1>1, FreeFd DEF OpenExisting
    <2>4. /\ fdt' = [fdt EXCEPT ![fd] = [inode |-> n, rwptr |-> FileSize(name)]]
          /\ root' = [root EXCEPT ![n].mode = 1]
          /\ table' = [table EXCEPT ![n].taken = 1]
          /\ UNCHANGED <<used, blocks, current_file>>
      BY <1>1 DEF OpenExisting
    <2> HIDE DEF n
    <2>5. [root EXCEPT ![n].mode = 1] = [root EXCEPT ![n] = [name |-> name, mode |-> 1]]
      <3>1. root \in [Files -> Slots]
        BY DEF TypeOK, Slots
      <3>2. root[n] \in Slots
        BY <2>1, <3>1
      <3>3. root[n] = [name |-> name, mode |-> root[n].mode]
        BY <2>1, <3>2 DEF Slots
      <3>4. [root[n] EXCEPT !.mode = 1] = [name |-> name, mode |-> 1]
        BY <3>3
      <3> QED
        BY <2>1, <3>1, <3>4
    <2>6. Opens(name, fd, n, FileSize(name))
      BY <2>1, <2>2, <2>3, <2>4, <2>5 DEF Opens
    <2> QED
      BY <2>6
  <1>2. CASE Create(name, fd)
    <2> DEFINE n == Min(FreeInodes)
    <2>1. n \in Files /\ table[n].taken = 0 /\ Named(name) = {}
      BY <1>2, FreeInode DEF Create
    <2>2. fd \in Fds /\ fdt[fd].inode = Closed
      BY <1>2, FreeFd DEF Create
    <2>3. /\ fdt' = [fdt EXCEPT ![fd] = [inode |-> n, rwptr |-> 0]]
          /\ table' = [table EXCEPT ![n].taken = 1]
          /\ root' = [root EXCEPT ![n] = [name |-> name, mode |-> 1]]
          /\ UNCHANGED <<used, blocks, current_file>>
      BY <1>2 DEF Create
    <2> HIDE DEF n
    <2>4. Opens(name, fd, n, 0)
      BY <2>1, <2>2, <2>3 DEF Opens
    <2> QED
      BY <2>4
  <1>3. ~ CannotOpen(name, fd)
    BY DEF CannotOpen
  <1> QED
    BY <1>1, <1>2, <1>3 DEF Fopen

\* The blocks that sfs_remove takes from the file n.
Held(n) ==
  IF table[n].taken = 1 THEN {table[n].ptrs[b] : b \in Pointers} \ {0} ELSE {}

\* What sfs_remove leaves of the tables.
Removes(file, n) ==
  /\ n \in Files /\ Matches(root[n].name, file)
  /\ root' = [root EXCEPT ![n] = FreeSlot]
  /\ table' = [table EXCEPT ![n] = CleanInode(table[n])]
  /\ used' \subseteq used /\ \A x \in used : x \notin Held(n) => x \in used'
  /\ \A x \in Held(n) : x < WordBits => x \notin used'
  /\ blocks' = [x \in Blocks |-> IF x \in Held(n) THEN Empty ELSE blocks[x]]
  /\ fdt' \in [Fds -> Descriptors]
  /\ \A d \in Fds : /\ fdt'[d].inode = fdt[d].inode
                    /\ \/ fdt'[d] = fdt[d]
                       \/ d = NumInodes - 1 /\ fdt'[d].rwptr = fdt[d].rwptr - 1
  /\ (\A x \in Held(n) : x < WordBits) => fdt' = fdt
  /\ current_file' = 0

LEMMA RemoveRemoves ==
  ASSUME TypeOK, NEW file, NEW r, Remove(file, r), ~ UNCHANGED vars
  PROVE  \E n : Removes(file, n)
  <1> DEFINE hits == {m \in Files : Matches(root[m].name, file)}
             n == Min(hits)
  <1>1. hits # {}
    BY DEF Remove
  <1>2. n \in hits
    <2>1. hits \subseteq Files
      OBVIOUS
    <2>2. IsFiniteSet(hits) /\ hits \in SUBSET Int
      BY <2>1, Finite, FS_Subset
    <2> QED
      BY <1>1, <2>2, MinLeast
  <1>3. /\ root' = [root EXCEPT ![n] = FreeSlot]
        /\ table' = [table EXCEPT ![n] = CleanInode(@)]
        /\ used' = used \ Freed(Held(n))
        /\ blocks' = [x \in Blocks |-> IF x \in Held(n) THEN Empty ELSE blocks[x]]
        /\ fdt' \in Strayed(Held(n))
        /\ current_file' = 0
    BY <1>1 DEF Remove, Held
  <1>4. n \in Files /\ Matches(root[n].name, file)
    BY <1>2
  <1> HIDE DEF n, hits
  <1>5. /\ Freed(Held(n)) \subseteq Held(n)
        /\ \A x \in Held(n) : x < WordBits => x \in Freed(Held(n))
    BY DEF Freed
  <1>6. /\ fdt' \in [Fds -> Descriptors]
        /\ \A d \in Fds : /\ fdt'[d].inode = fdt[d].inode
                          /\ \/ fdt'[d] = fdt[d]
                             \/ d = NumInodes - 1 /\ fdt'[d].rwptr = fdt[d].rwptr - 1
    <2> DEFINE last == NumInodes - 1
               low == fdt[last].rwptr - (fdt[last].rwptr % 2)
    <2>1. fdt \in [Fds -> Descriptors] /\ last \in Fds
      BY GeometryAssumption DEF TypeOK, Descriptors, Fds
    <2>2. fdt' = fdt \/ fdt' = [fdt EXCEPT ![last].rwptr = low]
      BY <1>3 DEF Strayed
    <2>3. low \in Nat /\ low \in {fdt[last].rwptr, fdt[last].rwptr - 1}
      <3>1. \A x \in Nat : x - (x % 2) \in Nat /\ x - (x % 2) \in {x, x - 1}
        OBVIOUS
      <3>2. fdt[last].rwptr \in Nat
        BY <2>1 DEF Descriptors
      <3> QED
        BY <3>1, <3>2
    <2> HIDE DEF low
    <2> QED
      BY <2>1, <2>2, <2>3 DEF Descriptors
  <1>7. (\A x \in Held(n) : x < WordBits) => fdt' = fdt
    <2> SUFFICES ASSUME \A x \in Held(n) : x < WordBits
                 PROVE  \A x \in Held(n) : ~BeforeBitmap(x)
      BY <1>3 DEF Strayed
    <2>1. \A b \in Pointers : table[n].ptrs[b] \in Int
      <3>1. table[n].ptrs \in [Pointers -> Blocks] /\ Blocks \subseteq Int
        BY <1>4, Finite DEF TypeOK
      <3> QED
        BY <3>1
    <2>2. \A x \in Held(n) : x \in Int
      BY <2>1 DEF Held
    <2> QED
      BY <2>2, GeometryAssumption DEF BeforeBitmap
  <1> QED
    BY <1>3, <1>4, <1>5, <1>6, <1>7 DEF Removes
-----------------------------------------------------------------------------
(* Every call does one of four things. *)

\* It closes a descriptor, or moves one, or moves the cursor, at most.
Closes(d) ==
  /\ fdt[d].inode # Closed
  /\ fdt' = [fdt EXCEPT ![d] = [inode |-> Closed, rwptr |-> 0]]
MovesTo(d, pos) ==
  /\ fdt[d].inode # Closed
  /\ fdt' = [fdt EXCEPT ![d].rwptr = pos]
Quiet ==
  /\ UNCHANGED <<table, root, used, blocks>>
  /\ \/ fdt' = fdt
     \/ \E d \in Fds : Closes(d)
     \/ \E d \in Fds, pos \in 0 .. Capacity : MovesTo(d, pos)
  /\ current_file' \in 0 .. NumInodes - 1

Opening == \E name \in Names : \E d, n, pos : Opens(name, d, n, pos)
Storing ==
  \E fd \in Fds, buf \in Buffers : \E n, end, k, ptrs, stored :
     Stores(n, fd, buf, end, k, ptrs, stored)
Removing == \E file \in Names : \E n : Removes(file, n)

\* The same for any string that sfs_remove is given.
Called == Quiet \/ Opening \/ Storing \/ \E file, n : Removes(file, n)

LEMMA UnchangedIsQuiet == ASSUME TypeOK, UNCHANGED vars PROVE Quiet
  BY DEF TypeOK, vars, Quiet

LEMMA QuietDescriptors ==
  ASSUME TypeOK, Quiet
  PROVE  /\ fdt' \in [Fds -> Descriptors]
         /\ \A d \in Fds : fdt'[d].inode \in {fdt[d].inode, Closed}
  <1>1. fdt \in [Fds -> Descriptors]
    BY DEF TypeOK, Descriptors
  <1>2. 0 .. Capacity \subseteq Nat
    BY Positions
  <1>3. ASSUME NEW d \in Fds, Closes(d)
        PROVE  /\ fdt' \in [Fds -> Descriptors]
               /\ \A e \in Fds : fdt'[e].inode \in {fdt[e].inode, Closed}
    BY <1>1, <1>3 DEF Closes, Descriptors
  <1>4. ASSUME NEW d \in Fds, NEW pos \in 0 .. Capacity, MovesTo(d, pos)
        PROVE  /\ fdt' \in [Fds -> Descriptors]
               /\ \A e \in Fds : fdt'[e].inode \in {fdt[e].inode, Closed}
    BY <1>1, <1>2, <1>4 DEF MovesTo, Descriptors
  <1> QED
    BY <1>1, <1>3, <1>4 DEF Quiet

LEMMA ListedFew == Cardinality(Listed) \in 0 .. NumInodes - 1
  <1>1. Listed \subseteq Files
    BY DEF Listed
  <1>2. /\ Cardinality(Listed) <= Cardinality(Files)
        /\ Cardinality(Listed) \in Nat
    BY <1>1, Finite, FS_Subset, FS_CardinalityType
  <1> QED
    BY <1>2, Finite, GeometryAssumption

LEMMA FcloseQuiet ==
  ASSUME TypeOK, NEW fd \in Fds, NEW r, Fclose(fd, r)
  PROVE  Quiet
  <1>0. fdt \in [Fds -> Descriptors] /\ current_file \in 0 .. NumInodes - 1
    BY DEF TypeOK, Descriptors
  <1>1. CASE fdt' = [fdt EXCEPT ![fd] = [inode |-> Closed, rwptr |-> 0]]
    <2>1. fdt[fd].inode # Closed => Closes(fd)
      BY <1>1 DEF Closes
    <2> QED
      BY <1>0, <2>1, UnchangedIsQuiet DEF Fclose, Quiet
  <1> QED
    BY <1>1, UnchangedIsQuiet DEF Fclose

LEMMA GetnextfilenameQuiet ==
  ASSUME TypeOK, NEW name, NEW r, Getnextfilename(name, r)
  PROVE  Quiet
  <1>0. fdt \in [Fds -> Descriptors] /\ current_file \in 0 .. NumInodes - 1
    BY DEF TypeOK, Descriptors
  <1>1. current_file' \in 0 .. NumInodes - 1
    BY <1>0, ListedFew, GeometryAssumption DEF Getnextfilename
  <1>2. UNCHANGED <<table, root, fdt, used, blocks>>
    BY DEF Getnextfilename
  <1> QED
    BY <1>0, <1>1, <1>2 DEF Quiet

LEMMA FseekQuiet ==
  ASSUME TypeOK, NEW fd \in Fds, NEW loc \in Int, NEW r, Fseek(fd, loc, r)
  PROVE  Quiet
  <1>0. fdt \in [Fds -> Descriptors] /\ current_file \in 0 .. NumInodes - 1
    BY DEF TypeOK, Descriptors
  <1>1. CASE MovesTo(fd, loc) /\ ~ (loc < 0) /\ ~ (loc >= Capacity)
             /\ UNCHANGED <<table, root, used, blocks, current_file>>
    <2>1. loc \in 0 .. Capacity
      BY <1>1, Positions
    <2> QED
      BY <1>0, <1>1, <2>1 DEF Quiet
  <1> QED
    BY <1>1, UnchangedIsQuiet DEF Fseek, MovesTo

LEMMA FreadQuiet ==
  ASSUME TypeOK, NEW fd \in Fds, NEW length \in Nat, NEW out, NEW r,
         Fread(fd, length, out, r)
  PROVE  Quiet
  <1>0. fdt \in [Fds -> Descriptors] /\ current_file \in 0 .. NumInodes - 1
    BY DEF TypeOK, Descriptors
  <1> DEFINE end == Min({fdt[fd].rwptr + length, Capacity})
  <1>1. end \in 0 .. Capacity
    <2>1. fdt[fd].rwptr \in Nat /\ length \in Nat
      BY <1>0, GeometryAssumption DEF Descriptors
    <2> QED
      BY <2>1, Positions, MinPair
  <1>2. CASE /\ MovesTo(fd, end)
             /\ UNCHANGED <<table, root, used, blocks, current_file>>
    <2> HIDE DEF end
    <2> QED
      BY <1>0, <1>1, <1>2 DEF Quiet
  <1>3. UNCHANGED vars \/ /\ MovesTo(fd, end)
                          /\ UNCHANGED <<table, root, used, blocks, current_file>>
    BY DEF Fread, MovesTo
  <1> QED
    BY <1>2, <1>3, UnchangedIsQuiet

LEMMA FopenKind ==
  ASSUME TypeOK, NEW name \in Names, NEW fd, Fopen(name, fd)
  PROVE  Quiet \/ Opening
  <1>1. CASE UNCHANGED vars
    BY <1>1, UnchangedIsQuiet
  <1>2. CASE ~ UNCHANGED vars
    BY <1>2, FopenOpens DEF Opening
  <1> QED
    BY <1>1, <1>2

LEMMA FwriteKind ==
  ASSUME TypeOK, 0 \in used, NEW fd \in Fds, NEW buf \in Buffers, NEW r,
         Fwrite(fd, buf, r)
  PROVE  Quiet \/ Storing
  <1>1. CASE UNCHANGED vars
    BY <1>1, UnchangedIsQuiet
  <1>2. CASE ~ UNCHANGED vars
    BY <1>2, FwriteStores DEF Storing
  <1> QED
    BY <1>1, <1>2

LEMMA RemoveKind ==
  ASSUME TypeOK, NEW file, NEW r, Remove(file, r)
  PROVE  Quiet \/ \E n : Removes(file, n)
  <1>1. CASE UNCHANGED vars
    BY <1>1, UnchangedIsQuiet
  <1>2. CASE ~ UNCHANGED vars
    BY <1>2, RemoveRemoves
  <1> QED
    BY <1>1, <1>2

LEMMA FourKinds ==
  ASSUME TypeOK, 0 \in used, [Next]_vars
  PROVE  Quiet \/ Opening \/ Storing \/ Removing
  <1>1. -1 .. Capacity \subseteq Int /\ 1 .. MaxBuffer \subseteq Nat
    BY Positions, GeometryAssumption
  <1> QED
    BY <1>1, UnchangedIsQuiet, FopenKind, FwriteKind, RemoveKind, FcloseQuiet,
       FseekQuiet, FreadQuiet, GetnextfilenameQuiet DEF Next, Removing
-----------------------------------------------------------------------------
(* The invariant for any client. *)

CoreInv == TypeOK /\ BlocksDistinct /\ DirectoryAgrees

LEMMA CoreInit == Init => CoreInv
  <1> SUFFICES ASSUME Init PROVE CoreInv
    OBVIOUS
  <1>1. NumInodes - 1 \in Nat /\ 0 \in 0 .. MaxSize /\ 0 \in 0 .. NumInodes - 1
    BY GeometryAssumption
  <1>2. NoBlocks \in [Pointers -> Blocks] /\ Empty \in [Offsets -> Bytes]
    BY Finite, NamesAssumption DEF NoBlocks, Empty
  <1>3. TypeOK
    BY <1>1, <1>2, Finite DEF Init, TypeOK
  <1>4. BlocksDistinct
    BY DEF Init, BlocksDistinct, NoBlocks
  <1>5. DirectoryAgrees
    BY DEF Init, DirectoryAgrees
  <1> QED
    BY <1>3, <1>4, <1>5 DEF CoreInv

LEMMA CleanTyped == \A i \in Inodes : CleanInode(i) \in Inodes
  <1>1. NoBlocks \in [Pointers -> Blocks] /\ 0 \in 0 .. MaxSize
    BY Finite, GeometryAssumption DEF NoBlocks
  <1> QED
    BY <1>1 DEF CleanInode, Inodes

LEMMA TypeKept ==
  ASSUME CoreInv, Called
  PROVE  TypeOK'
  <1>0. TypeOK /\ 0 \in used
    BY DEF CoreInv, BlocksDistinct
  <1>1. /\ table \in [Files -> Inodes] /\ root \in [Files -> Slots]
        /\ fdt \in [Fds -> Descriptors] /\ used \subseteq Blocks
        /\ blocks \in [Blocks -> [Offsets -> Bytes]]
        /\ current_file \in 0 .. NumInodes - 1
    BY <1>0 DEF TypeOK, Inodes, Slots, Descriptors
  <1> SUFFICES /\ table' \in [Files -> Inodes] /\ root' \in [Files -> Slots]
               /\ fdt' \in [Fds -> Descriptors] /\ used' \subseteq Blocks
               /\ blocks' \in [Blocks -> [Offsets -> Bytes]]
               /\ current_file' \in 0 .. NumInodes - 1
    BY DEF TypeOK, Inodes, Slots, Descriptors
  <1>2. CASE Quiet
    BY <1>0, <1>1, <1>2, QuietDescriptors DEF Quiet
  <1>3. CASE Opening
    <2>1. PICK name, d, n, pos : name \in Names /\ Opens(name, d, n, pos)
      BY <1>3 DEF Opening
    <2> QED
      BY <1>1, <2>1 DEF Opens, Inodes, Slots, Descriptors
  <1>4. CASE Storing
    <2>1. PICK fd, buf, n, end, k, ptrs, stored :
             /\ fd \in Fds /\ buf \in Buffers
             /\ Stores(n, fd, buf, end, k, ptrs, stored)
      BY <1>4 DEF Storing
    <2> DEFINE at == fdt[fd].rwptr
    <2>2. /\ n \in Files /\ at \in Nat /\ end \in at + 1 .. at + Len(buf)
          /\ stored \subseteq Pointers
          /\ table' \in [Files -> Inodes] /\ used' \subseteq Blocks
          /\ fdt' = [fdt EXCEPT ![fd].rwptr = end]
          /\ root' = root /\ current_file' = current_file
      BY <2>1 DEF Stores
    <2>3. end \in Nat /\ Len(buf) \in Nat
      BY <2>2, BufferTyped
    <2>4. fdt' \in [Fds -> Descriptors]
      BY <1>1, <2>2, <2>3 DEF Descriptors
    <2>5. blocks' \in [Blocks -> [Offsets -> Bytes]]
      <3> DEFINE Byte(b, o) ==
                   LET p == b * BlockSize + o IN
                   IF p \in at .. end - 1 THEN buf[p - at + 1] ELSE ByteAt(n, p)
      <3>1. ASSUME NEW b \in Pointers, NEW o \in Offsets
            PROVE  Byte(b, o) \in Bytes
        <4> DEFINE p == b * BlockSize + o
        <4>1. p \in 0 .. Capacity - 1
          BY PositionOf
        <4>2. ByteAt(n, p) \in Bytes
          BY <1>0, <2>2, <4>1, ByteTyped
        <4>3. p \in at .. end - 1 => p - at + 1 \in 1 .. Len(buf)
          <5> HIDE DEF p, at
          <5> QED
            BY <2>2, <2>3
        <4>4. p \in at .. end - 1 => buf[p - at + 1] \in Bytes
          BY <2>1, <4>3, BufferTyped
        <4> QED
          BY <4>2, <4>4
      <3>2. blocks' = [x \in Blocks |->
                         IF \E b \in stored : ptrs[b] = x
                         THEN LET b == CHOOSE b \in stored : ptrs[b] = x
                              IN  [o \in Offsets |-> Byte(b, o)]
                         ELSE blocks[x]]
        BY <2>1 DEF Stores
      <3> HIDE DEF Byte
      <3>3. ASSUME NEW x \in Blocks, \E b \in stored : ptrs[b] = x
            PROVE  (CHOOSE b \in stored : ptrs[b] = x) \in Pointers
        BY <2>2, <3>3
      <3> QED
        BY <1>1, <3>1, <3>2, <3>3
    <2> QED
      BY <1>1, <2>2, <2>4, <2>5
  <1>5. CASE \E file, n : Removes(file, n)
    <2>1. PICK file, n : Removes(file, n)
      BY <1>5
    <2>2. /\ n \in Files
          /\ root' = [root EXCEPT ![n] = FreeSlot]
          /\ table' = [table EXCEPT ![n] = CleanInode(table[n])]
          /\ used' \subseteq used
          /\ blocks' = [x \in Blocks |-> IF x \in Held(n) THEN Empty ELSE blocks[x]]
          /\ fdt' \in [Fds -> Descriptors]
          /\ current_file' = 0
      BY <2>1 DEF Removes
    <2>3. table' \in [Files -> Inodes]
      BY <1>1, <2>2, CleanTyped
    <2>4. root' \in [Files -> Slots]
      BY <1>1, <2>2 DEF FreeSlot, Slots
    <2>5. blocks' \in [Blocks -> [Offsets -> Bytes]]
      BY <1>1, <2>2, NamesAssumption DEF Empty
    <2>6. 0 \in 0 .. NumInodes - 1
      BY GeometryAssumption
    <2> QED
      BY <1>1, <2>2, <2>3, <2>4, <2>5, <2>6
  <1> QED
    BY <1>0, <1>2, <1>3, <1>4, <1>5 DEF Called

LEMMA BlocksKept ==
  ASSUME CoreInv, Called
  PROVE  BlocksDistinct'
  <1>0. TypeOK /\ BlocksDistinct /\ 0 \in used
    BY DEF CoreInv, BlocksDistinct
  <1>2. CASE Quiet
    BY <1>0, <1>2 DEF Quiet, BlocksDistinct
  <1>3. CASE Opening
    <2>1. PICK name, d, n, pos : name \in Names /\ Opens(name, d, n, pos)
      BY <1>3 DEF Opening
    <2>2. \A m \in Files : table'[m].ptrs = table[m].ptrs
      BY <1>0, <2>1 DEF Opens, TypeOK
    <2> QED
      BY <1>0, <2>1, <2>2 DEF Opens, BlocksDistinct
  <1>4. CASE Storing
    <2>1. PICK fd, buf, n, end, k, ptrs, stored :
             /\ fd \in Fds /\ buf \in Buffers
             /\ Stores(n, fd, buf, end, k, ptrs, stored)
      BY <1>4 DEF Storing
    <2>2. /\ n \in Files /\ ptrs \in [Pointers -> Blocks]
          /\ \A b \in Pointers :
               \/ ptrs[b] = table[n].ptrs[b]
               \/ /\ table[n].ptrs[b] = 0
                  /\ ptrs[b] \in FreeBlocks /\ ptrs[b] \in used'
          /\ \A b, c \in Pointers :
               ptrs[b] \in FreeBlocks /\ ptrs[b] = ptrs[c]
                 /\ ptrs[b] # table[n].ptrs[b] /\ ptrs[c] # table[n].ptrs[c]
               => b = c
          /\ table'[n].ptrs = ptrs
          /\ \A m \in Files : m # n => table'[m] = table[m]
          /\ used \subseteq used'
      BY <2>1 DEF Stores
    <2>3. FreeBlocks \cap used = {}
      BY DEF FreeBlocks
    <2>4. \A m \in Files, b \in Pointers :
            \/ table'[m].ptrs[b] = table[m].ptrs[b]
            \/ /\ m = n /\ table'[m].ptrs[b] = ptrs[b] /\ table[m].ptrs[b] = 0
               /\ ptrs[b] \in FreeBlocks /\ ptrs[b] \in used'
      BY <2>2
    <2>5. \A m \in Files, b \in Pointers :
            table[m].ptrs[b] # 0 => table[m].ptrs[b] \in used
      BY <1>0 DEF BlocksDistinct
    <2>6. \A m \in Files, b \in Pointers : LET x == table'[m].ptrs[b] IN
            x # 0 => x \in used'
      BY <2>2, <2>4, <2>5
    <2>7. ASSUME NEW m \in Files, NEW b \in Pointers, NEW l \in Files,
                 NEW c \in Pointers, table'[m].ptrs[b] # 0,
                 table'[l].ptrs[c] = table'[m].ptrs[b]
          PROVE  l = m /\ c = b
      <3>1. CASE table'[m].ptrs[b] \in FreeBlocks
        <4>1. table'[m].ptrs[b] \notin used /\ table'[l].ptrs[c] \notin used
          BY <2>3, <2>7, <3>1
        <4>2. /\ m = n /\ table'[m].ptrs[b] = ptrs[b] /\ table[m].ptrs[b] = 0
              /\ l = n /\ table'[l].ptrs[c] = ptrs[c] /\ table[l].ptrs[c] = 0
          BY <2>4, <2>5, <2>7, <4>1
        <4> QED
          BY <2>2, <2>7, <3>1, <4>2
      <3>2. CASE table'[m].ptrs[b] \notin FreeBlocks
        <4>1. /\ table'[m].ptrs[b] = table[m].ptrs[b]
              /\ table'[l].ptrs[c] = table[l].ptrs[c]
          BY <2>4, <2>7, <3>2
        <4> QED
          BY <1>0, <2>7, <4>1 DEF BlocksDistinct
      <3> QED
        BY <3>1, <3>2
    <2> QED
      BY <1>0, <2>2, <2>6, <2>7 DEF BlocksDistinct
  <1>5. CASE \E file, n : Removes(file, n)
    <2>1. PICK file, n : Removes(file, n)
      BY <1>5
    <2>2. /\ n \in Files
          /\ table' = [table EXCEPT ![n] = CleanInode(table[n])]
          /\ \A x \in used : x \notin Held(n) => x \in used'
      BY <2>1 DEF Removes
    <2>3. \A m \in Files, b \in Pointers :
            \/ table'[m].ptrs[b] = 0
            \/ /\ table'[m].ptrs[b] = table[m].ptrs[b]
               /\ m # n \/ table[n].taken # 1
      BY <1>0, <2>2 DEF TypeOK, CleanInode, NoBlocks
    <2>4. 0 \notin Held(n)
      BY DEF Held
    <2>5. ASSUME NEW m \in Files, NEW b \in Pointers, table'[m].ptrs[b] # 0
          PROVE  table'[m].ptrs[b] \in used'
      <3>1. table[m].ptrs[b] = table'[m].ptrs[b] /\ (m # n \/ table[n].taken # 1)
        BY <2>3, <2>5
      <3>2. table[m].ptrs[b] \in used
        BY <1>0, <2>5, <3>1 DEF BlocksDistinct
      <3>3. table[m].ptrs[b] \notin Held(n)
        BY <1>0, <2>2, <2>5, <3>1 DEF BlocksDistinct, Held
      <3> QED
        BY <2>2, <3>1, <3>2, <3>3
    <2> QED
      BY <1>0, <2>2, <2>3, <2>4, <2>5 DEF BlocksDistinct
  <1> QED
    BY <1>0, <1>2, <1>3, <1>4, <1>5 DEF Called

LEMMA DirectoryKept ==
  ASSUME CoreInv, Called
  PROVE  DirectoryAgrees'
  <1>0. TypeOK /\ DirectoryAgrees /\ 0 \in used
    BY DEF CoreInv, BlocksDistinct
  <1>2. CASE Quiet
    BY <1>0, <1>2 DEF Quiet, DirectoryAgrees
  <1>3. CASE Opening
    <2>1. PICK name, d, n, pos : name \in Names /\ Opens(name, d, n, pos)
      BY <1>3 DEF Opening
    <2>2. name # NoName
      BY <2>1, NamesAssumption
    <2>3. /\ n \in Files
          /\ root[n].name = name \/ Named(name) = {}
          /\ table' = [table EXCEPT ![n].taken = 1]
          /\ root' = [root EXCEPT ![n] = [name |-> name, mode |-> 1]]
      BY <2>1 DEF Opens
    <2>4. \A m \in Files : root[m].name = name => m = n
      BY <1>0, <2>2, <2>3 DEF Named, DirectoryAgrees
    <2>5. /\ root'[n].name = name /\ root'[n].mode = 1 /\ table'[n].taken = 1
          /\ \A m \in Files : m # n => root'[m] = root[m] /\ table'[m] = table[m]
      BY <1>0, <2>3 DEF TypeOK
    <2> QED
      BY <1>0, <2>2, <2>3, <2>4, <2>5 DEF DirectoryAgrees
  <1>4. CASE Storing
    <2>1. PICK fd, buf, n, end, k, ptrs, stored :
             /\ fd \in Fds /\ buf \in Buffers
             /\ Stores(n, fd, buf, end, k, ptrs, stored)
      BY <1>4 DEF Storing
    <2>2. root' = root /\ \A m \in Files : table'[m].taken = table[m].taken
      BY <2>1 DEF Stores
    <2> QED
      BY <1>0, <2>2 DEF DirectoryAgrees
  <1>5. CASE \E file, n : Removes(file, n)
    <2>1. PICK file, n : Removes(file, n)
      BY <1>5
    <2>2. /\ n \in Files
          /\ root'[n].name = NoName /\ root'[n].mode = 0 /\ table'[n].taken = 0
          /\ \A m \in Files : m # n => root'[m] = root[m] /\ table'[m] = table[m]
      BY <1>0, <2>1 DEF Removes, TypeOK, FreeSlot, CleanInode
    <2> QED
      BY <1>0, <2>2 DEF DirectoryAgrees
  <1> QED
    BY <1>0, <1>2, <1>3, <1>4, <1>5 DEF Called

\* Whatever sfs_remove is asked for, the invariant holds after the call.
LEMMA CoreKept ==
  ASSUME CoreInv, Called
  PROVE  CoreInv'
  BY TypeKept, BlocksKept, DirectoryKept DEF CoreInv

LEMMA CoreStep == CoreInv /\ [Next]_vars => CoreInv'
  <1> SUFFICES ASSUME CoreInv, [Next]_vars PROVE CoreInv'
    OBVIOUS
  <1>1. TypeOK /\ 0 \in used
    BY DEF CoreInv, BlocksDistinct
  <1>2. Called
    BY <1>1, FourKinds DEF Called, Removing
  <1> QED
    BY <1>2, CoreKept

LEMMA CoreCorrect == Spec => []CoreInv
  BY CoreInit, CoreStep, PTL DEF Spec

\* Every variable keeps its type: no position is ever negative and the bitmap
\* never has a bit of a block that does not exist.
THEOREM TypeCorrect == Spec => []TypeOK
  BY CoreCorrect, PTL DEF CoreInv

\* sfs_fwrite never hands out a block that belongs to a file, whatever bits
\* sfs_remove clears.
THEOREM BlocksCorrect == Spec => []BlocksDistinct
  BY CoreCorrect, PTL DEF CoreInv

\* Directory and inodes agree, and no two files have the same name.
THEOREM DirectoryCorrect == Spec => []DirectoryAgrees
  BY CoreCorrect, PTL DEF CoreInv

(* The bits that are lost. *)

LEMMA WordKept ==
  ASSUME CoreInv, LostBeyondWord, Called
  PROVE  LostBeyondWord'
  <1>0. TypeOK /\ BlocksDistinct
    BY DEF CoreInv
  <1>1. CASE Quiet
    BY <1>1 DEF Quiet, LostBeyondWord
  <1>2. CASE Opening
    <2>1. PICK name, d, n, pos : name \in Names /\ Opens(name, d, n, pos)
      BY <1>2 DEF Opening
    <2>2. used' = used /\ \A m \in Files : table'[m].ptrs = table[m].ptrs
      BY <1>0, <2>1 DEF Opens, TypeOK
    <2> QED
      BY <2>2 DEF LostBeyondWord
  <1>3. CASE Storing
    <2>1. PICK fd, buf, n, end, k, ptrs, stored :
             /\ fd \in Fds /\ buf \in Buffers
             /\ Stores(n, fd, buf, end, k, ptrs, stored)
      BY <1>3 DEF Storing
    <2>2. /\ n \in Files /\ table'[n].ptrs = ptrs
          /\ \A m \in Files : m # n => table'[m] = table[m]
          /\ \A b \in Pointers : ptrs[b] # table[n].ptrs[b] => table[n].ptrs[b] = 0
          /\ \A x \in used' \ used : \E b \in Pointers : ptrs[b] = x
      BY <2>1 DEF Stores
    <2>3. ASSUME NEW x \in used' \ {0}, x < WordBits
          PROVE  \E m \in Files, b \in Pointers : table'[m].ptrs[b] = x
      <3>1. CASE x \notin used
        BY <2>2, <2>3, <3>1
      <3>2. CASE x \in used
        <4>1. PICK m \in Files, b \in Pointers : table[m].ptrs[b] = x
          BY <2>3, <3>2 DEF LostBeyondWord
        <4>2. table'[m].ptrs[b] = x
          BY <2>2, <2>3, <4>1
        <4> QED
          BY <4>2
      <3> QED
        BY <3>1, <3>2
    <2> QED
      BY <2>3 DEF LostBeyondWord
  <1>4. CASE \E file, n : Removes(file, n)
    <2>1. PICK file, n : Removes(file, n)
      BY <1>4
    <2>2. /\ n \in Files /\ table' = [table EXCEPT ![n] = CleanInode(table[n])]
          /\ used' \subseteq used
          /\ \A x \in Held(n) : x < WordBits => x \notin used'
      BY <2>1 DEF Removes
    <2>3. ASSUME NEW x \in used' \ {0}, x < WordBits
          PROVE  \E m \in Files, b \in Pointers : table'[m].ptrs[b] = x
      <3>1. PICK m \in Files, b \in Pointers : table[m].ptrs[b] = x
        BY <2>2, <2>3 DEF LostBeyondWord
      <3>2. m # n \/ table[n].taken # 1
        BY <2>2, <2>3, <3>1 DEF Held
      <3>3. table'[m].ptrs = table[m].ptrs
        BY <1>0, <2>2, <3>2 DEF TypeOK, CleanInode
      <3> QED
        BY <3>1, <3>3
    <2> QED
      BY <2>3 DEF LostBeyondWord
  <1> QED
    BY <1>1, <1>2, <1>3, <1>4 DEF Called

\* Whatever the client does, a bit in the first word of the bitmap that is set is
\* the root's or belongs to a block that an inode points to.
THEOREM WordCorrect == Spec => []LostBeyondWord
  <1>1. Init => LostBeyondWord
    BY DEF Init, LostBeyondWord
  <1>2. CoreInv /\ LostBeyondWord /\ [Next]_vars => LostBeyondWord'
    <2> SUFFICES ASSUME CoreInv, LostBeyondWord, [Next]_vars PROVE LostBeyondWord'
      OBVIOUS
    <2>1. TypeOK /\ 0 \in used
      BY DEF CoreInv, BlocksDistinct
    <2>2. Called
      BY <2>1, FourKinds DEF Called, Removing
    <2> QED
      BY <2>2, WordKept
  <1> QED
    BY <1>1, <1>2, CoreCorrect, PTL DEF Spec

\* The leak is the late blocks alone: as long as every block in use is counted in
\* the first word, no bit is set but the root's and those of blocks of files.
THEOREM LeakLocated ==
  Spec => [](used \subseteq 0 .. WordBits - 1 => NoBlockLeaked)
  <1>1. CoreInv /\ LostBeyondWord
          => (used \subseteq 0 .. WordBits - 1 => NoBlockLeaked)
    <2> SUFFICES ASSUME CoreInv, LostBeyondWord, used \subseteq 0 .. WordBits - 1
                 PROVE  NoBlockLeaked
      OBVIOUS
    <2>1. \A x \in used : x < WordBits
      BY GeometryAssumption
    <2>2. 0 \in used /\ \A n \in Files, b \in Pointers : table[n].ptrs[b] \in used
      BY DEF CoreInv, BlocksDistinct
    <2> DEFINE held == {table[n].ptrs[b] : n \in Files, b \in Pointers}
    <2>3. held \subseteq used
      BY <2>2
    <2>4. \A x \in used \ {0} : x \in held
      BY <2>1 DEF LostBeyondWord
    <2>5. NoBlockLeaked <=> used = {0} \cup held
      BY DEF NoBlockLeaked
    <2> HIDE DEF held
    <2> QED
      BY <2>2, <2>3, <2>4, <2>5
  <1> QED
    BY <1>1, CoreCorrect, WordCorrect, PTL
-----------------------------------------------------------------------------
(* What becomes of the bytes. *)

\* A write puts the bytes stored where the position was, and changes no other.
LEMMA BytesStored ==
  ASSUME CoreInv, BlocksDistinct', NEW fd, NEW buf, NEW n, NEW end, NEW k,
         NEW ptrs, NEW stored, Stores(n, fd, buf, end, k, ptrs, stored),
         Len(buf) \in Nat, NEW p \in 0 .. Capacity - 1
  PROVE  LET at == fdt[fd].rwptr IN
         /\ ByteAt(n, p)' = IF p \in at .. at + k - 1 THEN buf[p - at + 1]
                            ELSE ByteAt(n, p)
         /\ \A m \in Files : m # n => ByteAt(m, p)' = ByteAt(m, p)
  <1> DEFINE at == fdt[fd].rwptr
             b == p \div BlockSize
             o == p % BlockSize
             x == ptrs[b]
             Byte(c, q) ==
               LET s == c * BlockSize + q IN
               IF s \in at .. end - 1 THEN buf[s - at + 1] ELSE ByteAt(n, s)
  <1>1. /\ n \in Files /\ at \in Nat /\ end \in at + 1 .. at + Len(buf)
        /\ k \in 0 .. end - at
        /\ ptrs \in [Pointers -> Blocks] /\ stored \subseteq Pointers
        /\ table'[n].ptrs = ptrs
        /\ \A m \in Files : m # n => table'[m] = table[m]
        /\ blocks' = [y \in Blocks |->
                        IF \E c \in stored : ptrs[c] = y
                        THEN LET c == CHOOSE c \in stored : ptrs[c] = y
                             IN  [q \in Offsets |-> Byte(c, q)]
                        ELSE blocks[y]]
    BY DEF Stores
  <1>2. \A c \in Pointers :
          \/ ptrs[c] = table[n].ptrs[c] /\ (c \in stored => ptrs[c] # 0)
          \/ c \in stored /\ ptrs[c] \in FreeBlocks
    BY DEF Stores
  <1>3. \A q \in at .. end - 1 : q \div BlockSize \in stored <=> q < at + k
    BY DEF Stores
  <1>4. b \in Pointers /\ o \in Offsets /\ p \in Int /\ b * BlockSize + o = p
    BY Positions
  <1>5. 0 \notin FreeBlocks
    BY DEF CoreInv, BlocksDistinct, FreeBlocks
  <1>6. \A c \in stored : ptrs[c] # 0
    BY <1>1, <1>2, <1>5
  <1>7. ASSUME NEW m \in Files, NEW c \in stored, table'[m].ptrs[b] = ptrs[c]
        PROVE  m = n /\ c = b
    BY <1>1, <1>4, <1>6, <1>7 DEF BlocksDistinct
  <1>8. ASSUME NEW y \in Blocks, \A c \in stored : ptrs[c] # y
        PROVE  blocks'[y] = blocks[y]
    BY <1>1, <1>8
  <1>9. ByteAt(n, p)' = IF x = 0 THEN NUL ELSE blocks'[x][o]
    BY <1>1 DEF ByteAt
  <1>10. ASSUME b \in stored
         PROVE  ByteAt(n, p)' = IF p \in at .. at + k - 1 THEN buf[p - at + 1]
                                ELSE ByteAt(n, p)
    <2>1. (CHOOSE c \in stored : ptrs[c] = x) = b
      <3>1. \A c \in stored : ptrs[c] = x => c = b
        BY <1>1, <1>7
      <3> QED
        BY <1>10, <3>1
    <2>2. x # 0 /\ x \in Blocks
      BY <1>1, <1>4, <1>6, <1>10
    <2>3. blocks'[x] = [q \in Offsets |-> Byte(b, q)]
      <3> HIDE DEF Byte, b
      <3> QED
        BY <1>1, <1>10, <2>1, <2>2
    <2>4. blocks'[x][o] = Byte(b, o)
      <3> HIDE DEF Byte, b, o, x
      <3> QED
        BY <1>4, <2>3
    <2>5. Byte(b, o) = IF p \in at .. end - 1 THEN buf[p - at + 1] ELSE ByteAt(n, p)
      <3> HIDE DEF b, o, at
      <3> QED
        BY <1>4
    <2>6. p \in at .. end - 1 <=> p \in at .. at + k - 1
      <3> HIDE DEF at, b
      <3>1. p \in at .. end - 1 => p < at + k
        BY <1>3, <1>10 DEF b
      <3> QED
        BY <1>1, <1>4, <3>1
    <2>7. ByteAt(n, p)' = Byte(b, o)
      BY <1>9, <2>2, <2>4
    <2> HIDE DEF Byte, at
    <2> QED
      BY <2>5, <2>6, <2>7
  <1>11. ASSUME b \notin stored
         PROVE  ByteAt(n, p)' = IF p \in at .. at + k - 1 THEN buf[p - at + 1]
                                ELSE ByteAt(n, p)
    <2>1. p \notin at .. at + k - 1
      <3> HIDE DEF at
      <3>1. p \in at .. at + k - 1 => p \in at .. end - 1 /\ p < at + k
        BY <1>1, <1>4
      <3> QED
        BY <1>3, <1>11, <3>1
    <2>2. x = table[n].ptrs[b] /\ x \in Blocks
      BY <1>1, <1>2, <1>4, <1>11
    <2>3. blocks'[x] = blocks[x]
      BY <1>1, <1>7, <1>8, <1>11, <2>2
    <2>4. ByteAt(n, p)' = ByteAt(n, p)
      BY <1>9, <2>2, <2>3 DEF ByteAt
    <2> QED
      BY <2>1, <2>4
  <1>12. ASSUME NEW m \in Files, m # n
         PROVE  ByteAt(m, p)' = ByteAt(m, p)
    <2>1. table'[m] = table[m]
      BY <1>1, <1>12
    <2>2. table[m].ptrs[b] \in Blocks
      BY <1>4 DEF CoreInv, TypeOK
    <2>3. blocks'[table[m].ptrs[b]] = blocks[table[m].ptrs[b]]
      BY <1>7, <1>8, <1>12, <2>1, <2>2
    <2> QED
      BY <2>1, <2>3 DEF ByteAt
  <1>13. /\ ByteAt(n, p)' = IF p \in at .. at + k - 1 THEN buf[p - at + 1]
                            ELSE ByteAt(n, p)
         /\ \A m \in Files : m # n => ByteAt(m, p)' = ByteAt(m, p)
    <2> HIDE DEF b
    <2> QED
      BY <1>10, <1>11, <1>12
  <1> QED
    BY <1>13

\* Removing a file changes no byte of another.
LEMMA BytesRemoved ==
  ASSUME CoreInv, NEW file, NEW n, Removes(file, n),
         NEW m \in Files, m # n, NEW p \in 0 .. Capacity - 1
  PROVE  ByteAt(m, p)' = ByteAt(m, p)
  <1> DEFINE b == p \div BlockSize
             x == table[m].ptrs[b]
  <1>1. b \in Pointers
    BY Positions
  <1>2. /\ n \in Files /\ table'[m] = table[m]
        /\ blocks' = [y \in Blocks |-> IF y \in Held(n) THEN Empty ELSE blocks[y]]
    BY DEF Removes, CoreInv, TypeOK
  <1>3. x \in Blocks
    BY <1>1 DEF CoreInv, TypeOK
  <1> HIDE DEF b
  <1>4. x # 0 => x \notin Held(n)
    BY <1>1, <1>2 DEF CoreInv, BlocksDistinct, Held
  <1>5. x # 0 => blocks'[x] = blocks[x]
    BY <1>2, <1>3, <1>4
  <1> QED
    BY <1>2, <1>5 DEF ByteAt, b

\* A byte of a file changes only when the position of one of its descriptors
\* passes over it, or when the file is removed.
THEOREM BytesCorrect == Spec => WritesStayInFile
  <1> DEFINE Stays == \A n \in Files, p \in 0 .. Capacity - 1 :
               ByteAt(n, p)' # ByteAt(n, p) =>
                 \/ root[n].name # NoName /\ root'[n].name = NoName
                 \/ \E d \in Fds : /\ fdt[d].inode = n
                                   /\ fdt[d].rwptr <= p /\ p < fdt'[d].rwptr
  <1>1. ASSUME CoreInv, [Next]_vars PROVE Stays
    <2>0. TypeOK /\ 0 \in used /\ BlocksDistinct'
      BY <1>1, CoreStep DEF CoreInv, BlocksDistinct
    <2> SUFFICES ASSUME NEW n \in Files, NEW p \in 0 .. Capacity - 1,
                        ByteAt(n, p)' # ByteAt(n, p)
                 PROVE  \/ root[n].name # NoName /\ root'[n].name = NoName
                        \/ \E d \in Fds : /\ fdt[d].inode = n
                                          /\ fdt[d].rwptr <= p /\ p < fdt'[d].rwptr
      OBVIOUS
    <2>1. ~ Quiet
      BY DEF Quiet, ByteAt
    <2>2. ~ Opening
      <3>1. ASSUME NEW name \in Names, NEW d, NEW m, NEW pos, Opens(name, d, m, pos)
            PROVE  FALSE
        <4>1. table'[n].ptrs = table[n].ptrs /\ blocks' = blocks
          BY <2>0, <3>1 DEF Opens, TypeOK
        <4> QED
          BY <4>1 DEF ByteAt
      <3> QED
        BY <3>1 DEF Opening
    <2>3. CASE Storing
      <3>1. PICK fd, buf, m, end, k, ptrs, stored :
               /\ fd \in Fds /\ buf \in Buffers
               /\ Stores(m, fd, buf, end, k, ptrs, stored)
        BY <2>3 DEF Storing
      <3> DEFINE at == fdt[fd].rwptr
      <3>2. /\ ByteAt(m, p)' = IF p \in at .. at + k - 1 THEN buf[p - at + 1]
                               ELSE ByteAt(m, p)
            /\ \A l \in Files : l # m => ByteAt(l, p)' = ByteAt(l, p)
        BY <1>1, <2>0, <3>1, BytesStored, BufferTyped
      <3>3. m = n /\ p \in at .. at + k - 1
        BY <3>2
      <3>4. /\ fdt[fd].inode = n /\ at \in Nat /\ end \in at + 1 .. at + Len(buf)
            /\ k \in 0 .. end - at /\ fdt' = [fdt EXCEPT ![fd].rwptr = end]
        BY <3>1, <3>3 DEF Stores
      <3>5. fdt'[fd].rwptr = end
        BY <2>0, <3>1, <3>4 DEF TypeOK
      <3>6. at <= p /\ p < end
        <4> HIDE DEF at
        <4> QED
          BY <3>1, <3>3, <3>4, BufferTyped
      <3> QED
        BY <3>1, <3>4, <3>5, <3>6
    <2>4. CASE Removing
      <3>1. PICK file, m : file \in Names /\ Removes(file, m)
        BY <2>4 DEF Removing
      <3>2. m = n
        BY <1>1, <3>1, BytesRemoved
      <3>3. root'[n].name = NoName
        BY <2>0, <3>1, <3>2 DEF Removes, FreeSlot, TypeOK
      <3>4. root[n].name # NoName
        BY <3>1, <3>2, NamesAssumption DEF Removes, Matches
      <3> QED
        BY <3>3, <3>4
    <2> QED
      BY <1>1, <2>0, <2>1, <2>2, <2>3, <2>4, FourKinds
  <1>2. CoreInv /\ [Next]_vars => [Stays]_vars
    BY <1>1
  <1> QED
    BY <1>2, CoreCorrect, PTL DEF Spec, WritesStayInFile
-----------------------------------------------------------------------------
(* Clients that close a file before they remove it. *)

\* A descriptor never belongs to a free inode.
Live == \A d \in Fds : fdt[d].inode # Closed => table[fdt[d].inode].taken = 1

TidyInv == CoreInv /\ Live /\ OneDescriptorPerFile /\ FreeInodesClean

LEMMA TidyInit == Init => TidyInv
  <1> SUFFICES ASSUME Init PROVE TidyInv
    OBVIOUS
  <1>1. CoreInv
    BY CoreInit
  <1> QED
    BY <1>1 DEF Init, TidyInv, Live, OneDescriptorPerFile, FreeInodesClean,
                FreeInodes

LEMMA LiveKept ==
  ASSUME CoreInv, Live, OneDescriptorPerFile, root' # root => Tidy,
         Quiet \/ Opening \/ Storing \/ Removing
  PROVE  Live' /\ OneDescriptorPerFile'
  <1>0. TypeOK /\ DirectoryAgrees
    BY DEF CoreInv
  <1>1. \A d \in Fds : fdt[d].inode # Closed => fdt[d].inode \in Files
    BY <1>0 DEF TypeOK
  <1>2. CASE Quiet
    <2>1. \A d \in Fds : fdt'[d].inode \in {fdt[d].inode, Closed}
      BY <1>0, <1>2, QuietDescriptors
    <2>2. table' = table
      BY <1>2 DEF Quiet
    <2> QED
      BY <2>1, <2>2 DEF Live, OneDescriptorPerFile
  <1>3. CASE Opening
    <2>1. PICK name, d, n, pos : name \in Names /\ Opens(name, d, n, pos)
      BY <1>3 DEF Opening
    <2>2. /\ d \in Fds /\ n \in Files /\ (table[n].taken = 0 \/ ~IsOpen(n))
          /\ fdt'[d].inode = n
          /\ \A e \in Fds : e # d => fdt'[e] = fdt[e]
          /\ table'[n].taken = 1
          /\ \A m \in Files : m # n => table'[m] = table[m]
      BY <1>0, <2>1 DEF Opens, TypeOK
    <2>3. \A e \in Fds : fdt[e].inode # n
      BY <2>2 DEF Live, IsOpen, Files, Closed
    <2>4. Live'
      BY <1>1, <2>2, <2>3 DEF Live
    <2>5. OneDescriptorPerFile'
      BY <2>2, <2>3 DEF OneDescriptorPerFile
    <2> QED
      BY <2>4, <2>5
  <1>4. CASE Storing
    <2>1. PICK fd, buf, n, end, k, ptrs, stored :
             /\ fd \in Fds /\ buf \in Buffers
             /\ Stores(n, fd, buf, end, k, ptrs, stored)
      BY <1>4 DEF Storing
    <2>2. /\ n \in Files /\ table'[n].taken = table[n].taken
          /\ \A m \in Files : m # n => table'[m] = table[m]
          /\ fdt' = [fdt EXCEPT ![fd].rwptr = end]
      BY <2>1 DEF Stores
    <2>3. \A d \in Fds : fdt'[d].inode = fdt[d].inode
      BY <1>0, <2>2 DEF TypeOK
    <2>4. Live'
      BY <1>1, <2>2, <2>3 DEF Live
    <2>5. OneDescriptorPerFile'
      BY <2>3 DEF OneDescriptorPerFile
    <2> QED
      BY <2>4, <2>5
  <1>5. CASE Removing
    <2>1. PICK file, n : file \in Names /\ Removes(file, n)
      BY <1>5 DEF Removing
    <2>2. /\ n \in Files /\ root[n].name # NoName /\ root'[n].name = NoName
          /\ \A m \in Files : m # n => table'[m] = table[m]
          /\ \A d \in Fds : fdt'[d].inode = fdt[d].inode
      BY <1>0, <2>1, NamesAssumption DEF Removes, Matches, FreeSlot, TypeOK
    <2>3. \A d \in Fds : fdt[d].inode # n
      BY <2>2 DEF Tidy, Files, Closed
    <2> QED
      BY <1>1, <2>2, <2>3 DEF Live, OneDescriptorPerFile
  <1> QED
    BY <1>2, <1>3, <1>4, <1>5

LEMMA TidyStep == TidyInv /\ [Next /\ Tidy]_vars => TidyInv'
  <1> SUFFICES ASSUME TidyInv, [Next /\ Tidy]_vars PROVE TidyInv'
    OBVIOUS
  <1>0. /\ TypeOK /\ DirectoryAgrees /\ 0 \in used /\ [Next]_vars
        /\ root' # root => Tidy
    BY DEF TidyInv, CoreInv, BlocksDistinct, vars
  <1>1. Quiet \/ Opening \/ Storing \/ Removing
    BY <1>0, FourKinds
  <1>2. CoreInv' /\ Live' /\ OneDescriptorPerFile'
    BY <1>0, <1>1, CoreStep, LiveKept DEF TidyInv
  <1> SUFFICES ASSUME NEW m \in Files, table'[m].taken = 0
               PROVE  table'[m].ptrs = NoBlocks /\ table'[m].size = 0
    BY <1>2 DEF TidyInv, FreeInodesClean, FreeInodes
  <1>3. table[m].taken = 0 => table[m].ptrs = NoBlocks /\ table[m].size = 0
    BY DEF TidyInv, FreeInodesClean, FreeInodes
  <1>4. CASE Quiet
    BY <1>3, <1>4 DEF Quiet
  <1>5. CASE Opening
    <2>1. PICK name, d, n, pos : name \in Names /\ Opens(name, d, n, pos)
      BY <1>5 DEF Opening
    <2>2. m # n /\ table'[m] = table[m]
      BY <1>0, <2>1 DEF Opens, TypeOK
    <2> QED
      BY <1>3, <2>2
  <1>6. CASE Storing
    <2>1. PICK fd, buf, n, end, k, ptrs, stored :
             /\ fd \in Fds /\ buf \in Buffers
             /\ Stores(n, fd, buf, end, k, ptrs, stored)
      BY <1>6 DEF Storing
    <2>2. /\ n \in Files /\ n = fdt[fd].inode
          /\ table'[n].taken = table[n].taken
          /\ \A l \in Files : l # n => table'[l] = table[l]
      BY <2>1 DEF Stores
    <2>3. table[n].taken = 1
      BY <2>1, <2>2 DEF TidyInv, Live, Files, Closed
    <2> QED
      BY <1>3, <2>2, <2>3
  <1>7. CASE Removing
    <2>1. PICK file, n : file \in Names /\ Removes(file, n)
      BY <1>7 DEF Removing
    <2>2. m # n => table'[m] = table[m]
      BY <1>0, <2>1 DEF Removes, TypeOK
    <2>3. m = n => table'[m] = CleanInode(table[m])
      BY <1>0, <2>1 DEF Removes, TypeOK
    <2>4. table[m].taken \in {0, 1}
      BY <1>0 DEF TypeOK
    <2> QED
      BY <1>3, <2>2, <2>3, <2>4 DEF CleanInode
  <1> QED
    BY <1>1, <1>4, <1>5, <1>6, <1>7

LEMMA TidyCorrect == TidySpec => []TidyInv
  BY TidyInit, TidyStep, PTL DEF TidySpec

\* No file of a tidy client is ever open twice, in whatever order slots of the
\* directory and descriptors are used again.
THEOREM DescriptorsCorrect == TidySpec => []OneDescriptorPerFile
  BY TidyCorrect, PTL DEF TidyInv

\* A file that a tidy client makes starts without blocks.
THEOREM FreeInodesCorrect == TidySpec => []FreeInodesClean
  BY TidyCorrect, PTL DEF TidyInv
-----------------------------------------------------------------------------
(* The library implements a store of named byte arrays. *)

\* What a client sees of a file, by inode and not by name.
ContentsRight ==
  /\ \A name \in Names : Named(name) = {} => Contents(name) = NoName
  /\ \A m \in Files, name \in Names :
       root[m].name = name =>
         Contents(name) = [p \in 0 .. Capacity - 1 |-> ByteAt(m, p)]

LEMMA ContentsByInode == CoreInv => ContentsRight
  <1> SUFFICES ASSUME CoreInv PROVE ContentsRight
    OBVIOUS
  <1>1. ASSUME NEW m \in Files, NEW name \in Names, root[m].name = name
        PROVE  Contents(name) = [p \in 0 .. Capacity - 1 |-> ByteAt(m, p)]
    <2>1. m \in Named(name)
      BY <1>1 DEF Named
    <2>2. Min(Named(name)) \in Files /\ root[Min(Named(name))].name = name
      BY <2>1, NamedFile
    <2>3. Min(Named(name)) = m
      BY <1>1, <2>2, NamesAssumption DEF CoreInv, DirectoryAgrees
    <2> QED
      BY <2>1, <2>3 DEF Contents
  <1>2. \A name \in Names : Named(name) = {} => Contents(name) = NoName
    BY DEF Contents
  <1> QED
    BY <1>1, <1>2 DEF ContentsRight

LEMMA ContentsNext == CoreInv' => ContentsRight'
  BY ContentsByInode, PTL

\* The contents of a name stay when its slot and its bytes do.
LEMMA ContentsStay ==
  ASSUME ContentsRight, ContentsRight', NEW name \in Names,
         \A m \in Files : root'[m].name = name <=> root[m].name = name,
         \A m \in Files, p \in 0 .. Capacity - 1 :
           root[m].name = name => ByteAt(m, p)' = ByteAt(m, p)
  PROVE  Contents(name)' = Contents(name)
  <1>1. CASE Named(name) = {}
    <2>1. Named(name)' = {}
      BY <1>1 DEF Named
    <2> QED
      BY <1>1, <2>1 DEF ContentsRight
  <1>2. CASE Named(name) # {}
    <2>1. PICK m \in Files : root[m].name = name
      BY <1>2 DEF Named
    <2>2. Contents(name) = [p \in 0 .. Capacity - 1 |-> ByteAt(m, p)]
      BY <2>1 DEF ContentsRight
    <2>3. Contents(name)' = [p \in 0 .. Capacity - 1 |-> ByteAt(m, p)']
      BY <2>1 DEF ContentsRight
    <2> QED
      BY <2>1, <2>2, <2>3
  <1> QED
    BY <1>1, <1>2

\* A file is never taken for one that does not exist.
LEMMA Exists ==
  ASSUME CoreInv, ContentsRight, NEW m \in Files, NEW name \in Names,
         root[m].name = name
  PROVE  Contents(name) # NoName
  <1>1. 0 \in 0 .. Capacity - 1
    <2>1. \A a, b \in Nat \ {0} : a * b \in Nat \ {0}
      OBVIOUS
    <2> QED
      BY <2>1, GeometryAssumption DEF Capacity
  <1>2. DOMAIN Contents(name) = 0 .. Capacity - 1
    BY DEF ContentsRight
  <1>3. DOMAIN NoName = {}
    BY DEF NoName
  <1> QED
    BY <1>1, <1>2, <1>3

StoreStep == [Store!Next]_(Store!storeVars)

LEMMA OpenNamed ==
  ASSUME TidyInv, NEW d \in Fds, fdt[d].inode # Closed
  PROVE  /\ fdt[d].inode \in Files
         /\ root[fdt[d].inode].name \in Names
         /\ root[fdt[d].inode].name # NoName
  <1>1. fdt[d].inode \in Files
    BY DEF TidyInv, CoreInv, TypeOK
  <1>2. root[fdt[d].inode].name # NoName
    BY <1>1 DEF TidyInv, Live, CoreInv, DirectoryAgrees
  <1> QED
    BY <1>1, <1>2 DEF TidyInv, CoreInv, TypeOK

LEMMA QuietStore == ASSUME TidyInv, Quiet PROVE StoreStep
  <1> DEFINE cs == [name \in Names |-> Contents(name)]
             hs == [d \in Fds |-> Handle(d)]
  <1>0. fdt \in [Fds -> Descriptors] /\ UNCHANGED <<table, root, blocks>>
    BY DEF TidyInv, CoreInv, TypeOK, Descriptors, Quiet
  <1>1. cs' = cs
    BY <1>0 DEF Contents, Named, ByteAt
  <1>2. CASE fdt' = fdt
    <2>1. hs' = hs
      BY <1>0, <1>2 DEF Handle
    <2> QED
      BY <1>1, <2>1 DEF StoreStep, Store!storeVars
  <1>3. ASSUME NEW d \in Fds, Closes(d) PROVE StoreStep
    <2>1. fdt[d].inode # Closed
      BY <1>3 DEF Closes
    <2>2. hs[d].name # NoName
      BY <2>1, OpenNamed DEF Handle
    <2>3. /\ fdt'[d] = [inode |-> Closed, rwptr |-> 0]
          /\ \A e \in Fds : e # d => fdt'[e] = fdt[e]
      BY <1>0, <1>3 DEF Closes
    <2>4. Handle(d)' = [name |-> NoName, pos |-> 0]
      BY <2>3 DEF Handle
    <2>5. \A e \in Fds : e # d => Handle(e)' = Handle(e)
      BY <1>0, <2>3 DEF Handle
    <2>6. hs' = [hs EXCEPT ![d] = [name |-> NoName, pos |-> 0]]
      BY <2>4, <2>5
    <2>7. Store!Close(d)
      BY <1>1, <2>2, <2>6 DEF Store!Close, Store!Unused
    <2> QED
      BY <2>7 DEF StoreStep, Store!Next
  <1>4. ASSUME NEW d \in Fds, NEW pos \in 0 .. Capacity, MovesTo(d, pos)
        PROVE  StoreStep
    <2>1. fdt[d].inode # Closed
      BY <1>4 DEF MovesTo
    <2>2. hs[d].name # NoName
      BY <2>1, OpenNamed DEF Handle
    <2>3. /\ fdt'[d].inode = fdt[d].inode /\ fdt'[d].rwptr = pos
          /\ \A e \in Fds : e # d => fdt'[e] = fdt[e]
      BY <1>0, <1>4 DEF MovesTo, Descriptors
    <2>4. /\ hs'[d].name = hs[d].name /\ hs'[d].pos = pos
          /\ hs' = [hs EXCEPT ![d] = hs'[d]]
      BY <1>0, <2>3 DEF Handle
    <2>5. pos \in Nat /\ pos <= Capacity
      BY Positions
    <2>6. Store!Moves(d)
      BY <2>4, <2>5 DEF Store!Moves
    <2>7. Store!Reposition(d)
      BY <1>1, <2>2, <2>4, <2>5, <2>6 DEF Store!Reposition
    <2> QED
      BY <2>7 DEF StoreStep, Store!Next
  <1> QED
    BY <1>2, <1>3, <1>4 DEF Quiet

LEMMA OpeningStore ==
  ASSUME TidyInv, TidyInv', NEW name \in Names, NEW d, NEW n, NEW pos,
         Opens(name, d, n, pos)
  PROVE  StoreStep
  <1> DEFINE cs == [x \in Names |-> Contents(x)]
             hs == [e \in Fds |-> Handle(e)]
  <1>0. /\ TypeOK /\ Live /\ ContentsRight /\ ContentsRight' /\ CoreInv /\ CoreInv'
        /\ name # NoName
    BY ContentsByInode, ContentsNext, NamesAssumption DEF TidyInv, CoreInv
  <1>1. /\ d \in Fds /\ fdt[d].inode = Closed /\ n \in Files /\ pos \in Nat
        /\ \/ root[n].name = name /\ ~IsOpen(n)
           \/ table[n].taken = 0 /\ Named(name) = {} /\ pos = 0
        /\ fdt'[d] = [inode |-> n, rwptr |-> pos]
        /\ \A e \in Fds : e # d => fdt'[e] = fdt[e]
        /\ \A m \in Files : table'[m].ptrs = table[m].ptrs
        /\ root'[n].name = name
        /\ \A m \in Files : m # n => root'[m] = root[m]
        /\ blocks' = blocks
    BY <1>0 DEF Opens, TypeOK
  <1>2. \A e \in Fds : fdt[e].inode # n
    BY <1>0, <1>1 DEF Live, IsOpen, Files, Closed
  <1>3. \A e \in Fds : hs[e].name # name
    <2> SUFFICES ASSUME NEW e \in Fds, Handle(e).name = name PROVE FALSE
      OBVIOUS
    <2>1. fdt[e].inode # Closed /\ root[fdt[e].inode].name = name
      BY <1>0 DEF Handle
    <2>2. fdt[e].inode \in Files
      BY <2>1, OpenNamed
    <2>3. Named(name) # {}
      BY <2>1, <2>2 DEF Named
    <2>4. fdt[e].inode = n
      BY <1>0, <1>1, <2>1, <2>2, <2>3 DEF CoreInv, DirectoryAgrees
    <2> QED
      BY <1>2, <2>4
  <1>4. /\ hs[d].name = NoName /\ hs'[d] = [name |-> name, pos |-> pos]
        /\ \A e \in Fds : e # d => hs'[e] = hs[e]
    <2>1. Handle(d).name = NoName
      BY <1>1 DEF Handle
    <2>2. Handle(d)' = [name |-> name, pos |-> pos]
      BY <1>1 DEF Handle, Files, Closed
    <2>3. ASSUME NEW e \in Fds, e # d PROVE Handle(e)' = Handle(e)
      <3>1. fdt'[e] = fdt[e]
        BY <1>1, <2>3
      <3>2. CASE fdt[e].inode = Closed
        BY <3>1, <3>2 DEF Handle
      <3>3. CASE fdt[e].inode # Closed
        <4>1. root'[fdt[e].inode] = root[fdt[e].inode]
          BY <1>1, <1>2, <3>3, OpenNamed
        <4> QED
          BY <3>1, <4>1 DEF Handle
      <3> QED
        BY <3>2, <3>3
    <2> QED
      BY <1>1, <2>1, <2>2, <2>3
  <1>5. Store!Moves(d) /\ hs'[d].name = name
    <2>1. hs' = [hs EXCEPT ![d] = hs'[d]]
      BY <1>1, <1>4
    <2>2. hs'[d].name = name /\ hs'[d].pos = pos
      BY <1>4
    <2> QED
      BY <1>1, <2>1, <2>2 DEF Store!Moves
  <1>6. ~ Store!InUse(name)
    BY <1>3 DEF Store!InUse
  <1>7. \A m \in Files, p \in 0 .. Capacity - 1 : ByteAt(m, p)' = ByteAt(m, p)
    BY <1>1 DEF ByteAt
  <1>8. ASSUME NEW x \in Names, x # name PROVE Contents(x)' = Contents(x)
    <2>1. root[n].name = x => FALSE
      BY <1>0, <1>1, <1>8, NamesAssumption DEF CoreInv, DirectoryAgrees
    <2>2. \A m \in Files : root'[m].name = x <=> root[m].name = x
      BY <1>1, <1>8, <2>1
    <2> QED
      BY <1>0, <1>7, <2>2, ContentsStay
  <1>9. CASE root[n].name = name
    <2>1. Contents(name) # NoName
      BY <1>0, <1>1, <1>9, Exists
    <2>2. Contents(name)' = Contents(name)
      <3>1. \A m \in Files : root'[m].name = name <=> root[m].name = name
        BY <1>1, <1>9
      <3> QED
        BY <1>0, <1>7, <3>1, ContentsStay
    <2>3. cs' = cs /\ cs[name] # NoName
      BY <1>8, <2>1, <2>2
    <2>4. Store!Open(name, d)
      BY <1>4, <1>5, <1>6, <2>3 DEF Store!Open
    <2> QED
      BY <1>1, <2>4 DEF StoreStep, Store!Next
  <1>10. CASE table[n].taken = 0 /\ Named(name) = {} /\ pos = 0
    <2>1. Contents(name) = NoName
      BY <1>0, <1>10 DEF ContentsRight
    <2>2. table[n].ptrs = NoBlocks
      BY <1>1, <1>10 DEF TidyInv, FreeInodesClean, FreeInodes
    <2>3. \A p \in 0 .. Capacity - 1 : ByteAt(n, p)' = NUL
      BY <1>1, <2>2, Positions DEF ByteAt, NoBlocks
    <2>4. Contents(name)' = [p \in 0 .. Capacity - 1 |-> ByteAt(n, p)']
      BY <1>0, <1>1 DEF ContentsRight
    <2>5. Contents(name)' = [p \in 0 .. Capacity - 1 |-> NUL]
      BY <2>3, <2>4
    <2>6. /\ cs[name] = NoName
          /\ cs' = [cs EXCEPT ![name] = [p \in 0 .. Capacity - 1 |-> NUL]]
      BY <1>8, <2>1, <2>5
    <2>7. hs'[d].pos = 0
      BY <1>4, <1>10
    <2>8. Store!Open(name, d)
      BY <1>4, <1>5, <1>6, <2>6, <2>7 DEF Store!Open
    <2> QED
      BY <1>1, <2>8 DEF StoreStep, Store!Next
  <1> QED
    BY <1>1, <1>9, <1>10

LEMMA StoringStore ==
  ASSUME TidyInv, TidyInv', NEW fd \in Fds, NEW buf \in Buffers, NEW n, NEW end,
         NEW k, NEW ptrs, NEW stored, Stores(n, fd, buf, end, k, ptrs, stored)
  PROVE  StoreStep
  <1> DEFINE cs == [x \in Names |-> Contents(x)]
             hs == [e \in Fds |-> Handle(e)]
             at == fdt[fd].rwptr
             name == root[n].name
  <1>0. /\ TypeOK /\ ContentsRight /\ ContentsRight' /\ CoreInv /\ CoreInv'
        /\ BlocksDistinct' /\ Len(buf) \in Nat
    BY ContentsByInode, ContentsNext, BufferTyped DEF TidyInv, CoreInv
  <1>1. /\ n = fdt[fd].inode /\ n \in Files
        /\ at \in Nat /\ end \in at + 1 .. at + Len(buf) /\ end <= Capacity
        /\ k \in 0 .. end - at
        /\ fdt' = [fdt EXCEPT ![fd].rwptr = end] /\ root' = root
    BY DEF Stores
  <1>2. name \in Names /\ name # NoName /\ fdt[fd].inode # Closed
    <2>1. fdt[fd].inode # Closed
      BY <1>1 DEF Files, Closed
    <2> QED
      BY <1>1, <2>1, OpenNamed
  <1>3. /\ hs[fd] = [name |-> name, pos |-> at]
        /\ hs'[fd] = [name |-> name, pos |-> end]
        /\ \A e \in Fds : e # fd => hs'[e] = hs[e]
    <2>1. fdt'[fd].inode = fdt[fd].inode /\ fdt'[fd].rwptr = end
      BY <1>0, <1>1 DEF TypeOK
    <2>2. Handle(fd) = [name |-> name, pos |-> at]
      BY <1>1, <1>2 DEF Handle
    <2>3. Handle(fd)' = [name |-> name, pos |-> end]
      BY <1>1, <1>2, <2>1 DEF Handle
    <2>4. ASSUME NEW e \in Fds, e # fd PROVE Handle(e)' = Handle(e)
      <3>1. fdt'[e] = fdt[e]
        BY <1>0, <1>1, <2>4 DEF TypeOK
      <3>2. root' = root
        BY <1>1
      <3> QED
        BY <3>1, <3>2 DEF Handle
    <2> QED
      BY <2>2, <2>3, <2>4
  <1>4. \A p \in 0 .. Capacity - 1 :
          /\ ByteAt(n, p)' = IF p \in at .. at + k - 1 THEN buf[p - at + 1]
                             ELSE ByteAt(n, p)
          /\ \A m \in Files : m # n => ByteAt(m, p)' = ByteAt(m, p)
    BY <1>0, BytesStored
  <1>5. ASSUME NEW x \in Names, x # name PROVE Contents(x)' = Contents(x)
    <2>1. \A m \in Files, p \in 0 .. Capacity - 1 :
            root[m].name = x => ByteAt(m, p)' = ByteAt(m, p)
      BY <1>4, <1>5
    <2> QED
      BY <1>0, <1>1, <2>1, ContentsStay
  <1>6. Contents(name) = [p \in 0 .. Capacity - 1 |-> ByteAt(n, p)]
    BY <1>0, <1>1, <1>2 DEF ContentsRight
  <1>7. Contents(name)' = [p \in 0 .. Capacity - 1 |-> ByteAt(n, p)']
    BY <1>0, <1>1, <1>2 DEF ContentsRight
  <1>8. Contents(name)' = [p \in 0 .. Capacity - 1 |->
                             IF p \in at .. at + k - 1 THEN buf[p - at + 1]
                             ELSE Contents(name)[p]]
    <2> HIDE DEF at, name
    <2> QED
      BY <1>4, <1>6, <1>7
  <1>9. cs' = [cs EXCEPT ![name] = [p \in 0 .. Capacity - 1 |->
                                      IF p \in at .. at + k - 1
                                      THEN buf[p - at + 1] ELSE @[p]]]
    <2>1. name' = name
      BY <1>1
    <2> HIDE DEF at, name
    <2> QED
      BY <1>2, <1>5, <1>8, <2>1
  <1>10. Store!Moves(fd)
    <2>1. hs' = [hs EXCEPT ![fd] = hs'[fd]]
      <3> HIDE DEF at, name
      <3> QED
        BY <1>3
    <2>2. hs'[fd].pos \in Nat
      BY <1>0, <1>1, <1>3
    <2> QED
      BY <2>1, <2>2 DEF Store!Moves
  <1>11. at + k <= Capacity /\ end \in at + k .. at + Len(buf) /\ k \in 0 .. Len(buf)
    <2> HIDE DEF at, name
    <2> QED
      BY <1>0, <1>1, Positions
  <1>12. Store!Write(fd, buf, k)
    <2>1. hs[fd].name = name /\ hs[fd].pos = at /\ hs'[fd].name = name
          /\ hs'[fd].pos = end
      BY <1>3
    <2> QED
      BY <1>2, <1>9, <1>10, <1>11, <2>1 DEF Store!Write
  <1> QED
    BY <1>11, <1>12 DEF StoreStep, Store!Next

LEMMA RemovingStore ==
  ASSUME TidyInv, TidyInv', Tidy, NEW file \in Names, NEW n, Removes(file, n)
  PROVE  StoreStep
  <1> DEFINE cs == [x \in Names |-> Contents(x)]
             hs == [e \in Fds |-> Handle(e)]
             name == root[n].name
             last == NumInodes - 1
  <1>0. /\ TypeOK /\ ContentsRight /\ ContentsRight' /\ CoreInv /\ CoreInv'
    BY ContentsByInode, ContentsNext DEF TidyInv, CoreInv
  <1>1. /\ n \in Files /\ name \in Names /\ name # NoName
        /\ root'[n].name = NoName
        /\ \A m \in Files : m # n => root'[m] = root[m]
        /\ fdt' \in [Fds -> Descriptors]
        /\ \A d \in Fds : /\ fdt'[d].inode = fdt[d].inode
                          /\ \/ fdt'[d] = fdt[d]
                             \/ d = last /\ fdt'[d].rwptr = fdt[d].rwptr - 1
    BY <1>0, NamesAssumption DEF Removes, Matches, FreeSlot, TypeOK
  <1>2. \A d \in Fds : fdt[d].inode # n
    BY <1>1 DEF Tidy, Files, Closed
  <1>3. \A m \in Files : root[m].name = name => m = n
    BY <1>0, <1>1 DEF CoreInv, DirectoryAgrees
  <1>4. cs[name] # NoName
    BY <1>0, <1>1, Exists
  <1>5. ~ Store!InUse(name)
    <2>1. ASSUME NEW d \in Fds, Handle(d).name = name PROVE FALSE
      <3>1. fdt[d].inode # Closed /\ root[fdt[d].inode].name = name
        BY <1>1, <2>1 DEF Handle
      <3>2. fdt[d].inode \in Files
        BY <3>1, OpenNamed
      <3> QED
        BY <1>2, <1>3, <3>1, <3>2
    <2> QED
      BY <2>1 DEF Store!InUse
  <1>6. ASSUME NEW x \in Names, x # name PROVE Contents(x)' = Contents(x)
    <2>1. \A m \in Files : root'[m].name = x <=> root[m].name = x
      BY <1>1, <1>6, NamesAssumption
    <2>2. \A m \in Files, p \in 0 .. Capacity - 1 :
            root[m].name = x => ByteAt(m, p)' = ByteAt(m, p)
      BY <1>0, <1>6, BytesRemoved
    <2> QED
      BY <1>0, <2>1, <2>2, ContentsStay
  <1>7. cs' = [cs EXCEPT ![name] = NoName]
    <2>1. PICK was \in Names : was = name
      BY <1>1
    <2>2. \A m \in Files : root'[m].name # was
      BY <1>1, <1>3, <2>1
    <2>3. Named(was)' = {}
      BY <2>2 DEF Named
    <2>4. Contents(was)' = NoName
      BY <1>0, <2>3 DEF ContentsRight
    <2>5. \A x \in Names : x # was => Contents(x)' = Contents(x)
      BY <1>6, <2>1
    <2>6. cs' = [cs EXCEPT ![was] = NoName]
      BY <2>4, <2>5
    <2> QED
      BY <2>1, <2>6
  <1>8. \A d \in Fds : /\ Handle(d)'.name = Handle(d).name
                       /\ Handle(d)'.pos = fdt'[d].rwptr
    <2> SUFFICES ASSUME NEW d \in Fds
                 PROVE  /\ Handle(d)'.name = Handle(d).name
                        /\ Handle(d)'.pos = fdt'[d].rwptr
      OBVIOUS
    <2>1. CASE fdt[d].inode = Closed
      BY <1>1, <2>1 DEF Handle
    <2>2. CASE fdt[d].inode # Closed
      <3>1. root'[fdt[d].inode] = root[fdt[d].inode]
        BY <1>1, <1>2, <2>2, OpenNamed
      <3> QED
        BY <1>1, <2>2, <3>1 DEF Handle
    <2> QED
      BY <2>1, <2>2
  <1>9. \A d \in Fds : Handle(d)' = [name |-> Handle(d).name, pos |-> fdt'[d].rwptr]
    BY <1>8 DEF Handle
  <1>10. \A d \in Fds : Handle(d) = [name |-> Handle(d).name, pos |-> fdt[d].rwptr]
    BY DEF Handle
  <1>11. CASE \A d \in Fds : fdt'[d] = fdt[d]
    <2>1. hs' = hs
      BY <1>9, <1>10, <1>11
    <2>2. Store!Remove(name)
      BY <1>4, <1>5, <1>7, <2>1 DEF Store!Remove
    <2> QED
      BY <1>1, <2>2 DEF StoreStep, Store!Next
  <1>12. CASE ~ \A d \in Fds : fdt'[d] = fdt[d]
    <2>1. /\ last \in Fds /\ fdt'[last].rwptr = fdt[last].rwptr - 1
          /\ \A d \in Fds : d # last => fdt'[d] = fdt[d]
      BY <1>1, <1>12
    <2>2. fdt'[last].rwptr \in Nat /\ fdt[last].rwptr \in Nat
      BY <1>0, <1>1, <2>1 DEF Descriptors, TypeOK
    <2>3. hs[last].pos = fdt[last].rwptr /\ hs[last].pos > 0
      BY <1>10, <2>1, <2>2
    <2>4. hs' = [hs EXCEPT ![last].pos = @ - 1]
      <3>1. \A d \in Fds : d # last => hs'[d] = hs[d]
        BY <1>9, <1>10, <2>1
      <3>2. hs'[last] = [hs[last] EXCEPT !.pos = @ - 1]
        <4>1. /\ hs'[last] = [name |-> Handle(last).name,
                             pos |-> fdt[last].rwptr - 1]
              /\ hs[last] = [name |-> Handle(last).name, pos |-> fdt[last].rwptr]
          BY <1>9, <1>10, <2>1
        <4> HIDE DEF hs, last
        <4> QED
          BY <4>1
      <3> HIDE DEF last
      <3> QED
        BY <3>1, <3>2
    <2>5. Store!Remove(name)
      BY <1>4, <1>5, <1>7, <2>1, <2>3, <2>4 DEF Store!Remove
    <2> QED
      BY <1>1, <2>5 DEF StoreStep, Store!Next
  <1> QED
    BY <1>11, <1>12

\* Files, blocks and the bitmap implement named arrays of bytes: whatever a
\* tidy client does, it cannot tell the one from the other.
THEOREM StoreImplemented == TidySpec => ImplementsFileStore
  <1>1. Init => Store!Init
    <2> SUFFICES ASSUME Init PROVE Store!Init
      OBVIOUS
    <2>1. \A n \in Files : root[n].name = NoName
      BY DEF Init
    <2>2. \A name \in Names : Contents(name) = NoName
      BY <2>1, NamesAssumption DEF Contents, Named
    <2>3. \A d \in Fds : Handle(d) = [name |-> NoName, pos |-> 0]
      BY DEF Init, Handle
    <2> QED
      BY <2>2, <2>3 DEF Store!Init, Store!Unused
  <1>2. TidyInv /\ TidyInv' /\ [Next /\ Tidy]_vars => StoreStep
    <2> SUFFICES ASSUME TidyInv, TidyInv', [Next /\ Tidy]_vars PROVE StoreStep
      OBVIOUS
    <2>0. TypeOK /\ 0 \in used /\ [Next]_vars
      BY DEF TidyInv, CoreInv, BlocksDistinct
    <2>1. CASE Quiet
      BY <2>1, QuietStore
    <2>2. CASE Opening
      BY <2>2, OpeningStore DEF Opening
    <2>3. CASE Storing
      BY <2>3, StoringStore DEF Storing
    <2>4. CASE Removing
      <3>1. PICK file, n : file \in Names /\ Removes(file, n)
        BY <2>4 DEF Removing
      <3>2. n \in Files /\ root[n].name # NoName /\ root'[n].name = NoName
        BY <2>0, <3>1, NamesAssumption DEF Removes, Matches, FreeSlot, TypeOK
      <3>3. Tidy
        BY <3>2 DEF vars
      <3> QED
        BY <3>1, <3>3, RemovingStore
    <2> QED
      BY <2>0, <2>1, <2>2, <2>3, <2>4, FourKinds
  <1> QED
    BY <1>1, <1>2, TidyCorrect, PTL
       DEF TidySpec, ImplementsFileStore, Store!Spec, StoreStep
=============================================================================

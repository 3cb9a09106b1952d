------------------------------ MODULE FuseProof ------------------------------
(***************************************************************************)
(* What the handlers of fuse_wrappers.c keep true while any number of      *)
(* threads run them over the library.                                      *)
(*                                                                         *)
(* A step of a thread is a call of the library and what the handler does   *)
(* with its result.  SfsProof says what the call does to the tables; here  *)
(* it is what the handler believes of them that matters.  There are three  *)
(* invariants: OwnInv of the descriptors and the cursor, ListInv of the    *)
(* listings and FileInv of the files that handlers write and truncate.     *)
(***************************************************************************)
EXTENDS Fuse, SfsProof

-----------------------------------------------------------------------------
(* The handlers. *)

Transfers == {"read", "write"}
Handlers ==
  [op : {"none"} \cup DOMAIN Start, path : Names \cup {<<"/">>, NoName},
   pc : {"done", "list", "remove", "open", "seek", "transfer", "close"},
   fd : Fds \cup {-1}]

\* A handler holds a descriptor between its open and its close, and the
\* handlers that never open a file are at their one call.
HandlerRight(h) ==
  /\ h.op = "none" <=> h = Idle
  /\ h.op = "none" <=> h.pc = "done"
  /\ h.op = "readdir" <=> h.pc = "list"
  /\ h.op = "unlink" => h.pc = "remove"
  /\ h.pc = "remove" => h.op \in {"unlink", "truncate"}
  /\ h.pc \in {"seek", "transfer"} => h.op \in Transfers
  /\ h.fd # -1 <=> h.pc \in {"seek", "transfer", "close"}
  /\ h.op \notin {"none", "readdir"} => h.path \in Names

HandlersRight ==
  /\ handler \in [Threads -> Handlers]
  /\ \A t \in Threads : HandlerRight(handler[t])
  /\ listing \in [Threads -> [seen : Seq(Names \cup {NoName}), alone : BOOLEAN]]

\* A descriptor is open exactly when a handler holds it or gave it up.
FdsOwned ==
  /\ abandoned \subseteq Fds
  /\ \A d \in Fds : fdt[d].inode # Closed <=>
       d \in abandoned \/ \E t \in Threads : handler[t].fd = d
  /\ \A t, u \in Threads : handler[t].fd # -1 =>
       /\ handler[t].fd \notin abandoned
       /\ handler[u].fd = handler[t].fd => u = t

OwnInv == CoreInv /\ HandlersRight /\ FdsOwned /\ CursorRests

\* A listing that nobody disturbed has returned the first files in the order
\* of their slots, and the cursor counts them.
Listing(t) ==
  LET seen == listing[t].seen IN
  /\ Len(seen) = current_file /\ current_file <= Cardinality(Listed)
  /\ \A k \in 1 .. Len(seen) : seen[k] = root[Nth(Listed, k)].name
ListInv ==
  \A t \in Threads : Runs(t, "readdir") /\ listing[t].alone => Listing(t)

Apart ==
  \A t, u \in Threads : t # u =>
    ~Exclude(handler[t].op, handler[t].path, handler[u].op, handler[u].path)

\* The files of a name, if there are any, are empty.
Blank(path) ==
  \A n \in Files : root[n].name = path =>
    table[n].size = 0 /\ \A p \in 0 .. Capacity - 1 : ByteAt(n, p) = NUL

\* A truncation has removed the file; whatever others make of the name stays
\* empty until it returns.
Truncated ==
  \A t \in Threads : Runs(t, "truncate") /\ handler[t].pc \in {"open", "close"}
    => Blank(handler[t].path)

FileInv == Apart /\ WritersOnOwnFile /\ FreeInodesClean /\ Truncated
-----------------------------------------------------------------------------
(* The calls. *)

LEMMA CallTyped ==
  ASSUME HandlersRight, NEW t \in Threads
  PROVE  /\ handler[t] \in Handlers /\ HandlerRight(handler[t])
         /\ handler[t].pc \in {"seek", "transfer", "close"} => handler[t].fd \in Fds
         /\ handler[t].pc \in {"open", "remove"} => handler[t].path \in Names
         /\ -1 \notin Fds
  <1>1. handler[t] \in Handlers /\ HandlerRight(handler[t])
    BY DEF HandlersRight
  <1>2. -1 \notin Fds
    BY DEF Fds
  <1> QED
    BY <1>1, <1>2 DEF Handlers, HandlerRight

\* Every call has one of the effects that SfsProof distinguishes.
LEMMA StepCalled ==
  ASSUME TypeOK, 0 \in used, HandlersRight, NEW t \in Threads,
         Request(t) \/ Step(t)
  PROVE  Called
  <1>0. /\ handler[t].pc \in {"seek", "transfer", "close"} => handler[t].fd \in Fds
        /\ handler[t].pc \in {"open", "remove"} => handler[t].path \in Names
    BY CallTyped
  <1>1. CASE Request(t)
    BY <1>1, UnchangedIsQuiet DEF Request, Begin, Called
  <1>2. CASE CallOpen(t)
    BY <1>0, <1>2, FopenKind DEF CallOpen, Called
  <1>3. CASE CallSeek(t)
    BY <1>0, <1>3, FseekQuiet, FuseAssumption DEF CallSeek, Called
  <1>4. CASE CallTransfer(t)
    <2>1. 1 .. MaxBuffer \subseteq Nat
      BY GeometryAssumption
    <2> QED
      BY <1>0, <1>4, <2>1, FreadQuiet, FwriteKind DEF CallTransfer, Called
  <1>5. CASE CallClose(t)
    BY <1>0, <1>5, FcloseQuiet DEF CallClose, Called
  <1>6. CASE CallRemove(t)
    BY <1>6, RemoveKind DEF CallRemove, Called
  <1>7. CASE CallNext(t)
    BY <1>7, GetnextfilenameQuiet DEF CallNext, Called
  <1> QED
    BY <1>1, <1>2, <1>3, <1>4, <1>5, <1>6, <1>7 DEF Step

LEMMA FopenResult ==
  ASSUME NEW name, NEW fd, Fopen(name, fd), fd # -1
  PROVE  ~ CannotOpen(name, fd) /\ fd \in FreeFds
  <1>1. ~ CannotOpen(name, fd)
    BY DEF CannotOpen
  <1>2. fd = Min(FreeFds) /\ FreeFds # {}
    BY <1>1 DEF Fopen, OpenExisting, Create
  <1>3. FreeFds \in SUBSET Int /\ IsFiniteSet(FreeFds)
    BY Finite, FS_Subset DEF FreeFds
  <1> QED
    BY <1>1, <1>2, <1>3, MinLeast

\* What the calls on an open descriptor leave alone.
LEMMA RwptrOnly ==
  ASSUME TypeOK, NEW fd, NEW pos, fdt' = [fdt EXCEPT ![fd].rwptr = pos]
  PROVE  \A d \in Fds : fdt'[d].inode = fdt[d].inode
  <1>1. fdt \in [Fds -> Descriptors]
    BY DEF TypeOK, Descriptors
  <1> QED
    BY <1>1 DEF Descriptors

LEMMA FreadFrame ==
  ASSUME TypeOK, NEW fd, NEW length, NEW out, NEW r, Fread(fd, length, out, r)
  PROVE  /\ UNCHANGED <<table, root, used, blocks, current_file>>
         /\ \A d \in Fds : fdt'[d].inode = fdt[d].inode
  <1> DEFINE end == Min({fdt[fd].rwptr + length, Capacity})
  <1>1. CASE UNCHANGED vars
    BY <1>1 DEF vars
  <1>2. CASE ~ UNCHANGED vars
    <2>1. /\ UNCHANGED <<table, root, used, blocks, current_file>>
          /\ fdt' = [fdt EXCEPT ![fd].rwptr = end]
      BY <1>2 DEF Fread
    <2> HIDE DEF end
    <2> QED
      BY <2>1, RwptrOnly
  <1> QED
    BY <1>1, <1>2

LEMMA FwriteFrame ==
  ASSUME TypeOK, 0 \in used, NEW fd \in Fds, NEW buf \in Buffers, NEW r,
         Fwrite(fd, buf, r)
  PROVE  /\ UNCHANGED <<root, current_file>>
         /\ \A d \in Fds : fdt'[d].inode = fdt[d].inode
         /\ \A n \in Files : table'[n].taken = table[n].taken
  <1>1. CASE UNCHANGED vars
    BY <1>1 DEF vars
  <1>2. CASE ~ UNCHANGED vars
    <2>1. PICK n, end, k, ptrs, stored : Stores(n, fd, buf, end, k, ptrs, stored)
      BY <1>2, FwriteStores
    <2>2. /\ UNCHANGED <<root, current_file>>
          /\ fdt' = [fdt EXCEPT ![fd].rwptr = end]
          /\ \A m \in Files : table'[m].taken = table[m].taken
      BY <2>1 DEF Stores
    <2> QED
      BY <2>2, RwptrOnly
  <1> QED
    BY <1>1, <1>2

LEMMA FseekFrame ==
  ASSUME TypeOK, NEW fd, NEW loc, NEW r, Fseek(fd, loc, r)
  PROVE  /\ UNCHANGED <<table, root, used, blocks, current_file>>
         /\ \A d \in Fds : fdt'[d].inode = fdt[d].inode
  <1>1. CASE UNCHANGED vars
    BY <1>1 DEF vars
  <1>2. CASE ~ UNCHANGED vars
    <2>1. /\ UNCHANGED <<table, root, used, blocks, current_file>>
          /\ fdt' = [fdt EXCEPT ![fd].rwptr = loc]
      BY <1>2 DEF Fseek
    <2> QED
      BY <2>1, RwptrOnly
  <1> QED
    BY <1>1, <1>2

\* A reader or a writer leaves the directory, the cursor and the inodes of all
\* descriptors alone.
LEMMA TransferFrame ==
  ASSUME TypeOK, 0 \in used, HandlersRight, NEW t \in Threads, CallTransfer(t)
  PROVE  /\ UNCHANGED <<root, current_file>>
         /\ \A d \in Fds : fdt'[d].inode = fdt[d].inode
         /\ \A n \in Files : table'[n].taken = table[n].taken
         /\ handler[t].fd \in Fds
  <1>1. handler[t].fd \in Fds
    BY CallTyped DEF CallTransfer
  <1> QED
    BY <1>1, FreadFrame, FwriteFrame DEF CallTransfer

\* What a handler does with the descriptor it is given.
Opened(h, fd) ==
  IF fd = -1 THEN Idle
  ELSE [h EXCEPT !.fd = fd, !.pc = IF h.op \in Transfers THEN "seek" ELSE "close"]

LEMMA OpenHandler ==
  ASSUME HandlersRight, NEW t \in Threads, CallOpen(t)
  PROVE  \E fd \in Results :
           /\ Fopen(handler[t].path, fd)
           /\ handler' = [handler EXCEPT ![t] = Opened(handler[t], fd)]
  <1>0. handler \in [Threads -> Handlers]
    BY DEF HandlersRight
  <1> DEFINE pc == IF handler[t].op \in {"read", "write"} THEN "seek" ELSE "close"
  <1>1. PICK fd \in Results :
          /\ Fopen(handler[t].path, fd)
          /\ IF fd = -1 THEN Returns(t)
             ELSE handler' = [handler EXCEPT ![t].fd = fd, ![t].pc = pc]
    BY DEF CallOpen
  <1>2. CASE fd = -1
    BY <1>1, <1>2 DEF Returns, Opened
  <1>3. CASE fd # -1
    <2>1. handler' = [handler EXCEPT ![t] = [handler[t] EXCEPT !.fd = fd, !.pc = pc]]
      <3> HIDE DEF pc
      <3> QED
        BY <1>0, <1>1, <1>3
    <2> QED
      BY <1>1, <1>3, <2>1 DEF Opened, Transfers
  <1> QED
    BY <1>2, <1>3

LEMMA ListingTyped ==
  ASSUME HandlersRight, NEW t \in Threads, Request(t) \/ Step(t)
  PROVE  listing' \in [Threads -> [seen : Seq(Names \cup {NoName}), alone : BOOLEAN]]
  <1> DEFINE L == [seen : Seq(Names \cup {NoName}), alone : BOOLEAN]
  <1>1. NoListing \in L /\ Disturbed \in L
    BY DEF NoListing, Disturbed
  <1>2. listing \in [Threads -> L]
    BY DEF HandlersRight
  <1>3. ASSUME NEW own \in L, Disturbs(t, own) PROVE listing' \in [Threads -> L]
    BY <1>1, <1>2, <1>3 DEF Disturbs
  <1>4. ASSUME NEW name \in Names \cup {NoName}
        PROVE  [listing[t] EXCEPT !.seen = Append(@, name)] \in L
    <2> DEFINE S == Names \cup {NoName}
               l == listing[t]
    <2>1. l \in [seen : Seq(S), alone : BOOLEAN]
      BY <1>2
    <2> HIDE DEF S, l
    <2>2. \A seq \in Seq(S), x \in S : Append(seq, x) \in Seq(S)
      OBVIOUS
    <2>3. name \in S
      BY <1>4 DEF S
    <2>4. [l EXCEPT !.seen = Append(@, name)] \in [seen : Seq(S), alone : BOOLEAN]
      BY <2>1, <2>2, <2>3
    <2> QED
      BY <2>4 DEF S, l
  <1>5. CASE Request(t)
    BY <1>1, <1>2, <1>5 DEF Request, Begin
  <1>6. CASE CallNext(t)
    BY <1>1, <1>3, <1>4, <1>6 DEF CallNext
  <1>7. CASE CallOpen(t) \/ CallRemove(t)
    BY <1>1, <1>2, <1>3, <1>7 DEF CallOpen, CallRemove
  <1>8. CASE UNCHANGED listing
    BY <1>2, <1>8
  <1> QED
    BY <1>5, <1>6, <1>7, <1>8 DEF Step, CallSeek, CallTransfer, CallClose

LEMMA HandlersStep ==
  ASSUME HandlersRight, NEW t \in Threads, Request(t) \/ Step(t)
  PROVE  /\ HandlersRight'
         /\ \A u \in Threads : u # t => handler'[u] = handler[u]
  <1> DEFINE h == handler[t]
  <1>0. /\ handler \in [Threads -> Handlers]
        /\ \A u \in Threads : HandlerRight(handler[u])
        /\ h.pc \in {"seek", "transfer", "close"} => h.fd \in Fds
        /\ -1 \notin Fds
    BY CallTyped DEF HandlersRight
  <1> SUFFICES \E new \in Handlers :
                 HandlerRight(new) /\ handler' = [handler EXCEPT ![t] = new]
    BY <1>0, ListingTyped DEF HandlersRight
  <1>1. Idle \in Handlers /\ HandlerRight(Idle)
    BY DEF Idle, Handlers, HandlerRight
  <1>2. CASE Request(t)
    <2>1. ASSUME NEW op \in DOMAIN Start, NEW path \in Names \cup {<<"/">>},
                 op # "readdir" => path \in Names
          PROVE  /\ [op |-> op, path |-> path, pc |-> Start[op], fd |-> -1] \in Handlers
                 /\ HandlerRight([op |-> op, path |-> path, pc |-> Start[op], fd |-> -1])
      BY <2>1 DEF Handlers, HandlerRight, Start, Idle, Transfers
    <2>2. CASE Begin(t, "readdir", <<"/">>)
      BY <2>1, <2>2 DEF Begin, Start
    <2>3. ASSUME NEW op \in DOMAIN Start \ {"readdir"}, NEW path \in Names,
                 Begin(t, op, path)
          PROVE  \E new \in Handlers :
                   HandlerRight(new) /\ handler' = [handler EXCEPT ![t] = new]
      BY <2>1, <2>3 DEF Begin
    <2> QED
      BY <1>2, <2>2, <2>3 DEF Request
  <1>3. CASE Returns(t)
    BY <1>1, <1>3 DEF Returns
  <1>4. ASSUME NEW there \in {"transfer", "close", "open"}, Calls(t, there),
               h.pc \in {"seek", "transfer"} \/ there = "open",
               there = "transfer" => h.pc = "seek",
               there = "open" => h.op = "truncate" /\ h.pc = "remove"
        PROVE  \E new \in Handlers :
                 HandlerRight(new) /\ handler' = [handler EXCEPT ![t] = new]
    <2> DEFINE new == [h EXCEPT !.pc = there]
    <2>1. h \in Handlers /\ HandlerRight(h)
      BY <1>0
    <2>2. new \in Handlers /\ HandlerRight(new)
      BY <1>4, <2>1 DEF Handlers, HandlerRight, Idle
    <2>3. handler' = [handler EXCEPT ![t] = new]
      BY <1>0, <1>4 DEF Calls
    <2> QED
      BY <2>2, <2>3
  <1>5. CASE CallOpen(t)
    <2>1. PICK fd \in Results :
            Fopen(h.path, fd) /\ handler' = [handler EXCEPT ![t] = Opened(h, fd)]
      BY <1>5, OpenHandler
    <2>2. CASE fd # -1
      <3>1. fd \in Fds
        BY <2>1, <2>2, FopenResult DEF FreeFds
      <3>2. h \in Handlers /\ HandlerRight(h) /\ h.pc = "open"
        BY <1>0, <1>5 DEF CallOpen
      <3>3. Opened(h, fd) \in Handlers /\ HandlerRight(Opened(h, fd))
        <4> HIDE DEF h
        <4> QED
          BY <1>0, <2>2, <3>1, <3>2 DEF Opened, Handlers, HandlerRight, Idle, Transfers
      <3> QED
        BY <2>1, <3>3
    <2> QED
      BY <1>1, <2>1, <2>2 DEF Opened
  <1>6. CASE CallSeek(t)
    BY <1>3, <1>4, <1>6 DEF CallSeek
  <1>7. CASE CallTransfer(t)
    BY <1>4, <1>7 DEF CallTransfer
  <1>8. CASE CallClose(t)
    BY <1>3, <1>8 DEF CallClose
  <1>9. CASE CallRemove(t)
    BY <1>3, <1>4, <1>9 DEF CallRemove, Runs
  <1>10. CASE CallNext(t)
    <2>1. handler' = handler => handler' = [handler EXCEPT ![t] = h]
      BY <1>0
    <2>2. h \in Handlers /\ HandlerRight(h)
      BY <1>0
    <2> QED
      BY <1>3, <1>10, <2>1, <2>2 DEF CallNext
  <1> QED
    BY <1>2, <1>5, <1>6, <1>7, <1>8, <1>9, <1>10 DEF Step
-----------------------------------------------------------------------------
(* Descriptors and the cursor. *)

LEMMA OwnInit == FuseInit => OwnInv
  <1> SUFFICES ASSUME FuseInit PROVE OwnInv
    OBVIOUS
  <1>1. CoreInv
    BY CoreInit DEF FuseInit
  <1>2. HandlersRight
    BY DEF FuseInit, HandlersRight, HandlerRight, Handlers, Idle, NoListing
  <1>3. FdsOwned
    BY DEF FuseInit, Init, FdsOwned, Idle, Fds
  <1>4. CursorRests
    BY DEF FuseInit, Init, CursorRests
  <1> QED
    BY <1>1, <1>2, <1>3, <1>4 DEF OwnInv

LEMMA SameFds ==
  ASSUME FdsOwned,
         \A d \in Fds : fdt'[d].inode # Closed <=> fdt[d].inode # Closed,
         \A u \in Threads : handler'[u].fd = handler[u].fd,
         abandoned' = abandoned
  PROVE  FdsOwned'
  BY DEF FdsOwned

LEMMA FdsStep ==
  ASSUME OwnInv, NEW t \in Threads, Request(t) \/ Step(t)
  PROVE  FdsOwned'
  <1> DEFINE h == handler[t]
  <1>0. /\ TypeOK /\ 0 \in used /\ FdsOwned
        /\ fdt \in [Fds -> Descriptors]
        /\ handler \in [Threads -> Handlers]
        /\ HandlerRight(h)
        /\ h.pc \in {"seek", "transfer", "close"} => h.fd \in Fds
        /\ -1 \notin Fds /\ Closed \notin Files
        /\ \A u \in Threads : u # t => handler'[u] = handler[u]
        /\ HandlersRight
    <2>1. TypeOK /\ 0 \in used /\ FdsOwned /\ HandlersRight
      BY DEF OwnInv, CoreInv, BlocksDistinct
    <2>2. fdt \in [Fds -> Descriptors]
      BY <2>1 DEF TypeOK, Descriptors
    <2> QED
      BY <2>1, <2>2, CallTyped, HandlersStep DEF HandlersRight, Closed, Files
  <1>1. Returns(t) => handler'[t].fd = -1
    BY <1>0 DEF Returns, Idle
  <1>2. \A there : Calls(t, there) => handler'[t].fd = h.fd
    BY <1>0 DEF Calls
  <1>3. h.fd # -1 => h.pc \in {"seek", "transfer", "close"}
    BY <1>0 DEF HandlerRight
  <1>4. CASE Request(t)
    <2>1. /\ Runs(t, "none") /\ UNCHANGED <<fdt, abandoned>>
          /\ handler'[t].fd = -1
      BY <1>0, <1>4 DEF Request, Begin, vars
    <2>2. h.fd = -1
      BY <1>0, <2>1 DEF Runs, HandlerRight, Idle
    <2> QED
      BY <1>0, <2>1, <2>2, SameFds
  <1>5. CASE CallOpen(t)
    <2>1. PICK fd \in Results :
            Fopen(h.path, fd) /\ handler' = [handler EXCEPT ![t] = Opened(h, fd)]
      BY <1>0, <1>5, OpenHandler
    <2>2. h.fd = -1 /\ abandoned' = abandoned
      BY <1>3, <1>5 DEF CallOpen
    <2>3. CASE UNCHANGED vars /\ fd = -1
      <3>1. handler'[t].fd = -1 /\ fdt' = fdt
        BY <1>0, <2>1, <2>3 DEF Opened, Idle, vars
      <3> QED
        BY <1>0, <2>2, <3>1, SameFds
    <2>4. CASE fd # -1
      <3>1. fd \in Fds /\ fdt[fd].inode = Closed
        BY <2>1, <2>4, FopenResult DEF FreeFds
      <3>2. PICK n, pos :
              n \in Files /\ fdt' = [fdt EXCEPT ![fd] = [inode |-> n, rwptr |-> pos]]
        <4>1. ~ CannotOpen(h.path, fd)
          BY <2>1, <2>4, FopenResult
        <4>2. CASE OpenExisting(h.path, fd)
          BY <4>2, NamedFile DEF OpenExisting
        <4>3. CASE Create(h.path, fd)
          BY <4>3, FreeInode DEF Create
        <4> QED
          BY <2>1, <4>1, <4>2, <4>3 DEF Fopen
      <3>3. /\ \A d \in Fds : fdt'[d].inode # Closed <=> d = fd \/ fdt[d].inode # Closed
            /\ handler'[t].fd = fd
        <4>1. handler'[t].fd = fd
          <5>1. h \in Handlers /\ handler'[t] = Opened(h, fd)
            BY <1>0, <2>1
          <5> QED
            BY <2>4, <5>1 DEF Opened, Handlers
        <4>2. /\ fdt'[fd].inode = n /\ n # Closed
              /\ \A d \in Fds : d # fd => fdt'[d] = fdt[d]
          BY <1>0, <3>1, <3>2
        <4> QED
          BY <4>1, <4>2
      <3> QED
        BY <1>0, <2>2, <3>1, <3>3 DEF FdsOwned
    <2>5. fd = -1 => UNCHANGED vars
      <3>1. FreeFds # {} => Min(FreeFds) \in Fds
        <4>1. FreeFds \in SUBSET Int /\ IsFiniteSet(FreeFds) /\ FreeFds \subseteq Fds
          BY Finite, FS_Subset DEF FreeFds
        <4> QED
          BY <4>1, MinLeast
      <3> QED
        BY <1>0, <2>1, <3>1 DEF Fopen, OpenExisting, Create, CannotOpen
    <2> QED
      BY <2>3, <2>4, <2>5
  <1>6. CASE CallSeek(t)
    <2>0. h.pc = "seek" /\ h.fd \in Fds
      BY <1>0, <1>6 DEF CallSeek
    <2>1. PICK loc \in Locations, r \in {-1, 0} :
            /\ Fseek(h.fd, loc, r)
            /\ IF r = -1 THEN Returns(t) /\ abandoned' = abandoned \cup {h.fd}
               ELSE Calls(t, "transfer") /\ UNCHANGED abandoned
      BY <1>6 DEF CallSeek
    <2>2. \A d \in Fds : fdt'[d].inode = fdt[d].inode
      BY <1>0, <2>1, FseekFrame
    <2>3. CASE r = -1
      <3>1. handler'[t].fd = -1 /\ abandoned' = abandoned \cup {h.fd}
        BY <1>1, <2>1, <2>3
      <3> QED
        BY <1>0, <2>0, <2>2, <3>1 DEF FdsOwned
    <2>4. CASE r # -1
      <3>1. handler'[t].fd = h.fd /\ abandoned' = abandoned
        BY <1>2, <2>1, <2>4
      <3> QED
        BY <1>0, <2>2, <3>1, SameFds
    <2> QED
      BY <2>3, <2>4
  <1>7. CASE CallTransfer(t)
    <2>1. \A d \in Fds : fdt'[d].inode = fdt[d].inode
      BY <1>0, <1>7, TransferFrame
    <2>2. handler'[t].fd = h.fd /\ abandoned' = abandoned
      BY <1>2, <1>7 DEF CallTransfer
    <2> QED
      BY <1>0, <2>1, <2>2, SameFds
  <1>8. CASE CallClose(t)
    <2>0. h.pc = "close" /\ h.fd \in Fds /\ h.fd # -1
      BY <1>0, <1>8 DEF CallClose
    <2>1. fdt[h.fd].inode # Closed
      BY <1>0, <2>0 DEF FdsOwned
    <2>2. /\ fdt' = [fdt EXCEPT ![h.fd] = [inode |-> Closed, rwptr |-> 0]]
          /\ handler'[t].fd = -1 /\ abandoned' = abandoned
      BY <1>1, <1>8, <2>1 DEF CallClose, Fclose
    <2>3. \A d \in Fds : fdt'[d].inode # Closed <=> d # h.fd /\ fdt[d].inode # Closed
      BY <1>0, <2>0, <2>2
    <2> QED
      BY <1>0, <2>0, <2>2, <2>3 DEF FdsOwned
  <1>9. CASE CallRemove(t)
    <2>1. h.fd = -1
      BY <1>3, <1>9 DEF CallRemove
    <2>2. handler'[t].fd = -1 /\ abandoned' = abandoned
      BY <1>1, <1>2, <1>9, <2>1 DEF CallRemove
    <2>3. \A d \in Fds : fdt'[d].inode = fdt[d].inode
      <3>1. PICK r : Remove(Removed(t), r)
        BY <1>9 DEF CallRemove
      <3>2. CASE UNCHANGED vars
        BY <3>2 DEF vars
      <3>3. CASE ~ UNCHANGED vars
        BY <1>0, <3>1, <3>3, RemoveRemoves DEF Removes
      <3> QED
        BY <3>2, <3>3
    <2> QED
      BY <1>0, <2>1, <2>2, <2>3, SameFds
  <1>10. CASE CallNext(t)
    <2>1. h.fd = -1
      BY <1>3, <1>10 DEF CallNext
    <2>2. handler'[t].fd = -1 /\ abandoned' = abandoned /\ fdt' = fdt
      BY <1>1, <1>10, <2>1 DEF CallNext, Getnextfilename
    <2> QED
      BY <1>0, <2>1, <2>2, SameFds
  <1> QED
    BY <1>4, <1>5, <1>6, <1>7, <1>8, <1>9, <1>10 DEF Step

\* Only sfs_getnextfilename and sfs_remove move the cursor.
LEMMA CursorMoves ==
  ASSUME TypeOK, 0 \in used, HandlersRight, NEW t \in Threads,
         Request(t) \/ Step(t), ~ CallNext(t), ~ CallRemove(t)
  PROVE  current_file' = current_file
  <1>1. CASE Request(t)
    BY <1>1 DEF Request, Begin, vars
  <1>2. CASE CallOpen(t)
    BY <1>2 DEF CallOpen, Fopen, OpenExisting, Create, CannotOpen, vars
  <1>3. CASE CallSeek(t)
    BY <1>3 DEF CallSeek, Fseek, vars
  <1>4. CASE CallTransfer(t)
    BY <1>4, TransferFrame
  <1>5. CASE CallClose(t)
    BY <1>5 DEF CallClose, Fclose, vars
  <1> QED
    BY <1>1, <1>2, <1>3, <1>4, <1>5 DEF Step

LEMMA CursorStep ==
  ASSUME OwnInv, NEW t \in Threads, Request(t) \/ Step(t)
  PROVE  CursorRests'
  <1>0. /\ HandlersRight /\ HandlersRight' /\ CursorRests /\ TypeOK /\ 0 \in used
        /\ handler \in [Threads -> Handlers]
        /\ \A u \in Threads : u # t => handler'[u] = handler[u]
    BY HandlersStep DEF OwnInv, CoreInv, BlocksDistinct, HandlersRight
  <1> SUFFICES ASSUME \A u \in Threads : handler'[u].op # "readdir"
               PROVE  current_file' = 0
    BY DEF CursorRests, Runs
  <1>1. handler[t].op # "readdir" => current_file = 0
    BY <1>0 DEF CursorRests, Runs
  <1>2. CASE CallNext(t)
    <2>1. handler[t].op = "readdir"
      BY <1>0, <1>2 DEF CallNext, HandlersRight, HandlerRight
    <2>2. handler' # handler
      BY <2>1
    <2> QED
      BY <1>2, <2>2 DEF CallNext, Getnextfilename
  <1>3. CASE CallRemove(t)
    <2>1. handler[t].op # "readdir"
      BY <1>0, <1>3 DEF CallRemove, HandlersRight, HandlerRight
    <2>2. \A file, r : Remove(file, r) => current_file' \in {0, current_file}
      BY DEF Remove, vars
    <2> QED
      BY <1>1, <1>3, <2>1, <2>2 DEF CallRemove
  <1>4. CASE ~ CallNext(t) /\ ~ CallRemove(t)
    <2>1. current_file' = current_file
      BY <1>0, <1>4, CursorMoves
    <2>2. handler[t].op # "readdir"
      <3>1. CASE Request(t)
        BY <3>1 DEF Request, Begin, Runs
      <3>2. CASE Step(t)
        BY <1>0, <1>4, <3>2 DEF Step, CallOpen, CallSeek, CallTransfer,
           CallClose, HandlersRight, HandlerRight
      <3> QED
        BY <3>1, <3>2
    <2> QED
      BY <1>1, <2>1, <2>2
  <1> QED
    BY <1>2, <1>3, <1>4

LEMMA OwnStep == OwnInv /\ [FuseNext]_fuseVars => OwnInv'
  <1> SUFFICES ASSUME OwnInv, [FuseNext]_fuseVars PROVE OwnInv'
    OBVIOUS
  <1>1. CASE UNCHANGED fuseVars
    <2>1. UNCHANGED vars
      BY <1>1 DEF fuseVars
    <2>2. CoreInv'
      BY <2>1, CoreStep DEF OwnInv
    <2>3. HandlersRight' /\ FdsOwned' /\ CursorRests'
      BY <1>1, <2>1 DEF OwnInv, fuseVars, vars, HandlersRight, FdsOwned,
                        CursorRests, Runs
    <2> QED
      BY <2>2, <2>3 DEF OwnInv
  <1>2. ASSUME NEW t \in Threads, Request(t) \/ Step(t)
        PROVE  OwnInv'
    <2>1. CoreInv'
      <3>1. CoreInv /\ TypeOK /\ 0 \in used /\ HandlersRight
        BY DEF OwnInv, CoreInv, BlocksDistinct
      <3> QED
        BY <1>2, <3>1, StepCalled, CoreKept
    <2> QED
      BY <1>2, <2>1, HandlersStep, FdsStep, CursorStep DEF OwnInv
  <1> QED
    BY <1>1, <1>2 DEF FuseNext

LEMMA OwnCorrect == FuseSpec => []OwnInv
  BY OwnInit, OwnStep, PTL DEF FuseSpec

\* No descriptor is lost but at a refused offset, and no handler closes or uses
\* the descriptor of another.
THEOREM OwnersCorrect == FuseSpec => []DescriptorsOwned
  <1>1. ASSUME OwnInv PROVE DescriptorsOwned
    <2>1. \A t \in Threads : handler[t].fd \in Fds \cup {-1}
      BY <1>1 DEF OwnInv, HandlersRight, Handlers
    <2>2. -1 \notin Fds
      BY DEF Fds
    <2>3. {d \in Fds : fdt[d].inode # Closed}
            = {handler[t].fd : t \in {u \in Threads : handler[u].fd # -1}} \cup abandoned
      BY <1>1, <2>1, <2>2 DEF OwnInv, FdsOwned
    <2> QED
      BY <1>1, <2>3 DEF OwnInv, FdsOwned, DescriptorsOwned, Holds
  <1> QED
    BY <1>1, OwnCorrect, PTL

\* However listings overlap with each other and with removals, the last one to
\* end leaves the cursor at the start.
THEOREM CursorCorrect == FuseSpec => []CursorRests
  BY OwnCorrect, PTL DEF OwnInv
-----------------------------------------------------------------------------
(* Listings. *)

\* Until it returns a handler stays at the request it was begun for.
LEMMA RequestKept ==
  ASSUME HandlersRight, NEW t \in Threads, Step(t), handler'[t] # Idle
  PROVE  handler'[t].op = handler[t].op /\ handler'[t].path = handler[t].path
  <1>0. /\ handler \in [Threads -> Handlers]
        /\ handler[t] \in Handlers
    BY DEF HandlersRight
  <1>1. Returns(t) => handler'[t] = Idle
    BY <1>0 DEF Returns
  <1>2. \A there : Calls(t, there) =>
          handler'[t].op = handler[t].op /\ handler'[t].path = handler[t].path
    BY <1>0 DEF Calls, Handlers
  <1>3. CASE CallOpen(t)
    <2>1. PICK fd : handler'[t] = Opened(handler[t], fd)
      BY <1>0, <1>3, OpenHandler
    <2> QED
      BY <1>0, <2>1 DEF Opened, Handlers
  <1>4. CASE CallNext(t)
    BY <1>1, <1>4 DEF CallNext
  <1> QED
    BY <1>1, <1>2, <1>3, <1>4
       DEF Step, CallSeek, CallTransfer, CallClose, CallRemove

\* What a thread does that neither moves the cursor nor touches the directory.
LEMMA ListingKept ==
  ASSUME NEW u \in Threads, Listing(u), listing'[u] = listing[u],
         root' = root, current_file' = current_file
  PROVE  Listing(u)'
  <1>1. Listed' = Listed
    BY DEF Listed
  <1> QED
    BY <1>1 DEF Listing

LEMMA ListInit == FuseInit => ListInv
  BY DEF FuseInit, Idle, ListInv, Runs

LEMMA ListStep ==
  ASSUME OwnInv, ListInv, NEW t \in Threads, Request(t) \/ Step(t)
  PROVE  ListInv'
  <1>0. /\ HandlersRight /\ HandlersRight' /\ TypeOK /\ 0 \in used
        /\ handler \in [Threads -> Handlers] /\ HandlerRight(handler[t])
        /\ listing \in [Threads -> [seen : Seq(Names \cup {NoName}), alone : BOOLEAN]]
        /\ \A u \in Threads : u # t => handler'[u] = handler[u]
    BY HandlersStep DEF OwnInv, CoreInv, BlocksDistinct, HandlersRight
  <1>1. ASSUME NEW own, Disturbs(t, own), NEW u \in Threads, u # t,
               handler'[u].op = "readdir"
        PROVE  listing'[u].alone = FALSE
    BY <1>0, <1>1 DEF Disturbs, Disturbed, Runs
  <1> SUFFICES ASSUME NEW u \in Threads, handler'[u].op = "readdir",
                      listing'[u].alone
               PROVE  Listing(u)'
    BY DEF ListInv, Runs
  <1>2. Step(t) /\ u = t => handler[t].op = "readdir"
    BY <1>0, RequestKept DEF Idle
  <1>3. u # t => handler[u].op = "readdir"
    BY <1>0
  <1>4. handler[u].op = "readdir" /\ listing[u].alone => Listing(u)
    BY DEF ListInv, Runs
  <1>5. CASE Request(t)
    <2>1. PICK op, path : Begin(t, op, path)
      BY <1>5 DEF Request
    <2>2. root' = root /\ current_file' = current_file
      BY <2>1 DEF Begin, vars
    <2>3. CASE u # t
      <3>1. listing'[u] = listing[u]
        BY <1>0, <2>1, <2>3 DEF Begin
      <3> QED
        BY <1>3, <1>4, <2>2, <2>3, <3>1, ListingKept
    <2>4. CASE u = t
      <3>1. op = "readdir"
        BY <1>0, <2>1, <2>4 DEF Begin
      <3>2. listing'[t] = NoListing /\ \A v \in Threads : ~ Runs(v, "readdir")
        BY <1>0, <2>1, <2>4, <3>1 DEF Begin, Disturbed
      <3>3. current_file = 0
        BY <3>2 DEF OwnInv, CursorRests
      <3>4. Cardinality(Listed)' \in Nat
        <4>1. Listed' = Listed
          BY <2>2 DEF Listed
        <4> QED
          BY <4>1, ListedFew
      <3> QED
        BY <2>2, <2>4, <3>2, <3>3, <3>4 DEF Listing, NoListing
    <2> QED
      BY <2>3, <2>4
  <1>6. CASE CallNext(t)
    <2>1. u = t
      BY <1>1, <1>6 DEF CallNext
    <2>2. handler[t].op = "readdir" /\ handler'[t] # Idle
      BY <1>2, <1>6, <2>1 DEF Step, Idle
    <2>3. PICK name \in Names \cup {NoName} :
            /\ current_file < Cardinality(Listed)
            /\ name = root[Nth(Listed, current_file + 1)].name
            /\ current_file' = current_file + 1 /\ root' = root
            /\ Disturbs(t, IF listing[t].alone
                           THEN [listing[t] EXCEPT !.seen = Append(@, name)]
                           ELSE Disturbed)
      BY <1>0, <1>6, <2>2 DEF CallNext, Returns, Getnextfilename
    <2>4. listing[t].alone /\ Listing(t)
      BY <1>4, <2>1, <2>2, <2>3 DEF Disturbs, Disturbed
    <2>5. listing'[t].seen = Append(listing[t].seen, name)
      BY <1>0, <2>3, <2>4 DEF Disturbs
    <2>6. Listed' = Listed /\ root' = root
      BY <2>3 DEF Listed
    <2>7. listing[t].seen \in Seq(Names \cup {NoName})
      BY <1>0
    <2>8. /\ Len(listing'[t].seen) = current_file + 1
          /\ \A k \in 1 .. current_file : listing'[t].seen[k] = listing[t].seen[k]
          /\ listing'[t].seen[current_file + 1] = name
      BY <2>4, <2>5, <2>7 DEF Listing
    <2>9. current_file \in Nat /\ Cardinality(Listed) \in Nat
      BY <1>0, ListedFew DEF TypeOK
    <2>10. Listing(t) /\ Len(listing[t].seen) = current_file
      BY <2>4 DEF Listing
    <2>11. \A k \in 1 .. current_file + 1 :
             listing'[t].seen[k] = root[Nth(Listed, k)].name
      BY <2>3, <2>8, <2>9, <2>10 DEF Listing
    <2> QED
      BY <2>1, <2>3, <2>6, <2>8, <2>9, <2>11 DEF Listing
  <1>7. CASE CallRemove(t)
    <2>1. u # t
      BY <1>0, <1>2, <1>7 DEF Step, CallRemove, HandlerRight
    <2> QED
      BY <1>1, <1>7, <2>1 DEF CallRemove
  <1>8. CASE Step(t) /\ ~ CallNext(t) /\ ~ CallRemove(t)
    <2>1. u # t
      BY <1>0, <1>2, <1>8
         DEF Step, CallOpen, CallSeek, CallTransfer, CallClose, HandlerRight
    <2>2. current_file' = current_file
      BY <1>0, <1>8, CursorMoves
    <2>3. root' = root /\ UNCHANGED listing
      <3>1. CASE CallOpen(t)
        BY <1>1, <2>1, <3>1 DEF CallOpen
      <3>2. CASE CallSeek(t)
        BY <3>2 DEF CallSeek, Fseek, vars
      <3>3. CASE CallTransfer(t)
        BY <1>0, <3>3, TransferFrame DEF CallTransfer
      <3>4. CASE CallClose(t)
        BY <3>4 DEF CallClose, Fclose, vars
      <3> QED
        BY <1>8, <3>1, <3>2, <3>3, <3>4 DEF Step
    <2> QED
      BY <1>3, <1>4, <2>1, <2>2, <2>3, ListingKept
  <1> QED
    BY <1>5, <1>6, <1>7, <1>8

LEMMA ListCorrect == FuseSpec => [](OwnInv /\ ListInv)
  <1>1. ListInv /\ UNCHANGED fuseVars => ListInv'
    <2> SUFFICES ASSUME ListInv, UNCHANGED fuseVars,
                        NEW u \in Threads, Runs(u, "readdir")', listing'[u].alone
                 PROVE  Listing(u)'
      BY DEF ListInv
    <2>1. UNCHANGED <<handler, listing, root, current_file>>
      BY DEF fuseVars, vars
    <2> QED
      BY <2>1, ListingKept DEF ListInv, Runs
  <1>2. OwnInv /\ ListInv /\ [FuseNext]_fuseVars => ListInv'
    BY <1>1, ListStep DEF FuseNext
  <1> QED
    BY <1>2, ListInit, OwnCorrect, PTL DEF FuseSpec

\* The names of the files, in the order of their slots, are the names of all
\* files.
LEMMA NamesInOrder ==
  ASSUME NEW seen, DOMAIN seen = 1 .. Cardinality(Listed),
         \A k \in 1 .. Cardinality(Listed) : seen[k] = root[Nth(Listed, k)].name
  PROVE  {seen[k] : k \in DOMAIN seen} = {root[n].name : n \in Listed}
  <1>1. Listed \in SUBSET Int /\ IsFiniteSet(Listed)
    BY Finite, FS_Subset DEF Listed
  <1>2. \A k \in 1 .. Cardinality(Listed) :
          Nth(Listed, k) \in Listed /\ Rank(Listed, Nth(Listed, k)) = k
    BY <1>1, NthRank
  <1>3. ASSUME NEW n \in Listed
        PROVE  \E k \in 1 .. Cardinality(Listed) : Nth(Listed, k) = n
    <2>1. Rank(Listed, n) \in 1 .. Cardinality(Listed) /\ Cardinality(Listed) \in Nat
      BY <1>1, RankBounds
    <2> DEFINE m == Nth(Listed, Rank(Listed, n))
    <2>2. m \in Listed /\ Rank(Listed, m) = Rank(Listed, n)
      BY <1>2, <2>1
    <2>3. ~ m < n /\ ~ n < m
      <3> HIDE DEF m
      <3>1. m < n => Rank(Listed, m) < Rank(Listed, n)
        BY <1>1, <2>2, RankIncreases
      <3>2. n < m => Rank(Listed, n) < Rank(Listed, m)
        BY <1>1, <2>2, RankIncreases
      <3> QED
        BY <2>1, <2>2, <3>1, <3>2
    <2>4. m \in Int /\ n \in Int
      BY <1>1, <2>2
    <2>5. m = n
      <3> HIDE DEF m
      <3> QED
        BY <2>3, <2>4
    <2> QED
      BY <2>1, <2>5
  <1> QED
    BY <1>2, <1>3

\* A listing that runs alone, among any number of other handlers, returns every
\* file once.
THEOREM ListingsCorrect == FuseSpec => ListingComplete
  <1> DEFINE Complete ==
        \A t \in Threads :
          Runs(t, "readdir") /\ handler'[t] = Idle /\ listing[t].alone =>
            LET seen == listing[t].seen IN
            /\ Len(seen) = Cardinality(Listed)
            /\ {seen[k] : k \in DOMAIN seen} = {root[n].name : n \in Listed}
  <1>1. OwnInv /\ ListInv /\ [FuseNext]_fuseVars => Complete
    <2> SUFFICES ASSUME OwnInv, ListInv, [FuseNext]_fuseVars, NEW t \in Threads,
                        Runs(t, "readdir"), handler'[t] = Idle, listing[t].alone
                 PROVE  /\ Len(listing[t].seen) = Cardinality(Listed)
                        /\ {listing[t].seen[k] : k \in DOMAIN listing[t].seen}
                             = {root[n].name : n \in Listed}
      OBVIOUS
    <2>0. /\ HandlersRight /\ TypeOK /\ DirectoryAgrees
          /\ handler[t].op = "readdir" /\ handler[t].pc = "list"
          /\ handler'[t] # handler[t]
          /\ listing[t].seen \in Seq(Names \cup {NoName})
      BY DEF OwnInv, CoreInv, HandlersRight, HandlerRight, Runs, Idle
    <2>1. Step(t)
      <3>1. PICK u \in Threads : Request(u) \/ Step(u)
        BY <2>0 DEF FuseNext, fuseVars
      <3>2. u = t
        BY <2>0, <3>1, HandlersStep
      <3> QED
        BY <2>0, <3>1, <3>2 DEF Request, Begin, Runs
    <2>2. CallNext(t)
      BY <2>0, <2>1 DEF Step, CallOpen, CallSeek, CallTransfer, CallClose, CallRemove
    <2>3. FreeInodes = Files \/ current_file >= Cardinality(Listed)
      BY <2>0, <2>2, ListedFew DEF CallNext, Getnextfilename, TypeOK
    <2>4. /\ Len(listing[t].seen) = current_file
          /\ current_file <= Cardinality(Listed)
          /\ current_file \in Nat /\ Cardinality(Listed) \in Nat
          /\ \A k \in 1 .. current_file :
               listing[t].seen[k] = root[Nth(Listed, k)].name
      BY <2>0, ListedFew DEF ListInv, Listing, TypeOK
    <2>5. current_file = Cardinality(Listed)
      <3>1. CASE FreeInodes = Files
        <4>1. Listed = {}
          BY <2>0, <3>1 DEF FreeInodes, Listed, DirectoryAgrees
        <4> QED
          BY <2>4, <4>1, FS_EmptySet
      <3> QED
        BY <2>3, <2>4, <3>1
    <2>6. DOMAIN listing[t].seen = 1 .. Cardinality(Listed)
      BY <2>0, <2>4, <2>5
    <2> QED
      BY <2>4, <2>5, <2>6, NamesInOrder
  <1>2. ListingComplete <=> [][Complete]_fuseVars
    BY DEF ListingComplete
  <1> QED
    BY <1>1, <1>2, ListCorrect, PTL DEF FuseSpec
-----------------------------------------------------------------------------
(* The files that handlers write and truncate. *)

\* What the step of a thread does to the tables, by the call that it makes.
Does(t) ==
  \/ Quiet
  \/ /\ handler[t].pc = "open"
     /\ \E d, n, pos : Opens(handler[t].path, d, n, pos) /\ handler'[t].fd = d
  \/ /\ Runs(t, "write") /\ handler[t].fd \in Fds
     /\ \E buf \in Buffers : \E n, end, k, ptrs, stored :
          Stores(n, handler[t].fd, buf, end, k, ptrs, stored)
  \/ handler[t].pc = "remove" /\ \E n : Removes(Removed(t), n)

LEMMA StepDoes ==
  ASSUME OwnInv, NEW t \in Threads, Request(t) \/ Step(t)
  PROVE  Does(t)
  <1>0. /\ TypeOK /\ 0 \in used /\ HandlersRight
        /\ handler \in [Threads -> Handlers] /\ handler[t] \in Handlers
        /\ handler[t].pc \in {"seek", "transfer", "close"} => handler[t].fd \in Fds
        /\ handler[t].path \in Names \/ handler[t].pc # "open"
    BY CallTyped DEF OwnInv, CoreInv, BlocksDistinct, HandlersRight
  <1> SUFFICES ASSUME ~ Quiet PROVE Does(t)
    BY DEF Does
  <1>1. ~ UNCHANGED vars
    BY <1>0, UnchangedIsQuiet
  <1>2. ~ Request(t)
    BY <1>1 DEF Request, Begin
  <1>3. CASE CallOpen(t)
    <2>1. PICK fd \in Results :
            /\ Fopen(handler[t].path, fd)
            /\ handler' = [handler EXCEPT ![t] = Opened(handler[t], fd)]
      BY <1>0, <1>3, OpenHandler
    <2>2. PICK n, pos : Opens(handler[t].path, fd, n, pos)
      BY <1>0, <1>1, <2>1, FopenOpens
    <2>3. fd # -1
      BY <1>0, <2>2, CallTyped DEF Opens
    <2>4. handler'[t].fd = fd
      BY <1>0, <2>1, <2>3 DEF Opened, Handlers
    <2> QED
      BY <1>3, <2>2, <2>4 DEF CallOpen, Does
  <1>4. CASE CallSeek(t)
    BY <1>0, <1>4, FseekQuiet, FuseAssumption DEF CallSeek
  <1>5. CASE CallTransfer(t)
    <2>1. 1 .. MaxBuffer \subseteq Nat
      BY GeometryAssumption
    <2>2. ~ Runs(t, "read")
      BY <1>0, <1>5, <2>1, FreadQuiet DEF CallTransfer, Runs
    <2>3. PICK buf, r : buf \in Buffers /\ Fwrite(handler[t].fd, buf, r)
      BY <1>5, <2>2 DEF CallTransfer
    <2>4. handler[t].fd \in Fds /\ Runs(t, "write")
      BY <1>0, <1>5, <2>2 DEF CallTransfer
    <2>5. \E n, end, k, ptrs, stored :
            Stores(n, handler[t].fd, buf, end, k, ptrs, stored)
      BY <1>0, <1>1, <2>3, <2>4, FwriteStores
    <2> QED
      BY <2>3, <2>4, <2>5 DEF Does
  <1>6. CASE CallClose(t)
    BY <1>0, <1>6, FcloseQuiet DEF CallClose
  <1>7. CASE CallRemove(t)
    BY <1>0, <1>1, <1>7, RemoveRemoves DEF CallRemove, Does
  <1>8. CASE CallNext(t)
    BY <1>0, <1>8, GetnextfilenameQuiet DEF CallNext
  <1> QED
    BY <1>2, <1>3, <1>4, <1>5, <1>6, <1>7, <1>8 DEF Step

\* An unlink and a truncation remove the file of their path, or clean a slot
\* that is free.
LEMMA RemovesOwn ==
  ASSUME NamesApart, OwnInv, NEW t \in Threads, handler[t].pc = "remove",
         NEW n \in Files, Matches(root[n].name, Removed(t))
  PROVE  /\ root[n].name \in {NoName, handler[t].path}
         /\ Runs(t, "truncate") => root[n].name = handler[t].path
  <1>1. handler[t].path \in Names /\ root[n].name \in Names \cup {NoName}
    BY CallTyped DEF OwnInv, CoreInv, TypeOK
  <1>2. Removed(t) \in {handler[t].path, Tail(handler[t].path)}
    BY DEF Removed
  <1>3. Runs(t, "truncate") => Removed(t) = handler[t].path
    BY DEF Runs, Removed
  <1>4. root[n].name = NoName /\ Runs(t, "truncate") => FALSE
    BY <1>1, <1>3, NamesAssumption DEF Matches
  <1>5. root[n].name \in Names => root[n].name = handler[t].path
    <2> DEFINE stored == root[n].name
               path == handler[t].path
    <2> SUFFICES ASSUME stored \in Names, stored # path PROVE FALSE
      OBVIOUS
    <2>1. /\ ~Seqs!IsPrefix(Tail(stored), path)
          /\ ~Seqs!IsPrefix(Tail(stored), Tail(path))
          /\ stored # Tail(path)
      BY <1>1 DEF NamesApart
    <2>2. stored = Removed(t) \/ Seqs!IsPrefix(Tail(stored), Removed(t))
      BY DEF Matches
    <2> QED
      BY <1>2, <2>1, <2>2
  <1> QED
    BY <1>1, <1>4, <1>5

LEMMA CoreOfOwn ==
  ASSUME OwnInv
  PROVE  /\ CoreInv /\ TypeOK /\ BlocksDistinct /\ DirectoryAgrees
         /\ HandlersRight /\ FdsOwned
         /\ handler \in [Threads -> Handlers]
         /\ \A t \in Threads : HandlerRight(handler[t])
         /\ table \in [Files -> Inodes] /\ root \in [Files -> Slots]
         /\ fdt \in [Fds -> Descriptors]
  BY DEF OwnInv, CoreInv, HandlersRight, TypeOK, Inodes, Slots, Descriptors

\* Only a write to a file, and nothing else, gives it a byte or a size.
LEMMA BlankKept ==
  ASSUME OwnInv, OwnInv', WritersOnOwnFile, FreeInodesClean,
         NEW t \in Threads, Does(t),
         NEW path \in Names, Blank(path),
         ~ (Runs(t, "write") /\ handler[t].path = path)
  PROVE  Blank(path)'
  <1>0. /\ CoreInv /\ BlocksDistinct' /\ DirectoryAgrees /\ TypeOK
        /\ table \in [Files -> Inodes] /\ root \in [Files -> Slots]
        /\ path # NoName /\ Closed \notin Files /\ -1 \notin Fds
    BY CoreOfOwn, NamesAssumption DEF OwnInv, CoreInv, Files, Closed, Fds
  <1> SUFFICES ASSUME NEW m \in Files, root'[m].name = path
               PROVE  /\ table'[m].size = 0
                      /\ \A p \in 0 .. Capacity - 1 : ByteAt(m, p)' = NUL
    BY DEF Blank
  <1>1. root[m].name = path =>
          table[m].size = 0 /\ \A p \in 0 .. Capacity - 1 : ByteAt(m, p) = NUL
    BY DEF Blank
  <1>2. CASE Quiet
    BY <1>1, <1>2 DEF Quiet, ByteAt
  <1>3. ASSUME NEW d, NEW n, NEW pos, Opens(handler[t].path, d, n, pos)
        PROVE  /\ table'[m].size = 0
               /\ \A p \in 0 .. Capacity - 1 : ByteAt(m, p)' = NUL
    <2>1. /\ table'[m].ptrs = table[m].ptrs /\ table'[m].size = table[m].size
          /\ blocks' = blocks
      BY <1>0, <1>3 DEF Opens, Inodes
    <2>2. \A p \in 0 .. Capacity - 1 : ByteAt(m, p)' = ByteAt(m, p)
      BY <2>1 DEF ByteAt
    <2>3. root[m].name = path \/ (m = n /\ table[n].taken = 0)
      BY <1>0, <1>3 DEF Opens
    <2>4. CASE table[m].taken = 0
      <3>1. table[m].ptrs = NoBlocks /\ table[m].size = 0
        BY <2>4 DEF FreeInodesClean, FreeInodes
      <3>2. \A p \in 0 .. Capacity - 1 : ByteAt(m, p) = NUL
        BY <3>1, Positions DEF ByteAt, NoBlocks
      <3> QED
        BY <2>1, <2>2, <3>1, <3>2
    <2> QED
      BY <1>1, <2>1, <2>2, <2>3, <2>4
  <1>4. ASSUME Runs(t, "write"), handler[t].fd \in Fds,
               NEW buf \in Buffers, NEW n, NEW end, NEW k, NEW ptrs, NEW stored,
               Stores(n, handler[t].fd, buf, end, k, ptrs, stored)
        PROVE  /\ table'[m].size = 0
               /\ \A p \in 0 .. Capacity - 1 : ByteAt(m, p)' = NUL
    <2>1. n \in Files /\ root[n].name = handler[t].path
      BY <1>0, <1>4 DEF Stores, WritersOnOwnFile, Holds
    <2>2. m # n /\ root[m].name = path /\ table'[m] = table[m]
      BY <1>4, <2>1 DEF Stores
    <2>3. Len(buf) \in Nat
      BY BufferTyped
    <2>4. \A p \in 0 .. Capacity - 1 : ByteAt(m, p)' = ByteAt(m, p)
      BY <1>0, <1>4, <2>2, <2>3, BytesStored
    <2> QED
      BY <1>1, <2>2, <2>4
  <1>5. ASSUME NEW file, NEW n, Removes(file, n)
        PROVE  /\ table'[m].size = 0
               /\ \A p \in 0 .. Capacity - 1 : ByteAt(m, p)' = NUL
    <2>1. m # n
      BY <1>0, <1>5 DEF Removes, FreeSlot
    <2>2. root[m].name = path /\ table'[m] = table[m]
      BY <1>0, <1>5, <2>1 DEF Removes
    <2>3. \A p \in 0 .. Capacity - 1 : ByteAt(m, p)' = ByteAt(m, p)
      BY <1>0, <1>5, <2>1, BytesRemoved
    <2> QED
      BY <1>1, <2>2, <2>3
  <1> QED
    BY <1>2, <1>3, <1>4, <1>5 DEF Does

\* A truncation removes the file, and what it makes of it again is empty.
LEMMA TruncationBlanks ==
  ASSUME NamesApart, OwnInv, OwnInv', FileInv, NEW t \in Threads, Step(t),
         Runs(t, "truncate"), NEW path, handler[t].path = path
  PROVE  Blank(path)'
  <1>0. /\ DirectoryAgrees /\ root \in [Files -> Slots] /\ path \in Names
        /\ path # NoName
        /\ handler[t].pc \in {"remove", "open", "close"}
    BY CoreOfOwn, NamesAssumption
       DEF Runs, HandlerRight, Transfers, Step, CallOpen, CallSeek, CallTransfer,
           CallClose, CallRemove, CallNext
  <1>1. CASE handler[t].pc \in {"open", "close"}
    <2>1. Blank(path)
      BY <1>1 DEF FileInv, Truncated
    <2> QED
      BY <1>0, <2>1, BlankKept, StepDoes DEF FileInv, Runs
  <1>2. CASE handler[t].pc = "remove"
    <2>1. PICK r : Remove(path, r)
      BY <1>2 DEF Step, CallOpen, CallSeek, CallTransfer, CallClose, CallRemove,
                  CallNext, Removed, Runs
    <2> DEFINE hits == {n \in Files : Matches(root[n].name, path)}
    <2>2. \A n \in hits : root[n].name = path
      BY <1>2, RemovesOwn DEF Runs, Removed
    <2>3. \A m \in Files : root'[m].name # path
      <3>1. CASE hits = {}
        <4>1. root' = root
          BY <2>1, <3>1 DEF Remove, vars
        <4> QED
          BY <3>1, <4>1 DEF Matches
      <3>2. CASE hits # {}
        <4> DEFINE n == Min(hits)
        <4>1. hits \in SUBSET Int /\ IsFiniteSet(hits)
          BY Finite, FS_Subset
        <4>2. n \in hits
          BY <3>2, <4>1, MinLeast
        <4>3. root' = [root EXCEPT ![n] = FreeSlot]
          BY <2>1, <3>2 DEF Remove
        <4>4. root[n].name = path /\ n \in Files
          BY <2>2, <4>2
        <4> HIDE DEF n, hits
        <4> QED
          BY <1>0, <4>3, <4>4 DEF DirectoryAgrees, FreeSlot
      <3> QED
        BY <3>1, <3>2
    <2> QED
      BY <2>3 DEF Blank
  <1> QED
    BY <1>0, <1>1, <1>2

LEMMA ApartStep ==
  ASSUME OwnInv, Apart, NEW t \in Threads, Request(t) \/ Step(t)
  PROVE  Apart'
  <1>0. /\ HandlersRight /\ handler \in [Threads -> Handlers]
        /\ \A u \in Threads : HandlerRight(handler[u])
        /\ \A u \in Threads : u # t => handler'[u] = handler[u]
    BY CoreOfOwn, HandlersStep
  <1>1. \A op, path, op2, path2 :
          Exclude(op, path, op2, path2) <=> Exclude(op2, path2, op, path)
    BY DEF Exclude
  <1> SUFFICES ASSUME NEW u \in Threads \ {t}
               PROVE  ~ Exclude(handler'[t].op, handler'[t].path,
                                handler[u].op, handler[u].path)
    BY <1>0, <1>1 DEF Apart
  <1>2. CASE handler'[t] = Idle
    <2>1. NoName \notin Names /\ (handler[u].op = "unlink" => handler[u].path \in Names)
      BY <1>0, NamesAssumption DEF HandlerRight
    <2> QED
      BY <1>2, <2>1 DEF Idle, Exclude
  <1>3. CASE Step(t) /\ handler'[t] # Idle
    BY <1>0, <1>3, RequestKept DEF Apart
  <1>4. CASE Request(t)
    BY <1>0, <1>4 DEF Request, Begin
  <1> QED
    BY <1>2, <1>3, <1>4

LEMMA WritersStep ==
  ASSUME NamesApart, OwnInv, OwnInv', FileInv, NEW t \in Threads,
         Request(t) \/ Step(t)
  PROVE  WritersOnOwnFile'
  <1>0. /\ HandlersRight /\ FdsOwned /\ FdsOwned' /\ DirectoryAgrees
        /\ handler \in [Threads -> Handlers] /\ handler' \in [Threads -> Handlers]
        /\ \A u \in Threads : HandlerRight(handler[u]) /\ HandlerRight(handler'[u])
        /\ root \in [Files -> Slots] /\ fdt \in [Fds -> Descriptors]
        /\ \A u \in Threads : u # t => handler'[u] = handler[u]
        /\ Closed \notin Files /\ -1 \notin Fds
        /\ NoName \notin Names
    BY CoreOfOwn, HandlersStep, CallTyped, NamesAssumption
       DEF Files, Closed, OwnInv, HandlersRight
  <1> SUFFICES ASSUME NEW u \in Threads, handler'[u].op = "write", handler'[u].fd # -1
               PROVE  root'[fdt'[handler'[u].fd].inode].name = handler'[u].path
    BY DEF WritersOnOwnFile, Runs, Holds
  <1> DEFINE fd == handler[u].fd
             m == fdt[fd].inode
  <1>1. u = t => ~ Request(t)
    BY <1>0 DEF Request, Begin, Idle
  <1>2. handler[u].op = "write" /\ handler'[u].path = handler[u].path
    BY <1>0, <1>1, RequestKept DEF Idle
  <1>3. CASE fd # -1
    <2>1. handler'[u].fd = fd
      <3>1. CASE u # t
        BY <1>0, <3>1
      <3>2. CASE u = t
        <4>1. handler[t].pc \in {"seek", "transfer", "close"}
          BY <1>0, <1>3, <3>2 DEF HandlerRight
        <4>2. Step(t) /\ (CallSeek(t) \/ CallTransfer(t) \/ CallClose(t))
          BY <1>1, <3>2, <4>1 DEF Step, CallOpen, CallRemove, CallNext
        <4>3. ~ Returns(t)
          BY <1>0, <3>2 DEF Returns, Idle
        <4>4. \E there : Calls(t, there)
          BY <4>2, <4>3 DEF CallSeek, CallTransfer, CallClose
        <4> QED
          BY <1>0, <3>2, <4>4 DEF Calls
      <3> QED
        BY <3>1, <3>2
    <2>2. fd \in Fds /\ m # Closed /\ fdt'[fd].inode # Closed
      BY <1>0, <1>3, <2>1 DEF FdsOwned, Handlers
    <2>3. m \in Files /\ root[m].name = handler[u].path /\ handler[u].path \in Names
      BY <1>0, <1>2, <1>3, <2>2
         DEF FileInv, WritersOnOwnFile, Runs, Holds, HandlerRight, Descriptors
    <2> SUFFICES fdt'[fd].inode = m /\ root'[m].name = handler[u].path
      BY <1>2, <2>1
    <2>4. CASE Quiet
      BY <1>0, <2>2, <2>3, <2>4, QuietDescriptors, CoreOfOwn DEF Quiet
    <2>5. ASSUME NEW d, NEW n, NEW pos, Opens(handler[t].path, d, n, pos)
          PROVE  fdt'[fd].inode = m /\ root'[m].name = handler[u].path
      <3>1. d # fd /\ fdt'[fd] = fdt[fd]
        BY <1>0, <2>2, <2>5 DEF Opens
      <3>2. table[m].taken = 1
        BY <1>0, <2>3 DEF DirectoryAgrees
      <3>3. m = n => root[n].name = handler[t].path
        BY <2>5, <3>2 DEF Opens
      <3> QED
        BY <1>0, <2>3, <2>5, <3>1, <3>3 DEF Opens
    <2>6. ASSUME NEW e, NEW buf, NEW n, NEW end, NEW k, NEW ptrs, NEW stored,
                 Stores(n, e, buf, end, k, ptrs, stored)
          PROVE  fdt'[fd].inode = m /\ root'[m].name = handler[u].path
      BY <2>2, <2>3, <2>6, CoreOfOwn, RwptrOnly DEF Stores
    <2>7. ASSUME handler[t].pc = "remove", NEW n, Removes(Removed(t), n)
          PROVE  fdt'[fd].inode = m /\ root'[m].name = handler[u].path
      <3>1. n \in Files /\ root[n].name \in {NoName, handler[t].path}
        BY <2>7, RemovesOwn DEF Removes
      <3>2. u # t /\ handler[t].op \in {"unlink", "truncate"}
        BY <1>0, <1>2, <2>7 DEF HandlerRight
      <3>3. handler[t].path # handler[u].path
        BY <1>2, <3>2 DEF FileInv, Apart, Exclude
      <3>4. n # m
        BY <1>0, <2>3, <3>1, <3>3
      <3> QED
        BY <1>0, <2>2, <2>3, <2>7, <3>4 DEF Removes
    <2> QED
      BY <2>4, <2>5, <2>6, <2>7, StepDoes DEF Does
  <1>4. CASE fd = -1
    <2>1. u = t /\ Step(t)
      BY <1>0, <1>1, <1>4
    <2>2. handler[t].pc = "open"
      BY <1>0, <1>2, <1>4, <2>1
         DEF HandlerRight, Idle, Transfers, Step, CallOpen, CallSeek, CallTransfer,
             CallClose, CallRemove, CallNext
    <2>3. CallOpen(t)
      BY <2>1, <2>2 DEF Step, CallSeek, CallTransfer, CallClose, CallRemove, CallNext
    <2>4. PICK d \in Results :
            /\ Fopen(handler[t].path, d)
            /\ handler' = [handler EXCEPT ![t] = Opened(handler[t], d)]
      BY <1>0, <2>3, OpenHandler
    <2>5. d # -1 /\ handler'[t].fd = d
      BY <1>0, <2>1, <2>4 DEF Opened, Idle, Handlers
    <2>6. ~ UNCHANGED vars
      <3>1. d \in FreeFds
        BY <2>4, <2>5, FopenResult
      <3>2. fdt'[d].inode # Closed
        BY <1>0, <2>1, <2>5, <3>1 DEF FdsOwned, FreeFds
      <3> QED
        BY <3>1, <3>2 DEF vars, FreeFds
    <2>7. PICK n, pos : Opens(handler[t].path, d, n, pos)
      BY <2>4, <2>6, CoreOfOwn, FopenOpens
    <2>8. fdt'[d].inode = n /\ root'[n].name = handler[t].path
      BY <1>0, <2>7 DEF Opens
    <2> QED
      BY <1>2, <2>1, <2>5, <2>8
  <1> QED
    BY <1>3, <1>4

LEMMA CleanStep ==
  ASSUME OwnInv, FileInv, NEW t \in Threads, Request(t) \/ Step(t)
  PROVE  FreeInodesClean'
  <1>0. /\ FreeInodesClean /\ WritersOnOwnFile /\ DirectoryAgrees
        /\ table \in [Files -> Inodes] /\ HandlerRight(handler[t])
        /\ NoName \notin Names /\ -1 \notin Fds
    BY CoreOfOwn, CallTyped, NamesAssumption DEF FileInv
  <1> SUFFICES ASSUME NEW m \in Files, table'[m].taken = 0
               PROVE  table'[m].ptrs = NoBlocks /\ table'[m].size = 0
    BY DEF FreeInodesClean, FreeInodes
  <1>1. table[m].taken = 0 => table[m].ptrs = NoBlocks /\ table[m].size = 0
    BY <1>0 DEF FreeInodesClean, FreeInodes
  <1>2. CASE Quiet
    BY <1>1, <1>2 DEF Quiet
  <1>3. ASSUME NEW name, NEW d, NEW n, NEW pos, Opens(name, d, n, pos)
        PROVE  table'[m].ptrs = NoBlocks /\ table'[m].size = 0
    <2>1. m # n /\ table'[m] = table[m]
      BY <1>0, <1>3 DEF Opens, Inodes
    <2> QED
      BY <1>1, <2>1
  <1>4. ASSUME Runs(t, "write"), handler[t].fd \in Fds,
               NEW buf, NEW n, NEW end, NEW k, NEW ptrs, NEW stored,
               Stores(n, handler[t].fd, buf, end, k, ptrs, stored)
        PROVE  table'[m].ptrs = NoBlocks /\ table'[m].size = 0
    <2>1. n \in Files /\ root[n].name \in Names
      BY <1>0, <1>4 DEF Stores, WritersOnOwnFile, Holds, Runs, HandlerRight
    <2>2. table[n].taken = 1
      BY <1>0, <2>1 DEF DirectoryAgrees
    <2>3. m # n
      <3>1. table'[n].taken = table[n].taken
        BY <1>4 DEF Stores
      <3> QED
        BY <2>2, <3>1
    <2>4. table'[m] = table[m]
      BY <1>4, <2>3 DEF Stores
    <2> QED
      BY <1>1, <2>3, <2>4
  <1>5. ASSUME NEW file, NEW n, Removes(file, n)
        PROVE  table'[m].ptrs = NoBlocks /\ table'[m].size = 0
    <2>1. m # n => table'[m] = table[m]
      BY <1>0, <1>5 DEF Removes
    <2>2. m = n => table'[m] = CleanInode(table[m])
      BY <1>0, <1>5 DEF Removes
    <2>3. table[m].taken \in {0, 1}
      BY <1>0 DEF Inodes
    <2> QED
      BY <1>1, <2>1, <2>2, <2>3 DEF CleanInode
  <1> QED
    BY <1>2, <1>3, <1>4, <1>5, StepDoes DEF Does

LEMMA TruncatedStep ==
  ASSUME NamesApart, OwnInv, OwnInv', FileInv, NEW t \in Threads,
         Request(t) \/ Step(t)
  PROVE  Truncated'
  <1>0. /\ HandlersRight /\ HandlersRight' /\ handler \in [Threads -> Handlers]
        /\ \A u \in Threads : HandlerRight(handler[u])
        /\ \A u \in Threads : u # t => handler'[u] = handler[u]
    BY CoreOfOwn, HandlersStep
  <1> SUFFICES ASSUME NEW u \in Threads, handler'[u].op = "truncate",
                      handler'[u].pc \in {"open", "close"},
                      NEW path, path = handler'[u].path
               PROVE  Blank(path)'
    BY DEF Truncated, Runs
  <1>1. CASE u # t
    <2>1. handler[u].op = "truncate" /\ handler[u].path = path /\ Blank(path)
      BY <1>0, <1>1 DEF FileInv, Truncated, Runs
    <2>2. path \in Names
      BY <1>0, <2>1 DEF HandlerRight
    <2>3. ~ (Runs(t, "write") /\ handler[t].path = path)
      BY <1>1, <2>1 DEF FileInv, Apart, Exclude, Runs
    <2> QED
      BY <2>1, <2>2, <2>3, BlankKept, StepDoes DEF FileInv
  <1>2. CASE u = t
    <2>1. Step(t)
      BY <1>0, <1>2 DEF Request, Begin, Start
    <2>2. handler[t].op = "truncate" /\ handler[t].path = path
      BY <1>0, <1>2, <2>1, RequestKept DEF Idle
    <2> QED
      BY <2>1, <2>2, TruncationBlanks DEF Runs
  <1> QED
    BY <1>1, <1>2

LEMMA FileInit == FuseInit => FileInv
  <1> SUFFICES ASSUME FuseInit PROVE FileInv
    OBVIOUS
  <1>1. \A t \in Threads : handler[t] = Idle
    BY DEF FuseInit
  <1>2. Apart
    BY <1>1 DEF Apart, Exclude, Idle
  <1>3. WritersOnOwnFile /\ Truncated
    BY <1>1 DEF WritersOnOwnFile, Truncated, Runs, Idle
  <1>4. FreeInodesClean
    BY DEF FuseInit, Init, FreeInodesClean, FreeInodes
  <1> QED
    BY <1>2, <1>3, <1>4 DEF FileInv

LEMMA FileStep ==
  NamesApart /\ OwnInv /\ FileInv /\ OwnInv' /\ [FuseNext]_fuseVars => FileInv'
  <1> SUFFICES ASSUME NamesApart, OwnInv, FileInv, OwnInv', [FuseNext]_fuseVars
               PROVE  FileInv'
    OBVIOUS
  <1>1. CASE UNCHANGED fuseVars
    <2>1. UNCHANGED <<handler, table, root, blocks, fdt>>
      BY <1>1 DEF fuseVars, vars
    <2>2. Apart' /\ WritersOnOwnFile' /\ FreeInodesClean'
      BY <2>1 DEF FileInv, Apart, WritersOnOwnFile, FreeInodesClean, FreeInodes,
                  Runs, Holds
    <2>3. ASSUME NEW path, Blank(path) PROVE Blank(path)'
      BY <2>1, <2>3 DEF Blank, ByteAt
    <2> QED
      BY <2>1, <2>2, <2>3 DEF FileInv, Truncated, Runs
  <1>2. ASSUME NEW t \in Threads, Request(t) \/ Step(t)
        PROVE  FileInv'
    BY <1>2, ApartStep, WritersStep, CleanStep, TruncatedStep DEF FileInv
  <1> QED
    BY <1>1, <1>2 DEF FuseNext

LEMMA FileCorrect == NamesApart /\ FuseSpec => [](NamesApart /\ OwnInv /\ FileInv)
  <1>1. NamesApart => NamesApart'
    BY DEF NamesApart
  <1> QED
    BY <1>1, FileInit, FileStep, OwnCorrect, PTL DEF FuseSpec

\* When no name begins another, a handler writes to the file of its path,
\* whatever other handlers create, truncate and unlink meanwhile.
THEOREM WritersCorrect == NamesApart /\ FuseSpec => []WritersOnOwnFile
  BY FileCorrect, PTL DEF FileInv

LEMMA BlankIsEmpty ==
  ASSUME NEW path, Blank(path)
  PROVE  FileSize(path) = 0
  <1>1. CASE Named(path) = {}
    BY <1>1 DEF FileSize
  <1>2. CASE Named(path) # {}
    <2> DEFINE n == Min(Named(path))
    <2>1. n \in Files /\ root[n].name = path
      BY <1>2, NamedFile
    <2>2. table[n].size = 0 /\ {p \in 0 .. Capacity - 1 : ByteAt(n, p) # NUL} = {}
      BY <2>1 DEF Blank
    <2>3. FileSize(path) = 0 + 0
      BY <1>2, <2>2, FS_EmptySet DEF FileSize
    <2> QED
      BY <2>3
  <1> QED
    BY <1>1, <1>2

LEMMA BlankIsEmptyNext ==
  \A path \in Names : Blank(path)' => FileSize(path)' = 0
  <1>1. \A path \in Names : Blank(path) => FileSize(path) = 0
    BY BlankIsEmpty
  <1>2. (\A path \in Names : Blank(path) => FileSize(path) = 0)'
    BY <1>1, PTL
  <1> QED
    BY <1>2

\* When no name begins another, a truncation leaves an empty file or none,
\* although others may create the file again while it runs.
THEOREM TruncationsCorrect == NamesApart /\ FuseSpec => TruncateEmpties
  <1> DEFINE Empties ==
        \A t \in Threads, path \in Names :
          Runs(t, "truncate") /\ handler[t].path = path /\ handler'[t] = Idle =>
            FileSize(path)' = 0
  <1>1. ASSUME NamesApart, OwnInv, OwnInv', FileInv, [FuseNext]_fuseVars
        PROVE  Empties
    <2> SUFFICES ASSUME NEW t \in Threads, NEW path \in Names, Runs(t, "truncate"),
                        handler[t].path = path, handler'[t] = Idle
                 PROVE  FileSize(path)' = 0
      OBVIOUS
    <2>0. HandlersRight /\ handler'[t] # handler[t]
      BY <1>1, CoreOfOwn DEF Runs, Idle
    <2>1. Step(t)
      <3>1. PICK u \in Threads : Request(u) \/ Step(u)
        BY <1>1, <2>0 DEF FuseNext, fuseVars
      <3>2. u = t
        BY <2>0, <3>1, HandlersStep
      <3> QED
        BY <3>1, <3>2 DEF Request, Begin, Runs
    <2>2. Blank(path)'
      BY <1>1, <2>1, TruncationBlanks
    <2> QED
      BY <2>2, BlankIsEmptyNext
  <1>2. NamesApart /\ OwnInv /\ OwnInv' /\ FileInv /\ [FuseNext]_fuseVars
          => [Empties]_fuseVars
    BY <1>1
  <1>3. TruncateEmpties <=> [][Empties]_fuseVars
    BY DEF TruncateEmpties
  <1> QED
    BY <1>2, <1>3, FileCorrect, PTL DEF FuseSpec
=============================================================================

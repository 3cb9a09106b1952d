-------------------------------- MODULE Fuse --------------------------------
(***************************************************************************)
(* fuse_wrappers.c: the handlers that FUSE calls, each a sequence of calls *)
(* of the library.  FUSE runs handlers in several threads, and neither the *)
(* wrappers nor the library take a lock, so handlers interleave at least   *)
(* between their calls; a call itself is one step here, as in Sfs.         *)
(*                                                                         *)
(* What the handlers return is left out, but for what they do because of   *)
(* it.  fuse_create makes the calls of fuse_open, and fuse_getattr asks    *)
(* for a size and changes nothing: both are left out too.                  *)
(***************************************************************************)
EXTENDS Sfs

CONSTANTS
  Threads,   \* the threads of FUSE
  Locations  \* the offsets of reads and writes

ASSUME FuseAssumption ==
  /\ Locations \subseteq Int
  /\ \A name \in Names : name[1] = "/"

VARIABLES
  handler,    \* of each thread: what it runs, on which path, the next call
  abandoned,  \* history: the descriptors of handlers that gave up
  listing     \* history: of each thread, what it listed and whether alone

fuseVars == <<vars, handler, abandoned, listing>>

Idle == [op |-> "none", path |-> NoName, pc |-> "done", fd |-> -1]
NoListing == [seen |-> <<>>, alone |-> TRUE]
Disturbed == [seen |-> <<>>, alone |-> FALSE]

FuseInit ==
  /\ Init
  /\ handler = [t \in Threads |-> Idle]
  /\ abandoned = {}
  /\ listing = [t \in Threads |-> NoListing]

Runs(t, op) == handler[t].op = op

Calls(t, there) == handler' = [handler EXCEPT ![t].pc = there]
Returns(t) == handler' = [handler EXCEPT ![t] = Idle]

\* A step of t that changes the directory or the cursor disturbs the listings
\* of the other threads.
Disturbs(t, own) ==
  listing' = [u \in Threads |->
                IF u = t THEN own
                ELSE IF Runs(u, "readdir") THEN Disturbed ELSE listing[u]]
-----------------------------------------------------------------------------
(* The kernel and the FUSE library decide which handlers run together.     *)

\* Two requests that never run at the same time: a file is unlinked only when
\* nothing else uses it, a file has one writer, which a truncation counts for,
\* and a directory is not listed while a file is unlinked from it.
Exclude(op, path, op2, path2) ==
  \/ path = path2 /\ "unlink" \in {op, op2}
  \/ path = path2 /\ {op, op2} \subseteq {"write", "truncate"}
  \/ {op, op2} \in {{"unlink"}, {"unlink", "readdir"}}

\* Variant of Start: a truncation only opens the file.
StartOpens == [readdir |-> "list", unlink |-> "remove", truncate |-> "open",
               open |-> "open", read |-> "open", write |-> "open"]

\* The first call of each handler.
Start == [readdir |-> "list", unlink |-> "remove", truncate |-> "remove",
          open |-> "open", read |-> "open", write |-> "open"]

Begin(t, op, path) ==
  /\ Runs(t, "none")
  /\ \A u \in Threads \ {t} :
       ~Exclude(op, path, handler[u].op, handler[u].path)
  /\ handler' = [handler EXCEPT
                   ![t] = [op |-> op, path |-> path, pc |-> Start[op], fd |-> -1]]
  /\ listing' = [listing EXCEPT
                   ![t] = IF op = "readdir" /\ \E u \in Threads : Runs(u, op)
                          THEN Disturbed ELSE NoListing]
  /\ UNCHANGED <<vars, abandoned>>

Request(t) ==
  \/ Begin(t, "readdir", <<"/">>)
  \/ \E op \in DOMAIN Start \ {"readdir"}, path \in Names : Begin(t, op, path)
-----------------------------------------------------------------------------
(* The calls. *)

\* Without a descriptor a handler is done; fuse_truncate closes -1, which does
\* nothing.
CallOpen(t) ==
  /\ handler[t].pc = "open"
  /\ \E fd \in Results :
       /\ Fopen(handler[t].path, fd)
       /\ IF fd = -1
          THEN Returns(t)
          ELSE handler' = [handler EXCEPT
                 ![t].fd = fd,
                 ![t].pc = IF handler[t].op \in {"read", "write"}
                           THEN "seek" ELSE "close"]
  /\ IF root' = root THEN UNCHANGED listing ELSE Disturbs(t, NoListing)
  /\ UNCHANGED abandoned

\* An offset that sfs_fseek refuses ends the handler with the file open.
CallSeek(t) ==
  /\ handler[t].pc = "seek"
  /\ \E loc \in Locations, r \in {-1, 0} :
       /\ Fseek(handler[t].fd, loc, r)
       /\ IF r = -1
          THEN Returns(t) /\ abandoned' = abandoned \cup {handler[t].fd}
          ELSE Calls(t, "transfer") /\ UNCHANGED abandoned
  /\ UNCHANGED listing

\* Variant of CallTransfer: a handler that wrote nothing returns at once.
CallTransferOrReturn(t) ==
  /\ handler[t].pc = "transfer"
  /\ \/ /\ Runs(t, "read")
        /\ \E length \in 1 .. MaxBuffer : \E k \in 0 .. length :
             \E out \in [1 .. k -> Bytes], r \in 0 .. length :
               Fread(handler[t].fd, length, out, r)
        /\ Calls(t, "close")
     \/ /\ Runs(t, "write")
        /\ \E buf \in Buffers : \E r \in 0 .. Len(buf) :
             /\ Fwrite(handler[t].fd, buf, r)
             /\ IF r = 0 THEN Returns(t) ELSE Calls(t, "close")
  /\ UNCHANGED <<abandoned, listing>>

CallTransfer(t) ==
  /\ handler[t].pc = "transfer"
  /\ \/ /\ Runs(t, "read")
        /\ \E length \in 1 .. MaxBuffer : \E k \in 0 .. length :
             \E out \in [1 .. k -> Bytes], r \in 0 .. length :
               Fread(handler[t].fd, length, out, r)
     \/ /\ Runs(t, "write")
        /\ \E buf \in Buffers : \E r \in 0 .. Len(buf) :
             Fwrite(handler[t].fd, buf, r)
  /\ Calls(t, "close")
  /\ UNCHANGED <<abandoned, listing>>

CallClose(t) ==
  /\ handler[t].pc = "close"
  /\ \E r \in {-1, 0} : Fclose(handler[t].fd, r)
  /\ Returns(t)
  /\ UNCHANGED <<abandoned, listing>>

\* fuse_unlink leaves out the slash, fuse_truncate does not.
Removed(t) ==
  IF Runs(t, "unlink") THEN Tail(handler[t].path) ELSE handler[t].path

\* sfs_remove returns a descriptor of the file it has removed, or -1: only when
\* another handler has the file open does fuse_truncate create it again.
CallRemove(t) ==
  /\ handler[t].pc = "remove"
  /\ \E r \in Results :
       /\ Remove(Removed(t), r)
       /\ IF Runs(t, "truncate") /\ r # -1 THEN Calls(t, "open") ELSE Returns(t)
  /\ Disturbs(t, NoListing)
  /\ UNCHANGED abandoned

\* The loop of fuse_readdir, up to the call that finds no more files.
CallNext(t) ==
  /\ handler[t].pc = "list"
  /\ \E name \in Names \cup {NoName}, r \in {0, 1} :
       /\ Getnextfilename(name, r)
       /\ IF r = 0
          THEN Returns(t) /\ Disturbs(t, NoListing)
          ELSE /\ Disturbs(t, IF listing[t].alone
                              THEN [listing[t] EXCEPT !.seen = Append(@, name)]
                              ELSE Disturbed)
               /\ UNCHANGED handler
  /\ UNCHANGED abandoned

Step(t) ==
  \/ CallOpen(t) \/ CallSeek(t) \/ CallTransfer(t) \/ CallClose(t)
  \/ CallRemove(t) \/ CallNext(t)

FuseNext == \E t \in Threads : Request(t) \/ Step(t)

\* Every thread that runs a handler makes its next call in the end; nobody has
\* to send a request.
FuseSpec ==
  /\ FuseInit
  /\ [][FuseNext]_fuseVars
  /\ \A t \in Threads : WF_fuseVars(Step(t))
-----------------------------------------------------------------------------
(* Properties. *)

Holds(t) == handler[t].fd # -1

\* The open descriptors are those that running handlers hold and those of the
\* handlers that gave up at an offset: one each, and none that nobody holds.
\* No other sequence of calls leaks a descriptor or closes another thread's.
DescriptorsOwned ==
  /\ {d \in Fds : fdt[d].inode # Closed}
       = {handler[t].fd : t \in {u \in Threads : Holds(u)}} \cup abandoned
  /\ \A t, u \in Threads : Holds(t) =>
       /\ handler[t].fd \notin abandoned
       /\ handler[u].fd = handler[t].fd => u = t

\* sfs_remove compares a stored name only as far as it goes, so that removing
\* "/ab" removes "/a" when its slot comes first.  That no name begins another is
\* a condition on the clients, without which handlers lose the files they are
\* writing; MCFuse has it checked for its names.
NamesApart ==
  \A a, b \in Names : a # b =>
    /\ ~Seqs!IsPrefix(Tail(a), b) /\ ~Seqs!IsPrefix(Tail(a), Tail(b))
    /\ a # Tail(b)

\* A handler writes to the file it was asked to write to: while it runs its
\* descriptor stays on that file, whatever other threads create and remove.
WritersOnOwnFile ==
  \A t \in Threads : Runs(t, "write") /\ Holds(t) =>
    root[fdt[handler[t].fd].inode].name = handler[t].path

\* The cursor is shared by all listings.  When the last one ends it is back at
\* the start, so that no listing ever begins in the middle.
CursorRests == (\A t \in Threads : ~Runs(t, "readdir")) => current_file = 0

\* A listing that overlaps no other, and during which no file comes or goes,
\* returns every file once.
ListingComplete ==
  [][\A t \in Threads :
       Runs(t, "readdir") /\ handler'[t] = Idle /\ listing[t].alone =>
         LET seen == listing[t].seen IN
         /\ Len(seen) = Cardinality(Listed)
         /\ {seen[k] : k \in DOMAIN seen} = {root[n].name : n \in Listed}]_fuseVars

\* When a truncation returns, the file is of size 0 for the next fuse_getattr
\* and reads as empty, although the handler mistakes what sfs_remove returns.
TruncateEmpties ==
  [][\A t \in Threads, path \in Names :
       Runs(t, "truncate") /\ handler[t].path = path /\ handler'[t] = Idle =>
         FileSize(path)' = 0]_fuseVars

\* Once requests stop, every handler returns: no two listings keep each other
\* going by resetting the cursor.
HandlersReturn ==
  <>[][~ \E t \in Threads : Request(t)]_fuseVars
    => <>[](\A t \in Threads : Runs(t, "none"))
=============================================================================

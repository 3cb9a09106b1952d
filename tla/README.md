# A TLA+ verification of COMP-310-McGill

The repository holds three C programs written for an operating systems course:
a print server with its clients (`COMP310Assignment2`), a file system in user
space (`COMP310FileSystem`) and a shell (`COMP310Assignment1`). This directory
holds TLA+ modules translated from them, TLC configurations that check the
modules on small instances, and proofs checked by TLAPS.

To check everything by hand: `tlc -config X.cfg M` for the pairs in the table
of runs below, and `tlapm M.tla` for the modules whose name ends in `Proof`.
`PROJECT.json` records, for each definition, the lines of C it stands for.

## 1. Inventory

### Print server (`printer.c`, `client.c`, `common.h`)

One printer process and any number of client processes share a POSIX shared
memory object: three semaphores (`binary`, `empty`, `full`), a circular array
of slots `arr`, and the counters `number` (where the next client starts to look
for a free slot), `num` (the next ticket, counted downwards), `data` (the
ticket the printer serves next) and `current` (served jobs modulo the length).

* Client: wait for `empty`, wait for `binary`, walk from `number` to a free
  slot, fill it, advance `number` and `num`, post `binary`, post `full`, exit.
* Printer: wait for `full`, wait for `binary`, walk from slot 0 to the slot that
  is occupied and has the ticket `data`, copy and clear it, post `binary`, post
  `empty`, print (a sleep of a second a page), advance `current` and `data`.
* Start of the printer: print "Waiting for clients.", create the memory,
  initialise the semaphores and counters one by one, clear the slots.

Hard: interleavings of the processes between any two semaphore calls; two loops
without a bound that run with the lock held; tickets that wrap; a start that
races with clients; the printer killed and started again. Correct means: mutual
exclusion, semaphores that agree with the buffer, loops that end, no deadlock,
jobs printed in order and none lost, every client returns.

### File system library (`sfs_api.c`, over `disk_emu.c`)

Global state: the inode table `table`, the directory `root` (slot n - 1 belongs
to inode n), the descriptors `fdt`, the bitmap `free_blocks`, the cursor
`current_file`; copies of table, directory and bitmap on the emulated disk next
to the data blocks. Operations: `mksfs`, `sfs_fopen`, `sfs_fclose`, `sfs_fseek`,
`sfs_fread`, `sfs_fwrite`, `sfs_remove`, `sfs_getfilesize`,
`sfs_getnextfilename`. Hard: long sequences of legal calls that reuse inodes,
slots, blocks and descriptors; the disk filling up within a write; the
arithmetic of the bitmap; removal of open files; re-initialisation from disk.
Correct means: a block belongs to one file; directory and inodes agree; a call
on one file leaves the others alone; a new file is empty; removing gives the
blocks back.

### FUSE wrappers (`fuse_wrappers.c`)

Each handler is a sequence of library calls (`fuse_write` is open, seek, write,
close). They keep no state. FUSE calls handlers from several threads and nothing
locks. Hard: calls of two handlers interleaved, error paths that skip the close,
the return value of `sfs_remove`, the one cursor that all listings share. Correct
means: descriptors are closed by whoever opened them, a handler stays on its
file, listings are complete, truncated files are empty, handlers return.

### Shell (`oscode.c`)

A read-fork-wait loop with a list of commands (recall by number, `history`
shows the last ten), a table `array_jobs` of 1000 background jobs (`jobs`, `fg`),
`cd`, `pwd`, redirection and one pipe. Hard: children that end at any time, four
places that wait for them, the job table addressed modulo 1000, the numbering of
commands computed in two places. Correct means: the table lists children of the
shell and all that should be there, no child of the foreground is left behind,
a failure that is reported reaches the command it belongs to, the prompt comes
back.

## 2. Modules

| Module | What it is |
|---|---|
| `PrintQueue` | Abstract: one bounded queue, one printer that serves the oldest job |
| `PrintServer` | The processes of the print server, one step per semaphore call and per probe of a slot; shown to implement `PrintQueue` |
| `PrinterStartup` | Extends `PrintServer` with the printer's steps before its loop, clients already running |
| `PrinterRestart` | Extends `PrinterStartup` with a printer that is killed at any step and started again |
| `PrintServerProof`, `PrinterRestartProof` | The TLAPS proofs about `PrintServer` and `PrinterRestart` |
| `FileStore` | Abstract: named arrays of bytes and handles with positions |
| `Sfs` | The library after `mksfs(1)`, one action per call; shown to implement `FileStore` for tidy clients |
| `SfsProof`, `SfsDiskProof`, `FuseProof` | The TLAPS proofs about `Sfs`, `SfsDisk` and `Fuse` |
| `SfsDisk` | Extends `Sfs` with the tables on the disk and further calls of `mksfs` |
| `Fuse` | Extends `Sfs` with threads that run the handlers of the wrappers |
| `Shell` | The shell, its children and the kernel's view of them |
| `ShellProof` | The TLAPS proofs about `Shell` |
| `MCPrintServer`, `MCPrinterStartup`, `MCPrinterRestart`, `MCSfs`, `MCSfsDisk`, `MCFuse`, `MCShell` | Sets of clients, names, threads and pids for TLC |

The three programs do not interact with each other. Inside the print server the
processes share memory; the wrappers call the library, and the library the
emulated disk, which is why `Fuse` and `SfsDisk` extend `Sfs` and reuse its
actions call by call.

Definitions whose comment starts with "Variant of", and the operators named
like their neighbour with a suffix (`FreedMirrored`, `FreedBelow`, ...), are
plausible mistakes in that neighbour. No specification uses them; they show
that each property can fail (`mutants` in `PROJECT.json`).

### PrintServer

`empty`, `full`, `binary`, `number`, `num`, `data` and `current` are the fields
of `Shared`. A slot is a record of its fields 0 (`time`), 1 (`pages`), 2 (`id`)
and 4 (`num`); field 3 only records the `waiting` value a client read and is
left out together with the `sem_getvalue` it comes from, which decides on a
message and a sleep. `pc`, `pages` and `j` are a client's control point,
argument and loop index; `ppc`, `i` and `job` the printer's. The locals of a
process are reset when they are dead, which keeps the state space small and
takes nothing away.

`num` and `data` are C ints counted downwards for ever. The model takes them
modulo `IntSpan`; the theorems need only `IntSpan >= Length`. That signed
overflow wraps is a fact of the builds, not of the C standard.

Two assumptions are made of callers: clients have different ids (a client id is
one process at a time and may be launched again and again), and page counts are
not negative. A negative count would make a filled slot look free.

### PrinterStartup

The same state, begun before `init_shared_memory`. The memory is new, so it is
zero; a slot of zeros reads as occupied (time 0), which is what keeps a client
that comes in early spinning until the slot has been cleared. The clearing loop
is two steps a slot: the store of `time`, which makes the slot free, and the
others. When a client fills the slot between them, each of the other fields
keeps either value, since the stores of the two processes are not ordered.

A client that calls `sem_wait` on `empty` before its `sem_init` waits on the
value 0 and may be asleep when `sem_init` comes. The C library counts sleepers in
the semaphore, and `sem_init` sets the count to 0: it wakes nobody, later posts
may believe that nobody sleeps, and a client that does sleep may never wake, or
wake on a post meant for another. `forgetful` says that `empty` may be in that
condition. `InitEmpty` may set it only when a client is at that wait, and may
leave it unset, since such a client may not have gone to sleep yet. A step of a
forgotten client stays possible and is never relied on.

### Sfs

`table`, `root`, `fdt`, `current_file` are the C globals without the fields
nobody reads, `used` is the set of bits of `free_blocks` that are set, `blocks`
the data blocks on the disk. The twelve direct and 512 indirect pointers are one
array, as the code treats both alike. A data block is named by its distance
from the first one; 0 is the root's block and stands for "no block" in a
pointer, since the code uses 0 for that and block 0 is never allocated. Names
are sequences of characters because the comparison in `sfs_remove` looks at
them. The result of a call is a parameter of its action; `out` is what
`sfs_fread` stored.

Calls are atomic: the library is sequential. Names are neither empty nor longer
than 20 characters (`sfs_fopen` refuses the latter without changing anything).
Descriptors passed by clients are in the range `sfs_fopen` returns.

`sfs_remove` computes the word and bit of a block from a negative number for all
blocks but those of the first word (`Freed`). When the remainder is 0, it clears
a bit *before* the array (`BeforeBitmap`). For the second word that memory is
the position of the last descriptor when the linker keeps the order of the
globals, and `Strayed` lets its lowest bit be cleared or not; words further on
(descriptor inodes, the directory) are not modelled, so `Words` is at most 2 in
the runs.

`TidySpec` restricts clients to those that do not remove a file they have open.

### PrinterRestart

`Kill` ends the printer at any step and leaves the memory as it is: the lock
held, a slot taken and not given back, a start half done. `Restart` begins the
steps of `PrinterStartup` over that memory. The `sem_unlink` in `main` names a
semaphore that does not exist, so nothing is ever removed. Clients run on, and
those that the new start finds asleep at `empty` may be forgotten
(`forgetful`). `ServiceRestored` says that the processes do not all wait for one
another even if none of those ever wakes (`AwakeUnlessForgotten`): when all the
others sleep, nothing but forgotten clients has been left undone. Of the
forgotten ones it says nothing; in the program they can sleep for ever with
slots free. Only `empty` can have sleepers of that kind in a start without early
clients, for who sleeps on `binary` has passed `empty`, and the printer that
slept on `full` is dead. Every printer is given the same number of slots.
`early` is a history variable: some
client was past `sem_wait(empty)` during the present start. The first start
answers for early clients too, because new memory reads as occupied; a later one
finds free slots it has not cleared and answers only for starts without them.

### SfsDisk

`disk` is what the calls have written of the inodes, the directory, the bitmap
and whatever lies behind these arrays, since the library writes and reads whole
blocks. The data blocks are those of `Sfs`. A new file writes inodes and
directory; `sfs_fwrite` writes inodes and bitmap each time it allocates a block,
in the middle of the call, and not otherwise; `sfs_remove` writes all three.

The directory is 3072 bytes long and is written as 4096: with the layout of the
globals that current compilers produce, the descriptors that follow go to the
disk with it and come back with `mksfs(0)` (`Overrun`). The inodes spill into
`num_files` and `current_file`. `ReadBack` allows both layouts: descriptors
closed, or as they were when the directory was last written. `Format` is
`mksfs(1)` called again, which makes a new disk and keeps pointers, sizes and
bits. In a *new* process `mksfs(0)` reads nothing: it does not open the disk
(`init_disk` is never called), `fp` is NULL and `MAX_BLOCK` is 0. There is no
recovery from a killed process, and hence none in the model; the tables on the
disk only ever serve the process that wrote them.

A descriptor that is open need not be one that a client has: `mksfs(0)` brings
back descriptors that clients have closed, or that were open when they called
it, and sfs_test2.c goes on from there: `sfs_fopen` answers -1 for such a file
(:317), and the file is removed all the same (:418), which leaves the
descriptor on a free inode until a new file gets it. `held` is a history
variable with the name under which a client opened each descriptor that it has
not closed. The rules for clients speak of those alone: they write through what
they hold, and do not remove a file that one of them holds (`DiskTidy`). They
may close any descriptor, and `sfs_remove` looks at none. That a client's own
descriptor is on its own file in the midst of the others is `HeldOnOwnFile`.

### Fuse

`handler` is, for each thread, the handler it runs, the path, the next call and
the descriptor. A step is one call of the library, taken over from `Sfs` whole.
`Exclude` is the part that is not in the repository: what the kernel and the
FUSE library never run at the same time (a file's inode lock for writes and
truncations; a path that is unlinked has no other user). `fuse_getattr` only
reads, and `fuse_create` makes the calls of `fuse_open`. Interleavings inside
one call of the library are data races, and not modelled: the properties are
about what remains true if calls are atomic, which is the most the code could
promise.

What a reader should know of the handlers: `fuse_truncate` of a file that nobody
has open removes it and returns, because `sfs_remove` answers -1; the file is
then gone, and of size 0 only in the sense that `fuse_getattr` never fails. A
thread that has a file open makes any other that wants it fail at `sfs_fopen`.
A reader's descriptor goes stale when the file is truncated under it; a writer's
cannot (`WritersOnOwnFile`), provided that no name begins another (`NamesApart`).
`sfs_remove` compares a stored name only as far as the stored name goes, so with
files `/a` and `/ab` the unlinking of `/ab` removes `/a` if that comes first in
the directory, a file that somebody else may be writing and that no lock of the
kernel protects. `WritersOnOwnFile` and `TruncateEmpties` are claims for clients
that avoid such names; `MCFuse` assumes `NamesApart` of its own, where TLC
evaluates it, and the other properties of `Fuse` do not need it.

### Shell

`hist` is the list of commands, `jobs` the table, `child` the kernel's table of
processes and `shell` the place in the loop of `main`. Nothing but `waitpid`
sees a child, so a command is one step from `getline` to the first `waitpid` that
can block (`Program`, `Cd`, `Fg`, ...), and each `waitpid` that returns is
another (`Reap`, `Waited`, ...). A command is what the shell does with it and
whether it ran in the background; a program may run for ever, end, or fail to
start, which stands for `execvp`, for a file that cannot be opened, and for
argument lists that are copied without their last NULL.

Worth knowing: the number compared with is the one stored plus one, and
`history` uses the same, so the two agree (`ListedIsRecallable`), and the most
recent command before the one being typed can neither be seen nor recalled. A
recall in the background of a command marked bad is refused, but the new entry
is not marked, and recalling *that* entry runs the program. The result of a
background command is never read. A child that cannot open the file of its redirection
exits without a report (oscode.c:426-431), so that its command is not marked:
`FailuresMarked` is about the failures that are reported. `read_msg` is used uninitialised when no child
writes to the pipe; in the builds it is zero. The line after the end of the
input is uninitialised too and is modelled as leaving the shell. `WordSpec` adds
`fg` with a word instead of a number.

## 3. Runs

| Run | Config | Bounds | Shows |
|---|---|---|---|
| `server` | `PrintServer` | 3 clients, 2 slots, 3 tickets, jobs of 0 pages | type, lock, semaphores, both searches, no deadlock; implements `PrintQueue` (no job lost) with fairness; every job printed; every client returns |
| `startup_race` | `PrinterRestart_safety` | 2 clients, 2 slots, 2 tickets, 2 restarts | the lock and the semaphores survive the first start with early clients, and are restored by a later one without; an undisturbed start ends in `Init`; the printer then serves its queue in order, with searches that end, and no deadlock among it and the clients that `sem_init` did not forget |
| `startup_intact` | `PrinterStartup_intact` | 2 clients, 2 slots | **violated**: a job is damaged while slots are cleared |
| `sfs_core` | `Sfs_core` | 2 files of 2 blocks, 4 blocks in 2 words, no NUL written | type, blocks distinct, directory agrees, only blocks beyond the first word are lost, writes stay in their file, for any client |
| `sfs_tidy` | `Sfs_tidy` | same, tidy clients | free inodes clean, implements `FileStore` |
| `sfs_bytes` | `Sfs_bytes` | 1 file of 2 blocks of 2 bytes, NUL written | implements `FileStore` |
| `sfs_leak` | `Sfs_leak` | as `sfs_tidy` | **violated**: a block outside the first word is never freed |
| `sfs_disk` | `SfsDisk_files` | 2 files of 2 blocks, 5 blocks, 1 NUL, tidy clients that append | files survive `mksfs(0)`, new files are empty after `mksfs(1)`, sizes on disk never exceed those in memory, a client's descriptor stays on its file, appending clients stand at the size |
| `disk_reopen` | `SfsDisk_reopen` | same | **violated**: `mksfs(0)` leaves a descriptor open |
| `fuse` | `Fuse` | 2 threads, 2 files of 1 byte, offsets 0 and past the end | descriptors owned, writers on their file, listings complete, truncation empties, handlers return |
| `shell` | `Shell` | 2 pids, 2 slots, a window of 1, 4 commands | type, the four properties of table and children, reported failures marked, the prompt returns |
| `shell_fg` | `Shell_word` | same, 1 command, `fg` with a word among the possible ones | **violated**: `fg word &` reaps its own child and then lists it |

Why the bounds are enough. *Print server:* two slots and three clients make the
buffer full with a client waiting for each of the semaphores while another holds
the lock, and lap the buffer in every direction; three tickets over two slots
wrap out of step with the slots. A job of 0 pages is the boundary of the test
`arr[j][0] < 0` that tells a free slot from a filled one; the number of pages
matters to nothing else. The longest runs of the restart are a kill in the
second start and a third start over what that left. *Library:* two files compete
for everything, two descriptors are all there are, and the data blocks are
`files * blocks per file` as in the code (`NUM_FREE_BLOCKS_LIST`): one of them is
the root's, so the disk is full one block before the files are, and a leak makes
it full earlier. Two words of two bits give a block in the first word, one whose
bit is not found and one whose bit lies before the array. `MaxSize` bounds the
number of NUL bytes written to a file, which the code never bounds; with 0,
`sfs_core` and `sfs_tidy` write no NUL, and `sfs_bytes` and `sfs_disk` do.
`MaxBuffer` bounds a request; 2 and 3 bytes cross a block boundary. *Disk:* one
word, so that freeing works and files come and go; `Overrun` 2 makes the first
of two descriptors one of those that reach the disk. *Wrappers:* two handlers of
every kind on the same file and on different ones; one-byte files are full after
one write and have one block, and sequences inside one handler matter, not its
data. *Shell:* four commands over two slots wrap the table twice; two pids are
given out again as soon as a child has been reaped; the window of one command
closes within three.

Fairness. `PrintServer!FairSpec` assumes weak fairness of each client that has
been launched and of the printer: the scheduler runs every process that stays
able to run. That a `sem_wait` returns in the end is assumed only while the
semaphore stays positive; nothing is assumed of who gets a semaphore that
several wait for, as POSIX promises nothing. That jobs and clients still get
through follows from the back-pressure of `empty`. `ClientsReturn` is
conditional on launches ending: with newcomers for ever one client may starve
at `empty`. `Launch` has no fairness. `FuseSpec` assumes weak fairness of each
thread's next call, and no request. `Shell!Spec` assumes weak fairness of the
shell while a `waitpid` can return, and of a child that runs no program; a
program may run for ever and nobody has to type. `Sfs` and `SfsDisk` are
sequential and have no liveness.

Deadlock is checked wherever the system runs for ever. It is not in
`startup_race` (after the last restart allowed, a killed printer leaves clients
waiting for ever, as in the program) nor in `shell` and `shell_fg` (the shell
exits, and stops reading at `MaxCommands`).

## 4. Proofs

### PrintServerProof

For every set of clients, every `Length` and every `IntSpan >= Length`:
`TypeCorrect`, `LockCorrect` (mutual exclusion), `AccountsCorrect` (the
semaphores), `SearchCorrect` and `PlaceCorrect` (the two unbounded loops find
what they look for), `NoDeadlock`, each of a property that `server` checks;
`JobsKept` (no job lost); and `QueueImplemented`, that the server implements
`Queue!Spec`, the safety half of `ImplementsQueue`. `ServerAssumption` is the only
assumption.

None of the properties but the type is inductive. The invariant `IInv`
(`InvCorrect`) adds, in the order in which the proof needs it:

* `LockInv`: `binary` is 0 or 1, and 0 while anybody is between its wait and
  its post;
* `RoomInv`: every slot is free, reserved by a client, filled, or about to be
  given back, where the filled ones are counted by what `full`, the printer and
  the clients that have yet to post know of them (`Filled`);
* `RingInv`: the filled slots are `Filled` consecutive ones from `HeadSlot` on
  (`current`, or the next slot once the printer has taken the job there), and
  `number` is the slot behind the last;
* `TicketInv`: their tickets count down from the one due, and `num` is next;
* `ClientInv`: a client in the loop is at its first probe.

`ClientFindsRoom` follows from `RoomInv` and `RingInv` (a reserved slot means the
interval is not the whole ring), `PrinterFindsItsJob` from `RingInv` and
`TicketInv` (a ticket occurs once because `IntSpan >= Length`),
`SemaphoresAccount` from `RoomInv` by counting the interval. The steps are one
lemma per action, with one lemma (`ProbesOnce`) that no client ever takes
`ProbeNext`.

`NoDeadlock` needs the converse of the lock, `HeldInv`: when `binary` is 0 some
process is between its wait and its post, and such a process is awake. With
`binary` 1, a sleeping printer waits for `full` and all sleeping clients for
`empty`; then nobody has a slot reserved, filled or taken, and `RoomInv` leaves
only that `empty` is `Length`, for which no client sleeps.

For `QueueImplemented` the ring is read as a sequence: under `IInv` the queue is
the `Filled` slots from `HeadSlot` on (`WaitingRight`), so that `PlaceJob`
appends to it, `TakeJob` takes its head and every other step leaves it alone.
`JobInv` adds that a filled slot holds the job of a client, and that the printer
holds one exactly from `TakeJob` to `FinishJob`.

### PrinterRestartProof

For every set of clients, every `Length`, every `IntSpan >= Length` and any
number of kills and restarts: `ExclusionCorrect`, `AccountCorrect`,
`ReadyCorrect`, `ServiceCorrect` and `OrderCorrect`, of the properties that
`startup_race` checks; and `IntactUnlessEarly`, that what `startup_intact` refutes
holds of every printer whose start no client disturbed. The only assumptions are
`ServerAssumption` and `RestartAssumption`. The invariant `RInv` keeps two
arguments side by side that have little in common:

* `FirstInv`, of the first printer, whatever clients do to it. The lock is
  `LockInv` of `PrintServerProof`, which holds from the start because `binary` is
  0 in new memory. For the semaphores the slots that have not been cleared yet
  (`Uncleared`) are told from those that hold jobs (`Genuine`): the former all
  read as occupied, so that no client can have filled one, and the latter are
  what `full` and the clients account for (`FirstRoom`). `sem_init(full)` comes
  after `sem_init(empty)`, and still wipes out nothing, because at that time no
  slot is `Genuine`. Nothing but the lock is claimed once this printer is dead.
* `LaterInv`, of any start without early clients, the first one included.
  Between the first two `sem_init` clients may be at work with what the former
  printer left, and finish; `LaterLock` says that the lock is whole all the same,
  because nobody was inside when it was set. From `sem_init(empty)` on `Fresh`
  lists what the steps so far have set. The last step leads to the state in which
  `PrintServer` begins, but for clients that have been launched meanwhile
  (`Begins`), and from there on `IInv` holds, kept by the steps as before.

A step of a client is proved to keep `FirstRoom` without `IInv`, of which the
first printer's clients cannot be sure: a client that comes in early may probe
many slots and fill one that is not `number`, and its ticket may be overwritten.
That is why `startup_intact` fails and the semaphores hold nevertheless.

The three later theorems carry the proofs of `PrintServer` over to a loop that
was reached through any number of kills. `LoopInv` adds `HeldInv` and `JobInv` to
`IInv` there. `LoopEntry` is why this works: a step that ends in the loop of an
undisturbed printer ends in `Begins`, where all of them hold, or is a step of
`PrintServer`. `ServiceRestored` then follows from the lemmas about searches and
sleepers, and `ServesInOrder` from those about the queue (`QueueSteps`). Its last
part is proved with forgotten clients left out (`AwakeLater`): a process that
holds the lock is past the wait for `empty`, so it is never a forgotten client; and
when all others sleep with the lock free, `RoomInv` leaves only that `empty` is
`Length`, for which no client that is not forgotten sleeps.

### ShellProof

For every set of pids, every size of the table and of the window, and any number
of commands: `TypeCorrect`, `SlotsCorrect`, `ListedCorrect`, `ReapedCorrect`,
`WindowCorrect` and `FailuresCorrect`, each of a property that `shell` checks.
`ShellAssumption` is the only assumption. The invariant is `TypeOK`,
`JobsAreChildren` and `JobsListed` with

* `ChildInv`: a child belongs to one command and no two children to the same;
  only programs can fail;
* `ShellInv`: while the shell waits, the last command of the history is the one
  whose child it waits for, that child exists, and the target of `fg` is listed;
* `LastingInv`: which commands a child may outlive the prompt of.

The commands that fork are brought to one form first (`Begins`, `TypesBegin`),
so that each conjunct of the invariant is proved for one shape of step and not
for ten. `FailuresMarked` holds because every child but those of background
commands is reaped by the `waitpid` that reads the pipe after it.

### SfsProof

For every number of inodes, of blocks per file, of bytes per block and of words
in the bitmap, and for all names and buffers: `TypeCorrect`, `BlocksCorrect`,
`DirectoryCorrect`, `WordCorrect` (only blocks beyond the first word are lost) and
`BytesCorrect` (writes stay in their file) of `Spec`, the properties that
`sfs_core` checks; `LeakLocated`, that what `sfs_leak` refutes holds as long as no
block beyond the first word is in use; `FreeInodesCorrect` and
`StoreImplemented` of `TidySpec`, those of `sfs_tidy`; and `DescriptorsCorrect` (a
file has one descriptor at most). `GeometryAssumption` (the sizes are positive)
and `NamesAssumption` (the empty name is no file's, NUL is a byte) are the only
assumptions. The bounds `MaxSize` and `MaxBuffer` are in the
statements, with any values. Of the memory before the bitmap in which
`sfs_remove` clears bits the model knows what the second word reaches
(`Strayed`); with more words the theorems do not cover what lies further off.

A call does one of four things to the tables (`FourKinds`): nothing but moving or
closing a descriptor or the cursor (`Quiet`), opening a file (`Opens`), storing
bytes (`Stores`) or removing a file (`Removes`). These predicates say what is
changed and leave open which block, slot or descriptor is taken. Everything after
`FourKinds` uses only them.

* The hard one is `sfs_fwrite`. Its missing blocks get the free ones in order,
  the k-th the k-th. That these are all different and free rests on `Allocation`:
  ranks number a finite set from 1 to its cardinality (`RankReached`), and the
  loop stops before the first rank for which no free block is left.
* `CoreInv`, for all clients, is `TypeOK`, `BlocksDistinct` and
  `DirectoryAgrees`; together they are inductive.
* `BytesStored` follows from `BlocksDistinct` after the call: of the blocks
  written none belongs to another file, and within the file each is the block of
  one pointer.
* `LostBeyondWord` is kept by every call given `CoreInv` (`WordKept`): a bit is set
  together with a pointer, and of the pointers that `sfs_remove` resets the bits of
  the first word are found.
* `TidyInv` adds that open descriptors belong to files (`Live`), from which
  `OneDescriptorPerFile` and `FreeInodesClean` follow; neither is inductive
  without it.
* `StoreImplemented`: `ContentsRight` identifies the contents of a name with the
  bytes of the one inode that has it, and each of the four kinds is then a step
  of `FileStore`, or none.

### SfsDiskProof

With the assumptions of `SfsProof` and for any number of descriptors that the
directory's last block takes along (`OverrunAssumption`):
`DiskBlocksCorrect`, `DiskDirectoryCorrect`, `DiskWordCorrect`, `SizesCorrect`,
`HeldCorrect`, `BlankCorrect` and `FilesCorrect`, and under conditions
`PositionWhenSpare` and `PositionCorrect`; every property of `sfs_disk` is among
those proved. The calls are those of `Sfs`, so the four kinds of `SfsProof` are
used again and only what they write to the disk is new. `DiskInv` is `CoreInv`
with

* `DiskAgrees`: the directory, the bitmap and the pointers on the disk are those
  in memory after every call; only sizes may lag behind, and are never larger.
  `sfs_fwrite` writes the inodes each time it allocates, so that the last copy
  has all pointers;
* `HeldOnOwnFile` (`HeldRight` with the type of `held`): `sfs_fopen` gives out
  only a descriptor that is closed, which nobody holds, for a file that no
  descriptor is on or for a free inode, on which no held descriptor is. Nothing
  is needed, or true, of the descriptors on the disk;
* `OpenIsHeld`, until `mksfs` is called again: every open descriptor has a client;
* `FreeInodesBlank`: what an inode freed by `mksfs(1)` still points to is empty.
  `mksfs(1)` keeps the bits of those blocks, so nobody else gets them.

`FilesSurvive` follows for the step `ReadBack` from `DiskAgrees` alone.

`SizeIsPosition` does not hold of every disk. `sfs_fwrite` moves the position
over the bytes that it loses on a full disk, of which `sfs_getfilesize` finds only
the NUL bytes again, and a removal may clear a bit of a position when a block
lies beyond the first word (`Strayed`). `Spare` excludes both: the blocks in use
are in the first word, and each file could be filled up with what is free.
`PositionWhenSpare` proves the property, for any geometry, of the runs in which
`Spare` always holds; in the geometry of the code (100608 blocks, 524 to a file)
those are the runs in which only the first 64 blocks, the root's included, have
been allocated. Where the one word of the bitmap has room for the root and all blocks of all files (`Roomy`), as
in the instance of `sfs_disk`, `Spare` is an invariant: by `LostBeyondWord` each
bit that is set belongs to a pointer, so that there are at least as many free
blocks as pointers that are 0 (`RoomyIsSpare`), and `PositionCorrect` has no
condition on the run. The invariant is `Appended`: beyond its size a file reads as
NUL. Hence the bytes that a write stores were not counted before; of those, the
NUL bytes are added to the size in the inode and the others are found by
`sfs_getfilesize` (`BytesCounted`), so that size and position grow alike.

### FuseProof

With the assumptions of `SfsProof`, for paths that begin with a slash
(`FuseAssumption`) and for any number of threads:
`OwnersCorrect`, `CursorCorrect` and `ListingsCorrect`; and under `NamesApart`,
a hypothesis of these two theorems only, `WritersCorrect` and
`TruncationsCorrect`. They are all the safety properties that `fuse` checks.

* `OwnInv` is `CoreInv` with what a handler is sure of between two calls
  (`HandlersRight`), that an open descriptor belongs to exactly one handler
  unless a refused offset lost it (`FdsOwned`), and `CursorRests`.
* `ListInv`: a listing that has run alone so far has returned the first files in
  the order of their slots, and the cursor is their number. That the rank of a
  file in the directory is what `sfs_getnextfilename` counts is the lemma about
  ranks that `Allocation` rests on as well.
* `FileInv`: the handlers that the kernel keeps apart are apart, free inodes are
  clean, writers are on their file, and a truncation that has removed its file
  finds the name empty until it returns (`Truncated`). The last two need the
  others: a file that is created again is empty because free inodes are clean, and
  stays so because its writers are kept away. `NamesApart` enters where a removal
  has to hit the file that it names.

### Only proved

Some properties have a theorem and are left out of the runs, because another one
that is checked says as much: `NoJobLost` (`JobsKept`) is part of what
`ImplementsQueue` says, and `OneDescriptorPerFile` (`DescriptorsCorrect`), of tidy
clients before a second `mksfs`, of `HeldOnOwnFile`. `BlocksDistinct`, `DirectoryAgrees` and `LostBeyondWord`
are checked on `Sfs` by `sfs_core`, and that further calls of `mksfs` keep them
is proved (`DiskBlocksCorrect`, `DiskDirectoryCorrect`, `DiskWordCorrect`).
`LeakLocated` and `IntactUnlessEarly` say of `NoBlockLeaked` and `JobIntact`,
which `sfs_leak` and `startup_intact` refute, when they do hold.

### Only model-checked

Liveness (`EveryJobPrinted`, `ClientsReturn`, `HandlersReturn`,
`PromptReturns`, and the fairness in `ImplementsQueue`): out of the prover's
reach. `SizeIsPosition` outside the conditions of `SfsDiskProof` is false, and no
theorem states it there.

## 5. What the runs found

Where code and comments or documents disagree (`findings` in `PROJECT.json`):

* a job is damaged by the printer's clearing loop, which starts after clients
  have been let in (`startup_intact`, printer.c:60);
* blocks beyond the first 64 are never freed (`sfs_leak`, sfs_api.c:1292);
* `mksfs(0)` brings back descriptors it has just closed, and the file cannot be
  opened (`disk_reopen`, sfs_api.c:138);
* `fg` with a word calls `waitpid(0)`, which takes any child: after `fg word &`
  that is the child forked for the command itself, whose pid `addjob2` then
  enters in the table of jobs (`shell_fg`, oscode.c:617).

Met while modelling, with no run of their own: the descriptor of a removed open
file stays open and is passed on to the next file in that slot (sfs_api.c:1261,
:1196), which is why `sfs_tidy` restricts clients; `sfs_fwrite` counts the bytes
it loses on a full disk (:1035); `sfs_remove` takes a stored name that begins
with a slash for any name that begins with the rest of it (:1227); reopening an
open file returns -1 where :400 and :432 speak of the same entry; and
`sfs_fopen` places the position by `sfs_getfilesize`, which counts the bytes of
a gap not at all and NUL bytes overwritten twice, so that it is the end of the
file (:459) only for clients that append and until `mksfs` is called again
(`SizeIsPosition`).

## 6. What is left

* What remains true, if anything, of a later printer that early clients do
  disturb.
* A printer restarted with another number of slots.
* Interleavings inside one call of the library under FUSE, which need the
  semantics of a data race for each of its globals.

## 7. Not modelled

The shell's splitting of a line, its copies of arguments and what it prints; the
disk emulator's failures and latency, which are switched off in the code; the
return values of the handlers, but for what depends on them; the test programs,
which were read for what they expect. `client.c` maps only `sizeof(Shared)`,
which does not include the slots: the mapping is a whole page and the slots used
lie in it. The value of `empty` that a client reads before it waits decides only
on a message and on a sleep of a second (client.c:45-49), of which a wait of any
length before `sem_wait(empty)` takes account.

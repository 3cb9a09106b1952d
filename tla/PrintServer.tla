---------------------------- MODULE PrintServer -----------------------------
(***************************************************************************)
(* printer.c and client.c: client processes put print jobs into a circular *)
(* buffer in POSIX shared memory and one printer process takes them out.   *)
(* Three process-shared semaphores order them: `empty' counts free slots,  *)
(* `full' counts jobs, `binary' is the lock of the buffer.  A job carries  *)
(* a ticket drawn from the counter `num'; the printer serves tickets in    *)
(* the order in which they were drawn, looking for the slot that holds the *)
(* ticket `data'.                                                          *)
(*                                                                         *)
(* The model starts when the printer has initialised the shared memory and *)
(* enters its loop; PrinterStartup models the steps before that.  A client *)
(* is one process at a time: when it exits the same id can be launched     *)
(* again.  Every semaphore call is a step of its own, and so is every      *)
(* probe of a slot.                                                        *)
(***************************************************************************)
EXTENDS Integers, FiniteSets

CONSTANTS
  Clients,   \* the ids of the clients, argv[1]
  Pages,     \* the page counts they ask for, argv[2]
  Length,    \* the slots of the buffer, shared_mem->length
  IntSpan,   \* how many values a C int has: tickets wrap modulo this
  NoClient   \* the -1 the printer leaves in the id of a slot it clears

ASSUME ServerAssumption ==
  /\ IsFiniteSet(Clients)
  /\ NoClient \notin Clients
  /\ Pages \subseteq Nat
  /\ Length \in Nat \ {0}
  /\ IntSpan \in Nat /\ IntSpan >= Length

VARIABLES
  empty, full, binary,  \* the values of the three semaphores
  arr,                  \* the slots
  number,               \* the slot the next client probes first
  num,                  \* the ticket the next job gets
  data,                 \* the ticket the printer serves next
  current,              \* the printer's count of served jobs, modulo Length
  pc, pages, j,         \* of each client: control, argv[2], the loop index
  ppc, i, job           \* of the printer: control, the loop index, its job

semaphores == <<empty, full, binary>>
clientVars == <<pc, pages, j>>
printerVars == <<data, current, ppc, i, job>>
vars == <<semaphores, arr, number, num, clientVars, printerVars>>

Slots == 0 .. Length - 1
Tickets == 0 .. IntSpan - 1

\* A slot as the printer clears it; arr[.][0] is `time', arr[.][1] `pages',
\* arr[.][2] `id' and arr[.][4] `num'.
Cleared == [time |-> -1, pages |-> -1, id |-> NoClient, num |-> 0]
Occupied(s) == arr[s].time >= 0
JobAt(s) == [id |-> arr[s].id, pages |-> arr[s].pages]
NoJob == [id |-> NoClient, pages |-> -1]

Init ==
  /\ empty = Length /\ full = 0 /\ binary = 1
  /\ arr = [s \in Slots |-> Cleared]
  /\ number = 0 /\ num = 0 /\ data = 0 /\ current = 0
  /\ pc = [c \in Clients |-> "exited"]
  /\ pages = [c \in Clients |-> -1]
  /\ j = [c \in Clients |-> 0]
  /\ ppc = "waitFull" /\ i = 0 /\ job = NoJob
-----------------------------------------------------------------------------
(* The client. *)

GoTo(c, there) == pc' = [pc EXCEPT ![c] = there]

Launch(c) ==
  /\ pc[c] = "exited"
  /\ \E p \in Pages : pages' = [pages EXCEPT ![c] = p]
  /\ GoTo(c, "waitEmpty")
  /\ UNCHANGED <<semaphores, arr, number, num, j, printerVars>>

ClientWaitEmpty(c) ==
  /\ pc[c] = "waitEmpty"
  /\ empty > 0
  /\ empty' = empty - 1
  /\ GoTo(c, "waitBinary")
  /\ UNCHANGED <<full, binary, arr, number, num, pages, j, printerVars>>

\* sem_wait(binary), and the loop starts at the shared index.
ClientWaitBinary(c) ==
  /\ pc[c] = "waitBinary"
  /\ binary > 0
  /\ binary' = binary - 1
  /\ j' = [j EXCEPT ![c] = number]
  /\ GoTo(c, "probe")
  /\ UNCHANGED <<empty, full, arr, number, num, pages, printerVars>>

\* The probed slot is taken: go round to the next one.
ProbeNext(c) ==
  /\ pc[c] = "probe"
  /\ j' = [j EXCEPT ![c] = (@ + 1) % Length]
  /\ UNCHANGED <<semaphores, arr, number, num, pc, pages, printerVars>>

\* Variant of PlaceJob: the index runs past the end of the buffer.
PlaceJobUnwrapped(c) ==
  /\ pc[c] = "probe"
  /\ arr' = [arr EXCEPT ![j[c]] = [time |-> pages[c], pages |-> pages[c],
                                   id |-> c, num |-> num]]
  /\ number' = number + 1
  /\ num' = (num - 1) % IntSpan
  /\ GoTo(c, "postBinary")
  /\ UNCHANGED <<semaphores, pages, j, printerVars>>

\* Variant of PlaceJob: the index is left where it was.
PlaceJobInPlace(c) ==
  /\ pc[c] = "probe"
  /\ arr' = [arr EXCEPT ![j[c]] = [time |-> pages[c], pages |-> pages[c],
                                   id |-> c, num |-> num]]
  /\ num' = (num - 1) % IntSpan
  /\ GoTo(c, "postBinary")
  /\ UNCHANGED <<semaphores, number, pages, j, printerVars>>

\* The probed slot is free: fill it, advance the index, draw the ticket.
PlaceJob(c) ==
  /\ pc[c] = "probe"
  /\ arr' = [arr EXCEPT ![j[c]] = [time |-> pages[c], pages |-> pages[c],
                                   id |-> c, num |-> num]]
  /\ number' = (number + 1) % Length
  /\ num' = (num - 1) % IntSpan
  /\ GoTo(c, "postBinary")
  /\ UNCHANGED <<semaphores, pages, j, printerVars>>

\* One turn of the loop that looks for a free slot.
Probe(c) == IF Occupied(j[c]) THEN ProbeNext(c) ELSE PlaceJob(c)

\* Variant of ClientPostBinary: the client exits without telling the printer.
ClientPostBinaryOnly(c) ==
  /\ pc[c] = "postBinary"
  /\ binary' = binary + 1
  /\ GoTo(c, "exited")
  /\ UNCHANGED <<empty, full, arr, number, num, pages, j, printerVars>>

ClientPostBinary(c) ==
  /\ pc[c] = "postBinary"
  /\ binary' = binary + 1
  /\ GoTo(c, "postFull")
  /\ UNCHANGED <<empty, full, arr, number, num, pages, j, printerVars>>

\* sem_post(full), and the process exits: its locals are gone.
ClientPostFull(c) ==
  /\ pc[c] = "postFull"
  /\ full' = full + 1
  /\ GoTo(c, "exited")
  /\ pages' = [pages EXCEPT ![c] = -1]
  /\ j' = [j EXCEPT ![c] = 0]
  /\ UNCHANGED <<empty, binary, arr, number, num, printerVars>>

\* What a launched client does until it exits.
ClientStep(c) ==
  \/ ClientWaitEmpty(c) \/ ClientWaitBinary(c) \/ Probe(c)
  \/ ClientPostBinary(c) \/ ClientPostFull(c)
-----------------------------------------------------------------------------
(* The printer. *)

PrinterWaitFull ==
  /\ ppc = "waitFull"
  /\ full > 0
  /\ full' = full - 1
  /\ ppc' = "waitBinary"
  /\ UNCHANGED <<empty, binary, arr, number, num, clientVars,
                 data, current, i, job>>

PrinterWaitBinary ==
  /\ ppc = "waitBinary"
  /\ binary > 0
  /\ binary' = binary - 1
  /\ i' = 0
  /\ ppc' = "search"
  /\ UNCHANGED <<empty, full, arr, number, num, clientVars,
                 data, current, job>>

\* Variant of Due: any job will do.
AnyJob(s) == Occupied(s)

\* The slot the printer looks for holds a job with the ticket due.
Due(s) == Occupied(s) /\ arr[s].num = data

SearchNext ==
  /\ ppc = "search"
  /\ ~Due(i)
  /\ i' = (i + 1) % Length
  /\ UNCHANGED <<semaphores, arr, number, num, clientVars,
                 data, current, ppc, job>>

TakeJob ==
  /\ ppc = "search"
  /\ Due(i)
  /\ job' = JobAt(i)
  /\ arr' = [arr EXCEPT ![i] = Cleared]
  /\ ppc' = "postBinary"
  /\ UNCHANGED <<semaphores, number, num, clientVars, data, current, i>>

PrinterPostBinary ==
  /\ ppc = "postBinary"
  /\ binary' = binary + 1
  /\ ppc' = "postEmpty"
  /\ UNCHANGED <<empty, full, arr, number, num, clientVars,
                 data, current, i, job>>

\* Variant of PrinterPostEmpty: it posts the lock a second time.
PrinterPostBinaryTwice ==
  /\ ppc = "postEmpty"
  /\ binary' = binary + 1
  /\ empty' = empty + 1
  /\ ppc' = "printing"
  /\ UNCHANGED <<full, arr, number, num, clientVars,
                 data, current, i, job>>

\* Variant of PrinterPostEmpty: the slot is not given back.
PrinterKeepsSlot ==
  /\ ppc = "postEmpty"
  /\ ppc' = "printing"
  /\ UNCHANGED <<semaphores, arr, number, num, clientVars,
                 data, current, i, job>>

PrinterPostEmpty ==
  /\ ppc = "postEmpty"
  /\ empty' = empty + 1
  /\ ppc' = "printing"
  /\ UNCHANGED <<full, binary, arr, number, num, clientVars,
                 data, current, i, job>>

\* Variant of FinishJob: the printer counts tickets the other way.
FinishJobUpwards ==
  /\ ppc = "printing"
  /\ current' = (current + 1) % Length
  /\ data' = (data + 1) % IntSpan
  /\ job' = NoJob
  /\ i' = 0
  /\ ppc' = "waitFull"
  /\ UNCHANGED <<semaphores, arr, number, num, clientVars>>

\* Variant of FinishJob: the ticket is not advanced.
FinishJobSameTicket ==
  /\ ppc = "printing"
  /\ current' = (current + 1) % Length
  /\ job' = NoJob
  /\ i' = 0
  /\ ppc' = "waitFull"
  /\ UNCHANGED <<semaphores, arr, number, num, clientVars, data>>

\* sleep(pages) returns: the next ticket is due, and the loop starts over.
FinishJob ==
  /\ ppc = "printing"
  /\ current' = (current + 1) % Length
  /\ data' = (data - 1) % IntSpan
  /\ job' = NoJob
  /\ i' = 0
  /\ ppc' = "waitFull"
  /\ UNCHANGED <<semaphores, arr, number, num, clientVars>>

PrinterStep ==
  \/ PrinterWaitFull \/ PrinterWaitBinary
  \/ SearchNext \/ TakeJob
  \/ PrinterPostBinary \/ PrinterPostEmpty \/ FinishJob
-----------------------------------------------------------------------------
Next ==
  \/ \E c \in Clients : Launch(c) \/ ClientStep(c)
  \/ PrinterStep

Spec == Init /\ [][Next]_vars

\* The scheduler runs every process that can run, and a sem_wait returns when
\* the semaphore stays positive.  Nothing is assumed of who wins a semaphore
\* that several wait for, and nobody has to launch a client.
FairSpec ==
  /\ Spec
  /\ \A c \in Clients : WF_vars(ClientStep(c))
  /\ WF_vars(PrinterStep)
-----------------------------------------------------------------------------
(* Properties. *)

TypeOK ==
  /\ empty \in Nat /\ full \in Nat /\ binary \in Nat
  /\ arr \in [Slots -> [time : Pages \cup {-1}, pages : Pages \cup {-1},
                        id : Clients \cup {NoClient}, num : Tickets]]
  /\ number \in Slots /\ num \in Tickets
  /\ data \in Tickets /\ current \in Slots
  /\ pc \in [Clients -> {"exited", "waitEmpty", "waitBinary", "probe",
                         "postBinary", "postFull"}]
  /\ pages \in [Clients -> Pages \cup {-1}]
  /\ j \in [Clients -> Slots]
  /\ ppc \in {"waitFull", "waitBinary", "search", "postBinary",
              "postEmpty", "printing"}
  /\ i \in Slots
  /\ job \in [id : Clients \cup {NoClient}, pages : Pages \cup {-1}]

ClientLocks(c) == pc[c] \in {"probe", "postBinary"}
PrinterLocks == ppc \in {"search", "postBinary"}

\* Between sem_wait(binary) and sem_post(binary) a process is alone: no two
\* clients, and no client with the printer.
MutualExclusion ==
  /\ \A c, d \in Clients : ClientLocks(c) /\ ClientLocks(d) => c = d
  /\ \A c \in Clients : ~(ClientLocks(c) /\ PrinterLocks)

\* Clients that own a free slot they have not filled yet, and clients that
\* filled one without having told the printer.
Reserved == {c \in Clients : pc[c] \in {"waitBinary", "probe"}}
Unannounced == {c \in Clients : pc[c] \in {"postBinary", "postFull"}}
OccupiedSlots == {s \in Slots : Occupied(s)}

\* The two counting semaphores account for every slot of the buffer, whatever
\* the processes are in the middle of: a slot is counted by empty, reserved by
\* a client, occupied, or cleared by the printer and not yet given back; an
\* occupied slot is counted by full, not yet announced, or the printer's next.
SemaphoresAccount ==
  /\ empty + Cardinality(Reserved) + Cardinality(OccupiedSlots)
       + (IF ppc \in {"postBinary", "postEmpty"} THEN 1 ELSE 0) = Length
  /\ full + Cardinality(Unannounced)
       + (IF ppc \in {"waitBinary", "search"} THEN 1 ELSE 0)
     = Cardinality(OccupiedSlots)

\* The printer's search loop has no bound and runs with the lock held.  The job
\* it looks for is always there, in the slot that the otherwise unused field
\* `current' names, and nowhere else.
PrinterFindsItsJob ==
  ppc = "search" => \A s \in Slots : Due(s) <=> s = current

\* The client's loop has no bound either, and it advances `number' by one
\* however far it walked.  Its first probe finds room, so it never walks.
ClientFindsRoom ==
  \A c \in Clients : pc[c] = "probe" => j[c] = number /\ ~Occupied(number)

\* A sem_wait that cannot return yet: the guards of the four waits, negated.
ClientAsleep(c) ==
  \/ pc[c] = "waitEmpty" /\ empty = 0
  \/ pc[c] = "waitBinary" /\ binary = 0
PrinterAsleep ==
  \/ ppc = "waitFull" /\ full = 0
  \/ ppc = "waitBinary" /\ binary = 0

\* The processes never all sleep in sem_wait while there is something to do, a
\* client that has not returned or a job in the buffer: empty and binary are
\* taken in one order by the clients, full and binary in another by the
\* printer, and no cycle of waits closes.
SomebodyAwake ==
  (\E c \in Clients : pc[c] # "exited") \/ (\E s \in Slots : Occupied(s))
    => \/ ~PrinterAsleep
       \/ \E c \in Clients : pc[c] # "exited" /\ ~ClientAsleep(c)

\* A job leaves its slot only for the printer, whole: no step of a client
\* overwrites it and no step of the printer drops it.
NoJobLost ==
  [][\A s \in Slots : Occupied(s) =>
       \/ arr'[s] = arr[s]
       \/ ppc = "search" /\ arr'[s] = Cleared /\ job' = JobAt(s)]_vars

(* The server implements the queue.  The oldest job is in slot Head: `current'
   itself until the printer takes that job, and the next slot while it is being
   printed.  The queue runs from there up to `number'. *)

Taken == ppc \in {"postBinary", "postEmpty", "printing"}
HeadSlot == IF Taken THEN (current + 1) % Length ELSE current
Used == IF Occupied(HeadSlot) /\ number = HeadSlot
        THEN Length
        ELSE (number - HeadSlot) % Length

Waiting == [k \in 1 .. Used |-> JobAt((HeadSlot + k - 1) % Length)]

Queue == INSTANCE PrintQueue WITH
  Jobs <- [id : Clients, pages : Pages], Capacity <- Length, Idle <- NoJob,
  queue <- Waiting, printing <- job

\* Jobs are printed one at a time, in the order in which they entered the
\* buffer, and the printer goes on while there are any: every behaviour of the
\* semaphores and tickets is a behaviour of one bounded queue.
ImplementsQueue == Queue!FairSpec

\* A job put into the buffer is printed, even when the lock is granted unfairly
\* and clients are launched for ever: a full buffer stops them all at empty.
EveryJobPrinted ==
  \A c \in Clients :
    (\E s \in Slots : Occupied(s) /\ arr[s].id = c)
      ~> (ppc = "printing" /\ job.id = c)

\* Once launches stop, every client gets its job into the buffer and exits.
ClientsReturn ==
  <>[][~ \E c \in Clients : Launch(c)]_vars
    => \A c \in Clients : []<>(pc[c] = "exited")
=============================================================================

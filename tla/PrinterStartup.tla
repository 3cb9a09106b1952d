--------------------------- MODULE PrinterStartup ---------------------------
(***************************************************************************)
(* The steps of printer.c before its loop, with clients already running.   *)
(*                                                                         *)
(* The printer prints "Waiting for clients." first, then creates the       *)
(* shared memory, initialises the semaphores one by one and only then      *)
(* clears the slots.  A client needs nothing but the shared memory to      *)
(* start: its sleep(0.5) is a sleep of 0 seconds.  From the moment `empty' *)
(* has its value, clients pass sem_wait and run alongside the clearing     *)
(* loop, which does not take the lock.                                     *)
(*                                                                         *)
(* The shared memory is new, so all its bytes are 0 at the start.  That    *)
(* gives the slots time 0, which reads as occupied; the id 0 they hold is  *)
(* overwritten before any job is read and is written NoClient here.        *)
(*                                                                         *)
(* A printer that starts over old memory calls sem_init on a semaphore     *)
(* that clients may sleep on.  The C library keeps the number of sleepers  *)
(* in the semaphore and sem_init puts it to 0: nobody is woken, a sem_post *)
(* after it believes that nobody sleeps, and one that does wake a client   *)
(* may wake another than it was meant for.  Only `empty' can have such     *)
(* sleepers while no client is past sem_wait(empty).                       *)
(***************************************************************************)
EXTENDS PrintServer

VARIABLE
  forgetful  \* `empty' has lost count of its sleepers

startupVars == <<vars, forgetful>>

Zeroed == [time |-> 0, pages |-> 0, id |-> NoClient, num |-> 0]

StartupInit ==
  /\ empty = 0 /\ full = 0 /\ binary = 0
  /\ arr = [s \in Slots |-> Zeroed]
  /\ number = 0 /\ num = 0 /\ data = 0 /\ current = 0
  /\ pc = [c \in Clients |-> "exited"]
  /\ pages = [c \in Clients |-> -1]
  /\ j = [c \in Clients |-> 0]
  /\ ppc = "initBinary" /\ i = 0 /\ job = NoJob
  /\ forgetful = FALSE

StartupSteps ==
  {"initBinary", "initEmpty", "initFull", "initIndices", "clear", "clearRest"}
Started == ppc \notin StartupSteps

\* Variant of InitBinary: the lock gets the value meant for `empty'.
InitBinaryWide ==
  /\ ppc = "initBinary"
  /\ binary' = Length
  /\ current' = 0 /\ data' = 0
  /\ ppc' = "initEmpty"
  /\ UNCHANGED <<empty, full, arr, number, num, clientVars, i, job>>

\* Variant of InitBinary: the ticket due is left as it was found.
InitBinaryOldTicket ==
  /\ ppc = "initBinary"
  /\ binary' = 1
  /\ current' = 0
  /\ ppc' = "initEmpty"
  /\ UNCHANGED <<empty, full, arr, number, num, clientVars, data, i, job>>

\* length, current and data are set before the first sem_init, when no client
\* can be past sem_wait(empty).
InitBinary ==
  /\ ppc = "initBinary"
  /\ binary' = 1
  /\ current' = 0 /\ data' = 0
  /\ ppc' = "initEmpty"
  /\ UNCHANGED <<empty, full, arr, number, num, clientVars, i, job>>

\* A client that is at sem_wait(empty) may sleep in it already, or may come to
\* it only now: then the semaphore is as good as new.
InitEmpty ==
  /\ ppc = "initEmpty"
  /\ empty' = Length
  /\ forgetful' \in BOOLEAN
  /\ forgetful' => \E c \in Clients : pc[c] = "waitEmpty"
  /\ ppc' = "initFull"
  /\ UNCHANGED <<full, binary, arr, number, num, clientVars,
                 data, current, i, job>>

InitFull ==
  /\ ppc = "initFull"
  /\ full' = 0
  /\ ppc' = "initIndices"
  /\ UNCHANGED <<empty, binary, arr, number, num, clientVars,
                 data, current, i, job>>

\* Variant of InitIndices: the counter of tickets is taken to be 0 already.
InitNumberOnly ==
  /\ ppc = "initIndices"
  /\ number' = 0
  /\ ppc' = "clear"
  /\ UNCHANGED <<semaphores, arr, num, clientVars, data, current, i, job>>

InitIndices ==
  /\ ppc = "initIndices"
  /\ number' = 0 /\ num' = 0
  /\ ppc' = "clear"
  /\ UNCHANGED <<semaphores, arr, clientVars, data, current, i, job>>

\* arr[i][0] = -1: from here a client sees the slot as free.
ClearTime ==
  /\ ppc = "clear"
  /\ arr' = [arr EXCEPT ![i].time = -1]
  /\ ppc' = "clearRest"
  /\ UNCHANGED <<semaphores, number, num, clientVars, data, current, i, job>>

\* The other stores to the slot.  When a client has filled it meanwhile, its
\* stores and the printer's are unordered: each field keeps either value.
Raced(old, new) == IF Occupied(i) THEN {old, new} ELSE {new}

\* Variant of ClearRest: `full' is initialised after the loop.
ClearRestThenFull ==
  /\ ppc = "clearRest"
  /\ \E p \in Raced(arr[i].pages, -1), c \in Raced(arr[i].id, NoClient),
        n \in Raced(arr[i].num, 0) :
       arr' = [arr EXCEPT ![i] = [time |-> @.time, pages |-> p,
                                  id |-> c, num |-> n]]
  /\ IF i + 1 < Length
     THEN i' = i + 1 /\ ppc' = "clear" /\ UNCHANGED full
     ELSE i' = 0 /\ ppc' = "waitFull" /\ full' = 0
  /\ UNCHANGED <<empty, binary, number, num, clientVars, data, current, job>>

ClearRest ==
  /\ ppc = "clearRest"
  /\ \E p \in Raced(arr[i].pages, -1), c \in Raced(arr[i].id, NoClient),
        n \in Raced(arr[i].num, 0) :
       arr' = [arr EXCEPT ![i] = [time |-> @.time, pages |-> p,
                                  id |-> c, num |-> n]]
  /\ IF i + 1 < Length
     THEN i' = i + 1 /\ ppc' = "clear"
     ELSE i' = 0 /\ ppc' = "waitFull"
  /\ UNCHANGED <<semaphores, number, num, clientVars, data, current, job>>

StartupStep ==
  \/ InitEmpty
  \/ /\ InitBinary \/ InitFull \/ InitIndices \/ ClearTime \/ ClearRest
     /\ UNCHANGED forgetful

StartupSpec ==
  StartupInit /\ [][StartupStep \/ (Next /\ UNCHANGED forgetful)]_startupVars
-----------------------------------------------------------------------------
(* What a document shows and the code does not do. *)

\* The trace of a session shows every job printed with the id and the pages its
\* client gave, clients being started as soon as the printer says it waits.
JobIntact == ppc = "printing" => job.id \in Clients /\ job.pages \in Pages
=============================================================================

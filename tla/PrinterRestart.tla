--------------------------- MODULE PrinterRestart ---------------------------
(***************************************************************************)
(* The printer killed at any step and started again over the same shared   *)
(* memory.  Its loop has no exit, so it always ends by being killed; the   *)
(* sem_unlink in main names a semaphore that does not exist, and shm_open  *)
(* with O_CREAT finds the old memory, jobs, semaphores and all.  Clients   *)
(* are not told: they run on while there is no printer and while the new   *)
(* one initialises.                                                        *)
(*                                                                         *)
(* Every printer is given the same number of slots.                        *)
(***************************************************************************)
EXTENDS PrinterStartup

CONSTANT MaxRestarts   \* bound: how often the printer is started again

ASSUME RestartAssumption == MaxRestarts \in Nat

VARIABLES
  restarts,  \* bound: how often it has been
  early      \* history: a client was past sem_wait(empty) in this start

history == <<restarts, early>>
restartVars == <<startupVars, history>>

Running == Started /\ ppc # "dead"
InFlight == Reserved \cup Unannounced # {}

RestartInit == StartupInit /\ restarts = 0 /\ early = FALSE

\* The process is gone, with whatever it held.
Kill ==
  /\ ppc # "dead"
  /\ ppc' = "dead" /\ i' = 0 /\ job' = NoJob
  /\ UNCHANGED <<semaphores, arr, number, num, clientVars, data, current,
                 forgetful, history>>

Restart ==
  /\ ppc = "dead"
  /\ restarts < MaxRestarts
  /\ restarts' = restarts + 1
  /\ early' = FALSE
  /\ ppc' = "initBinary"
  /\ UNCHANGED <<semaphores, arr, number, num, clientVars, data, current,
                 i, job, forgetful>>

\* A step of a printer that is starting notes the clients it finds at work.
Starts ==
  /\ StartupStep
  /\ early' = (early \/ InFlight)
  /\ UNCHANGED restarts

\* One that passes sem_wait(empty) after sem_init(empty) is noted when it does.
EmptyIsNew == ppc \in StartupSteps \ {"initBinary", "initEmpty"}
Serves ==
  /\ Next
  /\ early' = (early \/ (EmptyIsNew /\ \E c \in Clients : ClientWaitEmpty(c)))
  /\ UNCHANGED <<restarts, forgetful>>

RestartNext == Kill \/ Restart \/ Starts \/ Serves

RestartSpec == RestartInit /\ [][RestartNext]_restartVars
-----------------------------------------------------------------------------
(* Properties. *)

\* The first printer clears memory that is new: its slots read as occupied, so
\* a client that is early waits for the clearing.  A later one may find a slot
\* free before it has cleared it, and answers only for starts without clients.
Answerable == restarts = 0 \/ (Running /\ ~early)

\* The lock excludes, early clients or not, until the printer has been killed;
\* and again once another has started that no client disturbed, although the
\* first may have been killed with the lock held or between two semaphores.
ExclusionRestored == Answerable => MutualExclusion

\* In the same printers' loops the semaphores account for every slot: no
\* sem_post is wiped out by a sem_init, and no slot stays lost that a killed
\* printer had taken and not given back.
AccountRestored == Answerable /\ Running => SemaphoresAccount

ReadyState ==
  /\ empty = Length /\ full = 0 /\ binary = 1
  /\ arr = [s \in Slots |-> Cleared]
  /\ number = 0 /\ num = 0 /\ data = 0 /\ current = 0

\* A start that no client disturbs ends in the state in which PrintServer
\* begins, whatever is left in the memory and wherever the former one was
\* killed, in the middle of its own start included.
ReadyUnlessEarly == [][~Running /\ Running' /\ ~early => ReadyState']_restartVars

\* A client that may sleep for ever in sem_wait(empty), free slots or not: the
\* printer's sem_init has made the semaphore forget who sleeps on it.
Forgotten(c) == forgetful /\ pc[c] = "waitEmpty"

\* While there is something to do, a job in the buffer or a client that is not
\* forgotten, the printer or such a client does not sleep in sem_wait.
AwakeUnlessForgotten ==
  LET Served == {c \in Clients : pc[c] # "exited" /\ ~Forgotten(c)}
  IN  Served # {} \/ OccupiedSlots # {}
        => ~PrinterAsleep \/ \E c \in Served : ~ClientAsleep(c)

\* In the loop of such a printer no process spins for ever with the lock held,
\* whatever a killed printer had locked or taken; and the processes do not all
\* wait for one another, even where none of the clients that the start found
\* waiting for a free slot ever wakes up.  Those clients are all it leaves out.
ServiceRestored ==
  Running /\ ~early
    => PrinterFindsItsJob /\ ClientFindsRoom /\ AwakeUnlessForgotten

\* It prints the jobs put into the buffer in order, one at a time and whole,
\* although the slots and tickets of its predecessors were left in the memory:
\* each step, of its own or of a client, is a step of the queue or none.
ServesInOrder ==
  [][Running /\ Running' /\ ~early => [Queue!Next]_(Queue!queueVars)]_restartVars
=============================================================================

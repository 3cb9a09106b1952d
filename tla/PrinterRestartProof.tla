-------------------------- MODULE PrinterRestartProof --------------------------
(***************************************************************************)
(* Proofs about PrinterRestart, for any clients, any buffer length, any    *)
(* width of the tickets and any number of restarts.                        *)
(*                                                                         *)
(* Two arguments that have nothing in common are kept side by side.        *)
(* FirstInv is about the first printer, which clients may disturb as they  *)
(* like: the memory it finds is new, so the slots it has not cleared yet   *)
(* read as occupied and no client can have filled them.  Fresh is about a  *)
(* later printer that no client disturbs: whatever it found, it puts one   *)
(* part of the memory after the other into the state in which PrintServer  *)
(* begins, and in its loop the invariant of PrintServer holds again.       *)
(***************************************************************************)
EXTENDS PrinterRestart, PrintServerProof

\* The types of the memory as any printer may find it: slots of the new memory
\* hold zeros, and so may the fields a client and the printer both store to.
MemoryTyped ==
  /\ empty \in Nat /\ full \in Nat /\ binary \in Nat
  /\ arr \in [Slots -> [time : Pages \cup {-1, 0}, pages : Pages \cup {-1, 0},
                        id : Clients \cup {NoClient}, num : Tickets]]
  /\ number \in Slots /\ num \in Tickets
  /\ data \in Tickets /\ current \in Slots
  /\ pc \in [Clients -> {"exited", "waitEmpty", "waitBinary", "probe",
                         "postBinary", "postFull"}]
  /\ pages \in [Clients -> Pages \cup {-1}]
  /\ \A c \in Clients : pc[c] # "exited" => pages[c] \in Pages
  /\ j \in [Clients -> Slots]
  /\ i \in Slots
  /\ job \in [id : Clients \cup {NoClient}, pages : Pages \cup {-1, 0}]

\* Where the printer may be.  While it starts it holds no job, and its index is
\* 0 until it clears.
Loop == {"waitFull", "waitBinary", "search", "postBinary", "postEmpty",
         "printing"}
ControlTyped ==
  /\ ppc \in Loop \cup StartupSteps \cup {"dead"}
  /\ ppc \notin Loop => job = NoJob
  /\ ppc \notin Loop \cup {"clear", "clearRest"} => i = 0
  /\ restarts \in Nat /\ early \in BOOLEAN

RTyped == MemoryTyped /\ ControlTyped

LEMMA Zero == 0 \in Slots /\ 0 \in Tickets /\ Length \in Nat
  BY Sizes DEF Slots, Tickets

LEMMA RestartTypeInit == RestartInit => RTyped
  <1> SUFFICES ASSUME RestartInit PROVE RTyped
    OBVIOUS
  <1>1. 0 \in Slots /\ 0 \in Tickets
    BY Zero
  <1>2. Zeroed \in [time : Pages \cup {-1, 0}, pages : Pages \cup {-1, 0},
                    id : Clients \cup {NoClient}, num : Tickets]
    BY <1>1 DEF Zeroed
  <1>3. MemoryTyped
    BY <1>1, <1>2 DEF RestartInit, StartupInit, MemoryTyped, NoJob
  <1>4. ControlTyped
    BY DEF RestartInit, StartupInit, ControlTyped, StartupSteps, Loop
  <1> QED
    BY <1>3, <1>4 DEF RTyped

\* What clients and the printer's loop do keeps the types, also when they work
\* on memory that no printer has initialised.
LEMMA ServesTyped ==
  ASSUME MemoryTyped, Next
  PROVE  MemoryTyped'
  <1> USE ServerAssumption, Sizes DEF MemoryTyped
  <1>0. \A c \in Clients : j[c] \in Slots
    OBVIOUS
  <1>1. ASSUME NEW c \in Clients, Launch(c) PROVE MemoryTyped'
    BY <1>1 DEF Launch, GoTo, semaphores, printerVars
  <1>2. ASSUME NEW c \in Clients, ClientWaitEmpty(c) PROVE MemoryTyped'
    BY <1>2 DEF ClientWaitEmpty, GoTo, printerVars
  <1>3. ASSUME NEW c \in Clients, ClientWaitBinary(c) PROVE MemoryTyped'
    BY <1>3 DEF ClientWaitBinary, GoTo, printerVars
  <1>4. ASSUME NEW c \in Clients, ProbeNext(c) PROVE MemoryTyped'
    BY <1>4, <1>0, Modulo, NextHead DEF ProbeNext, semaphores, printerVars
  <1>5. ASSUME NEW c \in Clients, PlaceJob(c) PROVE MemoryTyped'
    <2>1. /\ (number + 1) % Length \in Slots /\ (num - 1) % IntSpan \in Tickets
          /\ pages[c] \in Pages
      BY <1>5, Modulo, NextHead, NextDue DEF PlaceJob
    <2> QED
      BY <1>5, <2>1 DEF PlaceJob, GoTo, semaphores, printerVars
  <1>6. ASSUME NEW c \in Clients, ClientPostBinary(c) PROVE MemoryTyped'
    BY <1>6 DEF ClientPostBinary, GoTo, printerVars
  <1>7. ASSUME NEW c \in Clients, ClientPostFull(c) PROVE MemoryTyped'
    BY <1>7 DEF ClientPostFull, GoTo, printerVars, Slots
  <1>8. CASE PrinterWaitFull
    BY <1>8 DEF PrinterWaitFull, clientVars
  <1>9. CASE PrinterWaitBinary
    BY <1>9 DEF PrinterWaitBinary, clientVars, Slots
  <1>10. CASE SearchNext
    BY <1>10, Modulo, NextHead DEF SearchNext, semaphores, clientVars
  <1>11. CASE TakeJob
    <2>1. Cleared \in [time : Pages \cup {-1, 0}, pages : Pages \cup {-1, 0},
                       id : Clients \cup {NoClient}, num : Tickets]
      BY DEF Cleared, Tickets
    <2>2. JobAt(i) \in [id : Clients \cup {NoClient}, pages : Pages \cup {-1, 0}]
      BY DEF JobAt
    <2> QED
      BY <1>11, <2>1, <2>2 DEF TakeJob, semaphores, clientVars
  <1>12. CASE PrinterPostBinary
    BY <1>12 DEF PrinterPostBinary, clientVars
  <1>13. CASE PrinterPostEmpty
    BY <1>13 DEF PrinterPostEmpty, clientVars
  <1>14. CASE FinishJob
    <2>1. (current + 1) % Length \in Slots /\ (data - 1) % IntSpan \in Tickets
      BY Modulo, NextHead, NextDue
    <2> QED
      BY <1>14, <2>1 DEF FinishJob, NoJob, semaphores, clientVars, Slots
  <1> QED
    BY <1>1, <1>2, <1>3, <1>4, <1>5, <1>6, <1>7, <1>8, <1>9, <1>10, <1>11,
       <1>12, <1>13, <1>14
    DEF Next, ClientStep, Probe, PrinterStep

\* So do the steps before the loop.
LEMMA StartsTyped ==
  ASSUME RTyped, StartupStep
  PROVE  MemoryTyped'
  <1> USE DEF RTyped, MemoryTyped
  <1>1. CASE InitBinary \/ InitEmpty \/ InitFull \/ InitIndices
    <2>1. /\ UNCHANGED <<arr, pc, pages, j, i, job>>
          /\ empty' \in Nat /\ full' \in Nat /\ binary' \in Nat
          /\ number' \in Slots /\ num' \in Tickets
          /\ data' \in Tickets /\ current' \in Slots
      BY <1>1, Zero DEF InitBinary, InitEmpty, InitFull, InitIndices,
                        clientVars, semaphores
    <2> QED
      BY <2>1
  <1>2. CASE ClearTime
    BY <1>2 DEF ClearTime, clientVars, semaphores
  <1>3. CASE ClearRest
    <2>1. PICK p \in Raced(arr[i].pages, -1), c \in Raced(arr[i].id, NoClient),
               n \in Raced(arr[i].num, 0) :
            arr' = [arr EXCEPT ![i] = [time |-> @.time, pages |-> p,
                                       id |-> c, num |-> n]]
      BY <1>3 DEF ClearRest
    <2>2. /\ p \in Pages \cup {-1, 0} /\ c \in Clients \cup {NoClient}
          /\ n \in Tickets
      <3>1. /\ arr[i].pages \in Pages \cup {-1, 0}
            /\ arr[i].id \in Clients \cup {NoClient} /\ arr[i].num \in Tickets
        OBVIOUS
      <3> QED
        BY <3>1, Zero DEF Raced
    <2>3. [time |-> arr[i].time, pages |-> p, id |-> c, num |-> n]
            \in [time : Pages \cup {-1, 0}, pages : Pages \cup {-1, 0},
                 id : Clients \cup {NoClient}, num : Tickets]
      BY <2>2
    <2>4. i' \in Slots
      BY <1>3, Sizes DEF ClearRest, Slots
    <2> QED
      BY <1>3, <2>1, <2>3, <2>4 DEF ClearRest, clientVars, semaphores
  <1> QED
    BY <1>1, <1>2, <1>3 DEF StartupStep

\* A client leaves the printer where it is, and the printer's own steps are of
\* its loop or of its start.
LEMMA ClientsApart ==
  ASSUME NEW c \in Clients, Launch(c) \/ ClientStep(c)
  PROVE  UNCHANGED printerVars
  BY DEF Launch, ClientStep, ClientWaitEmpty, ClientWaitBinary, Probe,
         ProbeNext, PlaceJob, ClientPostBinary, ClientPostFull

LEMMA LoopSteps ==
  ASSUME PrinterStep
  PROVE  ppc \in Loop /\ ppc' \in Loop
  BY DEF PrinterStep, PrinterWaitFull, PrinterWaitBinary, SearchNext, TakeJob,
         PrinterPostBinary, PrinterPostEmpty, FinishJob, Loop

LEMMA Phases ==
  /\ Loop \cap StartupSteps = {}
  /\ "dead" \notin Loop /\ "dead" \notin StartupSteps
  /\ ControlTyped => (Running <=> ppc \in Loop)
  BY DEF Loop, StartupSteps, Running, Started, ControlTyped

LEMMA RestartTypeStep == RTyped /\ [RestartNext]_restartVars => RTyped'
  <1> SUFFICES ASSUME RTyped, [RestartNext]_restartVars PROVE RTyped'
    OBVIOUS
  <1>0. MemoryTyped /\ ControlTyped
    BY DEF RTyped
  <1>1. CASE Kill
    <2>1. NoJob \in [id : Clients \cup {NoClient}, pages : Pages \cup {-1, 0}]
      BY DEF NoJob
    <2>2. MemoryTyped'
      BY <1>0, <1>1, <2>1, Zero
      DEF Kill, MemoryTyped, semaphores, clientVars
    <2>3. ControlTyped'
      BY <1>0, <1>1 DEF Kill, ControlTyped, Loop, StartupSteps, history
    <2> QED
      BY <2>2, <2>3 DEF RTyped
  <1>2. CASE Restart
    <2>1. MemoryTyped'
      BY <1>0, <1>2 DEF Restart, MemoryTyped, semaphores, clientVars
    <2>2. ControlTyped'
      <3>0. restarts' \in Nat
        BY <1>0, <1>2 DEF Restart, ControlTyped
      <3>1. restarts' \in Nat /\ early' \in BOOLEAN
        BY <1>2, <3>0, Zenon DEF Restart
      <3>2. job = NoJob /\ i = 0 /\ UNCHANGED <<i, job>>
        BY <1>0, <1>2 DEF Restart, ControlTyped, Loop
      <3>3. ppc' \in StartupSteps
        BY <1>2 DEF Restart, StartupSteps
      <3> QED
        BY <3>1, <3>2, <3>3 DEF ControlTyped
    <2> QED
      BY <2>1, <2>2 DEF RTyped
  <1>3. CASE Starts
    <2>1. ppc \in StartupSteps /\ ppc' \in Loop \cup StartupSteps /\ job' = job
      BY <1>3
      DEF Starts, StartupStep, InitBinary, InitEmpty, InitFull, InitIndices,
          ClearTime, ClearRest, Loop, StartupSteps
    <2>2. ppc' \notin Loop \cup {"clear", "clearRest"} => i' = i /\ i = 0
      BY <1>0, <1>3
      DEF Starts, StartupStep, InitBinary, InitEmpty, InitFull, InitIndices,
          ClearTime, ClearRest, ControlTyped, Loop
    <2>3. restarts' \in Nat /\ early' \in BOOLEAN
      BY <1>0, <1>3, Zenon DEF Starts, ControlTyped
    <2> QED
      BY <1>0, <1>3, <2>1, <2>2, <2>3, Phases, StartsTyped
      DEF Starts, RTyped, ControlTyped
  <1>4. CASE Serves
    <2>1. ASSUME NEW c \in Clients, Launch(c) \/ ClientStep(c)
          PROVE  ControlTyped'
      BY <1>0, <1>4, <2>1, ClientsApart DEF Serves, ControlTyped, printerVars
    <2>2. CASE PrinterStep
      <3>1. restarts' \in Nat /\ early' \in BOOLEAN
        BY <1>0, <1>4, Zenon DEF Serves, ControlTyped
      <3>2. ppc' \in Loop
        BY <2>2, LoopSteps
      <3> QED
        BY <1>0, <2>2, <3>1, <3>2, ServesTyped DEF Next, RTyped, ControlTyped
    <2> QED
      BY <1>0, <1>4, <2>1, <2>2, ServesTyped DEF Serves, Next, RTyped
  <1>5. CASE UNCHANGED restartVars
    BY <1>0, <1>5
    DEF RTyped, MemoryTyped, ControlTyped, restartVars, startupVars, vars, semaphores,
        clientVars, printerVars, history
  <1> QED
    BY <1>1, <1>2, <1>3, <1>4, <1>5 DEF RestartNext
-----------------------------------------------------------------------------
(* The first printer. *)

\* The slots of the new memory that it has not cleared yet.  No client has
\* filled any of them, for they read as occupied; the others that do hold jobs.
Uncleared ==
  {s \in Slots : /\ ppc \in StartupSteps
                 /\ s > i \/ (s = i /\ ppc # "clearRest")}
Genuine == OccupiedSlots \ Uncleared

\* Its semaphores: 0 in the new memory until it sets them, so that no client
\* passes; from sem_init(empty) on they account for the slots that hold jobs
\* and for the others, cleared or not.
FirstRoom ==
  /\ empty + Cardinality(Reserved) + Cardinality(Genuine) + Returning = Length
  /\ Announced + Cardinality(Unannounced) = Cardinality(Genuine)
Waits == ppc \in {"initBinary", "initEmpty"}
FirstWaits == empty = 0 /\ full = 0 /\ ~InFlight

FirstInv ==
  /\ LockInv
  /\ ppc = "initBinary" => binary = 0
  /\ ppc # "dead" => Uncleared \subseteq OccupiedSlots
  /\ Waits => FirstWaits
  /\ ~Waits /\ ppc # "dead" => FirstRoom

LEMMA FirstInit == RestartInit => FirstInv
  <1> SUFFICES ASSUME RestartInit PROVE FirstInv
    OBVIOUS
  <1>1. LockInv
    BY DEF RestartInit, StartupInit, LockInv, MutualExclusion, ClientLocks,
           PrinterLocks
  <1>2. FirstWaits
    BY DEF RestartInit, StartupInit, FirstWaits, InFlight, Reserved, Unannounced
  <1>3. Uncleared \subseteq OccupiedSlots
    BY DEF RestartInit, StartupInit, Uncleared, OccupiedSlots, Occupied, Zeroed
  <1> QED
    BY <1>1, <1>2, <1>3 DEF FirstInv, RestartInit, StartupInit, Waits

LEMMA FiniteGenuine ==
  IsFiniteSet(Genuine) /\ Cardinality(Genuine) \in Nat
  BY Finite, FS_Subset, FS_CardinalityType DEF Genuine

\* A client in the middle of its work shows in InFlight, one with the lock too.
LEMMA AtWork ==
  ASSUME ~InFlight, NEW c \in Clients, RTyped
  PROVE  pc[c] \in {"exited", "waitEmpty"} /\ ~ClientLocks(c)
  BY DEF InFlight, Reserved, Unannounced, ClientLocks, RTyped, MemoryTyped

\* What a client does to the counts of the first printer.
LEMMA FirstClients ==
  ASSUME RTyped, FirstInv, NEW c \in Clients, Launch(c) \/ ClientStep(c)
  PROVE  /\ ppc # "dead" => Uncleared' \subseteq OccupiedSlots'
         /\ Waits => FirstWaits'
         /\ ~Waits /\ ppc # "dead" => FirstRoom'
  <1>0. MemoryTyped /\ DOMAIN pc = Clients
    BY DEF RTyped, MemoryTyped
  <1>1. UNCHANGED printerVars
    BY ClientsApart
  <1>2. Uncleared' = Uncleared /\ Returning' = Returning
    BY <1>1 DEF printerVars, Uncleared, Returning
  <1> DEFINE R == Cardinality(Reserved)
             U == Cardinality(Unannounced)
             G == Cardinality(Genuine)
  <1>3. /\ R \in Nat /\ U \in Nat /\ G \in Nat
        /\ empty \in Nat /\ full \in Nat /\ Returning \in {0, 1}
    BY <1>0, Finite, FiniteGenuine DEF MemoryTyped, Returning
  <1>4. /\ \E x \in {0, 1} : Announced = full + x /\ Announced' = full' + x
        /\ Waits' = Waits
    BY <1>1 DEF printerVars, Announced, Waits
  <1>5. ASSUME arr' = arr
        PROVE  OccupiedSlots' = OccupiedSlots /\ Genuine' = Genuine
    BY <1>2, <1>5 DEF Genuine, OccupiedSlots, Occupied
  <1>6. CASE Launch(c)
    <2>1. R' = R /\ U' = U
      BY <1>0, <1>3, <1>6, MoveCounts DEF Launch, Holding, Telling
    <2>2. UNCHANGED <<empty, full, arr>> /\ (~InFlight => ~InFlight')
      BY <1>0, <1>6 DEF Launch, GoTo, semaphores, InFlight, Reserved, Unannounced
    <2> QED
      BY <1>2, <1>4, <1>5, <2>1, <2>2 DEF FirstInv, FirstWaits, FirstRoom
  <1>7. CASE ClientWaitEmpty(c)
    <2>1. R' = R + 1 /\ U' = U /\ empty' = empty - 1 /\ empty > 0
          /\ UNCHANGED <<full, arr>>
      BY <1>0, <1>3, <1>7, MoveCounts DEF ClientWaitEmpty, Holding, Telling
    <2>2. ~Waits
      BY <1>3, <2>1 DEF FirstInv, FirstWaits
    <2>3. FirstRoom => FirstRoom'
      BY <1>2, <1>3, <1>4, <1>5, <2>1 DEF FirstRoom
    <2> QED
      BY <1>2, <1>5, <2>1, <2>2, <2>3 DEF FirstInv
  <1>8. ASSUME ClientWaitBinary(c) \/ ProbeNext(c) \/ PlaceJob(c)
                 \/ ClientPostBinary(c) \/ ClientPostFull(c)
        PROVE  ~Waits
    BY <1>0, <1>8, AtWork
    DEF ClientWaitBinary, ProbeNext, PlaceJob, ClientPostBinary,
        ClientPostFull, FirstInv, FirstWaits
  <1>9. CASE ClientWaitBinary(c) \/ ClientPostBinary(c) \/ ProbeNext(c)
    <2>1. R' = R /\ U' = U
      <3>1. CASE ProbeNext(c)
        BY <3>1 DEF ProbeNext, Reserved, Unannounced
      <3>2. CASE ClientWaitBinary(c) \/ ClientPostBinary(c)
        BY <1>0, <1>3, <3>2, MoveCounts
        DEF ClientWaitBinary, ClientPostBinary, Holding, Telling
      <3> QED
        BY <1>9, <3>1, <3>2
    <2>2. UNCHANGED <<empty, full, arr>>
      BY <1>9 DEF ClientWaitBinary, ClientPostBinary, ProbeNext, semaphores
    <2>3. FirstRoom => FirstRoom'
      BY <1>2, <1>4, <1>5, <2>1, <2>2 DEF FirstRoom
    <2> QED
      BY <1>2, <1>5, <1>8, <1>9, <2>2, <2>3 DEF FirstInv
  <1>10. CASE ClientPostFull(c)
    <2>1. R' = R /\ U' = U - 1 /\ full' = full + 1 /\ UNCHANGED <<empty, arr>>
      BY <1>0, <1>3, <1>10, MoveCounts DEF ClientPostFull, Holding, Telling
    <2>2. FirstRoom => FirstRoom'
      BY <1>2, <1>3, <1>4, <1>5, <2>1 DEF FirstRoom
    <2> QED
      BY <1>2, <1>5, <1>8, <1>10, <2>1, <2>2 DEF FirstInv
  <1>11. CASE PlaceJob(c) /\ ~Occupied(j[c])
    <2>1. R' = R - 1 /\ U' = U + 1 /\ UNCHANGED <<empty, full>>
      BY <1>0, <1>3, <1>11, MoveCounts DEF PlaceJob, Holding, Telling, semaphores
    <2>2. j[c] \in Slots /\ j[c] \notin OccupiedSlots /\ pages[c] >= 0
      <3>1. pages[c] \in Pages
        BY <1>0, <1>11 DEF PlaceJob, MemoryTyped
      <3>2. pages[c] \in Nat
        BY <3>1, ServerAssumption
      <3>3. j[c] \in Slots
        BY <1>0 DEF MemoryTyped
      <3> QED
        BY <1>11, <3>2, <3>3 DEF OccupiedSlots
    <2>3. OccupiedSlots' = OccupiedSlots \cup {j[c]}
      BY <1>0, <1>11, <2>2 DEF PlaceJob, MemoryTyped, OccupiedSlots, Occupied
    <2>4. ASSUME ppc # "dead" PROVE FirstRoom => FirstRoom'
      <3>1. /\ Genuine' = Genuine \cup {j[c]} /\ j[c] \notin Genuine
        BY <1>2, <2>2, <2>3, <2>4 DEF FirstInv, Genuine
      <3>2. Cardinality(Genuine \cup {j[c]}) = G + 1
        BY <3>1, FiniteGenuine, FS_AddElement
      <3> QED
        BY <1>2, <1>3, <1>4, <2>1, <3>1, <3>2 DEF FirstRoom
    <2> QED
      BY <1>2, <1>8, <1>11, <2>3, <2>4 DEF FirstInv
  <1> QED
    BY <1>6, <1>7, <1>9, <1>10, <1>11 DEF ClientStep, Probe, PlaceJob

\* What the loop of the first printer does to them.
LEMMA FirstLoop ==
  ASSUME RTyped, FirstInv, PrinterStep
  PROVE  Uncleared' = {} /\ ~Waits' /\ FirstRoom'
  <1> DEFINE R == Cardinality(Reserved)
             U == Cardinality(Unannounced)
             G == Cardinality(OccupiedSlots)
  <1>1. ppc \in Loop /\ ppc' \in Loop /\ R' = R /\ U' = U
    <2>1. pc' = pc
      BY DEF PrinterStep, PrinterWaitFull, PrinterWaitBinary, SearchNext,
             TakeJob, PrinterPostBinary, PrinterPostEmpty, FinishJob, clientVars
    <2> QED
      BY <2>1, LoopSteps DEF Reserved, Unannounced
  <1>2. /\ Uncleared = {} /\ Uncleared' = {} /\ ~Waits /\ ~Waits'
        /\ ppc # "dead"
    BY <1>1, Phases DEF Uncleared, Waits, StartupSteps
  <1>3. Genuine = OccupiedSlots /\ Genuine' = OccupiedSlots'
    BY <1>2 DEF Genuine
  <1>4. /\ R \in Nat /\ U \in Nat /\ G \in Nat
        /\ empty \in Nat /\ full \in Nat /\ Announced \in Nat
    BY Finite DEF RTyped, MemoryTyped, Announced
  <1>5. empty + R + G + Returning = Length /\ Announced + U = G
    BY <1>2, <1>3 DEF FirstInv, FirstRoom
  <1>6. SUFFICES /\ empty' + R + G' + Returning' = Length
                 /\ Announced' + U = G'
    BY <1>1, <1>2, <1>3 DEF FirstRoom
  <1>7. CASE TakeJob
    <2>1. i \in OccupiedSlots
      BY <1>7 DEF TakeJob, Due, OccupiedSlots, RTyped, MemoryTyped
    <2>2. OccupiedSlots' = OccupiedSlots \ {i}
      BY <1>7, <2>1
      DEF TakeJob, OccupiedSlots, Occupied, Cleared, RTyped, MemoryTyped
    <2>3. G' = G - 1
      BY <2>1, <2>2, Finite, FS_RemoveElement
    <2>4. /\ Returning = 0 /\ Returning' = 1 /\ Announced' = Announced - 1
          /\ empty' = empty
      BY <1>4, <1>7 DEF TakeJob, Returning, Announced, semaphores
    <2> HIDE DEF R, U, G
    <2> QED
      BY <1>4, <1>5, <2>3, <2>4
  <1>8. CASE ~TakeJob
    <2>1. arr' = arr
      BY <1>8 DEF PrinterStep, PrinterWaitFull, PrinterWaitBinary, SearchNext,
                  PrinterPostBinary, PrinterPostEmpty, FinishJob
    <2>2. G' = G
      BY <2>1 DEF OccupiedSlots, Occupied
    <2>3. empty' + Returning' = empty + Returning /\ Announced' = Announced
          /\ empty' \in Nat /\ Returning' \in Nat /\ Returning \in Nat
      BY <1>4, <1>8
      DEF PrinterStep, PrinterWaitFull, PrinterWaitBinary, SearchNext,
          PrinterPostBinary, PrinterPostEmpty, FinishJob, Returning, Announced,
          semaphores
    <2> HIDE DEF R, U, G
    <2>4. empty + Returning + R + G = Length
      BY <1>4, <1>5, <2>3
    <2>5. empty' + Returning' + R + G = Length
      BY <2>3, <2>4
    <2> QED
      BY <1>4, <1>5, <2>2, <2>3, <2>5
  <1> QED
    BY <1>7, <1>8

\* What its start does.  No sem_init wipes out a sem_post: `full' is still 0,
\* for no job is in the memory.  Clearing a slot gives nothing back and takes
\* nothing away.
LEMMA FirstStarts ==
  ASSUME RTyped, FirstInv, StartupStep
  PROVE  /\ LockInv' /\ ppc' # "initBinary"
         /\ Uncleared' \subseteq OccupiedSlots'
         /\ Waits' => FirstWaits'
         /\ ~Waits' => FirstRoom'
  <1>0. MemoryTyped /\ ControlTyped /\ LockInv /\ FirstInv
    BY DEF RTyped, FirstInv
  <1>1. /\ ppc \in StartupSteps /\ ppc # "dead" /\ ppc' # "initBinary"
        /\ UNCHANGED clientVars /\ pc' = pc
        /\ ~PrinterLocks'
    BY DEF StartupStep, InitBinary, InitEmpty, InitFull, InitIndices,
           ClearTime, ClearRest, StartupSteps, clientVars, PrinterLocks
  <1>2. /\ Reserved' = Reserved /\ Unannounced' = Unannounced
        /\ InFlight' <=> InFlight
        /\ \A c \in Clients : ClientLocks(c)' <=> ClientLocks(c)
    BY <1>1 DEF Reserved, Unannounced, InFlight, ClientLocks
  <1> DEFINE R == Cardinality(Reserved)
             U == Cardinality(Unannounced)
             G == Cardinality(Genuine)
  <1>3. R \in Nat /\ U \in Nat /\ G \in Nat /\ full \in Nat
    BY <1>0, Finite, FiniteGenuine DEF MemoryTyped
  <1>4. ~InFlight => R = 0 /\ U = 0
    BY FS_EmptySet DEF InFlight
  <1>5. LockInv'
    <2>1. CASE InitBinary
      <3>1. ~InFlight /\ binary' = 1
        BY <1>0, <2>1 DEF InitBinary, FirstInv, Waits, FirstWaits
      <3> QED
        BY <1>0, <1>1, <1>2, <3>1, AtWork DEF LockInv, MutualExclusion
    <2>2. CASE ~InitBinary
      <3>1. binary' = binary
        BY <2>2 DEF StartupStep, InitEmpty, InitFull, InitIndices, ClearTime,
                    ClearRest, semaphores
      <3> QED
        BY <1>0, <1>1, <1>2, <3>1 DEF LockInv, MutualExclusion
    <2> QED
      BY <2>1, <2>2
  <1>6. full' \in Nat
    BY StartsTyped DEF MemoryTyped
  <1>7. CASE InitBinary \/ InitEmpty \/ InitFull \/ InitIndices
    <2>1. i = 0 /\ i' = 0 /\ arr' = arr /\ ppc \notin {"clear", "clearRest"}
          /\ ppc' \in StartupSteps \ {"clearRest"}
      BY <1>0, <1>7
      DEF InitBinary, InitEmpty, InitFull, InitIndices, ControlTyped, Loop,
          StartupSteps
    <2>2. Uncleared = Slots /\ Uncleared' = Slots
      BY <1>1, <2>1 DEF Uncleared, Slots
    <2>3. OccupiedSlots' = OccupiedSlots /\ OccupiedSlots \subseteq Slots
      BY <2>1 DEF OccupiedSlots, Occupied
    <2>4. Uncleared' \subseteq OccupiedSlots'
      BY <1>0, <1>1, <2>2, <2>3 DEF FirstInv
    <2>5. Genuine = {} /\ Genuine' = {} /\ G = 0 /\ G' = 0
      <3>1. Genuine = {} /\ Genuine' = {}
        BY <2>2, <2>3 DEF Genuine
      <3> QED
        BY <3>1, FS_EmptySet
    <2>6. R' = R /\ U' = U
      BY <1>2
    <2>7. Returning = 0 /\ Returning' = 0 /\ Announced = full
          /\ Announced' = full'
      <3>1. /\ ppc \notin {"postBinary", "postEmpty", "waitBinary", "search"}
            /\ ppc' \notin {"postBinary", "postEmpty", "waitBinary", "search"}
        BY <1>1, <2>1 DEF StartupSteps
      <3>2. Returning = 0 /\ Returning' = 0
        BY <3>1 DEF Returning
      <3>3. Announced = full + 0 /\ Announced' = full' + 0
        BY <3>1 DEF Announced
      <3>4. \A n \in Nat : n + 0 = n
        OBVIOUS
      <3>5. full \in Nat /\ full' \in Nat
        BY <1>3, <1>6
      <3> QED
        BY <3>2, <3>3, <3>4, <3>5
    <2>8. Waits' => FirstWaits'
      BY <1>0, <1>2, <1>7
      DEF InitBinary, InitEmpty, InitFull, InitIndices, Waits, FirstInv,
          FirstWaits
    <2>9. ASSUME ~Waits' PROVE FirstRoom'
      <3>1. CASE InitEmpty
        <4>1. ~InFlight /\ empty' = Length /\ full' = 0
          BY <1>0, <3>1 DEF InitEmpty, FirstInv, Waits, FirstWaits
        <4> QED
          BY <1>4, <2>5, <2>6, <2>7, <4>1, Sizes DEF FirstRoom
      <3>2. CASE InitFull \/ InitIndices
        <4>1. FirstRoom /\ empty' = empty
          BY <1>0, <1>1, <3>2
          DEF InitFull, InitIndices, FirstInv, Waits, semaphores
        <4>2. full + U = 0
          BY <2>5, <2>7, <4>1 DEF FirstRoom
        <4>3. full' = full
          BY <1>3, <3>2, <4>2 DEF InitFull, InitIndices, semaphores
        <4> QED
          BY <2>5, <2>6, <2>7, <4>1, <4>3 DEF FirstRoom
      <3> QED
        BY <1>7, <2>9, <3>1, <3>2 DEF InitBinary, Waits
    <2> QED
      BY <1>1, <1>5, <2>4, <2>8, <2>9
  <1>8. CASE ClearTime \/ ClearRest
    <2>1. /\ UNCHANGED semaphores /\ ~Waits /\ ~Waits'
          /\ Returning' = Returning /\ Announced' = Announced
      BY <1>8 DEF ClearTime, ClearRest, Waits, Returning, Announced, semaphores
    <2>2. Uncleared' \subseteq OccupiedSlots' /\ Genuine' = Genuine
      <3>1. CASE ClearTime
        <4>1. Uncleared' = Uncleared \ {i} /\ i \in Slots
          BY <1>0, <3>1 DEF ClearTime, Uncleared, StartupSteps, MemoryTyped, Slots
        <4>2. OccupiedSlots' = OccupiedSlots \ {i}
          BY <1>0, <3>1 DEF ClearTime, OccupiedSlots, Occupied, MemoryTyped
        <4>3. i \in Uncleared
          BY <1>0, <3>1 DEF ClearTime, Uncleared, StartupSteps, MemoryTyped
        <4> QED
          BY <1>0, <1>1, <4>1, <4>2, <4>3 DEF Genuine, FirstInv
      <3>2. CASE ClearRest
        <4>1. Uncleared' = Uncleared
          <5>1. i \in 0 .. Length - 1
            BY <1>0 DEF MemoryTyped, Slots
          <5>2. CASE i + 1 < Length
            <6>1. i' = i + 1 /\ ppc = "clearRest" /\ ppc' = "clear"
              BY <3>2, <5>2 DEF ClearRest
            <6>2. \A s \in 0 .. Length - 1 : (s > i + 1 \/ s = i + 1) <=> s > i
              BY <5>1
            <6> QED
              BY <6>1, <6>2 DEF Uncleared, StartupSteps, Slots
          <5>3. CASE ~(i + 1 < Length)
            <6>1. ppc = "clearRest" /\ ppc' = "waitFull"
              BY <3>2, <5>3 DEF ClearRest
            <6>2. \A s \in 0 .. Length - 1 : ~(s > i)
              BY <5>1, <5>3, Sizes
            <6> QED
              BY <6>1, <6>2 DEF Uncleared, StartupSteps, Slots
          <5> QED
            BY <5>2, <5>3
        <4>2. \A s \in Slots : arr'[s].time = arr[s].time
          BY <1>0, <3>2 DEF ClearRest, MemoryTyped
        <4>3. OccupiedSlots' = OccupiedSlots
          BY <4>2 DEF OccupiedSlots, Occupied
        <4> QED
          BY <1>0, <1>1, <4>1, <4>3 DEF Genuine, FirstInv
      <3> QED
        BY <1>8, <3>1, <3>2
    <2>3. FirstRoom'
      BY <1>0, <1>1, <1>2, <2>1, <2>2 DEF FirstInv, FirstRoom, semaphores
    <2> QED
      BY <1>1, <1>5, <2>1, <2>2, <2>3
  <1> QED
    BY <1>7, <1>8 DEF StartupStep

LEMMA FirstStep ==
  ASSUME RTyped, restarts = 0 => FirstInv, [RestartNext]_restartVars
  PROVE  restarts' = 0 => FirstInv'
  <1> SUFFICES ASSUME restarts' = 0 PROVE FirstInv'
    OBVIOUS
  <1>0. MemoryTyped /\ restarts \in Nat
    BY DEF RTyped, ControlTyped
  <1>1. ~Restart
    BY <1>0 DEF Restart
  <1>2. FirstInv
    BY <1>0, <1>1 DEF RestartNext, Kill, Starts, Serves, restartVars, history
  <1>3. CASE Kill
    <2>1. LockInv'
      BY <1>2, <1>3
      DEF Kill, FirstInv, LockInv, MutualExclusion, ClientLocks, PrinterLocks,
          semaphores, clientVars
    <2> QED
      BY <1>3, <2>1 DEF Kill, FirstInv, Waits
  <1>4. CASE Starts
    BY <1>2, <1>4, FirstStarts DEF Starts, FirstInv
  <1>5. CASE Serves
    <2>1. LockInv'
      BY <1>0, <1>2, <1>5, LockKept DEF Serves, MemoryTyped, FirstInv
    <2>2. ASSUME NEW c \in Clients, Launch(c) \/ ClientStep(c) PROVE FirstInv'
      <3>1. ppc' = ppc /\ (Waits' <=> Waits)
        BY <2>2, ClientsApart DEF printerVars, Waits
      <3>2. /\ ppc # "dead" => Uncleared' \subseteq OccupiedSlots'
            /\ Waits => FirstWaits'
            /\ ~Waits /\ ppc # "dead" => FirstRoom'
        BY <1>2, <2>2, FirstClients
      <3>3. ppc = "initBinary" => binary' = 0
        BY <1>0, <1>2, <2>2, AtWork
        DEF FirstInv, FirstWaits, Waits, Launch, ClientStep, ClientWaitEmpty,
            ClientWaitBinary, Probe, ProbeNext, PlaceJob, ClientPostBinary,
            ClientPostFull, semaphores
      <3> QED
        BY <2>1, <3>1, <3>2, <3>3 DEF FirstInv
    <2>3. CASE PrinterStep
      <3>1. Uncleared' = {} /\ ~Waits' /\ FirstRoom'
        BY <1>2, <2>3, FirstLoop
      <3> QED
        BY <2>1, <3>1 DEF FirstInv, Waits
    <2> QED
      BY <1>5, <2>2, <2>3 DEF Serves, Next
  <1>6. CASE UNCHANGED restartVars
    BY <1>2, <1>6
    DEF restartVars, startupVars, vars, semaphores, clientVars, printerVars, FirstInv,
        LockInv, MutualExclusion, ClientLocks, PrinterLocks, Uncleared,
        OccupiedSlots, Occupied, Waits, FirstWaits, InFlight, Reserved,
        Unannounced, FirstRoom, Genuine, Returning, Announced
  <1> QED
    BY <1>1, <1>3, <1>4, <1>5, <1>6 DEF RestartNext
-----------------------------------------------------------------------------
(* A later printer that no client disturbs. *)

\* Before sem_init(empty) clients may still be at work with what the former
\* printer left.  The lock is whole again from sem_init(binary) on, if none of
\* them is inside when it comes: one that enters later leaves by the new value.
LaterLock ==
  /\ LockInv /\ data = 0 /\ current = 0
  /\ binary = 0 => \E c \in Clients : ClientLocks(c)

\* After it no client is at work, and none comes without making the start an
\* early one.  What each step has set stays set.
Fresh ==
  /\ ~InFlight /\ empty = Length /\ binary = 1 /\ data = 0 /\ current = 0
  /\ ppc # "initFull" => full = 0
  /\ ppc \in {"clear", "clearRest"} =>
       /\ number = 0 /\ num = 0
       /\ \A s \in 0 .. i - 1 : arr[s] = Cleared
  /\ ppc = "clearRest" => arr[i].time = -1

LaterInv ==
  /\ ~early /\ ppc = "initEmpty" => LaterLock
  /\ ~early /\ EmptyIsNew => Fresh
  /\ ~early /\ Running => IInv

RInv == RTyped /\ (restarts = 0 => FirstInv) /\ LaterInv

\* Such a start ends where PrintServer begins, except that clients may have been
\* launched meanwhile: they wait at sem_wait(empty), or did until now.
Begins == ppc = "waitFull" /\ job = NoJob /\ ~InFlight /\ ReadyState

LEMMA BeginsRight == RTyped /\ Begins => IInv
  <1> SUFFICES ASSUME RTyped, Begins PROVE IInv
    OBVIOUS
  <1>1. /\ ppc = "waitFull" /\ job = NoJob /\ ~InFlight
        /\ empty = Length /\ full = 0 /\ binary = 1
        /\ arr = [s \in Slots |-> Cleared]
        /\ number = 0 /\ num = 0 /\ data = 0 /\ current = 0
    BY DEF Begins, ReadyState
  <1>2. TypeOK
    <2>1. Cleared \in [time : Pages \cup {-1}, pages : Pages \cup {-1},
                       id : Clients \cup {NoClient}, num : Tickets]
      BY Zero DEF Cleared
    <2>2. NoJob \in [id : Clients \cup {NoClient}, pages : Pages \cup {-1}]
      BY DEF NoJob
    <2> QED
      BY <1>1, <2>1, <2>2 DEF TypeOK, RTyped, MemoryTyped
  <1>3. LockInv
    BY <1>1, AtWork DEF LockInv, MutualExclusion, PrinterLocks
  <1>4. /\ Reserved = {} /\ Unannounced = {} /\ OccupiedSlots = {}
        /\ \A s \in Slots : ~Occupied(s)
    BY <1>1 DEF InFlight, OccupiedSlots, Occupied, Cleared
  <1>5. /\ Cardinality(Reserved) = 0 /\ Cardinality(Unannounced) = 0
        /\ Cardinality(OccupiedSlots) = 0
    BY <1>4, FS_EmptySet
  <1>6. Filled = 0 /\ Returning = 0 /\ HeadSlot = 0 /\ HeadTicket = 0
    BY <1>1, <1>5 DEF Filled, Announced, Returning, HeadSlot, HeadTicket, Taken
  <1>7. RoomInv
    BY <1>1, <1>5, <1>6, Sizes DEF RoomInv
  <1>8. RingInv
    <2>1. \A s \in Slots : Dist(0, s) \in 0 .. Length - 1
      BY Zero, Sizes DEF Dist, Slots
    <2>2. \A s \in Slots : ~(Dist(0, s) < 0)
      BY <2>1
    <2>3. Ahead(0, 0) = 0
      BY Sizes DEF Ahead
    <2> QED
      BY <1>1, <1>4, <1>5, <1>6, <2>2, <2>3 DEF RingInv
  <1>9. TicketInv
    <2>1. Back(0, 0) = 0
      BY DEF Back
    <2> QED
      BY <1>1, <1>4, <1>6, <2>1 DEF TicketInv
  <1>10. ClientInv
    BY <1>1, AtWork DEF ClientInv, RTyped, MemoryTyped
  <1> QED
    BY <1>2, <1>3, <1>7, <1>8, <1>9, <1>10 DEF IInv

LEMMA BeginsNext == RTyped' /\ Begins' => IInv'
  BY BeginsRight, PTL

\* What the steps of an undisturbed start do.
LEMMA LaterStarts ==
  ASSUME RTyped, LaterInv, StartupStep, ~early, ~InFlight
  PROVE  /\ ppc' = "initEmpty" => LaterLock'
         /\ EmptyIsNew' => Fresh'
         /\ Running' => Begins'
  <1>0. MemoryTyped /\ ControlTyped
    BY DEF RTyped
  <1>1. /\ pc' = pc /\ job' = job /\ job = NoJob
        /\ InFlight' <=> InFlight
        /\ \A c \in Clients : ClientLocks(c)' <=> ClientLocks(c)
    BY <1>0
    DEF StartupStep, InitBinary, InitEmpty, InitFull, InitIndices, ClearTime,
        ClearRest, clientVars, InFlight, Reserved, Unannounced, ClientLocks,
        ControlTyped, Loop
  <1>2. \A c \in Clients : ~ClientLocks(c)
    BY AtWork
  <1>3. CASE InitBinary
    <2>1. LaterLock'
      BY <1>1, <1>2, <1>3
      DEF InitBinary, LaterLock, LockInv, MutualExclusion, PrinterLocks
    <2> QED
      BY <1>3, <2>1
      DEF InitBinary, EmptyIsNew, Running, Started, StartupSteps
  <1>4. CASE InitEmpty
    <2>1. binary = 1 /\ data = 0 /\ current = 0
      BY <1>2, <1>4 DEF InitEmpty, LaterInv, LaterLock, LockInv
    <2>2. Fresh'
      BY <1>1, <1>4, <2>1 DEF InitEmpty, Fresh
    <2> QED
      BY <1>4, <2>2 DEF InitEmpty, Running, Started, StartupSteps
  <1>5. CASE InitFull \/ InitIndices
    <2>1. Fresh /\ i = 0
      BY <1>0, <1>5
      DEF InitFull, InitIndices, LaterInv, EmptyIsNew, StartupSteps,
          ControlTyped, Loop
    <2>2. Fresh'
      BY <1>1, <1>5, <2>1 DEF InitFull, InitIndices, Fresh, semaphores
    <2> QED
      BY <1>5, <2>2 DEF InitFull, InitIndices, Running, Started, StartupSteps
  <1>6. CASE ClearTime
    <2>1. Fresh
      BY <1>6 DEF ClearTime, LaterInv, EmptyIsNew, StartupSteps
    <2>2. /\ i \in Slots /\ arr'[i].time = -1
          /\ \A s \in 0 .. i - 1 : arr'[s] = arr[s]
      BY <1>0, <1>6 DEF ClearTime, MemoryTyped, Slots
    <2>3. Fresh'
      BY <1>1, <1>6, <2>1, <2>2 DEF ClearTime, Fresh, semaphores
    <2> QED
      BY <1>6, <2>3 DEF ClearTime, Running, Started, StartupSteps
  <1>7. CASE ClearRest
    <2>1. Fresh
      BY <1>7 DEF ClearRest, LaterInv, EmptyIsNew, StartupSteps
    <2>2. /\ i \in Slots /\ arr[i].time = -1 /\ ~Occupied(i)
      BY <1>0, <1>7, <2>1 DEF ClearRest, Fresh, MemoryTyped, Occupied
    <2>3. arr' = [arr EXCEPT ![i] = Cleared]
      BY <1>7, <2>2 DEF ClearRest, Raced, Cleared
    <2>4. \A s \in 0 .. i : arr'[s] = Cleared
      <3>1. /\ i \in 0 .. Length - 1 /\ DOMAIN arr = 0 .. Length - 1
            /\ \A s \in 0 .. i - 1 : arr[s] = Cleared
        BY <1>0, <1>7, <2>1, <2>2 DEF MemoryTyped, Slots, Fresh, ClearRest
      <3> QED
        BY <2>3, <3>1
    <2>5. CASE i + 1 < Length
      <3>1. i' = i + 1 /\ ppc' = "clear"
        BY <1>7, <2>5 DEF ClearRest
      <3>2. \A s \in 0 .. i' - 1 : arr'[s] = Cleared
        BY <2>2, <2>4, <3>1 DEF Slots
      <3>3. Fresh'
        BY <1>1, <1>7, <2>1, <3>1, <3>2 DEF ClearRest, Fresh, semaphores
      <3> QED
        BY <3>1, <3>3 DEF Running, Started, StartupSteps
    <2>6. CASE ~(i + 1 < Length)
      <3>1. ppc' = "waitFull"
        BY <1>7, <2>6 DEF ClearRest
      <3>2. \A s \in Slots : arr'[s] = Cleared
        BY <2>2, <2>4, <2>6, Sizes DEF Slots
      <3>3. arr' = [s \in Slots |-> Cleared]
        BY <1>0, <2>3, <3>2 DEF MemoryTyped
      <3>4. Begins'
        BY <1>1, <1>7, <2>1, <3>1, <3>3
        DEF ClearRest, Fresh, Begins, ReadyState, semaphores
      <3> QED
        BY <3>1, <3>4 DEF EmptyIsNew, StartupSteps
    <2> QED
      BY <2>5, <2>6
  <1> QED
    BY <1>3, <1>4, <1>5, <1>6, <1>7 DEF StartupStep

LEMMA LaterStep ==
  ASSUME RInv, RTyped', [RestartNext]_restartVars
  PROVE  LaterInv'
  <1>0. /\ RTyped /\ LaterInv /\ MemoryTyped /\ ControlTyped /\ ControlTyped'
        /\ early \in BOOLEAN
    BY DEF RInv, RTyped, ControlTyped
  <1>1. CASE Kill \/ Restart
    BY <1>1
    DEF Kill, Restart, LaterInv, EmptyIsNew, Running, Started, StartupSteps
  <1>2. CASE Starts
    <2> SUFFICES ASSUME ~early' PROVE LaterInv'
      BY DEF LaterInv
    <2>1. ~early /\ ~InFlight
      BY <1>2 DEF Starts
    <2>2. Running' => IInv'
      BY <1>0, <1>2, <2>1, LaterStarts, BeginsNext DEF Starts
    <2> QED
      BY <1>0, <1>2, <2>1, <2>2, LaterStarts DEF Starts, LaterInv
  <1>3. CASE Serves
    <2> SUFFICES ASSUME ~early' PROVE LaterInv'
      BY DEF LaterInv
    <2>1. /\ ~early /\ Next
          /\ EmptyIsNew => \A c \in Clients : ~ClientWaitEmpty(c)
      BY <1>3 DEF Serves
    <2>2. Running => IInv'
      BY <1>0, <2>1, InvStep DEF LaterInv
    <2>3. ASSUME NEW c \in Clients, Launch(c) \/ ClientStep(c) PROVE LaterInv'
      <3>1. /\ ppc' = ppc /\ data' = data /\ current' = current /\ i' = i
            /\ (Running' <=> Running) /\ (EmptyIsNew' <=> EmptyIsNew)
        BY <2>3, ClientsApart DEF printerVars, Running, Started, EmptyIsNew
      <3>2. ASSUME ppc = "initEmpty" PROVE LaterLock'
        <4>1. LaterLock
          BY <1>0, <2>1, <3>2 DEF LaterInv
        <4>2. LockInv'
          BY <1>0, <2>1, <4>1, LockKept DEF LaterLock, MemoryTyped
        <4>3. binary' = 0 => \E d \in Clients : ClientLocks(d)'
          <5>1. CASE ClientWaitBinary(c) \/ PlaceJob(c)
            BY <1>0, <5>1
            DEF ClientWaitBinary, PlaceJob, GoTo, ClientLocks, MemoryTyped
          <5>2. CASE ClientPostBinary(c)
            BY <1>0, <5>2 DEF ClientPostBinary, MemoryTyped
          <5>3. CASE \/ Launch(c) \/ ClientWaitEmpty(c) \/ ProbeNext(c)
                     \/ ClientPostFull(c)
            BY <1>0, <4>1, <5>3
            DEF Launch, ClientWaitEmpty, ProbeNext, ClientPostFull, GoTo,
                ClientLocks, MemoryTyped, LaterLock, semaphores
          <5> QED
            BY <2>3, <5>1, <5>2, <5>3 DEF ClientStep, Probe
        <4> QED
          BY <3>1, <4>1, <4>2, <4>3 DEF LaterLock
      <3>3. ASSUME EmptyIsNew PROVE Fresh'
        <4>1. Fresh
          BY <1>0, <2>1, <3>3 DEF LaterInv
        <4>2. pc[c] \in {"exited", "waitEmpty"}
          BY <1>0, <4>1, AtWork DEF Fresh
        <4>3. Launch(c)
          BY <2>1, <2>3, <3>3, <4>2
          DEF ClientStep, ClientWaitBinary, Probe, ProbeNext, PlaceJob,
              ClientPostBinary, ClientPostFull
        <4>4. ~InFlight'
          BY <1>0, <4>1, <4>3
          DEF Launch, GoTo, InFlight, Fresh, Reserved, Unannounced, MemoryTyped
        <4> QED
          BY <3>1, <4>1, <4>3, <4>4 DEF Launch, Fresh, semaphores
      <3> QED
        BY <2>2, <3>1, <3>2, <3>3 DEF LaterInv
    <2>4. CASE PrinterStep
      <3>1. ppc \in Loop /\ ppc' \in Loop
        BY <2>4, LoopSteps
      <3>2. Running /\ Running' /\ ~EmptyIsNew' /\ ppc' # "initEmpty"
        BY <1>0, <3>1
        DEF Loop, Running, Started, EmptyIsNew, StartupSteps
      <3> QED
        BY <2>2, <3>2 DEF LaterInv
    <2> QED
      BY <2>1, <2>3, <2>4 DEF Next
  <1>4. CASE UNCHANGED restartVars
    <2>1. [Next]_vars /\ early' = early
      BY <1>4 DEF restartVars, startupVars, history
    <2>2. /\ IInv => IInv'
          /\ Running' = Running
      BY <1>4, <2>1, InvStep
      DEF restartVars, startupVars, vars, printerVars, Running, Started
    <2>3. (LaterLock => LaterLock') /\ (Fresh => Fresh')
      BY <1>4
      DEF restartVars, startupVars, vars, semaphores, clientVars, printerVars, LaterLock,
          LockInv, MutualExclusion, ClientLocks, PrinterLocks, Fresh, InFlight,
          Reserved, Unannounced
    <2> QED
      BY <1>0, <1>4, <2>1, <2>2, <2>3
      DEF LaterInv, EmptyIsNew, restartVars, startupVars, vars, printerVars
  <1> QED
    BY <1>1, <1>2, <1>3, <1>4 DEF RestartNext
-----------------------------------------------------------------------------
(* What the invariant says of the properties. *)

LEMMA RestartInvInit == RestartInit => RInv
  <1> SUFFICES ASSUME RestartInit PROVE RInv
    OBVIOUS
  <1>1. ppc = "initBinary"
    BY DEF RestartInit, StartupInit
  <1>2. LaterInv
    BY <1>1 DEF LaterInv, EmptyIsNew, Running, Started, StartupSteps
  <1> QED
    BY <1>2, RestartTypeInit, FirstInit DEF RInv

LEMMA RestartInvStep == RInv /\ [RestartNext]_restartVars => RInv'
  <1> SUFFICES ASSUME RInv, [RestartNext]_restartVars PROVE RInv'
    OBVIOUS
  <1>1. RTyped'
    BY RestartTypeStep DEF RInv
  <1> QED
    BY <1>1, FirstStep, LaterStep DEF RInv

\* Both halves of the invariant hold however often the printer is killed.
THEOREM RestartInvCorrect == RestartSpec => []RInv
  BY RestartInvInit, RestartInvStep, PTL DEF RestartSpec

\* The lock excludes for the whole life of the first printer, and in the loop of
\* every later one that no client disturbed while it started.
THEOREM ExclusionCorrect == RestartSpec => []ExclusionRestored
  <1>1. RInv => ExclusionRestored
    BY DEF RInv, FirstInv, LaterInv, IInv, LockInv, ExclusionRestored,
           Answerable
  <1> QED
    BY <1>1, RestartInvCorrect, PTL

\* In the same printers' loops empty and full account for every slot, whatever
\* the former printers were in the middle of when they were killed.
THEOREM AccountCorrect == RestartSpec => []AccountRestored
  <1>1. RInv => AccountRestored
    <2> SUFFICES ASSUME RInv, Answerable, Running PROVE SemaphoresAccount
      BY DEF AccountRestored
    <2>1. CASE restarts = 0
      <3>1. ppc \in Loop
        BY Phases DEF RInv, RTyped
      <3>2. Uncleared = {} /\ ~Waits /\ ppc # "dead"
        BY <3>1, Phases DEF Uncleared, Waits, StartupSteps
      <3>3. FirstRoom /\ Genuine = OccupiedSlots
        BY <2>1, <3>2 DEF RInv, FirstInv, Genuine
      <3>4. /\ empty + Cardinality(Reserved) + Cardinality(OccupiedSlots)
                 + Returning = Length
            /\ Announced + Cardinality(Unannounced) = Cardinality(OccupiedSlots)
        BY <3>3 DEF FirstRoom
      <3>5. Announced + Cardinality(Unannounced)
              = full + Cardinality(Unannounced)
                  + (IF ppc \in {"waitBinary", "search"} THEN 1 ELSE 0)
        BY Finite DEF Announced, RInv, RTyped, MemoryTyped
      <3> QED
        BY <3>4, <3>5 DEF SemaphoresAccount, Returning
    <2>2. CASE restarts # 0
      BY <2>2, Accounts DEF Answerable, RInv, LaterInv
    <2> QED
      BY <2>1, <2>2
  <1> QED
    BY <1>1, RestartInvCorrect, PTL

\* A start that no client disturbs ends with the memory as PrintServer's Init
\* has it, from whatever the former printers and their clients left there.
THEOREM ReadyCorrect == RestartSpec => ReadyUnlessEarly
  <1> DEFINE Ready == ~Running /\ Running' /\ ~early => ReadyState'
  <1>1. ASSUME RInv, RestartNext PROVE Ready
    <2> SUFFICES ASSUME ~Running, Running', ~early PROVE ReadyState'
      OBVIOUS
    <2>0. RTyped /\ LaterInv /\ ControlTyped
      BY <1>1 DEF RInv, RTyped
    <2>1. ~Kill /\ ~Restart
      BY DEF Kill, Restart, Running, Started, StartupSteps
    <2>2. ~Serves
      <3>1. ASSUME NEW c \in Clients, Launch(c) \/ ClientStep(c) PROVE FALSE
        BY <3>1, ClientsApart DEF printerVars, Running, Started
      <3>2. ~PrinterStep
        BY <2>0, LoopSteps, Phases
      <3> QED
        BY <3>1, <3>2 DEF Serves, Next
    <2>3. ClearRest /\ StartupStep
      BY <1>1, <2>1, <2>2
      DEF RestartNext, Starts, StartupStep, InitBinary, InitEmpty, InitFull,
          InitIndices, ClearTime, Running, Started, StartupSteps
    <2>4. ~InFlight
      BY <2>0, <2>3
      DEF ClearRest, LaterInv, EmptyIsNew, StartupSteps, Fresh
    <2> QED
      BY <2>0, <2>3, <2>4, LaterStarts DEF Begins
  <1>2. RInv /\ [RestartNext]_restartVars => [Ready]_restartVars
    BY <1>1
  <1>3. RestartSpec => [][Ready]_restartVars
    BY <1>2, RestartInvCorrect, PTL DEF RestartSpec
  <1> QED
    BY <1>3 DEF ReadyUnlessEarly
-----------------------------------------------------------------------------
(* The loop of an undisturbed printer. *)

\* What the invariants of PrintServer say besides, once its loop is reached: who
\* has the lock, and that the jobs in the buffer are those of clients.
LoopInv == Running /\ ~early => HeldInv /\ JobInv

\* A step into the loop of an undisturbed printer begins there, or is one of
\* PrintServer.
LEMMA LoopEntry ==
  ASSUME RInv, [RestartNext]_restartVars, Running', ~early'
  PROVE  Begins' \/ (Running /\ ~early /\ [Next]_vars)
  <1>0. /\ RTyped /\ LaterInv /\ ControlTyped
        /\ early \in BOOLEAN
    BY DEF RInv, RTyped, ControlTyped
  <1>1. CASE Kill \/ Restart
    BY <1>1 DEF Kill, Restart, Running, Started, StartupSteps
  <1>2. CASE Starts
    <2>1. ~early /\ ~InFlight /\ StartupStep
      BY <1>2 DEF Starts
    <2> QED
      BY <1>0, <2>1, LaterStarts
  <1>3. CASE Serves
    <2>1. Next /\ ~early
      BY <1>3 DEF Serves
    <2>2. Running
      <3>1. ASSUME NEW c \in Clients, Launch(c) \/ ClientStep(c) PROVE Running
        BY <3>1, ClientsApart DEF printerVars, Running, Started
      <3>2. CASE PrinterStep
        BY <1>0, <3>2, LoopSteps, Phases
      <3> QED
        BY <2>1, <3>1, <3>2 DEF Next
    <2> QED
      BY <2>1, <2>2
  <1>4. CASE UNCHANGED restartVars
    <2>1. UNCHANGED vars /\ early' = early
      BY <1>4 DEF restartVars, startupVars, history
    <2> QED
      BY <2>1 DEF vars, printerVars, Running, Started
  <1> QED
    BY <1>1, <1>2, <1>3, <1>4 DEF RestartNext

LEMMA LoopStep ==
  RInv /\ LoopInv /\ [RestartNext]_restartVars => LoopInv'
  <1> SUFFICES ASSUME RInv, LoopInv, [RestartNext]_restartVars,
                      Running', ~early'
               PROVE  HeldInv' /\ JobInv'
    BY DEF LoopInv
  <1>1. Begins' \/ (Running /\ ~early /\ [Next]_vars)
    BY LoopEntry
  <1>2. CASE Begins'
    BY <1>2 DEF Begins, ReadyState, HeldInv, JobInv, Occupied, Cleared, Taken
  <1>3. CASE Running /\ ~early /\ [Next]_vars
    <2>1. IInv /\ HeldInv /\ JobInv
      BY <1>3 DEF RInv, LaterInv, LoopInv
    <2> QED
      BY <1>3, <2>1, HeldStep, JobStep DEF IInv
  <1> QED
    BY <1>1, <1>2, <1>3

LEMMA LoopCorrect == RestartSpec => []LoopInv
  <1>1. RestartInit => LoopInv
    BY DEF RestartInit, StartupInit, LoopInv, Running, Started, StartupSteps
  <1> QED
    BY <1>1, LoopStep, RestartInvCorrect, PTL DEF RestartSpec

\* If all that are served sleep, then nobody holds the lock and none sleeps at
\* it, so the clients left are at sem_wait(empty).  No slot is taken then, and
\* `empty' counts all of them: only who is forgotten can still sleep there.
LEMMA AwakeLater == IInv /\ HeldInv => AwakeUnlessForgotten
  <1> DEFINE Served == {c \in Clients : pc[c] # "exited" /\ ~Forgotten(c)}
  <1> SUFFICES ASSUME IInv, HeldInv, PrinterAsleep,
                      \A c \in Served : ClientAsleep(c)
               PROVE  Served = {} /\ OccupiedSlots = {}
    BY DEF AwakeUnlessForgotten
  <1>0. \A c \in Clients :
          pc[c] \in {"exited", "waitEmpty"} \/ (pc[c] = "waitBinary" /\ binary = 0)
    BY DEF Forgotten, ClientAsleep
  <1>1. binary # 0
    <2>1. ~PrinterLocks /\ \A c \in Clients : ~ClientLocks(c)
      BY <1>0 DEF PrinterAsleep, PrinterLocks, ClientLocks
    <2> QED
      BY <2>1 DEF HeldInv
  <1>2. ppc = "waitFull" /\ full = 0
    BY <1>1 DEF PrinterAsleep
  <1>3. Reserved = {} /\ Unannounced = {}
    BY <1>0, <1>1 DEF Reserved, Unannounced
  <1>4. Filled = 0 /\ Returning = 0
    BY <1>2, <1>3, FS_EmptySet DEF Filled, Announced, Returning
  <1>5. empty = Length
    BY <1>3, <1>4, FS_EmptySet, Sizes DEF IInv, TypeOK, RoomInv
  <1>6. Served = {}
    BY <1>1, <1>5, Sizes DEF ClientAsleep
  <1>7. \A s \in Slots : ~Occupied(s)
    <2>1. HeadSlot \in Slots
      BY HeadTyped DEF IInv
    <2>2. \A s \in Slots : Dist(HeadSlot, s) \in Nat
      BY <2>1, Sizes DEF Dist, Slots
    <2> QED
      BY <1>4, <2>2 DEF IInv, RingInv
  <1> QED
    BY <1>6, <1>7 DEF OccupiedSlots

\* A printer that no client disturbed while it started finds its job wherever it
\* searches, its clients find room, and as long as a job is in the buffer or a
\* client is left that sem_init has not forgotten in sem_wait(empty), the printer
\* or such a client is not asleep: whatever the killed printers held, for any
\* number of clients and slots and any number of restarts.
THEOREM ServiceCorrect == RestartSpec => []ServiceRestored
  <1>1. RInv /\ LoopInv => ServiceRestored
    BY FindsJob, FindsRoom, AwakeLater
    DEF RInv, LaterInv, LoopInv, ServiceRestored
  <1> QED
    BY <1>1, RestartInvCorrect, LoopCorrect, PTL

\* Every step from its loop into its loop is a step of PrintQueue or leaves the
\* queue alone.
THEOREM OrderCorrect == RestartSpec => ServesInOrder
  <1> DEFINE InOrder == Running /\ Running' /\ ~early => QueueStep
  <1>1. ASSUME RInv, RInv', LoopInv, RestartNext PROVE InOrder
    <2> SUFFICES ASSUME Running, Running', ~early PROVE QueueStep
      OBVIOUS
    <2>1. RTyped /\ ControlTyped /\ IInv /\ JobInv
      BY <1>1 DEF RInv, RTyped, LaterInv, LoopInv
    <2>2. Next /\ ~early'
      <3>1. ~Kill /\ ~Restart
        BY DEF Kill, Restart, Running, Started, StartupSteps
      <3>2. ~Starts
        BY DEF Starts, StartupStep, InitBinary, InitEmpty, InitFull,
               InitIndices, ClearTime, ClearRest, Running, Started,
               StartupSteps
      <3>3. ~EmptyIsNew
        BY DEF EmptyIsNew, Running, Started
      <3> QED
        BY <1>1, <3>1, <3>2, <3>3 DEF RestartNext, Serves
    <2>3. IInv'
      BY <2>1, <2>2, InvStep
    <2> QED
      BY <2>1, <2>2, <2>3, QueueSteps
  <1>2. RInv /\ RInv' /\ LoopInv /\ [RestartNext]_restartVars
          => [InOrder]_restartVars
    BY <1>1
  <1>3. RestartSpec => [][InOrder]_restartVars
    BY <1>2, RestartInvCorrect, LoopCorrect, PTL DEF RestartSpec
  <1> QED
    BY <1>3 DEF ServesInOrder, QueueStep

\* Its jobs reach the pages as their clients gave them: what JobIntact says, and
\* clients that come early refute, holds of every other printer.
THEOREM IntactUnlessEarly ==
  RestartSpec => [](Running /\ ~early => JobIntact)
  <1>1. LoopInv => (Running /\ ~early => JobIntact)
    BY DEF LoopInv, JobInv, Jobs, Taken, JobIntact
  <1> QED
    BY <1>1, LoopCorrect, PTL
=============================================================================

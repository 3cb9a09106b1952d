-------------------------- MODULE PrintServerProof --------------------------
(***************************************************************************)
(* Proofs about PrintServer, for any clients, any buffer length and any    *)
(* width of the tickets that is at least the length.                       *)
(*                                                                         *)
(* The invariant IInv describes the buffer as a ring: the occupied slots   *)
(* are the Filled ones from HeadSlot on, the tickets count down along      *)
(* them, and `number' and `num' are the slot and the ticket that come      *)
(* next.  Filled is not counted in the buffer: it is what the semaphore    *)
(* `full' and the control states of the processes say there should be.     *)
(* QueueImplemented reads the ring as the sequence that PrintQueue is      *)
(* about.                                                                  *)
(***************************************************************************)
EXTENDS PrintServer, Sequences, FiniteSetTheorems, TLAPS

\* Remainders are only ever taken one step beyond the range.
LEMMA ModNext ==
  ASSUME NEW n \in Nat \ {0}, NEW x \in 0 .. n - 1
  PROVE  (x + 1) % n = IF x + 1 = n THEN 0 ELSE x + 1
  BY SMT

LEMMA ModPrev ==
  ASSUME NEW n \in Nat \ {0}, NEW x \in 0 .. n - 1
  PROVE  (x - 1) % n = IF x = 0 THEN n - 1 ELSE x - 1
  BY SMT

LEMMA Sizes == Length \in Nat \ {0} /\ IntSpan \in Nat \ {0} /\ IntSpan >= Length
  BY ServerAssumption
-----------------------------------------------------------------------------
(* Types. *)

LEMMA TypeInit == Init => TypeOK
  BY ServerAssumption DEF Init, TypeOK, Slots, Tickets, Cleared, NoJob

LEMMA TypeStep == TypeOK /\ [Next]_vars => TypeOK'
  <1> SUFFICES ASSUME TypeOK, [Next]_vars PROVE TypeOK'
    OBVIOUS
  <1> USE ServerAssumption, Sizes DEF TypeOK, Slots, Tickets
  <1>1. ASSUME NEW c \in Clients, Launch(c) PROVE TypeOK'
    BY <1>1 DEF Launch, GoTo, semaphores, printerVars
  <1>2. ASSUME NEW c \in Clients, ClientWaitEmpty(c) PROVE TypeOK'
    BY <1>2 DEF ClientWaitEmpty, GoTo, printerVars
  <1>3. ASSUME NEW c \in Clients, ClientWaitBinary(c) PROVE TypeOK'
    BY <1>3 DEF ClientWaitBinary, GoTo, printerVars
  <1>4. ASSUME NEW c \in Clients, ProbeNext(c) PROVE TypeOK'
    <2>1. (j[c] + 1) % Length \in Slots
      <3>1. j[c] \in 0 .. Length - 1
        OBVIOUS
      <3> QED
        BY <3>1, ModNext
    <2> QED
      BY <1>4, <2>1 DEF ProbeNext, semaphores, printerVars
  <1>5. ASSUME NEW c \in Clients, PlaceJob(c) PROVE TypeOK'
    BY <1>5, ModNext, ModPrev DEF PlaceJob, GoTo, semaphores, printerVars
  <1>6. ASSUME NEW c \in Clients, ClientPostBinary(c) PROVE TypeOK'
    BY <1>6 DEF ClientPostBinary, GoTo, printerVars
  <1>7. ASSUME NEW c \in Clients, ClientPostFull(c) PROVE TypeOK'
    BY <1>7 DEF ClientPostFull, GoTo, printerVars
  <1>8. CASE PrinterWaitFull
    BY <1>8 DEF PrinterWaitFull, clientVars
  <1>9. CASE PrinterWaitBinary
    BY <1>9 DEF PrinterWaitBinary, clientVars
  <1>10. CASE SearchNext
    BY <1>10, ModNext DEF SearchNext, semaphores, clientVars
  <1>11. CASE TakeJob
    BY <1>11 DEF TakeJob, JobAt, Cleared, semaphores, clientVars
  <1>12. CASE PrinterPostBinary
    BY <1>12 DEF PrinterPostBinary, clientVars
  <1>13. CASE PrinterPostEmpty
    BY <1>13 DEF PrinterPostEmpty, clientVars
  <1>14. CASE FinishJob
    BY <1>14, ModNext, ModPrev DEF FinishJob, NoJob, semaphores, clientVars
  <1>15. CASE UNCHANGED vars
    BY <1>15 DEF vars, semaphores, clientVars, printerVars
  <1> QED
    BY <1>1, <1>2, <1>3, <1>4, <1>5, <1>6, <1>7, <1>8, <1>9, <1>10, <1>11,
       <1>12, <1>13, <1>14, <1>15
    DEF Next, ClientStep, Probe, PrinterStep

\* The variables keep their types: in particular `number' and the search
\* indices stay inside the buffer and no semaphore goes below 0.
THEOREM TypeCorrect == Spec => []TypeOK
  BY TypeInit, TypeStep, PTL DEF Spec
-----------------------------------------------------------------------------
(* The lock. *)

\* `binary' is 1 or 0, and 0 while somebody is between wait and post.
LockInv ==
  /\ binary \in {0, 1}
  /\ \A c \in Clients : ClientLocks(c) => binary = 0
  /\ PrinterLocks => binary = 0
  /\ MutualExclusion

LEMMA LockInit == Init => LockInv
  BY DEF Init, LockInv, MutualExclusion, ClientLocks, PrinterLocks

LEMMA LockKept ==
  ASSUME pc \in [Clients -> {"exited", "waitEmpty", "waitBinary", "probe",
                             "postBinary", "postFull"}],
         LockInv, [Next]_vars
  PROVE  LockInv'
  <1> USE DEF LockInv, MutualExclusion, ClientLocks, PrinterLocks
  <1>0. pc \in [Clients -> {"exited", "waitEmpty", "waitBinary", "probe",
                            "postBinary", "postFull"}]
    OBVIOUS
  <1>1. ASSUME NEW c \in Clients, Launch(c) PROVE LockInv'
    BY <1>0, <1>1 DEF Launch, GoTo, semaphores, printerVars
  <1>2. ASSUME NEW c \in Clients, ClientWaitEmpty(c) PROVE LockInv'
    BY <1>0, <1>2 DEF ClientWaitEmpty, GoTo, printerVars
  <1>3. ASSUME NEW c \in Clients, ClientWaitBinary(c) PROVE LockInv'
    BY <1>0, <1>3 DEF ClientWaitBinary, GoTo, printerVars
  <1>4. ASSUME NEW c \in Clients, ProbeNext(c) PROVE LockInv'
    BY <1>0, <1>4 DEF ProbeNext, semaphores, printerVars
  <1>5. ASSUME NEW c \in Clients, PlaceJob(c) PROVE LockInv'
    BY <1>0, <1>5 DEF PlaceJob, GoTo, semaphores, printerVars
  <1>6. ASSUME NEW c \in Clients, ClientPostBinary(c) PROVE LockInv'
    BY <1>0, <1>6 DEF ClientPostBinary, GoTo, printerVars
  <1>7. ASSUME NEW c \in Clients, ClientPostFull(c) PROVE LockInv'
    BY <1>0, <1>7 DEF ClientPostFull, GoTo, printerVars
  <1>8. CASE PrinterWaitFull
    BY <1>8 DEF PrinterWaitFull, clientVars
  <1>9. CASE PrinterWaitBinary
    BY <1>9 DEF PrinterWaitBinary, clientVars
  <1>10. CASE SearchNext
    BY <1>10 DEF SearchNext, semaphores, clientVars
  <1>11. CASE TakeJob
    BY <1>11 DEF TakeJob, semaphores, clientVars
  <1>12. CASE PrinterPostBinary
    BY <1>12 DEF PrinterPostBinary, clientVars
  <1>13. CASE PrinterPostEmpty
    BY <1>13 DEF PrinterPostEmpty, clientVars
  <1>14. CASE FinishJob
    BY <1>14 DEF FinishJob, semaphores, clientVars
  <1>15. CASE UNCHANGED vars
    BY <1>15 DEF vars, semaphores, clientVars, printerVars
  <1> QED
    BY <1>1, <1>2, <1>3, <1>4, <1>5, <1>6, <1>7, <1>8, <1>9, <1>10, <1>11,
       <1>12, <1>13, <1>14, <1>15
    DEF Next, ClientStep, Probe, PrinterStep

LEMMA LockStep == TypeOK /\ LockInv /\ [Next]_vars => LockInv'
  BY LockKept DEF TypeOK

\* Two processes are never between sem_wait(binary) and sem_post(binary).
THEOREM LockCorrect == Spec => []MutualExclusion
  <1>1. LockInv => MutualExclusion
    BY DEF LockInv
  <1> QED
    BY <1>1, TypeInit, TypeStep, LockInit, LockStep, PTL DEF Spec
-----------------------------------------------------------------------------
(* The ring. *)

\* How far round the buffer slot b is from slot a; the slot d places on from a,
\* for d no more than Length; and the ticket drawn d jobs after t.
Dist(a, b) == IF a <= b THEN b - a ELSE b - a + Length
Ahead(a, d) == IF a + d < Length THEN a + d ELSE a + d - Length
Back(t, d) == IF d <= t THEN t - d ELSE t - d + IntSpan

\* The jobs in the buffer, by what the processes and `full' know of them.
Announced == full + (IF ppc \in {"waitBinary", "search"} THEN 1 ELSE 0)
Filled == Announced + Cardinality(Unannounced)
Returning == IF ppc \in {"postBinary", "postEmpty"} THEN 1 ELSE 0

\* The oldest job in the buffer and its ticket.
HeadTicket == IF Taken THEN Back(data, 1) ELSE data

\* Every slot is free, reserved by a client, filled or about to be given back.
RoomInv == empty + Cardinality(Reserved) + Filled + Returning = Length

\* The filled slots are the Filled ones from HeadSlot on.
RingInv ==
  /\ \A s \in Slots : Occupied(s) <=> Dist(HeadSlot, s) < Filled
  /\ number = Ahead(HeadSlot, Filled)
  /\ Cardinality(OccupiedSlots) = Filled

\* Their tickets count down from HeadTicket, and num is the next one.
TicketInv ==
  /\ \A s \in Slots :
       Occupied(s) => arr[s].num = Back(HeadTicket, Dist(HeadSlot, s))
  /\ num = Back(HeadTicket, Filled)

\* A client in the loop is at its first probe, and has a page count to print.
ClientInv ==
  \A c \in Clients :
    /\ pc[c] = "probe" => j[c] = number
    /\ pc[c] # "exited" => pages[c] \in Pages

IInv == TypeOK /\ LockInv /\ RoomInv /\ RingInv /\ TicketInv /\ ClientInv

(* Arithmetic of the ring. *)

\* One step forward in the buffer, and one ticket down.
NextSlot(a) == IF a + 1 = Length THEN 0 ELSE a + 1
NextTicket(t) == IF t = 0 THEN IntSpan - 1 ELSE t - 1

LEMMA DistAhead ==
  ASSUME NEW a \in Slots, NEW d \in 0 .. Length - 1
  PROVE  /\ Ahead(a, d) \in Slots
         /\ \A s \in Slots : Dist(a, s) \in 0 .. Length - 1
         /\ \A s \in Slots : Dist(a, s) = d <=> s = Ahead(a, d)
  BY Sizes DEF Ahead, Dist, Slots

LEMMA NextHead ==
  ASSUME NEW a \in Slots
  PROVE  /\ NextSlot(a) \in Slots
         /\ Dist(a, a) = 0
         /\ \A s \in Slots : Dist(NextSlot(a), s)
                           = IF s = a THEN Length - 1 ELSE Dist(a, s) - 1
         /\ \A s \in Slots : Dist(a, s) = 0 => s = a
         /\ \A d \in 1 .. Length : Ahead(NextSlot(a), d - 1) = Ahead(a, d)
         /\ \A d \in 0 .. Length - 1 :
              NextSlot(Ahead(a, d)) = Ahead(a, d + 1)
  BY Sizes DEF Ahead, Dist, NextSlot, Slots

LEMMA NextDue ==
  ASSUME NEW t \in Tickets
  PROVE  /\ Back(t, 1) = NextTicket(t)
         /\ NextTicket(t) \in Tickets
         /\ \A d \in 0 .. Length - 1 : NextTicket(Back(t, d)) = Back(t, d + 1)
         /\ \A d \in 1 .. Length : Back(NextTicket(t), d - 1) = Back(t, d)
         /\ \A d \in 0 .. Length - 1 : Back(t, d) = t <=> d = 0
  BY Sizes DEF Back, NextTicket, Tickets

LEMMA Modulo ==
  /\ \A a \in Slots : (a + 1) % Length = NextSlot(a)
  /\ \A t \in Tickets : (t - 1) % IntSpan = NextTicket(t)
  <1>1. ASSUME NEW a \in Slots PROVE (a + 1) % Length = NextSlot(a)
    BY Sizes, ModNext DEF Slots, NextSlot
  <1>2. ASSUME NEW t \in Tickets PROVE (t - 1) % IntSpan = NextTicket(t)
    BY Sizes, ModPrev DEF Tickets, NextTicket
  <1> QED
    BY <1>1, <1>2

(* Counting. *)

LEMMA Finite ==
  /\ IsFiniteSet(Reserved) /\ Cardinality(Reserved) \in Nat
  /\ IsFiniteSet(Unannounced) /\ Cardinality(Unannounced) \in Nat
  /\ IsFiniteSet(OccupiedSlots) /\ Cardinality(OccupiedSlots) \in Nat
  <1>1. IsFiniteSet(Reserved) /\ IsFiniteSet(Unannounced)
    BY ServerAssumption, FS_Subset DEF Reserved, Unannounced
  <1>2. IsFiniteSet(OccupiedSlots)
    <2>1. IsFiniteSet(Slots)
      BY Sizes, FS_Interval DEF Slots
    <2> QED
      BY <2>1, FS_Subset DEF OccupiedSlots
  <1> QED
    BY <1>1, <1>2, FS_CardinalityType

Holding(l) == l \in {"waitBinary", "probe"}
Telling(l) == l \in {"postBinary", "postFull"}

\* What a client's move does to the two counts.
LEMMA MoveCounts ==
  ASSUME DOMAIN pc = Clients, NEW c \in Clients, NEW l, GoTo(c, l)
  PROVE  /\ Cardinality(Reserved') = Cardinality(Reserved)
              + (IF Holding(l) THEN 1 ELSE 0)
              - (IF Holding(pc[c]) THEN 1 ELSE 0)
         /\ Cardinality(Unannounced') = Cardinality(Unannounced)
              + (IF Telling(l) THEN 1 ELSE 0)
              - (IF Telling(pc[c]) THEN 1 ELSE 0)
  <1> USE DEF GoTo, Holding, Telling
  <1>0. DOMAIN pc = Clients
    OBVIOUS
  <1>1. Reserved' = IF Holding(l) THEN Reserved \cup {c} ELSE Reserved \ {c}
    BY <1>0 DEF Reserved
  <1>2. Unannounced'
          = IF Telling(l) THEN Unannounced \cup {c} ELSE Unannounced \ {c}
    BY <1>0 DEF Unannounced
  <1>3. c \in Reserved <=> Holding(pc[c])
    BY DEF Reserved
  <1>4. c \in Unannounced <=> Telling(pc[c])
    BY DEF Unannounced
  <1>5. Holding(l) \in BOOLEAN /\ Telling(l) \in BOOLEAN
    OBVIOUS
  <1> HIDE DEF Holding, Telling
  <1>6. Cardinality(Reserved') = Cardinality(Reserved)
              + (IF Holding(l) THEN 1 ELSE 0)
              - (IF c \in Reserved THEN 1 ELSE 0)
    <2>1. CASE Holding(l)
      <3>1. Reserved' = Reserved \cup {c}
        BY <1>1, <2>1
      <3>2. Cardinality(Reserved \cup {c})
              = IF c \in Reserved THEN Cardinality(Reserved)
                ELSE Cardinality(Reserved) + 1
        BY FS_AddElement, Finite
      <3> QED
        BY <2>1, <3>1, <3>2, Finite
    <2>2. CASE ~Holding(l)
      <3>1. Reserved' = Reserved \ {c}
        BY <1>1, <2>2
      <3>2. Cardinality(Reserved \ {c})
              = IF c \in Reserved THEN Cardinality(Reserved) - 1
                ELSE Cardinality(Reserved)
        BY FS_RemoveElement, Finite
      <3> QED
        BY <2>2, <3>1, <3>2, Finite
    <2> QED
      BY <2>1, <2>2
  <1>7. Cardinality(Unannounced') = Cardinality(Unannounced)
              + (IF Telling(l) THEN 1 ELSE 0)
              - (IF c \in Unannounced THEN 1 ELSE 0)
    <2>1. CASE Telling(l)
      <3>1. Unannounced' = Unannounced \cup {c}
        BY <1>2, <2>1
      <3>2. Cardinality(Unannounced \cup {c})
              = IF c \in Unannounced THEN Cardinality(Unannounced)
                ELSE Cardinality(Unannounced) + 1
        BY FS_AddElement, Finite
      <3> QED
        BY <2>1, <3>1, <3>2, Finite
    <2>2. CASE ~Telling(l)
      <3>1. Unannounced' = Unannounced \ {c}
        BY <1>2, <2>2
      <3>2. Cardinality(Unannounced \ {c})
              = IF c \in Unannounced THEN Cardinality(Unannounced) - 1
                ELSE Cardinality(Unannounced)
        BY FS_RemoveElement, Finite
      <3> QED
        BY <2>2, <3>1, <3>2, Finite
    <2> QED
      BY <2>1, <2>2
  <1> QED
    BY <1>3, <1>4, <1>6, <1>7

LEMMA Move ==
  ASSUME TypeOK, NEW c \in Clients, NEW l, GoTo(c, l)
  PROVE  /\ Cardinality(Reserved') = Cardinality(Reserved)
              + (IF Holding(l) THEN 1 ELSE 0)
              - (IF Holding(pc[c]) THEN 1 ELSE 0)
         /\ Cardinality(Unannounced') = Cardinality(Unannounced)
              + (IF Telling(l) THEN 1 ELSE 0)
              - (IF Telling(pc[c]) THEN 1 ELSE 0)
  BY MoveCounts DEF TypeOK
-----------------------------------------------------------------------------
(* What the invariant says of single states. *)

LEMMA HeadTyped ==
  ASSUME TypeOK
  PROVE  HeadSlot \in Slots /\ HeadTicket \in Tickets /\ Filled \in Nat
         /\ Returning \in {0, 1}
  <1>1. HeadSlot \in Slots
    BY Modulo, NextHead DEF TypeOK, HeadSlot
  <1>2. HeadTicket \in Tickets
    BY NextDue DEF TypeOK, HeadTicket
  <1>3. Filled \in Nat
    BY Finite DEF TypeOK, Filled, Announced
  <1> QED
    BY <1>1, <1>2, <1>3 DEF Returning

LEMMA RoomLeft ==
  ASSUME IInv, NEW c \in Clients, pc[c] \in {"waitBinary", "probe"}
  PROVE  Filled \in 0 .. Length - 1
  <1>1. Reserved # {}
    BY DEF Reserved
  <1>2. Cardinality(Reserved) \in Nat \ {0}
    BY <1>1, Finite, FS_EmptySet
  <1>3. empty \in Nat /\ Filled \in Nat /\ Returning \in {0, 1}
    BY HeadTyped DEF IInv, TypeOK
  <1>4. empty + Cardinality(Reserved) + Filled + Returning = Length
    BY DEF IInv, RoomInv
  <1> QED
    BY <1>2, <1>3, <1>4, Sizes

\* The slot a client probes first is free.
LEMMA FindsRoom == IInv => ClientFindsRoom
  <1> SUFFICES ASSUME IInv, NEW c \in Clients, pc[c] = "probe"
               PROVE  j[c] = number /\ ~Occupied(number)
    BY DEF ClientFindsRoom
  <1>1. Filled \in 0 .. Length - 1
    BY RoomLeft
  <1>2. number \in Slots /\ number = Ahead(HeadSlot, Filled)
    BY DEF IInv, TypeOK, RingInv
  <1>3. Dist(HeadSlot, number) = Filled
    BY <1>1, <1>2, DistAhead, HeadTyped DEF IInv
  <1>4. ~(Dist(HeadSlot, number) < Filled)
    BY <1>1, <1>3
  <1> QED
    BY <1>2, <1>4 DEF IInv, RingInv, ClientInv

\* The job the printer looks for is in the slot `current', and only there.
LEMMA FindsJob == IInv => PrinterFindsItsJob
  <1> SUFFICES ASSUME IInv, ppc = "search", NEW s \in Slots
               PROVE  Due(s) <=> s = current
    BY DEF PrinterFindsItsJob
  <1>1. HeadSlot = current /\ HeadTicket = data
    BY DEF HeadSlot, HeadTicket, Taken
  <1>2. current \in Slots /\ data \in Tickets
    BY DEF IInv, TypeOK
  <1>3. Filled \in Nat \ {0}
    BY Finite DEF IInv, TypeOK, Filled, Announced
  <1>4. Dist(current, s) \in 0 .. Length - 1
    BY <1>2, Sizes DEF Dist, Slots
  <1>5. s = current <=> Dist(current, s) = 0
    BY <1>2, NextHead
  <1>6. Back(data, Dist(current, s)) = data <=> Dist(current, s) = 0
    BY <1>2, <1>4, NextDue
  <1>7. Occupied(s) <=> Dist(current, s) < Filled
    BY <1>1 DEF IInv, RingInv
  <1>8. Occupied(s) => arr[s].num = Back(data, Dist(current, s))
    BY <1>1 DEF IInv, TicketInv
  <1> QED
    BY <1>3, <1>5, <1>6, <1>7, <1>8 DEF Due

\* `full' and `empty' account for every slot.
LEMMA Accounts == IInv => SemaphoresAccount
  BY Finite DEF IInv, TypeOK, RoomInv, RingInv, SemaphoresAccount, Filled,
                Announced, Returning
-----------------------------------------------------------------------------
(* The invariant is inductive. *)

Ring == RingInv /\ TicketInv

\* A step that moves neither the buffer nor its ends keeps the ring.
LEMMA RingKept ==
  ASSUME TypeOK, Ring, UNCHANGED <<arr, number, num>>,
         HeadSlot' = HeadSlot, HeadTicket' = HeadTicket, Filled' = Filled
  PROVE  Ring'
  <1>1. \A s \in Slots : Occupied(s)' <=> Occupied(s)
    BY DEF Occupied
  <1>2. OccupiedSlots' = OccupiedSlots
    BY <1>1 DEF OccupiedSlots
  <1> QED
    BY <1>1, <1>2 DEF Ring, RingInv, TicketInv

\* The printer's part of the invariant is untouched by a client.
LEMMA ClientAlone ==
  ASSUME UNCHANGED printerVars
  PROVE  /\ HeadSlot' = HeadSlot /\ HeadTicket' = HeadTicket
         /\ Returning' = Returning
         /\ full' = full => Announced' = Announced
  BY DEF printerVars, HeadSlot, HeadTicket, Taken, Returning, Announced

\* The clients' part is untouched by the printer.
LEMMA PrinterAlone ==
  ASSUME UNCHANGED <<pc, pages, j, number>>, ClientInv
  PROVE  /\ Reserved' = Reserved /\ Unannounced' = Unannounced
         /\ ClientInv'
  BY DEF Reserved, Unannounced, ClientInv

LEMMA InvInit == Init => RoomInv /\ Ring /\ ClientInv
  <1> SUFFICES ASSUME Init PROVE RoomInv /\ Ring /\ ClientInv
    OBVIOUS
  <1>1. Reserved = {} /\ Unannounced = {}
    BY DEF Init, Reserved, Unannounced
  <1>2. OccupiedSlots = {}
    BY DEF Init, OccupiedSlots, Occupied, Cleared
  <1>3. Filled = 0
    BY <1>1, FS_EmptySet DEF Init, Filled, Announced
  <1>4. RoomInv
    BY <1>1, <1>3, Sizes, FS_EmptySet DEF Init, RoomInv, Returning
  <1>5. HeadSlot = 0 /\ HeadTicket = 0
    BY DEF Init, HeadSlot, HeadTicket, Taken
  <1>6. Ring
    BY <1>2, <1>3, <1>5, Sizes, FS_EmptySet
    DEF Init, Ring, RingInv, TicketInv, Occupied, Cleared, Slots, Dist, Ahead,
        Back
  <1>7. ClientInv
    BY DEF Init, ClientInv
  <1> QED
    BY <1>4, <1>6, <1>7

\* A client's move keeps the accounts when the semaphores move along with it.
LEMMA QuietClient ==
  ASSUME IInv, NEW c \in Clients, NEW l, GoTo(c, l),
         UNCHANGED <<arr, number, num, printerVars>>,
         empty' = empty + (IF Holding(pc[c]) THEN 1 ELSE 0)
                        - (IF Holding(l) THEN 1 ELSE 0),
         full' = full + (IF Telling(pc[c]) THEN 1 ELSE 0)
                      - (IF Telling(l) THEN 1 ELSE 0)
  PROVE  RoomInv' /\ Ring'
  <1>1. TypeOK
    BY DEF IInv
  <1>2. empty \in Nat /\ full \in Nat
    BY DEF IInv, TypeOK
  <1>3. /\ Cardinality(Reserved') = Cardinality(Reserved)
              + (IF Holding(l) THEN 1 ELSE 0)
              - (IF Holding(pc[c]) THEN 1 ELSE 0)
        /\ Cardinality(Unannounced') = Cardinality(Unannounced)
              + (IF Telling(l) THEN 1 ELSE 0)
              - (IF Telling(pc[c]) THEN 1 ELSE 0)
    BY <1>1, Move
  <1>4. Filled' = Filled
    BY <1>2, <1>3, Finite DEF printerVars, Filled, Announced
  <1>5. RoomInv'
    BY <1>2, <1>3, <1>4, ClientAlone, Finite, HeadTyped DEF IInv, RoomInv
  <1>6. Ring'
    BY <1>4, ClientAlone, RingKept DEF IInv, Ring
  <1> QED
    BY <1>5, <1>6

LEMMA ClientSteps ==
  ASSUME IInv, NEW c \in Clients,
         \/ Launch(c) \/ ClientWaitEmpty(c) \/ ClientWaitBinary(c)
         \/ ClientPostBinary(c) \/ ClientPostFull(c)
  PROVE  RoomInv' /\ Ring' /\ ClientInv'
  <1>0. /\ empty \in Nat /\ full \in Nat
        /\ DOMAIN pc = Clients /\ DOMAIN pages = Clients /\ DOMAIN j = Clients
    BY DEF IInv, TypeOK
  <1>1. CASE Launch(c)
    <2>1. ClientInv'
      BY <1>0, <1>1 DEF Launch, GoTo, IInv, ClientInv
    <2>2. RoomInv' /\ Ring'
      BY <1>0, <1>1, QuietClient DEF Launch, Holding, Telling, semaphores
    <2> QED
      BY <2>1, <2>2
  <1>2. CASE ClientWaitEmpty(c)
    <2>1. ClientInv'
      BY <1>0, <1>2 DEF ClientWaitEmpty, GoTo, IInv, ClientInv
    <2>2. RoomInv' /\ Ring'
      BY <1>0, <1>2, QuietClient DEF ClientWaitEmpty, Holding, Telling
    <2> QED
      BY <2>1, <2>2
  <1>3. CASE ClientWaitBinary(c)
    <2>1. ClientInv'
      BY <1>0, <1>3 DEF ClientWaitBinary, GoTo, IInv, ClientInv
    <2>2. RoomInv' /\ Ring'
      BY <1>0, <1>3, QuietClient DEF ClientWaitBinary, Holding, Telling
    <2> QED
      BY <2>1, <2>2
  <1>4. CASE ClientPostBinary(c)
    <2>1. ClientInv'
      BY <1>0, <1>4 DEF ClientPostBinary, GoTo, IInv, ClientInv
    <2>2. RoomInv' /\ Ring'
      BY <1>0, <1>4, QuietClient DEF ClientPostBinary, Holding, Telling
    <2> QED
      BY <2>1, <2>2
  <1>5. CASE ClientPostFull(c)
    <2>1. ClientInv'
      BY <1>0, <1>5 DEF ClientPostFull, GoTo, IInv, ClientInv
    <2>2. RoomInv' /\ Ring'
      BY <1>0, <1>5, QuietClient DEF ClientPostFull, Holding, Telling
    <2> QED
      BY <2>1, <2>2
  <1> QED
    BY <1>1, <1>2, <1>3, <1>4, <1>5

\* A client never walks past an occupied slot.
LEMMA ProbesOnce ==
  ASSUME IInv, NEW c \in Clients, Probe(c)
  PROVE  PlaceJob(c)
  BY FindsRoom DEF Probe, ProbeNext, ClientFindsRoom

\* The new job goes to the end of the ring and takes the next ticket.
LEMMA PlaceJobStep ==
  ASSUME IInv, NEW c \in Clients, PlaceJob(c)
  PROVE  /\ RoomInv' /\ Ring' /\ ClientInv'
         /\ HeadSlot' = HeadSlot /\ Filled' = Filled + 1
  <1>1. /\ TypeOK /\ RoomInv /\ RingInv /\ TicketInv /\ ClientInv
        /\ MutualExclusion
    BY DEF IInv, LockInv
  <1>2. /\ pc[c] = "probe" /\ GoTo(c, "postBinary")
        /\ UNCHANGED <<semaphores, pages, j, printerVars>>
    BY DEF PlaceJob
  <1>3. j[c] = number /\ ~Occupied(number) /\ pages[c] \in Nat
    BY <1>1, <1>2, FindsRoom, ServerAssumption DEF ClientFindsRoom, ClientInv
  <1>4. /\ Filled \in 0 .. Length - 1
        /\ HeadSlot \in Slots /\ HeadTicket \in Tickets
        /\ number \in Slots /\ num \in Tickets
    BY <1>1, <1>2, RoomLeft, HeadTyped DEF TypeOK
  <1>5. /\ arr' = [arr EXCEPT ![number] =
                     [time |-> pages[c], pages |-> pages[c],
                      id |-> c, num |-> num]]
        /\ number' = NextSlot(number) /\ num' = NextTicket(num)
    BY <1>3, <1>4, Modulo DEF PlaceJob
  <1>6. /\ Cardinality(Reserved') = Cardinality(Reserved) - 1
        /\ Cardinality(Unannounced') = Cardinality(Unannounced) + 1
    BY <1>1, <1>2, Move, Finite DEF Holding, Telling
  <1>7. /\ HeadSlot' = HeadSlot /\ HeadTicket' = HeadTicket
        /\ Returning' = Returning /\ Announced' = Announced
    BY <1>2, ClientAlone DEF semaphores
  <1>8. Filled' = Filled + 1
    <2>1. Announced \in Nat
      BY <1>1 DEF TypeOK, Announced
    <2> QED
      BY <2>1, <1>6, <1>7, Finite DEF Filled
  <1>9. RoomInv'
    <2>1. empty \in Nat /\ empty' = empty /\ Returning \in {0, 1}
      BY <1>1, <1>2, HeadTyped DEF TypeOK, semaphores
    <2>2. empty + Cardinality(Reserved) + Filled + Returning = Length
      BY <1>1 DEF RoomInv
    <2>3. empty' + Cardinality(Reserved') + Filled' + Returning' = Length
      BY <1>4, <1>6, <1>7, <1>8, <2>1, <2>2, Finite
    <2> QED
      BY <2>3 DEF RoomInv
  <1>10. ClientInv'
    BY <1>1, <1>2
    DEF ClientInv, MutualExclusion, ClientLocks, GoTo, TypeOK
  <1>11. \A s \in Slots : Occupied(s)' <=> Occupied(s) \/ s = number
    BY <1>1, <1>3, <1>4, <1>5 DEF TypeOK, Occupied
  <1>12. Cardinality(OccupiedSlots') = Cardinality(OccupiedSlots) + 1
    <2>1. OccupiedSlots' = OccupiedSlots \cup {number}
      BY <1>4, <1>11 DEF OccupiedSlots
    <2>2. number \notin OccupiedSlots
      BY <1>3 DEF OccupiedSlots
    <2> QED
      BY <2>1, <2>2, FS_AddElement, Finite
  <1>13. \A s \in Slots : /\ Dist(HeadSlot, s) \in Nat
                          /\ Dist(HeadSlot, s) = Filled <=> s = number
    <2>1. number = Ahead(HeadSlot, Filled)
      BY <1>1 DEF RingInv
    <2>2. ASSUME NEW s \in Slots
          PROVE  /\ Dist(HeadSlot, s) \in 0 .. Length - 1
                 /\ Dist(HeadSlot, s) = Filled <=> s = Ahead(HeadSlot, Filled)
      BY <1>4, DistAhead
    <2> QED
      BY <2>1, <2>2
  <1>14. RingInv'
    <2>1. \A s \in Slots : Occupied(s)' <=> Dist(HeadSlot, s) < Filled + 1
      BY <1>1, <1>4, <1>11, <1>13 DEF RingInv
    <2>2. number' = Ahead(HeadSlot, Filled + 1)
      BY <1>1, <1>4, <1>5, NextHead DEF RingInv
    <2> QED
      BY <1>1, <1>7, <1>8, <1>12, <2>1, <2>2 DEF RingInv, Dist, Ahead
  <1>15. TicketInv'
    <2>1. num' = Back(HeadTicket, Filled + 1)
      BY <1>1, <1>4, <1>5, NextDue DEF TicketInv
    <2>2. ASSUME NEW s \in Slots, Occupied(s)'
          PROVE  arr'[s].num = Back(HeadTicket, Dist(HeadSlot, s))
      <3>1. CASE s = number
        BY <1>1, <1>4, <1>5, <1>13, <3>1 DEF TypeOK, TicketInv
      <3>2. CASE s # number
        BY <1>1, <1>4, <1>5, <1>11, <2>2, <3>2 DEF TypeOK, TicketInv
      <3> QED
        BY <3>1, <3>2
    <2> QED
      BY <1>7, <1>8, <2>1, <2>2 DEF TicketInv, Back, Dist
  <1> QED
    BY <1>7, <1>8, <1>9, <1>10, <1>14, <1>15 DEF Ring

\* The printer takes the job at the head: the ring loses its first slot.
LEMMA TakeJobStep ==
  ASSUME IInv, TakeJob
  PROVE  /\ RoomInv' /\ Ring' /\ ClientInv'
         /\ HeadSlot = current /\ HeadSlot' = NextSlot(current)
         /\ Filled' = Filled - 1 /\ Filled \in 1 .. Length
  <1>1. TypeOK /\ RoomInv /\ RingInv /\ TicketInv /\ ClientInv
    BY DEF IInv
  <1>2. /\ ppc = "search" /\ ppc' = "postBinary"
        /\ UNCHANGED <<semaphores, number, num, clientVars, data, current, i>>
    BY DEF TakeJob
  <1>3. i = current /\ current \in Slots /\ data \in Tickets
    BY <1>1, <1>2, FindsJob DEF TakeJob, PrinterFindsItsJob, TypeOK
  <1>4. arr' = [arr EXCEPT ![current] = Cleared]
    BY <1>3 DEF TakeJob
  <1>5. HeadSlot = current /\ HeadTicket = data
    BY <1>2 DEF HeadSlot, HeadTicket, Taken
  <1>6. HeadSlot' = NextSlot(current) /\ HeadTicket' = NextTicket(data)
    <2>1. Taken'
      BY <1>2 DEF Taken
    <2>2. HeadSlot' = (current + 1) % Length /\ HeadTicket' = Back(data, 1)
      BY <1>2, <2>1 DEF HeadSlot, HeadTicket, Back
    <2> QED
      BY <1>3, <2>2, Modulo, NextDue
  <1>7. /\ Reserved' = Reserved /\ Unannounced' = Unannounced /\ ClientInv'
    BY <1>1, <1>2, PrinterAlone DEF clientVars
  <1>8. Filled' = Filled - 1 /\ Filled \in 1 .. Length
    <2>1. full \in Nat /\ full' = full
      BY <1>1, <1>2 DEF TypeOK, semaphores
    <2>2. Announced = full + 1 /\ Announced' = full
      BY <1>2, <2>1 DEF Announced
    <2>3. Filled = full + 1 + Cardinality(Unannounced)
          /\ Filled' = full + Cardinality(Unannounced)
      BY <1>7, <2>2 DEF Filled
    <2>4. Filled <= Length
      BY <1>1, HeadTyped, Finite DEF TypeOK, RoomInv
    <2> QED
      BY <2>1, <2>3, <2>4, Finite, Sizes
  <1>9. RoomInv'
    <2>1. Returning = 0 /\ Returning' = 1
      BY <1>2 DEF Returning
    <2>2. empty \in Nat /\ empty' = empty
      BY <1>1, <1>2 DEF TypeOK, semaphores
    <2>3. empty' + Cardinality(Reserved') + Filled' + Returning' = Length
      BY <1>1, <1>7, <1>8, <2>1, <2>2, Finite DEF RoomInv
    <2> QED
      BY <2>3 DEF RoomInv
  <1>10. \A s \in Slots : Occupied(s)' <=> Occupied(s) /\ s # current
    BY <1>1, <1>3, <1>4 DEF TypeOK, Occupied, Cleared
  <1>11. ASSUME NEW s \in Slots
         PROVE  /\ Dist(current, s) \in 0 .. Length - 1
                /\ Dist(current, current) = 0
                /\ Dist(NextSlot(current), s)
                     = IF s = current THEN Length - 1 ELSE Dist(current, s) - 1
                /\ Dist(current, s) = 0 => s = current
    <2>1. Dist(current, s) \in 0 .. Length - 1
      BY <1>3, Sizes DEF Dist, Slots
    <2> QED
      BY <1>3, <2>1, NextHead
  <1>12. Cardinality(OccupiedSlots') = Cardinality(OccupiedSlots) - 1
    <2>1. OccupiedSlots' = OccupiedSlots \ {current}
      BY <1>10 DEF OccupiedSlots
    <2>2. current \in OccupiedSlots
      BY <1>3 DEF TakeJob, Due, OccupiedSlots
    <2> QED
      BY <2>1, <2>2, FS_RemoveElement, Finite
  <1>13. RingInv'
    <2>1. ASSUME NEW s \in Slots
          PROVE  Occupied(s)' <=> Dist(NextSlot(current), s) < Filled - 1
      <3>1. Occupied(s) <=> Dist(current, s) < Filled
        BY <1>1, <1>5 DEF RingInv
      <3>2. CASE s = current
        BY <1>8, <1>10, <1>11, <3>2, Sizes
      <3>3. CASE s # current
        BY <1>8, <1>10, <1>11, <3>1, <3>3, Sizes
      <3> QED
        BY <3>2, <3>3
    <2>2. number' = Ahead(NextSlot(current), Filled - 1)
      <3>1. number' = Ahead(current, Filled)
        BY <1>1, <1>2, <1>5 DEF RingInv
      <3> QED
        BY <1>3, <1>8, <3>1, NextHead
    <2>3. Cardinality(OccupiedSlots') = Filled'
      BY <1>1, <1>8, <1>12 DEF RingInv
    <2> QED
      BY <1>6, <1>8, <2>1, <2>2, <2>3 DEF RingInv, Dist, Ahead
  <1>14. TicketInv'
    <2>1. num' = Back(NextTicket(data), Filled - 1)
      <3>1. num' = Back(data, Filled)
        BY <1>1, <1>2, <1>5 DEF TicketInv
      <3> QED
        BY <1>3, <1>8, <3>1, NextDue
    <2>2. ASSUME NEW s \in Slots, Occupied(s)'
          PROVE  arr'[s].num
                   = Back(NextTicket(data), Dist(NextSlot(current), s))
      <3>1. Occupied(s) /\ s # current
        BY <1>10, <2>2
      <3>2. arr'[s].num = Back(data, Dist(current, s))
        BY <1>1, <1>3, <1>4, <1>5, <3>1 DEF TypeOK, TicketInv
      <3>3. /\ Dist(current, s) \in 1 .. Length
            /\ Dist(NextSlot(current), s) = Dist(current, s) - 1
        BY <1>11, <3>1, Sizes
      <3> QED
        BY <1>3, <3>2, <3>3, NextDue
    <2> QED
      BY <1>6, <1>8, <2>1, <2>2 DEF TicketInv, Back, Dist
  <1> QED
    BY <1>5, <1>6, <1>7, <1>8, <1>9, <1>13, <1>14 DEF Ring

\* The printer's other steps leave the ring as it is.
LEMMA PrinterSteps ==
  ASSUME IInv,
         \/ PrinterWaitFull \/ PrinterWaitBinary \/ SearchNext
         \/ PrinterPostBinary \/ PrinterPostEmpty \/ FinishJob
  PROVE  RoomInv' /\ Ring' /\ ClientInv' /\ HeadSlot' = HeadSlot
  <1>1. /\ TypeOK /\ RoomInv /\ Ring /\ ClientInv
        /\ empty \in Nat /\ full \in Nat
        /\ current \in Slots /\ data \in Tickets
    BY DEF IInv, Ring, TypeOK
  <1>2. UNCHANGED <<arr, number, num, pc, pages, j>>
    BY DEF PrinterWaitFull, PrinterWaitBinary, SearchNext, PrinterPostBinary,
           PrinterPostEmpty, FinishJob, clientVars
  <1>3. Reserved' = Reserved /\ Unannounced' = Unannounced /\ ClientInv'
    BY <1>1, <1>2, PrinterAlone
  <1>4. Announced' = Announced /\ empty' + Returning' = empty + Returning
    BY <1>1 DEF PrinterWaitFull, PrinterWaitBinary, SearchNext,
                PrinterPostBinary, PrinterPostEmpty, FinishJob, semaphores,
                Announced, Returning
  <1>5. HeadSlot' = HeadSlot /\ HeadTicket' = HeadTicket
    <2>1. CASE FinishJob
      <3>1. /\ ppc = "printing" /\ ppc' = "waitFull"
            /\ current' = NextSlot(current) /\ data' = NextTicket(data)
        BY <1>1, <2>1, Modulo DEF FinishJob
      <3>2. HeadSlot = NextSlot(current) /\ HeadTicket = NextTicket(data)
        BY <1>1, <3>1, Modulo, NextDue DEF HeadSlot, HeadTicket, Taken
      <3> QED
        BY <3>1, <3>2 DEF HeadSlot, HeadTicket, Taken
    <2>2. CASE ~FinishJob
      BY <2>2 DEF PrinterWaitFull, PrinterWaitBinary, SearchNext,
                  PrinterPostBinary, PrinterPostEmpty, HeadSlot, HeadTicket,
                  Taken
    <2> QED
      BY <2>1, <2>2
  <1>6. Filled' = Filled
    BY <1>3, <1>4 DEF Filled
  <1>7. RoomInv'
    <2>1. Returning \in Nat /\ Returning' \in Nat /\ Filled \in Nat
          /\ empty' \in Nat /\ Cardinality(Reserved) \in Nat
      BY <1>1, HeadTyped, Finite
      DEF Returning, PrinterWaitFull, PrinterWaitBinary, SearchNext,
          PrinterPostBinary, PrinterPostEmpty, FinishJob, semaphores
    <2>2. empty + Returning + Cardinality(Reserved) + Filled = Length
      BY <1>1, <2>1 DEF RoomInv
    <2>3. empty' + Returning' + Cardinality(Reserved) + Filled = Length
      BY <1>4, <2>2
    <2> QED
      BY <1>3, <1>6, <2>1, <2>3 DEF RoomInv
  <1>8. Ring'
    BY <1>1, <1>2, <1>5, <1>6, RingKept
  <1> QED
    BY <1>3, <1>5, <1>7, <1>8

LEMMA InvStep == IInv /\ [Next]_vars => IInv'
  <1> SUFFICES ASSUME IInv, [Next]_vars PROVE RoomInv' /\ Ring' /\ ClientInv'
    BY TypeStep, LockStep DEF IInv, Ring
  <1>1. ASSUME NEW c \in Clients, Launch(c) \/ ClientStep(c)
        PROVE  RoomInv' /\ Ring' /\ ClientInv'
    BY <1>1, ClientSteps, ProbesOnce, PlaceJobStep DEF ClientStep
  <1>2. CASE PrinterStep
    BY <1>2, TakeJobStep, PrinterSteps DEF PrinterStep
  <1>3. CASE UNCHANGED vars
    <2>1. UNCHANGED <<arr, number, num, pc, pages, j>>
      BY <1>3 DEF vars, clientVars
    <2>2. Reserved' = Reserved /\ Unannounced' = Unannounced /\ ClientInv'
      BY <2>1, PrinterAlone DEF IInv
    <2>3. /\ HeadSlot' = HeadSlot /\ HeadTicket' = HeadTicket
          /\ Returning' = Returning /\ Announced' = Announced /\ empty' = empty
      BY <1>3, ClientAlone DEF vars, semaphores
    <2>4. Filled' = Filled
      BY <2>2, <2>3 DEF Filled
    <2>5. RoomInv'
      BY <2>2, <2>3, <2>4 DEF IInv, RoomInv
    <2>6. Ring'
      BY <2>1, <2>3, <2>4, RingKept DEF IInv, Ring
    <2> QED
      BY <2>2, <2>5, <2>6
  <1> QED
    BY <1>1, <1>2, <1>3 DEF Next

\* The buffer is a ring and the tickets count down along it, always.
THEOREM InvCorrect == Spec => []IInv
  <1>1. Init => IInv
    BY TypeInit, LockInit, InvInit DEF IInv, Ring
  <1> QED
    BY <1>1, InvStep, PTL DEF Spec

\* sem_wait and sem_post of empty and full never lose or invent a slot.
THEOREM AccountsCorrect == Spec => []SemaphoresAccount
  BY InvCorrect, Accounts, PTL

\* The printer's unbounded search under the lock finds its job, and only that.
THEOREM SearchCorrect == Spec => []PrinterFindsItsJob
  BY InvCorrect, FindsJob, PTL

\* The client's unbounded search under the lock ends at its first probe.
THEOREM PlaceCorrect == Spec => []ClientFindsRoom
  BY InvCorrect, FindsRoom, PTL

\* The lock is taken only while a process is between wait and post.
HeldInv ==
  binary = 0 => PrinterLocks \/ \E c \in Clients : ClientLocks(c)

LEMMA HeldStep == TypeOK /\ LockInv /\ HeldInv /\ [Next]_vars => HeldInv'
  <1> SUFFICES ASSUME TypeOK, LockInv, HeldInv, [Next]_vars, binary' = 0
               PROVE  PrinterLocks' \/ \E c \in Clients : ClientLocks(c)'
    BY DEF HeldInv
  <1>0. binary \in Nat /\ DOMAIN pc = Clients
    BY DEF TypeOK
  <1>1. ASSUME NEW c \in Clients, ClientWaitBinary(c) PROVE ClientLocks(c)'
    BY <1>0, <1>1 DEF ClientWaitBinary, GoTo, ClientLocks
  <1>2. ASSUME NEW c \in Clients, PlaceJob(c) PROVE ClientLocks(c)'
    BY <1>0, <1>2 DEF PlaceJob, GoTo, ClientLocks
  <1>3. ASSUME NEW c \in Clients, ClientPostBinary(c) PROVE FALSE
    BY <1>0, <1>3 DEF ClientPostBinary
  \* The other steps of a client leave the lock and its holder alone.
  <1>4. ASSUME NEW c \in Clients,
               Launch(c) \/ ClientWaitEmpty(c) \/ ProbeNext(c)
                 \/ ClientPostFull(c)
        PROVE  PrinterLocks' \/ \E d \in Clients : ClientLocks(d)'
    <2>1. binary = 0 /\ ppc' = ppc
      BY <1>4 DEF Launch, ClientWaitEmpty, ProbeNext, ClientPostFull,
                  semaphores, printerVars
    <2>2. \A d \in Clients : ClientLocks(d) => ClientLocks(d)'
      BY <1>0, <1>4 DEF Launch, ClientWaitEmpty, ProbeNext, ClientPostFull,
                        GoTo, ClientLocks
    <2> QED
      BY <2>1, <2>2 DEF HeldInv, PrinterLocks
  <1>5. CASE PrinterWaitBinary \/ TakeJob
    BY <1>5 DEF PrinterWaitBinary, TakeJob, PrinterLocks
  <1>6. CASE PrinterPostBinary
    BY <1>0, <1>6 DEF PrinterPostBinary
  <1>7. CASE \/ PrinterWaitFull \/ SearchNext \/ PrinterPostEmpty \/ FinishJob
             \/ UNCHANGED vars
    <2>1. binary = 0 /\ pc' = pc
      BY <1>7 DEF PrinterWaitFull, SearchNext, PrinterPostEmpty, FinishJob, vars,
                  semaphores, clientVars
    <2>2. PrinterLocks => PrinterLocks'
      BY <1>7 DEF PrinterWaitFull, SearchNext, PrinterPostEmpty, FinishJob, vars,
                  printerVars, PrinterLocks
    <2> QED
      BY <2>1, <2>2 DEF HeldInv, ClientLocks
  <1> QED
    BY <1>1, <1>2, <1>3, <1>4, <1>5, <1>6, <1>7
    DEF Next, ClientStep, Probe, PrinterStep

\* If all sleep then nobody holds the lock, so none sleeps at it; then no slot
\* is reserved, filled or on its way back, and `empty' counts all of them.
LEMMA Awake == IInv /\ HeldInv => SomebodyAwake
  <1> SUFFICES ASSUME IInv, HeldInv, PrinterAsleep,
                      \A c \in Clients : pc[c] # "exited" => ClientAsleep(c)
               PROVE  /\ \A c \in Clients : pc[c] = "exited"
                      /\ \A s \in Slots : ~Occupied(s)
    BY DEF SomebodyAwake
  <1>1. binary # 0
    <2>1. ~PrinterLocks
      BY DEF PrinterAsleep, PrinterLocks
    <2>2. \A c \in Clients : ~ClientLocks(c)
      BY DEF ClientAsleep, ClientLocks
    <2> QED
      BY <2>1, <2>2 DEF HeldInv
  <1>2. ppc = "waitFull" /\ full = 0
    BY <1>1 DEF PrinterAsleep
  <1>3. \A c \in Clients : pc[c] # "exited" => pc[c] = "waitEmpty" /\ empty = 0
    BY <1>1 DEF ClientAsleep
  <1>4. Reserved = {} /\ Unannounced = {}
    BY <1>3 DEF Reserved, Unannounced
  <1>5. Filled = 0 /\ Returning = 0
    BY <1>2, <1>4, FS_EmptySet DEF Filled, Announced, Returning
  <1>6. empty = Length
    BY <1>4, <1>5, FS_EmptySet, Sizes DEF IInv, TypeOK, RoomInv
  <1>7. \A c \in Clients : pc[c] = "exited"
    BY <1>3, <1>6, Sizes
  <1>8. \A s \in Slots : ~Occupied(s)
    <2>1. HeadSlot \in Slots
      BY HeadTyped DEF IInv
    <2>2. \A s \in Slots : Dist(HeadSlot, s) \in Nat
      BY <2>1, Sizes DEF Dist, Slots
    <2> QED
      BY <1>5, <2>2 DEF IInv, RingInv
  <1> QED
    BY <1>7, <1>8

\* The processes never all wait for one another: as long as a client has not
\* returned or a job is in the buffer, the printer or a client that has not
\* returned is outside the sem_wait calls that cannot return.
THEOREM NoDeadlock == Spec => []SomebodyAwake
  <1>1. Init => HeldInv
    BY DEF Init, HeldInv
  <1>2. IInv /\ HeldInv /\ [Next]_vars => HeldInv'
    BY HeldStep DEF IInv
  <1> QED
    BY <1>1, <1>2, Awake, InvCorrect, PTL DEF Spec

\* A job in the buffer is neither overwritten nor dropped: the step that clears
\* its slot hands it to the printer.
THEOREM JobsKept == Spec => NoJobLost
  <1> DEFINE Kept == \A s \in Slots : Occupied(s) =>
                       \/ arr'[s] = arr[s]
                       \/ ppc = "search" /\ arr'[s] = Cleared /\ job' = JobAt(s)
  <1>1. ASSUME IInv, Next PROVE Kept
    <2>1. ASSUME NEW c \in Clients, PlaceJob(c) PROVE Kept
      <3>1. j[c] = number /\ ~Occupied(number)
        BY <1>1, <2>1, FindsRoom DEF PlaceJob, ClientFindsRoom
      <3>2. \A s \in Slots : s # number => arr'[s] = arr[s]
        BY <1>1, <2>1, <3>1 DEF PlaceJob, IInv, TypeOK
      <3> QED
        BY <3>1, <3>2
    <2>2. ASSUME NEW c \in Clients,
                 \/ Launch(c) \/ ClientWaitEmpty(c) \/ ClientWaitBinary(c)
                 \/ ClientPostBinary(c) \/ ClientPostFull(c)
          PROVE Kept
      BY <2>2 DEF Launch, ClientWaitEmpty, ClientWaitBinary,
                  ClientPostBinary, ClientPostFull
    <2>3. CASE TakeJob
      <3>1. i \in Slots /\ ppc = "search" /\ job' = JobAt(i)
            /\ arr' = [arr EXCEPT ![i] = Cleared]
        BY <1>1, <2>3 DEF TakeJob, IInv, TypeOK
      <3>2. \A s \in Slots : arr'[s] = IF s = i THEN Cleared ELSE arr[s]
        BY <1>1, <3>1 DEF IInv, TypeOK
      <3> QED
        BY <3>1, <3>2
    <2>4. CASE PrinterStep /\ ~TakeJob
      BY <2>4 DEF PrinterStep, PrinterWaitFull, PrinterWaitBinary, SearchNext,
                  PrinterPostBinary, PrinterPostEmpty, FinishJob
    <2> QED
      BY <1>1, <2>1, <2>2, <2>3, <2>4, ProbesOnce DEF Next, ClientStep
  <1>2. IInv /\ [Next]_vars => [Kept]_vars
    BY <1>1
  <1> QED
    BY <1>2, InvCorrect, PTL DEF Spec, NoJobLost
-----------------------------------------------------------------------------
(* The server implements the queue. *)

Jobs == [id : Clients, pages : Pages]

\* A filled slot holds the job of some client, and the printer holds one from
\* the time it takes it until the pages are out.
JobInv ==
  /\ \A s \in Slots : Occupied(s) => JobAt(s) \in Jobs
  /\ IF Taken THEN job \in Jobs ELSE job = NoJob

LEMMA JobInit == Init => JobInv
  BY DEF Init, JobInv, Occupied, Cleared, Taken

LEMMA JobStep == IInv /\ JobInv /\ [Next]_vars => JobInv'
  <1> SUFFICES ASSUME IInv, JobInv, [Next]_vars PROVE JobInv'
    OBVIOUS
  <1>0. TypeOK /\ ClientInv
    BY DEF IInv
  <1>1. ASSUME NEW c \in Clients, PlaceJob(c) PROVE JobInv'
    <2>1. /\ j[c] = number /\ number \in Slots /\ pages[c] \in Pages
          /\ ppc' = ppc /\ job' = job
      BY <1>0, <1>1, FindsRoom DEF PlaceJob, IInv, TypeOK, ClientFindsRoom,
                                   ClientInv, printerVars
    <2>2. /\ arr'[number].id = c /\ arr'[number].pages = pages[c]
          /\ \A s \in Slots : s # number => arr'[s] = arr[s]
      BY <1>0, <1>1, <2>1 DEF PlaceJob, TypeOK
    <2> QED
      BY <2>1, <2>2 DEF JobInv, Jobs, JobAt, Occupied, Taken
  <1>2. ASSUME NEW c \in Clients,
               \/ Launch(c) \/ ClientWaitEmpty(c) \/ ClientWaitBinary(c)
               \/ ClientPostBinary(c) \/ ClientPostFull(c)
        PROVE  JobInv'
    <2>1. UNCHANGED <<arr, ppc, job>>
      BY <1>2 DEF Launch, ClientWaitEmpty, ClientWaitBinary,
                  ClientPostBinary, ClientPostFull, printerVars
    <2> QED
      BY <2>1 DEF JobInv, JobAt, Occupied, Taken
  <1>3. CASE TakeJob
    <2>1. /\ i \in Slots /\ Occupied(i) /\ job' = JobAt(i) /\ Taken'
          /\ arr' = [arr EXCEPT ![i] = Cleared]
      BY <1>0, <1>3 DEF TakeJob, Due, Taken, TypeOK
    <2>2. \A s \in Slots : Occupied(s)' => s # i /\ arr'[s] = arr[s]
      BY <1>0, <2>1 DEF TypeOK, Occupied, Cleared
    <2>3. \A s \in Slots : Occupied(s)' => JobAt(s)' \in Jobs
      BY <2>2 DEF JobInv, JobAt, Occupied
    <2> QED
      BY <2>1, <2>3 DEF JobInv
  <1>4. CASE PrinterStep /\ ~TakeJob
    <2>1. /\ arr' = arr
          /\ Taken' => Taken /\ job' = job
          /\ ~Taken' => job' = NoJob
      BY <1>4 DEF PrinterStep, PrinterWaitFull, PrinterWaitBinary, SearchNext,
                  PrinterPostBinary, PrinterPostEmpty, FinishJob, Taken, JobInv
    <2> QED
      BY <2>1 DEF JobInv, JobAt, Occupied
  <1>5. CASE UNCHANGED vars
    BY <1>5 DEF vars, printerVars, JobInv, JobAt, Occupied, Taken
  <1> QED
    BY <1>1, <1>2, <1>3, <1>4, <1>5, ProbesOnce DEF Next, ClientStep

\* The queue is what the ring holds, oldest first.
JobOf(slot) == [id |-> slot.id, pages |-> slot.pages]
WaitingRight ==
  /\ Filled \in 0 .. Length
  /\ Waiting = [k \in 1 .. Filled |-> JobOf(arr[Ahead(HeadSlot, k - 1)])]

LEMMA WaitingRing == IInv => WaitingRight
  <1> SUFFICES ASSUME IInv PROVE WaitingRight
    OBVIOUS
  <1>1. HeadSlot \in Slots /\ Filled \in 0 .. Length
    <2>1. empty \in Nat /\ Cardinality(Reserved) \in Nat /\ Filled \in Nat
          /\ Returning \in {0, 1} /\ HeadSlot \in Slots
      BY HeadTyped, Finite DEF IInv, TypeOK
    <2>2. empty + Cardinality(Reserved) + Filled + Returning = Length
      BY DEF IInv, RoomInv
    <2> QED
      BY <2>1, <2>2, Sizes
  <1> DEFINE h == HeadSlot
  <1>2. /\ number = Ahead(h, Filled)
        /\ Occupied(h) <=> 0 < Filled
    <2>1. Dist(h, h) = 0
      BY <1>1, NextHead
    <2> QED
      BY <1>1, <2>1 DEF IInv, RingInv
  <1>3. Used = Filled
    <2>1. \A a \in 0 .. Length - 1, n \in 0 .. Length :
            /\ n < Length => (Ahead(a, n) - a) % Length = n
            /\ Ahead(a, n) = a <=> n \in {0, Length}
      BY Sizes, SMTT(30) DEF Ahead
    <2> HIDE DEF h
    <2>2. h \in 0 .. Length - 1
      BY <1>1 DEF Slots, h
    <2>3. Used = IF Occupied(h) /\ number = h THEN Length ELSE (number - h) % Length
      BY DEF Used, h
    <2> QED
      BY <1>1, <1>2, <2>1, <2>2, <2>3, Sizes
  <1>4. ASSUME NEW k \in 1 .. Filled
        PROVE  (h + k - 1) % Length = Ahead(h, k - 1)
    <2> HIDE DEF h
    <2>1. \A a \in 0 .. Length - 1, n \in 0 .. Length - 1 :
            (a + n) % Length = Ahead(a, n)
      BY Sizes, SMTT(30) DEF Ahead
    <2>2. h \in 0 .. Length - 1 /\ k - 1 \in 0 .. Length - 1
          /\ h + k - 1 = h + (k - 1)
      BY <1>1, Sizes DEF Slots, h
    <2> QED
      BY <2>1, <2>2
  <1> QED
    BY <1>1, <1>3, <1>4 DEF WaitingRight, Waiting, JobAt, JobOf

LEMMA WaitingNext == IInv' => WaitingRight'
  BY WaitingRing, PTL

QueueStep == [Queue!Next]_(Queue!queueVars)

LEMMA SubmitStep ==
  ASSUME IInv, IInv', NEW c \in Clients, PlaceJob(c)
  PROVE  QueueStep
  <1> DEFINE a == HeadSlot
             n == Filled
             new == [id |-> c, pages |-> pages[c]]
  <1>1. /\ HeadSlot' = a /\ Filled' = n + 1
        /\ a \in Slots /\ n \in 0 .. Length - 1
        /\ WaitingRight /\ WaitingRight'
    BY PlaceJobStep, RoomLeft, HeadTyped, WaitingRing, WaitingNext
    DEF IInv, PlaceJob
  <1>2. /\ j[c] = number /\ number \in Slots /\ pages[c] \in Pages
        /\ number = Ahead(a, n) /\ job' = job
    BY FindsRoom DEF PlaceJob, IInv, TypeOK, ClientFindsRoom, ClientInv,
                     RingInv, printerVars
  <1>3. \A s \in Slots : JobOf(arr'[s]) = IF s = number THEN new ELSE JobOf(arr[s])
    BY <1>2 DEF PlaceJob, IInv, TypeOK, JobOf
  <1> HIDE DEF a, n, new
  <1>4. \A k \in 1 .. n + 1 : /\ Ahead(a, k - 1) \in Slots
                              /\ Ahead(a, k - 1) = number <=> k = n + 1
    BY <1>1, <1>2, Sizes DEF Ahead, Slots
  <1>5. /\ Waiting = [k \in 1 .. n |-> JobOf(arr[Ahead(a, k - 1)])]
        /\ Waiting' = [k \in 1 .. n + 1 |-> JobOf(arr'[Ahead(a, k - 1)])]
    BY <1>1 DEF WaitingRight, a, n
  <1>6. Waiting' = [k \in 1 .. n + 1 |->
                      IF k = n + 1 THEN new ELSE JobOf(arr[Ahead(a, k - 1)])]
    BY <1>3, <1>4, <1>5
  <1>7. Len(Waiting) = n /\ Waiting' = Append(Waiting, new)
    BY <1>1, <1>5, <1>6
  <1>8. Len(Waiting) < Length /\ new \in Jobs
    BY <1>1, <1>2, <1>7, Sizes DEF Jobs, new
  <1>9. Queue!Submit
    BY <1>2, <1>7, <1>8 DEF Queue!Submit, Jobs
  <1> QED
    BY <1>9 DEF QueueStep, Queue!Next

LEMMA StartStep ==
  ASSUME IInv, IInv', JobInv, TakeJob
  PROVE  QueueStep
  <1> DEFINE a == HeadSlot
             n == Filled
  <1>1. /\ a = current /\ HeadSlot' = NextSlot(a) /\ Filled' = n - 1
        /\ a \in Slots /\ n \in 1 .. Length
        /\ WaitingRight /\ WaitingRight'
    BY TakeJobStep, HeadTyped, WaitingRing, WaitingNext DEF IInv
  <1>2. /\ i = a /\ job' = JobOf(arr[a]) /\ job = NoJob
        /\ \A s \in Slots : s # a => arr'[s] = arr[s]
    BY <1>1, FindsJob DEF TakeJob, PrinterFindsItsJob, IInv, TypeOK, JobInv,
                          Taken, JobAt, JobOf
  <1>3. /\ Waiting = [k \in 1 .. n |-> JobOf(arr[Ahead(a, k - 1)])]
        /\ Waiting' = [k \in 1 .. n - 1 |->
                         JobOf(arr'[Ahead(NextSlot(a), k - 1)])]
    BY <1>1 DEF WaitingRight
  <1> HIDE DEF a, n
  <1>4. /\ Ahead(a, 0) = a
        /\ \A k \in 1 .. n - 1 : /\ Ahead(NextSlot(a), k - 1) = Ahead(a, k)
                                /\ Ahead(a, k) \in Slots /\ Ahead(a, k) # a
    BY <1>1, Sizes DEF Ahead, NextSlot, Slots
  <1>5. Waiting' = [k \in 1 .. n - 1 |-> JobOf(arr[Ahead(a, k)])]
    BY <1>2, <1>3, <1>4
  <1>6. Len(Waiting) = n /\ Waiting # <<>> /\ Head(Waiting) = JobOf(arr[a])
    BY <1>1, <1>3, <1>4
  <1>7. Waiting' = Tail(Waiting)
    BY <1>1, <1>3, <1>5, <1>6
  <1>8. Queue!Start
    BY <1>2, <1>6, <1>7 DEF Queue!Start
  <1> QED
    BY <1>8 DEF QueueStep, Queue!Next

\* Every other step leaves the buffer alone and moves no job, except that the
\* printer puts down the one that is out.
LEMMA OtherStep ==
  ASSUME IInv, JobInv, UNCHANGED <<arr, number>>, HeadSlot' = HeadSlot,
         job' = job \/ (Taken /\ job' = NoJob)
  PROVE  QueueStep
  <1>1. Waiting' = Waiting
    BY DEF Waiting, Used, Occupied, JobAt
  <1>2. CASE job' = job
    BY <1>1, <1>2 DEF QueueStep, Queue!queueVars
  <1>3. CASE Taken /\ job' = NoJob
    <2>1. job # NoJob
      BY <1>3, ServerAssumption DEF JobInv, Jobs, NoJob
    <2>2. Queue!Finish
      BY <1>1, <1>3, <2>1 DEF Queue!Finish
    <2> QED
      BY <2>2 DEF QueueStep, Queue!Next
  <1> QED
    BY <1>2, <1>3

\* Every step of the server is a step of the queue or leaves it alone.
LEMMA QueueSteps ==
  IInv /\ IInv' /\ JobInv /\ [Next]_vars => QueueStep
  <1> SUFFICES ASSUME IInv, IInv', JobInv, [Next]_vars PROVE QueueStep
    OBVIOUS
  <1>1. ASSUME NEW c \in Clients, PlaceJob(c) PROVE QueueStep
    BY <1>1, SubmitStep
  <1>2. ASSUME NEW c \in Clients,
               \/ Launch(c) \/ ClientWaitEmpty(c) \/ ClientWaitBinary(c)
               \/ ClientPostBinary(c) \/ ClientPostFull(c)
        PROVE  QueueStep
    <2>1. UNCHANGED printerVars /\ UNCHANGED <<arr, number>>
      BY <1>2 DEF Launch, ClientWaitEmpty, ClientWaitBinary,
                  ClientPostBinary, ClientPostFull
    <2>2. job' = job
      BY <2>1 DEF printerVars
    <2>3. HeadSlot' = HeadSlot
      BY <2>1, ClientAlone
    <2> QED
      BY <2>1, <2>2, <2>3, OtherStep
  <1>3. CASE TakeJob
    BY <1>3, StartStep
  <1>4. CASE \/ PrinterWaitFull \/ PrinterWaitBinary \/ SearchNext
             \/ PrinterPostBinary \/ PrinterPostEmpty \/ FinishJob
    <2>1. UNCHANGED <<arr, number>>
      BY <1>4 DEF PrinterWaitFull, PrinterWaitBinary, SearchNext,
                  PrinterPostBinary, PrinterPostEmpty, FinishJob
    <2>2. job' = job \/ (Taken /\ job' = NoJob)
      BY <1>4 DEF PrinterWaitFull, PrinterWaitBinary, SearchNext,
                  PrinterPostBinary, PrinterPostEmpty, FinishJob, Taken
    <2>3. HeadSlot' = HeadSlot
      BY <1>4, PrinterSteps
    <2> QED
      BY <2>1, <2>2, <2>3, OtherStep
  <1>5. CASE UNCHANGED vars
    <2>1. /\ UNCHANGED printerVars /\ UNCHANGED <<arr, number>> /\ job' = job
      BY <1>5 DEF vars, printerVars
    <2>2. HeadSlot' = HeadSlot
      BY <2>1, ClientAlone
    <2> QED
      BY <2>1, <2>2, OtherStep
  <1> QED
    BY <1>1, <1>2, <1>3, <1>4, <1>5, ProbesOnce
    DEF Next, ClientStep, PrinterStep

\* Jobs are printed one at a time in the order in which they entered the
\* buffer, for any number of clients and slots: semaphores, slots and tickets
\* implement one bounded queue.
THEOREM QueueImplemented == Spec => Queue!Spec
  <1>1. Init => Queue!Init
    <2> SUFFICES ASSUME Init PROVE Queue!Init
      OBVIOUS
    <2>1. Used = 0
      BY Sizes DEF Init, Used, Occupied, Cleared, HeadSlot, Taken, Slots
    <2>2. Waiting = <<>>
      BY <2>1 DEF Waiting
    <2> QED
      BY <2>2 DEF Init, Queue!Init
  <1>2. Spec => []JobInv
    BY InvCorrect, JobInit, JobStep, PTL DEF Spec
  <1> QED
    BY <1>1, <1>2, QueueSteps, InvCorrect, PTL DEF Spec, Queue!Spec, QueueStep
=============================================================================

----------------------------- MODULE PrintQueue -----------------------------
(***************************************************************************)
(* What the print server of COMP310Assignment2 promises, without its       *)
(* shared memory, semaphores and tickets: jobs wait in one queue of at     *)
(* most Capacity entries, in the order in which they were put there, and   *)
(* the one printer takes the oldest, prints it and takes the next.         *)
(***************************************************************************)
EXTENDS Naturals, Sequences

CONSTANTS
  Jobs,      \* what a client can submit: an id and a number of pages
  Capacity,  \* the slots of the shared buffer, ./printer num_slots
  Idle       \* what the printer holds between two jobs; not one of Jobs

VARIABLES
  queue,     \* the jobs that wait, oldest first
  printing   \* the job being printed, or Idle

queueVars == <<queue, printing>>

Init ==
  /\ queue = <<>>
  /\ printing = Idle

\* A client's job enters the buffer, when there is room for it.
Submit ==
  /\ Len(queue) < Capacity
  /\ \E job \in Jobs : queue' = Append(queue, job)
  /\ UNCHANGED printing

\* The printer takes the oldest job.
Start ==
  /\ printing = Idle
  /\ queue # <<>>
  /\ printing' = Head(queue)
  /\ queue' = Tail(queue)

\* The pages are out.
Finish ==
  /\ printing # Idle
  /\ printing' = Idle
  /\ UNCHANGED queue

Next == Submit \/ Start \/ Finish

Spec == Init /\ [][Next]_queueVars

\* The printer never stops while there is work; nobody has to submit any.
FairSpec == Spec /\ WF_queueVars(Start) /\ WF_queueVars(Finish)
=============================================================================

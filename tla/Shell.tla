------------------------------- MODULE Shell -------------------------------
(***************************************************************************)
(* The shell of oscode.c: its history of commands, its table of background *)
(* jobs and the children it forks.  The shell is one process; between two  *)
(* calls of waitpid only children move, and they are seen by nothing but   *)
(* waitpid, so that a command runs in one step from getline to the first   *)
(* waitpid that can block.                                                 *)
(*                                                                         *)
(* What a command prints, its arguments, redirection and the program run   *)
(* are abstracted: a program may run for ever, end, or fail to start       *)
(* (execvp or open fails, the copied argument list is not terminated).     *)
(***************************************************************************)
EXTENDS Integers, Sequences, FiniteSets

CONSTANTS Pids,         \* the process identifiers the kernel gives out
          NumSlots,     \* 1000, the slots of array_jobs
          Window,       \* 10, the commands that history lists
          MaxCommands,  \* bound: commands typed in a behaviour
          NoPid,        \* pid2 of a slot that was never used, and no process
          Deleted       \* pid2 of a slot emptied by deljob2 (-100000)

ASSUME ShellAssumption ==
    /\ NumSlots \in Nat \ {0} /\ Window \in Nat \ {0} /\ MaxCommands \in Nat
    /\ NoPid # Deleted /\ NoPid \notin Pids /\ Deleted \notin Pids

VARIABLES hist,    \* the list from head to tail: hist[i] has n = i - 1
          jobs,    \* array_jobs, the pid2 of each slot
          child,   \* the kernel's view of the processes forked
          shell    \* where the loop of main is

vars == <<hist, jobs, child, shell>>

Slots == 0 .. NumSlots - 1

(* What a recalled command does: args[0] is replaced for jobs and history, *)
(* every other word is handed to execvp.                                   *)
Words == {"program", "jobs", "history"}
Commands == [does: Words, bg: BOOLEAN, bad: BOOLEAN]

(* A child exits by itself without running anything (quiet), after writing *)
(* FAIL to the pipe (failing), or runs a program; then it is a zombie.     *)
Life == {"none", "quiet", "failing", "program", "ended", "failed"}
Children == [st: Life, at: Nat]
NoChild == [st |-> "none", at |-> 0]
Runs(p) == child[p].st \in {"quiet", "failing", "program"}
Zombie(p) == child[p].st \in {"ended", "failed"}

(* At the prompt, in the waitpid of fg, of jobs, or of the command's own   *)
(* child (own); target is the pid given to fg.                             *)
Places == {"prompt", "fg", "reap", "wait", "gone"}
Prompt == [at |-> "prompt", own |-> NoPid, target |-> NoPid]

TypeOK ==
    /\ hist \in Seq(Commands) /\ Len(hist) <= MaxCommands
    /\ jobs \in [Slots -> Pids \cup {NoPid, Deleted}]
    /\ child \in [Pids -> Children]
    /\ shell \in [at: Places, own: Pids \cup {NoPid}, target: Pids \cup {NoPid}]

Init ==
    /\ hist = <<>>
    /\ jobs = [s \in Slots |-> NoPid]
    /\ child = [p \in Pids |-> NoChild]
    /\ shell = Prompt

-----------------------------------------------------------------------------
(* Helpers.                                                                *)

Marked(h) == [h EXCEPT ![Len(h)].bad = TRUE]

\* Variant of Recallable: the window is one command too wide
RecallableWide(m, k) == m \in 1 .. k - 1 /\ ~(m <= k - (Window + 2) /\ k > Window - 1)

(* The number m is accepted when it is read as the command with tail->n = k. *)
Recallable(m, k) == m \in 1 .. k - 1 /\ ~(m <= k - (Window + 1) /\ k > Window - 1)

(* The numbers that history prints when it is the command with tail->n = k. *)
Listed(k) ==
    LET first == IF k - 1 - (Window - 1) > 0 THEN k - 1 - (Window - 1) ELSE 0
    IN {i + 1 : i \in first .. k - 1}

Holding(t, p) == {s \in DOMAIN t : t[s] = p}

\* Variant of Without: the slot keeps the pid
WithoutNothing(t, p) == t

(* deljob2: the first slot that holds p is emptied. *)
Without(t, p) ==
    [s \in DOMAIN t |->
        IF t[s] = p /\ \A r \in Holding(t, p) : s <= r THEN Deleted ELSE t[s]]

\* Variant of Added: a slot in use is not overwritten
AddedIfFree(t, k, p) ==
    IF t[k % NumSlots] \in Pids THEN t ELSE [t EXCEPT ![k % NumSlots] = p]

\* Variant of Added: the position is not taken modulo the table's size
AddedPastEnd(t, k, p) == [s \in DOMAIN t \cup {k} |-> IF s = k THEN p ELSE t[s]]

(* addjob2 for the command with tail->n = k. *)
Added(t, k, p) == [t EXCEPT ![k % NumSlots] = p]

(* getcmd pushes the command; pipe and fork succeed with the free pid p.   *)
Forks(c, p, st) ==
    /\ shell.at = "prompt" /\ Len(hist) < MaxCommands
    /\ child[p].st = "none"
    /\ hist' = Append(hist, c)
    /\ child' = [child EXCEPT ![p] = [st |-> st, at |-> Len(hist)]]

(* The end of the loop's body: a background command is added to the table  *)
(* and the prompt comes back; the child of another one is waited for.      *)
Onwards(t, c, k, p) ==
    IF c.bg THEN jobs' = Added(t, k, p) /\ shell' = Prompt
            ELSE jobs' = t /\ shell' = [at |-> "wait", own |-> p, target |-> NoPid]

-----------------------------------------------------------------------------
(* Commands read at the prompt.                                            *)

Command(does, bg, bad) == [does |-> does, bg |-> bg, bad |-> bad]

(* A word that is not a built-in: the child runs it. *)
Program(bg, p) ==
    LET c == Command("program", bg, FALSE)
    IN Forks(c, p, "program") /\ Onwards(jobs, c, Len(hist), p)

(* pwd is run by the child, which may report that it failed. *)
Pwd(bg, p) ==
    \E st \in {"quiet", "failing"} :
        LET c == Command("program", bg, FALSE)
        IN Forks(c, p, st) /\ Onwards(jobs, c, Len(hist), p)

(* cd is run by the shell after its child has gone; in the background it   *)
(* always counts as bad, else when chdir fails.  Nothing reads the mark    *)
(* before the next command, so it is set here.                             *)
Cd(bg, p) ==
    \E fails \in BOOLEAN :
        LET c == Command("program", bg, bg \/ fails)
        IN Forks(c, p, "quiet") /\ Onwards(jobs, c, Len(hist), p)

(* fg without a pid. *)
FgNothing(bg, p) ==
    LET c == Command("program", bg, TRUE)
    IN Forks(c, p, "quiet") /\ Onwards(jobs, c, Len(hist), p)

(* fg with the number t: when a slot holds it the shell waits for it, then *)
(* goes on with its own child; otherwise it goes on at once.               *)
Fg(t, bg, p) ==
    LET c == Command("program", bg, FALSE)
    IN /\ Forks(c, p, "quiet")
       /\ IF Holding(jobs, t) = {} THEN Onwards(jobs, c, Len(hist), p)
          ELSE shell' = [at |-> "fg", own |-> p, target |-> t] /\ UNCHANGED jobs

(* jobs or history with an argument: back to the prompt, the child is left. *)
TooMany(does, bg, p) ==
    /\ Forks(Command(does, bg, TRUE), p, "quiet")
    /\ UNCHANGED <<jobs, shell>>

(* jobs goes to its loop of waitpid, any other command to the loop's end.  *)
AfterFork(c, st, p) ==
    /\ Forks(c, p, st)
    /\ IF c.does = "jobs"
       THEN shell' = [Prompt EXCEPT !.at = "reap"] /\ UNCHANGED jobs
       ELSE Onwards(jobs, c, Len(hist), p)

Jobs(bg, p) == AfterFork(Command("jobs", bg, FALSE), "quiet", p)
History(bg, p) == AfterFork(Command("history", bg, FALSE), "quiet", p)

(* A number of the history.  The new entry does what the old one did, in   *)
(* the background if that one ran there; the child refuses an entry marked *)
(* bad, but jobs and history are run by the shell whatever their mark.     *)
Recall(m, bg, p) ==
    /\ Recallable(m, Len(hist))
    /\ LET old == hist[m]
           st  == IF old.does # "program" THEN "quiet"
                  ELSE IF old.bad THEN "failing" ELSE "program"
       IN AfterFork(Command(old.does, bg \/ old.bg, FALSE), st, p)

(* A command that is pushed and then given up: a number that is not        *)
(* accepted, or any command for which pipe or fork fails.                  *)
Rejected(does, bg) ==
    /\ shell.at = "prompt" /\ Len(hist) < MaxCommands
    /\ hist' = Append(hist, Command(does, bg, TRUE))
    /\ UNCHANGED <<jobs, child, shell>>

(* exit, EOF or a blank line. *)
Exit ==
    /\ shell.at = "prompt"
    /\ shell' = [Prompt EXCEPT !.at = "gone"]
    /\ UNCHANGED <<hist, jobs, child>>

-----------------------------------------------------------------------------
(* waitpid returns; for a pid that is not a child it does so at once.      *)

(* In fg: the child is reaped, its slot emptied, and the loop's end runs.  *)
FgWaited ==
    /\ shell.at = "fg" /\ shell.target \in Pids /\ ~Runs(shell.target)
    /\ child' = [child EXCEPT ![shell.target] = NoChild]
    /\ Onwards(Without(jobs, shell.target), hist[Len(hist)], Len(hist) - 1, shell.own)
    /\ UNCHANGED hist

(* In jobs: one more zombie; it counts as bad when the table lacks it.     *)
Reap(q) ==
    /\ shell.at = "reap" /\ Zombie(q)
    /\ child' = [child EXCEPT ![q] = NoChild]
    /\ jobs' = Without(jobs, q)
    /\ hist' = IF Holding(jobs, q) = {} THEN Marked(hist) ELSE hist
    /\ UNCHANGED shell

\* Variant of Reaped: without WNOHANG, the loop ends with the last child
ReapedAll ==
    /\ shell.at = "reap" /\ \A q \in Pids : child[q].st = "none"
    /\ shell' = Prompt
    /\ UNCHANGED <<hist, jobs, child>>

(* WNOHANG: without a zombie the loop ends, running children or not.       *)
Reaped ==
    /\ shell.at = "reap" /\ \A q \in Pids : ~Zombie(q)
    /\ shell' = Prompt
    /\ UNCHANGED <<hist, jobs, child>>

\* Variant of Waited: waitpid for any child
WaitedAny ==
    /\ shell.at = "wait"
    /\ \E q \in Pids :
          /\ Zombie(q)
          /\ child' = [child EXCEPT ![q] = NoChild]
          /\ hist' = IF child[q].st = "failed" THEN Marked(hist) ELSE hist
    /\ shell' = Prompt
    /\ UNCHANGED jobs

\* Variant of Waited: the pipe is not read
WaitedUnread ==
    /\ shell.at = "wait" /\ ~Runs(shell.own)
    /\ child' = [child EXCEPT ![shell.own] = NoChild]
    /\ shell' = Prompt
    /\ UNCHANGED <<hist, jobs>>

(* The command's own child: the pipe is read after it, FAIL marks it bad.  *)
Waited ==
    /\ shell.at = "wait" /\ ~Runs(shell.own)
    /\ child' = [child EXCEPT ![shell.own] = NoChild]
    /\ hist' = IF child[shell.own].st = "failed" THEN Marked(hist) ELSE hist
    /\ shell' = Prompt
    /\ UNCHANGED jobs

(* A child ends. *)
Ends(p, st) ==
    /\ child' = [child EXCEPT ![p].st = st]
    /\ UNCHANGED <<hist, jobs, shell>>

Leaves(p) ==
    \/ child[p].st = "quiet" /\ Ends(p, "ended")
    \/ child[p].st = "failing" /\ Ends(p, "failed")

ProgramEnds(p) == child[p].st = "program" /\ \E st \in {"ended", "failed"} : Ends(p, st)

-----------------------------------------------------------------------------
Types(bg, p) ==
    \/ Program(bg, p) \/ Pwd(bg, p) \/ Cd(bg, p)
    \/ FgNothing(bg, p) \/ \E t \in Pids : Fg(t, bg, p)
    \/ \E does \in {"jobs", "history"} : TooMany(does, bg, p)
    \/ Jobs(bg, p) \/ History(bg, p)
    \/ \E m \in DOMAIN hist : Recall(m, bg, p)

Reads ==
    \/ \E bg \in BOOLEAN, p \in Pids : Types(bg, p)
    \/ \E bg \in BOOLEAN, does \in Words : Rejected(does, bg)
    \/ Exit

Returns == FgWaited \/ (\E q \in Pids : Reap(q)) \/ Reaped \/ Waited

Next == Reads \/ Returns \/ \E p \in Pids : Leaves(p) \/ ProgramEnds(p)

(* The shell runs when its waitpid can return, and a child that runs no    *)
(* program exits; a program may run for ever and no command need be typed. *)
Spec ==
    /\ Init /\ [][Next]_vars
    /\ WF_vars(Returns) /\ \A p \in Pids : WF_vars(Leaves(p))

-----------------------------------------------------------------------------
(* fg with a word: atoi gives 0, the pid2 of a slot never used, and        *)
(* waitpid(0) waits for any child, its own if that comes first; deljob2(0) *)
(* empties that unused slot, and no slot of the child that was reaped.     *)
FgWord(bg, p) ==
    LET c == Command("program", bg, FALSE)
    IN /\ Forks(c, p, "quiet")
       /\ IF Holding(jobs, NoPid) = {} THEN Onwards(jobs, c, Len(hist), p)
          ELSE shell' = [at |-> "fg", own |-> p, target |-> NoPid] /\ UNCHANGED jobs

FgWordWaited ==
    /\ shell.at = "fg" /\ shell.target = NoPid
    /\ \E q \in Pids : Zombie(q) /\ child' = [child EXCEPT ![q] = NoChild]
    /\ Onwards(Without(jobs, NoPid), hist[Len(hist)], Len(hist) - 1, shell.own)
    /\ UNCHANGED hist

WordNext == Next \/ FgWordWaited \/ \E bg \in BOOLEAN, p \in Pids : FgWord(bg, p)
WordSpec == Init /\ [][WordNext]_vars

-----------------------------------------------------------------------------
(* Properties.                                                             *)

(* The command whose child is given to addjob2. *)
Backgrounded(c) == c.bg /\ c.does # "jobs" /\ ~(c.does = "history" /\ c.bad)

(* The table lists only processes that are still children of the shell     *)
(* (waitpid has not returned them), in the slot of the command that        *)
(* started them: fg never waits for a pid the kernel has given to another. *)
JobsAreChildren ==
    \A s \in Slots : jobs[s] \in Pids =>
        /\ child[jobs[s]].st # "none"
        /\ child[jobs[s]].at % NumSlots = s
        /\ Backgrounded(hist[child[jobs[s]].at + 1])

(* A background command that has not been reaped is in the table, where    *)
(* jobs shows it and fg finds it, unless a later background command whose  *)
(* number is the same modulo the table's size has taken its slot.          *)
JobsListed ==
    \A p \in Pids :
        LET at == child[p].at
        IN child[p].st # "none" /\ Backgrounded(hist[at + 1]) /\ p # shell.own =>
             \/ jobs[at % NumSlots] = p
             \/ \E j \in at + 2 .. Len(hist) :
                   Backgrounded(hist[j]) /\ (j - 1) % NumSlots = at % NumSlots

(* At the prompt the shell owes no foreground child a waitpid: those left  *)
(* are background jobs, or the idle children of jobs and of history with   *)
(* an argument, which only a later jobs reaps.                             *)
ForegroundReaped ==
    shell.at = "prompt" =>
        \A p \in Pids : child[p].st # "none" =>
            LET c == hist[child[p].at + 1]
            IN Backgrounded(c) \/ c.does = "jobs" \/ (c.does = "history" /\ c.bad)

(* What history shows and what the next prompt accepts are the same        *)
(* numbers: the two places compute the window of ten commands on their own.*)
ListedIsRecallable ==
    hist # <<>> =>
        Listed(Len(hist) - 1) = {m \in 1 .. Len(hist) : Recallable(m, Len(hist))}

(* A failure that a foreground child reports is not lost: no waitpid takes *)
(* the child before its command is marked bad, so it is refused when it is *)
(* recalled.  A child may also fail without a report (open fails for its   *)
(* redirection): then it has just ended, and its command stays unmarked.   *)
FailuresMarked ==
    [][\A p \in Pids :
        child[p].st = "failed" /\ child'[p].st = "none" =>
            LET i == child[p].at + 1 IN hist[i].bg \/ hist'[i].bad]_vars

(* The prompt comes back for ever, or the user leaves, or the shell waits  *)
(* for a program that never ends: jobs returns although jobs are running,  *)
(* and the children that built-in commands fork hold nobody up.            *)
PromptReturns ==
    \/ []<>(shell.at \in {"prompt", "gone"})
    \/ <>[](\/ shell.at = "wait" /\ child[shell.own].st = "program"
            \/ shell.at = "fg" /\ child[shell.target].st = "program")
=============================================================================

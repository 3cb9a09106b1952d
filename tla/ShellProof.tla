---------------------------- MODULE ShellProof -----------------------------
(***************************************************************************)
(* Proofs about Shell, for any set of pids, any size of the table and of   *)
(* the window.                                                             *)
(*                                                                         *)
(* The invariant says, besides the properties, that no two children belong *)
(* to the same command, that while the shell waits the last command is the *)
(* one it waits for, and which commands a child may outlive the prompt of. *)
(***************************************************************************)
EXTENDS Shell, TLAPS

Live(p) == child[p].st # "none"
CommandOf(p) == hist[child[p].at + 1]

\* Each child belongs to a command of its own; only programs can fail.
ChildInv ==
    /\ \A p \in Pids : Live(p) => child[p].at \in 0 .. Len(hist) - 1
    /\ \A p, q \in Pids : Live(p) /\ Live(q) /\ child[p].at = child[q].at => p = q
    /\ \A p \in Pids : child[p].st \in {"failing", "program", "failed"}
                         => CommandOf(p).does = "program"

\* Where the shell blocks, and on whom.
ShellInv ==
    /\ shell.at \in {"prompt", "reap", "gone"} => shell.own = NoPid
    /\ shell.at \in {"fg", "wait"} =>
         /\ shell.own \in Pids /\ Live(shell.own)
         /\ child[shell.own].at = Len(hist) - 1
    /\ shell.at = "wait" => ~hist[Len(hist)].bg
    /\ shell.at = "fg" =>
         /\ hist[Len(hist)].does = "program"
         /\ shell.target \in Pids /\ Holding(jobs, shell.target) # {}
         /\ Holding(jobs, shell.own) = {}
    /\ shell.at = "reap" => Len(hist) > 0 /\ hist[Len(hist)].does = "jobs"

\* The commands whose child the prompt does not wait for.
Lasting(c) == Backgrounded(c) \/ c.does = "jobs" \/ (c.does = "history" /\ c.bad)
LastingInv == \A p \in Pids : Live(p) /\ p # shell.own => Lasting(CommandOf(p))

IInv == TypeOK /\ ChildInv /\ ShellInv /\ JobsAreChildren /\ JobsListed /\ LastingInv
-----------------------------------------------------------------------------
(* Lemmas about the operators. *)

LEMMA SlotOf == \A k \in Nat : k % NumSlots \in Slots
  BY ShellAssumption DEF Slots

LEMMA MarkedLast ==
  ASSUME NEW h \in Seq(Commands), Len(h) > 0
  PROVE  /\ Marked(h) \in Seq(Commands) /\ Len(Marked(h)) = Len(h)
         /\ \A i \in 1 .. Len(h) :
              /\ Marked(h)[i].does = h[i].does /\ Marked(h)[i].bg = h[i].bg
              /\ h[i].bad => Marked(h)[i].bad
              /\ i # Len(h) => Marked(h)[i] = h[i]
         /\ Marked(h)[Len(h)].bad
  <1> DEFINE n == Len(h)  c == [h[n] EXCEPT !.bad = TRUE]
  <1>1. n \in 1 .. Len(h) /\ h[n] \in Commands
    OBVIOUS
  <1>2. c \in Commands /\ c.does = h[n].does /\ c.bg = h[n].bg /\ c.bad = TRUE
    BY <1>1 DEF Commands
  <1>3. Marked(h) = [h EXCEPT ![n] = c]
    BY DEF Marked
  <1> HIDE DEF c
  <1> QED
    BY <1>1, <1>2, <1>3

\* deljob2 touches no slot that holds another pid, and when only one slot
\* holds the pid none is left that does.
LEMMA WithoutOthers ==
  ASSUME NEW t \in [Slots -> Pids \cup {NoPid, Deleted}], NEW p \in Pids
  PROVE  /\ Without(t, p) \in [Slots -> Pids \cup {NoPid, Deleted}]
         /\ \A s \in Slots : Without(t, p)[s] \in {t[s], Deleted}
         /\ \A s \in Slots : t[s] # p => Without(t, p)[s] = t[s]
         /\ (\A r, s \in Slots : t[r] = p /\ t[s] = p => r = s)
              => \A s \in Slots : Without(t, p)[s] # p
  BY ShellAssumption DEF Without, Holding, Slots
-----------------------------------------------------------------------------
(* Every command that forks is one of four kinds. *)

Begins(c, p, st) ==
    /\ c \in Commands /\ p \in Pids /\ st \in {"quiet", "failing", "program"}
    /\ st # "quiet" => c.does = "program"
    /\ Forks(c, p, st)
    /\ \/ (c.bg => Backgrounded(c)) /\ Onwards(jobs, c, Len(hist), p)
       \/ /\ c.does = "program" /\ jobs' = jobs
          /\ \E t \in Pids : /\ Holding(jobs, t) # {}
                            /\ shell' = [at |-> "fg", own |-> p, target |-> t]
       \/ Lasting(c) /\ ~Backgrounded(c) /\ jobs' = jobs /\ shell' = shell
       \/ c.does = "jobs" /\ jobs' = jobs /\ shell' = [Prompt EXCEPT !.at = "reap"]

LEMMA CommandFields ==
  ASSUME NEW does \in Words, NEW bg \in BOOLEAN, NEW bad \in BOOLEAN
  PROVE  /\ Command(does, bg, bad) \in Commands
         /\ Command(does, bg, bad).does = does
         /\ Command(does, bg, bad).bg = bg /\ Command(does, bg, bad).bad = bad
  BY DEF Command, Commands

LEMMA TypesBegin ==
  ASSUME TypeOK, NEW bg \in BOOLEAN, NEW p \in Pids, Types(bg, p)
  PROVE  \E c \in Commands, st \in Life : Begins(c, p, st)
  <1> DEFINE Goal == \E c \in Commands, st \in Life : Begins(c, p, st)
  <1> SUFFICES Goal
    OBVIOUS
  <1>0. ASSUME NEW c \in Commands, NEW st \in {"quiet", "failing", "program"},
               st # "quiet" => c.does = "program", Forks(c, p, st),
               \/ (c.bg => Backgrounded(c)) /\ Onwards(jobs, c, Len(hist), p)
               \/ /\ c.does = "program" /\ jobs' = jobs
                  /\ \E t \in Pids : /\ Holding(jobs, t) # {}
                                    /\ shell' = [at |-> "fg", own |-> p, target |-> t]
               \/ Lasting(c) /\ ~Backgrounded(c) /\ jobs' = jobs /\ shell' = shell
               \/ c.does = "jobs" /\ jobs' = jobs /\ shell' = [Prompt EXCEPT !.at = "reap"]
        PROVE Goal
    BY <1>0 DEF Begins, Life
  <1> DEFINE Good == Command("program", bg, FALSE)
             Bad == Command("program", bg, TRUE)
  <1>a. /\ Good \in Commands /\ Good.does = "program"
        /\ Bad \in Commands /\ Bad.does = "program"
    BY CommandFields DEF Words
  <1>b. (Good.bg => Backgrounded(Good)) /\ (Bad.bg => Backgrounded(Bad))
    BY <1>a DEF Backgrounded
  <1> HIDE DEF Goal, Good, Bad
  <1>1. CASE Program(bg, p)
    <2>1. Forks(Good, p, "program") /\ Onwards(jobs, Good, Len(hist), p)
      BY <1>1 DEF Program, Good
    <2> QED
      BY <1>0, <1>a, <1>b, <2>1
  <1>2. CASE Pwd(bg, p)
    <2>1. PICK st \in {"quiet", "failing"} :
            Forks(Good, p, st) /\ Onwards(jobs, Good, Len(hist), p)
      BY <1>2 DEF Pwd, Good
    <2> QED
      BY <1>0, <1>a, <1>b, <2>1
  <1>3. CASE Cd(bg, p)
    <2>1. PICK fails \in BOOLEAN :
            LET c == Command("program", bg, bg \/ fails)
            IN  Forks(c, p, "quiet") /\ Onwards(jobs, c, Len(hist), p)
      BY <1>3 DEF Cd
    <2>2. CASE bg \/ fails
      <3>1. (bg \/ fails) = TRUE
        BY <2>2
      <3>2. Forks(Bad, p, "quiet") /\ Onwards(jobs, Bad, Len(hist), p)
        BY <2>1, <3>1 DEF Bad
      <3> QED
        BY <1>0, <1>a, <1>b, <3>2
    <2>3. CASE ~(bg \/ fails)
      <3>1. (bg \/ fails) = FALSE
        BY <2>3
      <3>2. Forks(Good, p, "quiet") /\ Onwards(jobs, Good, Len(hist), p)
        BY <2>1, <3>1 DEF Good
      <3> QED
        BY <1>0, <1>a, <1>b, <3>2
    <2> QED
      BY <2>2, <2>3
  <1>4. CASE FgNothing(bg, p)
    <2>1. Forks(Bad, p, "quiet") /\ Onwards(jobs, Bad, Len(hist), p)
      BY <1>4 DEF FgNothing, Bad
    <2> QED
      BY <1>0, <1>a, <1>b, <2>1
  <1>5. ASSUME NEW t \in Pids, Fg(t, bg, p) PROVE Goal
    <2>2. Forks(Good, p, "quiet")
      BY <1>5 DEF Fg, Good
    <2>3. CASE Holding(jobs, t) = {}
      <3>1. Onwards(jobs, Good, Len(hist), p)
        BY <1>5, <2>3 DEF Fg, Good
      <3> QED
        BY <1>0, <1>a, <1>b, <2>2, <3>1
    <2>4. CASE Holding(jobs, t) # {}
      <3>1. shell' = [at |-> "fg", own |-> p, target |-> t] /\ jobs' = jobs
        BY <1>5, <2>4 DEF Fg
      <3> QED
        BY <1>0, <1>a, <2>2, <2>4, <3>1
    <2> QED
      BY <2>3, <2>4
  <1>6. ASSUME NEW does \in {"jobs", "history"}, TooMany(does, bg, p) PROVE Goal
    <2> DEFINE c == Command(does, bg, TRUE)
    <2>1. c \in Commands /\ c.does = does /\ c.bad
      BY CommandFields DEF Words
    <2>2. Lasting(c) /\ ~Backgrounded(c)
      BY <2>1 DEF Lasting, Backgrounded
    <2>3. Forks(c, p, "quiet") /\ jobs' = jobs /\ shell' = shell
      BY <1>6 DEF TooMany
    <2> QED
      BY <1>0, <2>1, <2>2, <2>3
  <1>7. ASSUME NEW does \in {"jobs", "history"}, NEW b \in BOOLEAN,
               AfterFork(Command(does, b, FALSE), "quiet", p)
        PROVE Goal
    <2> DEFINE c == Command(does, b, FALSE)
    <2>1. c \in Commands /\ c.does = does /\ ~c.bad
      BY CommandFields DEF Words
    <2>2. Forks(c, p, "quiet")
      BY <1>7 DEF AfterFork
    <2>3. CASE does = "jobs"
      <3>1. shell' = [Prompt EXCEPT !.at = "reap"] /\ jobs' = jobs
        BY <1>7, <2>1, <2>3 DEF AfterFork
      <3> QED
        BY <1>0, <2>1, <2>2, <2>3, <3>1
    <2>4. CASE does = "history"
      <3>1. Onwards(jobs, c, Len(hist), p)
        BY <1>7, <2>1, <2>4 DEF AfterFork
      <3>2. c.bg => Backgrounded(c)
        BY <2>1, <2>4 DEF Backgrounded
      <3> QED
        BY <1>0, <2>1, <2>2, <3>1, <3>2
    <2> QED
      BY <2>3, <2>4
  <1>8. CASE Jobs(bg, p) \/ History(bg, p)
    <2>1. CASE Jobs(bg, p)
      <3>1. AfterFork(Command("jobs", bg, FALSE), "quiet", p)
        BY <2>1 DEF Jobs
      <3> QED
        BY <1>7, <3>1
    <2>2. CASE History(bg, p)
      <3>1. AfterFork(Command("history", bg, FALSE), "quiet", p)
        BY <2>2 DEF History
      <3> QED
        BY <1>7, <3>1
    <2> QED
      BY <1>8, <2>1, <2>2
  <1>9. ASSUME NEW m \in DOMAIN hist, Recall(m, bg, p) PROVE Goal
    <2> DEFINE old == hist[m]
               st == IF old.does # "program" THEN "quiet"
                     ELSE IF old.bad THEN "failing" ELSE "program"
               c == Command(old.does, bg \/ old.bg, FALSE)
    <2>1. hist \in Seq(Commands)
      BY DEF TypeOK
    <2>2. old \in Commands
      BY <2>1
    <2>3. /\ (bg \/ old.bg) \in BOOLEAN /\ old.does \in Words
      BY <2>2 DEF Commands
    <2>4. AfterFork(c, st, p)
      BY <1>9 DEF Recall
    <2>5. CASE old.does \in {"jobs", "history"}
      BY <1>7, <2>3, <2>4, <2>5
    <2>6. CASE old.does = "program"
      <3>1. c \in Commands /\ c.does = "program"
        <4>1. "program" \in Words
          BY DEF Words
        <4> QED
          BY <2>3, <2>6, <4>1, CommandFields
      <3>2. c.bg => Backgrounded(c)
        BY <3>1 DEF Backgrounded
      <3>3. Forks(c, p, st) /\ Onwards(jobs, c, Len(hist), p)
        BY <2>4, <3>1 DEF AfterFork
      <3>4. st \in {"quiet", "failing", "program"}
        OBVIOUS
      <3> HIDE DEF c, st
      <3> QED
        BY <1>0, <3>1, <3>2, <3>3, <3>4
    <2> QED
      BY <2>3, <2>5, <2>6 DEF Words
  <1> QED
    BY <1>1, <1>2, <1>3, <1>4, <1>5, <1>6, <1>8, <1>9 DEF Types

\* The new command is the last one, and its child is the only new one.
LEMMA ForksEffect ==
  ASSUME TypeOK, NEW c \in Commands, NEW p \in Pids,
         NEW st \in {"quiet", "failing", "program"}, Forks(c, p, st)
  PROVE  /\ shell.at = "prompt" /\ ~Live(p)
         /\ hist' \in Seq(Commands) /\ Len(hist') = Len(hist) + 1
         /\ Len(hist') <= MaxCommands
         /\ \A i \in 1 .. Len(hist) : hist'[i] = hist[i]
         /\ hist'[Len(hist) + 1] = c
         /\ child' \in [Pids -> Children]
         /\ child'[p].st = st /\ child'[p].at = Len(hist)
         /\ \A q \in Pids : q # p => child'[q] = child[q]
  BY ShellAssumption DEF TypeOK, Forks, Live, Children, Life
-----------------------------------------------------------------------------
(* Types. *)

LEMMA TypeInit == Init => TypeOK
  BY ShellAssumption
  DEF Init, TypeOK, NoChild, Children, Life, Prompt, Places

LEMMA OnwardsType ==
  ASSUME NEW t \in [Slots -> Pids \cup {NoPid, Deleted}], NEW c \in Commands,
         NEW k \in Nat, NEW p \in Pids, Onwards(t, c, k, p)
  PROVE  /\ jobs' \in [Slots -> Pids \cup {NoPid, Deleted}]
         /\ shell' \in [at: Places, own: Pids \cup {NoPid}, target: Pids \cup {NoPid}]
  BY SlotOf DEF Onwards, Added, Prompt, Places, Commands

LEMMA TypeStep == TypeOK /\ ShellInv /\ [Next]_vars => TypeOK'
  <1> SUFFICES ASSUME TypeOK, ShellInv, [Next]_vars PROVE TypeOK'
    OBVIOUS
  <1>0. /\ hist \in Seq(Commands) /\ Len(hist) <= MaxCommands
        /\ jobs \in [Slots -> Pids \cup {NoPid, Deleted}]
        /\ child \in [Pids -> Children]
        /\ shell \in [at: Places, own: Pids \cup {NoPid}, target: Pids \cup {NoPid}]
    BY DEF TypeOK
  <1>1. ASSUME NEW bg \in BOOLEAN, NEW p \in Pids, Types(bg, p) PROVE TypeOK'
    <2>1. PICK c \in Commands, st \in Life : Begins(c, p, st)
      BY <1>1, TypesBegin
    <2>2. /\ hist' \in Seq(Commands) /\ Len(hist') <= MaxCommands
          /\ child' \in [Pids -> Children]
      BY <2>1, ForksEffect DEF Begins
    <2>3. /\ jobs' \in [Slots -> Pids \cup {NoPid, Deleted}]
          /\ shell' \in [at: Places, own: Pids \cup {NoPid}, target: Pids \cup {NoPid}]
      <3>1. CASE Onwards(jobs, c, Len(hist), p)
        BY <1>0, <3>1, OnwardsType
      <3>2. CASE ~Onwards(jobs, c, Len(hist), p)
        BY <1>0, <2>1, <3>2 DEF Begins, Prompt, Places
      <3> QED
        BY <3>1, <3>2
    <2> QED
      BY <2>2, <2>3 DEF TypeOK
  <1>2. ASSUME NEW bg \in BOOLEAN, NEW does \in Words, Rejected(does, bg)
        PROVE TypeOK'
    BY <1>0, <1>2, ShellAssumption DEF Rejected, Command, Commands, TypeOK
  <1>3. CASE Exit
    BY <1>0, <1>3 DEF Exit, Prompt, Places, TypeOK
  <1>4. CASE FgWaited
    <2>1. Len(hist) - 1 \in Nat /\ hist[Len(hist)] \in Commands /\ shell.own \in Pids
      BY <1>0, <1>4 DEF FgWaited, ShellInv, Children
    <2>2. Without(jobs, shell.target) \in [Slots -> Pids \cup {NoPid, Deleted}]
      BY <1>0, <1>4, WithoutOthers DEF FgWaited
    <2> QED
      BY <1>0, <1>4, <2>1, <2>2, OnwardsType
      DEF FgWaited, NoChild, Children, Life, TypeOK
  <1>5. ASSUME NEW q \in Pids, Reap(q) PROVE TypeOK'
    BY <1>0, <1>5, WithoutOthers, MarkedLast
    DEF Reap, ShellInv, NoChild, Children, Life, TypeOK
  <1>6. CASE Reaped
    BY <1>0, <1>6 DEF Reaped, Prompt, Places, TypeOK
  <1>7. CASE Waited
    <2>1. Len(hist) > 0
      BY <1>0, <1>7 DEF Waited, ShellInv, Children
    <2> QED
      BY <1>0, <1>7, <2>1, MarkedLast
      DEF Waited, NoChild, Children, Life, Prompt, Places, TypeOK
  <1>8. ASSUME NEW p \in Pids, Leaves(p) \/ ProgramEnds(p) PROVE TypeOK'
    <2>1. PICK st \in Life : Ends(p, st)
      BY <1>8 DEF Leaves, ProgramEnds, Life
    <2>2. [child[p] EXCEPT !.st = st] \in Children
      BY <1>0 DEF Children
    <2>3. child' = [child EXCEPT ![p] = [child[p] EXCEPT !.st = st]]
      BY <2>1 DEF Ends
    <2> QED
      BY <1>0, <2>1, <2>2, <2>3 DEF Ends, TypeOK
  <1>9. CASE UNCHANGED vars
    BY <1>9 DEF vars, TypeOK
  <1> QED
    BY <1>1, <1>2, <1>3, <1>4, <1>5, <1>6, <1>7, <1>8, <1>9
    DEF Next, Reads, Returns
-----------------------------------------------------------------------------
(* The steps that fork. *)

\* A pid is in one slot at most.
LEMMA OneSlot ==
  ASSUME JobsAreChildren, NEW r \in Slots, NEW s \in Slots,
         jobs[r] \in Pids, jobs[s] = jobs[r]
  PROVE  r = s
  BY DEF JobsAreChildren

LEMMA BeginsStep ==
  ASSUME IInv, NEW c \in Commands, NEW p \in Pids, NEW st \in Life,
         Begins(c, p, st)
  PROVE  /\ ChildInv' /\ ShellInv' /\ JobsAreChildren' /\ JobsListed'
         /\ LastingInv'
  <1> DEFINE n == Len(hist)
  <1>0. /\ n \in Nat /\ hist \in Seq(Commands) /\ child \in [Pids -> Children]
        /\ jobs \in [Slots -> Pids \cup {NoPid, Deleted}]
        /\ NoPid \notin Pids
    BY ShellAssumption DEF IInv, TypeOK
  <1>1. /\ shell.at = "prompt" /\ ~Live(p)
        /\ Len(hist') = n + 1
        /\ \A i \in 1 .. n : hist'[i] = hist[i]
        /\ hist'[n + 1] = c
        /\ child'[p].st = st /\ child'[p].at = n
        /\ \A q \in Pids : q # p => child'[q] = child[q]
    BY ForksEffect DEF Begins, IInv
  <1>2. st \in {"quiet", "failing", "program"} /\ (st # "quiet" => c.does = "program")
    BY DEF Begins
  <1>3. shell.own = NoPid
    BY <1>1 DEF IInv, ShellInv
  <1>4. ASSUME NEW q \in Pids, q # p, Live(q)
        PROVE  /\ child'[q] = child[q] /\ child[q].at \in 0 .. n - 1
               /\ hist'[child[q].at + 1] = CommandOf(q)
    BY <1>0, <1>1, <1>4 DEF IInv, ChildInv, CommandOf
  <1>5. ChildInv'
    <2>1. \A q \in Pids : child'[q].st # "none" => child'[q].at \in 0 .. Len(hist') - 1
      BY <1>0, <1>1, <1>4 DEF Live
    <2>2. \A q, r \in Pids : child'[q].st # "none" /\ child'[r].st # "none"
                               /\ child'[q].at = child'[r].at => q = r
      BY <1>0, <1>1, <1>4 DEF Live, IInv, ChildInv
    <2>3. \A q \in Pids : child'[q].st \in {"failing", "program", "failed"}
                           => hist'[child'[q].at + 1].does = "program"
      BY <1>0, <1>1, <1>2, <1>4 DEF Live, IInv, ChildInv, CommandOf
    <2> QED
      BY <2>1, <2>2, <2>3 DEF ChildInv, Live, CommandOf
  <1>6. CASE c.bg /\ Backgrounded(c) /\ Onwards(jobs, c, n, p)
    <2>1. jobs' = [jobs EXCEPT ![n % NumSlots] = p] /\ shell' = Prompt
      BY <1>6 DEF Onwards, Added
    <2>2. n % NumSlots \in Slots
      BY <1>0, SlotOf
    <2>3. ShellInv'
      BY <2>1 DEF ShellInv, Prompt
    <2>4. JobsAreChildren'
      <3> SUFFICES ASSUME NEW s \in Slots, jobs'[s] \in Pids
                   PROVE  /\ child'[jobs'[s]].st # "none"
                          /\ child'[jobs'[s]].at % NumSlots = s
                          /\ Backgrounded(hist'[child'[jobs'[s]].at + 1])
        BY DEF JobsAreChildren
      <3>1. CASE s = n % NumSlots
        BY <1>0, <1>1, <1>2, <1>6, <2>1, <2>2, <3>1
      <3>2. CASE s # n % NumSlots
        <4>1. jobs'[s] = jobs[s]
          BY <1>0, <2>1, <3>2
        <4>2. /\ Live(jobs[s]) /\ child[jobs[s]].at % NumSlots = s
              /\ Backgrounded(CommandOf(jobs[s]))
          BY <4>1 DEF IInv, JobsAreChildren, Live, CommandOf
        <4> QED
          BY <1>1, <1>4, <4>1, <4>2 DEF Live
      <3> QED
        BY <3>1, <3>2
    <2>5. JobsListed'
      <3> SUFFICES ASSUME NEW q \in Pids, child'[q].st # "none",
                          Backgrounded(hist'[child'[q].at + 1])
                   PROVE  \/ jobs'[child'[q].at % NumSlots] = q
                          \/ \E j \in child'[q].at + 2 .. Len(hist') :
                               Backgrounded(hist'[j])
                               /\ (j - 1) % NumSlots = child'[q].at % NumSlots
        BY DEF JobsListed
      <3>1. CASE q = p
        BY <1>0, <1>1, <2>1, <2>2, <3>1
      <3>2. CASE q # p
        <4> DEFINE a == child[q].at
        <4>1. Live(q) /\ child'[q] = child[q] /\ a \in 0 .. n - 1
              /\ Backgrounded(hist[a + 1])
          BY <1>1, <1>4, <3>2 DEF Live, CommandOf
        <4>2. \/ jobs[a % NumSlots] = q
              \/ \E j \in a + 2 .. n : Backgrounded(hist[j])
                                      /\ (j - 1) % NumSlots = a % NumSlots
          BY <1>0, <1>3, <4>1 DEF IInv, JobsListed, Live
        <4>3. CASE a % NumSlots = n % NumSlots
          <5>1. n + 1 \in a + 2 .. Len(hist') /\ (n + 1) - 1 = n
            BY <1>0, <1>1, <4>1
          <5> QED
            BY <1>1, <1>6, <4>1, <4>3, <5>1
        <4>4. CASE a % NumSlots # n % NumSlots /\ jobs[a % NumSlots] = q
          BY <1>0, <2>1, <2>2, <4>1, <4>4, SlotOf
        <4>5. ASSUME NEW j \in a + 2 .. n, Backgrounded(hist[j]),
                     (j - 1) % NumSlots = a % NumSlots
              PROVE  \E k \in a + 2 .. Len(hist') : Backgrounded(hist'[k])
                       /\ (k - 1) % NumSlots = a % NumSlots
          <5>1. j \in a + 2 .. Len(hist') /\ hist'[j] = hist[j]
            BY <1>0, <1>1, <4>1
          <5> QED
            BY <4>5, <5>1
        <4> QED
          BY <4>1, <4>2, <4>3, <4>4, <4>5
      <3> QED
        BY <3>1, <3>2
    <2>6. LastingInv'
      BY <1>1, <1>3, <1>4, <1>6, <1>0 DEF LastingInv, Lasting, IInv, Live, CommandOf
    <2> QED
      BY <1>5, <2>3, <2>4, <2>5, <2>6
  <1> DEFINE
       Others == \/ ~c.bg /\ Onwards(jobs, c, n, p)
                 \/ /\ c.does = "program"
                    /\ \E t \in Pids : /\ Holding(jobs, t) # {}
                                      /\ shell' = [at |-> "fg", own |-> p, target |-> t]
                 \/ Lasting(c) /\ ~Backgrounded(c) /\ shell' = shell
                 \/ c.does = "jobs" /\ shell' = [Prompt EXCEPT !.at = "reap"]
  <1>7. CASE jobs' = jobs /\ Others
    <2>1. JobsAreChildren'
      BY <1>0, <1>1, <1>4, <1>7 DEF IInv, JobsAreChildren, Live, CommandOf
    <2>2. \/ shell'.own = p
          \/ shell'.own = NoPid /\ ~Backgrounded(c) /\ Lasting(c)
      <3>1. CASE ~c.bg /\ Onwards(jobs, c, n, p)
        BY <3>1 DEF Onwards
      <3>2. CASE c.does = "jobs" /\ shell' = [Prompt EXCEPT !.at = "reap"]
        BY <3>2 DEF Prompt, Lasting, Backgrounded
      <3> QED
        BY <1>3, <1>7, <3>1, <3>2
    <2>3. ASSUME NEW q \in Pids, q # p, child'[q].st # "none",
                 Backgrounded(hist'[child'[q].at + 1])
          PROVE  \/ jobs'[child'[q].at % NumSlots] = q
                 \/ \E j \in child'[q].at + 2 .. Len(hist') :
                      Backgrounded(hist'[j])
                      /\ (j - 1) % NumSlots = child'[q].at % NumSlots
      <3> DEFINE a == child[q].at
      <3>1. Live(q) /\ child'[q] = child[q] /\ a \in 0 .. n - 1
            /\ Backgrounded(hist[a + 1])
        BY <1>1, <1>4, <2>3 DEF Live, CommandOf
      <3>2. \/ jobs[a % NumSlots] = q
            \/ \E j \in a + 2 .. n : Backgrounded(hist[j])
                                    /\ (j - 1) % NumSlots = a % NumSlots
        BY <1>0, <1>3, <3>1 DEF IInv, JobsListed, Live
      <3>3. ASSUME NEW j \in a + 2 .. n, Backgrounded(hist[j]),
                   (j - 1) % NumSlots = a % NumSlots
            PROVE  \E k \in a + 2 .. Len(hist') : Backgrounded(hist'[k])
                     /\ (k - 1) % NumSlots = a % NumSlots
        <4>1. j \in a + 2 .. Len(hist') /\ hist'[j] = hist[j]
          BY <1>0, <1>1, <3>1
        <4> QED
          BY <3>3, <4>1
      <3> QED
        BY <1>7, <3>1, <3>2, <3>3
    <2>4. JobsListed'
      BY <1>0, <1>1, <2>2, <2>3 DEF JobsListed
    <2>5. LastingInv'
      BY <1>0, <1>1, <1>3, <1>4, <2>2 DEF LastingInv, IInv, Live, CommandOf
    <2>6. ShellInv'
      <3>1. CASE ~c.bg /\ Onwards(jobs, c, n, p)
        BY <1>0, <1>1, <1>2, <1>7, <3>1 DEF Onwards, ShellInv, Live
      <3>2. ASSUME NEW t \in Pids, c.does = "program", Holding(jobs, t) # {},
                   shell' = [at |-> "fg", own |-> p, target |-> t]
            PROVE  ShellInv'
        <4>1. Holding(jobs, p) = {}
          BY <1>0, <1>1 DEF Holding, IInv, JobsAreChildren, Live
        <4>2. Holding(jobs', t) # {} /\ Holding(jobs', p) = {}
          BY <1>7, <3>2, <4>1
        <4> QED
          BY <1>0, <1>1, <1>2, <3>2, <4>2 DEF ShellInv, Live, Holding
      <3>3. CASE shell' = shell
        BY <1>1, <1>3, <3>3 DEF ShellInv
      <3>4. CASE c.does = "jobs" /\ shell' = [Prompt EXCEPT !.at = "reap"]
        BY <1>0, <1>1, <3>4 DEF ShellInv, Prompt
      <3> QED
        BY <1>7, <3>1, <3>2, <3>3, <3>4
    <2> QED
      BY <1>5, <2>1, <2>4, <2>5, <2>6
  <1> QED
    BY <1>6, <1>7 DEF Begins, Onwards
-----------------------------------------------------------------------------
(* The other steps. *)

Kept == ChildInv /\ ShellInv /\ JobsAreChildren /\ JobsListed /\ LastingInv

LEMMA Basics ==
  ASSUME IInv
  PROVE  /\ Len(hist) \in Nat /\ hist \in Seq(Commands)
         /\ child \in [Pids -> Children]
         /\ jobs \in [Slots -> Pids \cup {NoPid, Deleted}]
         /\ NoPid \notin Pids /\ Deleted \notin Pids /\ NoPid # Deleted
         /\ \A p \in Pids : Live(p) => /\ child[p].at \in 0 .. Len(hist) - 1
                                      /\ child[p].at % NumSlots \in Slots
  <1>1. \A p \in Pids : Live(p) => child[p].at \in 0 .. Len(hist) - 1
    BY DEF IInv, ChildInv
  <1>2. Len(hist) \in Nat
    BY DEF IInv, TypeOK
  <1>3. \A k \in 0 .. Len(hist) - 1 : k \in Nat
    BY <1>2
  <1> QED
    BY <1>1, <1>2, <1>3, ShellAssumption, SlotOf DEF IInv, TypeOK

LEMMA RejectedStep ==
  ASSUME IInv, NEW bg \in BOOLEAN, NEW does \in Words, Rejected(does, bg)
  PROVE  Kept'
  <1>1. /\ shell' = shell /\ jobs' = jobs /\ child' = child
        /\ Len(hist') = Len(hist) + 1
        /\ \A i \in 1 .. Len(hist) : hist'[i] = hist[i]
        /\ shell.at = "prompt"
    BY Basics DEF Rejected
  <1>2. ASSUME NEW p \in Pids, Live(p)
        PROVE  /\ child[p].at \in 0 .. Len(hist) - 1
               /\ hist'[child[p].at + 1] = CommandOf(p)
    BY <1>1, <1>2, Basics DEF CommandOf
  <1>3. ChildInv'
    BY <1>1, <1>2, Basics DEF IInv, ChildInv, Live, CommandOf
  <1>4. ShellInv'
    BY <1>1 DEF IInv, ShellInv
  <1>5. JobsAreChildren'
    BY <1>1, <1>2 DEF IInv, JobsAreChildren, Live, CommandOf
  <1>6. ASSUME NEW p \in Pids, Live(p), NEW j \in child[p].at + 2 .. Len(hist)
        PROVE  j \in child[p].at + 2 .. Len(hist') /\ hist'[j] = hist[j]
    BY <1>1, <1>2, <1>6, Basics
  <1>7. JobsListed'
    BY <1>1, <1>2, <1>6 DEF IInv, JobsListed, Live, CommandOf
  <1>8. LastingInv'
    BY <1>1, <1>2 DEF IInv, LastingInv, Live, CommandOf
  <1> QED
    BY <1>3, <1>4, <1>5, <1>7, <1>8 DEF Kept

\* The shell moves to a place where it waits for nobody.
LEMMA IdleStep ==
  ASSUME IInv, Exit \/ Reaped
  PROVE  Kept'
  <1>1. /\ hist' = hist /\ jobs' = jobs /\ child' = child
        /\ shell.own = NoPid /\ shell'.own = NoPid
        /\ shell'.at \in {"prompt", "gone"}
    BY DEF Exit, Reaped, Prompt, IInv, ShellInv
  <1>2. ShellInv'
    BY <1>1 DEF ShellInv
  <1> QED
    BY <1>1, <1>2
    DEF Kept, IInv, ChildInv, JobsAreChildren, JobsListed, LastingInv, Live, CommandOf

LEMMA EndsStep ==
  ASSUME IInv, NEW p \in Pids, Leaves(p) \/ ProgramEnds(p)
  PROVE  Kept'
  <1>1. PICK st \in Life :
          /\ Ends(p, st) /\ st # "none" /\ Live(p)
          /\ st \in {"failing", "program", "failed"} =>
               child[p].st \in {"failing", "program", "failed"}
    BY DEF Leaves, ProgramEnds, Life, Live
  <1>2. /\ hist' = hist /\ jobs' = jobs /\ shell' = shell
        /\ child'[p].st = st
        /\ \A q \in Pids : child'[q].at = child[q].at /\ (Live(q) <=> child'[q].st # "none")
        /\ \A q \in Pids : q # p => child'[q] = child[q]
    BY <1>1, Basics DEF Ends, Children, Live
  <1>3. ChildInv'
    BY <1>1, <1>2 DEF IInv, ChildInv, Live, CommandOf
  <1>4. ShellInv'
    <2>1. \A s \in Pids : Holding(jobs', s) = Holding(jobs, s)
      BY <1>2
    <2> QED
      BY <1>2, <2>1 DEF IInv, ShellInv, Live, Holding
  <1>5. JobsAreChildren'
    BY <1>2 DEF IInv, JobsAreChildren, Live
  <1>6. JobsListed'
    BY <1>2 DEF IInv, JobsListed, Live
  <1>7. LastingInv'
    BY <1>2 DEF IInv, LastingInv, Live, CommandOf
  <1> QED
    BY <1>3, <1>4, <1>5, <1>6, <1>7 DEF Kept

\* What marking leaves of a command.
Similar(c, d) ==
    /\ c.does = d.does
    /\ Backgrounded(c) => Backgrounded(d)
    /\ Backgrounded(d) => Backgrounded(c)
    /\ Lasting(d) => Lasting(c)

\* The last command may be marked bad: it owns no slot and leaves no child.
LEMMA MarkStep ==
  ASSUME IInv, hist' = hist \/ hist' = Marked(hist), Len(hist) > 0,
         ~Backgrounded(hist[Len(hist)])
  PROVE  /\ Len(hist') = Len(hist)
         /\ \A i \in 1 .. Len(hist) : Similar(hist'[i], hist[i])
  <1>1. CASE hist' = hist
    BY <1>1 DEF Similar
  <1>2. CASE hist' = Marked(hist)
    <2>1. /\ Len(hist') = Len(hist)
          /\ \A i \in 1 .. Len(hist) :
               /\ hist'[i].does = hist[i].does /\ hist'[i].bg = hist[i].bg
               /\ hist[i].bad => hist'[i].bad
               /\ i # Len(hist) => hist'[i] = hist[i]
      BY <1>2, Basics, MarkedLast
    <2>2. ASSUME NEW i \in 1 .. Len(hist) PROVE Similar(hist'[i], hist[i])
      BY <2>1 DEF Similar, Backgrounded, Lasting
    <2> QED
      BY <2>1, <2>2
  <1> QED
    BY <1>1, <1>2

\* The table t is jobs without r.
Lacks(t, r) ==
    \A s \in Slots : /\ t[s] \in {jobs[s], Deleted} /\ t[s] # r
                     /\ jobs[s] # r => t[s] = jobs[s]

\* The table t would do as the next one for every child but the shell's own.
Fits(t) ==
    /\ \A s \in Slots : t[s] \in Pids =>
         /\ child'[t[s]].st # "none" /\ child'[t[s]].at % NumSlots = s
         /\ Backgrounded(hist'[child'[t[s]].at + 1])
    /\ \A q \in Pids :
         child'[q].st # "none" /\ Backgrounded(hist'[child'[q].at + 1])
           /\ q # shell.own =>
         \/ t[child'[q].at % NumSlots] = q
         \/ \E j \in child'[q].at + 2 .. Len(hist') :
              Backgrounded(hist'[j]) /\ (j - 1) % NumSlots = child'[q].at % NumSlots
    /\ \A q \in Pids :
         child'[q].st # "none" /\ q # shell.own => Lasting(hist'[child'[q].at + 1])

\* A child r is reaped and the table becomes t.
LEMMA ReapedChild ==
  ASSUME IInv, NEW r \in Pids, child' = [child EXCEPT ![r] = NoChild],
         Len(hist') = Len(hist),
         \A i \in 1 .. Len(hist) : Similar(hist'[i], hist[i]),
         NEW t, Lacks(t, r)
  PROVE  ChildInv' /\ Fits(t)
  <1>1. /\ child'[r].st = "none"
        /\ \A q \in Pids : q # r => child'[q] = child[q]
    BY Basics DEF NoChild
  <1>2. ASSUME NEW q \in Pids, child'[q].st # "none"
        PROVE  /\ q # r /\ child'[q] = child[q] /\ Live(q)
               /\ child[q].at \in 0 .. Len(hist) - 1
               /\ child[q].at % NumSlots \in Slots
               /\ Similar(hist'[child[q].at + 1], CommandOf(q))
    <2>1. q # r /\ child'[q] = child[q] /\ Live(q)
      BY <1>1, <1>2 DEF Live
    <2>2. child[q].at \in 0 .. Len(hist) - 1 /\ child[q].at % NumSlots \in Slots
      BY <2>1, Basics
    <2>3. child[q].at + 1 \in 1 .. Len(hist)
      BY <2>2, Basics
    <2> QED
      BY <2>1, <2>2, <2>3 DEF CommandOf
  <1>3. ChildInv'
    <2>1. ASSUME NEW q \in Pids, child'[q].st \in {"failing", "program", "failed"}
          PROVE  hist'[child'[q].at + 1].does = "program"
      <3>1. child'[q].st # "none"
        BY <2>1
      <3>2. CommandOf(q).does = "program"
        BY <1>2, <2>1, <3>1 DEF IInv, ChildInv
      <3> QED
        BY <1>2, <3>1, <3>2 DEF Similar
    <2> QED
      BY <1>2, <2>1 DEF IInv, ChildInv, Live, CommandOf
  <1>4. ASSUME NEW s \in Slots, t[s] \in Pids
        PROVE  /\ child'[t[s]].st # "none" /\ child'[t[s]].at % NumSlots = s
               /\ Backgrounded(hist'[child'[t[s]].at + 1])
    <2>1. t[s] = jobs[s] /\ t[s] # r
      BY <1>4, Basics DEF Lacks
    <2>2. /\ child[t[s]].st # "none" /\ child[t[s]].at % NumSlots = s
          /\ Backgrounded(CommandOf(t[s]))
      BY <1>4, <2>1 DEF IInv, JobsAreChildren, CommandOf
    <2>3. child'[t[s]] = child[t[s]]
      BY <1>1, <1>4, <2>1
    <2>4. Similar(hist'[child[t[s]].at + 1], CommandOf(t[s]))
      BY <1>2, <1>4, <2>2, <2>3
    <2> QED
      BY <2>2, <2>3, <2>4 DEF Similar
  <1>5. ASSUME NEW q \in Pids, child'[q].st # "none", q # shell.own,
               Backgrounded(hist'[child'[q].at + 1])
        PROVE  \/ t[child'[q].at % NumSlots] = q
               \/ \E j \in child'[q].at + 2 .. Len(hist') :
                    Backgrounded(hist'[j])
                    /\ (j - 1) % NumSlots = child'[q].at % NumSlots
    <2>1. /\ q # r /\ child'[q] = child[q] /\ Live(q)
          /\ child[q].at \in 0 .. Len(hist) - 1 /\ child[q].at % NumSlots \in Slots
          /\ Similar(hist'[child[q].at + 1], CommandOf(q))
      BY <1>2, <1>5
    <2>2. Backgrounded(hist[child[q].at + 1])
      BY <1>5, <2>1 DEF Similar, CommandOf
    <2>3. \/ jobs[child[q].at % NumSlots] = q
          \/ \E j \in child[q].at + 2 .. Len(hist) :
               Backgrounded(hist[j]) /\ (j - 1) % NumSlots = child[q].at % NumSlots
      BY <1>5, <2>1, <2>2 DEF IInv, JobsListed, Live
    <2>4. CASE jobs[child[q].at % NumSlots] = q
      BY <2>1, <2>4 DEF Lacks
    <2>5. ASSUME NEW j \in child[q].at + 2 .. Len(hist), Backgrounded(hist[j]),
                 (j - 1) % NumSlots = child[q].at % NumSlots
          PROVE  j \in child[q].at + 2 .. Len(hist') /\ Backgrounded(hist'[j])
      <3>1. j \in 1 .. Len(hist)
        BY <2>1, Basics
      <3>2. Similar(hist'[j], hist[j])
        BY <3>1
      <3> QED
        BY <2>5, <3>2 DEF Similar
    <2> QED
      BY <2>1, <2>3, <2>4, <2>5
  <1>6. ASSUME NEW q \in Pids, child'[q].st # "none", q # shell.own
        PROVE  Lasting(hist'[child'[q].at + 1])
    <2>1. child'[q] = child[q] /\ Live(q) /\ Similar(hist'[child[q].at + 1], CommandOf(q))
      BY <1>2, <1>6
    <2>2. Lasting(CommandOf(q))
      BY <1>6, <2>1 DEF IInv, LastingInv
    <2> QED
      BY <2>1, <2>2 DEF Similar
  <1> QED
    BY <1>3, <1>4, <1>5, <1>6 DEF Fits

LEMMA WaitedStep ==
  ASSUME IInv, Waited
  PROVE  Kept'
  <1>1. /\ shell.own \in Pids /\ Live(shell.own)
        /\ child[shell.own].at = Len(hist) - 1 /\ ~hist[Len(hist)].bg
    BY DEF Waited, IInv, ShellInv
  <1>2. Len(hist) > 0 /\ ~Backgrounded(hist[Len(hist)])
    BY <1>1, Basics DEF Backgrounded
  <1>3. /\ Len(hist') = Len(hist)
        /\ \A i \in 1 .. Len(hist) : Similar(hist'[i], hist[i])
    <2>1. hist' = hist \/ hist' = Marked(hist)
      BY DEF Waited
    <2> QED
      BY <1>2, <2>1, MarkStep
  <1>4. /\ jobs' = jobs /\ shell' = Prompt
        /\ child' = [child EXCEPT ![shell.own] = NoChild]
    BY DEF Waited
  <1>5. ASSUME NEW s \in Slots PROVE jobs[s] # shell.own
    <2>1. CASE jobs[s] = shell.own
      <3>1. Backgrounded(hist[child[shell.own].at + 1])
        BY <1>1, <2>1 DEF IInv, JobsAreChildren
      <3>2. child[shell.own].at + 1 = Len(hist)
        BY <1>1, Basics
      <3> QED
        BY <1>2, <3>1, <3>2
    <2> QED
      BY <2>1
  <1>6. child'[shell.own].st = "none"
    BY <1>1, <1>4, Basics DEF NoChild
  <1>7. ShellInv'
    BY <1>4 DEF ShellInv, Prompt
  <1>8. ChildInv' /\ Fits(jobs)
    <2>1. Lacks(jobs, shell.own)
      BY <1>5 DEF Lacks
    <2> QED
      BY <1>1, <1>3, <1>4, <2>1, ReapedChild
  <1>9. JobsAreChildren'
    BY <1>4, <1>8 DEF JobsAreChildren, Fits
  <1>10. JobsListed'
    BY <1>4, <1>6, <1>8 DEF JobsListed, Fits
  <1>11. LastingInv'
    BY <1>6, <1>8 DEF Fits, LastingInv, Live, CommandOf
  <1> QED
    BY <1>7, <1>8, <1>9, <1>10, <1>11 DEF Kept

\* What deljob2 leaves of the table when r is reaped.
LEMMA WithoutReaped ==
  ASSUME IInv, NEW r \in Pids
  PROVE  Lacks(Without(jobs, r), r)
  <1>1. \A a, b \in Slots : jobs[a] = r /\ jobs[b] = r => a = b
    BY OneSlot DEF IInv
  <1> QED
    BY <1>1, Basics, WithoutOthers DEF Lacks

LEMMA ReapStep ==
  ASSUME IInv, NEW q \in Pids, Reap(q)
  PROVE  Kept'
  <1>1. /\ shell.at = "reap" /\ shell.own = NoPid /\ shell' = shell
        /\ Len(hist) > 0 /\ hist[Len(hist)].does = "jobs"
    BY DEF Reap, IInv, ShellInv
  <1>2. ~Backgrounded(hist[Len(hist)])
    BY <1>1 DEF Backgrounded
  <1>3. /\ Len(hist') = Len(hist)
        /\ \A i \in 1 .. Len(hist) : Similar(hist'[i], hist[i])
    <2>1. hist' = hist \/ hist' = Marked(hist)
      BY DEF Reap
    <2> QED
      BY <1>1, <1>2, <2>1, MarkStep
  <1>4. jobs' = Without(jobs, q) /\ child' = [child EXCEPT ![q] = NoChild]
    BY DEF Reap
  <1>5. Lacks(jobs', q)
    BY <1>4, WithoutReaped
  <1>6. ShellInv'
    <2>1. Similar(hist'[Len(hist)], hist[Len(hist)])
      BY <1>1, <1>3, Basics
    <2> QED
      BY <1>1, <1>3, <2>1 DEF ShellInv, Similar
  <1>7. ChildInv' /\ Fits(jobs')
    BY <1>3, <1>4, <1>5, ReapedChild
  <1>8. JobsAreChildren'
    BY <1>7 DEF JobsAreChildren, Fits
  <1>9. JobsListed'
    BY <1>1, <1>7 DEF JobsListed, Fits
  <1>10. LastingInv'
    BY <1>1, <1>7 DEF Fits, LastingInv, Live, CommandOf
  <1> QED
    BY <1>6, <1>7, <1>8, <1>9, <1>10 DEF Kept

LEMMA FgWaitedStep ==
  ASSUME IInv, FgWaited
  PROVE  Kept'
  <1> DEFINE o == shell.own
             k == Len(hist) - 1
             t == Without(jobs, shell.target)
  <1>1. /\ o \in Pids /\ Live(o) /\ child[o].at = k
        /\ hist[Len(hist)].does = "program"
        /\ shell.target \in Pids /\ Holding(jobs, shell.target) # {}
        /\ Holding(jobs, o) = {}
    BY DEF FgWaited, IInv, ShellInv
  <1>2. o # shell.target
    BY <1>1
  <1>3. /\ k \in Nat /\ Len(hist) \in 1 .. Len(hist) /\ k % NumSlots \in Slots
        /\ k + 1 = Len(hist)
    BY <1>1, Basics
  <1>4. /\ child' = [child EXCEPT ![shell.target] = NoChild] /\ hist' = hist
        /\ Onwards(t, hist[Len(hist)], k, o)
    BY DEF FgWaited
  <1>5. child'[o] = child[o] /\ child'[o].st # "none"
    BY <1>1, <1>2, <1>4, Basics DEF Live
  <1>6. \A i \in 1 .. Len(hist) : Similar(hist'[i], hist[i])
    BY <1>4 DEF Similar
  <1>7. Lacks(t, shell.target)
    BY <1>1, WithoutReaped
  <1>8. t \in [Slots -> Pids \cup {NoPid, Deleted}]
    BY <1>1, Basics, WithoutOthers
  <1> HIDE DEF t, o, k
  <1>9. ChildInv' /\ Fits(t)
    <2>1. Len(hist') = Len(hist)
      BY <1>4
    <2> QED
      BY <1>1, <1>4, <1>6, <1>7, <2>1, ReapedChild
  <1>10. CASE ~hist[Len(hist)].bg
    <2>1. jobs' = t /\ shell' = [at |-> "wait", own |-> o, target |-> NoPid]
      BY <1>4, <1>10 DEF Onwards
    <2>2. ShellInv'
      BY <1>1, <1>4, <1>5, <1>10, <2>1 DEF ShellInv, Live, k, o
    <2>3. JobsAreChildren'
      BY <1>9, <2>1 DEF JobsAreChildren, Fits
    <2>4. shell'.own = shell.own
      BY <2>1 DEF o
    <2>5. JobsListed'
      BY <1>9, <2>1, <2>4 DEF JobsListed, Fits
    <2>6. LastingInv'
      BY <1>9, <2>4 DEF Fits, LastingInv, Live, CommandOf
    <2> QED
      BY <1>9, <2>2, <2>3, <2>5, <2>6 DEF Kept
  <1>11. CASE hist[Len(hist)].bg
    <2>0. Backgrounded(hist[Len(hist)])
      BY <1>1, <1>11 DEF Backgrounded
    <2>1. jobs' = [t EXCEPT ![k % NumSlots] = o] /\ shell' = Prompt
      BY <1>4, <1>11 DEF Onwards, Added
    <2>2. ShellInv'
      BY <2>1 DEF ShellInv, Prompt
    <2>3. /\ jobs'[k % NumSlots] = o
          /\ \A s \in Slots : s # k % NumSlots => jobs'[s] = t[s]
      BY <1>3, <1>8, <2>1
    <2>4. Backgrounded(hist'[child'[o].at + 1]) /\ child'[o].at = k
      BY <1>1, <1>3, <1>4, <1>5, <2>0
    <2>5. JobsAreChildren'
      BY <1>5, <1>9, <2>3, <2>4 DEF JobsAreChildren, Fits
    <2>6. JobsListed'
      <3> SUFFICES ASSUME NEW q \in Pids, child'[q].st # "none",
                          Backgrounded(hist'[child'[q].at + 1])
                   PROVE  \/ jobs'[child'[q].at % NumSlots] = q
                          \/ \E j \in child'[q].at + 2 .. Len(hist') :
                               Backgrounded(hist'[j])
                               /\ (j - 1) % NumSlots = child'[q].at % NumSlots
        BY DEF JobsListed
      <3>1. CASE q = o
        BY <2>3, <2>4, <3>1
      <3>2. CASE q # o
        <4>1. \/ t[child'[q].at % NumSlots] = q
              \/ \E j \in child'[q].at + 2 .. Len(hist') :
                   Backgrounded(hist'[j])
                   /\ (j - 1) % NumSlots = child'[q].at % NumSlots
          BY <1>9, <3>2 DEF o, Fits
        <4>2. q # shell.target /\ child'[q] = child[q] /\ Live(q)
          BY <1>1, <1>4, Basics DEF NoChild, Live
        <4>3. child[q].at \in 0 .. k /\ child[q].at % NumSlots \in Slots
          BY <4>2, Basics DEF k
        <4>4. child[q].at # k
          BY <1>1, <3>2, <4>2 DEF IInv, ChildInv
        <4>5. CASE child'[q].at % NumSlots = k % NumSlots
          <5>1. Len(hist) \in child'[q].at + 2 .. Len(hist') /\ Len(hist) - 1 = k
            BY <1>3, <1>4, <4>2, <4>3, <4>4, Basics DEF k
          <5> QED
            BY <1>4, <2>0, <4>5, <5>1
        <4>6. CASE child'[q].at % NumSlots # k % NumSlots
          <5>1. jobs'[child'[q].at % NumSlots] = t[child'[q].at % NumSlots]
            BY <2>3, <4>2, <4>3, <4>6
          <5> QED
            BY <4>1, <5>1
        <4> QED
          BY <4>5, <4>6
      <3> QED
        BY <3>1, <3>2
    <2>7. LastingInv'
      <3>1. ASSUME NEW q \in Pids, child'[q].st # "none"
            PROVE  Lasting(hist'[child'[q].at + 1])
        BY <1>9, <2>0, <2>4, <3>1 DEF Lasting, o, Fits
      <3> QED
        BY <3>1 DEF LastingInv, Live, CommandOf
    <2> QED
      BY <1>9, <2>2, <2>5, <2>6, <2>7 DEF Kept
  <1> QED
    BY <1>10, <1>11
-----------------------------------------------------------------------------
(* The invariant. *)

LEMMA InvInit == Init => IInv
  <1> SUFFICES ASSUME Init PROVE IInv
    OBVIOUS
  <1>1. TypeOK
    BY TypeInit
  <1>2. \A p \in Pids : ~Live(p) /\ child[p].st = "none"
    BY DEF Init, NoChild, Live
  <1>3. \A s \in Slots : jobs[s] \notin Pids
    BY ShellAssumption DEF Init
  <1>4. shell.at = "prompt" /\ shell.own = NoPid
    BY DEF Init, Prompt
  <1> QED
    BY <1>1, <1>2, <1>3, <1>4
    DEF IInv, ChildInv, ShellInv, JobsAreChildren, JobsListed, LastingInv, Live

LEMMA InvStep == IInv /\ [Next]_vars => IInv'
  <1> SUFFICES ASSUME IInv, [Next]_vars PROVE IInv'
    OBVIOUS
  <1>1. TypeOK'
    BY TypeStep DEF IInv
  <1>2. ASSUME NEW bg \in BOOLEAN, NEW p \in Pids, Types(bg, p) PROVE Kept'
    <2>1. PICK c \in Commands, st \in Life : Begins(c, p, st)
      BY <1>2, TypesBegin DEF IInv
    <2> QED
      BY <2>1, BeginsStep DEF Kept
  <1>3. ASSUME NEW bg \in BOOLEAN, NEW does \in Words, Rejected(does, bg) PROVE Kept'
    BY <1>3, RejectedStep
  <1>4. ASSUME Exit \/ Reaped PROVE Kept'
    BY <1>4, IdleStep
  <1>5. ASSUME FgWaited PROVE Kept'
    BY <1>5, FgWaitedStep
  <1>6. ASSUME NEW q \in Pids, Reap(q) PROVE Kept'
    BY <1>6, ReapStep
  <1>7. ASSUME Waited PROVE Kept'
    BY <1>7, WaitedStep
  <1>8. ASSUME NEW p \in Pids, Leaves(p) \/ ProgramEnds(p) PROVE Kept'
    BY <1>8, EndsStep
  <1>9. ASSUME UNCHANGED vars PROVE Kept'
    BY <1>9
    DEF vars, Kept, IInv, ChildInv, ShellInv, JobsAreChildren, JobsListed, LastingInv,
        Live, CommandOf, Holding
  <1>10. Kept'
    BY <1>2, <1>3, <1>4, <1>5, <1>6, <1>7, <1>8, <1>9 DEF Next, Reads, Returns
  <1> QED
    BY <1>1, <1>10 DEF IInv, Kept

LEMMA Invariant == Spec => []IInv
  BY InvInit, InvStep, PTL DEF Spec
-----------------------------------------------------------------------------
(* The theorems. *)

\* The variables keep their types; in particular addjob2 never writes past the
\* end of array_jobs, however many commands are typed (oscode.c:855-875).
THEOREM TypeCorrect == Spec => []TypeOK
  BY Invariant, PTL DEF IInv

\* Every pid in the table is a child that no waitpid has returned, in the slot
\* of the background command that forked it (fg, jobs, addjob2, deljob2).
THEOREM SlotsCorrect == Spec => []JobsAreChildren
  BY Invariant, PTL DEF IInv

\* A background child that is not reaped is in the table unless a later command
\* took its slot (addjob2, deljob2, oscode.c:855-886).
THEOREM ListedCorrect == Spec => []JobsListed
  BY Invariant, PTL DEF IInv

\* At the prompt no foreground child is left that waitpid was not called for
\* (the ends of the loop in main, oscode.c:746-821).
THEOREM ReapedCorrect == Spec => []ForegroundReaped
  <1>1. IInv => ForegroundReaped
    BY ShellAssumption
    DEF IInv, ForegroundReaped, ShellInv, LastingInv, Lasting, Live, CommandOf
  <1> QED
    BY <1>1, Invariant, PTL

\* history lists exactly the numbers that the next prompt accepts
\* (oscode.c:193-233 and 685-745), whatever the size of the window.
THEOREM WindowCorrect == Spec => []ListedIsRecallable
  <1>1. ASSUME NEW k \in Nat \ {0}
        PROVE  Listed(k - 1) = {m \in 1 .. k : Recallable(m, k)}
    <2> DEFINE first == IF k - 1 - 1 - (Window - 1) > 0
                        THEN k - 1 - 1 - (Window - 1) ELSE 0
    <2>1. first \in Nat /\ k \in Nat /\ Window \in Nat \ {0}
      BY ShellAssumption
    <2>2. Listed(k - 1) = {i + 1 : i \in first .. k - 1 - 1}
      BY DEF Listed
    <2>3. ASSUME NEW m \in Listed(k - 1) PROVE m \in 1 .. k /\ Recallable(m, k)
      <3>1. PICK i \in first .. k - 1 - 1 : m = i + 1
        BY <2>2
      <3> QED
        BY <2>1, <3>1 DEF Recallable
    <2>4. ASSUME NEW m \in 1 .. k, Recallable(m, k) PROVE m \in Listed(k - 1)
      <3>1. m - 1 \in first .. k - 1 - 1 /\ m = (m - 1) + 1
        BY <2>1, <2>4 DEF Recallable
      <3> QED
        BY <2>2, <3>1
    <2> QED
      BY <2>3, <2>4
  <1>2. IInv => ListedIsRecallable
    <2>1. SUFFICES ASSUME IInv, hist # <<>>
                   PROVE  Listed(Len(hist) - 1)
                            = {m \in 1 .. Len(hist) : Recallable(m, Len(hist))}
      BY DEF ListedIsRecallable
    <2>2. Len(hist) \in Nat \ {0}
      BY <2>1, Basics
    <2> QED
      BY <1>1, <2>2
  <1> QED
    BY <1>2, Invariant, PTL

\* A failure that a foreground child reports marks its command bad before any
\* waitpid has taken the child: fg and jobs only reap background programs.
THEOREM FailuresCorrect == Spec => FailuresMarked
  <1> DEFINE Lost(p) == child[p].st = "failed" /\ child'[p].st = "none"
             Told(p) == hist[child[p].at + 1].bg \/ hist'[child[p].at + 1].bad
             A == \A p \in Pids : Lost(p) => Told(p)
  <1>1. ASSUME IInv, Next, NEW p \in Pids, Lost(p) PROVE Told(p)
    <2>0. Live(p) /\ CommandOf(p).does = "program" /\ p # NoPid
      BY <1>1, ShellAssumption DEF IInv, ChildInv, Live
    <2>1. ASSUME Lasting(CommandOf(p)) PROVE Told(p)
      BY <2>0, <2>1 DEF Lasting, Backgrounded, CommandOf
    <2>2. ASSUME NEW bg \in BOOLEAN, NEW q \in Pids, Types(bg, q) PROVE FALSE
      <3>1. PICK c \in Commands, st \in Life : Begins(c, q, st)
        BY <1>1, <2>2, TypesBegin DEF IInv
      <3>2. \A r \in Pids : r # q => child'[r] = child[r]
        BY <1>1, <3>1, ForksEffect DEF Begins, IInv
      <3>3. ~Live(q)
        BY <1>1, <3>1, ForksEffect DEF Begins, IInv
      <3> QED
        BY <1>1, <2>0, <3>2, <3>3
    <2>3. ASSUME FgWaited PROVE Told(p)
      <3>1. p = shell.target /\ Holding(jobs, shell.target) # {}
        BY <1>1, <2>3, Basics DEF FgWaited, IInv, ShellInv
      <3>2. PICK s \in Slots : jobs[s] = p
        BY <1>1, <3>1, Basics DEF Holding
      <3>3. Backgrounded(CommandOf(p))
        BY <1>1, <3>2 DEF IInv, JobsAreChildren, CommandOf
      <3> QED
        BY <2>1, <3>3 DEF Lasting
    <2>4. ASSUME NEW q \in Pids, Reap(q) PROVE Told(p)
      <3>1. shell.own = NoPid
        BY <1>1, <2>4 DEF Reap, IInv, ShellInv
      <3>2. Lasting(CommandOf(p))
        BY <1>1, <2>0, <3>1 DEF IInv, LastingInv
      <3> QED
        BY <2>1, <3>2
    <2>5. ASSUME Waited PROVE Told(p)
      <3>1. /\ p = shell.own /\ child[p].at = Len(hist) - 1
            /\ hist' = Marked(hist)
        BY <1>1, <2>5, Basics DEF Waited, IInv, ShellInv
      <3>2. Len(hist) > 0 /\ child[p].at + 1 = Len(hist)
        BY <1>1, <2>0, <3>1, Basics
      <3>3. Marked(hist)[Len(hist)].bad
        BY <1>1, <3>2, Basics, MarkedLast
      <3> QED
        BY <3>1, <3>2, <3>3
    <2>6. ASSUME NEW q \in Pids, Leaves(q) \/ ProgramEnds(q) PROVE FALSE
      BY <1>1, <2>6, Basics DEF Leaves, ProgramEnds, Ends, Children
    <2>7. ASSUME \/ Exit \/ Reaped
                 \/ \E bg \in BOOLEAN, does \in Words : Rejected(does, bg)
          PROVE  FALSE
      BY <1>1, <2>7 DEF Exit, Reaped, Rejected
    <2> QED
      BY <1>1, <2>2, <2>3, <2>4, <2>5, <2>6, <2>7 DEF Next, Reads, Returns
  <1>2. IInv /\ [Next]_vars => [A]_vars
    BY <1>1
  <1>3. [A]_vars <=> [\A p \in Pids :
                        child[p].st = "failed" /\ child'[p].st = "none" =>
                          LET i == child[p].at + 1
                          IN hist[i].bg \/ hist'[i].bad]_vars
    OBVIOUS
  <1> QED
    BY <1>2, <1>3, Invariant, PTL DEF Spec, FailuresMarked
=============================================================================

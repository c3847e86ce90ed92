------------------------ MODULE TestScheduler_proofs ------------------------
(***************************************************************************)
(* The safety of the multi-threaded run of a test suite, for any number of *)
(* workers, slots and cases and whatever setups throw.                     *)
(***************************************************************************)
EXTENDS TestScheduler, SequenceTheorems, FiniteSetTheorems,
        WellFoundedInduction, TLAPS

(***************************************************************************)
(* None of the properties is inductive.  That no two teardowns meet needs  *)
(* that a slot is marked as long as one is on its way to it, that a setup  *)
(* finds its slot empty, and that a case is in one place at a time; but a  *)
(* setup that throws resets whatever its slot holds, so each of these is   *)
(* said of the step the task is at (JobOK) and of pairs of tasks (Apart).  *)
(***************************************************************************)

\* The steps of a setup before it has given up its slot.
Early == {"start", "launch", "publish", "catch"}

\* A teardown that has cleared the flags of its slot, and holds mtx.
Holds(j, s) == j.kind = "teardown" /\ s \in {"drop", "report"}

\* The slot whose executor the holder of mtx is about to drop.
Dropping(p) == mtx # Nobody /\ job[mtx].pos = p

\* What is so while a setup j is at step s with its local exe at m.
SetupOK(j, s, m) ==
  /\ s \in Early \cup {"catch_drop", "report"}
  /\ m = IF s = "start" THEN NoExe ELSE j.case
  /\ s \in {"catch", "catch_drop", "report"} => threw
  /\ j.case <= i /\ results[j.case] = 0
  /\ \A q \in Slots : exe[q] # j.case
  /\ s \in Early => /\ in_used[j.pos] /\ ~been_chosen[j.pos]
                    /\ exe[j.pos] = NoExe \/ Dropping(j.pos)

\* The executor m that a teardown of slot p has taken.
TakenOK(p, m) ==
  /\ m \in Cases /\ m <= i /\ results[m] = 0
  /\ \A q \in Slots : exe[q] = m => q = p

\* The same of a teardown.
TeardownOK(j, s, m) ==
  /\ s \in {"start", "evaluate", "drop", "report"}
  /\ s = "start" => m = NoExe
  /\ s # "start" => TakenOK(j.pos, m) \/ (s = "evaluate" /\ m = NoExe /\ crashed)
  /\ s \in {"start", "evaluate"} => been_chosen[j.pos] /\ in_used[j.pos]
  /\ s \in {"drop", "report"} => ~been_chosen[j.pos] /\ Dropping(j.pos)
  /\ s \in {"evaluate", "drop"} => exe[j.pos] \in {NoExe, m}
  /\ s = "report" => exe[j.pos] = NoExe

\* A task that is queued is one that is at its start.
JobOK(j, s, m) ==
  /\ j.kind = "set_device" => s = "start" /\ m = NoExe
  /\ j.kind = "setup" => SetupOK(j, s, m)
  /\ j.kind = "teardown" => TeardownOK(j, s, m)

\* What two tasks may not share, j at step s with executor m, k at t with n.
Apart(j, s, m, k, t, n) ==
  /\ j.kind = "setup" /\ k.kind = "setup" =>
       /\ j.case # k.case
       /\ s \in Early /\ t \in Early => j.pos # k.pos
  /\ j.kind = "teardown" /\ k.kind = "teardown" =>
       j.pos # k.pos /\ (m # NoExe => m # n)
  /\ j.kind = "setup" /\ k.kind = "teardown" => j.case # n
  /\ j.kind = "teardown" /\ k.kind = "setup" => k.case # m

Running(w) == at[w] = "running"

JobsOK ==
  /\ \A k \in 1..Len(tasks) : JobOK(tasks[k], "start", NoExe)
  /\ \A w \in Workers : Running(w) => JobOK(job[w], step[w], mine[w])
  /\ \A w \in Workers : ~Running(w) => step[w] = "start" /\ mine[w] = NoExe

JobsApart ==
  /\ \A k, l \in 1..Len(tasks) :
       k # l => Apart(tasks[k], "start", NoExe, tasks[l], "start", NoExe)
  /\ \A k \in 1..Len(tasks), w \in Workers : Running(w) =>
       Apart(tasks[k], "start", NoExe, job[w], step[w], mine[w])
  /\ \A v, w \in Workers : v # w /\ Running(v) /\ Running(w) =>
       Apart(job[v], step[v], mine[v], job[w], step[w], mine[w])

MtxOK ==
  \A w \in Workers : mtx = w <=> Running(w) /\ Holds(job[w], step[w])

\* A setup of slot p that has not given it up; a setup of case c.
SetupAt(p) ==
  \/ \E k \in 1..Len(tasks) : tasks[k].kind = "setup" /\ tasks[k].pos = p
  \/ \E w \in Workers : Running(w) /\ job[w].kind = "setup" /\ job[w].pos = p
                        /\ step[w] \in Early

SetupOf(c) ==
  \/ \E k \in 1..Len(tasks) : tasks[k].kind = "setup" /\ tasks[k].case = c
  \/ \E w \in Workers : Running(w) /\ job[w].kind = "setup" /\ job[w].case = c

TeardownOf(c) ==
  \E w \in Workers : Running(w) /\ job[w].kind = "teardown" /\ mine[w] = c

SlotsOK ==
  /\ \A p, q \in Slots : exe[p] # NoExe /\ exe[p] = exe[q] => p = q
  /\ \A p \in Slots :
       /\ exe[p] # NoExe => /\ exe[p] <= i /\ results[exe[p]] = 0
                            /\ in_used[p] \/ Dropping(p)
       /\ been_chosen[p] => in_used[p]

\* A task of slot p has the executor of c.
UsedBy(p, c, w) ==
  /\ Running(w) /\ mine[w] = c
  /\ job[w].kind = "setup" \/ (job[w].kind = "teardown" /\ step[w] = "evaluate")
  /\ job[w].pos = p

UsersOK ==
  \A p \in Slots : \A c \in users[p] :
    exe[p] = c \/ \E w \in Workers : UsedBy(p, c, w)

CleanOK ==
  ~threw => /\ ~crashed
            /\ \A p \in Slots :
                 /\ been_chosen[p] => exe[p] # NoExe
                 /\ in_used[p] /\ (exe[p] = NoExe \/ Dropping(p)) => SetupAt(p)

\* A slot that is in use for ever: no task is left that would free it.
Dead(p) ==
  /\ in_used[p] /\ exe[p] = NoExe /\ ~SetupAt(p)
  /\ \A w \in Workers :
       Running(w) /\ job[w].kind = "teardown" /\ job[w].pos = p
         /\ step[w] = "evaluate" => mine[w] = NoExe

Accounted(c) ==
  results[c] = 1 \/ SetupOf(c) \/ TeardownOf(c) \/ \E p \in Slots : exe[p] = c

CasesOK ==
  \A c \in Cases : /\ results[c] \in {0, 1}
                   /\ c <= i \/ results[c] = 0
                   /\ c <= i => Accounted(c) \/ \E p \in Slots : Dead(p)

MasterOK ==
  /\ mpc \in {"join", "done"} => i = NCases /\ \A p \in Slots : ~in_used[p]
  /\ mpc = "done" => owner = "joined"

Steps == {"start", "launch", "publish", "catch", "catch_drop", "report",
          "evaluate", "drop"}

TypeOK ==
  /\ exe \in [Slots -> Cases \cup {NoExe}]
  /\ been_chosen \in [Slots -> BOOLEAN]
  /\ in_used \in [Slots -> BOOLEAN]
  /\ users \in [Slots -> SUBSET Cases]
  /\ mtx \in Workers \cup {Nobody}
  /\ results \in [Cases -> Nat]
  /\ i \in 0..NCases
  /\ step \in [Workers -> Steps]
  /\ mine \in [Workers -> Cases \cup {NoExe}]
  /\ kernel \in [Cases -> {"none", "running", "done"}]
  /\ crashed \in BOOLEAN /\ threw \in BOOLEAN

Inv ==
  /\ TypeOK /\ JobsOK /\ JobsApart /\ MtxOK /\ SlotsOK /\ UsersOK /\ CleanOK
  /\ CasesOK /\ MasterOK
-----------------------------------------------------------------------------
(* The pool *)

PoolProofs == INSTANCE ThreadPool_proofs WITH Tasks <- Jobs, NoTask <- Nobody

\* What the pool's invariant says of tasks and workers.
LEMMA PoolFacts ==
  ASSUME PoolProofs!PoolInv
  PROVE  /\ tasks \in Seq(Jobs)
         /\ at \in [Workers -> {"ready", "waiting", "running", "exited"}]
         /\ job \in [Workers -> Jobs \cup {Nobody}]
         /\ \A w \in Workers : Running(w) <=> job[w] # Nobody
         /\ \A w \in Workers : Running(w) => job[w] \in Jobs
         /\ \A k \in 1..Len(tasks) : tasks[k] \in Jobs
  BY DEF PoolProofs!PoolInv, PoolProofs!PoolTypeOK, PoolProofs!WorkerStates, Running

\* A pool that has joined its threads has no task left, queued or running.
LEMMA Drained ==
  ASSUME PoolProofs!PoolInv, owner = "joined"
  PROVE  tasks = <<>> /\ \A w \in Workers : ~Running(w)
  BY SchedulerAssumption
  DEF PoolProofs!PoolInv, PoolProofs!JoinedIsLeft, PoolProofs!ExitsWhenDrained, Running

\* The fields of a task.
LEMMA JobParts ==
  ASSUME NEW j \in Jobs
  PROVE  /\ j.kind \in {"set_device", "teardown", "setup"}
         /\ j.kind # "set_device" => j.pos \in Slots
         /\ j.kind = "setup" => j.case \in Cases
  BY DEF Jobs

\* What two tasks may not share does not depend on their order.
LEMMA ApartIsSymmetric ==
  ASSUME NEW j, NEW s, NEW m, NEW k, NEW t, NEW n, Apart(j, s, m, k, t, n)
  PROVE  Apart(k, t, n, j, s, m)
  BY DEF Apart

-----------------------------------------------------------------------------
(***************************************************************************)
(* How the four kinds of steps change the tasks: one is put in the queue,  *)
(* a worker takes the first, a worker gets on with its task or returns, or *)
(* none changes.  Each is given what the step does to all other tasks.     *)
(***************************************************************************)
\* No task changes; what the tasks rely on may.
LEMMA NoTaskChanges ==
  ASSUME JobsOK, JobsApart, UNCHANGED <<tasks, job, step, mine>>,
         \A w \in Workers : Running(w)' <=> Running(w),
         \A k \in 1..Len(tasks) : tasks[k] \in Jobs,
         \A w \in Workers : Running(w) => job[w] \in Jobs,
         \A j \in Jobs : \A s, m : JobOK(j, s, m) => JobOK(j, s, m)'
  PROVE  JobsOK' /\ JobsApart'
<1>1. JobsOK'
  BY DEF JobsOK
<1>2. JobsApart'
  BY DEF JobsApart
<1> QED  BY <1>1, <1>2

\* The master enqueues x, which is apart from every task there is.
LEMMA TaskIsAdded ==
  ASSUME JobsOK, JobsApart, UNCHANGED <<job, step, mine>>,
         \A w \in Workers : Running(w)' <=> Running(w),
         tasks \in Seq(Jobs), \A k \in 1..Len(tasks) : tasks[k] \in Jobs,
         \A w \in Workers : Running(w) => job[w] \in Jobs,
         NEW x, x \in Jobs, tasks' = Append(tasks, x),
         JobOK(x, "start", NoExe)',
         \A j \in Jobs : \A s, m : JobOK(j, s, m) =>
           JobOK(j, s, m)' /\ Apart(j, s, m, x, "start", NoExe)
  PROVE  JobsOK' /\ JobsApart'
<1>1. /\ Len(tasks) \in Nat /\ Len(tasks') = Len(tasks) + 1
      /\ \A k \in 1..Len(tasks) : tasks'[k] = tasks[k]
      /\ tasks'[Len(tasks) + 1] = x
  BY AppendProperties
<1>2. \A k \in 1..Len(tasks') : k \in 1..Len(tasks) \/ k = Len(tasks) + 1
  BY <1>1
<1>3. JobsOK'
  <2>1. \A k \in 1..Len(tasks') : JobOK(tasks[k], "start", NoExe)'
    BY <1>1, <1>2 DEF JobsOK
  <2> QED  BY <2>1 DEF JobsOK
<1>4. \A k \in 1..Len(tasks) : Apart(tasks[k], "start", NoExe, x, "start", NoExe)
  BY DEF JobsOK
<1>5. \A k \in 1..Len(tasks) : Apart(x, "start", NoExe, tasks[k], "start", NoExe)
  BY <1>4, ApartIsSymmetric
<1>6. \A w \in Workers :
        Running(w) => Apart(x, "start", NoExe, job[w], step[w], mine[w])
  BY ApartIsSymmetric DEF JobsOK
<1>7. JobsApart'
  <2>1. \A k, l \in 1..Len(tasks') :
          k # l => Apart(tasks'[k], "start", NoExe, tasks'[l], "start", NoExe)
    BY <1>1, <1>2, <1>4, <1>5 DEF JobsApart
  <2>2. \A k \in 1..Len(tasks'), w \in Workers : Running(w) =>
          Apart(tasks'[k], "start", NoExe, job[w], step[w], mine[w])
    BY <1>1, <1>2, <1>6 DEF JobsApart
  <2> QED  BY <2>1, <2>2 DEF JobsApart
<1> QED  BY <1>3, <1>7

\* Worker w takes the first task; it goes on from where it was queued.
LEMMA TaskIsTaken ==
  ASSUME JobsOK, JobsApart, UNCHANGED <<step, mine>>,
         tasks \in Seq(Jobs), \A k \in 1..Len(tasks) : tasks[k] \in Jobs, tasks # <<>>,
         \A v \in Workers : Running(v) => job[v] \in Jobs,
         NEW w, w \in Workers, ~Running(w), Running(w)',
         \A v \in Workers \ {w} : job'[v] = job[v] /\ (Running(v)' <=> Running(v)),
         tasks' = Tail(tasks), job'[w] = Head(tasks),
         \A j \in Jobs : \A s, m : JobOK(j, s, m) => JobOK(j, s, m)'
  PROVE  JobsOK' /\ JobsApart'
<1>1. /\ Len(tasks) \in Nat /\ Len(tasks') = Len(tasks) - 1
      /\ \A k \in 1..Len(tasks') : k + 1 \in 1..Len(tasks) /\ tasks'[k] = tasks[k + 1]
      /\ 1 \in 1..Len(tasks) /\ job'[w] = tasks[1]
  BY HeadTailProperties
<1>2. step[w] = "start" /\ mine[w] = NoExe
  BY DEF JobsOK
<1>3. JobsOK'
  <2>1. \A k \in 1..Len(tasks') : JobOK(tasks[k], "start", NoExe)'
    BY <1>1 DEF JobsOK
  <2>2. JobOK(job[w], step[w], mine[w])'
    BY <1>1, <1>2 DEF JobsOK
  <2>3. \A v \in Workers \ {w} : Running(v)' => JobOK(job[v], step[v], mine[v])'
    BY DEF JobsOK
  <2>4. \A v \in Workers : ~Running(v)' => step'[v] = "start" /\ mine'[v] = NoExe
    BY DEF JobsOK
  <2> QED  BY <2>1, <2>2, <2>3, <2>4 DEF JobsOK
<1>4. \A k \in 1..Len(tasks') :
        Apart(tasks'[k], "start", NoExe, job'[w], step'[w], mine'[w])
  <2> SUFFICES ASSUME NEW k \in 1..Len(tasks')
               PROVE  Apart(tasks'[k], "start", NoExe, job'[w], step'[w], mine'[w])
    OBVIOUS
  <2>1. k + 1 # 1
    BY <1>1
  <2> QED  BY <1>1, <1>2, <2>1 DEF JobsApart
<1>5. \A v \in Workers \ {w} : Running(v)' =>
        Apart(job'[w], step'[w], mine'[w], job'[v], step'[v], mine'[v])
  BY <1>1, <1>2 DEF JobsApart
<1>6. \A v \in Workers \ {w} : Running(v)' =>
        Apart(job'[v], step'[v], mine'[v], job'[w], step'[w], mine'[w])
  BY <1>5, ApartIsSymmetric
<1>7. JobsApart'
  <2>1. \A k, l \in 1..Len(tasks') :
          k # l => Apart(tasks'[k], "start", NoExe, tasks'[l], "start", NoExe)
    <3> SUFFICES ASSUME NEW k \in 1..Len(tasks'), NEW l \in 1..Len(tasks'), k # l
                 PROVE  Apart(tasks'[k], "start", NoExe, tasks'[l], "start", NoExe)
      OBVIOUS
    <3>1. k + 1 # l + 1
      BY <1>1
    <3> QED  BY <1>1, <3>1 DEF JobsApart
  <2>2. \A k \in 1..Len(tasks'), v \in Workers \ {w} : Running(v)' =>
          Apart(tasks'[k], "start", NoExe, job'[v], step'[v], mine'[v])
    BY <1>1 DEF JobsApart
  <2>3. \A u, v \in Workers \ {w} : u # v /\ Running(u)' /\ Running(v)' =>
          Apart(job'[u], step'[u], mine'[u], job'[v], step'[v], mine'[v])
    BY DEF JobsApart
  <2> QED  BY <1>4, <1>5, <1>6, <2>1, <2>2, <2>3 DEF JobsApart
<1> QED  BY <1>3, <1>7

\* The step of a worker's task.
OnlyTask(w) ==
  /\ UNCHANGED tasks
  /\ Running(w)
  /\ Running(w)' => job'[w] = job[w]
  /\ \A v \in Workers \ {w} :
       /\ job'[v] = job[v] /\ step'[v] = step[v] /\ mine'[v] = mine[v]
       /\ Running(v)' <=> Running(v)

\* Worker w gets on with its task or returns; the tasks apart from it before
\* are so after.
LEMMA TaskSteps ==
  ASSUME JobsOK, JobsApart, NEW w, w \in Workers, OnlyTask(w),
         \A k \in 1..Len(tasks) : tasks[k] \in Jobs,
         \A v \in Workers : Running(v) => job[v] \in Jobs,
         IF Running(w)' THEN JobOK(job[w], step[w], mine[w])'
                        ELSE step'[w] = "start" /\ mine'[w] = NoExe,
         \A j \in Jobs : \A s, m :
           JobOK(j, s, m) /\ Apart(j, s, m, job[w], step[w], mine[w]) =>
             /\ JobOK(j, s, m)'
             /\ Running(w)' => Apart(j, s, m, job[w], step'[w], mine'[w])
  PROVE  JobsOK' /\ JobsApart'
<1> USE DEF OnlyTask
<1>1. \A k \in 1..Len(tasks) :
        /\ JobOK(tasks[k], "start", NoExe)
        /\ Apart(tasks[k], "start", NoExe, job[w], step[w], mine[w])
  BY DEF JobsOK, JobsApart
<1>2. \A v \in Workers \ {w} : Running(v) =>
        /\ JobOK(job[v], step[v], mine[v])
        /\ Apart(job[v], step[v], mine[v], job[w], step[w], mine[w])
  BY DEF JobsOK, JobsApart
<1>3. JobsOK'
  <2>1. \A k \in 1..Len(tasks) : JobOK(tasks[k], "start", NoExe)'
    BY <1>1
  <2>2. \A v \in Workers \ {w} : Running(v)' => JobOK(job[v], step[v], mine[v])'
    BY <1>2
  <2>3. \A v \in Workers \ {w} : ~Running(v)' => step'[v] = "start" /\ mine'[v] = NoExe
    BY DEF JobsOK
  <2> QED  BY <2>1, <2>2, <2>3 DEF JobsOK
<1>4. \A v \in Workers \ {w} : Running(v)' /\ Running(w)' =>
        Apart(job'[v], step'[v], mine'[v], job'[w], step'[w], mine'[w])
  BY <1>2
<1>5. \A v \in Workers \ {w} : Running(v)' /\ Running(w)' =>
        Apart(job'[w], step'[w], mine'[w], job'[v], step'[v], mine'[v])
  BY <1>4, ApartIsSymmetric
<1>6. JobsApart'
  <2>1. \A k, l \in 1..Len(tasks) :
          k # l => Apart(tasks[k], "start", NoExe, tasks[l], "start", NoExe)
    BY DEF JobsApart
  <2>2. \A k \in 1..Len(tasks), v \in Workers : Running(v)' =>
          Apart(tasks[k], "start", NoExe, job'[v], step'[v], mine'[v])
    BY <1>1 DEF JobsApart
  <2>3. \A u, v \in Workers \ {w} : u # v /\ Running(u)' /\ Running(v)' =>
          Apart(job'[u], step'[u], mine'[u], job'[v], step'[v], mine'[v])
    BY DEF JobsApart
  <2> QED  BY <1>4, <1>5, <2>1, <2>2, <2>3 DEF JobsApart
<1> QED  BY <1>3, <1>6

\* Who answers for a slot and for a case before a step of worker w, does so
\* after it, unless it is w itself.
LEMMA Tokens ==
  ASSUME NEW w, w \in Workers, OnlyTask(w)
  PROVE  /\ \A p \in Slots :
              (job[w].kind = "setup" /\ job[w].pos = p /\ step[w] \in Early
                 => Running(w)' /\ step'[w] \in Early)
                => (SetupAt(p) => SetupAt(p)')
         /\ \A p \in Slots :
              (Running(w)' /\ job[w].kind = "setup" /\ job[w].pos = p
                 /\ step'[w] \in Early => step[w] \in Early)
                => (SetupAt(p)' => SetupAt(p))
         /\ \A c \in Cases :
              (job[w].kind = "setup" /\ job[w].case = c => Running(w)')
                => (SetupOf(c) => SetupOf(c)')
         /\ \A c \in Cases :
              (job[w].kind = "teardown" /\ mine[w] = c
                 => Running(w)' /\ mine'[w] = c)
                => (TeardownOf(c) => TeardownOf(c)')
<1> USE DEF OnlyTask
<1>1. ASSUME NEW p \in Slots, SetupAt(p),
             job[w].kind = "setup" /\ job[w].pos = p /\ step[w] \in Early
               => Running(w)' /\ step'[w] \in Early
      PROVE  SetupAt(p)'
  BY <1>1 DEF SetupAt
<1>2. ASSUME NEW p \in Slots, SetupAt(p)',
             Running(w)' /\ job[w].kind = "setup" /\ job[w].pos = p
               /\ step'[w] \in Early => step[w] \in Early
      PROVE  SetupAt(p)
  BY <1>2 DEF SetupAt
<1>3. ASSUME NEW c \in Cases, SetupOf(c),
             job[w].kind = "setup" /\ job[w].case = c => Running(w)'
      PROVE  SetupOf(c)'
  BY <1>3 DEF SetupOf
<1>4. ASSUME NEW c \in Cases, TeardownOf(c),
             job[w].kind = "teardown" /\ mine[w] = c => Running(w)' /\ mine'[w] = c
      PROVE  TeardownOf(c)'
  BY <1>4 DEF TeardownOf
<1> QED  BY <1>1, <1>2, <1>3, <1>4

\* A slot that is lost stays lost under a step of w.
LEMMA DeadStays ==
  ASSUME NEW w, w \in Workers, OnlyTask(w), NEW p, p \in Slots, Dead(p),
         in_used'[p], exe'[p] = NoExe,
         Running(w)' /\ job[w].kind = "setup" /\ job[w].pos = p
           /\ step'[w] \in Early => step[w] \in Early,
         Running(w)' /\ job[w].kind = "teardown" /\ job[w].pos = p
           /\ step'[w] = "evaluate" => mine'[w] = NoExe
  PROVE  Dead(p)'
<1>1. ~SetupAt(p)'
  BY Tokens DEF Dead
<1> QED  BY <1>1 DEF Dead, OnlyTask

\* What Goto and Return are, seen from the other workers.
LEMMA GotoStep ==
  ASSUME TypeOK, NEW w, w \in Workers, Running(w), NEW s, s \in Steps, Goto(w, s),
         NEW m, mine' = [mine EXCEPT ![w] = m]
  PROVE  /\ OnlyTask(w) /\ Running(w)' /\ step'[w] = s /\ mine'[w] = m
         /\ job'[w] = job[w] /\ UNCHANGED <<job, owner>>
         /\ step' \in [Workers -> Steps]
         /\ mine' = [mine EXCEPT ![w] = m]
  BY DEF TypeOK, Goto, poolVars, OnlyTask, Running

LEMMA ReturnStep ==
  ASSUME TypeOK, PoolProofs!PoolInv, NEW w, w \in Workers, Return(w)
  PROVE  /\ OnlyTask(w) /\ ~Running(w)' /\ step'[w] = "start" /\ mine'[w] = NoExe
         /\ step' \in [Workers -> Steps] /\ mine' \in [Workers -> Cases \cup {NoExe}]
         /\ UNCHANGED owner
<1>1. /\ at \in [Workers -> {"ready", "waiting", "running", "exited"}]
      /\ job \in [Workers -> Jobs \cup {Nobody}]
  BY PoolFacts
<1>2. step' \in [Workers -> Steps] /\ mine' \in [Workers -> Cases \cup {NoExe}]
  <2>1. step' = [step EXCEPT ![w] = "start"] /\ mine' = [mine EXCEPT ![w] = NoExe]
    BY DEF Return
  <2>2. "start" \in Steps
    BY DEF Steps
  <2> QED  BY <2>1, <2>2 DEF TypeOK
<1>3. OnlyTask(w) /\ ~Running(w)'
  BY <1>1 DEF TypeOK, Return, Pool!Finish, OnlyTask, Running
<1>4. step'[w] = "start" /\ mine'[w] = NoExe /\ UNCHANGED owner
  BY DEF TypeOK, Return, Pool!Finish
<1> QED  BY <1>2, <1>3, <1>4

\* Slots half reset stay so when mtx is not passed on.
LEMMA StillDropping ==
  ASSUME TypeOK, NEW w, w \in Workers, OnlyTask(w), UNCHANGED mtx,
         mtx # w \/ Running(w)'
  PROVE  \A p : Dropping(p)' <=> Dropping(p)
  BY SchedulerAssumption DEF TypeOK, OnlyTask, Dropping

\* mtx stays where it is under a step that neither takes it nor lets it go.
LEMMA MtxStays ==
  ASSUME MtxOK, NEW w, w \in Workers, OnlyTask(w), UNCHANGED mtx,
         Running(w)' /\ Holds(job[w], step'[w]) <=> Holds(job[w], step[w])
  PROVE  MtxOK'
<1>1. mtx = w <=> (Running(w) /\ Holds(job[w], step[w]))'
  BY DEF MtxOK, OnlyTask, Holds
<1>2. \A v \in Workers \ {w} : mtx = v <=> (Running(v) /\ Holds(job[v], step[v]))'
  BY DEF MtxOK, OnlyTask, Holds
<1> QED  BY <1>1, <1>2 DEF MtxOK

\* A step in which a task gets on and no slot, result or mutex changes.
LEMMA QuietStep ==
  ASSUME Inv, NEW w, w \in Workers, OnlyTask(w), job[w] \in Jobs,
         UNCHANGED <<exe, been_chosen, in_used, results, i, mtx, mpc, owner>>,
         ~Holds(job[w], step[w]), ~Holds(job[w], step'[w]),
         job[w].kind = "setup" =>
           Running(w)' /\ (step[w] \in Early <=> step'[w] \in Early),
         job[w].kind = "teardown" =>
           /\ Running(w)' /\ mine[w] \in {NoExe, mine'[w]}
           /\ step'[w] = "evaluate" => mine'[w] = exe[job[w].pos],
         ~threw' => ~threw /\ ~crashed'
  PROVE  MtxOK' /\ SlotsOK' /\ CleanOK' /\ CasesOK' /\ MasterOK'
<1>1. MtxOK'
  BY MtxStays DEF Inv
<1>2. mtx # w
  BY DEF Inv, MtxOK
<1>3. \A p : Dropping(p)' <=> Dropping(p)
  BY <1>2, StillDropping DEF Inv
<1>4. SlotsOK'
  BY <1>3 DEF Inv, SlotsOK
<1>5. \A p \in Slots : SetupAt(p) => SetupAt(p)'
  BY Tokens DEF OnlyTask
<1>6. CleanOK'
  BY <1>3, <1>5 DEF Inv, CleanOK
<1>7. CasesOK'
  <2>1. \A c \in Cases : SetupOf(c) => SetupOf(c)'
    BY Tokens
  <2>2. \A c \in Cases : TeardownOf(c) => TeardownOf(c)'
    <3> SUFFICES ASSUME NEW c \in Cases, job[w].kind = "teardown", mine[w] = c
                 PROVE  Running(w)' /\ mine'[w] = c
      BY Tokens
    <3>1. c # NoExe
      BY DEF Cases, NoExe
    <3> QED  BY <3>1
  <2>3. \A p \in Slots : Dead(p) => Dead(p)'
    <3> SUFFICES ASSUME NEW p \in Slots, Dead(p) PROVE Dead(p)'
      OBVIOUS
    <3> QED  BY DeadStays DEF Dead
  <2>4. \A c \in Cases : Accounted(c) => Accounted(c)'
    BY <2>1, <2>2 DEF Accounted
  <2> QED  BY <2>3, <2>4 DEF Inv, CasesOK
<1>8. MasterOK'
  BY DEF Inv, MasterOK
<1> QED  BY <1>1, <1>4, <1>6, <1>7, <1>8

-----------------------------------------------------------------------------
(* The steps of the tasks *)

\* What is known of a worker that a step of a task is enabled for.
LEMMA RunsFacts ==
  ASSUME Inv, PoolProofs!PoolInv, NEW w, w \in Workers, NEW kind, NEW s,
         Runs(w, kind, s)
  PROVE  /\ Running(w) /\ job[w] \in Jobs /\ job[w].kind = kind /\ step[w] = s
         /\ crashed = FALSE /\ JobOK(job[w], s, mine[w])
         /\ \A k \in 1..Len(tasks) : tasks[k] \in Jobs
         /\ \A v \in Workers : Running(v) => job[v] \in Jobs
         /\ mtx = w <=> Holds(job[w], s)
  BY PoolFacts DEF Inv, TypeOK, Runs, Running, JobsOK, MtxOK

\* What a task relies on is kept when slots and results are.
LEMMA JobStaysOK ==
  ASSUME UNCHANGED <<exe, been_chosen, in_used, results, i>>,
         threw => threw', crashed => crashed',
         \A p : Dropping(p)' <=> Dropping(p)
  PROVE  \A j, s, m : JobOK(j, s, m) => JobOK(j, s, m)'
  BY DEF JobOK, SetupOK, TeardownOK, TakenOK

\* One lemma for each step of a task; each shows the conjuncts of Inv in turn.
LEMMA SetDeviceInv ==
  ASSUME Inv, PoolProofs!PoolInv, NEW w, w \in Workers, SetDevice(w)
  PROVE  Inv'
<1>1. Runs(w, "set_device", "start") /\ Return(w) /\ TypeOK
  BY DEF SetDevice, Inv
<1>2. UNCHANGED <<slotVars, mtx, results, mpc, i, restVars>>
  BY DEF SetDevice
<1>a. /\ Running(w) /\ job[w] \in Jobs /\ job[w].kind = "set_device"
      /\ step[w] = "start" /\ JobOK(job[w], "start", mine[w])
      /\ \A k \in 1..Len(tasks) : tasks[k] \in Jobs
      /\ \A v \in Workers : Running(v) => job[v] \in Jobs
  BY <1>1, RunsFacts
<1>3. /\ OnlyTask(w) /\ ~Running(w)' /\ step'[w] = "start" /\ mine'[w] = NoExe
      /\ step' \in [Workers -> Steps] /\ mine' \in [Workers -> Cases \cup {NoExe}]
      /\ UNCHANGED owner
  BY <1>1, ReturnStep
<1>4. TypeOK'
  BY <1>1, <1>2, <1>3 DEF TypeOK, slotVars, restVars
<1>5. MtxOK' /\ SlotsOK' /\ CleanOK' /\ CasesOK' /\ MasterOK'
  BY <1>a, <1>2, <1>3, QuietStep DEF Holds, slotVars, restVars, Inv, CleanOK
<1>6. JobsOK' /\ JobsApart'
  <2>1. mtx # w
    BY <1>a DEF Inv, MtxOK, Holds
  <2>2. \A p : Dropping(p)' <=> Dropping(p)
    BY <1>1, <1>3, <1>2, <2>1, StillDropping
  <2>3. \A j \in Jobs : \A s, m : JobOK(j, s, m) => JobOK(j, s, m)'
    BY <1>2, <2>2, JobStaysOK DEF slotVars, restVars
  <2> QED  BY <1>a, <1>3, <2>3, TaskSteps DEF Inv
<1>7. UsersOK'
  BY <1>a, <1>2, <1>3 DEF Inv, UsersOK, UsedBy, OnlyTask, slotVars
<1> QED  BY <1>4, <1>5, <1>6, <1>7 DEF Inv

LEMMA SetupInitInv ==
  ASSUME Inv, PoolProofs!PoolInv, NEW w, w \in Workers, SetupInit(w)
  PROVE  Inv'
<1> DEFINE m2 == job[w].case
<1>1. Runs(w, "setup", "start") /\ Goto(w, "launch") /\ TypeOK /\ mine' = [mine EXCEPT ![w] = m2]
  BY DEF SetupInit, Inv, TypeOK
<1>2. UNCHANGED <<exe, been_chosen, in_used, mtx, results, i, mpc, crashed>>
  BY DEF SetupInit, slotVars, ctxVars, restVars
<1>a. /\ Running(w) /\ job[w] \in Jobs /\ job[w].kind = "setup"
      /\ step[w] = "start" /\ JobOK(job[w], "start", mine[w])
      /\ \A k \in 1..Len(tasks) : tasks[k] \in Jobs
      /\ \A v \in Workers : Running(v) => job[v] \in Jobs
      /\ crashed = FALSE /\ mtx # w
  BY <1>1, RunsFacts DEF Holds
<1>b. job[w].pos \in Slots /\ job[w].case \in Cases
  BY <1>a, JobParts
<1>c. SetupOK(job[w], "start", mine[w])
  BY <1>a DEF JobOK
<1>d. m2 = job[w].case
  BY <1>c DEF SetupOK
<1> HIDE DEF m2
<1>3. /\ OnlyTask(w) /\ Running(w)' /\ step'[w] = "launch" /\ mine'[w] = m2
      /\ job'[w] = job[w] /\ UNCHANGED <<job, owner>>
      /\ step' \in [Workers -> Steps] /\ mine' = [mine EXCEPT ![w] = m2]
  <2>1. "launch" \in Steps
    BY DEF Steps
  <2> QED  BY <1>1, <1>a, <2>1, GotoStep
<1>4. TypeOK'
  BY <1>1, <1>2, <1>3, <1>b, <1>d DEF TypeOK, SetupInit, restVars, slotVars
<1>5. MtxOK' /\ SlotsOK' /\ CleanOK' /\ CasesOK' /\ MasterOK'
  <2>1. ~threw' => ~threw /\ ~crashed'
    BY <1>2, <1>a DEF SetupInit, restVars
  <2> QED  BY <1>a, <1>2, <1>3, <2>1, QuietStep DEF Holds, Early
<1>6. JobsOK' /\ JobsApart'
  <2>1. threw => threw'
    BY DEF SetupInit, restVars
  <2>2. \A p : Dropping(p)' <=> Dropping(p)
    BY <1>1, <1>3, <1>2, <1>a, StillDropping
  <2>3. \A j, s, m : JobOK(j, s, m) => JobOK(j, s, m)'
    BY <1>2, <2>1, <2>2, JobStaysOK
  <2>4. JobOK(job[w], step[w], mine[w])'
    <3>1. SetupOK(job[w], step[w], mine[w])'
      BY <1>c, <1>d, <1>2, <1>3, <2>1, <2>2 DEF SetupOK, Early
    <3> QED  BY <1>a, <1>3, <3>1 DEF JobOK
  <2>5. ASSUME NEW j, NEW s, NEW m, Apart(j, s, m, job[w], step[w], mine[w])
        PROVE  Apart(j, s, m, job[w], step'[w], mine'[w])
    BY <1>a, <1>3, <2>5 DEF Apart, Early
  <2> QED  BY <1>a, <1>3, <2>3, <2>4, <2>5, TaskSteps DEF Inv
<1>7. UsersOK'
  <2>1. users' = [users EXCEPT ![job[w].pos] = @ \cup {job[w].case}]
    BY DEF SetupInit
  <2>2. \A p \in Slots : \A c \in users'[p] :
          c \in users[p] \/ (p = job[w].pos /\ c = job[w].case)
    BY <1>1, <2>1 DEF TypeOK
  <2>3. \A v \in Workers : Running(v) => Running(v)'
    BY <1>3 DEF OnlyTask
  <2>4. mine[w] = NoExe /\ NoExe \notin Cases
    BY <1>c DEF SetupOK, Cases, NoExe
  <2>5. \A v \in Workers : \A c \in Cases : mine[v] = c => mine'[v] = c
    BY <1>3, <2>4 DEF OnlyTask
  <2>6. \A p \in Slots : users[p] \subseteq Cases
    BY <1>1 DEF TypeOK
  <2>7. \A v \in Workers, p \in Slots, c \in Cases : UsedBy(p, c, v) => UsedBy(p, c, v)'
    BY <1>3, <1>a, <2>3, <2>5 DEF UsedBy, OnlyTask
  <2>8. ASSUME NEW p, NEW c, p = job[w].pos, c = job[w].case
        PROVE  UsedBy(p, c, w)'
    BY <2>8, <1>3, <1>a, <1>d DEF UsedBy
  <2> QED  BY <1>2, <1>b, <2>2, <2>6, <2>7, <2>8 DEF Inv, UsersOK
<1> QED  BY <1>4, <1>5, <1>6, <1>7 DEF Inv

LEMMA LaunchInv ==
  ASSUME Inv, PoolProofs!PoolInv, NEW w, w \in Workers, Launch(w)
  PROVE  Inv'
<1> DEFINE m2 == mine[w]
<1>1. Runs(w, "setup", "launch") /\ Goto(w, "publish") /\ TypeOK /\ mine' = [mine EXCEPT ![w] = m2]
  BY DEF Launch, Inv, TypeOK
<1>2. UNCHANGED <<exe, been_chosen, in_used, mtx, results, i, mpc, crashed>>
  BY DEF Launch, slotVars, ctxVars, restVars
<1>a. /\ Running(w) /\ job[w] \in Jobs /\ job[w].kind = "setup"
      /\ step[w] = "launch" /\ JobOK(job[w], "launch", mine[w])
      /\ \A k \in 1..Len(tasks) : tasks[k] \in Jobs
      /\ \A v \in Workers : Running(v) => job[v] \in Jobs
      /\ crashed = FALSE /\ mtx # w
  BY <1>1, RunsFacts DEF Holds
<1>b. job[w].pos \in Slots /\ job[w].case \in Cases
  BY <1>a, JobParts
<1>c. SetupOK(job[w], "launch", mine[w])
  BY <1>a DEF JobOK
<1>d. m2 = job[w].case
  BY <1>c DEF SetupOK
<1> HIDE DEF m2
<1>3. /\ OnlyTask(w) /\ Running(w)' /\ step'[w] = "publish" /\ mine'[w] = m2
      /\ job'[w] = job[w] /\ UNCHANGED <<job, owner>>
      /\ step' \in [Workers -> Steps] /\ mine' = [mine EXCEPT ![w] = m2]
  <2>1. "publish" \in Steps
    BY DEF Steps
  <2> QED  BY <1>1, <1>a, <2>1, GotoStep
<1>4. TypeOK'
  BY <1>1, <1>2, <1>3, <1>b, <1>d DEF TypeOK, Launch, restVars, slotVars
<1>5. MtxOK' /\ SlotsOK' /\ CleanOK' /\ CasesOK' /\ MasterOK'
  <2>1. ~threw' => ~threw /\ ~crashed'
    BY <1>2, <1>a DEF Launch, restVars
  <2> QED  BY <1>a, <1>2, <1>3, <2>1, QuietStep DEF Holds, Early
<1>6. JobsOK' /\ JobsApart'
  <2>1. threw => threw'
    BY DEF Launch, restVars
  <2>2. \A p : Dropping(p)' <=> Dropping(p)
    BY <1>1, <1>3, <1>2, <1>a, StillDropping
  <2>3. \A j, s, m : JobOK(j, s, m) => JobOK(j, s, m)'
    BY <1>2, <2>1, <2>2, JobStaysOK
  <2>4. JobOK(job[w], step[w], mine[w])'
    <3>1. SetupOK(job[w], step[w], mine[w])'
      BY <1>c, <1>d, <1>2, <1>3, <2>1, <2>2 DEF SetupOK, Early
    <3> QED  BY <1>a, <1>3, <3>1 DEF JobOK
  <2>5. ASSUME NEW j, NEW s, NEW m, Apart(j, s, m, job[w], step[w], mine[w])
        PROVE  Apart(j, s, m, job[w], step'[w], mine'[w])
    BY <1>a, <1>3, <2>5 DEF Apart, Early
  <2> QED  BY <1>a, <1>3, <2>3, <2>4, <2>5, TaskSteps DEF Inv
<1>7. UsersOK'
  <2>1. UNCHANGED <<users, job, mine>>
    BY <1>3 DEF Launch, slotVars
  <2>2. \A v \in Workers : Running(v) => Running(v)'
    BY <1>3 DEF OnlyTask
  <2>3. \A v \in Workers, p \in Slots, c \in Cases : UsedBy(p, c, v) => UsedBy(p, c, v)'
    BY <1>3, <1>a, <2>1, <2>2 DEF UsedBy, OnlyTask
  <2>4. \A p \in Slots : users[p] \subseteq Cases
    BY <1>1 DEF TypeOK
  <2> QED  BY <1>2, <2>1, <2>3, <2>4 DEF Inv, UsersOK
<1> QED  BY <1>4, <1>5, <1>6, <1>7 DEF Inv

LEMMA ThrowInv ==
  ASSUME Inv, PoolProofs!PoolInv, NEW w, w \in Workers, Throw(w)
  PROVE  Inv'
<1> DEFINE m2 == mine[w]
<1>1. Runs(w, "setup", "launch") /\ Goto(w, "catch") /\ TypeOK /\ mine' = [mine EXCEPT ![w] = m2]
  BY DEF Throw, Inv, TypeOK
<1>2. UNCHANGED <<exe, been_chosen, in_used, mtx, results, i, mpc, crashed>>
  BY DEF Throw, slotVars, ctxVars, restVars
<1>a. /\ Running(w) /\ job[w] \in Jobs /\ job[w].kind = "setup"
      /\ step[w] = "launch" /\ JobOK(job[w], "launch", mine[w])
      /\ \A k \in 1..Len(tasks) : tasks[k] \in Jobs
      /\ \A v \in Workers : Running(v) => job[v] \in Jobs
      /\ crashed = FALSE /\ mtx # w
  BY <1>1, RunsFacts DEF Holds
<1>b. job[w].pos \in Slots /\ job[w].case \in Cases
  BY <1>a, JobParts
<1>c. SetupOK(job[w], "launch", mine[w])
  BY <1>a DEF JobOK
<1>d. m2 = job[w].case
  BY <1>c DEF SetupOK
<1> HIDE DEF m2
<1>3. /\ OnlyTask(w) /\ Running(w)' /\ step'[w] = "catch" /\ mine'[w] = m2
      /\ job'[w] = job[w] /\ UNCHANGED <<job, owner>>
      /\ step' \in [Workers -> Steps] /\ mine' = [mine EXCEPT ![w] = m2]
  <2>1. "catch" \in Steps
    BY DEF Steps
  <2> QED  BY <1>1, <1>a, <2>1, GotoStep
<1>4. TypeOK'
  BY <1>1, <1>2, <1>3, <1>b, <1>d DEF TypeOK, Throw, restVars, slotVars
<1>5. MtxOK' /\ SlotsOK' /\ CleanOK' /\ CasesOK' /\ MasterOK'
  <2>1. ~threw' => ~threw /\ ~crashed'
    BY <1>2, <1>a DEF Throw, restVars
  <2> QED  BY <1>a, <1>2, <1>3, <2>1, QuietStep DEF Holds, Early
<1>6. JobsOK' /\ JobsApart'
  <2>1. threw => threw'
    BY DEF Throw, restVars
  <2>2. \A p : Dropping(p)' <=> Dropping(p)
    BY <1>1, <1>3, <1>2, <1>a, StillDropping
  <2>3. \A j, s, m : JobOK(j, s, m) => JobOK(j, s, m)'
    BY <1>2, <2>1, <2>2, JobStaysOK
  <2>4. JobOK(job[w], step[w], mine[w])'
    <3>1. SetupOK(job[w], step[w], mine[w])'
      BY <1>c, <1>d, <1>2, <1>3, <2>1, <2>2 DEF SetupOK, Early, Throw
    <3> QED  BY <1>a, <1>3, <3>1 DEF JobOK
  <2>5. ASSUME NEW j, NEW s, NEW m, Apart(j, s, m, job[w], step[w], mine[w])
        PROVE  Apart(j, s, m, job[w], step'[w], mine'[w])
    BY <1>a, <1>3, <2>5 DEF Apart, Early
  <2> QED  BY <1>a, <1>3, <2>3, <2>4, <2>5, TaskSteps DEF Inv
<1>7. UsersOK'
  <2>1. UNCHANGED <<users, job, mine>>
    BY <1>3 DEF Throw, slotVars
  <2>2. \A v \in Workers : Running(v) => Running(v)'
    BY <1>3 DEF OnlyTask
  <2>3. \A v \in Workers, p \in Slots, c \in Cases : UsedBy(p, c, v) => UsedBy(p, c, v)'
    BY <1>3, <1>a, <2>1, <2>2 DEF UsedBy, OnlyTask
  <2>4. \A p \in Slots : users[p] \subseteq Cases
    BY <1>1 DEF TypeOK
  <2> QED  BY <1>2, <2>1, <2>3, <2>4 DEF Inv, UsersOK
<1> QED  BY <1>4, <1>5, <1>6, <1>7 DEF Inv

\* Without a holder of mtx no slot is half reset.
LEMMA NotDropping == mtx = Nobody => \A p : ~Dropping(p)
  BY DEF Dropping

LEMMA PublishInv ==
  ASSUME Inv, PoolProofs!PoolInv, NEW w, w \in Workers, Publish(w)
  PROVE  Inv'
<1> DEFINE p == job[w].pos
           c == job[w].case
<1>1. Runs(w, "setup", "publish") /\ Return(w) /\ TypeOK /\ mtx = Nobody
  BY DEF Publish, Inv
<1>2. UNCHANGED <<been_chosen, in_used, mtx, results, i, mpc, threw, crashed>>
  BY DEF Publish, ctxVars, restVars
<1>a. /\ Running(w) /\ job[w] \in Jobs /\ job[w].kind = "setup"
      /\ step[w] = "publish" /\ JobOK(job[w], "publish", mine[w])
      /\ \A k \in 1..Len(tasks) : tasks[k] \in Jobs
      /\ \A v \in Workers : Running(v) => job[v] \in Jobs
  BY <1>1, RunsFacts
<1>b. p \in Slots /\ c \in Cases /\ c # NoExe
  BY <1>a, JobParts DEF Cases, NoExe
<1>c. SetupOK(job[w], "publish", mine[w])
  BY <1>a DEF JobOK
<1>d. /\ mine[w] = c /\ c <= i /\ results[c] = 0
      /\ \A q \in Slots : exe[q] # c
      /\ in_used[p] /\ ~been_chosen[p] /\ exe[p] = NoExe
  BY <1>c, <1>1, NotDropping DEF SetupOK, Early
<1>e. /\ exe' = [exe EXCEPT ![p] = c]
      /\ users' = [users EXCEPT ![p] = @ \ {NoExe}]
  BY <1>d DEF Publish
<1> HIDE DEF p, c
<1>f. /\ \A q \in Slots : exe'[q] = IF q = p THEN c ELSE exe[q]
      /\ \A q \in Slots : users'[q] \subseteq users[q]
  BY <1>1, <1>e DEF TypeOK
<1>3. /\ OnlyTask(w) /\ ~Running(w)' /\ step'[w] = "start" /\ mine'[w] = NoExe
      /\ step' \in [Workers -> Steps] /\ mine' \in [Workers -> Cases \cup {NoExe}]
      /\ UNCHANGED owner
  BY <1>1, ReturnStep
<1>4. TypeOK'
  <2>1. exe' \in [Slots -> Cases \cup {NoExe}]
    BY <1>1, <1>b, <1>e DEF TypeOK
  <2>2. users' \in [Slots -> SUBSET Cases]
    BY <1>1, <1>b, <1>e DEF TypeOK
  <2>3. UNCHANGED kernel
    BY DEF Publish, restVars
  <2> QED  BY <1>1, <1>2, <1>3, <2>1, <2>2, <2>3 DEF TypeOK
<1>5. \A q : ~Dropping(q) /\ ~Dropping(q)'
  BY <1>1, <1>2, NotDropping DEF Dropping
<1>6. MtxOK'
  BY <1>a, <1>2, <1>3, MtxStays DEF Inv, Holds
<1>7. JobsOK' /\ JobsApart'
  <2>1. ASSUME NEW j \in Jobs, NEW s, NEW m, JobOK(j, s, m),
               Apart(j, s, m, job[w], step[w], mine[w])
        PROVE  JobOK(j, s, m)'
    <3>1. ASSUME j.kind = "setup" PROVE SetupOK(j, s, m)'
      <4>1. j.case # c /\ (s \in Early => j.pos # p) /\ j.pos \in Slots
        BY <2>1, <3>1, <1>a, JobParts DEF Apart, Early, c, p
      <4> QED  BY <2>1, <3>1, <4>1, <1>2, <1>5, <1>f DEF JobOK, SetupOK
    <3>2. ASSUME j.kind = "teardown" PROVE TeardownOK(j, s, m)'
      <4>1. m # c /\ j.pos \in Slots
        BY <2>1, <3>2, <1>a, JobParts DEF Apart, c
      <4>2. TeardownOK(j, s, m)
        BY <2>1, <3>2 DEF JobOK
      <4>3. s = "evaluate" => j.pos # p
        BY <4>2, <1>d DEF TeardownOK
      <4>4. s \notin {"drop", "report"}
        BY <4>2, <1>5 DEF TeardownOK
      <4>5. TakenOK(j.pos, m) => TakenOK(j.pos, m)'
        BY <4>1, <1>2, <1>f DEF TakenOK
      <4> QED  BY <4>1, <4>2, <4>3, <4>4, <4>5, <1>2, <1>f DEF TeardownOK
    <3> QED  BY <2>1, <3>1, <3>2 DEF JobOK
  <2> QED  BY <1>a, <1>3, <2>1, TaskSteps DEF Inv
<1>8. SlotsOK'
  BY <1>2, <1>5, <1>b, <1>d, <1>f DEF Inv, SlotsOK
<1>9. UsersOK'
  <2> SUFFICES ASSUME NEW q \in Slots, NEW d \in users'[q], exe'[q] # d
               PROVE  \E v \in Workers :
                        UsedBy(q, d, v)'
    BY DEF UsersOK
  <2>1. d \in users[q] /\ d \in Cases
    BY <1>1, <1>f DEF TypeOK
  <2>2. exe[q] # d
    BY <1>f, <1>d, <2>1 DEF Cases, NoExe
  <2>3. PICK v \in Workers : UsedBy(q, d, v)
    BY <2>1, <2>2 DEF Inv, UsersOK, UsedBy
  <2>4. v # w
    BY <2>3, <1>d, <1>f DEF p, UsedBy
  <2> QED  BY <2>3, <2>4, <1>3 DEF OnlyTask, UsedBy
<1>10. \A q \in Slots \ {p} : SetupAt(q) => SetupAt(q)'
  BY <1>3, Tokens DEF p
<1>11. CleanOK'
  BY <1>2, <1>5, <1>10, <1>b, <1>f DEF Inv, CleanOK
<1>12. CasesOK'
  <2>1. SetupAt(p)
    BY <1>a DEF SetupAt, Early, p
  <2>2. \A q \in Slots : Dead(q) => Dead(q)'
    <3> SUFFICES ASSUME NEW q \in Slots, Dead(q) PROVE Dead(q)'
      OBVIOUS
    <3>1. q # p
      BY <2>1 DEF Dead
    <3> QED  BY <3>1, <1>2, <1>3, <1>f, DeadStays DEF Dead
  <2>3. \A d \in Cases : Accounted(d) => Accounted(d)'
    <3> SUFFICES ASSUME NEW d \in Cases, Accounted(d), d # c PROVE Accounted(d)'
      BY <1>b, <1>f DEF Accounted
    <3>1. SetupOf(d) => SetupOf(d)'
      BY <1>3, Tokens DEF c
    <3>2. TeardownOf(d) => TeardownOf(d)'
      BY <1>a, <1>3, Tokens
    <3> QED  BY <3>1, <3>2, <1>2, <1>d, <1>f DEF Accounted, Cases, NoExe
  <2> QED  BY <1>2, <2>2, <2>3 DEF Inv, CasesOK
<1>13. MasterOK'
  BY <1>2, <1>3 DEF Inv, MasterOK
<1> QED
  BY <1>4, <1>6, <1>7, <1>8, <1>9, <1>11, <1>12, <1>13 DEF Inv

LEMMA CatchClearInv ==
  ASSUME Inv, PoolProofs!PoolInv, NEW w, w \in Workers, CatchClear(w)
  PROVE  Inv'
<1> DEFINE p == job[w].pos
<1>1. Runs(w, "setup", "catch") /\ Goto(w, "catch_drop") /\ TypeOK
  BY DEF CatchClear, Inv
<1>2. UNCHANGED <<exe, users, mtx, results, i, mpc, threw, crashed, kernel, mine>>
  BY DEF CatchClear, ctxVars, restVars
<1>a. /\ Running(w) /\ job[w] \in Jobs /\ job[w].kind = "setup"
      /\ step[w] = "catch" /\ JobOK(job[w], "catch", mine[w])
      /\ \A k \in 1..Len(tasks) : tasks[k] \in Jobs
      /\ \A v \in Workers : Running(v) => job[v] \in Jobs
      /\ mtx # w
  BY <1>1, RunsFacts DEF Holds
<1>b. p \in Slots
  BY <1>a, JobParts
<1>c. SetupOK(job[w], "catch", mine[w])
  BY <1>a DEF JobOK
<1>d. /\ in_used[p] /\ ~been_chosen[p] /\ threw
      /\ exe[p] = NoExe \/ Dropping(p)
  BY <1>c DEF SetupOK, Early
<1>e. /\ been_chosen' = [been_chosen EXCEPT ![p] = FALSE]
      /\ in_used' = [in_used EXCEPT ![p] = FALSE]
  BY DEF CatchClear, ClearFlags
<1> HIDE DEF p
<1>f. /\ \A q \in Slots : been_chosen'[q] <=> been_chosen[q]
      /\ \A q \in Slots : in_used'[q] <=> in_used[q] /\ q # p
  BY <1>1, <1>d, <1>e DEF TypeOK
<1>3. /\ OnlyTask(w) /\ Running(w)' /\ step'[w] = "catch_drop" /\ mine'[w] = mine[w]
      /\ job'[w] = job[w] /\ UNCHANGED <<job, owner>>
      /\ step' \in [Workers -> Steps]
  <2>1. mine' = [mine EXCEPT ![w] = mine[w]] /\ "catch_drop" \in Steps
    BY <1>1, <1>2 DEF TypeOK, Steps
  <2> QED  BY <1>1, <1>a, <2>1, GotoStep
<1>4. TypeOK'
  BY <1>1, <1>2, <1>3, <1>b, <1>e DEF TypeOK
<1>5. \A q : Dropping(q)' <=> Dropping(q)
  BY <1>1, <1>2, <1>3, <1>a, StillDropping
<1>6. MtxOK'
  BY <1>a, <1>2, <1>3, MtxStays DEF Inv, Holds
<1>7. JobsOK' /\ JobsApart'
  <2>1. ASSUME NEW j \in Jobs, NEW s, NEW m, JobOK(j, s, m),
               Apart(j, s, m, job[w], step[w], mine[w])
        PROVE  JobOK(j, s, m)'
    <3>1. ASSUME j.kind = "setup" PROVE SetupOK(j, s, m)'
      <4>1. (s \in Early => j.pos # p) /\ j.pos \in Slots
        BY <2>1, <3>1, <1>a, JobParts DEF Apart, Early, p
      <4> QED  BY <2>1, <3>1, <4>1, <1>2, <1>5, <1>f DEF JobOK, SetupOK
    <3>2. ASSUME j.kind = "teardown" PROVE TeardownOK(j, s, m)'
      <4>1. j.pos \in Slots /\ TeardownOK(j, s, m)
        BY <2>1, <3>2, JobParts DEF JobOK
      <4>2. s \in {"start", "evaluate"} => j.pos # p
        BY <4>1, <1>d DEF TeardownOK
      <4> QED  BY <4>1, <4>2, <1>2, <1>5, <1>f DEF TeardownOK, TakenOK
    <3> QED  BY <2>1, <3>1, <3>2 DEF JobOK
  <2>2. JobOK(job[w], step[w], mine[w])'
    <3>1. SetupOK(job[w], step[w], mine[w])'
      BY <1>2, <1>3, <1>c DEF SetupOK, Early
    <3> QED  BY <1>a, <1>3, <3>1 DEF JobOK
  <2>3. ASSUME NEW j, NEW s, NEW m, Apart(j, s, m, job[w], step[w], mine[w])
        PROVE  Apart(j, s, m, job[w], step'[w], mine'[w])
    BY <1>a, <1>3, <2>3 DEF Apart, Early
  <2> QED  BY <1>a, <1>3, <2>1, <2>2, <2>3, TaskSteps DEF Inv
<1>8. SlotsOK'
  BY <1>2, <1>5, <1>d, <1>f DEF Inv, SlotsOK
<1>9. UsersOK'
  <2>1. \A v \in Workers : \A q, d : UsedBy(q, d, v) => UsedBy(q, d, v)'
    BY <1>a, <1>2, <1>3 DEF UsedBy, OnlyTask
  <2> QED  BY <1>2, <2>1 DEF Inv, UsersOK
<1>10. CleanOK'
  BY <1>2, <1>d DEF CleanOK
<1>11. CasesOK'
  <2>1. SetupAt(p)
    BY <1>a DEF SetupAt, Early, p
  <2>2. ASSUME NEW q \in Slots, Dead(q) PROVE Dead(q)'
    <3>1. q # p
      BY <2>1, <2>2 DEF Dead
    <3>2. in_used'[q] /\ exe'[q] = NoExe
      BY <2>2, <3>1, <1>2, <1>f DEF Dead
    <3>3. step'[w] \notin Early
      BY <1>3 DEF Early
    <3> QED  BY <2>2, <3>2, <3>3, <1>a, <1>3, DeadStays
  <2>3. \A d \in Cases : Accounted(d) => Accounted(d)'
    <3>1. \A d \in Cases : SetupOf(d) => SetupOf(d)'
      BY <1>3, Tokens
    <3>2. \A d \in Cases : TeardownOf(d) => TeardownOf(d)'
      BY <1>3, Tokens
    <3> QED  BY <3>1, <3>2, <1>2 DEF Accounted
  <2> QED  BY <1>2, <2>2, <2>3 DEF Inv, CasesOK
<1>12. MasterOK'
  BY <1>2, <1>3, <1>f DEF Inv, MasterOK
<1> QED
  BY <1>4, <1>6, <1>7, <1>8, <1>9, <1>10, <1>11, <1>12 DEF Inv

\* What drops an executor, the catch block or a teardown that has let go of it,
\* leaves to its context those in use.
LEMMA DroppedUsers ==
  ASSUME Inv, PoolProofs!PoolInv, NEW w, w \in Workers, Running(w), OnlyTask(w),
         Running(w)', mine'[w] = mine[w], step[w] # "evaluate",
         NEW p, p \in Slots, DropExe(p), UNCHANGED mtx
  PROVE  UsersOK'
<1>1. TypeOK /\ JobsOK /\ UsersOK
  BY DEF Inv
<1> SUFFICES ASSUME NEW q \in Slots, NEW d \in users'[q], exe'[q] # d
             PROVE  \E v \in Workers : UsedBy(q, d, v)'
  BY DEF UsersOK
<1>2. /\ exe' = [exe EXCEPT ![p] = NoExe]
      /\ users' = [users EXCEPT ![p] = {c \in users[p] : c = exe[p] => Taken(c)}]
  BY DEF DropExe
<1>3. /\ d \in users[q] /\ d \in Cases
      /\ q = p /\ d = exe[p] => Taken(d)
  BY <1>1, <1>2 DEF TypeOK
<1>4. PICK v \in Workers : UsedBy(q, d, v)
  <2>1. CASE exe[q] = d
    <3>1. q = p /\ Taken(d)
      BY <1>1, <1>2, <1>3, <2>1 DEF TypeOK
    <3>2. PICK v \in Workers : step[v] = "evaluate" /\ mine[v] = d
      BY <3>1 DEF Taken
    <3>3. Running(v) /\ job[v] \in Jobs /\ JobOK(job[v], "evaluate", d)
      BY <1>1, <3>2, PoolFacts DEF JobsOK
    <3>4. job[v].kind = "teardown" /\ TeardownOK(job[v], "evaluate", d)
      BY <3>3, JobParts DEF JobOK, SetupOK, Early
    <3>5. d # NoExe
      BY <1>3 DEF Cases, NoExe
    <3>6. job[v].pos = q
      BY <3>4, <3>5, <2>1 DEF TeardownOK, TakenOK
    <3> QED  BY <3>2, <3>3, <3>4, <3>6 DEF UsedBy
  <2> QED  BY <2>1, <1>1, <1>3 DEF UsersOK
<1>5. CASE v = w
  BY <1>4, <1>5 DEF UsedBy, OnlyTask
<1>6. CASE v # w
  BY <1>4, <1>6 DEF UsedBy, OnlyTask
<1> QED  BY <1>5, <1>6

\* An executor in a slot is taken by a teardown, or no task is left in its slot
\* that would free it if it were gone.
LEMMA ExeOrDead ==
  ASSUME Inv, PoolProofs!PoolInv, NEW p, p \in Slots, exe[p] # NoExe,
         ~TeardownOf(exe[p])
  PROVE  /\ in_used[p] /\ ~SetupAt(p)
         /\ \A v \in Workers :
              Running(v) /\ job[v].kind = "teardown" /\ job[v].pos = p
                => step[v] # "evaluate"
<1>1. TypeOK /\ JobsOK /\ MtxOK /\ SlotsOK
  BY DEF Inv
<1>2. ASSUME NEW v \in Workers, Running(v), job[v].kind = "teardown",
             job[v].pos = p, step[v] \in {"evaluate", "drop", "report"}
      PROVE  FALSE
  <2>1. TeardownOK(job[v], step[v], mine[v])
    BY <1>1, <1>2 DEF JobsOK, JobOK
  <2>2. mine[v] # exe[p]
    BY <1>2 DEF TeardownOf
  <2> QED  BY <1>2, <2>1, <2>2 DEF TeardownOK
<1>3. ~Dropping(p)
  <2> SUFFICES ASSUME Dropping(p) PROVE FALSE
    OBVIOUS
  <2>1. mtx \in Workers /\ job[mtx].pos = p
    BY <1>1 DEF TypeOK, Dropping
  <2>2. Running(mtx) /\ Holds(job[mtx], step[mtx])
    BY <1>1, <2>1 DEF MtxOK
  <2> QED  BY <1>2, <2>1, <2>2 DEF Holds
<1>4. in_used[p]
  BY <1>1, <1>3 DEF SlotsOK
<1>5. ~SetupAt(p)
  <2>1. ASSUME NEW j \in Jobs, NEW s, NEW m, JobOK(j, s, m), j.kind = "setup",
               j.pos = p, s \in Early
        PROVE  FALSE
    BY <1>3, <2>1 DEF JobOK, SetupOK
  <2>2. "start" \in Early
    BY DEF Early
  <2> QED  BY <1>1, <2>1, <2>2, PoolFacts DEF SetupAt, JobsOK
<1> QED  BY <1>2, <1>4, <1>5

LEMMA CatchDropInv ==
  ASSUME Inv, PoolProofs!PoolInv, NEW w, w \in Workers, CatchDrop(w)
  PROVE  Inv'
<1> DEFINE p == job[w].pos
<1>1. Runs(w, "setup", "catch_drop") /\ Goto(w, "report") /\ TypeOK /\ DropExe(p)
  BY DEF CatchDrop, Inv
<1>2. UNCHANGED <<been_chosen, in_used, mtx, results, i, mpc, threw, crashed, kernel, mine>>
  BY DEF CatchDrop, ctxVars, restVars
<1>a. /\ Running(w) /\ job[w] \in Jobs /\ job[w].kind = "setup"
      /\ step[w] = "catch_drop" /\ JobOK(job[w], "catch_drop", mine[w])
      /\ \A k \in 1..Len(tasks) : tasks[k] \in Jobs
      /\ \A v \in Workers : Running(v) => job[v] \in Jobs
      /\ mtx # w
  BY <1>1, RunsFacts DEF Holds
<1>b. p \in Slots
  BY <1>a, JobParts
<1>c. SetupOK(job[w], "catch_drop", mine[w])
  BY <1>a DEF JobOK
<1>e. /\ exe' = [exe EXCEPT ![p] = NoExe]
      /\ users' = [users EXCEPT ![p] = {c \in users[p] : c = exe[p] => Taken(c)}]
  BY <1>1 DEF DropExe
<1> HIDE DEF p
<1>f. \A q \in Slots : exe'[q] = IF q = p THEN NoExe ELSE exe[q]
  BY <1>1, <1>e DEF TypeOK
<1>3. /\ OnlyTask(w) /\ Running(w)' /\ step'[w] = "report" /\ mine'[w] = mine[w]
      /\ job'[w] = job[w] /\ UNCHANGED <<job, owner>>
      /\ step' \in [Workers -> Steps]
  <2>1. mine' = [mine EXCEPT ![w] = mine[w]] /\ "report" \in Steps
    BY <1>1, <1>2 DEF TypeOK, Steps
  <2> QED  BY <1>1, <1>a, <2>1, GotoStep
<1>4. TypeOK'
  <2>1. exe' \in [Slots -> Cases \cup {NoExe}]
    BY <1>1, <1>b, <1>e DEF TypeOK
  <2>2. users' \in [Slots -> SUBSET Cases]
    <3>1. {c \in users[p] : c = exe[p] => Taken(c)} \in SUBSET Cases
      BY <1>1, <1>b DEF TypeOK
    <3> QED  BY <1>1, <1>e, <3>1 DEF TypeOK
  <2> QED  BY <1>1, <1>2, <1>3, <2>1, <2>2 DEF TypeOK
<1>5. \A q : Dropping(q)' <=> Dropping(q)
  BY <1>1, <1>2, <1>3, <1>a, StillDropping
<1>6. MtxOK'
  BY <1>a, <1>2, <1>3, MtxStays DEF Inv, Holds
<1>7. JobsOK' /\ JobsApart'
  <2>1. ASSUME NEW j \in Jobs, NEW s, NEW m, JobOK(j, s, m)
        PROVE  JobOK(j, s, m)'
    <3>1. ASSUME j.kind = "setup" PROVE SetupOK(j, s, m)'
      <4>1. j.case # NoExe /\ j.pos \in Slots
        BY <3>1, JobParts DEF Cases, NoExe
      <4> QED  BY <2>1, <3>1, <4>1, <1>2, <1>5, <1>f DEF JobOK, SetupOK
    <3>2. ASSUME j.kind = "teardown" PROVE TeardownOK(j, s, m)'
      <4>1. j.pos \in Slots /\ TeardownOK(j, s, m)
        BY <2>1, <3>2, JobParts DEF JobOK
      <4>2. TakenOK(j.pos, m) => TakenOK(j.pos, m)'
        BY <1>2, <1>f DEF TakenOK, Cases, NoExe
      <4> QED  BY <4>1, <4>2, <1>2, <1>5, <1>f DEF TeardownOK
    <3> QED  BY <2>1, <3>1, <3>2 DEF JobOK
  <2>2. JobOK(job[w], step[w], mine[w])'
    <3>1. job[w].case # NoExe
      BY <1>a, JobParts DEF Cases, NoExe
    <3>2. SetupOK(job[w], step[w], mine[w])'
      BY <1>2, <1>3, <1>c, <1>f, <3>1 DEF SetupOK, Early
    <3> QED  BY <1>a, <1>3, <3>2 DEF JobOK
  <2>3. ASSUME NEW j, NEW s, NEW m, Apart(j, s, m, job[w], step[w], mine[w])
        PROVE  Apart(j, s, m, job[w], step'[w], mine'[w])
    BY <1>a, <1>3, <2>3 DEF Apart, Early
  <2> QED  BY <1>a, <1>3, <2>1, <2>2, <2>3, TaskSteps DEF Inv
<1>8. SlotsOK'
  BY <1>2, <1>5, <1>f DEF Inv, SlotsOK
<1>9. UsersOK'
  BY <1>1, <1>2, <1>3, <1>a, <1>b, DroppedUsers
<1>10. CleanOK'
  BY <1>2, <1>c DEF CleanOK, SetupOK
<1>11. CasesOK'
  <2>1. ASSUME NEW q \in Slots, Dead(q) PROVE Dead(q)'
    <3>1. in_used'[q] /\ exe'[q] = NoExe
      BY <2>1, <1>2, <1>f DEF Dead
    <3>2. step'[w] \notin Early
      BY <1>3 DEF Early
    <3> QED  BY <2>1, <3>1, <3>2, <1>a, <1>3, DeadStays
  <2>2. \A d \in Cases : SetupOf(d) => SetupOf(d)'
    BY <1>3, Tokens
  <2>3. \A d \in Cases : TeardownOf(d) => TeardownOf(d)'
    BY <1>3, Tokens
  <2>4. CASE exe[p] = NoExe
    <3>1. \A q \in Slots : exe'[q] = exe[q]
      BY <2>4, <1>f
    <3> QED  BY <1>2, <2>1, <2>2, <2>3, <3>1 DEF Inv, CasesOK, Accounted
  <2>5. CASE exe[p] # NoExe /\ TeardownOf(exe[p])
    <3>1. \A d \in Cases : Accounted(d) => Accounted(d)'
      BY <1>2, <1>f, <2>2, <2>3, <2>5 DEF Accounted
    <3> QED  BY <1>2, <2>1, <3>1 DEF Inv, CasesOK
  <2>6. CASE exe[p] # NoExe /\ ~TeardownOf(exe[p])
    <3>0. PICK q \in Slots : q = p
      BY <1>b
    <3>1. /\ in_used[q] /\ ~SetupAt(q)
          /\ \A v \in Workers :
               Running(v) /\ job[v].kind = "teardown" /\ job[v].pos = q
                 => step[v] # "evaluate"
      BY <3>0, <2>6, ExeOrDead
    <3>2. ~SetupAt(q)'
      <4>1. step'[w] \notin Early
        BY <1>3 DEF Early
      <4> QED  BY <1>3, <3>1, <4>1, Tokens
    <3>3. Dead(q)'
      <4>1. in_used'[q] /\ exe'[q] = NoExe
        BY <1>2, <1>f, <3>0, <3>1
      <4>2. \A v \in Workers : Running(v)' /\ job'[v].kind = "teardown"
              /\ job'[v].pos = q => step'[v] # "evaluate"
        BY <1>3, <1>a, <3>1 DEF OnlyTask
      <4> QED  BY <3>2, <4>1, <4>2 DEF Dead
    <3> QED  BY <1>2, <3>3 DEF Inv, CasesOK
  <2> QED  BY <2>4, <2>5, <2>6
<1>12. MasterOK'
  BY <1>2, <1>3 DEF Inv, MasterOK
<1> QED
  BY <1>4, <1>6, <1>7, <1>8, <1>9, <1>10, <1>11, <1>12 DEF Inv

LEMMA CatchReportInv ==
  ASSUME Inv, PoolProofs!PoolInv, NEW w, w \in Workers, CatchReport(w)
  PROVE  Inv'
<1> DEFINE p == job[w].pos
           c == job[w].case
<1>1. Runs(w, "setup", "report") /\ Return(w) /\ TypeOK /\ mtx = Nobody
  BY DEF CatchReport, Inv
<1>2. UNCHANGED <<exe, been_chosen, in_used, mtx, i, mpc, threw, crashed, kernel>>
  BY DEF CatchReport, restVars
<1>a. /\ Running(w) /\ job[w] \in Jobs /\ job[w].kind = "setup"
      /\ step[w] = "report" /\ JobOK(job[w], "report", mine[w])
      /\ \A k \in 1..Len(tasks) : tasks[k] \in Jobs
      /\ \A v \in Workers : Running(v) => job[v] \in Jobs
  BY <1>1, RunsFacts
<1>b. p \in Slots /\ c \in Cases /\ c # NoExe
  BY <1>a, JobParts DEF Cases, NoExe
<1>c. SetupOK(job[w], "report", mine[w])
  BY <1>a DEF JobOK
<1>d. /\ mine[w] = c /\ c <= i /\ results[c] = 0 /\ threw
      /\ \A q \in Slots : exe[q] # c
  BY <1>c DEF SetupOK
<1>e. /\ results' = [results EXCEPT ![c] = @ + 1]
      /\ users' = [users EXCEPT ![p] = @ \ {c}]
  BY <1>d DEF CatchReport
<1> HIDE DEF p, c
<1>f. /\ \A d \in Cases : results'[d] = IF d = c THEN 1 ELSE results[d]
      /\ \A q \in Slots : users'[q] = IF q = p THEN users[q] \ {c} ELSE users[q]
  <2>1. results'[c] = 1 /\ \A d \in Cases \ {c} : results'[d] = results[d]
    BY <1>1, <1>b, <1>d, <1>e DEF TypeOK
  <2> QED  BY <1>1, <1>b, <1>e, <2>1 DEF TypeOK
<1>3. /\ OnlyTask(w) /\ ~Running(w)' /\ step'[w] = "start" /\ mine'[w] = NoExe
      /\ step' \in [Workers -> Steps] /\ mine' \in [Workers -> Cases \cup {NoExe}]
      /\ UNCHANGED owner
  BY <1>1, ReturnStep
<1>4. TypeOK'
  <2>1. results' \in [Cases -> Nat]
    BY <1>1, <1>b, <1>e DEF TypeOK
  <2>2. users' \in [Slots -> SUBSET Cases]
    BY <1>1, <1>b, <1>e DEF TypeOK
  <2> QED  BY <1>1, <1>2, <1>3, <2>1, <2>2 DEF TypeOK
<1>5. \A q : ~Dropping(q) /\ ~Dropping(q)'
  BY <1>1, <1>2, NotDropping DEF Dropping
<1>6. MtxOK'
  BY <1>a, <1>2, <1>3, MtxStays DEF Inv, Holds
<1>7. JobsOK' /\ JobsApart'
  <2>1. ASSUME NEW j \in Jobs, NEW s, NEW m, JobOK(j, s, m),
               Apart(j, s, m, job[w], step[w], mine[w])
        PROVE  JobOK(j, s, m)'
    <3>1. ASSUME j.kind = "setup" PROVE SetupOK(j, s, m)'
      <4>1. j.case # c /\ j.case \in Cases
        BY <2>1, <3>1, <1>a, JobParts DEF Apart, c
      <4> QED  BY <2>1, <3>1, <4>1, <1>2, <1>5, <1>f DEF JobOK, SetupOK
    <3>2. ASSUME j.kind = "teardown" PROVE TeardownOK(j, s, m)'
      <4>1. m # c /\ TeardownOK(j, s, m)
        BY <2>1, <3>2, <1>a DEF Apart, JobOK, c
      <4>2. TakenOK(j.pos, m) => TakenOK(j.pos, m)'
        BY <4>1, <1>2, <1>f DEF TakenOK
      <4> QED  BY <4>1, <4>2, <1>2, <1>5 DEF TeardownOK
    <3> QED  BY <2>1, <3>1, <3>2 DEF JobOK
  <2> QED  BY <1>a, <1>3, <2>1, TaskSteps DEF Inv
<1>8. SlotsOK'
  <2>1. \A q \in Slots : exe[q] # NoExe => results'[exe[q]] = results[exe[q]]
    BY <1>1, <1>d, <1>f DEF TypeOK
  <2> QED  BY <2>1, <1>2, <1>5 DEF Inv, SlotsOK
<1>9. UsersOK'
  <2> SUFFICES ASSUME NEW q \in Slots, NEW d \in users'[q], exe[q] # d
               PROVE  \E v \in Workers : UsedBy(q, d, v)'
    BY <1>2 DEF UsersOK
  <2>1. PICK v \in Workers : UsedBy(q, d, v)
    BY <1>f DEF Inv, UsersOK
  <2>2. v # w
    BY <2>1, <1>a, <1>d, <1>f DEF p, UsedBy
  <2> QED  BY <2>1, <2>2, <1>3 DEF OnlyTask, UsedBy
<1>10. CleanOK'
  BY <1>2, <1>d DEF CleanOK
<1>11. CasesOK'
  <2>1. ASSUME NEW q \in Slots, Dead(q) PROVE Dead(q)'
    <3>1. in_used'[q] /\ exe'[q] = NoExe
      BY <2>1, <1>2 DEF Dead
    <3> QED  BY <2>1, <3>1, <1>3, DeadStays
  <2>2. \A d \in Cases \ {c} : SetupOf(d) => SetupOf(d)'
    BY <1>3, Tokens DEF c
  <2>3. \A d \in Cases : TeardownOf(d) => TeardownOf(d)'
    BY <1>3, <1>a, Tokens
  <2>4. \A d \in Cases : Accounted(d) => Accounted(d)'
    BY <1>2, <1>f, <2>2, <2>3 DEF Accounted
  <2>5. \A d \in Cases : results'[d] \in {0, 1} /\ (d <= i \/ results'[d] = 0)
    BY <1>d, <1>f DEF Inv, CasesOK, TakenOK
  <2> QED  BY <1>2, <2>1, <2>4, <2>5 DEF Inv, CasesOK
<1>12. MasterOK'
  BY <1>2, <1>3 DEF Inv, MasterOK
<1> QED
  BY <1>4, <1>6, <1>7, <1>8, <1>9, <1>10, <1>11, <1>12 DEF Inv

LEMMA TeardownTakeInv ==
  ASSUME Inv, PoolProofs!PoolInv, NEW w, w \in Workers, TeardownTake(w)
  PROVE  Inv'
<1> DEFINE p == job[w].pos
           c == exe[p]
<1>1. /\ Runs(w, "teardown", "start") /\ Goto(w, "evaluate") /\ TypeOK
      /\ mine' = [mine EXCEPT ![w] = c]
  BY DEF TeardownTake, Inv
<1>2. /\ UNCHANGED <<exe, been_chosen, in_used, users, mtx, results, i, mpc, threw, kernel>>
      /\ crashed' = (c = NoExe)
  BY DEF TeardownTake, ctxVars, slotVars
<1>a. /\ Running(w) /\ job[w] \in Jobs /\ job[w].kind = "teardown"
      /\ step[w] = "start" /\ JobOK(job[w], "start", mine[w])
      /\ \A k \in 1..Len(tasks) : tasks[k] \in Jobs
      /\ \A v \in Workers : Running(v) => job[v] \in Jobs
      /\ crashed = FALSE /\ mtx # w
  <2>1. mtx = w <=> Holds(job[w], "start")
    BY <1>1, RunsFacts
  <2>2. ~Holds(job[w], "start")
    BY DEF Holds
  <2> QED  BY <1>1, <2>1, <2>2, RunsFacts
<1>b. p \in Slots /\ c \in Cases \cup {NoExe}
  BY <1>1, <1>a, JobParts DEF TypeOK
<1>d. mine[w] = NoExe /\ been_chosen[p] /\ in_used[p]
  BY <1>a DEF JobOK, TeardownOK
<1>e. c # NoExe => TakenOK(p, c)
  BY <1>b DEF Inv, SlotsOK, TakenOK
<1> HIDE DEF p, c
<1>3. /\ OnlyTask(w) /\ Running(w)' /\ step'[w] = "evaluate" /\ mine'[w] = c
      /\ job'[w] = job[w] /\ UNCHANGED <<job, owner>>
      /\ step' \in [Workers -> Steps]
  <2>1. "evaluate" \in Steps
    BY DEF Steps
  <2> QED  BY <1>1, <1>a, <2>1, GotoStep
<1>4. TypeOK'
  BY <1>1, <1>2, <1>3, <1>b DEF TypeOK
<1>5. MtxOK' /\ SlotsOK' /\ CleanOK' /\ CasesOK' /\ MasterOK'
  <2>1. ~threw' => ~threw /\ ~crashed'
    BY <1>2, <1>b, <1>d DEF Inv, CleanOK, c
  <2>2. mine'[w] = exe[job[w].pos]
    BY <1>3 DEF c, p
  <2> QED  BY <1>a, <1>d, <1>2, <1>3, <2>1, <2>2, QuietStep DEF Holds
<1>6. JobsOK' /\ JobsApart'
  <2>1. \A q : Dropping(q)' <=> Dropping(q)
    BY <1>1, <1>3, <1>2, <1>a, StillDropping
  <2>2. \A j, s, m : JobOK(j, s, m) => JobOK(j, s, m)'
    BY <1>2, <1>a, <2>1, JobStaysOK
  <2>3. JobOK(job[w], step[w], mine[w])'
    <3>1. TakenOK(p, c) => TakenOK(job[w].pos, mine[w])'
      BY <1>2, <1>3 DEF TakenOK, p
    <3>2. exe'[job'[w].pos] = mine'[w]
      BY <1>2, <1>3 DEF p, c
    <3>3. TeardownOK(job[w], step[w], mine[w])'
      BY <1>2, <1>3, <1>d, <1>e, <3>1, <3>2 DEF TeardownOK, p
    <3> QED  BY <1>a, <1>3, <3>3 DEF JobOK
  <2>4. ASSUME NEW j \in Jobs, NEW s, NEW m, JobOK(j, s, m),
               Apart(j, s, m, job[w], step[w], mine[w])
        PROVE  Apart(j, s, m, job[w], step'[w], mine'[w])
    <3>1. j.kind = "setup" => j.case # c
      BY <1>b, <2>4 DEF JobOK, SetupOK, c
    <3>2. j.kind = "teardown" /\ m # NoExe => m # c
      <4> SUFFICES ASSUME j.kind = "teardown", m # NoExe, m = c PROVE FALSE
        OBVIOUS
      <4>1. j.pos # p /\ TakenOK(j.pos, m)
        BY <1>a, <2>4 DEF Apart, JobOK, TeardownOK, p
      <4> QED  BY <1>b, <4>1 DEF TakenOK, c
    <3> QED  BY <1>a, <1>3, <2>4, <3>1, <3>2 DEF Apart
  <2> QED  BY <1>a, <1>3, <2>2, <2>3, <2>4, TaskSteps DEF Inv
<1>7. UsersOK'
  <2>1. \A q \in Slots : users[q] \subseteq Cases
    BY <1>1 DEF TypeOK
  <2>2. \A v \in Workers, q \in Slots, d \in Cases : UsedBy(q, d, v) => UsedBy(q, d, v)'
    <3> SUFFICES ASSUME NEW v \in Workers, NEW q \in Slots, NEW d \in Cases, UsedBy(q, d, v)
                 PROVE  UsedBy(q, d, v)'
      OBVIOUS
    <3>1. v # w
      BY <1>d DEF UsedBy, Cases, NoExe
    <3> QED  BY <3>1, <1>3 DEF UsedBy, OnlyTask
  <2> QED  BY <1>2, <2>1, <2>2 DEF Inv, UsersOK
<1> QED  BY <1>4, <1>5, <1>6, <1>7 DEF Inv

LEMMA TeardownClearInv ==
  ASSUME Inv, PoolProofs!PoolInv, NEW w, w \in Workers, TeardownClear(w)
  PROVE  Inv'
<1> DEFINE p == job[w].pos
           c == mine[w]
<1>1. Runs(w, "teardown", "evaluate") /\ Goto(w, "drop") /\ TypeOK /\ mtx = Nobody
  BY DEF TeardownClear, Inv
<1>2. /\ UNCHANGED <<exe, results, i, mpc, threw, crashed, kernel, mine>>
      /\ mtx' = w
  BY DEF TeardownClear, restVars
<1>a. /\ Running(w) /\ job[w] \in Jobs /\ job[w].kind = "teardown"
      /\ step[w] = "evaluate" /\ JobOK(job[w], "evaluate", mine[w])
      /\ \A k \in 1..Len(tasks) : tasks[k] \in Jobs
      /\ \A v \in Workers : Running(v) => job[v] \in Jobs
      /\ crashed = FALSE
  BY <1>1, RunsFacts
<1>b. p \in Slots
  BY <1>a, JobParts
<1>d. /\ TakenOK(p, c) /\ been_chosen[p] /\ in_used[p]
      /\ exe[p] \in {NoExe, c}
  BY <1>a DEF JobOK, TeardownOK
<1>e. /\ been_chosen' = [been_chosen EXCEPT ![p] = FALSE]
      /\ in_used' = [in_used EXCEPT ![p] = FALSE]
      /\ users' = [users EXCEPT ![p] = IF exe[p] = c THEN @ ELSE @ \ {c}]
  BY DEF TeardownClear, ClearFlags
<1>g. c \in Cases /\ c # NoExe
  BY <1>d DEF TakenOK, Cases, NoExe
<1> HIDE DEF p, c
<1>f. /\ \A q \in Slots : been_chosen'[q] <=> been_chosen[q] /\ q # p
      /\ \A q \in Slots : in_used'[q] <=> in_used[q] /\ q # p
  BY <1>1, <1>e DEF TypeOK
<1>h. /\ \A q \in Slots : users'[q] \subseteq users[q]
      /\ exe[p] # c => c \notin users'[p]
  BY <1>1, <1>b, <1>e DEF TypeOK
<1>3. /\ OnlyTask(w) /\ Running(w)' /\ step'[w] = "drop" /\ mine'[w] = c
      /\ job'[w] = job[w] /\ UNCHANGED <<job, owner>>
      /\ step' \in [Workers -> Steps]
  <2>1. mine' = [mine EXCEPT ![w] = c] /\ "drop" \in Steps
    BY <1>1, <1>2 DEF TypeOK, Steps, c
  <2> QED  BY <1>1, <1>a, <2>1, GotoStep
<1>4. TypeOK'
  <2>1. users' \in [Slots -> SUBSET Cases]
    <3>1. users[p] \subseteq Cases
      BY <1>1, <1>b DEF TypeOK
    <3>2. (IF exe[p] = c THEN users[p] ELSE users[p] \ {c}) \in SUBSET Cases
      BY <3>1
    <3> QED  BY <1>1, <1>e, <3>2 DEF TypeOK
  <2> QED  BY <1>1, <1>2, <1>3, <1>e, <2>1 DEF TypeOK
<1>5. /\ \A q : ~Dropping(q)
      /\ \A q : Dropping(q)' <=> q = p
  <2>1. w # Nobody
    BY SchedulerAssumption
  <2> QED  BY <1>1, <1>2, <1>3, <2>1, NotDropping DEF Dropping, p
<1>6. MtxOK'
  <2>1. \A v \in Workers : ~(Running(v) /\ Holds(job[v], step[v]))
    BY <1>1, SchedulerAssumption DEF Inv, MtxOK
  <2>2. Holds(job[w], step[w])'
    BY <1>a, <1>3 DEF Holds
  <2>3. \A v \in Workers \ {w} : ~(Running(v) /\ Holds(job[v], step[v]))'
    BY <1>3, <2>1 DEF OnlyTask, Holds
  <2> QED  BY <1>2, <1>3, <2>2, <2>3 DEF MtxOK
<1>7. JobsOK' /\ JobsApart'
  <2>1. ASSUME NEW j \in Jobs, NEW s, NEW m, JobOK(j, s, m),
               Apart(j, s, m, job[w], step[w], mine[w])
        PROVE  JobOK(j, s, m)'
    <3>1. ASSUME j.kind = "setup" PROVE SetupOK(j, s, m)'
      <4>1. j.pos \in Slots /\ SetupOK(j, s, m)
        BY <2>1, <3>1, JobParts DEF JobOK
      <4>2. s \in Early => j.pos # p /\ exe[j.pos] = NoExe
        BY <4>1, <1>5, <1>d DEF SetupOK
      <4> QED  BY <4>1, <4>2, <1>2, <1>f DEF SetupOK
    <3>2. ASSUME j.kind = "teardown" PROVE TeardownOK(j, s, m)'
      <4>1. j.pos \in Slots /\ TeardownOK(j, s, m) /\ j.pos # p
        BY <2>1, <3>2, <1>a, JobParts DEF JobOK, Apart, p
      <4>2. s \notin {"drop", "report"}
        BY <4>1, <1>5 DEF TeardownOK
      <4> QED  BY <4>1, <4>2, <1>2, <1>f DEF TeardownOK, TakenOK
    <3> QED  BY <2>1, <3>1, <3>2 DEF JobOK
  <2>2. JobOK(job[w], step[w], mine[w])'
    <3>1. TakenOK(job[w].pos, mine[w])'
      BY <1>2, <1>3, <1>d DEF TakenOK, p
    <3>2. Dropping(job[w].pos)'
      BY <1>2, SchedulerAssumption DEF Dropping
    <3>3. exe'[job'[w].pos] \in {NoExe, mine'[w]} /\ ~been_chosen'[job'[w].pos]
      BY <1>2, <1>3, <1>b, <1>d, <1>f DEF p
    <3>4. TeardownOK(job[w], step[w], mine[w])'
      BY <1>3, <3>1, <3>2, <3>3 DEF TeardownOK
    <3> QED  BY <1>a, <1>3, <3>4 DEF JobOK
  <2>3. ASSUME NEW j, NEW s, NEW m, Apart(j, s, m, job[w], step[w], mine[w])
        PROVE  Apart(j, s, m, job[w], step'[w], mine'[w])
    BY <1>a, <1>3, <2>3 DEF Apart, c
  <2> QED  BY <1>a, <1>3, <2>1, <2>2, <2>3, TaskSteps DEF Inv
<1>8. SlotsOK'
  BY <1>2, <1>5, <1>f DEF Inv, SlotsOK
<1>9. UsersOK'
  <2> SUFFICES ASSUME NEW q \in Slots, NEW d \in users'[q], exe[q] # d
               PROVE  \E v \in Workers : UsedBy(q, d, v)'
    BY <1>2 DEF UsersOK
  <2>1. PICK v \in Workers : UsedBy(q, d, v)
    BY <1>h DEF Inv, UsersOK
  <2>2. v # w
    BY <2>1, <1>a, <1>h DEF p, c, UsedBy
  <2> QED  BY <2>1, <2>2, <1>3 DEF OnlyTask, UsedBy
<1>10. CleanOK'
  <2>1. \A q \in Slots : SetupAt(q) => SetupAt(q)'
    BY <1>3, <1>a, Tokens
  <2> QED  BY <2>1, <1>2, <1>5, <1>f DEF Inv, CleanOK
<1>11. CasesOK'
  <2>1. ASSUME NEW q \in Slots, Dead(q) PROVE Dead(q)'
    <3>1. q # p
      BY <2>1, <1>a, <1>g DEF Dead, p, c
    <3>2. in_used'[q] /\ exe'[q] = NoExe
      BY <2>1, <3>1, <1>2, <1>f DEF Dead
    <3> QED  BY <2>1, <3>2, <1>a, <1>3, DeadStays
  <2>2. \A d \in Cases : SetupOf(d) => SetupOf(d)'
    BY <1>3, <1>a, Tokens
  <2>3. \A d \in Cases : TeardownOf(d) => TeardownOf(d)'
    BY <1>3, Tokens DEF c
  <2>4. \A d \in Cases : Accounted(d) => Accounted(d)'
    BY <1>2, <2>2, <2>3 DEF Accounted
  <2> QED  BY <1>2, <2>1, <2>4 DEF Inv, CasesOK
<1>12. MasterOK'
  BY <1>2, <1>3, <1>f DEF Inv, MasterOK
<1> QED
  BY <1>4, <1>6, <1>7, <1>8, <1>9, <1>10, <1>11, <1>12 DEF Inv

LEMMA TeardownDropInv ==
  ASSUME Inv, PoolProofs!PoolInv, NEW w, w \in Workers, TeardownDrop(w)
  PROVE  Inv'
<1> DEFINE p == job[w].pos
           c == mine[w]
<1>1. Runs(w, "teardown", "drop") /\ Goto(w, "report") /\ TypeOK /\ DropExe(p)
  BY DEF TeardownDrop, Inv
<1>2. UNCHANGED <<been_chosen, in_used, mtx, results, i, mpc, threw, crashed, kernel, mine>>
  BY DEF TeardownDrop, ctxVars, restVars
<1>a. /\ Running(w) /\ job[w] \in Jobs /\ job[w].kind = "teardown"
      /\ step[w] = "drop" /\ JobOK(job[w], "drop", mine[w])
      /\ \A k \in 1..Len(tasks) : tasks[k] \in Jobs
      /\ \A v \in Workers : Running(v) => job[v] \in Jobs
      /\ mtx = w <=> Holds(job[w], "drop")
  BY <1>1, RunsFacts
<1>b. p \in Slots /\ mtx = w
  BY <1>a, JobParts DEF Holds
<1>d. /\ TakenOK(p, c) /\ ~been_chosen[p] /\ Dropping(p)
      /\ exe[p] \in {NoExe, c}
  BY <1>a DEF JobOK, TeardownOK
<1>e. /\ exe' = [exe EXCEPT ![p] = NoExe]
      /\ users' = [users EXCEPT ![p] = {d \in users[p] : d = exe[p] => Taken(d)}]
  BY <1>1 DEF DropExe
<1>g. c \in Cases /\ c # NoExe
  BY <1>d DEF TakenOK, Cases, NoExe
<1> HIDE DEF p, c
<1>f. \A q \in Slots : exe'[q] = IF q = p THEN NoExe ELSE exe[q]
  BY <1>1, <1>e DEF TypeOK
<1>3. /\ OnlyTask(w) /\ Running(w)' /\ step'[w] = "report" /\ mine'[w] = c
      /\ job'[w] = job[w] /\ UNCHANGED <<job, owner>>
      /\ step' \in [Workers -> Steps]
  <2>1. mine' = [mine EXCEPT ![w] = c] /\ "report" \in Steps
    BY <1>1, <1>2 DEF TypeOK, Steps, c
  <2> QED  BY <1>1, <1>a, <2>1, GotoStep
<1>4. TypeOK'
  <2>1. exe' \in [Slots -> Cases \cup {NoExe}]
    BY <1>1, <1>b, <1>e DEF TypeOK
  <2>2. users' \in [Slots -> SUBSET Cases]
    <3>1. {d \in users[p] : d = exe[p] => Taken(d)} \in SUBSET Cases
      BY <1>1, <1>b DEF TypeOK
    <3> QED  BY <1>1, <1>e, <3>1 DEF TypeOK
  <2> QED  BY <1>1, <1>2, <1>3, <2>1, <2>2 DEF TypeOK
<1>5. \A q : Dropping(q)' <=> Dropping(q)
  BY <1>1, <1>2, <1>3, StillDropping
<1>6. MtxOK'
  BY <1>a, <1>2, <1>3, MtxStays DEF Inv, Holds
<1>7. JobsOK' /\ JobsApart'
  <2>1. ASSUME NEW j \in Jobs, NEW s, NEW m, JobOK(j, s, m)
        PROVE  JobOK(j, s, m)'
    <3>1. ASSUME j.kind = "setup" PROVE SetupOK(j, s, m)'
      <4>1. j.case # NoExe /\ j.pos \in Slots
        BY <3>1, JobParts DEF Cases, NoExe
      <4> QED  BY <2>1, <3>1, <4>1, <1>2, <1>5, <1>f DEF JobOK, SetupOK
    <3>2. ASSUME j.kind = "teardown" PROVE TeardownOK(j, s, m)'
      <4>1. j.pos \in Slots /\ TeardownOK(j, s, m)
        BY <2>1, <3>2, JobParts DEF JobOK
      <4>2. TakenOK(j.pos, m) => TakenOK(j.pos, m)'
        BY <1>2, <1>f DEF TakenOK, Cases, NoExe
      <4> QED  BY <4>1, <4>2, <1>2, <1>5, <1>f DEF TeardownOK
    <3> QED  BY <2>1, <3>1, <3>2 DEF JobOK
  <2>2. JobOK(job[w], step[w], mine[w])'
    <3>1. TakenOK(job[w].pos, mine[w])'
      BY <1>2, <1>3, <1>d, <1>f, <1>g DEF TakenOK, p
    <3>2. Dropping(job[w].pos)'
      BY <1>2, <1>b, SchedulerAssumption DEF Dropping
    <3>3. exe'[job'[w].pos] = NoExe /\ ~been_chosen'[job'[w].pos]
      BY <1>2, <1>3, <1>b, <1>d, <1>f DEF p
    <3>4. TeardownOK(job[w], step[w], mine[w])'
      BY <1>3, <3>1, <3>2, <3>3 DEF TeardownOK
    <3> QED  BY <1>a, <1>3, <3>4 DEF JobOK
  <2>3. ASSUME NEW j, NEW s, NEW m, Apart(j, s, m, job[w], step[w], mine[w])
        PROVE  Apart(j, s, m, job[w], step'[w], mine'[w])
    BY <1>a, <1>3, <2>3 DEF Apart, c
  <2> QED  BY <1>a, <1>3, <2>1, <2>2, <2>3, TaskSteps DEF Inv
<1>8. SlotsOK'
  BY <1>2, <1>5, <1>f DEF Inv, SlotsOK
<1>9. UsersOK'
  BY <1>1, <1>2, <1>3, <1>a, <1>b, DroppedUsers DEF c
<1>10. CleanOK'
  <2>1. \A q \in Slots : SetupAt(q) => SetupAt(q)'
    BY <1>3, <1>a, Tokens
  <2> QED  BY <2>1, <1>2, <1>5, <1>d, <1>f DEF Inv, CleanOK
<1>11. CasesOK'
  <2>1. ASSUME NEW q \in Slots, Dead(q) PROVE Dead(q)'
    <3>1. in_used'[q] /\ exe'[q] = NoExe
      BY <2>1, <1>2, <1>f DEF Dead
    <3> QED  BY <2>1, <3>1, <1>a, <1>3, DeadStays
  <2>2. \A d \in Cases : SetupOf(d) => SetupOf(d)'
    BY <1>3, <1>a, Tokens
  <2>3. \A d \in Cases : TeardownOf(d) => TeardownOf(d)'
    BY <1>3, Tokens DEF c
  <2>4. TeardownOf(c)
    BY <1>a DEF TeardownOf, c
  <2>5. \A d \in Cases : (\E q \in Slots : exe[q] = d) =>
                           (\E q \in Slots : exe'[q] = d) \/ d = c
    BY <1>d, <1>f DEF Cases, NoExe
  <2>6. \A d \in Cases : Accounted(d) => Accounted(d)'
    BY <1>2, <1>g, <2>2, <2>3, <2>4, <2>5 DEF Accounted
  <2> QED  BY <1>2, <2>1, <2>6 DEF Inv, CasesOK
<1>12. MasterOK'
  BY <1>2, <1>3 DEF Inv, MasterOK
<1> QED
  BY <1>4, <1>6, <1>7, <1>8, <1>9, <1>10, <1>11, <1>12 DEF Inv

LEMMA TeardownReportInv ==
  ASSUME Inv, PoolProofs!PoolInv, NEW w, w \in Workers, TeardownReport(w)
  PROVE  Inv'
<1> DEFINE p == job[w].pos
           c == mine[w]
<1>1. Runs(w, "teardown", "report") /\ Return(w) /\ TypeOK
  BY DEF TeardownReport, Inv
<1>2. /\ UNCHANGED <<exe, been_chosen, in_used, users, i, mpc, threw, crashed, kernel>>
      /\ mtx' = Nobody
  BY DEF TeardownReport, restVars, slotVars
<1>a. /\ Running(w) /\ job[w] \in Jobs /\ job[w].kind = "teardown"
      /\ step[w] = "report" /\ JobOK(job[w], "report", mine[w])
      /\ \A k \in 1..Len(tasks) : tasks[k] \in Jobs
      /\ \A v \in Workers : Running(v) => job[v] \in Jobs
      /\ mtx = w <=> Holds(job[w], "report")
  BY <1>1, RunsFacts
<1>b. p \in Slots /\ mtx = w
  BY <1>a, JobParts DEF Holds
<1>d. TakenOK(p, c) /\ ~been_chosen[p] /\ exe[p] = NoExe
  BY <1>a DEF JobOK, TeardownOK
<1>e. results' = [results EXCEPT ![c] = @ + 1]
  BY DEF TeardownReport
<1>g. c \in Cases /\ c # NoExe /\ results[c] = 0
  BY <1>d DEF TakenOK, Cases, NoExe
<1> HIDE DEF p, c
<1>f. \A d \in Cases : results'[d] = IF d = c THEN 1 ELSE results[d]
  <2>1. results'[c] = 1 /\ \A d \in Cases \ {c} : results'[d] = results[d]
    BY <1>1, <1>e, <1>g DEF TypeOK
  <2> QED  BY <2>1
<1>3. /\ OnlyTask(w) /\ ~Running(w)' /\ step'[w] = "start" /\ mine'[w] = NoExe
      /\ step' \in [Workers -> Steps] /\ mine' \in [Workers -> Cases \cup {NoExe}]
      /\ UNCHANGED owner
  BY <1>1, ReturnStep
<1>4. TypeOK'
  <2>1. results' \in [Cases -> Nat]
    BY <1>1, <1>e, <1>g DEF TypeOK
  <2> QED  BY <1>1, <1>2, <1>3, <2>1 DEF TypeOK
<1>5. /\ \A q : Dropping(q) => q = p
      /\ \A q : ~Dropping(q)'
  BY <1>2, <1>b DEF Dropping, p
<1>6. MtxOK'
  <2>1. \A v \in Workers \ {w} : ~(Running(v) /\ Holds(job[v], step[v]))'
    BY <1>3, <1>b DEF Inv, MtxOK, OnlyTask, Holds
  <2> QED  BY <1>2, <1>3, <2>1, SchedulerAssumption DEF MtxOK
<1>7. JobsOK' /\ JobsApart'
  <2>1. ASSUME NEW j \in Jobs, NEW s, NEW m, JobOK(j, s, m),
               Apart(j, s, m, job[w], step[w], mine[w])
        PROVE  JobOK(j, s, m)'
    <3>1. ASSUME j.kind = "setup" PROVE SetupOK(j, s, m)'
      <4>1. j.case # c /\ j.case \in Cases /\ SetupOK(j, s, m)
        BY <2>1, <3>1, <1>a, JobParts DEF Apart, JobOK, c
      <4>2. s \in Early => exe[j.pos] = NoExe
        BY <4>1, <1>5, <1>d DEF SetupOK
      <4> QED  BY <4>1, <4>2, <1>2, <1>f DEF SetupOK
    <3>2. ASSUME j.kind = "teardown" PROVE TeardownOK(j, s, m)'
      <4>1. j.pos # p /\ (m # NoExe => m # c) /\ TeardownOK(j, s, m)
        BY <2>1, <3>2, <1>a DEF Apart, JobOK, p, c
      <4>2. s \notin {"drop", "report"}
        BY <4>1, <1>5 DEF TeardownOK
      <4>3. TakenOK(j.pos, m) => TakenOK(j.pos, m)'
        BY <4>1, <1>2, <1>f DEF TakenOK, Cases, NoExe
      <4> QED  BY <4>1, <4>2, <4>3, <1>2 DEF TeardownOK
    <3> QED  BY <2>1, <3>1, <3>2 DEF JobOK
  <2> QED  BY <1>a, <1>3, <2>1, TaskSteps DEF Inv
<1>8. SlotsOK'
  <2>1. \A q \in Slots : exe[q] # NoExe => q # p /\ exe[q] # c /\ exe[q] \in Cases
    BY <1>1, <1>b, <1>d DEF TypeOK, TakenOK
  <2>2. \A q \in Slots : exe[q] # NoExe => results'[exe[q]] = results[exe[q]]
    BY <2>1, <1>f
  <2> QED  BY <2>1, <2>2, <1>2, <1>5 DEF Inv, SlotsOK
<1>9. UsersOK'
  <2> SUFFICES ASSUME NEW q \in Slots, NEW d \in users[q], exe[q] # d
               PROVE  \E v \in Workers : UsedBy(q, d, v)'
    BY <1>2 DEF UsersOK
  <2>1. PICK v \in Workers : UsedBy(q, d, v)
    BY DEF Inv, UsersOK
  <2>2. v # w
    BY <2>1, <1>a DEF UsedBy
  <2> QED  BY <2>1, <2>2, <1>3 DEF OnlyTask, UsedBy
<1>10. CleanOK'
  <2>1. \A q \in Slots : SetupAt(q) => SetupAt(q)'
    BY <1>3, <1>a, Tokens
  <2> QED  BY <2>1, <1>2, <1>5 DEF Inv, CleanOK
<1>11. CasesOK'
  <2>1. ASSUME NEW q \in Slots, Dead(q) PROVE Dead(q)'
    <3>1. in_used'[q] /\ exe'[q] = NoExe
      BY <2>1, <1>2 DEF Dead
    <3> QED  BY <2>1, <3>1, <1>3, DeadStays
  <2>2. \A d \in Cases : SetupOf(d) => SetupOf(d)'
    BY <1>3, <1>a, Tokens
  <2>3. \A d \in Cases \ {c} : TeardownOf(d) => TeardownOf(d)'
    BY <1>3, Tokens DEF c
  <2>4. \A d \in Cases : Accounted(d) => Accounted(d)'
    BY <1>2, <1>f, <2>2, <2>3 DEF Accounted
  <2>5. \A d \in Cases : results'[d] \in {0, 1} /\ (d <= i \/ results'[d] = 0)
    BY <1>d, <1>f DEF Inv, CasesOK, TakenOK
  <2> QED  BY <1>2, <2>1, <2>4, <2>5 DEF Inv, CasesOK
<1>12. MasterOK'
  BY <1>2, <1>3 DEF Inv, MasterOK
<1> QED
  BY <1>4, <1>6, <1>7, <1>8, <1>9, <1>10, <1>11, <1>12 DEF Inv

-----------------------------------------------------------------------------
(* The steps of the master, of the pool and of the device *)

\* find_if finds one of those that satisfy it.
LEMMA FirstIsIn ==
  ASSUME NEW P, P \subseteq Slots, P # {}
  PROVE  First(P) \in P
<1> DEFINE R == {pair \in Nat \X Nat : pair[1] < pair[2]}
<1>1. IsWellFoundedOn(R, Nat)
  BY NatLessThanWellFounded DEF OpToRel
<1>2. P \subseteq Nat
  BY SchedulerAssumption
<1>3. PICK x \in P : \A y \in P : ~(<<y, x>> \in R)
  <2> HIDE DEF R
  <2> QED  BY <1>1, <1>2, WFMin
<1>4. \A q \in P : x <= q
  <2> SUFFICES ASSUME NEW q \in P, ~(x <= q) PROVE FALSE
    OBVIOUS
  <2>1. q \in Nat /\ x \in Nat /\ q < x
    BY <1>2
  <2>2. <<q, x>> \in R
    BY <2>1
  <2> QED  BY <1>3, <2>2
<1> QED  BY <1>3, <1>4 DEF First

\* What a step that lets all tasks be leaves as it is.
SameTasks ==
  /\ UNCHANGED <<tasks, job, step, mine>>
  /\ \A w \in Workers : Running(w)' <=> Running(w)

\* Without a change of tasks, nobody answers for anything else.
LEMMA SameTokens ==
  ASSUME SameTasks
  PROVE  /\ \A p : SetupAt(p)' <=> SetupAt(p)
         /\ \A c : SetupOf(c)' <=> SetupOf(c)
         /\ \A c : TeardownOf(c)' <=> TeardownOf(c)
         /\ \A p, c : \A w \in Workers : UsedBy(p, c, w)' <=> UsedBy(p, c, w)
<1> USE DEF SameTasks
<1>1. \A p : SetupAt(p)' <=> SetupAt(p)
  BY DEF SetupAt
<1>2. \A c : SetupOf(c)' <=> SetupOf(c)
  BY DEF SetupOf
<1>3. \A c : TeardownOf(c)' <=> TeardownOf(c)
  BY DEF TeardownOf
<1>4. \A p, c : \A w \in Workers : UsedBy(p, c, w)' <=> UsedBy(p, c, w)
  BY DEF UsedBy
<1> QED  BY <1>1, <1>2, <1>3, <1>4

\* A step that touches neither the tasks nor what they rely on.
LEMMA IdleStep ==
  ASSUME Inv, PoolProofs!PoolInv, SameTasks,
         UNCHANGED <<slotVars, mtx, results, i, crashed, threw>>,
         kernel' \in [Cases -> {"none", "running", "done"}],
         MasterOK'
  PROVE  Inv'
<1> USE DEF slotVars
<1>1. TypeOK'
  BY DEF Inv, TypeOK, SameTasks
<1>2. \A p : Dropping(p)' <=> Dropping(p)
  BY DEF Dropping, SameTasks
<1>3. JobsOK' /\ JobsApart'
  <2>1. \A j, s, m : JobOK(j, s, m) => JobOK(j, s, m)'
    BY <1>2, JobStaysOK
  <2> QED  BY <2>1, NoTaskChanges, PoolFacts DEF Inv, SameTasks
<1>4. MtxOK'
  BY DEF Inv, MtxOK, SameTasks, Holds
<1>5. SlotsOK'
  BY <1>2 DEF Inv, SlotsOK
<1>6. UsersOK'
  BY SameTokens DEF Inv, UsersOK
<1>7. CleanOK'
  BY <1>2, SameTokens DEF Inv, CleanOK
<1>8. CasesOK'
  <2>1. \A p \in Slots : Dead(p) => Dead(p)'
    BY SameTokens DEF Dead, SameTasks
  <2>2. \A c \in Cases : Accounted(c) => Accounted(c)'
    BY SameTokens DEF Accounted
  <2> QED  BY <2>1, <2>2 DEF Inv, CasesOK
<1> QED  BY <1>1, <1>3, <1>4, <1>5, <1>6, <1>7, <1>8 DEF Inv

\* The steps that touch no task ...
LEMMA WaitForInv ==
  ASSUME Inv, PoolProofs!PoolInv, WaitFor
  PROVE  Inv'
<1>1. SameTasks /\ UNCHANGED <<slotVars, mtx, results, i, crashed, threw, kernel>>
  BY DEF WaitFor, Turn, poolVars, ctxVars, restVars, SameTasks, Running
<1>2. MasterOK'
  BY DEF WaitFor, MasterOK
<1> QED  BY <1>1, <1>2, IdleStep DEF Inv, TypeOK

LEMMA CollectInv ==
  ASSUME Inv, PoolProofs!PoolInv, Collect
  PROVE  Inv'
<1>1. SameTasks /\ UNCHANGED <<slotVars, mtx, results, i, crashed, threw, kernel>>
  BY DEF Collect, poolVars, ctxVars, restVars, SameTasks, Running
<1>2. MasterOK'
  BY DEF Collect, Inv, MasterOK, poolVars, slotVars
<1> QED  BY <1>1, <1>2, IdleStep DEF Inv, TypeOK

LEMMA KernelDoneInv ==
  ASSUME Inv, PoolProofs!PoolInv, NEW c, c \in Cases, KernelDone(c)
  PROVE  Inv'
<1>1. SameTasks /\ UNCHANGED <<slotVars, mtx, results, i, crashed, threw>>
  BY DEF KernelDone, poolVars, ctxVars, SameTasks, Running
<1>2. MasterOK'
  BY DEF KernelDone, Inv, MasterOK, poolVars, slotVars
<1>3. kernel' \in [Cases -> {"none", "running", "done"}]
  BY DEF KernelDone, Inv, TypeOK
<1> QED  BY <1>1, <1>2, <1>3, IdleStep

LEMMA CheckEndInv ==
  ASSUME Inv, PoolProofs!PoolInv, CheckEnd
  PROVE  Inv'
<1>1. SameTasks /\ UNCHANGED <<slotVars, mtx, results, i, crashed, threw, kernel>>
  BY DEF CheckEnd, Pool!Shutdown, poolVars, ctxVars, restVars, SameTasks, Running
<1>2. MasterOK'
  BY DEF CheckEnd, MasterOK, slotVars
<1> QED  BY <1>1, <1>2, IdleStep DEF Inv, TypeOK

LEMMA NotifyInv ==
  ASSUME Inv, PoolProofs!PoolInv, Notify
  PROVE  Inv'
<1>1. UNCHANGED <<tasks, job, step, mine, slotVars, mtx, results, i, crashed, threw, kernel, mpc>>
  BY DEF Notify, Pool!NotifyOne, Pool!NotifyAll, Pool!Join, ctxVars, restVars
<1>2. \A w \in Workers : Running(w)' <=> Running(w)
  <2>1. at \in [Workers -> {"ready", "waiting", "running", "exited"}]
    BY PoolFacts
  <2> QED  BY <2>1 DEF Notify, Pool!NotifyOne, Pool!NotifyAll, Pool!Join, Running
<1>3. MasterOK'
  BY <1>1 DEF Notify, Pool!NotifyOne, Pool!NotifyAll, Pool!Join, Inv, MasterOK, slotVars
<1> QED  BY <1>1, <1>2, <1>3, IdleStep DEF Inv, TypeOK, SameTasks

\* A step that puts the task x in the queue.
AddsTask(x) ==
  /\ UNCHANGED <<job, step, mine>> /\ tasks' = Append(tasks, x)
  /\ \A w \in Workers : Running(w)' <=> Running(w)

\* The new task answers for its slot and its case; the others go on to.
LEMMA AddedTokens ==
  ASSUME PoolProofs!PoolInv, NEW x, x \in Jobs, AddsTask(x)
  PROVE  /\ \A p : SetupAt(p)' <=> SetupAt(p) \/ (x.kind = "setup" /\ x.pos = p)
         /\ \A c : SetupOf(c)' <=> SetupOf(c) \/ (x.kind = "setup" /\ x.case = c)
         /\ \A c : TeardownOf(c)' <=> TeardownOf(c)
         /\ \A p, c : \A w \in Workers : UsedBy(p, c, w)' <=> UsedBy(p, c, w)
<1> USE DEF AddsTask
<1>1. /\ Len(tasks) \in Nat /\ Len(tasks') = Len(tasks) + 1
      /\ \A k \in 1..Len(tasks) : tasks'[k] = tasks[k]
      /\ tasks'[Len(tasks) + 1] = x
  <2>1. tasks \in Seq(Jobs)
    BY PoolFacts
  <2> QED  BY <2>1, AppendProperties
<1>2. \A k : k \in 1..Len(tasks') <=> k \in 1..Len(tasks) \/ k = Len(tasks) + 1
  BY <1>1
<1>3. \A p : SetupAt(p)' <=> SetupAt(p) \/ (x.kind = "setup" /\ x.pos = p)
  BY <1>1, <1>2 DEF SetupAt
<1>4. \A c : SetupOf(c)' <=> SetupOf(c) \/ (x.kind = "setup" /\ x.case = c)
  BY <1>1, <1>2 DEF SetupOf
<1>5. \A c : TeardownOf(c)' <=> TeardownOf(c)
  BY DEF TeardownOf
<1>6. \A p, c : \A w \in Workers : UsedBy(p, c, w)' <=> UsedBy(p, c, w)
  BY DEF UsedBy
<1> QED  BY <1>3, <1>4, <1>5, <1>6

\* enqueue adds a task.
LEMMA EmplaceAdds ==
  ASSUME NEW x, Pool!Emplace(x), UNCHANGED <<step, mine>>
  PROVE  AddsTask(x) /\ UNCHANGED at
  BY DEF Pool!Emplace, AddsTask, Running

\* ... those of the master that may enqueue one ...
LEMMA SetDevicesInv ==
  ASSUME Inv, PoolProofs!PoolInv, SetDevices
  PROVE  Inv'
<1> DEFINE x == [kind |-> "set_device"]
<1>1. UNCHANGED <<slotVars, mtx, results, i, step, mine, crashed, threw, kernel>>
  BY DEF SetDevices, ctxVars, restVars
<1>2. MasterOK'
  BY DEF SetDevices, Turn, MasterOK
<1>3. CASE UNCHANGED poolVars
  <2>1. SameTasks
    BY <1>1, <1>3 DEF SameTasks, poolVars, Running
  <2> QED  BY <1>1, <1>2, <2>1, IdleStep DEF Inv, TypeOK
<1>4. CASE Pool!Emplace(x)
  <2>1. x \in Jobs /\ x.kind = "set_device"
    BY DEF Jobs
  <2> HIDE DEF x
  <2>2. AddsTask(x) /\ UNCHANGED <<job, step, mine>>
    BY <1>1, <1>4, EmplaceAdds DEF AddsTask
  <2> USE DEF slotVars
  <2>3. \A p : Dropping(p)' <=> Dropping(p)
    BY <1>1, <2>2 DEF Dropping
  <2>4. JobsOK' /\ JobsApart'
    <3>1. \A j, s, m : JobOK(j, s, m) => JobOK(j, s, m)'
      BY <1>1, <2>3, JobStaysOK
    <3>2. JobOK(x, "start", NoExe)'
      BY <2>1 DEF JobOK
    <3>3. \A j, s, m : Apart(j, s, m, x, "start", NoExe)
      BY <2>1 DEF Apart
    <3> QED  BY <2>1, <2>2, <3>1, <3>2, <3>3, TaskIsAdded, PoolFacts DEF Inv, AddsTask
  <2>5. TypeOK' /\ MtxOK' /\ SlotsOK'
    <3>1. TypeOK'
      BY <1>1, <2>2 DEF Inv, TypeOK
    <3>2. MtxOK'
      BY <1>1, <2>2 DEF Inv, MtxOK, AddsTask, Holds
    <3>3. SlotsOK'
      BY <1>1, <2>3 DEF Inv, SlotsOK
    <3> QED  BY <3>1, <3>2, <3>3
  <2>6. /\ \A p : SetupAt(p)' <=> SetupAt(p)
        /\ \A c : SetupOf(c)' <=> SetupOf(c)
        /\ \A c : TeardownOf(c)' <=> TeardownOf(c)
        /\ \A p, c : \A w \in Workers : UsedBy(p, c, w)' <=> UsedBy(p, c, w)
    BY <2>1, <2>2, AddedTokens
  <2>7. UsersOK' /\ CleanOK'
    BY <1>1, <2>3, <2>6 DEF Inv, UsersOK, CleanOK
  <2>8. CasesOK'
    <3>1. \A p \in Slots : Dead(p) => Dead(p)'
      BY <1>1, <2>2, <2>6 DEF Dead, AddsTask
    <3>2. \A c \in Cases : Accounted(c) => Accounted(c)'
      BY <1>1, <2>6 DEF Accounted
    <3> QED  BY <1>1, <3>1, <3>2 DEF Inv, CasesOK
  <2> QED  BY <1>2, <2>4, <2>5, <2>7, <2>8 DEF Inv
<1> QED  BY <1>3, <1>4 DEF SetDevices

LEMMA AnyDoneInv ==
  ASSUME Inv, PoolProofs!PoolInv, AnyDone
  PROVE  Inv'
<1> DEFINE done == {q \in Slots : Ready(q)}
<1>1. /\ UNCHANGED <<exe, in_used, users, mtx, results, i, step, mine, crashed, threw, kernel>>
      /\ mtx = Nobody /\ TypeOK
  BY DEF AnyDone, ctxVars, restVars, Inv
<1>2. MasterOK'
  BY DEF AnyDone, Turn, MasterOK
<1>3. CASE UNCHANGED <<poolVars, been_chosen>>
  <2>1. SameTasks
    BY <1>1, <1>3 DEF SameTasks, poolVars, Running
  <2>2. kernel' \in [Cases -> {"none", "running", "done"}]
    BY <1>1 DEF TypeOK
  <2> QED  BY <1>1, <1>2, <1>3, <2>1, <2>2, IdleStep DEF slotVars
<1>4. CASE /\ done # {}
           /\ been_chosen' = [been_chosen EXCEPT ![First(done)] = TRUE]
           /\ Pool!Emplace([kind |-> "teardown", pos |-> First(done)])
  <2>1. First(done) \in done
    BY <1>4, FirstIsIn
  <2> HIDE DEF done
  <2>2. PICK p \in Slots : p = First(done) /\ Ready(p)
    BY <2>1 DEF done
  <2> DEFINE x == [kind |-> "teardown", pos |-> p]
  <2>3. x \in Jobs /\ x.kind = "teardown" /\ x.pos = p
    BY DEF Jobs
  <2>4. AddsTask(x) /\ UNCHANGED <<job, step, mine>>
    BY <1>1, <1>4, <2>2, EmplaceAdds DEF AddsTask
  <2> HIDE DEF x
  <2>5. \A q : ~Dropping(q) /\ ~Dropping(q)'
    BY <1>1 DEF Dropping
  <2>6. exe[p] # NoExe /\ ~been_chosen[p] /\ in_used[p]
    BY <2>2, <2>5 DEF Ready, Inv, SlotsOK
  <2>7. \A q \in Slots : been_chosen'[q] <=> been_chosen[q] \/ q = p
    BY <1>1, <1>4, <2>2 DEF TypeOK
  <2>8. TypeOK'
    <3>1. been_chosen' \in [Slots -> BOOLEAN]
      BY <1>1, <1>4, <2>2 DEF TypeOK
    <3> QED  BY <1>1, <2>4, <3>1 DEF TypeOK
  <2>9. JobsOK' /\ JobsApart'
    <3>1. ASSUME NEW j \in Jobs, NEW s, NEW m, JobOK(j, s, m)
          PROVE  JobOK(j, s, m)' /\ Apart(j, s, m, x, "start", NoExe)
      <4>1. ASSUME j.kind = "setup"
            PROVE  SetupOK(j, s, m)' /\ j.case # NoExe
        <5>1. j.pos \in Slots /\ SetupOK(j, s, m) /\ j.case \in Cases
          BY <3>1, <4>1, JobParts DEF JobOK
        <5>2. s \in Early => j.pos # p
          BY <2>5, <2>6, <5>1 DEF SetupOK
        <5> QED  BY <1>1, <2>5, <2>7, <5>1, <5>2 DEF SetupOK, Cases, NoExe
      <4>2. ASSUME j.kind = "teardown"
            PROVE  TeardownOK(j, s, m)' /\ j.pos # p
        <5>1. j.pos \in Slots /\ TeardownOK(j, s, m)
          BY <3>1, <4>2, JobParts DEF JobOK
        <5>2. j.pos # p /\ s \notin {"drop", "report"}
          BY <2>5, <2>6, <5>1 DEF TeardownOK
        <5> QED  BY <1>1, <2>7, <5>1, <5>2 DEF TeardownOK, TakenOK
      <4> QED  BY <3>1, <4>1, <4>2, <2>3 DEF JobOK, Apart
    <3>2. JobOK(x, "start", NoExe)'
      BY <1>1, <2>3, <2>6, <2>7 DEF JobOK, TeardownOK
    <3> QED  BY <2>3, <2>4, <3>1, <3>2, TaskIsAdded, PoolFacts DEF Inv, AddsTask
  <2>10. MtxOK'
    BY <1>1, <2>4 DEF Inv, MtxOK, AddsTask, Holds
  <2>11. SlotsOK'
    BY <1>1, <2>5, <2>6, <2>7 DEF Inv, SlotsOK
  <2>12. /\ \A q : SetupAt(q)' <=> SetupAt(q)
         /\ \A c : SetupOf(c)' <=> SetupOf(c)
         /\ \A c : TeardownOf(c)' <=> TeardownOf(c)
         /\ \A q, c : \A w \in Workers : UsedBy(q, c, w)' <=> UsedBy(q, c, w)
    BY <2>3, <2>4, AddedTokens
  <2>13. UsersOK' /\ CleanOK'
    BY <1>1, <2>5, <2>6, <2>7, <2>12 DEF Inv, UsersOK, CleanOK
  <2>14. CasesOK'
    <3>1. \A q \in Slots : Dead(q) => Dead(q)'
      BY <1>1, <2>4, <2>12 DEF Dead, AddsTask
    <3>2. \A c \in Cases : Accounted(c) => Accounted(c)'
      BY <1>1, <2>12 DEF Accounted
    <3> QED  BY <1>1, <3>1, <3>2 DEF Inv, CasesOK
  <2> QED  BY <1>2, <2>8, <2>9, <2>10, <2>11, <2>13, <2>14 DEF Inv
<1> QED  BY <1>3, <1>4 DEF AnyDone

LEMMA FindIdleInv ==
  ASSUME Inv, PoolProofs!PoolInv, FindIdle
  PROVE  Inv'
<1> DEFINE idle == {q \in Slots : ~in_used[q]}
<1>1. /\ UNCHANGED <<exe, been_chosen, users, mtx, results, step, mine, crashed, threw, kernel>>
      /\ TypeOK
  BY DEF FindIdle, ctxVars, restVars, Inv
<1>2. MasterOK'
  BY DEF FindIdle, Turn, MasterOK
<1>3. CASE UNCHANGED <<poolVars, in_used, i>>
  <2>1. SameTasks
    BY <1>1, <1>3 DEF SameTasks, poolVars, Running
  <2>2. kernel' \in [Cases -> {"none", "running", "done"}]
    BY <1>1 DEF TypeOK
  <2> QED  BY <1>1, <1>2, <1>3, <2>1, <2>2, IdleStep DEF slotVars
<1>4. CASE /\ idle # {} /\ i < NCases
           /\ in_used' = [in_used EXCEPT ![First(idle)] = TRUE]
           /\ Pool!Emplace([kind |-> "setup", pos |-> First(idle), case |-> i + 1])
           /\ i' = i + 1
  <2>1. First(idle) \in idle
    BY <1>4, FirstIsIn
  <2> HIDE DEF idle
  <2>2. PICK p \in Slots : p = First(idle) /\ ~in_used[p]
    BY <2>1 DEF idle
  <2>a. i \in Nat /\ i + 1 \in Cases /\ i + 1 # NoExe /\ ~(i + 1 <= i) /\ NCases \in Nat
    BY <1>1, <1>4, SchedulerAssumption DEF TypeOK, Cases, NoExe
  <2>b. PICK c \in Cases : c = i + 1
    BY <2>a
  <2>c. /\ i' = c /\ c # NoExe /\ ~(c <= i)
        /\ \A d \in Cases : d <= c <=> d <= i \/ d = c
    BY <1>4, <2>a, <2>b DEF Cases
  <2> DEFINE x == [kind |-> "setup", pos |-> p, case |-> c]
  <2>3. x \in Jobs /\ x.kind = "setup" /\ x.pos = p /\ x.case = c
    BY DEF Jobs
  <2>4. AddsTask(x) /\ UNCHANGED <<job, step, mine>>
    BY <1>1, <1>4, <2>2, <2>b, EmplaceAdds DEF AddsTask
  <2> HIDE DEF x
  <2>5. \A q : Dropping(q)' <=> Dropping(q)
    BY <1>1, <2>4 DEF Dropping
  <2>6. ~been_chosen[p] /\ (exe[p] = NoExe \/ Dropping(p))
    BY <2>2 DEF Inv, SlotsOK
  <2>7. \A q \in Slots : in_used'[q] <=> in_used[q] \/ q = p
    BY <1>1, <1>4, <2>2 DEF TypeOK
  <2>8. TypeOK'
    <3>1. in_used' \in [Slots -> BOOLEAN]
      BY <1>1, <1>4, <2>2 DEF TypeOK
    <3>2. i' \in 0..NCases
      BY <1>4, <2>a
    <3> QED  BY <1>1, <2>4, <3>1, <3>2 DEF TypeOK
  <2>d. \A q \in Slots : exe[q] # c
    BY <2>c DEF Inv, SlotsOK
  <2>e. \A d \in Cases : results[d] \in {0, 1}
    BY DEF Inv, CasesOK
  <2>9. results[c] = 0
    BY <2>c DEF Inv, CasesOK
  <2>10. JobsOK' /\ JobsApart'
    <3>1. ASSUME NEW j \in Jobs, NEW s, NEW m, JobOK(j, s, m)
          PROVE  JobOK(j, s, m)' /\ Apart(j, s, m, x, "start", NoExe)
      <4>1. ASSUME j.kind = "setup"
            PROVE  /\ SetupOK(j, s, m)' /\ j.case # c
                   /\ s \in Early => j.pos # p
        <5>1. j.pos \in Slots /\ SetupOK(j, s, m) /\ j.case \in Cases
          BY <3>1, <4>1, JobParts DEF JobOK
        <5>2. s \in Early => j.pos # p
          BY <2>2, <5>1 DEF SetupOK
        <5>3. j.case # c /\ j.case <= i'
          BY <2>c, <5>1 DEF SetupOK
        <5> QED  BY <1>1, <2>5, <2>7, <5>1, <5>2, <5>3 DEF SetupOK
      <4>2. ASSUME j.kind = "teardown"
            PROVE  TeardownOK(j, s, m)' /\ c # m
        <5>1. j.pos \in Slots /\ TeardownOK(j, s, m)
          BY <3>1, <4>2, JobParts DEF JobOK
        <5>2. TakenOK(j.pos, m) => TakenOK(j.pos, m)' /\ m # c
          BY <1>1, <2>c DEF TakenOK
        <5>3. m = NoExe \/ TakenOK(j.pos, m)
          BY <5>1 DEF TeardownOK
        <5> QED  BY <1>1, <2>c, <2>5, <2>7, <5>1, <5>2, <5>3 DEF TeardownOK
      <4> QED  BY <3>1, <4>1, <4>2, <2>3 DEF JobOK, Apart
    <3>2. JobOK(x, "start", NoExe)'
      <4>1. SetupOK(x, "start", NoExe)'
        BY <1>1, <2>3, <2>5, <2>6, <2>7, <2>c, <2>d, <2>9 DEF SetupOK, Early
      <4> QED  BY <2>3, <4>1 DEF JobOK
    <3> QED  BY <2>3, <2>4, <3>1, <3>2, TaskIsAdded, PoolFacts DEF Inv, AddsTask
  <2>11. MtxOK'
    BY <1>1, <2>4 DEF Inv, MtxOK, AddsTask, Holds
  <2>12. SlotsOK'
    <3>1. \A q \in Slots : exe[q] # NoExe /\ exe[q] <= i => exe[q] <= i'
      BY <1>1, <2>c DEF TypeOK
    <3> QED  BY <1>1, <2>5, <2>7, <3>1 DEF Inv, SlotsOK
  <2>13. /\ \A q : SetupAt(q)' <=> SetupAt(q) \/ q = p
         /\ \A d : SetupOf(d)' <=> SetupOf(d) \/ d = c
         /\ \A d : TeardownOf(d)' <=> TeardownOf(d)
         /\ \A q, d : \A w \in Workers : UsedBy(q, d, w)' <=> UsedBy(q, d, w)
    BY <2>3, <2>4, AddedTokens
  <2>14. UsersOK' /\ CleanOK'
    BY <1>1, <2>5, <2>7, <2>13 DEF Inv, UsersOK, CleanOK
  <2>15. CasesOK'
    <3>1. ASSUME NEW q \in Slots, Dead(q) PROVE Dead(q)'
      <4>1. q # p
        BY <2>2, <3>1 DEF Dead
      <4> QED  BY <1>1, <2>4, <2>7, <2>13, <3>1, <4>1 DEF Dead, AddsTask
    <3>2. \A d \in Cases : Accounted(d) \/ d = c => Accounted(d)'
      BY <1>1, <2>13 DEF Accounted
    <3>3. \A d \in Cases : d <= i' \/ results[d] = 0
      BY <2>c DEF Inv, CasesOK
    <3> QED  BY <1>1, <2>c, <3>1, <3>2, <3>3 DEF Inv, CasesOK
  <2> QED  BY <1>2, <2>8, <2>10, <2>11, <2>12, <2>14, <2>15 DEF Inv
<1> QED  BY <1>3, <1>4 DEF FindIdle

\* A task that moves from the queue to a worker answers for the same things.
LEMMA TakenTokens ==
  ASSUME PoolProofs!PoolInv, UNCHANGED <<step, mine>>, JobsOK,
         tasks # <<>>, tasks' = Tail(tasks),
         NEW w, w \in Workers, ~Running(w), Running(w)', job'[w] = Head(tasks),
         \A v \in Workers \ {w} : job'[v] = job[v] /\ (Running(v)' <=> Running(v))
  PROVE  /\ \A p : SetupAt(p)' <=> SetupAt(p)
         /\ \A c : SetupOf(c)' <=> SetupOf(c)
         /\ \A c \in Cases : TeardownOf(c) => TeardownOf(c)'
         /\ \A p, c : \A v \in Workers : UsedBy(p, c, v) => UsedBy(p, c, v)'
<1>1. /\ Len(tasks) \in Nat \ {0} /\ Len(tasks') = Len(tasks) - 1
      /\ \A k \in 1..Len(tasks') : tasks'[k] = tasks[k + 1]
      /\ job'[w] = tasks[1]
  <2>1. tasks \in Seq(Jobs)
    BY PoolFacts
  <2> QED  BY <2>1, HeadTailProperties
<1>2. step[w] = "start" /\ mine[w] = NoExe
  BY DEF JobsOK
<1>3. /\ 1 \in 1..Len(tasks)
      /\ \A k \in 1..Len(tasks') : k + 1 \in 1..Len(tasks)
      /\ \A k \in 1..Len(tasks) : k = 1 \/ (k - 1 \in 1..Len(tasks') /\ k = (k - 1) + 1)
  BY <1>1
<1>4. /\ tasks[1] = job'[w]
      /\ \A k \in 1..Len(tasks) :
           tasks[k] = job'[w] \/ \E l \in 1..Len(tasks') : tasks'[l] = tasks[k]
      /\ \A l \in 1..Len(tasks') : \E k \in 1..Len(tasks) : tasks[k] = tasks'[l]
  <2>1. ASSUME NEW k \in 1..Len(tasks)
        PROVE  tasks[k] = job'[w] \/ \E l \in 1..Len(tasks') : tasks'[l] = tasks[k]
    <3>1. CASE k = 1
      BY <1>1, <3>1
    <3>2. CASE k # 1
      <4>1. k - 1 \in 1..Len(tasks') /\ tasks'[k - 1] = tasks[(k - 1) + 1] /\ k = (k - 1) + 1
        BY <1>1, <1>3, <3>2
      <4> QED  BY <4>1
    <3> QED  BY <3>1, <3>2
  <2>2. \A l \in 1..Len(tasks') : \E k \in 1..Len(tasks) : tasks[k] = tasks'[l]
    BY <1>1, <1>3
  <2> QED  BY <1>1, <2>1, <2>2
<1>5. "start" \in Early
  BY DEF Early
<1>6. ASSUME NEW p PROVE SetupAt(p)' <=> SetupAt(p)
  <2>1. (\E k \in 1..Len(tasks) : tasks[k].kind = "setup" /\ tasks[k].pos = p)
          <=> \/ job'[w].kind = "setup" /\ job'[w].pos = p
              \/ \E k \in 1..Len(tasks') : tasks'[k].kind = "setup" /\ tasks'[k].pos = p
    <3>1. ASSUME NEW k \in 1..Len(tasks), tasks[k].kind = "setup", tasks[k].pos = p
          PROVE  \/ job'[w].kind = "setup" /\ job'[w].pos = p
                 \/ \E l \in 1..Len(tasks') : tasks'[l].kind = "setup" /\ tasks'[l].pos = p
      BY <1>4, <3>1
    <3>2. ASSUME NEW l \in 1..Len(tasks'), tasks'[l].kind = "setup", tasks'[l].pos = p
          PROVE  \E k \in 1..Len(tasks) : tasks[k].kind = "setup" /\ tasks[k].pos = p
      BY <1>4, <3>2
    <3>3. job'[w].kind = "setup" /\ job'[w].pos = p
            => \E k \in 1..Len(tasks) : tasks[k].kind = "setup" /\ tasks[k].pos = p
      BY <1>3, <1>4
    <3> QED  BY <3>1, <3>2, <3>3
  <2>2. (\E v \in Workers : Running(v) /\ job[v].kind = "setup" /\ job[v].pos = p
                            /\ step[v] \in Early)'
          <=> \/ job'[w].kind = "setup" /\ job'[w].pos = p
              \/ \E v \in Workers : Running(v) /\ job[v].kind = "setup"
                                    /\ job[v].pos = p /\ step[v] \in Early
    BY <1>2, <1>5
  <2> QED  BY <2>1, <2>2 DEF SetupAt
<1>7. ASSUME NEW c PROVE SetupOf(c)' <=> SetupOf(c)
  <2>1. (\E k \in 1..Len(tasks) : tasks[k].kind = "setup" /\ tasks[k].case = c)
          <=> \/ job'[w].kind = "setup" /\ job'[w].case = c
              \/ \E k \in 1..Len(tasks') : tasks'[k].kind = "setup" /\ tasks'[k].case = c
    <3>1. ASSUME NEW k \in 1..Len(tasks), tasks[k].kind = "setup", tasks[k].case = c
          PROVE  \/ job'[w].kind = "setup" /\ job'[w].case = c
                 \/ \E l \in 1..Len(tasks') : tasks'[l].kind = "setup" /\ tasks'[l].case = c
      BY <1>4, <3>1
    <3>2. ASSUME NEW l \in 1..Len(tasks'), tasks'[l].kind = "setup", tasks'[l].case = c
          PROVE  \E k \in 1..Len(tasks) : tasks[k].kind = "setup" /\ tasks[k].case = c
      BY <1>4, <3>2
    <3>3. job'[w].kind = "setup" /\ job'[w].case = c
            => \E k \in 1..Len(tasks) : tasks[k].kind = "setup" /\ tasks[k].case = c
      BY <1>3, <1>4
    <3> QED  BY <3>1, <3>2, <3>3
  <2>2. (\E v \in Workers : Running(v) /\ job[v].kind = "setup" /\ job[v].case = c)'
          <=> \/ job'[w].kind = "setup" /\ job'[w].case = c
              \/ \E v \in Workers : Running(v) /\ job[v].kind = "setup" /\ job[v].case = c
    OBVIOUS
  <2> QED  BY <2>1, <2>2 DEF SetupOf
<1>8. \A c \in Cases : TeardownOf(c) => TeardownOf(c)'
  BY DEF TeardownOf
<1>9. \A p, c : \A v \in Workers : UsedBy(p, c, v) => UsedBy(p, c, v)'
  BY DEF UsedBy
<1> QED  BY <1>6, <1>7, <1>8, <1>9

\* ... and a worker that takes one, waits or leaves.
LEMMA PoolStepInv ==
  ASSUME Inv, PoolProofs!PoolInv, NEW w, w \in Workers, PoolStep(w)
  PROVE  Inv'
<1>1. /\ UNCHANGED <<slotVars, mtx, results, i, step, mine, crashed, threw, kernel>>
      /\ TypeOK
  BY DEF PoolStep, ctxVars, restVars, Inv
<1>2. MasterOK'
  BY DEF PoolStep, Pool!Poll, Pool!SpuriousWake, Inv, MasterOK, slotVars
<1>3. /\ tasks \in Seq(Jobs)
      /\ at \in [Workers -> {"ready", "waiting", "running", "exited"}]
      /\ job \in [Workers -> Jobs \cup {Nobody}]
      /\ \A k \in 1..Len(tasks) : tasks[k] \in Jobs
      /\ \A v \in Workers : Running(v) => job[v] \in Jobs
  BY PoolFacts
<1>4. CASE SameTasks
  BY <1>1, <1>2, <1>4, IdleStep DEF TypeOK
<1>5. CASE /\ at[w] = "ready" /\ tasks # <<>> /\ tasks' = Tail(tasks)
           /\ job' = [job EXCEPT ![w] = Head(tasks)]
           /\ at' = [at EXCEPT ![w] = "running"]
  <2>1. /\ ~Running(w) /\ Running(w)' /\ job'[w] = Head(tasks)
        /\ \A v \in Workers \ {w} : job'[v] = job[v] /\ (Running(v)' <=> Running(v))
    BY <1>3, <1>5 DEF Running
  <2>2. mtx # w
    BY <2>1 DEF Inv, MtxOK
  <2>3. \A q : Dropping(q)' <=> Dropping(q)
    BY <1>1, <2>1, <2>2, SchedulerAssumption DEF Dropping, TypeOK
  <2>4. JobsOK' /\ JobsApart'
    <3>1. \A j, s, m : JobOK(j, s, m) => JobOK(j, s, m)'
      BY <1>1, <2>3, JobStaysOK DEF slotVars
    <3> QED  BY <1>1, <1>3, <1>5, <2>1, <3>1, TaskIsTaken DEF Inv
  <2>5. step[w] = "start" /\ mine[w] = NoExe
    BY <2>1 DEF Inv, JobsOK
  <2>6. TypeOK'
    BY <1>1 DEF TypeOK, slotVars
  <2>7. MtxOK'
    BY <1>1, <2>1, <2>2, <2>5 DEF Inv, MtxOK, Holds
  <2>8. SlotsOK'
    BY <1>1, <2>3 DEF Inv, SlotsOK, slotVars
  <2>9. /\ \A p : SetupAt(p)' <=> SetupAt(p)
        /\ \A c : SetupOf(c)' <=> SetupOf(c)
        /\ \A c \in Cases : TeardownOf(c) => TeardownOf(c)'
        /\ \A p, c : \A v \in Workers : UsedBy(p, c, v) => UsedBy(p, c, v)'
    BY <1>1, <1>5, <2>1, TakenTokens DEF Inv
  <2>10. UsersOK' /\ CleanOK'
    BY <1>1, <2>3, <2>9 DEF Inv, UsersOK, CleanOK, slotVars
  <2>11. CasesOK'
    <3>1. \A p \in Slots : Dead(p) => Dead(p)'
      BY <1>1, <2>1, <2>5, <2>9 DEF Dead, slotVars
    <3>2. \A c \in Cases : Accounted(c) => Accounted(c)'
      BY <1>1, <2>9 DEF Accounted, slotVars
    <3> QED  BY <1>1, <3>1, <3>2 DEF Inv, CasesOK
  <2> QED  BY <1>2, <2>4, <2>6, <2>7, <2>8, <2>10, <2>11 DEF Inv
<1>6. CASE /\ at[w] # "running" /\ UNCHANGED <<tasks, job>>
           /\ \E a \in {"exited", "waiting", "ready"} : at' = [at EXCEPT ![w] = a]
  <2>1. SameTasks
    BY <1>1, <1>3, <1>6 DEF SameTasks, Running
  <2> QED  BY <1>4, <2>1
<1> QED  BY <1>5, <1>6 DEF PoolStep, Pool!Poll, Pool!SpuriousWake

-----------------------------------------------------------------------------
(* The invariant *)

\* The invariant holds at the start.
LEMMA InitInv == Init => Inv
<1> SUFFICES ASSUME Init PROVE Inv
  OBVIOUS
<1>1. /\ tasks = <<>> /\ at = [w \in Workers |-> "ready"]
      /\ \A w \in Workers : ~Running(w)
  BY DEF Init, Pool!PoolInit, Running
<1> USE DEF Init
<1>2. Len(tasks) = 0 /\ \A k \in 1..Len(tasks) : FALSE
  BY <1>1
<1>3. TypeOK
  <2>1. NoExe \in Cases \cup {NoExe} /\ {} \in SUBSET Cases /\ "start" \in Steps
    BY DEF Steps
  <2>2. /\ exe \in [Slots -> Cases \cup {NoExe}]
        /\ mine \in [Workers -> Cases \cup {NoExe}]
    BY <2>1
  <2>3. /\ been_chosen \in [Slots -> BOOLEAN] /\ in_used \in [Slots -> BOOLEAN]
        /\ users \in [Slots -> SUBSET Cases] /\ step \in [Workers -> Steps]
    BY <2>1
  <2>4. /\ results \in [Cases -> Nat] /\ i \in 0..NCases
        /\ kernel \in [Cases -> {"none", "running", "done"}]
    BY SchedulerAssumption
  <2> QED  BY <2>2, <2>3, <2>4 DEF TypeOK
<1>4. JobsOK /\ JobsApart
  BY <1>1, <1>2 DEF JobsOK, JobsApart
<1>5. MtxOK
  BY <1>1, SchedulerAssumption DEF MtxOK
<1>6. SlotsOK /\ UsersOK /\ CleanOK /\ MasterOK
  BY DEF SlotsOK, UsersOK, CleanOK, MasterOK
<1>7. CasesOK
  BY DEF CasesOK, Cases
<1> QED  BY <1>3, <1>4, <1>5, <1>6, <1>7 DEF Inv

\* Every step keeps it.
LEMMA NextInv ==
  ASSUME Inv, PoolProofs!PoolInv, [Next]_vars
  PROVE  Inv'
<1>1. CASE UNCHANGED vars
  <2>1. SameTasks /\ UNCHANGED <<slotVars, mtx, results, i, crashed, threw, kernel>>
    BY <1>1 DEF vars, poolVars, ctxVars, restVars, SameTasks, Running
  <2>2. MasterOK'
    BY <1>1 DEF vars, poolVars, slotVars, Inv, MasterOK
  <2> QED  BY <2>1, <2>2, IdleStep DEF Inv, TypeOK
<1>2. CASE Master
  BY <1>2, SetDevicesInv, AnyDoneInv, FindIdleInv, WaitForInv, CheckEndInv,
     CollectInv, NotifyInv DEF Master
<1>3. ASSUME NEW w \in Workers, Task(w) PROVE Inv'
  BY <1>3, SetDeviceInv, SetupInitInv, LaunchInv, ThrowInv, PublishInv,
     CatchClearInv, CatchDropInv, CatchReportInv, TeardownTakeInv,
     TeardownClearInv, TeardownDropInv, TeardownReportInv DEF Task
<1>4. ASSUME NEW w \in Workers, PoolStep(w) PROVE Inv'
  BY <1>4, PoolStepInv
<1>5. ASSUME NEW c \in Cases, KernelDone(c) PROVE Inv'
  BY <1>5, KernelDoneInv
<1> QED  BY <1>1, <1>2, <1>3, <1>4, <1>5 DEF Next

\* The pool sees steps of its own only.
LEMMA NextIsPoolStep ==
  ASSUME Inv, [Next]_vars
  PROVE  [PoolProofs!PoolNext]_PoolProofs!poolVars
<1> USE DEF PoolProofs!PoolNext
<1>1. \A x \in Jobs : Pool!Emplace(x) => PoolProofs!PoolNext
  BY DEF Pool!Emplace, PoolProofs!Emplace
<1>2. \A w \in Workers :
        Pool!Poll(w) \/ Pool!SpuriousWake(w) \/ Pool!Finish(w) => PoolProofs!PoolNext
  BY DEF Pool!Poll, PoolProofs!Poll, Pool!SpuriousWake, PoolProofs!SpuriousWake,
         Pool!Finish, PoolProofs!Finish
<1>3. Pool!Shutdown \/ Pool!NotifyOne \/ Pool!NotifyAll \/ Pool!Join
        => PoolProofs!PoolNext
  BY DEF Pool!Shutdown, PoolProofs!Shutdown, Pool!NotifyOne, PoolProofs!NotifyOne,
         Pool!NotifyAll, PoolProofs!NotifyAll, Pool!Join, PoolProofs!Join
<1> DEFINE Step == PoolProofs!PoolNext \/ UNCHANGED PoolProofs!poolVars
<1>4. UNCHANGED poolVars => Step
  BY DEF poolVars, PoolProofs!poolVars
<1> HIDE DEF PoolProofs!PoolNext
<1>5. CASE UNCHANGED vars
  BY <1>4, <1>5 DEF vars, poolVars
<1>6. CASE SetDevices
  <2>1. [kind |-> "set_device"] \in Jobs
    BY DEF Jobs
  <2> QED  BY <1>1, <1>4, <1>6, <2>1 DEF SetDevices
<1>7. CASE AnyDone
  <2> DEFINE done == {p \in Slots : Ready(p)}
  <2>1. CASE done # {} /\ Pool!Emplace([kind |-> "teardown", pos |-> First(done)])
    <3>1. First(done) \in Slots
      BY <2>1, FirstIsIn
    <3>2. [kind |-> "teardown", pos |-> First(done)] \in Jobs
      BY <3>1 DEF Jobs
    <3> QED  BY <1>1, <2>1, <3>2
  <2> QED  BY <1>4, <1>7, <2>1 DEF AnyDone
<1>8. CASE FindIdle
  <2> DEFINE idle == {p \in Slots : ~in_used[p]}
  <2>1. CASE /\ idle # {} /\ i < NCases
             /\ Pool!Emplace([kind |-> "setup", pos |-> First(idle), case |-> i + 1])
    <3>1. First(idle) \in Slots
      BY <2>1, FirstIsIn
    <3>2. i + 1 \in Cases
      BY <2>1, SchedulerAssumption DEF Inv, TypeOK, Cases
    <3>3. [kind |-> "setup", pos |-> First(idle), case |-> i + 1] \in Jobs
      BY <3>1, <3>2 DEF Jobs
    <3> QED  BY <1>1, <2>1, <3>3
  <2> QED  BY <1>4, <1>8, <2>1 DEF FindIdle
<1>9. CASE WaitFor \/ CheckEnd \/ Collect \/ Notify
  BY <1>3, <1>4, <1>9 DEF WaitFor, CheckEnd, Collect, Notify
<1>10. ASSUME NEW w \in Workers, Task(w) PROVE Step
  BY <1>2, <1>4, <1>10
  DEF Task, SetDevice, SetupInit, Launch, Throw, Publish, CatchClear, CatchDrop,
      CatchReport, TeardownTake, TeardownClear, TeardownDrop, TeardownReport,
      Goto, Return
<1>11. ASSUME NEW w \in Workers, PoolStep(w) PROVE Step
  BY <1>2, <1>11 DEF PoolStep
<1>12. ASSUME NEW c \in Cases, KernelDone(c) PROVE Step
  BY <1>4, <1>12 DEF KernelDone
<1> QED
  BY <1>5, <1>6, <1>7, <1>8, <1>9, <1>10, <1>11, <1>12 DEF Next, Master

\* Together with the pool's, the invariant holds throughout.
LEMMA SchedulerInvariant == Spec => [](Inv /\ PoolProofs!PoolInv)
<1>1. Init => Inv /\ PoolProofs!PoolInv
  <2>1. Init => PoolProofs!PoolInit
    BY DEF Init, Pool!PoolInit, PoolProofs!PoolInit
  <2>2. PoolProofs!PoolInit => PoolProofs!PoolInv
    BY PoolProofs!PoolInitInv, SchedulerAssumption
  <2> QED  BY <2>1, <2>2, InitInv
<1>2. Inv /\ PoolProofs!PoolInv /\ [Next]_vars => (Inv /\ PoolProofs!PoolInv)'
  <2> SUFFICES ASSUME Inv, PoolProofs!PoolInv, [Next]_vars
               PROVE  Inv' /\ PoolProofs!PoolInv'
    OBVIOUS
  <2>1. PoolProofs!PoolInv'
    BY NextIsPoolStep, PoolProofs!PoolNextInv, SchedulerAssumption
  <2> QED  BY <2>1, NextInv
<1> QED  BY <1>1, <1>2, PTL DEF Spec

\* The master and the workers do to the pool what the pool's specification
\* lets them do, so what is proved of the pool holds here
\* (mlu_op_gtest.cpp:374-416, thread_pool.cpp:26-67).
THEOREM TheSchedulerUsesThePool ==
  Spec => Pool!PoolInit /\ [][Pool!PoolNext]_(Pool!poolVars)
<1>1. Init => Pool!PoolInit
  BY DEF Init
<1>2. Inv /\ [Next]_vars => [Pool!PoolNext]_(Pool!poolVars)
  <2> SUFFICES ASSUME Inv, [Next]_vars PROVE [Pool!PoolNext]_(Pool!poolVars)
    OBVIOUS
  <2>1. [PoolProofs!PoolNext]_PoolProofs!poolVars
    BY NextIsPoolStep
  <2> QED
    BY <2>1 DEF PoolProofs!PoolNext, Pool!PoolNext, PoolProofs!poolVars, Pool!poolVars,
      PoolProofs!Emplace, Pool!Emplace, PoolProofs!NotifyOne, Pool!NotifyOne,
      PoolProofs!Shutdown, Pool!Shutdown, PoolProofs!NotifyAll, Pool!NotifyAll,
      PoolProofs!Join, Pool!Join, PoolProofs!Poll, Pool!Poll, PoolProofs!Finish,
      Pool!Finish, PoolProofs!SpuriousWake, Pool!SpuriousWake
<1> QED  BY <1>1, <1>2, SchedulerInvariant, PTL DEF Spec
-----------------------------------------------------------------------------
(* The theorems *)

\* The sets of tasks that TornDownOnce counts hold one task at most.
LEMMA OneTeardown ==
  ASSUME Inv, PoolProofs!PoolInv, NEW p, p \in Slots
  PROVE  LET T == TasksOf("teardown", p)  Q == QueuedFor("teardown", p)
         IN  /\ T = {} \/ \E w : T = {w}
             /\ Q = {} \/ \E k : Q = {k}
             /\ T = {} \/ Q = {}
<1> DEFINE T == TasksOf("teardown", p)
           Q == QueuedFor("teardown", p)
<1>1. \A v, w \in T : v = w
  BY DEF Inv, JobsApart, Apart, TasksOf, Running
<1>2. \A k, l \in Q : k = l
  BY DEF Inv, JobsApart, Apart, QueuedFor
<1>3. \A k \in Q, w \in T : FALSE
  BY DEF Inv, JobsApart, Apart, QueuedFor, TasksOf, Running
<1> HIDE DEF T, Q
<1>4. ASSUME NEW S, \A x, y \in S : x = y
      PROVE  S = {} \/ \E x : S = {x}
  <2>1. ASSUME NEW x \in S PROVE S = {x}
    BY <1>4
  <2> QED  BY <2>1
<1> QED  BY <1>1, <1>2, <1>3, <1>4 DEF T, Q

\* Whatever throws, an executor is never given to two teardowns, queued or
\* running, and no two tasks work on the same one (any_done and the setup and
\* teardown lambdas, mlu_op_gtest.cpp:284-370): JobsApart is what the order of
\* setting been_chosen, in_used and exe buys.
THEOREM ATeardownPerExecutor == Spec => []TornDownOnce
<1>1. Inv /\ PoolProofs!PoolInv => TornDownOnce
  <2> SUFFICES ASSUME Inv, PoolProofs!PoolInv PROVE TornDownOnce
    OBVIOUS
  <2>1. ASSUME NEW p, p \in Slots
        PROVE  Cardinality(TasksOf("teardown", p))
                 + Cardinality(QueuedFor("teardown", p)) <= 1
    <3> DEFINE T == TasksOf("teardown", p)
               Q == QueuedFor("teardown", p)
    <3>1. /\ T = {} \/ \E w : T = {w}
          /\ Q = {} \/ \E k : Q = {k}
          /\ T = {} \/ Q = {}
      BY <2>1, OneTeardown
    <3> HIDE DEF T, Q
    <3>2. /\ Cardinality(T) \in {0, 1} /\ Cardinality(Q) \in {0, 1}
          /\ T = {} => Cardinality(T) = 0
          /\ Q = {} => Cardinality(Q) = 0
      BY <3>1, FS_EmptySet, FS_Singleton
    <3> QED  BY <3>1, <3>2 DEF T, Q
  <2>2. ASSUME NEW v, v \in Workers, NEW w, w \in Workers,
               mine[v] # NoExe, mine[v] = mine[w], v # w
        PROVE  FALSE
    <3>1. /\ Running(v) /\ Running(w)
          /\ JobOK(job[v], step[v], mine[v]) /\ JobOK(job[w], step[w], mine[w])
          /\ Apart(job[v], step[v], mine[v], job[w], step[w], mine[w])
      BY <2>2 DEF Inv, JobsOK, JobsApart
    <3>2. /\ job[v].kind \in {"set_device", "teardown", "setup"}
          /\ job[w].kind \in {"set_device", "teardown", "setup"}
      BY <2>2, <3>1, PoolFacts, JobParts
    <3> QED  BY <2>2, <3>1, <3>2 DEF JobOK, SetupOK, Apart
  <2> QED  BY <2>1, <2>2 DEF TornDownOnce
<1> QED  BY <1>1, SchedulerInvariant, PTL

\* Until a setup throws, no slot is lost and no teardown meets a null executor,
\* although the flags are read without mtx (mlu_op_gtest.cpp:386-409).
THEOREM ReadsWithoutTheMutexDoNoHarm == Spec => []CleanUntilThrow
<1>1. Inv /\ PoolProofs!PoolInv => CleanUntilThrow
  <2> SUFFICES ASSUME Inv, ~threw, NEW p, p \in Slots, Stranded(p)
               PROVE  FALSE
    BY DEF Inv, CleanOK, CleanUntilThrow
  <2>1. SetupAt(p)
    BY DEF Inv, CleanOK, Stranded
  <2>2. TasksOf("setup", p) = {} /\ QueuedFor("setup", p) = {}
    BY DEF Stranded
  <2> QED  BY <2>1, <2>2 DEF SetupAt, TasksOf, QueuedFor, Running
<1> QED  BY <1>1, SchedulerInvariant, PTL

\* A run that ended has no task and no slot in use.
LEMMA AtTheEnd ==
  ASSUME Inv, PoolProofs!PoolInv, mpc \in {"join", "done"}, owner = "joined"
  PROVE  /\ i = NCases /\ tasks = <<>>
         /\ \A w \in Workers : ~Running(w)
         /\ \A p \in Slots : ~in_used[p] /\ exe[p] = NoExe
<1>1. i = NCases /\ \A p \in Slots : ~in_used[p]
  BY DEF Inv, MasterOK
<1>2. tasks = <<>> /\ \A w \in Workers : ~Running(w)
  BY Drained
<1>3. mtx = Nobody
  BY <1>2 DEF Inv, TypeOK, MtxOK
<1>4. \A p \in Slots : exe[p] = NoExe
  BY <1>1, <1>3, NotDropping DEF Inv, SlotsOK
<1> QED  BY <1>1, <1>2, <1>4

\* Whatever throws, when the results are copied no executor is alive on a
\* context that is about to be destroyed (mlu_op_gtest.cpp:416-423).
THEOREM NoExecutorOutlivesTheRun == Spec => []ContextsAreIdle
<1>1. Inv /\ PoolProofs!PoolInv => ContextsAreIdle
  <2> SUFFICES ASSUME Inv, PoolProofs!PoolInv, mpc = "done",
                      NEW p, p \in Slots, NEW c, c \in users[p]
               PROVE  FALSE
    BY DEF ContextsAreIdle
  <2>1. owner = "joined"
    BY DEF Inv, MasterOK
  <2>2. exe[p] = NoExe /\ \A w \in Workers : ~Running(w)
    BY <2>1, AtTheEnd
  <2>3. c \in Cases
    BY DEF Inv, TypeOK
  <2>4. c # NoExe
    BY <2>3, SchedulerAssumption DEF Cases, NoExe
  <2> QED  BY <2>2, <2>4 DEF Inv, UsersOK, UsedBy
<1> QED  BY <1>1, SchedulerInvariant, PTL

\* Every case has its result once the pool has joined its threads and no slot
\* is in use.
LEMMA EveryCaseReported ==
  ASSUME Inv, PoolProofs!PoolInv, mpc = "join", owner = "joined"
  PROVE  \A c \in Cases : results[c] = 1
<1> SUFFICES ASSUME NEW c, c \in Cases PROVE results[c] = 1
  OBVIOUS
<1>1. /\ i = NCases /\ tasks = <<>>
      /\ \A w \in Workers : ~Running(w)
      /\ \A p \in Slots : ~in_used[p] /\ exe[p] = NoExe
  BY AtTheEnd
<1>2. c <= i /\ c # NoExe
  BY <1>1, SchedulerAssumption DEF Cases, NoExe
<1>3. \A p \in Slots : ~Dead(p)
  BY <1>1 DEF Dead
<1>4. Accounted(c)
  BY <1>2, <1>3 DEF Inv, CasesOK
<1>5. ~SetupOf(c) /\ ~TeardownOf(c)
  BY <1>1 DEF SetupOf, TeardownOf
<1> QED  BY <1>1, <1>2, <1>4, <1>5 DEF Accounted

\* A report of a case that had none, in a run that has not ended.
LEMMA ReportsOnce ==
  ASSUME Inv, PoolProofs!PoolInv, NEW w, w \in Workers, Running(w),
         NEW c, c \in Cases, results[c] = 0,
         results' = [results EXCEPT ![c] = @ + 1], UNCHANGED mpc
  PROVE  Runner!Report(c)
<1>1. mpc # "done"
  BY Drained DEF Inv, MasterOK
<1>2. results' = [results EXCEPT ![c] = 1]
  BY DEF Inv, TypeOK
<1> QED  BY <1>1, <1>2 DEF Runner!Report

\* Whatever throws, a run that ends has exactly one result per case:
\* ASSERT_EQ(case_path_vec_.size(), res_.size()) (mlu_op_gtest.cpp:425).  A
\* step is a report of catch (mlu_op_gtest.cpp:365-368) or of a teardown
\* (319-324), the copy of the results, or nothing that the suite sees.
THEOREM OneResultPerCase == Spec => ImplementsCaseRunner
<1>1. Init => Runner!RInit
  BY DEF Init, Runner!RInit
<1>2. Inv /\ PoolProofs!PoolInv /\ [Next]_vars
        => [Runner!RNext]_<<results, mpc = "done">>
  <2> SUFFICES ASSUME Inv, PoolProofs!PoolInv, [Next]_vars
               PROVE  \/ Runner!RNext
                      \/ results' = results /\ (mpc' = "done" <=> mpc = "done")
    OBVIOUS
  <2>1. CASE UNCHANGED vars
    BY <2>1 DEF vars, ctxVars
  <2>2. CASE Collect
    <3>1. mpc = "join" /\ owner = "joined" /\ mpc' = "done" /\ results' = results
      BY <2>2 DEF Collect, ctxVars
    <3> QED  BY <3>1, EveryCaseReported DEF Runner!RNext, Runner!End
  <2>3. CASE SetDevices \/ AnyDone \/ FindIdle \/ WaitFor \/ CheckEnd \/ Notify
    BY <2>3 DEF SetDevices, AnyDone, FindIdle, WaitFor, CheckEnd, Notify, Turn, ctxVars
  <2>4. ASSUME NEW w, w \in Workers, CatchReport(w) PROVE Runner!RNext
    <3> DEFINE c == mine[w]
    <3>1. /\ Runs(w, "setup", "report")
          /\ results' = [results EXCEPT ![c] = @ + 1] /\ UNCHANGED mpc
      BY <2>4 DEF CatchReport
    <3>2. Running(w) /\ JobOK(job[w], "report", mine[w]) /\ job[w] \in Jobs
          /\ job[w].kind = "setup"
      BY <2>4, <3>1, RunsFacts
    <3>3. c = job[w].case /\ results[c] = 0
      BY <3>2 DEF JobOK, SetupOK
    <3>4. c \in Cases
      BY <3>2, <3>3, JobParts
    <3>5. Runner!Report(c)
      BY <2>4, <3>1, <3>2, <3>3, <3>4, ReportsOnce
    <3> QED  BY <3>4, <3>5 DEF Runner!RNext
  <2>5. ASSUME NEW w, w \in Workers, TeardownReport(w) PROVE Runner!RNext
    <3> DEFINE c == mine[w]
    <3>1. /\ Runs(w, "teardown", "report")
          /\ results' = [results EXCEPT ![c] = @ + 1] /\ UNCHANGED mpc
      BY <2>5 DEF TeardownReport
    <3>2. Running(w) /\ JobOK(job[w], "report", mine[w]) /\ job[w].kind = "teardown"
      BY <2>5, <3>1, RunsFacts
    <3>3. c \in Cases /\ results[c] = 0
      BY <3>2 DEF JobOK, TeardownOK, TakenOK
    <3>4. Runner!Report(c)
      BY <2>5, <3>1, <3>2, <3>3, ReportsOnce
    <3> QED  BY <3>3, <3>4 DEF Runner!RNext
  <2>6. ASSUME NEW w, w \in Workers, Task(w), ~CatchReport(w), ~TeardownReport(w)
        PROVE  results' = results /\ mpc' = mpc
    BY <2>6 DEF Task, SetDevice, SetupInit, Launch, Throw, Publish, CatchClear,
      CatchDrop, TeardownTake, TeardownClear, TeardownDrop, ctxVars
  <2>7. ASSUME NEW w, w \in Workers, PoolStep(w)
        PROVE  results' = results /\ mpc' = mpc
    BY <2>7 DEF PoolStep, ctxVars
  <2>8. ASSUME NEW c, c \in Cases, KernelDone(c)
        PROVE  results' = results /\ mpc' = mpc
    BY <2>8 DEF KernelDone, ctxVars
  <2> QED
    BY <2>1, <2>2, <2>3, <2>4, <2>5, <2>6, <2>7, <2>8 DEF Next, Master
<1> QED
  BY <1>1, <1>2, SchedulerInvariant, PTL
  DEF Spec, ImplementsCaseRunner, Runner!RSpec
=============================================================================

----------------------------- MODULE ThreadPool -----------------------------
(***************************************************************************)
(* The thread pool of the test program (pb_gtest/src/thread_pool.cpp): an  *)
(* owner puts tasks in a queue and shuts the pool down, workers take them. *)
(* What a worker or the owner does between taking ctx->mtx and letting it  *)
(* go is one step; the notifications come after the lock is let go and are *)
(* steps of their own.                                                     *)
(***************************************************************************)
EXTENDS Naturals, Sequences, FiniteSets

CONSTANTS
  Workers,      \* the threads of the pool
  Tasks,        \* what can be enqueued
  NoTask,       \* what a worker that runs nothing holds
  MaxQueue      \* bound: the tasks that wait at once

ASSUME ThreadPoolAssumption ==
  /\ Workers # {}
  /\ NoTask \notin Tasks
  /\ MaxQueue \in Nat \ {0}

VARIABLES
  tasks,        \* tasks: the queue
  is_shutdown,  \* is_shutdown
  owner,        \* where the owner is in enqueue() or in the destructor
  at,           \* where each worker is in its loop
  job           \* the task each worker runs

poolVars == <<tasks, is_shutdown, owner, at, job>>

OwnerStates == {"free", "notify", "notify_all", "join", "joined"}

\* "ready" wants the lock, "waiting" is inside cond.wait.
WorkerStates == {"ready", "waiting", "running", "exited"}

PoolInit ==
  /\ tasks = <<>>
  /\ is_shutdown = FALSE
  /\ owner = "free"
  /\ at = [w \in Workers |-> "ready"]
  /\ job = [w \in Workers |-> NoTask]

\* A bug: the notification is forgotten.
MutEmplace(task) ==
  /\ owner = "free"
  /\ ~is_shutdown
  /\ Len(tasks) < MaxQueue
  /\ tasks' = Append(tasks, task)
  /\ UNCHANGED <<is_shutdown, owner, at, job>>

\* enqueue(): the task goes into the queue under the lock.
Emplace(task) ==
  /\ owner = "free"
  /\ ~is_shutdown
  /\ Len(tasks) < MaxQueue
  /\ tasks' = Append(tasks, task)
  /\ owner' = "notify"
  /\ UNCHANGED <<is_shutdown, at, job>>

\* notify_one() wakes one of the waiting workers, if there is one.
NotifyOne ==
  /\ owner = "notify"
  /\ owner' = "free"
  /\ \/ /\ \A w \in Workers : at[w] # "waiting"
        /\ UNCHANGED at
     \/ \E w \in Workers : at[w] = "waiting" /\ at' = [at EXCEPT ![w] = "ready"]
  /\ UNCHANGED <<tasks, is_shutdown, job>>

\* The destructor sets the flag under the lock ...
Shutdown ==
  /\ owner = "free"
  /\ is_shutdown' = TRUE
  /\ owner' = "notify_all"
  /\ UNCHANGED <<tasks, at, job>>

\* A bug: a destructor that wakes one worker only.
MutNotifyAll ==
  /\ owner = "notify_all"
  /\ owner' = "join"
  /\ \/ /\ \A w \in Workers : at[w] # "waiting"
        /\ UNCHANGED at
     \/ \E w \in Workers : at[w] = "waiting" /\ at' = [at EXCEPT ![w] = "ready"]
  /\ UNCHANGED <<tasks, is_shutdown, job>>

\* ... wakes every worker ...
NotifyAll ==
  /\ owner = "notify_all"
  /\ owner' = "join"
  /\ at' = [w \in Workers |-> IF at[w] = "waiting" THEN "ready" ELSE at[w]]
  /\ UNCHANGED <<tasks, is_shutdown, job>>

\* A bug: the destructor waits for one thread instead of all of them.
MutJoin ==
  /\ owner = "join"
  /\ \E w \in Workers : at[w] = "exited"
  /\ owner' = "joined"
  /\ UNCHANGED <<tasks, is_shutdown, at, job>>

\* ... and waits for all of them.
Join ==
  /\ owner = "join"
  /\ \A w \in Workers : at[w] = "exited"
  /\ owner' = "joined"
  /\ UNCHANGED <<tasks, is_shutdown, at, job>>

\* A bug: the flag is looked at before the queue.
MutPoll(w) ==
  /\ at[w] = "ready"
  /\ \/ /\ is_shutdown
        /\ at' = [at EXCEPT ![w] = "exited"]
        /\ UNCHANGED <<tasks, job>>
     \/ /\ ~is_shutdown /\ tasks # <<>>
        /\ job' = [job EXCEPT ![w] = Head(tasks)]
        /\ tasks' = Tail(tasks)
        /\ at' = [at EXCEPT ![w] = "running"]
     \/ /\ ~is_shutdown /\ tasks = <<>>
        /\ at' = [at EXCEPT ![w] = "waiting"]
        /\ UNCHANGED <<tasks, job>>
  /\ UNCHANGED <<is_shutdown, owner>>

\* A bug: the newest task is taken first, as from a stack.
MutPollStack(w) ==
  /\ at[w] = "ready"
  /\ \/ /\ tasks # <<>>
        /\ job' = [job EXCEPT ![w] = tasks[Len(tasks)]]
        /\ tasks' = SubSeq(tasks, 1, Len(tasks) - 1)
        /\ at' = [at EXCEPT ![w] = "running"]
     \/ /\ tasks = <<>> /\ is_shutdown
        /\ at' = [at EXCEPT ![w] = "exited"]
        /\ UNCHANGED <<tasks, job>>
     \/ /\ tasks = <<>> /\ ~is_shutdown
        /\ at' = [at EXCEPT ![w] = "waiting"]
        /\ UNCHANGED <<tasks, job>>
  /\ UNCHANGED <<is_shutdown, owner>>

\* One turn of the worker's loop with the lock held: run the first task, or
\* leave, or wait.
Poll(w) ==
  /\ at[w] = "ready"
  /\ \/ /\ tasks # <<>>
        /\ job' = [job EXCEPT ![w] = Head(tasks)]
        /\ tasks' = Tail(tasks)
        /\ at' = [at EXCEPT ![w] = "running"]
     \/ /\ tasks = <<>> /\ is_shutdown
        /\ at' = [at EXCEPT ![w] = "exited"]
        /\ UNCHANGED <<tasks, job>>
     \/ /\ tasks = <<>> /\ ~is_shutdown
        /\ at' = [at EXCEPT ![w] = "waiting"]
        /\ UNCHANGED <<tasks, job>>
  /\ UNCHANGED <<is_shutdown, owner>>

\* A bug: the worker keeps the task it has run.
MutFinish(w) ==
  /\ at[w] = "running"
  /\ at' = [at EXCEPT ![w] = "ready"]
  /\ UNCHANGED <<tasks, is_shutdown, owner, job>>

\* The task returns and is destroyed.
Finish(w) ==
  /\ at[w] = "running"
  /\ at' = [at EXCEPT ![w] = "ready"]
  /\ job' = [job EXCEPT ![w] = NoTask]
  /\ UNCHANGED <<tasks, is_shutdown, owner>>

\* cond.wait may return with no notification.
SpuriousWake(w) ==
  /\ at[w] = "waiting"
  /\ at' = [at EXCEPT ![w] = "ready"]
  /\ UNCHANGED <<tasks, is_shutdown, owner, job>>

PoolNext ==
  \/ \E task \in Tasks : Emplace(task)
  \/ NotifyOne \/ Shutdown \/ NotifyAll \/ Join
  \/ \E w \in Workers : Poll(w) \/ Finish(w) \/ SpuriousWake(w)

\* Every thread keeps running and every task returns; nobody has to enqueue.
PoolFairness ==
  /\ WF_poolVars(NotifyOne) /\ WF_poolVars(NotifyAll) /\ WF_poolVars(Join)
  /\ \A w \in Workers : WF_poolVars(Poll(w)) /\ WF_poolVars(Finish(w))

PoolSpec == PoolInit /\ [][PoolNext]_poolVars /\ PoolFairness

-----------------------------------------------------------------------------
PoolTypeOK ==
  /\ tasks \in Seq(Tasks)
  /\ is_shutdown \in BOOLEAN
  /\ owner \in OwnerStates
  /\ at \in [Workers -> WorkerStates]
  /\ job \in [Workers -> Tasks \cup {NoTask}]
  /\ \A w \in Workers : job[w] # NoTask <=> at[w] = "running"

\* No wake-up is lost though the notifications come with the lock let go: when
\* a task waits, a worker is awake or the owner is about to wake one, and once
\* the pool shuts down nobody is left asleep (thread_pool.h:61-66,
\* thread_pool.cpp:36-49, 63).
NoLostWakeup ==
  /\ tasks # <<>> => \/ owner \in {"notify", "notify_all"}
                     \/ \E w \in Workers : at[w] \in {"ready", "running"}
  /\ owner \in {"join", "joined"} => \A w \in Workers : at[w] # "waiting"

\* When the destructor returns the queue is empty and no task is under way: a
\* caller may read what the tasks wrote (thread_pool.cpp:55-67).
JoinedIsDrained ==
  owner = "joined" => tasks = <<>> /\ \A w \in Workers : at[w] # "running"

\* Every task enqueued is run, though others come after it.
TasksAreRun ==
  \A x \in Tasks : (\E i \in 1..Len(tasks) : tasks[i] = x)
                     ~> (\E w \in Workers : job[w] = x)

\* The destructor returns.
ShutdownEnds == is_shutdown ~> (owner = "joined")
=============================================================================

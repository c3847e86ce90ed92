--------------------------- MODULE TestScheduler ---------------------------
(***************************************************************************)
(* The multi-threaded run of a test suite, TestSuite::ThreadX: a master    *)
(* gives each case a slot, a worker sets the case up there and launches    *)
(* its kernel, the master polls the slots for kernels that are done, and a *)
(* worker tears the case down and frees the slot.  The master and the      *)
(* workers share the slots, in part under Context::mtx and in part not.    *)
(***************************************************************************)
EXTENDS Naturals, Sequences, FiniteSets

CONSTANTS
  Workers,      \* the threads of the pool
  Slots,        \* the places of exe_vec, 1..n (1.5 per thread in the code)
  NCases,       \* the number of cases, launched in the order 1..NCases
  Throwing,     \* the cases whose setup may throw
  Nobody,       \* no worker, no task
  MaxQueue      \* bound: the tasks the pool holds at once

Cases == 1..NCases

\* The value of a slot's exe when it holds no executor.
NoExe == 0

Jobs == [kind : {"set_device"}] \cup [kind : {"teardown"}, pos : Slots]
        \cup [kind : {"setup"}, pos : Slots, case : Cases]

ASSUME SchedulerAssumption ==
  /\ NCases \in Nat \ {0}
  /\ Slots # {} /\ Slots \subseteq Nat
  /\ Throwing \subseteq Cases
  /\ Workers # {}
  /\ Nobody \notin Workers \cup Jobs
  /\ MaxQueue \in Nat \ {0}

VARIABLES
  \* the thread pool
  tasks, is_shutdown, owner, at, job,
  \* the slots: ExecutorWrap, and who uses the ExecuteContext of the slot
  exe,          \* exe: the executor of which case the slot holds, or NoExe
  been_chosen,  \* been_chosen
  in_used,      \* in_used
  users,        \* the cases whose executor is alive on the slot's context
  \* the rest of Context
  mtx,          \* mtx: the worker that holds it over several steps, or Nobody
  been_initialized, \* been_initialized
  results,      \* results: how often each case is in the list
  \* the threads
  mpc,          \* where the master is in its loops
  i,            \* i: the number of cases launched
  step,         \* where each worker is in its task
  mine,         \* the executor a worker's local exe points to, or NoExe
  \* the rest of the process
  kernel,       \* the kernel of each case on the device
  crashed,      \* a null executor was dereferenced
  threw         \* a setup has thrown (read by the properties only)

Pool == INSTANCE ThreadPool WITH Tasks <- Jobs, NoTask <- Nobody

poolVars == <<tasks, is_shutdown, owner, at, job>>
slotVars == <<exe, been_chosen, in_used, users>>
ctxVars == <<mtx, been_initialized, results>>
restVars == <<kernel, crashed, threw>>
vars == <<poolVars, slotVars, ctxVars, mpc, i, step,
          mine, restVars>>

Ready(p) == exe[p] # NoExe /\ ~been_chosen[p] /\ kernel[exe[p]] = "done"

\* find_if takes the first that satisfies it.
First(P) == CHOOSE p \in P : \A q \in P : p <= q

Init ==
  /\ Pool!PoolInit
  /\ exe = [p \in Slots |-> NoExe]
  /\ been_chosen = [p \in Slots |-> FALSE]
  /\ in_used = [p \in Slots |-> FALSE]
  /\ users = [p \in Slots |-> {}]
  /\ mtx = Nobody
  /\ been_initialized = {}
  /\ results = [c \in Cases |-> 0]
  /\ mpc = "device"
  /\ i = 0
  /\ step = [w \in Workers |-> "start"]
  /\ mine = [w \in Workers |-> NoExe]
  /\ kernel = [c \in Cases |-> "none"]
  /\ crashed = FALSE
  /\ threw = FALSE

-----------------------------------------------------------------------------
(* The master *)

\* The master has come to this point of its loop and is not inside enqueue().
Turn(point) == mpc = point /\ owner = "free" /\ ~crashed

\* Tasks that set the device are enqueued until every worker has run one.
SetDevices ==
  /\ Turn("device")
  /\ \/ /\ Cardinality(been_initialized) < Cardinality(Workers)
        /\ Pool!Emplace([kind |-> "set_device"])
        /\ UNCHANGED mpc
     \/ /\ Cardinality(been_initialized) = Cardinality(Workers)
        /\ mpc' = "pick"
        /\ UNCHANGED poolVars
  /\ UNCHANGED <<slotVars, ctxVars, i, step, mine, restVars>>

\* A bug: the chosen executor is not marked, and may be chosen again.
MutAnyDone ==
  /\ Turn("pick") /\ mtx = Nobody
  /\ LET done == {p \in Slots : Ready(p)}
     IN  \/ /\ done # {}
            /\ Pool!Emplace([kind |-> "teardown", pos |-> First(done)])
            /\ mpc' = "check"
            /\ UNCHANGED been_chosen
         \/ /\ done = {}
            /\ mpc' = "scan"
            /\ UNCHANGED <<poolVars, been_chosen>>
  /\ UNCHANGED <<exe, in_used, users, ctxVars, i, step, mine, restVars>>

\* any_done under mtx, and the teardown of what it found is enqueued.
AnyDone ==
  /\ Turn("pick") /\ mtx = Nobody
  /\ LET done == {p \in Slots : Ready(p)}
     IN  \/ /\ done # {}
            /\ been_chosen' = [been_chosen EXCEPT ![First(done)] = TRUE]
            /\ Pool!Emplace([kind |-> "teardown", pos |-> First(done)])
            /\ mpc' = "check"
         \/ /\ done = {}
            /\ mpc' = "scan"
            /\ UNCHANGED <<poolVars, been_chosen>>
  /\ UNCHANGED <<exe, in_used, users, ctxVars, i, step, mine, restVars>>

\* The first free slot, read without mtx, is given to the next case; with no
\* slot or no case left the master waits.
FindIdle ==
  /\ Turn("scan")
  /\ LET idle == {p \in Slots : ~in_used[p]}
     IN  \/ /\ idle # {} /\ i < NCases
            /\ in_used' = [in_used EXCEPT ![First(idle)] = TRUE]
            /\ Pool!Emplace([kind |-> "setup", pos |-> First(idle), case |-> i + 1])
            /\ i' = i + 1
            /\ mpc' = "check"
         \/ /\ idle = {} \/ i = NCases
            /\ mpc' = "wait"
            /\ UNCHANGED <<poolVars, in_used, i>>
  /\ UNCHANGED <<exe, been_chosen, users, ctxVars, step, mine, restVars>>

\* wait_for returns when an executor is ready, when it is notified or after
\* its millisecond: at any time mtx can be had.
WaitFor ==
  /\ Turn("wait") /\ mtx = Nobody
  /\ mpc' = "check"
  /\ UNCHANGED <<poolVars, slotVars, ctxVars, i, step, mine, restVars>>

\* A bug: the run ends when the last case is launched.
MutCheckEnd ==
  /\ Turn("check")
  /\ \/ /\ i = NCases
        /\ Pool!Shutdown
        /\ mpc' = "join"
     \/ /\ i < NCases
        /\ mpc' = "pick"
        /\ UNCHANGED poolVars
  /\ UNCHANGED <<slotVars, ctxVars, i, step, mine, restVars>>

\* The loop ends when all cases are launched and all slots, read without mtx,
\* are free; then the pool is destroyed.
CheckEnd ==
  /\ Turn("check")
  /\ \/ /\ i = NCases /\ \A p \in Slots : ~in_used[p]
        /\ Pool!Shutdown
        /\ mpc' = "join"
     \/ /\ i < NCases \/ \E p \in Slots : in_used[p]
        /\ mpc' = "pick"
        /\ UNCHANGED poolVars
  /\ UNCHANGED <<slotVars, ctxVars, i, step, mine, restVars>>

\* A bug: the results are copied before the pool has joined its threads.
MutCollect ==
  /\ mpc = "join" /\ ~crashed
  /\ mpc' = "done"
  /\ UNCHANGED <<poolVars, slotVars, ctxVars, i, step, mine, restVars>>

\* The results are copied once the pool has joined its threads.
Collect ==
  /\ mpc = "join" /\ owner = "joined" /\ ~crashed
  /\ mpc' = "done"
  /\ UNCHANGED <<poolVars, slotVars, ctxVars, i, step, mine, restVars>>

Notify ==
  /\ ~crashed
  /\ Pool!NotifyOne \/ Pool!NotifyAll \/ Pool!Join
  /\ UNCHANGED <<slotVars, ctxVars, mpc, i, step, mine, restVars>>

Master == SetDevices \/ AnyDone \/ FindIdle \/ WaitFor \/ CheckEnd \/ Collect \/ Notify

-----------------------------------------------------------------------------
(* The workers *)

Runs(w, kind, s) ==
  at[w] = "running" /\ job[w].kind = kind /\ step[w] = s /\ ~crashed

Goto(w, s) == step' = [step EXCEPT ![w] = s] /\ UNCHANGED poolVars

\* The task returns; its local exe goes out of scope.
Return(w) ==
  /\ Pool!Finish(w)
  /\ step' = [step EXCEPT ![w] = "start"]
  /\ mine' = [mine EXCEPT ![w] = NoExe]

\* set_device, under mtx.
SetDevice(w) ==
  /\ Runs(w, "set_device", "start") /\ mtx = Nobody
  /\ been_initialized' = been_initialized \cup {w}
  /\ Return(w)
  /\ UNCHANGED <<slotVars, mtx, results, mpc, i, restVars>>

\* setup: the executor is created and bound to the context of its slot.
SetupInit(w) ==
  LET p == job[w].pos  c == job[w].case
  IN
  /\ Runs(w, "setup", "start")
  /\ users' = [users EXCEPT ![p] = @ \cup {c}]
  /\ mine' = [mine EXCEPT ![w] = c]
  /\ Goto(w, "launch")
  /\ UNCHANGED <<exe, been_chosen, in_used, ctxVars, mpc, i, restVars>>

\* setup: the case is read, its memory filled and its kernel launched ...
Launch(w) ==
  /\ Runs(w, "setup", "launch")
  /\ kernel' = [kernel EXCEPT ![mine[w]] = "running"]
  /\ Goto(w, "publish")
  /\ UNCHANGED <<slotVars, ctxVars, mpc, i, mine, crashed, threw>>

\* ... or an exception leads to the catch block, which resets the context.
Throw(w) ==
  /\ Runs(w, "setup", "launch")
  /\ mine[w] \in Throwing
  /\ threw' = TRUE
  /\ Goto(w, "catch")
  /\ UNCHANGED <<slotVars, ctxVars, mpc, i, mine, kernel, crashed>>

\* A bug: the executor is not put in its slot.
MutPublish(w) ==
  LET p == job[w].pos
  IN
  /\ Runs(w, "setup", "publish") /\ mtx = Nobody
  /\ users' = [users EXCEPT ![p] = @ \ {exe[p]}]
  /\ Return(w)
  /\ UNCHANGED <<exe, been_chosen, in_used, ctxVars, mpc, i, restVars>>

\* setup: the executor is put in its slot under mtx.  One that is there is
\* destroyed.
Publish(w) ==
  LET p == job[w].pos
  IN
  /\ Runs(w, "setup", "publish") /\ mtx = Nobody
  /\ exe' = [exe EXCEPT ![p] = mine[w]]
  /\ users' = [users EXCEPT ![p] = @ \ {exe[p]}]
  /\ Return(w)
  /\ UNCHANGED <<been_chosen, in_used, ctxVars, mpc, i, restVars>>

\* A teardown has taken this executor and not yet let go of it.
Taken(c) == \E v \in Workers : step[v] = "evaluate" /\ mine[v] = c

\* A bug: reset() forgets the mark of the last choice.
MutClearFlags(p) ==
  /\ in_used' = [in_used EXCEPT ![p] = FALSE]
  /\ UNCHANGED been_chosen

\* ExecutorWrap::reset() first clears the flags, which the master reads ...
ClearFlags(p) ==
  /\ been_chosen' = [been_chosen EXCEPT ![p] = FALSE]
  /\ in_used' = [in_used EXCEPT ![p] = FALSE]

\* ... then drops the executor, whose destructor uses the slot's context, when
\* no teardown shares it.
DropExe(p) ==
  /\ exe' = [exe EXCEPT ![p] = NoExe]
  /\ users' = [users EXCEPT ![p] = {c \in @ : c = exe[p] => Taken(c)}]

\* The catch block of setup calls reset() without mtx: the flags ...
CatchClear(w) ==
  /\ Runs(w, "setup", "catch")
  /\ ClearFlags(job[w].pos)
  /\ Goto(w, "catch_drop")
  /\ UNCHANGED <<exe, users, ctxVars, mpc, i, mine, restVars>>

\* ... and whatever executor the slot now holds.
CatchDrop(w) ==
  /\ Runs(w, "setup", "catch_drop")
  /\ DropExe(job[w].pos)
  /\ Goto(w, "report")
  /\ UNCHANGED <<been_chosen, in_used, ctxVars, mpc, i, mine, restVars>>

\* The failed case is reported under mtx, and its executor destroyed when the
\* task returns.
CatchReport(w) ==
  LET p == job[w].pos  c == mine[w]
  IN
  /\ Runs(w, "setup", "report") /\ mtx = Nobody
  /\ results' = [results EXCEPT ![c] = @ + 1]
  /\ users' = [users EXCEPT ![p] = @ \ {c}]
  /\ Return(w)
  /\ UNCHANGED <<exe, been_chosen, in_used, mtx, been_initialized, mpc, i, restVars>>

\* teardown takes the executor of its slot; a null one is dereferenced.
TeardownTake(w) ==
  LET c == exe[job[w].pos]
  IN
  /\ Runs(w, "teardown", "start")
  /\ crashed' = (c = NoExe)
  /\ mine' = [mine EXCEPT ![w] = c]
  /\ Goto(w, "evaluate")
  /\ UNCHANGED <<slotVars, ctxVars, mpc, i, kernel, threw>>

\* teardown: sync waits for the kernel, the result is computed and the local
\* exe reset.  The slot is reset with mtx held: its flags ...
TeardownClear(w) ==
  /\ Runs(w, "teardown", "evaluate") /\ mtx = Nobody
  /\ kernel[mine[w]] = "done"
  /\ mtx' = w
  /\ ClearFlags(job[w].pos)
  /\ users' = [users EXCEPT ![job[w].pos] =
                 IF exe[job[w].pos] = mine[w] THEN @ ELSE @ \ {mine[w]}]
  /\ Goto(w, "drop")
  /\ UNCHANGED <<exe, been_initialized, results, mpc, i, mine, restVars>>

\* ... then its executor ...
TeardownDrop(w) ==
  /\ Runs(w, "teardown", "drop")
  /\ DropExe(job[w].pos)
  /\ Goto(w, "report")
  /\ UNCHANGED <<been_chosen, in_used, ctxVars, mpc, i, mine, restVars>>

\* ... the result is pushed and mtx let go.
TeardownReport(w) ==
  /\ Runs(w, "teardown", "report")
  /\ results' = [results EXCEPT ![mine[w]] = @ + 1]
  /\ mtx' = Nobody
  /\ Return(w)
  /\ UNCHANGED <<slotVars, been_initialized, mpc, i, restVars>>

\* The pool's own steps.
PoolStep(w) ==
  /\ ~crashed
  /\ Pool!Poll(w) \/ Pool!SpuriousWake(w)
  /\ UNCHANGED <<slotVars, ctxVars, mpc, i, step, mine, restVars>>

Task(w) ==
  \/ SetDevice(w)
  \/ SetupInit(w) \/ Launch(w) \/ Throw(w) \/ Publish(w)
  \/ CatchClear(w) \/ CatchDrop(w) \/ CatchReport(w)
  \/ TeardownTake(w) \/ TeardownClear(w) \/ TeardownDrop(w) \/ TeardownReport(w)

\* The device ends a kernel.
KernelDone(c) ==
  /\ kernel[c] = "running" /\ ~crashed
  /\ kernel' = [kernel EXCEPT ![c] = "done"]
  /\ UNCHANGED <<poolVars, slotVars, ctxVars, mpc, i, step, mine, crashed, threw>>

Next ==
  \/ Master
  \/ \E w \in Workers : Task(w) \/ PoolStep(w)
  \/ \E c \in Cases : KernelDone(c)

\* Every thread keeps running, a mutex is let go and had, a kernel ends.
Fairness ==
  /\ WF_vars(Master)
  /\ \A w \in Workers : /\ WF_vars(Task(w))
                        /\ WF_vars(at[w] = "ready" /\ PoolStep(w))
  /\ \A c \in Cases : WF_vars(KernelDone(c))

Spec == Init /\ [][Next]_vars /\ Fairness

-----------------------------------------------------------------------------
TasksOf(kind, p) ==
  {w \in Workers : at[w] = "running" /\ job[w].kind = kind /\ job[w].pos = p}

QueuedFor(kind, p) ==
  {k \in 1..Len(tasks) : tasks[k].kind = kind /\ tasks[k].pos = p}

\* The same executor is never given to two teardowns, also when a setup threw
\* and cleared the flags of a slot another case is in (any_done,
\* mlu_op_gtest.cpp:284-296).
TornDownOnce ==
  /\ \A p \in Slots :
       Cardinality(TasksOf("teardown", p)) + Cardinality(QueuedFor("teardown", p)) <= 1
  /\ \A v, w \in Workers :
       mine[v] # NoExe /\ mine[v] = mine[w] => v = w

\* A slot is lost: it is marked in use, and no task and no executor is left
\* whose teardown would free it.
Stranded(p) ==
  /\ in_used[p] /\ exe[p] = NoExe
  /\ \A kind \in {"setup", "teardown"} : TasksOf(kind, p) \cup QueuedFor(kind, p) = {}

\* As long as no setup throws, no slot is lost and no teardown finds its slot
\* empty: the reads without mtx do no harm to the bookkeeping.
CleanUntilThrow ==
  ~threw => /\ ~crashed
            /\ \A p \in Slots : ~Stranded(p)
            /\ \A p \in Slots : been_chosen[p] => exe[p] # NoExe

\* When the results are copied every executor has been destroyed: nothing is
\* left on a context the run is about to destroy (mlu_op_gtest.cpp:416-423).
ContextsAreIdle == mpc = "done" => \A p \in Slots : users[p] = {}

\* Whatever throws, a run that ends has one result per case:
\* ASSERT_EQ(case_path_vec_.size(), res_.size()) (mlu_op_gtest.cpp:425).
Runner == INSTANCE CaseRunner WITH reports <- results, ended <- (mpc = "done")
ImplementsCaseRunner == Runner!RSpec

\* Once all devices are set the run ends, or a slot is lost for good, or the
\* process is gone: nothing else keeps the master in its loop.
EndsOrStrands ==
  (mpc = "pick") ~> (mpc = "done" \/ crashed \/ \E p \in Slots : Stranded(p))

\* "ASSERT_EQ(case_path_vec_.size(), res_.size())" (mlu_op_gtest.cpp:425): the
\* run comes to the point where every case has its result.
RunEnds == (mpc = "pick") ~> (mpc = "done")
=============================================================================

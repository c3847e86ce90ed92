------------------------- MODULE ThreadPool_proofs -------------------------
(***************************************************************************)
(* The safety of the thread pool for any number of workers and any tasks.  *)
(***************************************************************************)
EXTENDS ThreadPool, SequenceTheorems, TLAPS

(***************************************************************************)
(* NoLostWakeup is not inductive: it needs that a worker leaves only a     *)
(* pool that is shut down and empty, and that such a pool stays empty.     *)
(***************************************************************************)
ShutIsShut == is_shutdown <=> owner \in {"notify_all", "join", "joined"}

ExitsWhenDrained ==
  (\E w \in Workers : at[w] = "exited") => is_shutdown /\ tasks = <<>>

JoinedIsLeft == owner = "joined" => \A w \in Workers : at[w] = "exited"

PoolInv ==
  /\ PoolTypeOK
  /\ ShutIsShut
  /\ ExitsWhenDrained
  /\ JoinedIsLeft
  /\ NoLostWakeup

LEMMA PoolInitInv == PoolInit => PoolInv
<1> SUFFICES ASSUME PoolInit PROVE PoolInv
  OBVIOUS
<1> USE DEF PoolInit
<1>1. PoolTypeOK
  <2>1. tasks \in Seq(Tasks)
    BY EmptySeq
  <2>2. job \in [Workers -> Tasks \cup {NoTask}]
    OBVIOUS
  <2>3. at \in [Workers -> WorkerStates] /\ owner \in OwnerStates
    BY DEF OwnerStates, WorkerStates
  <2>4. is_shutdown \in BOOLEAN
    OBVIOUS
  <2>5. \A w \in Workers : job[w] # NoTask <=> at[w] = "running"
    OBVIOUS
  <2> QED  BY <2>1, <2>2, <2>3, <2>4, <2>5 DEF PoolTypeOK
<1>2. ShutIsShut
  BY DEF ShutIsShut
<1>3. ExitsWhenDrained /\ JoinedIsLeft /\ NoLostWakeup
  BY DEF ExitsWhenDrained, JoinedIsLeft, NoLostWakeup
<1> QED  BY <1>1, <1>2, <1>3 DEF PoolInv

LEMMA PoolNextInv == PoolInv /\ [PoolNext]_poolVars => PoolInv'
<1> SUFFICES ASSUME PoolInv, [PoolNext]_poolVars PROVE PoolInv'
  OBVIOUS
<1> USE ThreadPoolAssumption
    DEF PoolInv, PoolTypeOK, ShutIsShut, ExitsWhenDrained, JoinedIsLeft,
        OwnerStates, WorkerStates
<1>1. ASSUME NEW task \in Tasks, Emplace(task) PROVE PoolInv'
  <2>1. tasks' \in Seq(Tasks)
    BY <1>1, AppendProperties DEF Emplace
  <2> QED  BY <1>1, <2>1 DEF Emplace, NoLostWakeup
<1>2. CASE NotifyOne
  <2>1. PoolTypeOK' /\ ShutIsShut' /\ ExitsWhenDrained' /\ JoinedIsLeft'
    BY <1>2 DEF NotifyOne
  <2>2. \A w \in Workers : at[w] # "exited"
    BY <1>2 DEF NotifyOne
  <2>3. NoLostWakeup'
    <3>1. CASE UNCHANGED at /\ \A w \in Workers : at[w] # "waiting"
      BY <1>2, <2>2, <3>1 DEF NotifyOne, NoLostWakeup
    <3>2. CASE \E w \in Workers : at' = [at EXCEPT ![w] = "ready"]
      BY <1>2, <3>2 DEF NotifyOne, NoLostWakeup
    <3> QED  BY <1>2, <3>1, <3>2 DEF NotifyOne
  <2> QED  BY <2>1, <2>3
<1>3. CASE Shutdown
  BY <1>3 DEF Shutdown, NoLostWakeup
<1>4. CASE NotifyAll
  <2>1. PoolTypeOK' /\ ShutIsShut' /\ ExitsWhenDrained' /\ JoinedIsLeft'
    BY <1>4 DEF NotifyAll
  <2>2. \A w \in Workers : at'[w] \in {"ready", "running", "exited"}
    BY <1>4 DEF NotifyAll
  <2>3. tasks' # <<>> => \A w \in Workers : at'[w] # "exited"
    BY <1>4 DEF NotifyAll
  <2> QED  BY <1>4, <2>1, <2>2, <2>3 DEF NoLostWakeup
<1>5. CASE Join
  BY <1>5 DEF Join, NoLostWakeup
<1>6. ASSUME NEW w \in Workers, Poll(w) PROVE PoolInv'
  <2>1. CASE tasks # <<>>
    <3>1. Head(tasks) \in Tasks /\ tasks' \in Seq(Tasks)
      <4>1. tasks \in Seq(Tasks) /\ tasks' = Tail(tasks)
        BY <1>6, <2>1 DEF Poll
      <4> QED  BY <2>1, <4>1, HeadTailProperties
    <3>2. /\ job' = [job EXCEPT ![w] = Head(tasks)]
          /\ at' = [at EXCEPT ![w] = "running"]
          /\ UNCHANGED <<is_shutdown, owner>>
      BY <1>6, <2>1 DEF Poll
    <3>3. at[w] = "ready"
      BY <1>6 DEF Poll
    <3>4. PoolTypeOK'
      BY <3>1, <3>2
    <3>5. ShutIsShut' /\ JoinedIsLeft' /\ ExitsWhenDrained'
      BY <2>1, <3>2, <3>3
    <3>6. NoLostWakeup'
      BY <3>2, <3>3 DEF NoLostWakeup
    <3> QED  BY <3>4, <3>5, <3>6
  <2>2. CASE tasks = <<>> /\ is_shutdown
    BY <1>6, <2>2 DEF Poll, NoLostWakeup
  <2>3. CASE tasks = <<>> /\ ~is_shutdown
    BY <1>6, <2>3 DEF Poll, NoLostWakeup
  <2> QED  BY <2>1, <2>2, <2>3
<1>7. ASSUME NEW w \in Workers, Finish(w) PROVE PoolInv'
  BY <1>7 DEF Finish, NoLostWakeup
<1>8. ASSUME NEW w \in Workers, SpuriousWake(w) PROVE PoolInv'
  BY <1>8 DEF SpuriousWake, NoLostWakeup
<1>9. CASE UNCHANGED poolVars
  BY <1>9 DEF poolVars, NoLostWakeup
<1> QED
  BY <1>1, <1>2, <1>3, <1>4, <1>5, <1>6, <1>7, <1>8, <1>9 DEF PoolNext

\* The queue holds tasks, and a worker has a task exactly while it runs one
\* (thread_pool.cpp:31-48).
THEOREM PoolTyping == PoolSpec => []PoolTypeOK
<1>1. PoolSpec => []PoolInv
  BY PoolInitInv, PoolNextInv, PTL DEF PoolSpec
<1>2. PoolInv => PoolTypeOK
  BY DEF PoolInv
<1> QED  BY <1>1, <1>2, PTL

\* A task in the queue always has a worker awake, or one about to be woken,
\* and no worker sleeps through the shutdown.
THEOREM WakeupsAreKept == PoolSpec => []NoLostWakeup
<1>1. PoolSpec => []PoolInv
  BY PoolInitInv, PoolNextInv, PTL DEF PoolSpec
<1>2. PoolInv => NoLostWakeup
  BY DEF PoolInv
<1> QED  BY <1>1, <1>2, PTL

\* What the destructor leaves behind is an empty queue and no running task.
THEOREM DestructorDrains == PoolSpec => []JoinedIsDrained
<1>1. PoolSpec => []PoolInv
  BY PoolInitInv, PoolNextInv, PTL DEF PoolSpec
<1>2. PoolInv => JoinedIsDrained
  BY ThreadPoolAssumption
  DEF PoolInv, JoinedIsDrained, JoinedIsLeft, ExitsWhenDrained
<1> QED  BY <1>1, <1>2, PTL
=============================================================================

--------------------------- MODULE DescriptorPool ---------------------------
(***************************************************************************)
(* The pool of tensor descriptors of src/core/tensor.cpp: a deque of free  *)
(* structs, filled by malloc in growing extensions and guarded by a spin   *)
(* lock, behind mluOpCreateTensorDescriptor, its group form and the two    *)
(* destroy calls, called by any number of threads.                         *)
(*                                                                         *)
(* A struct is the number of its allocation: the structs malloc has given  *)
(* are 1..allocated.                                                       *)
(***************************************************************************)
EXTENDS Integers, Sequences, FiniteSets

CONSTANTS
  Threads,        \* the threads that call the library
  NoThread,       \* the value of a lock nobody holds
  FirstExtend,    \* the size of the first extension (128 in the code)
  MaxGroup,       \* bound: the largest desc_num of a group call
  MaxLive         \* bound: the descriptors callers hold or ask for at once

ASSUME PoolAssumption ==
  /\ NoThread \notin Threads
  /\ FirstExtend \in Nat \ {0}
  /\ MaxGroup \in Nat \ {0}
  /\ MaxLive \in Nat

VARIABLES
  lock,        \* flag: the thread inside the critical section, or NoThread
  queue,       \* queue: the free structs, front first
  allocated,   \* the structs of all headers
  extendNum,   \* extend_num: the size of the next extension
  live,        \* the descriptors handed to callers and not yet given back
  content,     \* what the memory of each struct holds
  pc,          \* where each thread is in its call
  left,        \* how many structs its call still has to take
  hand,        \* the structs its call has taken, or has still to put back
  builds       \* whether its call constructs what it takes

vars == <<lock, queue, allocated, extendNum, live, content, pc, left, hand,
          builds>>

(***************************************************************************)
(* "raw" is memory as malloc returns it, "fresh" a default-constructed     *)
(* mluOpTensorStruct, "set" one a setter has written, and "dead" the       *)
(* memory of one whose destructor has run.                                 *)
(***************************************************************************)
Contents == {"raw", "fresh", "set", "dead"}

PCs == {"idle", "grow", "take", "pop", "put", "unlock"}

Free == {queue[i] : i \in 1..Len(queue)}

Larger(a, b) == IF a > b THEN a ELSE b

\* A bug: extend's loop runs once too often.
MutPushed(n) == [i \in 1..n + 1 |-> allocated + n + 2 - i] \o queue

\* The pool after extend(n): n structs pushed to the front one by one, the
\* last of the new header foremost.
Pushed(n) == [i \in 1..n |-> allocated + n + 1 - i] \o queue

Outstanding == Cardinality(live) + Cardinality(UNION {hand[t] : t \in Threads})

-----------------------------------------------------------------------------
Init ==
  /\ lock = NoThread
  /\ queue = [i \in 1..FirstExtend |-> FirstExtend + 1 - i]
  /\ allocated = FirstExtend
  /\ extendNum = 2 * FirstExtend
  /\ live = {}
  /\ content = [d \in 1..FirstExtend |-> "raw"]
  /\ pc = [t \in Threads |-> "idle"]
  /\ left = [t \in Threads |-> 0]
  /\ hand = [t \in Threads |-> {}]
  /\ builds = [t \in Threads |-> FALSE]

\* The bug a plain load and store in lock() would be: the flag is not tested.
BargeIn(t, step) ==
  /\ pc[t] = "idle"
  /\ lock' = t
  /\ pc' = [pc EXCEPT ![t] = step]

\* lock(): the spin ends on a test_and_set that finds the flag clear.
Acquire(t, step) ==
  /\ pc[t] = "idle"
  /\ lock = NoThread
  /\ lock' = t
  /\ pc' = [pc EXCEPT ![t] = step]

\* mluOpCreateTensorDescriptor, up to its lock.
Create(t) ==
  /\ Outstanding < MaxLive
  /\ Acquire(t, "grow")
  /\ left' = [left EXCEPT ![t] = 1]
  /\ builds' = [builds EXCEPT ![t] = TRUE]
  /\ UNCHANGED <<queue, allocated, extendNum, live, content, hand>>

\* mluOpCreateGroupTensorDescriptors for n descriptors, up to its lock.
CreateGroup(t, n) ==
  /\ Outstanding + n <= MaxLive
  /\ Acquire(t, "grow")
  /\ left' = [left EXCEPT ![t] = n]
  /\ builds' = [builds EXCEPT ![t] = FALSE]
  /\ UNCHANGED <<queue, allocated, extendNum, live, content, hand>>

\* A bug: the pool is extended when it is empty only, whatever is asked for.
MutGrowWhenEmpty(t) ==
  LET n == Larger(extendNum, left[t])
  IN
  /\ pc[t] = "grow"
  /\ IF queue = <<>>
     THEN /\ queue' = Pushed(n)
          /\ allocated' = allocated + n
          /\ extendNum' = 2 * n
          /\ content' = [d \in 1..allocated + n |->
                           IF d <= allocated THEN content[d] ELSE "raw"]
     ELSE UNCHANGED <<queue, allocated, extendNum, content>>
  /\ pc' = [pc EXCEPT ![t] = "take"]
  /\ UNCHANGED <<lock, live, left, hand, builds>>

\* A bug: extend_num is doubled from its old value, not from what was added.
MutGrowForgetsRequest(t) ==
  LET n == Larger(extendNum, left[t])
  IN
  /\ pc[t] = "grow"
  /\ IF Len(queue) < left[t]
     THEN /\ queue' = Pushed(n)
          /\ allocated' = allocated + n
          /\ extendNum' = 2 * extendNum
          /\ content' = [d \in 1..allocated + n |->
                           IF d <= allocated THEN content[d] ELSE "raw"]
     ELSE UNCHANGED <<queue, allocated, extendNum, content>>
  /\ pc' = [pc EXCEPT ![t] = "take"]
  /\ UNCHANGED <<lock, live, left, hand, builds>>

\* The pool is extended when it holds fewer structs than the call needs.  The
\* single create asks for extend_num, which is at least the one it needs.
Grow(t) ==
  LET n == Larger(extendNum, left[t])
  IN
  /\ pc[t] = "grow"
  /\ IF Len(queue) < left[t]
     THEN /\ queue' = Pushed(n)
          /\ allocated' = allocated + n
          /\ extendNum' = 2 * n
          /\ content' = [d \in 1..allocated + n |->
                           IF d <= allocated THEN content[d] ELSE "raw"]
     ELSE UNCHANGED <<queue, allocated, extendNum, content>>
  /\ pc' = [pc EXCEPT ![t] = "take"]
  /\ UNCHANGED <<lock, live, left, hand, builds>>

\* front() is written to the caller's pointer, constructed in place by the
\* single create only.
Take(t) ==
  LET d == queue[1]
  IN
  /\ pc[t] = "take"
  /\ queue # <<>>
  /\ hand' = [hand EXCEPT ![t] = @ \cup {d}]
  /\ content' = IF builds[t] THEN [content EXCEPT ![d] = "fresh"] ELSE content
  /\ pc' = [pc EXCEPT ![t] = "pop"]
  /\ UNCHANGED <<lock, queue, allocated, extendNum, live, left, builds>>

\* A bug: the loop runs once too often round front() without popping.
MutPopKeepsFront(t) ==
  /\ pc[t] = "pop"
  /\ queue # <<>>
  /\ queue' = IF left[t] > 1 THEN Tail(queue) ELSE queue
  /\ left' = [left EXCEPT ![t] = @ - 1]
  /\ pc' = [pc EXCEPT ![t] = IF left[t] = 1 THEN "unlock" ELSE "take"]
  /\ UNCHANGED <<lock, allocated, extendNum, live, content, hand, builds>>

\* pop_front().
Pop(t) ==
  /\ pc[t] = "pop"
  /\ queue # <<>>
  /\ queue' = Tail(queue)
  /\ left' = [left EXCEPT ![t] = @ - 1]
  /\ pc' = [pc EXCEPT ![t] = IF left[t] = 1 THEN "unlock" ELSE "take"]
  /\ UNCHANGED <<lock, allocated, extendNum, live, content, hand, builds>>

\* mluOpDestroyTensorDescriptor and its group form, up to their lock.  The
\* caller destroys descriptors it holds, each once.
Destroy(t, S) ==
  /\ S # {}
  /\ S \subseteq live
  /\ Acquire(t, "put")
  /\ live' = live \ S
  /\ hand' = [hand EXCEPT ![t] = S]
  /\ UNCHANGED <<queue, allocated, extendNum, content, left, builds>>

\* A bug: the struct goes back to the pool with no destructor call.
MutPutUndestroyed(t) ==
  /\ pc[t] = "put"
  /\ \E d \in hand[t] :
       /\ queue' = <<d>> \o queue
       /\ hand' = [hand EXCEPT ![t] = @ \ {d}]
       /\ pc' = [pc EXCEPT ![t] = IF hand[t] = {d} THEN "unlock" ELSE "put"]
  /\ UNCHANGED <<lock, allocated, extendNum, live, content, left, builds>>

\* The destructor runs and the struct is pushed to the front.
Put(t) ==
  /\ pc[t] = "put"
  /\ \E d \in hand[t] :
       /\ content' = [content EXCEPT ![d] = "dead"]
       /\ queue' = <<d>> \o queue
       /\ hand' = [hand EXCEPT ![t] = @ \ {d}]
       /\ pc' = [pc EXCEPT ![t] = IF hand[t] = {d} THEN "unlock" ELSE "put"]
  /\ UNCHANGED <<lock, allocated, extendNum, live, left, builds>>

\* A bug: a call that returns with the flag still set.
MutReturnLocked(t) ==
  /\ pc[t] = "unlock"
  /\ live' = live \cup hand[t]
  /\ hand' = [hand EXCEPT ![t] = {}]
  /\ pc' = [pc EXCEPT ![t] = "idle"]
  /\ UNCHANGED <<lock, queue, allocated, extendNum, content, left, builds>>

\* unlock(), and the call returns what it took to its caller.
Return(t) ==
  /\ pc[t] = "unlock"
  /\ lock' = NoThread
  /\ live' = live \cup hand[t]
  /\ hand' = [hand EXCEPT ![t] = {}]
  /\ pc' = [pc EXCEPT ![t] = "idle"]
  /\ UNCHANGED <<queue, allocated, extendNum, content, left, builds>>

\* A caller writes a descriptor it holds with any of the setters.  On one that
\* was never constructed the setter reads garbage first; if it survives that,
\* it writes like any other.
Set(d) ==
  /\ d \in live
  /\ content[d] # "set"
  /\ content' = [content EXCEPT ![d] = "set"]
  /\ UNCHANGED <<lock, queue, allocated, extendNum, live, pc, left, hand, builds>>

Step(t) == Grow(t) \/ Take(t) \/ Pop(t) \/ Put(t) \/ Return(t)

Next ==
  \/ \E t \in Threads :
       \/ Create(t)
       \/ \E n \in 1..MaxGroup : CreateGroup(t, n)
       \/ \E S \in SUBSET live : Cardinality(S) <= MaxGroup /\ Destroy(t, S)
       \/ Step(t)
  \/ \E d \in live : Set(d)

\* A thread inside its critical section goes on to leave it; nobody has to
\* call, and a spinning thread has no turn of its own.
Fairness == \A t \in Threads : WF_vars(Step(t))

Spec == Init /\ [][Next]_vars /\ Fairness

-----------------------------------------------------------------------------
TypeOK ==
  /\ lock \in Threads \cup {NoThread}
  /\ allocated \in Nat
  /\ extendNum \in Nat \ {0}
  /\ queue \in Seq(1..allocated)
  /\ live \subseteq 1..allocated
  /\ content \in [1..allocated -> Contents]
  /\ pc \in [Threads -> PCs]
  /\ left \in [Threads -> Nat]
  /\ hand \in [Threads -> SUBSET (1..allocated)]
  /\ builds \in [Threads -> BOOLEAN]

\* A struct is in one place: held by a caller, in the hand of the one call
\* inside the critical section, or once in the free list; only the front of
\* the list may already be in the hand of the call about to pop it.  So no two
\* callers ever hold the same descriptor, and no struct is lost
\* (mluOpCreateTensorDescriptor, tensor.cpp:559).
NoDoubleHandOut ==
  /\ \A i, j \in 1..Len(queue) : queue[i] = queue[j] => i = j
  /\ live \cap Free = {}
  /\ \A t \in Threads :
       /\ hand[t] \cap live = {}
       /\ \A u \in Threads : u # t => hand[t] \cap hand[u] = {}
       /\ hand[t] \cap Free = IF pc[t] = "pop" THEN {queue[1]} ELSE {}

\* Every struct malloc gave is somewhere: nothing leaks out of the pool.
NothingLost ==
  1..allocated = live \cup Free \cup UNION {hand[t] : t \in Threads}

\* front() and pop_front() never meet an empty deque: after its extension the
\* pool has all a group call asked for (tensor.cpp:583-590).
FrontExists ==
  \A t \in Threads : pc[t] \in {"take", "pop"} => Len(queue) >= left[t]

\* The next extension is larger than the whole pool, so n descriptors cost
\* O(log n) mallocs however single and group calls mix (tensor.cpp:566, 586).
NextExtendDoubles == extendNum >= allocated + FirstExtend

\* A struct in the free list is raw or destroyed, never a constructed one: the
\* heap arrays of a descriptor are released before its memory is reused.
FreeIsDestroyed ==
  \A i \in 1..Len(queue) :
    \/ content[queue[i]] \in {"raw", "dead"}
    \/ \E t \in Threads : pc[t] = "pop" /\ queue[i] \in hand[t]

\* Whoever holds the spin lock releases it (tensor.cpp:570, 592, 824, 843).
LockIsReleased == (lock # NoThread) ~> (lock = NoThread)

\* The pool implements the calls' contract: whatever it holds free and however
\* it grows, a descriptor goes from nobody to one call, to one caller and back.
Allocator == INSTANCE DescriptorAllocator
ImplementsAllocator == Allocator!ASpec

\* "Creates a group of tensor descriptor stored by group_desc that holds the
\* dimensions, data_type, and layout of input tensors" (mlu_op.h:1315): what a
\* create call returns is a constructed descriptor.
HandedOutConstructed == \A d \in live : content[d] \in {"fresh", "set"}
=============================================================================

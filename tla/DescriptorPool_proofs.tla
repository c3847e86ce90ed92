----------------------- MODULE DescriptorPool_proofs -----------------------
(***************************************************************************)
(* Proofs about DescriptorPool for any set of threads, any first extension *)
(* and any sizes of groups.                                                *)
(***************************************************************************)
EXTENDS DescriptorPool, SequenceTheorems, TLAPS

(***************************************************************************)
(* The strengthening: the lock holder is the one thread inside a call, and *)
(* what a call still owes fits where it is in its call.                    *)
(***************************************************************************)
HolderIsInside == \A t \in Threads : lock = t <=> pc[t] # "idle"

CallIsAhead ==
  \A t \in Threads :
    /\ pc[t] \in {"idle", "grow"} => hand[t] = {}
    /\ pc[t] \in {"grow", "take", "pop"} => left[t] > 0

Control == TypeOK /\ HolderIsInside /\ CallIsAhead

-----------------------------------------------------------------------------
(* Sequences *)

\* What extend(n) makes of the deque (tensor.cpp:229-232).
LEMMA PushedProperties ==
  ASSUME TypeOK, NEW n \in Nat
  PROVE  /\ Pushed(n) \in Seq(1..(allocated + n))
         /\ Len(Pushed(n)) = n + Len(queue)
         /\ \A i \in 1..n : Pushed(n)[i] = allocated + n + 1 - i
         /\ \A i \in (n + 1)..(n + Len(queue)) : Pushed(n)[i] = queue[i - n]
<1> DEFINE top == [i \in 1..n |-> allocated + n + 1 - i]
<1>1. allocated \in Nat /\ queue \in Seq(1..allocated)
  BY DEF TypeOK
<1>2. top \in Seq(1..(allocated + n)) /\ Len(top) = n
  <2>1. \A i \in 1..n : allocated + n + 1 - i \in 1..(allocated + n)
    BY <1>1
  <2>2. top \in [1..n -> 1..(allocated + n)]
    BY <2>1
  <2> QED  BY <2>2
<1>3. queue \in Seq(1..(allocated + n))
  BY <1>1, SeqMonotonic, 1..allocated \subseteq 1..(allocated + n)
<1>4. Pushed(n) = top \o queue
  BY DEF Pushed
<1> HIDE DEF top
<1>5. /\ Pushed(n) \in Seq(1..(allocated + n))
      /\ Len(Pushed(n)) = n + Len(queue)
      /\ \A i \in 1..(n + Len(queue)) :
           Pushed(n)[i] = IF i <= n THEN top[i] ELSE queue[i - n]
  <2> DEFINE T == 1..(allocated + n)
  <2> HIDE DEF T
  <2>1. top \in Seq(T) /\ queue \in Seq(T)
    BY <1>2, <1>3 DEF T
  <2>2. /\ top \o queue \in Seq(T)
        /\ Len(top \o queue) = Len(top) + Len(queue)
        /\ \A i \in 1..(Len(top) + Len(queue)) :
             (top \o queue)[i] = IF i <= Len(top) THEN top[i]
                                                   ELSE queue[i - Len(top)]
    BY <2>1, ConcatProperties
  <2> QED  BY <1>2, <1>4, <2>2 DEF T
<1>6. \A i \in 1..n : top[i] = allocated + n + 1 - i
  BY DEF top
<1>7. Len(queue) \in Nat
  BY <1>1, LenProperties
<1>8. \A i \in 1..n : i \in 1..(n + Len(queue)) /\ i <= n
  BY <1>7
<1>9. \A i \in (n + 1)..(n + Len(queue)) : i \in 1..(n + Len(queue)) /\ ~(i <= n)
  BY <1>7
<1> QED  BY <1>5, <1>6, <1>8, <1>9

\* What push_front makes of the deque.
LEMMA PutProperties ==
  ASSUME NEW S, NEW q \in Seq(S), NEW d \in S
  PROVE  /\ <<d>> \o q \in Seq(S)
         /\ Len(<<d>> \o q) = Len(q) + 1
         /\ (<<d>> \o q)[1] = d
         /\ \A i \in 2..(Len(q) + 1) : (<<d>> \o q)[i] = q[i - 1]
<1>1. <<d>> \in Seq(S) /\ Len(<<d>>) = 1 /\ <<d>>[1] = d
  OBVIOUS
<1>2. /\ <<d>> \o q \in Seq(S)
      /\ Len(<<d>> \o q) = 1 + Len(q)
      /\ \A i \in 1..(1 + Len(q)) :
           (<<d>> \o q)[i] = IF i <= 1 THEN <<d>>[i] ELSE q[i - 1]
  BY <1>1, ConcatProperties
<1> QED  BY <1>1, <1>2, LenProperties

\* What pop_front makes of the deque.
LEMMA PopProperties ==
  ASSUME NEW S, NEW q \in Seq(S), q # <<>>
  PROVE  /\ Tail(q) \in Seq(S)
         /\ Len(q) \in Nat \ {0}
         /\ Len(Tail(q)) = Len(q) - 1
         /\ q[1] \in S
         /\ \A i \in 1..(Len(q) - 1) : Tail(q)[i] = q[i + 1]
BY HeadTailProperties, LenProperties, EmptySeq, ElementOfSeq

-----------------------------------------------------------------------------
(* Types and control *)

LEMMA InitControl == Init => Control
<1> SUFFICES ASSUME Init PROVE Control
  OBVIOUS
<1> USE PoolAssumption DEF Init
<1>1. queue \in [1..FirstExtend -> 1..FirstExtend]
  OBVIOUS
<1>2. queue \in Seq(1..allocated)
  BY <1>1
<1>3. TypeOK
  BY <1>2 DEF TypeOK, Contents, PCs
<1>4. HolderIsInside /\ CallIsAhead
  BY DEF HolderIsInside, CallIsAhead
<1> QED  BY <1>3, <1>4 DEF Control

LEMMA NextControl == Control /\ [Next]_vars => Control'
<1> SUFFICES ASSUME Control, [Next]_vars PROVE Control'
  OBVIOUS
<1> USE PoolAssumption DEF Control, TypeOK, HolderIsInside, CallIsAhead,
      Contents, PCs
<1>1. ASSUME NEW t \in Threads, Create(t) PROVE Control'
  BY <1>1 DEF Create, Acquire
<1>2. ASSUME NEW t \in Threads, NEW n \in 1..MaxGroup, CreateGroup(t, n)
      PROVE  Control'
  BY <1>2 DEF CreateGroup, Acquire
<1>3. ASSUME NEW t \in Threads, NEW S \in SUBSET live, Destroy(t, S)
      PROVE  Control'
  BY <1>3 DEF Destroy, Acquire
<1>4. ASSUME NEW t \in Threads, Grow(t) PROVE Control'
  <2>1. CASE Len(queue) < left[t]
    <3> DEFINE n == Larger(extendNum, left[t])
    <3>1. n \in Nat \ {0}
      BY DEF Larger
    <3>2. Pushed(n) \in Seq(1..(allocated + n))
      BY <3>1, PushedProperties
    <3>3. /\ queue' = Pushed(n)
          /\ allocated' = allocated + n
          /\ extendNum' = 2 * n
          /\ content' = [d \in 1..allocated + n |->
                           IF d <= allocated THEN content[d] ELSE "raw"]
      BY <1>4, <2>1 DEF Grow
    <3>4. UNCHANGED <<lock, live, left, hand, builds>>
          /\ pc[t] = "grow" /\ pc' = [pc EXCEPT ![t] = "take"]
      BY <1>4 DEF Grow
    <3> HIDE DEF n
    <3>5. queue' \in Seq(1..allocated') /\ allocated' \in Nat
          /\ extendNum' \in Nat \ {0} /\ 1..allocated \subseteq 1..allocated'
      BY <3>1, <3>2, <3>3
    <3>6. content' \in [1..allocated' -> Contents]
      BY <3>1, <3>3
    <3> QED  BY <3>4, <3>5, <3>6
  <2>2. CASE ~(Len(queue) < left[t])
    BY <1>4, <2>2 DEF Grow
  <2> QED  BY <2>1, <2>2
<1>5. ASSUME NEW t \in Threads, Take(t) PROVE Control'
  <2>1. queue[1] \in 1..allocated
    BY <1>5, PopProperties DEF Take
  <2> QED  BY <1>5, <2>1 DEF Take
<1>6. ASSUME NEW t \in Threads, Pop(t) PROVE Control'
  <2>1. queue' \in Seq(1..allocated)
    BY <1>6, PopProperties DEF Pop
  <2> QED  BY <1>6, <2>1 DEF Pop
<1>7. ASSUME NEW t \in Threads, Put(t) PROVE Control'
  <2>1. PICK d \in hand[t] :
          /\ content' = [content EXCEPT ![d] = "dead"]
          /\ queue' = <<d>> \o queue
          /\ hand' = [hand EXCEPT ![t] = @ \ {d}]
          /\ pc' = [pc EXCEPT ![t] = IF hand[t] = {d} THEN "unlock" ELSE "put"]
    BY <1>7 DEF Put
  <2>2. queue' \in Seq(1..allocated)
    BY <2>1, PutProperties
  <2> QED  BY <1>7, <2>1, <2>2 DEF Put
<1>8. ASSUME NEW t \in Threads, Return(t) PROVE Control'
  BY <1>8 DEF Return
<1>9. ASSUME NEW d \in live, Set(d) PROVE Control'
  BY <1>9 DEF Set
<1>10. CASE UNCHANGED vars
  BY <1>10 DEF vars
<1> QED  BY <1>1, <1>2, <1>3, <1>4, <1>5, <1>6, <1>7, <1>8, <1>9, <1>10 DEF Next, Step

\* In every reachable state the variables have their types and the holder of
\* the spin lock is the one thread inside a call (tensor.cpp:224-228).
THEOREM Types == Spec => []TypeOK
<1>1. Spec => []Control
  BY InitControl, NextControl, PTL DEF Spec
<1>2. Control => TypeOK
  BY DEF Control
<1> QED  BY <1>1, <1>2, PTL
-----------------------------------------------------------------------------
(* Where the structs are *)

\* While t is inside, what is in hand is in t's hand.
LEMMA OneHand ==
  ASSUME Control, NEW t \in Threads, pc[t] # "idle"
  PROVE  /\ \A u \in Threads : u # t => hand[u] = {} /\ pc[u] = "idle"
         /\ UNION {hand[u] : u \in Threads} = hand[t]
<1>1. \A u \in Threads : u # t => hand[u] = {} /\ pc[u] = "idle"
  BY DEF Control, HolderIsInside, CallIsAhead
<1> QED  BY <1>1

\* While nobody holds the lock, nothing is in hand.
LEMMA NoHand ==
  ASSUME Control, lock = NoThread
  PROVE  \A u \in Threads : hand[u] = {} /\ pc[u] = "idle"
BY PoolAssumption DEF Control, HolderIsInside, CallIsAhead

Placed == NoDoubleHandOut /\ NothingLost

\* The free list, its order and its members forgotten, after each change.
LEMMA FreeAfterPush ==
  ASSUME TypeOK, NEW n \in Nat \ {0}, queue' = Pushed(n),
         \A i, j \in 1..Len(queue) : queue[i] = queue[j] => i = j
  PROVE  /\ Free' = Free \cup ((allocated + 1)..(allocated + n))
         /\ \A i, j \in 1..Len(queue') : queue'[i] = queue'[j] => i = j
<1>1. /\ Len(Pushed(n)) = n + Len(queue)
      /\ \A i \in 1..n : Pushed(n)[i] = allocated + n + 1 - i
      /\ \A i \in (n + 1)..(n + Len(queue)) : Pushed(n)[i] = queue[i - n]
  BY PushedProperties
<1>2. /\ allocated \in Nat /\ Len(queue) \in Nat
      /\ \A i \in 1..Len(queue) : queue[i] \in 1..allocated
  BY ElementOfSeq, LenProperties DEF TypeOK
<1> HIDE DEF Pushed
<1> DEFINE q == Pushed(n)
<1>3. \A i \in 1..n : q[i] \in (allocated + 1)..(allocated + n)
  BY <1>1, <1>2
<1>4. \A i \in (n + 1)..(n + Len(queue)) :
        q[i] = queue[i - n] /\ i - n \in 1..Len(queue)
  BY <1>1, <1>2
<1>5. \A i \in 1..(n + Len(queue)) :
        i \in 1..n \/ i \in (n + 1)..(n + Len(queue))
  BY <1>2
<1>6. ASSUME NEW i \in 1..Len(q), NEW j \in 1..Len(q), q[i] = q[j] PROVE i = j
  <2> HIDE DEF q
  <2>0. /\ i \in 1..n \/ i \in (n + 1)..(n + Len(queue))
        /\ j \in 1..n \/ j \in (n + 1)..(n + Len(queue))
    BY <1>1, <1>5 DEF q
  <2>1. CASE i \in 1..n /\ j \in 1..n
    BY <1>1, <1>2, <1>6, <2>1 DEF q
  <2>2. CASE i \in (n + 1)..(n + Len(queue)) /\ j \in (n + 1)..(n + Len(queue))
    <3>1. i - n = j - n
      BY <1>4, <1>6, <2>2
    <3> QED  BY <3>1, <1>1, <1>2, <2>2
  <2>3. \A k \in 1..n : \A l \in (n + 1)..(n + Len(queue)) : q[k] # q[l]
    <3> SUFFICES ASSUME NEW k \in 1..n, NEW l \in (n + 1)..(n + Len(queue))
                 PROVE  q[k] # q[l]
      OBVIOUS
    <3>1. q[k] \in (allocated + 1)..(allocated + n)
      BY <1>3
    <3>2. q[l] = queue[l - n] /\ l - n \in 1..Len(queue)
      BY <1>4
    <3>3. q[l] \in 1..allocated
      BY <1>2, <3>2
    <3> QED  BY <1>2, <3>1, <3>3
  <2> QED  BY <2>0, <2>1, <2>2, <2>3, <1>6
<1>7. ASSUME NEW d \in Free' PROVE d \in Free \cup ((allocated + 1)..(allocated + n))
  <2>1. PICK i \in 1..Len(q) : d = q[i]
    BY <1>7 DEF Free
  <2> QED  BY <2>1, <1>1, <1>3, <1>4, <1>5 DEF Free
<1>8. ASSUME NEW d \in Free PROVE d \in Free'
  <2>1. PICK i \in 1..Len(queue) : d = queue[i]
    BY DEF Free
  <2>2. /\ i + n \in (n + 1)..(n + Len(queue))
        /\ i + n \in 1..Len(q) /\ (i + n) - n = i
    BY <1>1, <1>2
  <2>3. d = q[i + n]
    BY <2>1, <2>2, <1>1
  <2> QED  BY <2>2, <2>3 DEF Free
<1>9. ASSUME NEW d \in (allocated + 1)..(allocated + n) PROVE d \in Free'
  <2>1. /\ allocated + n + 1 - d \in 1..n
        /\ allocated + n + 1 - d \in 1..Len(q)
        /\ allocated + n + 1 - (allocated + n + 1 - d) = d
    BY <1>1, <1>2
  <2>2. d = q[allocated + n + 1 - d]
    BY <2>1, <1>1
  <2> QED  BY <2>1, <2>2 DEF Free
<1> QED  BY <1>6, <1>7, <1>8, <1>9

LEMMA FreeAfterPut ==
  ASSUME TypeOK, NEW d \in 1..allocated, queue' = <<d>> \o queue, d \notin Free,
         \A i, j \in 1..Len(queue) : queue[i] = queue[j] => i = j
  PROVE  /\ Free' = Free \cup {d}
         /\ \A i, j \in 1..Len(queue') : queue'[i] = queue'[j] => i = j
<1>1. /\ Len(queue') = Len(queue) + 1
      /\ queue'[1] = d
      /\ \A i \in 2..(Len(queue) + 1) : queue'[i] = queue[i - 1]
  BY PutProperties DEF TypeOK
<1>2. Len(queue) \in Nat
  BY LenProperties DEF TypeOK
<1>3. \A i \in 1..(Len(queue) + 1) :
        i = 1 \/ (i \in 2..(Len(queue) + 1) /\ i - 1 \in 1..Len(queue))
  BY <1>2
<1>4. \A i \in 1..Len(queue) :
        i + 1 \in 2..(Len(queue) + 1) /\ i + 1 \in 1..Len(queue') /\ (i + 1) - 1 = i
  BY <1>1, <1>2
<1>5. \A i \in 1..Len(queue) : queue'[i + 1] = queue[i]
  BY <1>1, <1>4
<1>6. Free' = Free \cup {d}
  <2>1. 1 \in 1..Len(queue')
    BY <1>1, <1>2
  <2>2. \A x \in Free : x \in Free'
    BY <1>4, <1>5 DEF Free
  <2>3. d \in Free'
    BY <1>1, <2>1 DEF Free
  <2>4. \A x \in Free' : x \in Free \cup {d}
    BY <1>1, <1>3 DEF Free
  <2> QED  BY <2>2, <2>3, <2>4
<1>7. ASSUME NEW i \in 1..Len(queue'), NEW j \in 1..Len(queue'),
             queue'[i] = queue'[j]
      PROVE  i = j
  <2>1. CASE i = 1 /\ j = 1
    BY <2>1
  <2>2. CASE i \in 2..(Len(queue) + 1) /\ j \in 2..(Len(queue) + 1)
    <3>1. i - 1 = j - 1
      BY <1>1, <1>3, <1>7, <2>2
    <3> QED  BY <3>1, <2>2
  <2>3. CASE i = 1 /\ j \in 2..(Len(queue) + 1)
    BY <1>1, <1>3, <1>7, <2>3 DEF Free
  <2>4. CASE j = 1 /\ i \in 2..(Len(queue) + 1)
    BY <1>1, <1>3, <1>7, <2>4 DEF Free
  <2> QED  BY <1>1, <1>3, <2>1, <2>2, <2>3, <2>4
<1> QED  BY <1>6, <1>7

LEMMA FreeAfterPop ==
  ASSUME TypeOK, queue # <<>>, queue' = Tail(queue),
         \A i, j \in 1..Len(queue) : queue[i] = queue[j] => i = j
  PROVE  /\ Free' = Free \ {queue[1]}
         /\ queue[1] \in Free
         /\ \A i, j \in 1..Len(queue') : queue'[i] = queue'[j] => i = j
<1>1. /\ Len(queue) \in Nat \ {0}
      /\ Len(queue') = Len(queue) - 1
      /\ \A i \in 1..(Len(queue) - 1) : queue'[i] = queue[i + 1]
  BY PopProperties DEF TypeOK
<1>2. \A i \in 1..Len(queue') :
        i + 1 \in 1..Len(queue) /\ i + 1 # 1 /\ queue'[i] = queue[i + 1]
  BY <1>1
<1>3. \A i \in 1..Len(queue) : i # 1 => i - 1 \in 1..Len(queue') /\ queue'[i - 1] = queue[i]
  <2>1. \A i \in 1..Len(queue) : i # 1 => i - 1 \in 1..(Len(queue) - 1) /\ (i - 1) + 1 = i
    BY <1>1
  <2> QED  BY <1>1, <2>1
<1>4. 1 \in 1..Len(queue)
  BY <1>1
<1>5. queue[1] \in Free
  BY <1>4 DEF Free
<1>6. \A x \in Free' : x \in Free \ {queue[1]}
  BY <1>2, <1>4 DEF Free
<1>7. \A x \in Free \ {queue[1]} : x \in Free'
  BY <1>3 DEF Free
<1>8. ASSUME NEW i \in 1..Len(queue'), NEW j \in 1..Len(queue'),
             queue'[i] = queue'[j]
      PROVE  i = j
  <2>1. i + 1 = j + 1
    BY <1>2, <1>8
  <2> QED  BY <2>1
<1> QED  BY <1>5, <1>6, <1>7, <1>8

LEMMA InitPlaced == Init => Placed
<1> SUFFICES ASSUME Init PROVE Placed
  OBVIOUS
<1>1. /\ queue = [i \in 1..FirstExtend |-> FirstExtend + 1 - i]
      /\ queue \in Seq(1..allocated) /\ Len(queue) = FirstExtend
      /\ allocated = FirstExtend /\ FirstExtend \in Nat \ {0}
  <2>1. TypeOK
    BY InitControl DEF Control
  <2> QED  BY <2>1, PoolAssumption DEF Init, TypeOK
<1>2. \A i \in 1..FirstExtend : queue[i] = FirstExtend + 1 - i
  BY <1>1
<1>3. Free = 1..FirstExtend
  <2>1. \A d \in 1..FirstExtend :
          FirstExtend + 1 - d \in 1..Len(queue) /\ queue[FirstExtend + 1 - d] = d
    BY <1>1
  <2>2. \A i \in 1..Len(queue) : queue[i] \in 1..FirstExtend
    BY <1>1
  <2> QED  BY <2>1, <2>2 DEF Free
<1>4. \A i, j \in 1..Len(queue) : queue[i] = queue[j] => i = j
  BY <1>1, <1>2
<1> QED  BY <1>1, <1>3, <1>4 DEF Placed, NoDoubleHandOut, NothingLost, Init

LEMMA NextPlaced == Control /\ Control' /\ Placed /\ [Next]_vars => Placed'
<1> SUFFICES ASSUME Control, Control', Placed, [Next]_vars PROVE Placed'
  OBVIOUS
<1> DEFINE Injective == \A i, j \in 1..Len(queue) : queue[i] = queue[j] => i = j
<1>a. /\ Injective
      /\ live \cap Free = {}
      /\ TypeOK /\ TypeOK'
  BY DEF Placed, NoDoubleHandOut, Control
<1>1. ASSUME NEW t \in Threads, Create(t) PROVE Placed'
  <2>1. lock = NoThread /\ UNCHANGED <<queue, allocated, live, hand>>
        /\ \A u \in Threads : pc'[u] # "pop"
    BY <1>1, NoHand DEF Create, Acquire, Control, TypeOK
  <2> QED  BY <2>1, NoHand DEF Placed, NoDoubleHandOut, NothingLost, Free
<1>2. ASSUME NEW t \in Threads, NEW n \in 1..MaxGroup, CreateGroup(t, n)
      PROVE  Placed'
  <2>1. lock = NoThread /\ UNCHANGED <<queue, allocated, live, hand>>
        /\ \A u \in Threads : pc'[u] # "pop"
    BY <1>2, NoHand DEF CreateGroup, Acquire, Control, TypeOK
  <2> QED  BY <2>1, NoHand DEF Placed, NoDoubleHandOut, NothingLost, Free
<1>3. ASSUME NEW t \in Threads, NEW S \in SUBSET live, Destroy(t, S)
      PROVE  Placed'
  <2>1. lock = NoThread /\ UNCHANGED <<queue, allocated>>
        /\ live' = live \ S /\ S \subseteq live
        /\ hand' = [hand EXCEPT ![t] = S]
        /\ pc' = [pc EXCEPT ![t] = "put"]
    BY <1>3 DEF Destroy, Acquire
  <2>2. \A u \in Threads : hand[u] = {} /\ pc[u] = "idle"
    BY <2>1, NoHand
  <2>3. /\ hand'[t] = S /\ pc'[t] = "put"
        /\ \A u \in Threads : u # t => hand'[u] = {} /\ pc'[u] = "idle"
    BY <2>1, <2>2 DEF Control, TypeOK
  <2>4. Free' = Free
    BY <2>1 DEF Free
  <2>5. UNION {hand'[u] : u \in Threads} = S
    BY <2>3
  <2>6. NoDoubleHandOut'
    BY <2>1, <2>3, <2>4, <1>a DEF NoDoubleHandOut
  <2>7. NothingLost'
    <3>1. UNION {hand[u] : u \in Threads} = {}
      BY <2>2
    <3> QED  BY <2>1, <2>4, <2>5, <3>1 DEF NothingLost, Placed
  <2> QED  BY <2>6, <2>7 DEF Placed
<1>4. ASSUME NEW t \in Threads, Grow(t) PROVE Placed'
  <2> DEFINE n == Larger(extendNum, left[t])
  <2>1. pc[t] = "grow" /\ hand[t] = {} /\ UNCHANGED <<hand, live>>
        /\ \A u \in Threads : hand[u] = {} /\ pc'[u] # "pop"
    BY <1>4, OneHand DEF Grow, Control, CallIsAhead, TypeOK
  <2>2. CASE Len(queue) < left[t]
    <3>1. n \in Nat \ {0} /\ allocated \in Nat
      BY DEF Larger, Control, TypeOK
    <3>2. queue' = Pushed(n) /\ allocated' = allocated + n
      BY <1>4, <2>2 DEF Grow
    <3> HIDE DEF n
    <3>3. Free' = Free \cup ((allocated + 1)..(allocated + n)) /\ Injective'
      BY <3>1, <3>2, <1>a, FreeAfterPush
    <3>4. live \subseteq 1..allocated
      BY <1>a DEF TypeOK
    <3>5. live' \cap Free' = {}
      BY <3>1, <3>3, <3>4, <1>a, <2>1
    <3>6. 1..allocated' = 1..allocated \cup ((allocated + 1)..(allocated + n))
      BY <3>1, <3>2
    <3>7. NoDoubleHandOut'
      BY <2>1, <3>3, <3>5 DEF NoDoubleHandOut
    <3>8. NothingLost'
      BY <2>1, <3>3, <3>6 DEF NothingLost, Placed
    <3> QED  BY <3>7, <3>8 DEF Placed
  <2>3. CASE ~(Len(queue) < left[t])
    <3>1. UNCHANGED <<queue, allocated>>
      BY <1>4, <2>3 DEF Grow
    <3> QED  BY <2>1, <3>1 DEF Placed, NoDoubleHandOut, NothingLost, Free
  <2> QED  BY <2>2, <2>3
<1>5. ASSUME NEW t \in Threads, Take(t) PROVE Placed'
  <2>1. /\ pc[t] = "take" /\ queue # <<>>
        /\ hand' = [hand EXCEPT ![t] = @ \cup {queue[1]}]
        /\ pc' = [pc EXCEPT ![t] = "pop"]
        /\ UNCHANGED <<queue, allocated, live>>
    BY <1>5 DEF Take
  <2>2. /\ hand'[t] = hand[t] \cup {queue[1]} /\ pc'[t] = "pop"
        /\ \A u \in Threads : u # t => hand'[u] = {} /\ pc'[u] = "idle"
    BY <2>1, OneHand DEF Control, TypeOK
  <2>3. Free' = Free /\ queue[1] \in Free
    <3>1. Len(queue) \in Nat \ {0}
      BY <2>1, PopProperties DEF Control, TypeOK
    <3> QED  BY <2>1, <3>1 DEF Free
  <2>4. hand[t] \cap Free = {} /\ hand[t] \cap live = {}
    BY <2>1 DEF Placed, NoDoubleHandOut
  <2>5. NoDoubleHandOut'
    BY <2>1, <2>2, <2>3, <2>4, <1>a DEF NoDoubleHandOut
  <2>6. UNION {hand'[u] : u \in Threads} = hand[t] \cup {queue[1]}
    BY <2>2
  <2>7. UNION {hand[u] : u \in Threads} = hand[t]
    BY <2>1, OneHand
  <2>8. NothingLost'
    BY <2>1, <2>3, <2>6, <2>7 DEF NothingLost, Placed
  <2> QED  BY <2>5, <2>8 DEF Placed
<1>6. ASSUME NEW t \in Threads, Pop(t) PROVE Placed'
  <2>1. /\ pc[t] = "pop" /\ queue # <<>> /\ queue' = Tail(queue)
        /\ UNCHANGED <<hand, allocated, live>>
        /\ \A u \in Threads : pc'[u] # "pop"
    BY <1>6, OneHand DEF Pop, Control, TypeOK
  <2>2. Free' = Free \ {queue[1]} /\ queue[1] \in Free /\ Injective'
    BY <2>1, <1>a, FreeAfterPop
  <2>3. hand[t] \cap Free = {queue[1]}
    BY <2>1 DEF Placed, NoDoubleHandOut
  <2>4. \A u \in Threads : u # t => hand[u] = {}
    BY <2>1, OneHand
  <2>5. UNION {hand[u] : u \in Threads} = hand[t]
    BY <2>1, OneHand
  <2>6. NoDoubleHandOut'
    <3>1. \A u \in Threads : hand'[u] \cap Free' = {}
      BY <2>1, <2>2, <2>3, <2>4
    <3> QED  BY <2>1, <2>2, <3>1 DEF Placed, NoDoubleHandOut
  <2>7. NothingLost'
    <3>1. UNION {hand'[u] : u \in Threads} = hand[t]
      BY <2>1, <2>5
    <3> QED  BY <2>1, <2>2, <2>3, <2>5, <3>1 DEF Placed, NothingLost
  <2> QED  BY <2>6, <2>7 DEF Placed
<1>7. ASSUME NEW t \in Threads, Put(t) PROVE Placed'
  <2>1. PICK d \in hand[t] :
          /\ pc[t] = "put"
          /\ queue' = <<d>> \o queue
          /\ hand' = [hand EXCEPT ![t] = @ \ {d}]
          /\ pc' = [pc EXCEPT ![t] = IF hand[t] = {d} THEN "unlock" ELSE "put"]
          /\ UNCHANGED <<allocated, live>>
    BY <1>7 DEF Put
  <2>2. hand[t] \cap Free = {} /\ hand[t] \cap live = {}
    BY <2>1 DEF Placed, NoDoubleHandOut
  <2>3. Free' = Free \cup {d} /\ Injective'
    BY <2>1, <2>2, <1>a, FreeAfterPut DEF TypeOK
  <2>4. /\ hand'[t] = hand[t] \ {d} /\ pc'[t] # "pop"
        /\ \A u \in Threads : u # t => hand'[u] = {} /\ pc'[u] = "idle"
    BY <2>1, OneHand DEF Control, TypeOK
  <2>5. UNION {hand'[u] : u \in Threads} = hand[t] \ {d}
    BY <2>4
  <2>6. UNION {hand[u] : u \in Threads} = hand[t]
    BY <2>1, OneHand
  <2>7. NoDoubleHandOut'
    BY <2>1, <2>2, <2>3, <2>4, <1>a DEF NoDoubleHandOut
  <2>8. NothingLost'
    BY <2>1, <2>3, <2>5, <2>6 DEF Placed, NothingLost
  <2> QED  BY <2>7, <2>8 DEF Placed
<1>8. ASSUME NEW t \in Threads, Return(t) PROVE Placed'
  <2>1. /\ pc[t] = "unlock" /\ live' = live \cup hand[t]
        /\ hand' = [hand EXCEPT ![t] = {}] /\ pc' = [pc EXCEPT ![t] = "idle"]
        /\ UNCHANGED <<queue, allocated>>
    BY <1>8 DEF Return
  <2>2. Free' = Free
    BY <2>1 DEF Free
  <2>3. \A u \in Threads : hand'[u] = {} /\ pc'[u] = "idle"
    BY <2>1, OneHand DEF Control, TypeOK
  <2>4. hand[t] \cap Free = {}
    BY <2>1 DEF Placed, NoDoubleHandOut
  <2>5. UNION {hand[u] : u \in Threads} = hand[t]
    BY <2>1, OneHand
  <2>6. NoDoubleHandOut'
    BY <2>1, <2>2, <2>3, <2>4, <1>a DEF NoDoubleHandOut
  <2>7. NothingLost'
    BY <2>1, <2>2, <2>3, <2>5 DEF Placed, NothingLost
  <2> QED  BY <2>6, <2>7 DEF Placed
<1>9. ASSUME NEW d \in live, Set(d) PROVE Placed'
  BY <1>9 DEF Set, Placed, NoDoubleHandOut, NothingLost, Free
<1>10. CASE UNCHANGED vars
  BY <1>10 DEF vars, Placed, NoDoubleHandOut, NothingLost, Free
<1> QED  BY <1>1, <1>2, <1>3, <1>4, <1>5, <1>6, <1>7, <1>8, <1>9, <1>10 DEF Next, Step

\* No two callers ever hold the same descriptor, and none is handed out that
\* is still in the free list.
THEOREM HandOut == Spec => []NoDoubleHandOut
<1>1. Spec => [](Control /\ Placed)
  BY InitControl, NextControl, InitPlaced, NextPlaced, PTL DEF Spec
<1>2. Placed => NoDoubleHandOut
  BY DEF Placed
<1> QED  BY <1>1, <1>2, PTL

\* The pool never loses track of a struct it allocated.
THEOREM Conservation == Spec => []NothingLost
<1>1. Spec => [](Control /\ Placed)
  BY InitControl, NextControl, InitPlaced, NextPlaced, PTL DEF Spec
<1>2. Placed => NothingLost
  BY DEF Placed
<1> QED  BY <1>1, <1>2, PTL

-----------------------------------------------------------------------------
(* What the free list holds, and how the pool grows *)

LEMMA NextFront == Control /\ FrontExists /\ [Next]_vars => FrontExists'
<1> SUFFICES ASSUME Control, FrontExists, [Next]_vars PROVE FrontExists'
  OBVIOUS
<1> USE DEF Control, TypeOK, FrontExists
<1>1. ASSUME NEW t \in Threads, Create(t) PROVE FrontExists'
  BY <1>1, NoHand DEF Create, Acquire
<1>2. ASSUME NEW t \in Threads, NEW n \in 1..MaxGroup, CreateGroup(t, n)
      PROVE  FrontExists'
  BY <1>2, NoHand DEF CreateGroup, Acquire
<1>3. ASSUME NEW t \in Threads, NEW S \in SUBSET live, Destroy(t, S)
      PROVE  FrontExists'
  BY <1>3, NoHand DEF Destroy, Acquire
<1>4. ASSUME NEW t \in Threads, Grow(t) PROVE FrontExists'
  <2>1. \A u \in Threads : pc'[u] \in {"take", "pop"} => u = t
    BY <1>4, OneHand DEF Grow
  <2>2. Len(queue') >= left'[t]
    <3> DEFINE n == Larger(extendNum, left[t])
    <3>1. CASE Len(queue) < left[t]
      <4>1. n \in Nat /\ n >= left[t]
        BY DEF Larger
      <4>2. queue' = Pushed(n) /\ left' = left
        BY <1>4, <3>1 DEF Grow
      <4> HIDE DEF n
      <4>3. Len(queue') = n + Len(queue) /\ Len(queue) \in Nat
        BY <4>1, <4>2, PushedProperties, LenProperties
      <4> QED  BY <4>1, <4>2, <4>3
    <3>2. CASE ~(Len(queue) < left[t])
      <4>1. Len(queue) \in Nat
        BY LenProperties
      <4> QED  BY <1>4, <3>2, <4>1 DEF Grow
    <3> QED  BY <3>1, <3>2
  <2> QED  BY <2>1, <2>2
<1>5. ASSUME NEW t \in Threads, Take(t) PROVE FrontExists'
  BY <1>5, OneHand DEF Take
<1>6. ASSUME NEW t \in Threads, Pop(t) PROVE FrontExists'
  <2>1. Len(queue') = Len(queue) - 1 /\ left'[t] = left[t] - 1 /\ Len(queue) \in Nat
    BY <1>6, PopProperties DEF Pop
  <2>2. \A u \in Threads : pc'[u] \in {"take", "pop"} => u = t
    BY <1>6, OneHand DEF Pop
  <2>3. Len(queue) >= left[t]
    BY <1>6 DEF Pop
  <2> QED  BY <2>1, <2>2, <2>3
<1>7. ASSUME NEW t \in Threads, Put(t) PROVE FrontExists'
  <2>1. \A u \in Threads : pc'[u] \notin {"take", "pop"}
    BY <1>7, OneHand DEF Put
  <2> QED  BY <2>1
<1>8. ASSUME NEW t \in Threads, Return(t) PROVE FrontExists'
  BY <1>8, OneHand DEF Return
<1>9. ASSUME NEW d \in live, Set(d) PROVE FrontExists'
  BY <1>9 DEF Set
<1>10. CASE UNCHANGED vars
  BY <1>10 DEF vars
<1> QED  BY <1>1, <1>2, <1>3, <1>4, <1>5, <1>6, <1>7, <1>8, <1>9, <1>10 DEF Next, Step

\* front() and pop_front() are never called on an empty deque.
THEOREM Front == Spec => []FrontExists
<1>1. Init => FrontExists
  BY DEF Init, FrontExists
<1>2. Spec => [](Control /\ FrontExists)
  BY <1>1, InitControl, NextControl, NextFront, PTL DEF Spec
<1> QED  BY <1>2, PTL

\* However single and group calls mix, the next extension is larger than all
\* the pool has: the mallocs grow with the logarithm of the demand.
THEOREM Doubling == Spec => []NextExtendDoubles
<1>1. Init => NextExtendDoubles
  BY PoolAssumption DEF Init, NextExtendDoubles
<1>2. Control /\ NextExtendDoubles /\ [Next]_vars => NextExtendDoubles'
  <2> SUFFICES ASSUME Control, NextExtendDoubles, [Next]_vars
               PROVE  NextExtendDoubles'
    OBVIOUS
  <2>1. ASSUME NEW t \in Threads, Grow(t) PROVE NextExtendDoubles'
    <3> DEFINE n == Larger(extendNum, left[t])
    <3>1. n \in Nat /\ n >= extendNum /\ extendNum \in Nat /\ allocated \in Nat
      BY DEF Larger, Control, TypeOK
    <3> QED
      BY <2>1, <3>1, PoolAssumption DEF Grow, NextExtendDoubles
  <2>2. CASE UNCHANGED <<extendNum, allocated>>
    BY <2>2 DEF NextExtendDoubles
  <2> QED
    BY <2>1, <2>2 DEF Next, Step, Create, CreateGroup, Destroy, Take, Pop, Put,
                      Return, Set, vars
<1> QED  BY <1>1, <1>2, InitControl, NextControl, PTL DEF Spec

LEMMA NextDestroyed ==
  /\ Control /\ Placed /\ FreeIsDestroyed /\ [Next]_vars
  => FreeIsDestroyed'
<1> SUFFICES ASSUME Control, Placed, FreeIsDestroyed, [Next]_vars
             PROVE  FreeIsDestroyed'
  OBVIOUS
<1> DEFINE Clean(d) == \/ content[d] \in {"raw", "dead"}
                       \/ \E t \in Threads : pc[t] = "pop" /\ d \in hand[t]
<1>a. \A d \in Free : Clean(d)
  BY DEF FreeIsDestroyed, Free
<1>b. SUFFICES \A d \in Free' : Clean(d)'
  BY DEF FreeIsDestroyed, Free
<1>c. /\ \A i, j \in 1..Len(queue) : queue[i] = queue[j] => i = j
      /\ live \cap Free = {} /\ TypeOK
  BY DEF Placed, NoDoubleHandOut, Control
<1>d. Free \subseteq 1..allocated
  BY <1>c, ElementOfSeq DEF TypeOK, Free
<1>1. CASE UNCHANGED <<queue, content, hand>> /\ lock = NoThread
  <2>1. Free' = Free
    BY <1>1 DEF Free
  <2>2. \A u \in Threads : pc[u] # "pop"
    BY <1>1, NoHand
  <2> QED  BY <1>1, <1>a, <2>1, <2>2
<1>2. ASSUME NEW t \in Threads, NEW S \in SUBSET live, Destroy(t, S)
      PROVE  \A d \in Free' : Clean(d)'
  <2>1. Free' = Free /\ content' = content /\ lock = NoThread
    BY <1>2 DEF Free, Destroy, Acquire
  <2>2. \A u \in Threads : pc[u] # "pop"
    BY <2>1, NoHand
  <2> QED  BY <1>a, <2>1, <2>2
<1>3. ASSUME NEW t \in Threads, Grow(t) PROVE \A d \in Free' : Clean(d)'
  <2>1. \A u \in Threads : pc[u] # "pop"
    BY <1>3, OneHand DEF Grow
  <2>2. CASE Len(queue) < left[t]
    <3> DEFINE n == Larger(extendNum, left[t])
    <3>1. n \in Nat \ {0} /\ allocated \in Nat
      BY DEF Larger, Control, CallIsAhead, TypeOK
    <3>2. /\ queue' = Pushed(n)
          /\ content' = [d \in 1..allocated + n |->
                           IF d <= allocated THEN content[d] ELSE "raw"]
      BY <1>3, <2>2 DEF Grow
    <3> HIDE DEF n
    <3>3. Free' = Free \cup ((allocated + 1)..(allocated + n))
      BY <3>1, <3>2, <1>c, FreeAfterPush
    <3>4. \A d \in Free : content'[d] = content[d]
      BY <3>1, <3>2, <1>d
    <3>5. \A d \in (allocated + 1)..(allocated + n) : content'[d] = "raw"
      BY <3>1, <3>2
    <3> QED  BY <3>3, <3>4, <3>5, <2>1, <1>a
  <2>3. CASE ~(Len(queue) < left[t])
    BY <1>3, <2>1, <2>3, <1>a DEF Grow, Free
  <2> QED  BY <2>2, <2>3
<1>4. ASSUME NEW t \in Threads, Take(t) PROVE \A d \in Free' : Clean(d)'
  <2>1. /\ Free' = Free /\ pc'[t] = "pop" /\ queue[1] \in hand'[t]
        /\ \A d \in Free : d # queue[1] => content'[d] = content[d]
        /\ \A u \in Threads : pc[u] # "pop"
    BY <1>4, <1>d, OneHand DEF Take, Free, Control, TypeOK
  <2> QED  BY <1>a, <2>1
<1>5. ASSUME NEW t \in Threads, Pop(t) PROVE \A d \in Free' : Clean(d)'
  <2>1. Free' = Free \ {queue[1]} /\ content' = content
    BY <1>5, <1>c, FreeAfterPop DEF Pop
  <2>2. hand[t] \cap Free = {queue[1]}
    BY <1>5 DEF Placed, NoDoubleHandOut, Pop
  <2>3. \A u \in Threads : u # t => hand[u] = {}
    BY <1>5, OneHand DEF Pop
  <2> QED  BY <1>a, <2>1, <2>2, <2>3
<1>6. ASSUME NEW t \in Threads, Put(t) PROVE \A d \in Free' : Clean(d)'
  <2>1. PICK d \in hand[t] :
          /\ content' = [content EXCEPT ![d] = "dead"]
          /\ queue' = <<d>> \o queue
    BY <1>6 DEF Put
  <2>2. pc[t] = "put" /\ d \in 1..allocated /\ d \notin Free
    BY <1>6, <1>c DEF Put, Placed, NoDoubleHandOut, TypeOK
  <2>3. Free' = Free \cup {d}
    BY <2>1, <2>2, <1>c, FreeAfterPut
  <2>4. \A u \in Threads : pc[u] # "pop"
    BY <2>2, OneHand
  <2>5. \A e \in Free \cup {d} : content'[e] = IF e = d THEN "dead" ELSE content[e]
    BY <2>1, <2>2, <1>c, <1>d DEF TypeOK
  <2> QED  BY <1>a, <2>3, <2>4, <2>5
<1>7. ASSUME NEW t \in Threads, Return(t) PROVE \A d \in Free' : Clean(d)'
  <2>1. Free' = Free /\ content' = content
    BY <1>7 DEF Free, Return
  <2>2. \A u \in Threads : pc[u] # "pop"
    BY <1>7, OneHand DEF Return
  <2> QED  BY <1>a, <2>1, <2>2
<1>8. ASSUME NEW d \in live, Set(d) PROVE \A e \in Free' : Clean(e)'
  <2>1. Free' = Free /\ UNCHANGED <<pc, hand>>
    BY <1>8 DEF Set, Free
  <2>2. \A e \in Free : content'[e] = content[e]
    BY <1>8, <1>c, <1>d DEF Set, TypeOK
  <2> QED  BY <1>a, <2>1, <2>2
<1>9. CASE UNCHANGED vars
  BY <1>9, <1>a DEF vars, Free
<1> QED
  BY <1>1, <1>2, <1>3, <1>4, <1>5, <1>6, <1>7, <1>8, <1>9
  DEF Next, Step, Create, CreateGroup, Acquire

\* A struct in the free list holds no live object: what a create call overlays
\* was never constructed or has been destroyed.
THEOREM Destroyed == Spec => []FreeIsDestroyed
<1>1. Init => FreeIsDestroyed
  <2> SUFFICES ASSUME Init PROVE FreeIsDestroyed
    OBVIOUS
  <2>1. queue \in Seq(1..allocated) /\ allocated = FirstExtend
    BY InitControl DEF Control, TypeOK, Init
  <2>2. \A i \in 1..Len(queue) : queue[i] \in 1..FirstExtend
    BY <2>1, ElementOfSeq
  <2> QED  BY <2>2 DEF Init, FreeIsDestroyed
<1>2. Spec => [](Control /\ Placed /\ FreeIsDestroyed)
  BY <1>1, InitControl, NextControl, InitPlaced, NextPlaced, NextDestroyed, PTL
  DEF Spec
<1> QED  BY <1>2, PTL

-----------------------------------------------------------------------------
(* The pool implements the calls' contract *)

LEMMA StepImplements ==
  Control /\ Placed /\ [Next]_vars => [Allocator!ANext]_<<live, hand>>
<1> SUFFICES ASSUME Control, Placed, [Next]_vars
             PROVE  [Allocator!ANext]_<<live, hand>>
  OBVIOUS
<1>1. ASSUME NEW t \in Threads, NEW S \in SUBSET live, Destroy(t, S)
      PROVE  Allocator!ANext
  <2>1. hand[t] = {}
    BY <1>1, NoHand DEF Destroy, Acquire
  <2> QED
    BY <1>1, <2>1 DEF Destroy, Allocator!ANext, Allocator!TakeBack
<1>2. ASSUME NEW t \in Threads, Take(t) PROVE Allocator!ANext
  <2> DEFINE d == queue[1]
  <2>1. /\ pc[t] = "take" /\ queue # <<>>
        /\ hand' = [hand EXCEPT ![t] = @ \cup {d}]
        /\ live' = live
    BY <1>2 DEF Take
  <2>2. d \in Free
    <3>1. Len(queue) \in Nat \ {0}
      BY <2>1, PopProperties DEF Control, TypeOK
    <3> QED  BY <3>1 DEF Free
  <2>3. d \notin live
    BY <2>2 DEF Placed, NoDoubleHandOut
  <2>4. \A u \in Threads : d \notin hand[u]
    <3>1. d \notin hand[t]
      BY <2>1, <2>2 DEF Placed, NoDoubleHandOut
    <3> QED  BY <2>1, <3>1, OneHand
  <2>5. d \in hand'[t]
    BY <2>1 DEF Control, TypeOK
  <2> HIDE DEF d
  <2>6. Allocator!Find(t, d)
    BY <2>1, <2>3, <2>4 DEF Allocator!Find
  <2> QED  BY <2>5, <2>6 DEF Allocator!ANext
<1>3. ASSUME NEW t \in Threads, Put(t) PROVE Allocator!ANext
  <2>1. PICK d \in hand[t] : hand' = [hand EXCEPT ![t] = @ \ {d}]
    BY <1>3 DEF Put
  <2>2. Allocator!LetGo(t, d)
    BY <1>3, <2>1 DEF Put, Allocator!LetGo
  <2> QED  BY <2>2 DEF Allocator!ANext
<1>4. ASSUME NEW t \in Threads, Return(t) PROVE Allocator!ANext
  BY <1>4 DEF Return, Allocator!ANext, Allocator!Give
<1>5. CASE UNCHANGED <<live, hand>>
  BY <1>5
<1> QED
  BY <1>1, <1>2, <1>3, <1>4, <1>5
  DEF Next, Step, Create, CreateGroup, Grow, Pop, Set, vars

\* Every behaviour of the lock, the deque and the memory is one in which a
\* descriptor goes from nobody to a call, from the call to its caller and back.
THEOREM Refinement == Spec => ImplementsAllocator
<1>1. Init => Allocator!AInit
  BY DEF Init, Allocator!AInit
<1>2. Spec => [](Control /\ Placed)
  BY InitControl, NextControl, InitPlaced, NextPlaced, PTL DEF Spec
<1> QED
  BY <1>1, <1>2, StepImplements, PTL DEF Spec, ImplementsAllocator, Allocator!ASpec

\* What a caller gets from the contract alone: a descriptor is with one caller
\* or one call, never with two.
THEOREM ContractIsExclusive == Allocator!ASpec => []Allocator!Exclusive
<1> DEFINE Inv == Allocator!Exclusive /\ DOMAIN hand = Threads
                  /\ hand = [t \in Threads |-> hand[t]]
<1>1. Allocator!AInit => Inv
  BY DEF Allocator!AInit, Allocator!Exclusive
<1>2. Inv /\ [Allocator!ANext]_<<live, hand>> => Inv'
  <2> SUFFICES ASSUME Inv, [Allocator!ANext]_<<live, hand>> PROVE Inv'
    OBVIOUS
  <2> USE DEF Allocator!Exclusive
  <2>1. ASSUME NEW t \in Threads, NEW d, Allocator!Find(t, d) PROVE Inv'
    BY <2>1 DEF Allocator!Find
  <2>2. ASSUME NEW t \in Threads, Allocator!Give(t) PROVE Inv'
    BY <2>2 DEF Allocator!Give
  <2>3. ASSUME NEW t \in Threads, NEW S, Allocator!TakeBack(t, S) PROVE Inv'
    BY <2>3 DEF Allocator!TakeBack
  <2>4. ASSUME NEW t \in Threads, NEW d, Allocator!LetGo(t, d) PROVE Inv'
    BY <2>4 DEF Allocator!LetGo
  <2>5. CASE UNCHANGED <<live, hand>>
    BY <2>5
  <2> QED  BY <2>1, <2>2, <2>3, <2>4, <2>5 DEF Allocator!ANext
<1>3. Inv => Allocator!Exclusive
  OBVIOUS
<1> QED  BY <1>1, <1>2, <1>3, PTL DEF Allocator!ASpec
=============================================================================

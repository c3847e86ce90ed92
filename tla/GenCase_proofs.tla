--------------------------- MODULE GenCase_proofs ---------------------------
(***************************************************************************)
(* What gen_case promises of one thread's operators, for any number of     *)
(* threads and any depth of calls.  A thread touches its own stack, slots  *)
(* and frames only, so the invariant is a conjunction over the threads of  *)
(* a predicate on the values a thread has; each action is a lemma about    *)
(* that predicate, in which no variable occurs.                            *)
(***************************************************************************)
EXTENDS GenCase, FiniteSetTheorems, SequenceTheorems, TLAPS

(***************************************************************************)
(* In all that follows g is the mode of the process, d whether internal    *)
(* operators are dumped, s the stack of a thread (empty if it has none), n *)
(* the number of its slots that are taken, and f its frames.               *)
(***************************************************************************)
Last(f) == f[Len(f)]

\* What the operators that an operator calls find at the front.
Inner(g, d) == IF d THEN g ELSE 0

\* How many operators of f have pushed their mode and not popped it, if every
\* operator of f has seen the mode that is there now.
Pushes(g, f) ==
  IF g <= 0 \/ f = <<>> THEN 0
  ELSE IF Last(f).at \in {"on", "push"} THEN Len(f) - 1 ELSE Len(f)

\* How many of them have passed GEN_CASE_START and not reset their slot.
Holders(g, f) ==
  IF g <= 0 \/ f = <<>> THEN 0
  ELSE IF Last(f).at \in {"body", "reset"} THEN Len(f) ELSE Len(f) - 1

FramesOK(f) ==
  /\ f \in Seq(Frame)
  /\ \A k \in 1..Len(f) :
       /\ k < Len(f) => f[k].at = "body"
       /\ f[k].at = "on" => f[k] = NewFrame
       /\ f[k].at \in {"push", "start"} => f[k].asked /\ ~f[k].wrote
       /\ f[k].wrote => f[k].asked /\ f[k].node # 0

\* Every operator under way has seen the mode that is there now.
SawMode(g, f) ==
  \A k \in 1..Len(f) :
    /\ f[k].at # "on" => (f[k].asked <=> g > 0)
    /\ f[k].at \in {"reset", "pop"} => g > 0

\* Who writes: the first operator does, those it calls only when asked for.
WritersOK(g, d, f) ==
  \A k \in 1..Len(f) :
    /\ k = 1 /\ f[k].asked /\ f[k].at \in {"body", "reset", "restore", "pop"}
         => f[k].wrote
    /\ k > 1 /\ (f[k].at = "start" \/ f[k].wrote) => Inner(g, d) > 0

\* The stack under m operators that pushed, when none before them failed: the
\* mode, as often as there is need, and above it that of internal operators.
CleanStack(g, d, s, m) ==
  IF m = 0
  THEN \A j \in 1..Len(s) : s[j] = g
  ELSE /\ Len(s) > m
       /\ s[1] = Inner(g, d)
       /\ \A j \in 2..Len(s) : s[j] = IF j <= Len(s) - m + 1 THEN g ELSE Inner(g, d)

\* The same when some failed: at either end the mode of internal operators.
DirtyStack(g, d, s, m) ==
  /\ g > 0
  /\ Len(s) > m
  /\ s[1] = Inner(g, d)
  /\ \A j \in 1..Len(s) : j > Len(s) - m => s[j] = Inner(g, d)

\* The slots of the operators that hold one are the last ones taken, in order;
\* there are enough of them for all who will reset one.
SlotsOK(g, d, n, f, disturb) ==
  /\ d => n >= Holders(g, f)
  /\ ~disturb =>
       \A k \in 1..Len(f) :
         f[k].wrote /\ k <= Holders(g, f)
           => f[k].node = IF d THEN n - (Holders(g, f) - k) ELSE n

(***************************************************************************)
(* has: the thread has a stack; disturb and set: its two history bits.     *)
(***************************************************************************)
ThreadOK(g, d, has, s, n, f, disturb, set) ==
  /\ s \in Seq(Int) /\ n \in Nat
  /\ ~has => s = <<>>
  /\ FramesOK(f)
  /\ ~disturb \/ ~set => SawMode(g, f) /\ (has => s # <<>>)
  /\ ~disturb => CleanStack(g, d, s, Pushes(g, f)) /\ WritersOK(g, d, f)
  /\ disturb /\ ~set => DirtyStack(g, d, s, Pushes(g, f))
  /\ ~set => SlotsOK(g, d, n, f, disturb)

-----------------------------------------------------------------------------
LEMMA SetLast ==
  ASSUME NEW f \in Seq(Frame), f # <<>>, NEW x \in Frame
  PROVE  LET e == [f EXCEPT ![Len(f)] = x]
         IN /\ e \in Seq(Frame) /\ Len(e) = Len(f) /\ e # <<>>
            /\ Last(e) = x
            /\ \A k \in 1..Len(f) : e[k] = IF k = Len(f) THEN x ELSE f[k]
  BY ExceptSeq DEF Last

\* What the actions make of a frame r.
LEMMA FrameAt ==
  ASSUME NEW r \in Frame, NEW a \in Places
  PROVE  LET x == [r EXCEPT !.at = a]
         IN x \in Frame /\ x.at = a /\ x.asked = r.asked /\ x.wrote = r.wrote
            /\ x.node = r.node
  BY DEF Frame

LEMMA DropLast ==
  ASSUME NEW S, NEW f \in Seq(S), f # <<>>
  PROVE  LET e == SubSeq(f, 1, Len(f) - 1)
         IN /\ e \in Seq(S) /\ Len(e) = Len(f) - 1
            /\ \A k \in 1..Len(f) - 1 : e[k] = f[k]
  OBVIOUS

LEMMA PushedStack ==
  ASSUME NEW s \in Seq(Int), s # <<>>, InternalMode \in Int
  PROVE  /\ Pushed(s) \in Seq(Int)
         /\ Len(Pushed(s)) = Len(s) + 1
         /\ Pushed(s)[1] = InternalMode
         /\ Pushed(s)[Len(s) + 1] = s[1]
         /\ \A j \in 2..Len(s) : Pushed(s)[j] = s[j]
  BY DEF Pushed

LEMMA RestoredStack ==
  ASSUME NEW s \in Seq(Int), s # <<>>
  PROVE  /\ Restored(s) \in Seq(Int)
         /\ Len(Restored(s)) = Len(s) - 1
         /\ Len(s) > 1 => Restored(s)[1] = s[Len(s)]
         /\ \A j \in 2..Len(s) - 1 : Restored(s)[j] = s[j]
<1> DEFINE e == [s EXCEPT ![1] = s[Len(s)]]
<1>1. Len(s) \in Nat \ {0} /\ s[Len(s)] \in Int
  OBVIOUS
<1>2. /\ e \in Seq(Int) /\ Len(e) = Len(s)
      /\ \A j \in 1..Len(s) : e[j] = IF j = 1 THEN s[Len(s)] ELSE s[j]
  BY <1>1, ExceptSeq
<1>3. e # <<>>
  BY <1>1, <1>2
<1> HIDE DEF e
<1>4. LET r == SubSeq(e, 1, Len(e) - 1)
      IN /\ r \in Seq(Int) /\ Len(r) = Len(e) - 1
         /\ \A k \in 1..Len(e) - 1 : r[k] = e[k]
  BY <1>2, <1>3, DropLast
<1>5. Restored(s) = SubSeq(e, 1, Len(e) - 1)
  BY <1>2 DEF Restored, e
<1> QED  BY <1>1, <1>2, <1>4, <1>5

LEMMA Slots ==
  ASSUME NEW n \in Nat
  PROVE  /\ Cardinality(1..n) = n
         /\ (1..n) \cup {n + 1} = 1..n + 1
         /\ (1..n) \ {n} = IF n = 0 THEN {} ELSE 1..n - 1
<1>1. Cardinality(1..n) = n
  BY FS_Interval
<1>2. (1..n) \cup {n + 1} = 1..n + 1
  OBVIOUS
<1>3. (1..n) \ {n} = IF n = 0 THEN {} ELSE 1..n - 1
  OBVIOUS
<1> QED  BY <1>1, <1>2, <1>3

\* A push and a pop, with one more or less operator that pushed.
LEMMA CleanPush ==
  ASSUME NEW g \in Int, NEW d, NEW s1, NEW s2, NEW n \in Nat \ {0}, NEW m \in Nat,
         Len(s1) = n, Len(s2) = n + 1, s2[1] = Inner(g, d), s2[n + 1] = s1[1],
         \A j \in 2..n : s2[j] = s1[j],
         CleanStack(g, d, s1, m)
  PROVE  CleanStack(g, d, s2, m + 1)
<1>1. CASE m = 0
  <2>1. \A j \in 1..n : s1[j] = g
    BY <1>1 DEF CleanStack
  <2>2. \A j \in 2..n + 1 : s2[j] = g
    BY <2>1
  <2> QED  BY <1>1, <2>2 DEF CleanStack
<1>2. CASE m # 0
  <2>1. /\ n > m /\ s1[1] = Inner(g, d)
        /\ \A j \in 2..n : s1[j] = IF j <= n - m + 1 THEN g ELSE Inner(g, d)
    BY <1>2 DEF CleanStack
  <2>2. \A j \in 2..n + 1 : s2[j] = IF j <= n - m + 1 THEN g ELSE Inner(g, d)
    BY <1>2, <2>1
  <2>3. (n + 1) - (m + 1) + 1 = n - m + 1
    OBVIOUS
  <2> QED  BY <1>2, <2>1, <2>2, <2>3 DEF CleanStack
<1> QED  BY <1>1, <1>2

LEMMA CleanPop ==
  ASSUME NEW g \in Int, NEW d, NEW s1, NEW s2, NEW n \in Nat \ {0}, NEW m \in Nat \ {0},
         Len(s1) = n + 1, Len(s2) = n, s2[1] = s1[n + 1],
         \A j \in 2..n : s2[j] = s1[j],
         CleanStack(g, d, s1, m)
  PROVE  CleanStack(g, d, s2, m - 1)
<1>1. /\ n + 1 > m /\ s1[1] = Inner(g, d)
      /\ \A j \in 2..n + 1 : s1[j] = IF j <= n - m + 2 THEN g ELSE Inner(g, d)
  BY DEF CleanStack
<1>2. CASE m = 1
  <2>1. \A j \in 1..n : s2[j] = g
    BY <1>1, <1>2
  <2> QED  BY <1>2, <2>1 DEF CleanStack
<1>3. CASE m # 1
  <2>1. s2[1] = Inner(g, d) /\ n > m - 1
    BY <1>1, <1>3
  <2>2. \A j \in 2..n : s2[j] = IF j <= n - m + 2 THEN g ELSE Inner(g, d)
    BY <1>1
  <2>3. n - (m - 1) + 1 = n - m + 2 /\ m - 1 # 0
    BY <1>3
  <2> QED  BY <2>1, <2>2, <2>3 DEF CleanStack
<1> QED  BY <1>2, <1>3

LEMMA DirtyPush ==
  ASSUME NEW g \in Int, NEW d, NEW s1, NEW s2, NEW n \in Nat \ {0}, NEW m \in Nat,
         Len(s1) = n, Len(s2) = n + 1, s2[1] = Inner(g, d), s2[n + 1] = s1[1],
         \A j \in 2..n : s2[j] = s1[j],
         DirtyStack(g, d, s1, m)
  PROVE  DirtyStack(g, d, s2, m + 1)
<1>1. /\ g > 0 /\ n > m /\ s1[1] = Inner(g, d)
      /\ \A j \in 1..n : j > n - m => s1[j] = Inner(g, d)
  BY DEF DirtyStack
<1>2. \A j \in 1..n + 1 : j > n - m => s2[j] = Inner(g, d)
  BY <1>1
<1>3. (n + 1) - (m + 1) = n - m
  OBVIOUS
<1> QED  BY <1>1, <1>2, <1>3 DEF DirtyStack

LEMMA DirtyPop ==
  ASSUME NEW g \in Int, NEW d, NEW s1, NEW s2, NEW n \in Nat \ {0}, NEW m \in Nat \ {0},
         Len(s1) = n + 1, Len(s2) = n, s2[1] = s1[n + 1],
         \A j \in 2..n : s2[j] = s1[j],
         DirtyStack(g, d, s1, m)
  PROVE  DirtyStack(g, d, s2, m - 1)
<1>1. /\ g > 0 /\ n + 1 > m
      /\ \A j \in 1..n + 1 : j > n + 1 - m => s1[j] = Inner(g, d)
  BY DEF DirtyStack
<1>2. \A j \in 1..n : j > n - (m - 1) => s2[j] = Inner(g, d)
  BY <1>1
<1>3. s2[1] = Inner(g, d) /\ n > m - 1
  BY <1>1
<1> QED  BY <1>1, <1>2, <1>3 DEF DirtyStack

-----------------------------------------------------------------------------
(***************************************************************************)
(* The actions, as what they do to the values of their thread.             *)
(***************************************************************************)
LEMMA CallStep ==
  ASSUME NEW g, NEW d, NEW has, NEW s, NEW n, NEW f, NEW disturb, NEW set,
         g \in Int, d \in BOOLEAN, has \in BOOLEAN, disturb \in BOOLEAN, set \in BOOLEAN,
         ThreadOK(g, d, has, s, n, f, disturb, set),
         f # <<>> => Last(f).at = "body"
  PROVE  ThreadOK(g, d, has, s, n, Append(f, NewFrame), disturb, set)
<1> DEFINE e == Append(f, NewFrame)
<1>1. NewFrame \in Frame
  BY DEF NewFrame, Frame, Places
<1>2. f \in Seq(Frame) /\ Len(f) \in Nat
  BY DEF ThreadOK, FramesOK
<1>3. /\ e \in Seq(Frame) /\ Len(e) = Len(f) + 1 /\ e # <<>>
      /\ Last(e) = NewFrame
      /\ \A k \in 1..Len(f) : e[k] = f[k]
  BY <1>1, <1>2, AppendProperties DEF Last
<1>4. e[Len(e)] = NewFrame
  BY <1>3 DEF Last
<1> HIDE DEF e
<1>5. FramesOK(e)
  BY <1>2, <1>3, <1>4 DEF ThreadOK, FramesOK, NewFrame, Last
<1>6. Pushes(g, e) = Pushes(g, f) /\ Holders(g, e) = Holders(g, f)
  BY <1>2, <1>3 DEF Pushes, Holders, NewFrame
<1>7. SawMode(g, f) => SawMode(g, e)
  BY <1>2, <1>3, <1>4 DEF SawMode, NewFrame
<1>8. WritersOK(g, d, f) => WritersOK(g, d, e)
  BY <1>2, <1>3, <1>4 DEF WritersOK, NewFrame
<1>9. SlotsOK(g, d, n, f, disturb) => SlotsOK(g, d, n, e, disturb)
  BY <1>2, <1>3, <1>4, <1>6 DEF SlotsOK, NewFrame
<1> QED  BY <1>5, <1>6, <1>7, <1>8, <1>9 DEF ThreadOK, e

LEMMA TestOnStep ==
  ASSUME NEW g, NEW d, NEW has, NEW s, NEW n, NEW f, NEW disturb, NEW set,
         g \in Int, d \in BOOLEAN, has \in BOOLEAN, disturb \in BOOLEAN, set \in BOOLEAN,
         ThreadOK(g, d, has, s, n, f, disturb, set),
         f # <<>>, Last(f).at = "on", NEW x \in Frame,
         x.at = (IF g > 0 THEN "push" ELSE "body"), x.asked <=> g > 0,
         ~x.wrote, x.node = 0
  PROVE  ThreadOK(g, d, has, s, n, [f EXCEPT ![Len(f)] = x], disturb, set)
<1> DEFINE e == [f EXCEPT ![Len(f)] = x]
<1>1. f \in Seq(Frame) /\ Len(f) \in Nat \ {0}
  BY DEF ThreadOK, FramesOK
<1>2. Last(f) = NewFrame
  BY <1>1 DEF ThreadOK, FramesOK, Last
<1>3. x.at \in {"push", "body"} /\ (x.at = "push" => x.asked /\ g > 0)
  OBVIOUS
<1>4. /\ e \in Seq(Frame) /\ Len(e) = Len(f) /\ e # <<>> /\ Last(e) = x
      /\ \A k \in 1..Len(f) : e[k] = IF k = Len(f) THEN x ELSE f[k]
  BY <1>1, <1>3, SetLast
<1> HIDE DEF e
<1>5. FramesOK(e)
  BY <1>1, <1>3, <1>4 DEF ThreadOK, FramesOK
<1>6. Pushes(g, e) = Pushes(g, f) /\ Holders(g, e) = Holders(g, f)
  BY <1>1, <1>2, <1>3, <1>4 DEF Pushes, Holders, NewFrame
<1>7. SawMode(g, f) => SawMode(g, e)
  BY <1>1, <1>3, <1>4 DEF SawMode
<1>8. WritersOK(g, d, f) => WritersOK(g, d, e)
  BY <1>1, <1>3, <1>4 DEF WritersOK
<1>9. SlotsOK(g, d, n, f, disturb) => SlotsOK(g, d, n, e, disturb)
  BY <1>1, <1>3, <1>4, <1>6 DEF SlotsOK
<1> QED  BY <1>5, <1>6, <1>7, <1>8, <1>9 DEF ThreadOK, e

\* s2 is the stack s1 after a push that leaves i at the front.
IsPushed(s1, s2, i) ==
  /\ s1 \in Seq(Int) /\ s1 # <<>> /\ s2 \in Seq(Int)
  /\ Len(s2) = Len(s1) + 1
  /\ s2[1] = i /\ s2[Len(s2)] = s1[1]
  /\ \A j \in 2..Len(s1) : s2[j] = s1[j]

\* A thread that had no stack has its first mode pushed on a stack of that mode.
PushBase(g, has, s) == IF has THEN s ELSE <<g>>

LEMMA PushStep ==
  ASSUME NEW g, NEW d, NEW has, NEW s, NEW n, NEW f, NEW disturb, NEW set,
         g \in Int, d \in BOOLEAN, has \in BOOLEAN, disturb \in BOOLEAN, set \in BOOLEAN,
         ThreadOK(g, d, has, s, n, f, disturb, set),
         f # <<>>, Last(f).at = "push",
         NEW s2, IsPushed(PushBase(g, has, s), s2, Inner(g, d))
  PROVE  LET x == [Last(f) EXCEPT !.at = IF s2[Len(s2)] > 0 THEN "start" ELSE "body"]
         IN ThreadOK(g, d, TRUE, s2, n, [f EXCEPT ![Len(f)] = x], disturb, set)
<1> DEFINE s1 == PushBase(g, has, s)
           place == IF s2[Len(s2)] > 0 THEN "start" ELSE "body"
           x == [Last(f) EXCEPT !.at = place]
           e == [f EXCEPT ![Len(f)] = x]
<1>1. f \in Seq(Frame) /\ Len(f) \in Nat \ {0} /\ s \in Seq(Int) /\ n \in Nat
  BY DEF ThreadOK, FramesOK
<1>2. /\ has => s1 = s
      /\ ~has => Len(s1) = 1 /\ s1[1] = g
      /\ IsPushed(s1, s2, Inner(g, d))
  BY DEF PushBase
<1> HIDE DEF s1
<1>3. /\ Len(s1) \in Nat \ {0} /\ Len(s2) = Len(s1) + 1
       /\ s2 \in Seq(Int) /\ s2[1] = Inner(g, d) /\ s2[Len(s2)] = s1[1]
       /\ \A j \in 2..Len(s1) : s2[j] = s1[j]
  BY <1>2 DEF IsPushed
<1>4. Last(f) \in Frame /\ Last(f).asked /\ ~Last(f).wrote
  BY <1>1 DEF ThreadOK, FramesOK, Last
<1>5. place \in Places
  BY DEF Places
<1>6. x \in Frame /\ x.at = place /\ x.asked /\ ~x.wrote
  BY <1>4, <1>5, FrameAt
<1> HIDE DEF x
<1>7. /\ e \in Seq(Frame) /\ Len(e) = Len(f) /\ e # <<>> /\ Last(e) = x
      /\ \A k \in 1..Len(f) : e[k] = IF k = Len(f) THEN x ELSE f[k]
  BY <1>1, <1>6, SetLast
<1> HIDE DEF e
<1>8. FramesOK(e)
  <2>1. x.at \in {"start", "body"}
    BY <1>6
  <2> HIDE DEF place
  <2> QED  BY <1>1, <1>6, <1>7, <2>1 DEF ThreadOK, FramesOK
<1>9. ASSUME ~disturb \/ ~set
      PROVE  /\ SawMode(g, e) /\ s2 # <<>> /\ g > 0
             /\ Pushes(g, f) = Len(f) - 1 /\ Pushes(g, e) = Len(f)
             /\ Holders(g, f) = Len(f) - 1
             /\ Holders(g, e) = IF place = "start" THEN Len(f) - 1 ELSE Len(f)
  <2>1. g > 0
    BY <1>1, <1>4, <1>9 DEF ThreadOK, SawMode, Last
  <2>2. SawMode(g, e)
    BY <1>1, <1>6, <1>7, <1>9, <2>1 DEF ThreadOK, SawMode
  <2>3. s2 # <<>>
    BY <1>3
  <2> QED  BY <1>1, <1>6, <1>7, <2>1, <2>2, <2>3 DEF Pushes, Holders
<1>10. ASSUME ~disturb
      PROVE  CleanStack(g, d, s2, Pushes(g, e)) /\ WritersOK(g, d, e)
  <2> DEFINE m == Len(f) - 1
  <2>1. m \in Nat /\ m + 1 = Len(f) /\ CleanStack(g, d, s, m) /\ g > 0
    BY <1>1, <1>9, <1>10 DEF ThreadOK
  <2> HIDE DEF m
  <2>2. CleanStack(g, d, s1, m)
    <3>1. CASE has
      BY <1>2, <2>1, <3>1
    <3>2. CASE ~has
      <4>1. Len(s) = 0
        BY <3>2 DEF ThreadOK
      <4>2. m = 0
        BY <2>1, <4>1 DEF CleanStack
      <4>3. Len(s1) = 1 /\ s1[1] = g
        BY <1>2, <3>2
      <4>4. \A j \in 1..1 : s1[j] = g
        BY <4>3
      <4> QED  BY <4>2, <4>3, <4>4 DEF CleanStack
    <3> QED  BY <3>1, <3>2
  <2>3. CleanStack(g, d, s2, Len(f))
    <3>1. s2[Len(s1) + 1] = s1[1]
      BY <1>3
    <3>2. CleanStack(g, d, s2, m + 1)
      BY <1>3, <2>1, <2>2, <3>1, CleanPush
    <3> QED  BY <2>1, <3>2
  <2>4. s1[1] = IF m = 0 THEN g ELSE Inner(g, d)
    BY <1>3, <2>2 DEF CleanStack
  <2>5. WritersOK(g, d, e)
    <3>1. WritersOK(g, d, f)
      BY <1>10 DEF ThreadOK
    <3>2. Len(f) = 1 => place = "start"
      BY <1>1, <1>3, <2>1, <2>4
    <3>3. Len(f) > 1 /\ place = "start" => Inner(g, d) > 0
      BY <1>1, <1>3, <2>1, <2>4
    <3> HIDE DEF place
    <3> QED  BY <1>1, <1>6, <1>7, <3>1, <3>2, <3>3 DEF WritersOK
  <2> QED  BY <1>9, <1>10, <2>3, <2>5
<1>11. ASSUME disturb, ~set
      PROVE  DirtyStack(g, d, s2, Pushes(g, e))
  <2>1. DirtyStack(g, d, s, Len(f) - 1)
    BY <1>9, <1>11 DEF ThreadOK
  <2>2. has /\ s1 = s /\ Len(s) \in Nat \ {0}
    BY <1>1, <1>2, <2>1 DEF DirtyStack, ThreadOK
  <2> DEFINE m == Len(f) - 1
  <2>3. m \in Nat /\ m + 1 = Len(f) /\ DirtyStack(g, d, s1, m)
    BY <1>1, <2>1, <2>2
  <2> HIDE DEF m
  <2>4. s2[Len(s1) + 1] = s1[1]
    BY <1>3
  <2>5. DirtyStack(g, d, s2, m + 1)
    BY <1>3, <2>3, <2>4, DirtyPush
  <2> QED  BY <1>9, <1>11, <2>3, <2>5
<1>12. ASSUME ~set
       PROVE  SlotsOK(g, d, n, e, disturb)
  <2>1. SlotsOK(g, d, n, f, disturb)
    BY <1>12 DEF ThreadOK
  <2>2. d => place = "start"
    <3>1. CASE ~disturb
      BY <1>1, <1>2, <1>3, <1>9, <1>12, <3>1 DEF ThreadOK, CleanStack, Inner
    <3>2. CASE disturb
      BY <1>1, <1>2, <1>3, <1>9, <1>12, <3>2 DEF ThreadOK, DirtyStack, Inner
    <3> QED  BY <3>1, <3>2
  <2>3. d => Holders(g, e) = Holders(g, f)
    BY <1>9, <1>12, <2>2
  <2>4. ASSUME ~disturb, NEW k \in 1..Len(e), e[k].wrote, k <= Holders(g, e)
        PROVE  e[k].node = IF d THEN n - (Holders(g, e) - k) ELSE n
    <3>1. k < Len(f) /\ e[k] = f[k] /\ Holders(g, f) = Len(f) - 1
      BY <1>1, <1>6, <1>7, <1>9, <1>12, <2>4
    <3>2. k \in 1..Len(f) /\ f[k].wrote /\ k <= Holders(g, f)
      BY <1>1, <2>4, <3>1
    <3>3. f[k].node = IF d THEN n - (Holders(g, f) - k) ELSE n
      BY <2>1, <2>4, <3>2 DEF SlotsOK
    <3> QED  BY <2>3, <3>1, <3>3
  <2> QED  BY <2>1, <2>3, <2>4 DEF SlotsOK
<1> QED  BY <1>1, <1>3, <1>8, <1>9, <1>10, <1>11, <1>12 DEF ThreadOK, e, x, place

LEMMA StartStep ==
  ASSUME NEW g, NEW d, NEW has, NEW s, NEW n, NEW f, NEW disturb, NEW set,
         g \in Int, d \in BOOLEAN, has \in BOOLEAN, disturb \in BOOLEAN, set \in BOOLEAN,
         ThreadOK(g, d, has, s, n, f, disturb, set),
         f # <<>>, Last(f).at = "start", NEW i, i = n + 1,
         NEW x \in Frame, x.at = "body", x.asked = Last(f).asked, x.wrote, x.node = i
  PROVE  ThreadOK(g, d, has, s, i, [f EXCEPT ![Len(f)] = x], disturb, set)
<1> DEFINE e == [f EXCEPT ![Len(f)] = x]
<1>1. f \in Seq(Frame) /\ Len(f) \in Nat \ {0} /\ s \in Seq(Int) /\ n \in Nat
  BY DEF ThreadOK, FramesOK
<1>2. Last(f) \in Frame /\ Last(f).asked
  BY <1>1 DEF ThreadOK, FramesOK, Last
<1>3. i \in Nat
  BY <1>1
<1>4. x.asked
  BY <1>2
<1>5. /\ e \in Seq(Frame) /\ Len(e) = Len(f) /\ e # <<>> /\ Last(e) = x
      /\ \A k \in 1..Len(f) : e[k] = IF k = Len(f) THEN x ELSE f[k]
  BY <1>1, <1>4, SetLast
<1> HIDE DEF e
<1>6. FramesOK(e)
  BY <1>1, <1>4, <1>5 DEF ThreadOK, FramesOK
<1>7. ASSUME ~disturb \/ ~set
      PROVE  /\ SawMode(g, e) /\ g > 0
             /\ Pushes(g, e) = Pushes(g, f)
             /\ Holders(g, f) = Len(f) - 1 /\ Holders(g, e) = Len(f)
  <2>1. g > 0
    BY <1>1, <1>2, <1>7 DEF ThreadOK, SawMode, Last
  <2>2. SawMode(g, e)
    BY <1>1, <1>4, <1>5, <1>7, <2>1 DEF ThreadOK, SawMode
  <2> QED  BY <1>1, <1>4, <1>5, <2>1, <2>2 DEF Pushes, Holders
<1>8. ASSUME ~disturb
      PROVE  WritersOK(g, d, e)
  BY <1>1, <1>4, <1>5, <1>8 DEF ThreadOK, WritersOK, Last
<1>9. ASSUME ~set
      PROVE  SlotsOK(g, d, i, e, disturb)
  <2>1. SlotsOK(g, d, n, f, disturb)
    BY <1>9 DEF ThreadOK
  <2>2. ~disturb /\ Len(f) > 1 => d
    BY <1>1 DEF ThreadOK, WritersOK, Inner, Last
  <2>3. ASSUME ~disturb, NEW k \in 1..Len(e), e[k].wrote, k <= Holders(g, e)
        PROVE  e[k].node = IF d THEN i - (Holders(g, e) - k) ELSE i
    <3>1. CASE k = Len(f)
      BY <1>1, <1>3, <1>4, <1>5, <1>7, <1>9, <3>1
    <3>2. CASE k # Len(f)
      <4>1. d /\ k <= Holders(g, f) /\ e[k] = f[k] /\ k \in 1..Len(f)
        BY <1>1, <1>5, <1>7, <1>9, <2>2, <2>3, <3>2
      <4>2. f[k].node = n - (Holders(g, f) - k)
        BY <2>1, <2>3, <4>1 DEF SlotsOK
      <4>3. Holders(g, f) = Len(f) - 1 /\ Holders(g, e) = Len(f)
        BY <1>7, <1>9
      <4> QED  BY <1>1, <4>1, <4>2, <4>3
    <3> QED  BY <3>1, <3>2
  <2> QED  BY <1>1, <1>7, <1>9, <2>1, <2>3 DEF SlotsOK
<1> QED  BY <1>1, <1>6, <1>7, <1>8, <1>9 DEF ThreadOK, e

LEMMA EndStep ==
  ASSUME NEW g, NEW d, NEW has, NEW s, NEW n, NEW f, NEW disturb, NEW set,
         g \in Int, d \in BOOLEAN, has \in BOOLEAN, disturb \in BOOLEAN, set \in BOOLEAN,
         ThreadOK(g, d, has, s, n, f, disturb, set),
         f # <<>>, Last(f).at = "body"
  PROVE  LET x == [Last(f) EXCEPT !.at = IF g > 0 THEN "reset" ELSE "restore"]
         IN ThreadOK(g, d, has, s, n, [f EXCEPT ![Len(f)] = x], disturb, set)
<1> DEFINE place == IF g > 0 THEN "reset" ELSE "restore"
           x == [Last(f) EXCEPT !.at = place]
           e == [f EXCEPT ![Len(f)] = x]
<1>1. f \in Seq(Frame) /\ Len(f) \in Nat \ {0} /\ f[Len(f)] = Last(f)
  BY DEF ThreadOK, FramesOK, Last
<1>2. Last(f) \in Frame /\ (Last(f).wrote => Last(f).asked /\ Last(f).node # 0)
  BY <1>1 DEF ThreadOK, FramesOK
<1>3. place \in Places /\ place \in {"reset", "restore"} /\ (place = "reset" <=> g > 0)
  BY DEF Places
<1> HIDE DEF place
<1>4. /\ x \in Frame /\ x.at = place /\ x.asked = Last(f).asked
      /\ x.wrote = Last(f).wrote /\ x.node = Last(f).node
  BY <1>2, <1>3, FrameAt
<1> HIDE DEF x
<1>5. /\ e \in Seq(Frame) /\ Len(e) = Len(f) /\ e # <<>> /\ Last(e) = x
      /\ \A k \in 1..Len(f) : e[k] = IF k = Len(f) THEN x ELSE f[k]
  BY <1>1, <1>4, SetLast
<1> HIDE DEF e
<1>6. FramesOK(e)
  BY <1>1, <1>2, <1>3, <1>4, <1>5 DEF ThreadOK, FramesOK
<1>7. Pushes(g, e) = Pushes(g, f) /\ Holders(g, e) = Holders(g, f)
  BY <1>1, <1>3, <1>4, <1>5 DEF Pushes, Holders
<1>8. SawMode(g, f) => SawMode(g, e)
  BY <1>1, <1>3, <1>4, <1>5 DEF SawMode
<1>9. WritersOK(g, d, f) => WritersOK(g, d, e)
  BY <1>1, <1>3, <1>4, <1>5 DEF WritersOK
<1>10. SlotsOK(g, d, n, f, disturb) => SlotsOK(g, d, n, e, disturb)
  BY <1>1, <1>4, <1>5, <1>7 DEF SlotsOK
<1> QED  BY <1>6, <1>7, <1>8, <1>9, <1>10 DEF ThreadOK, e, x, place

\* The slot that is reset is there unless the mode was set under an operator,
\* and so is the thread's stack.
LEMMA ResetFinds ==
  ASSUME NEW g, NEW d, NEW has, NEW s, NEW n, NEW f, NEW disturb, NEW set,
         g \in Int, d \in BOOLEAN, has \in BOOLEAN, disturb \in BOOLEAN, set \in BOOLEAN,
         ThreadOK(g, d, has, s, n, f, disturb, set),
         f # <<>>, Last(f).at = "reset", ~set
  PROVE  /\ has /\ s # <<>>
         /\ s[Len(s)] > 0 => n > 0
         /\ ~disturb => (s[Len(s)] > 0 <=> d \/ Len(f) = 1)
<1>1. /\ f \in Seq(Frame) /\ Len(f) \in Nat \ {0} /\ f[Len(f)] = Last(f)
      /\ s \in Seq(Int) /\ n \in Nat /\ Len(s) \in Nat
  BY DEF ThreadOK, FramesOK, Last
<1>2. g > 0 /\ Last(f).asked
  BY <1>1 DEF ThreadOK, SawMode
<1>3. Pushes(g, f) = Len(f) /\ Holders(g, f) = Len(f)
  BY <1>2 DEF Pushes, Holders
<1>4. SlotsOK(g, d, n, f, disturb)
  BY DEF ThreadOK
<1>5. CASE disturb
  <2>1. Len(s) > Len(f) /\ \A j \in 1..Len(s) : j > Len(s) - Len(f) => s[j] = Inner(g, d)
    BY <1>3, <1>5 DEF ThreadOK, DirtyStack
  <2>2. s[Len(s)] = Inner(g, d) /\ s # <<>>
    BY <1>1, <2>1
  <2>3. d => n > 0
    BY <1>1, <1>3, <1>4 DEF SlotsOK
  <2> QED  BY <1>5, <2>2, <2>3 DEF ThreadOK, Inner
<1>6. CASE ~disturb
  <2>1. CleanStack(g, d, s, Len(f)) /\ WritersOK(g, d, f)
    BY <1>3, <1>6 DEF ThreadOK
  <2>2. s[Len(s)] = (IF Len(f) = 1 THEN g ELSE Inner(g, d)) /\ s # <<>>
    <3>1. /\ Len(s) > Len(f)
          /\ \A j \in 2..Len(s) :
               s[j] = IF j <= Len(s) - Len(f) + 1 THEN g ELSE Inner(g, d)
      BY <1>1, <2>1 DEF CleanStack
    <3>2. Len(s) \in Nat /\ Len(f) \in Nat \ {0} /\ Len(s) > Len(f)
      BY <1>1, <3>1
    <3>3. Len(s) <= Len(s) - Len(f) + 1 <=> Len(f) = 1
      <4> DEFINE q == Len(s)
                 m == Len(f)
      <4>1. q \in Nat /\ m \in Nat \ {0}
        BY <3>2
      <4> HIDE DEF q, m
      <4>2. q <= q - m + 1 <=> m = 1
        BY <4>1
      <4> QED  BY <4>2 DEF q, m
    <3>4. Len(s) \in 2..Len(s) /\ s # <<>>
      BY <3>2
    <3>5. s[Len(s)] = IF Len(s) <= Len(s) - Len(f) + 1 THEN g ELSE Inner(g, d)
      BY <3>1, <3>4
    <3> QED  BY <3>3, <3>4, <3>5
  <2>3. CASE d
    <3>1. n > 0
      BY <1>1, <1>3, <1>4, <2>3 DEF SlotsOK
    <3> QED  BY <1>2, <2>2, <2>3, <3>1 DEF ThreadOK, Inner
  <2>4. CASE ~d /\ Len(f) = 1
    <3>1. Last(f).wrote
      BY <1>1, <1>2, <2>1, <2>4 DEF WritersOK
    <3>2. Last(f).node = n
      BY <1>1, <1>3, <1>4, <1>6, <2>4, <3>1 DEF SlotsOK
    <3>3. Last(f).node # 0
      BY <1>1, <3>1 DEF ThreadOK, FramesOK
    <3> QED  BY <1>1, <1>2, <2>2, <2>4, <3>2, <3>3 DEF ThreadOK
  <2>5. CASE ~d /\ Len(f) # 1
    BY <2>2, <2>5 DEF ThreadOK, Inner
  <2> QED  BY <2>3, <2>4, <2>5
<1> QED  BY <1>5, <1>6

LEMMA ResetStep ==
  ASSUME NEW g, NEW d, NEW has, NEW s, NEW n, NEW f, NEW disturb, NEW set,
         g \in Int, d \in BOOLEAN, has \in BOOLEAN, disturb \in BOOLEAN, set \in BOOLEAN,
         ThreadOK(g, d, has, s, n, f, disturb, set),
         f # <<>>, Last(f).at = "reset", NEW i \in Nat,
         i = IF s[Len(s)] > 0 /\ n > 0 THEN n - 1 ELSE n
  PROVE  LET x == [Last(f) EXCEPT !.at = "restore"]
         IN ThreadOK(g, d, has, s, i, [f EXCEPT ![Len(f)] = x], disturb, set)
<1> DEFINE x == [Last(f) EXCEPT !.at = "restore"]
           e == [f EXCEPT ![Len(f)] = x]
<1>1. /\ f \in Seq(Frame) /\ Len(f) \in Nat \ {0} /\ f[Len(f)] = Last(f)
      /\ n \in Nat
  BY DEF ThreadOK, FramesOK, Last
<1>2. Last(f) \in Frame /\ (Last(f).wrote => Last(f).asked /\ Last(f).node # 0)
  BY <1>1 DEF ThreadOK, FramesOK
<1>3. "restore" \in Places
  BY DEF Places
<1>4. /\ x \in Frame /\ x.at = "restore" /\ x.asked = Last(f).asked
      /\ x.wrote = Last(f).wrote /\ x.node = Last(f).node
  BY <1>2, <1>3, FrameAt
<1> HIDE DEF x
<1>5. /\ e \in Seq(Frame) /\ Len(e) = Len(f) /\ e # <<>> /\ Last(e) = x
      /\ \A k \in 1..Len(f) : e[k] = IF k = Len(f) THEN x ELSE f[k]
  BY <1>1, <1>4, SetLast
<1> HIDE DEF e
<1>6. FramesOK(e)
  BY <1>1, <1>2, <1>4, <1>5 DEF ThreadOK, FramesOK
<1>7. Pushes(g, e) = Pushes(g, f)
  BY <1>1, <1>4, <1>5 DEF Pushes
<1>8. SawMode(g, f) => SawMode(g, e)
  BY <1>1, <1>4, <1>5 DEF SawMode
<1>9. WritersOK(g, d, f) => WritersOK(g, d, e)
  BY <1>1, <1>4, <1>5 DEF WritersOK
<1>10. ASSUME ~set
       PROVE  SlotsOK(g, d, i, e, disturb)
  <2>1. SlotsOK(g, d, n, f, disturb) /\ g > 0
    BY <1>1, <1>10 DEF ThreadOK, SawMode
  <2>2. Holders(g, f) = Len(f) /\ Holders(g, e) = Len(f) - 1
    BY <1>1, <1>4, <1>5, <2>1 DEF Holders
  <2>3. /\ s[Len(s)] > 0 => n > 0
        /\ ~disturb => (s[Len(s)] > 0 <=> d \/ Len(f) = 1)
    BY <1>10, ResetFinds
  <2>4. d => i >= Holders(g, e)
    <3>1. d => n >= Len(f)
      BY <2>1, <2>2 DEF SlotsOK
    <3>2. i >= n - 1
      BY <1>1
    <3> QED  BY <1>1, <2>2, <3>1, <3>2
  <2>5. ASSUME ~disturb, NEW k \in 1..Len(e), e[k].wrote, k <= Holders(g, e)
        PROVE  e[k].node = IF d THEN i - (Holders(g, e) - k) ELSE i
    <3>1. k < Len(f) /\ e[k] = f[k] /\ k \in 1..Len(f) /\ Len(f) # 1
      BY <1>1, <1>5, <2>2, <2>5
    <3>2. f[k].node = IF d THEN n - (Len(f) - k) ELSE n
      BY <2>1, <2>2, <2>5, <3>1 DEF SlotsOK
    <3>3. CASE d
      <4>1. i = n - 1
        BY <2>3, <2>5, <3>3
      <4> QED  BY <1>1, <2>2, <3>1, <3>2, <3>3, <4>1
    <3>4. CASE ~d
      <4>1. i = n
        BY <2>3, <2>5, <3>1, <3>4
      <4> QED  BY <3>1, <3>2, <3>4, <4>1
    <3> QED  BY <3>3, <3>4
  <2> QED  BY <2>4, <2>5 DEF SlotsOK
<1> QED  BY <1>6, <1>7, <1>8, <1>9, <1>10 DEF ThreadOK, e, x

\* e is what is left of the frames f when the last operator returns.
Left(g, d, f, e) ==
  /\ FramesOK(e)
  /\ Len(e) = Len(f) - 1 /\ Len(f) \in Nat \ {0}
  /\ \A k \in 1..Len(e) : e[k] = f[k]
  /\ SawMode(g, f) => SawMode(g, e)
  /\ WritersOK(g, d, f) => WritersOK(g, d, e)
  /\ Pushes(g, f) = IF g > 0 THEN Len(f) ELSE 0
  /\ Pushes(g, e) = IF g > 0 THEN Len(f) - 1 ELSE 0
  /\ g > 0 /\ Last(f).at = "body" => Holders(g, f) = Len(f)
  /\ g > 0 /\ Last(f).at \in {"restore", "pop"} => Holders(g, f) = Len(f) - 1
  /\ Holders(g, e) = IF g > 0 THEN Len(f) - 1 ELSE 0

LEMMA LeaveFrames ==
  ASSUME NEW g \in Int, NEW d \in BOOLEAN, NEW f, FramesOK(f), f # <<>>,
         Last(f).at \in {"body", "restore", "pop"}
  PROVE  Left(g, d, f, SubSeq(f, 1, Len(f) - 1))
<1> DEFINE e == SubSeq(f, 1, Len(f) - 1)
<1>1. f \in Seq(Frame) /\ Len(f) \in Nat \ {0}
  BY DEF FramesOK
<1>2. /\ e \in Seq(Frame) /\ Len(e) = Len(f) - 1
      /\ \A k \in 1..Len(f) - 1 : e[k] = f[k]
  BY <1>1, DropLast
<1> HIDE DEF e
<1>3. e # <<>> => Last(e).at = "body"
  <2>1. \A k \in 1..Len(f) : k < Len(f) => f[k].at = "body"
    BY DEF FramesOK
  <2>2. e # <<>> => Len(e) \in 1..Len(f) - 1
    BY <1>1, <1>2
  <2> QED  BY <1>1, <1>2, <2>1, <2>2 DEF Last
<1>4. FramesOK(e)
  BY <1>1, <1>2 DEF FramesOK
<1>5. SawMode(g, f) => SawMode(g, e)
  BY <1>1, <1>2 DEF SawMode
<1>6. WritersOK(g, d, f) => WritersOK(g, d, e)
  <2>1. \A k \in 1..Len(e) : k \in 1..Len(f) /\ e[k] = f[k]
    BY <1>1, <1>2
  <2> QED  BY <2>1 DEF WritersOK
<1>7. e = <<>> => Len(f) - 1 = 0
  BY <1>1, <1>2
<1>8. /\ Pushes(g, f) = IF g > 0 THEN Len(f) ELSE 0
      /\ Pushes(g, e) = IF g > 0 THEN Len(f) - 1 ELSE 0
  BY <1>1, <1>2, <1>3, <1>7 DEF Pushes
<1>9. /\ g > 0 /\ Last(f).at = "body" => Holders(g, f) = Len(f)
      /\ g > 0 /\ Last(f).at \in {"restore", "pop"} => Holders(g, f) = Len(f) - 1
      /\ Holders(g, e) = IF g > 0 THEN Len(f) - 1 ELSE 0
  BY <1>1, <1>2, <1>3, <1>7 DEF Holders
<1>10. \A k \in 1..Len(e) : e[k] = f[k]
  BY <1>1, <1>2
<1>11. Left(g, d, f, e)
  BY <1>1, <1>2, <1>4, <1>5, <1>6, <1>8, <1>9, <1>10 DEF Left
<1> QED  BY <1>11 DEF e

LEMMA FailStep ==
  ASSUME NEW g, NEW d, NEW has, NEW s, NEW n, NEW f, NEW disturb, NEW set,
         g \in Int, d \in BOOLEAN, has \in BOOLEAN, disturb \in BOOLEAN, set \in BOOLEAN,
         ThreadOK(g, d, has, s, n, f, disturb, set),
         f # <<>>, Last(f).at = "body",
         NEW disturb2 \in BOOLEAN, disturb2 <=> disturb \/ Last(f).asked
  PROVE  ThreadOK(g, d, has, s, n, SubSeq(f, 1, Len(f) - 1), disturb2, set)
<1> SUFFICES ASSUME NEW e, e = SubSeq(f, 1, Len(f) - 1)
             PROVE  ThreadOK(g, d, has, s, n, e, disturb2, set)
  OBVIOUS
<1>1. FramesOK(f) /\ n \in Nat
  BY DEF ThreadOK
<1>2. n \in Nat /\ Left(g, d, f, e)
  BY <1>1, LeaveFrames
<1>3. /\ FramesOK(e)
      /\ Len(e) = Len(f) - 1 /\ Len(f) \in Nat \ {0}
      /\ SawMode(g, f) => SawMode(g, e)
      /\ WritersOK(g, d, f) => WritersOK(g, d, e)
      /\ Pushes(g, f) = IF g > 0 THEN Len(f) ELSE 0
      /\ Pushes(g, e) = IF g > 0 THEN Len(f) - 1 ELSE 0
      /\ g > 0 => Holders(g, f) = Len(f)
      /\ Holders(g, e) = IF g > 0 THEN Len(f) - 1 ELSE 0
  BY <1>2 DEF Left
<1>4. ~disturb \/ ~set => SawMode(g, f) /\ (Last(f).asked <=> g > 0)
  BY <1>3 DEF ThreadOK, SawMode, Last
<1>5. ASSUME ~disturb2
      PROVE  CleanStack(g, d, s, Pushes(g, e)) /\ WritersOK(g, d, e)
  BY <1>3, <1>4, <1>5 DEF ThreadOK
<1>6. ASSUME disturb2, ~set
      PROVE  DirtyStack(g, d, s, Pushes(g, e))
  <2> DEFINE m == Len(f)
  <2>1. m \in Nat \ {0} /\ s \in Seq(Int) /\ Len(s) \in Nat
    BY <1>3 DEF ThreadOK
  <2>2. CASE disturb
    <3>1. DirtyStack(g, d, s, m) /\ g > 0
      BY <1>3, <1>6, <2>2 DEF ThreadOK, DirtyStack
    <3> HIDE DEF m
    <3>2. DirtyStack(g, d, s, m - 1)
      BY <2>1, <3>1 DEF DirtyStack
    <3> QED  BY <1>3, <3>1, <3>2 DEF m
  <2>3. CASE ~disturb
    <3>1. CleanStack(g, d, s, m) /\ g > 0
      BY <1>3, <1>4, <1>6, <2>3 DEF ThreadOK
    <3> HIDE DEF m
    <3>2. /\ Len(s) > m /\ s[1] = Inner(g, d)
          /\ \A j \in 2..Len(s) :
               s[j] = IF j <= Len(s) - m + 1 THEN g ELSE Inner(g, d)
      BY <2>1, <3>1 DEF CleanStack
    <3>3. \A j \in 1..Len(s) : j > Len(s) - (m - 1) => s[j] = Inner(g, d)
      BY <2>1, <3>2
    <3>4. DirtyStack(g, d, s, m - 1)
      BY <2>1, <3>1, <3>2, <3>3 DEF DirtyStack
    <3> QED  BY <1>3, <3>1, <3>4 DEF m
  <2> QED  BY <2>2, <2>3
<1>7. ASSUME ~set
      PROVE  SlotsOK(g, d, n, e, disturb2)
  <2>1. d => n >= Holders(g, f)
    BY <1>7 DEF ThreadOK, SlotsOK
  <2>2. g > 0 => Holders(g, e) <= Holders(g, f)
    BY <1>3
  <2>3. ~disturb2 => Holders(g, e) = 0
    BY <1>3, <1>4, <1>7
  <2>4. d => n >= Holders(g, e)
    BY <1>2, <1>3, <2>1, <2>2
  <2>5. \A k \in 1..Len(e) : ~(k <= 0)
    BY <1>3
  <2> QED  BY <2>3, <2>4, <2>5 DEF SlotsOK
<1>8. ~disturb2 \/ ~set => SawMode(g, e) /\ (has => s # <<>>)
  BY <1>3 DEF ThreadOK
<1> QED  BY <1>3, <1>5, <1>6, <1>7, <1>8 DEF ThreadOK

\* An operator that saw the mode on goes on to pop the stack.
LEMMA AskStep ==
  ASSUME NEW g, NEW d, NEW has, NEW s, NEW n, NEW f, NEW disturb, NEW set,
         g \in Int, d \in BOOLEAN, has \in BOOLEAN, disturb \in BOOLEAN, set \in BOOLEAN,
         ThreadOK(g, d, has, s, n, f, disturb, set),
         f # <<>>, Last(f).at = "restore", g > 0
  PROVE  LET x == [Last(f) EXCEPT !.at = "pop"]
         IN ThreadOK(g, d, has, s, n, [f EXCEPT ![Len(f)] = x], disturb, set)
<1> DEFINE x == [Last(f) EXCEPT !.at = "pop"]
           e == [f EXCEPT ![Len(f)] = x]
<1>1. f \in Seq(Frame) /\ Len(f) \in Nat \ {0} /\ f[Len(f)] = Last(f)
  BY DEF ThreadOK, FramesOK, Last
<1>2. Last(f) \in Frame /\ (Last(f).wrote => Last(f).asked /\ Last(f).node # 0)
  BY <1>1 DEF ThreadOK, FramesOK
<1>3. "pop" \in Places
  BY DEF Places
<1>4. /\ x \in Frame /\ x.at = "pop" /\ x.asked = Last(f).asked
      /\ x.wrote = Last(f).wrote /\ x.node = Last(f).node
  BY <1>2, <1>3, FrameAt
<1> HIDE DEF x
<1>5. /\ e \in Seq(Frame) /\ Len(e) = Len(f) /\ e # <<>> /\ Last(e) = x
      /\ \A k \in 1..Len(f) : e[k] = IF k = Len(f) THEN x ELSE f[k]
  BY <1>1, <1>4, SetLast
<1> HIDE DEF e
<1>6. FramesOK(e)
  BY <1>1, <1>2, <1>4, <1>5 DEF ThreadOK, FramesOK
<1>7. Pushes(g, e) = Pushes(g, f) /\ Holders(g, e) = Holders(g, f)
  BY <1>1, <1>4, <1>5 DEF Pushes, Holders
<1>8. SawMode(g, f) => SawMode(g, e)
  BY <1>1, <1>4, <1>5 DEF SawMode
<1>9. WritersOK(g, d, f) => WritersOK(g, d, e)
  BY <1>1, <1>4, <1>5 DEF WritersOK
<1>10. SlotsOK(g, d, n, f, disturb) => SlotsOK(g, d, n, e, disturb)
  BY <1>1, <1>4, <1>5, <1>7 DEF SlotsOK
<1> QED  BY <1>6, <1>7, <1>8, <1>9, <1>10 DEF ThreadOK, e, x

\* The stack is popped and the operator returns; if the mode is off by then, it
\* was set under the operator ...
LEMMA RestoreStep ==
  ASSUME NEW g, NEW d, NEW has, NEW s, NEW n, NEW f, NEW disturb, NEW set,
         g \in Int, d \in BOOLEAN, has \in BOOLEAN, disturb \in BOOLEAN, set \in BOOLEAN,
         ThreadOK(g, d, has, s, n, f, disturb, set),
         f # <<>>, Last(f).at = "pop", has, s # <<>>
  PROVE  ThreadOK(g, d, has, Restored(s), n, SubSeq(f, 1, Len(f) - 1), disturb, set)
<1> DEFINE e == SubSeq(f, 1, Len(f) - 1)
           s2 == Restored(s)
           m == Len(f)
           h == Len(s) - 1
<1>1. FramesOK(f) /\ n \in Nat /\ s \in Seq(Int)
  BY DEF ThreadOK
<1>2. Left(g, d, f, e)
  BY <1>1, LeaveFrames
<1> HIDE DEF e
<1>3. /\ FramesOK(e)
      /\ Len(e) = m - 1 /\ m \in Nat \ {0}
      /\ \A k \in 1..Len(e) : e[k] = f[k]
      /\ SawMode(g, f) => SawMode(g, e)
      /\ WritersOK(g, d, f) => WritersOK(g, d, e)
      /\ g > 0 => /\ Pushes(g, f) = m /\ Pushes(g, e) = m - 1
                  /\ Holders(g, f) = m - 1 /\ Holders(g, e) = m - 1
  BY <1>2 DEF Left
<1>0. ~disturb \/ ~set => g > 0
  <2>1. m \in 1..m /\ f[m].at = "pop"
    BY <1>3 DEF Last
  <2> HIDE DEF m
  <2>2. SawMode(g, f) => g > 0
    BY <1>3, <2>1 DEF SawMode, m
  <2> QED  BY <2>2 DEF ThreadOK
<1>4. /\ s2 \in Seq(Int) /\ Len(s2) = h
      /\ h > 0 => s2[1] = s[h + 1]
      /\ \A j \in 2..h : s2[j] = s[j]
  <2>1. /\ s2 \in Seq(Int) /\ Len(s2) = Len(s) - 1
        /\ Len(s) > 1 => s2[1] = s[Len(s)]
        /\ \A j \in 2..Len(s) - 1 : s2[j] = s[j]
    BY <1>1, RestoredStack
  <2> HIDE DEF s2
  <2> QED  BY <1>1, <2>1
<1>5. Len(s) = h + 1 /\ h \in Nat
  BY <1>1
<1> HIDE DEF s2, m, h
<1>6. ASSUME ~disturb
      PROVE  CleanStack(g, d, s2, Pushes(g, e)) /\ WritersOK(g, d, e) /\ h > 0
  <2>1. CleanStack(g, d, s, m) /\ WritersOK(g, d, f)
    BY <1>0, <1>3, <1>6 DEF ThreadOK
  <2>2. h \in Nat \ {0}
    BY <1>3, <1>5, <2>1 DEF CleanStack
  <2>3. CleanStack(g, d, s2, m - 1)
    BY <1>3, <1>4, <1>5, <2>1, <2>2, CleanPop
  <2> QED  BY <1>0, <1>3, <1>6, <2>1, <2>2, <2>3
<1>7. ASSUME disturb, ~set
      PROVE  DirtyStack(g, d, s2, Pushes(g, e)) /\ h > 0
  <2>1. DirtyStack(g, d, s, m)
    BY <1>0, <1>3, <1>7 DEF ThreadOK
  <2>2. h \in Nat \ {0}
    BY <1>3, <1>5, <2>1 DEF DirtyStack
  <2>3. DirtyStack(g, d, s2, m - 1)
    BY <1>3, <1>4, <1>5, <2>1, <2>2, DirtyPop
  <2> QED  BY <1>0, <1>3, <1>7, <2>2, <2>3
<1>8. ~disturb \/ ~set => SawMode(g, e) /\ s2 # <<>>
  BY <1>3, <1>4, <1>6, <1>7 DEF ThreadOK
<1>9. ASSUME ~set
      PROVE  SlotsOK(g, d, n, e, disturb)
  <2>1. SlotsOK(g, d, n, f, disturb)
    BY <1>9 DEF ThreadOK
  <2> QED  BY <1>0, <1>3, <1>9, <2>1 DEF SlotsOK, m
<1> QED  BY <1>1, <1>3, <1>4, <1>6, <1>7, <1>8, <1>9 DEF ThreadOK, e, s2

\* ... or left as it is, with the mode off or no stack.
LEMMA LeaveStep ==
  ASSUME NEW g, NEW d, NEW has, NEW s, NEW n, NEW f, NEW disturb, NEW set,
         g \in Int, d \in BOOLEAN, has \in BOOLEAN, disturb \in BOOLEAN, set \in BOOLEAN,
         ThreadOK(g, d, has, s, n, f, disturb, set),
         f # <<>>, Last(f).at \in {"restore", "pop"}, g <= 0 \/ ~has
  PROVE  ThreadOK(g, d, has, s, n, SubSeq(f, 1, Len(f) - 1), disturb, set)
<1> SUFFICES ASSUME NEW e, e = SubSeq(f, 1, Len(f) - 1)
             PROVE  ThreadOK(g, d, has, s, n, e, disturb, set)
  OBVIOUS
<1>1. FramesOK(f)
  BY DEF ThreadOK
<1>2. n \in Nat /\ s \in Seq(Int) /\ Left(g, d, f, e)
  BY <1>1, LeaveFrames DEF ThreadOK
<1>3. /\ FramesOK(e)
      /\ Len(e) = Len(f) - 1 /\ Len(f) \in Nat \ {0}
      /\ \A k \in 1..Len(e) : e[k] = f[k]
      /\ SawMode(g, f) => SawMode(g, e)
      /\ WritersOK(g, d, f) => WritersOK(g, d, e)
      /\ Pushes(g, f) = IF g > 0 THEN Len(f) ELSE 0
      /\ Pushes(g, e) = IF g > 0 THEN Len(f) - 1 ELSE 0
      /\ Holders(g, e) = IF g > 0 THEN Len(f) - 1 ELSE 0
  BY <1>2 DEF Left
<1>4. CASE g <= 0
  <2>1. Pushes(g, f) = 0 /\ Pushes(g, e) = 0 /\ Holders(g, e) = 0
    BY <1>3, <1>4
  <2>2. ~set => SlotsOK(g, d, n, e, disturb)
    <3>1. \A k \in 1..Len(e) : ~(k <= 0)
      BY <1>3
    <3> QED  BY <1>2, <2>1, <3>1 DEF SlotsOK
  <2>3. ~disturb \/ set
    BY <1>4 DEF ThreadOK, DirtyStack
  <2> QED  BY <1>3, <2>1, <2>2, <2>3 DEF ThreadOK
<1>5. CASE g > 0 /\ ~has
  <2>1. Len(s) = 0
    BY <1>5 DEF ThreadOK
  <2>2. disturb
    BY <1>3, <1>5, <2>1 DEF ThreadOK, CleanStack
  <2>3. set
    BY <1>3, <1>5, <2>1, <2>2 DEF ThreadOK, DirtyStack
  <2> QED  BY <1>3, <2>2, <2>3 DEF ThreadOK
<1> QED  BY <1>4, <1>5

\* Some operator of f is past its first test of the mode.
UnderWay(f) == \E k \in 1..Len(f) : f[k].at # "on"

IsOverwritten(s, s2, g2) ==
  s2 \in Seq(Int) /\ Len(s2) = Len(s) /\ \A j \in 1..Len(s2) : s2[j] = g2

\* The mode becomes g2, and so does all of the stack.
LEMMA SetModeStep ==
  ASSUME NEW g, NEW d, NEW has, NEW s, NEW n, NEW f, NEW disturb, NEW set,
         g \in Int, d \in BOOLEAN, has \in BOOLEAN, disturb \in BOOLEAN, set \in BOOLEAN,
         ThreadOK(g, d, has, s, n, f, disturb, set),
         NEW g2, NEW s2, g2 \in Int, IsOverwritten(s, s2, g2)
  PROVE  ThreadOK(g2, d, has, s2, n, f, UnderWay(f) \/ (has /\ s = <<>>),
                  set \/ UnderWay(f))
<1> DEFINE under == UnderWay(f)
           disturb2 == under \/ (has /\ s = <<>>)
           set2 == set \/ under
<1>1. /\ under <=> \E k \in 1..Len(f) : f[k].at # "on"
      /\ disturb2 <=> under \/ (has /\ s = <<>>)
      /\ set2 <=> set \/ under
      /\ s2 \in Seq(Int) /\ Len(s2) = Len(s)
      /\ \A j \in 1..Len(s2) : s2[j] = g2
  BY DEF UnderWay, IsOverwritten
<1> HIDE DEF under, disturb2, set2
<1>2. FramesOK(f) /\ n \in Nat /\ s \in Seq(Int) /\ f \in Seq(Frame) /\ Len(f) \in Nat
  BY DEF ThreadOK, FramesOK
<1>3. (s = <<>> <=> Len(s) = 0) /\ (s2 = <<>> <=> Len(s2) = 0) /\ (f = <<>> <=> Len(f) = 0)
  BY <1>1, <1>2
<1>4. ASSUME ~under
      PROVE  /\ SawMode(g2, f) /\ WritersOK(g2, d, f)
             /\ Pushes(g2, f) = 0 /\ Holders(g2, f) = 0
  <2>1. \A k \in 1..Len(f) : f[k].at = "on" /\ f[k] = NewFrame
    BY <1>1, <1>2, <1>4 DEF FramesOK
  <2>2. Len(f) <= 1
    <3>1. Len(f) > 1 => f[1].at = "body"
      BY <1>2 DEF FramesOK
    <3> QED  BY <1>2, <2>1, <3>1
  <2>3. f # <<>> => Len(f) = 1 /\ Last(f).at = "on"
    <3>1. f # <<>> => Len(f) = 1
      <4> DEFINE m == Len(f)
      <4>1. m \in Nat /\ m <= 1 /\ (f = <<>> <=> m = 0)
        BY <1>2, <1>3, <2>2
      <4> HIDE DEF m
      <4>2. f # <<>> => m = 1
        BY <4>1
      <4> QED  BY <4>2 DEF m
    <3>2. Len(f) = 1 => f[Len(f)].at = "on"
      BY <2>1
    <3> QED  BY <3>1, <3>2 DEF Last
  <2>4. SawMode(g2, f) /\ WritersOK(g2, d, f)
    BY <2>1 DEF SawMode, WritersOK, NewFrame
  <2>5. Pushes(g2, f) = 0 /\ Holders(g2, f) = 0
    BY <2>3 DEF Pushes, Holders
  <2> QED  BY <2>4, <2>5
<1>5. ~disturb2 \/ ~set2 => ~under /\ (has => s2 # <<>>)
  BY <1>1, <1>3 DEF ThreadOK
<1>6. ~disturb2 => CleanStack(g2, d, s2, 0)
  BY <1>1 DEF CleanStack
<1>7. ~(disturb2 /\ ~set2)
  BY <1>1 DEF ThreadOK
<1>8. ~set2 => SlotsOK(g2, d, n, f, disturb2)
  BY <1>1, <1>2, <1>4 DEF SlotsOK
<1>9. ThreadOK(g2, d, has, s2, n, f, disturb2, set2)
  BY <1>1, <1>2, <1>3, <1>4, <1>5, <1>6, <1>7, <1>8 DEF ThreadOK
<1> QED  BY <1>9 DEF disturb2, set2, under

-----------------------------------------------------------------------------
Stack(t) == IF HasStack(t) THEN mode_stacks[t] ELSE <<>>

TypeOK ==
  /\ gen_case_mode \in Int
  /\ dump_internal \in BOOLEAN
  /\ DOMAIN mode_stacks \subseteq Threads
  /\ \A u \in DOMAIN mode_stacks : mode_stacks[u] \in Seq(Int)
  /\ nodes \in [Threads -> SUBSET Nat]
  /\ frames \in [Threads -> Seq(Frame)]
  /\ wild \in BOOLEAN
  /\ disturbed \in [Threads -> BOOLEAN]
  /\ setUnder \in [Threads -> BOOLEAN]

\* The slots taken are the first ones: a slot is never freed below another.
FirstSlots == \A t \in Threads : nodes[t] = 1..Used(t)

GoodThread(t) ==
  ThreadOK(gen_case_mode, dump_internal, HasStack(t), Stack(t), Used(t),
           frames[t], disturbed[t], setUnder[t])

GenInv ==
  /\ TypeOK
  /\ FirstSlots
  /\ \A t \in Threads : GoodThread(t)
  /\ WildNeedsSetUnder

-----------------------------------------------------------------------------
(***************************************************************************)
(* The actions keep the invariant: what they do to the thread they are of  *)
(* is one of the lemmas above, and the other threads keep all they have.   *)
(***************************************************************************)
LEMMA Typed ==
  ASSUME GenInv, NEW t \in Threads
  PROVE  /\ gen_case_mode \in Int /\ dump_internal \in BOOLEAN
         /\ HasStack(t) \in BOOLEAN /\ disturbed[t] \in BOOLEAN /\ setUnder[t] \in BOOLEAN
         /\ Used(t) \in Nat /\ nodes[t] = 1..Used(t)
         /\ frames[t] \in Seq(Frame) /\ Stack(t) \in Seq(Int)
         /\ ThreadOK(gen_case_mode, dump_internal, HasStack(t), Stack(t), Used(t),
                     frames[t], disturbed[t], setUnder[t])
<1>1. GoodThread(t) /\ TypeOK /\ FirstSlots
  BY DEF GenInv
<1>2. ThreadOK(gen_case_mode, dump_internal, HasStack(t), Stack(t), Used(t),
               frames[t], disturbed[t], setUnder[t])
  BY <1>1 DEF GoodThread
<1>3. Used(t) \in Nat /\ Stack(t) \in Seq(Int)
  BY <1>2 DEF ThreadOK
<1>4. HasStack(t) \in BOOLEAN
  BY DEF HasStack
<1> QED  BY <1>1, <1>2, <1>3, <1>4 DEF TypeOK, FirstSlots

LEMMA Here ==
  ASSUME GenInv, NEW t \in Threads, NEW p, At(t, p)
  PROVE  /\ frames[t] # <<>> /\ Last(frames[t]).at = p
         /\ Top(t) = Last(frames[t]) /\ Depth(t) = Len(frames[t])
<1>1. frames[t] \in Seq(Frame)
  BY Typed
<1> QED  BY <1>1 DEF At, Top, Depth, Last

LEMMA StepOf ==
  ASSUME GenInv, NEW t \in Threads, NEW e, frames' = [frames EXCEPT ![t] = e],
         UNCHANGED <<gen_case_mode, dump_internal, setUnder>>,
         wild' \in BOOLEAN, wild' => wild \/ setUnder[t],
         nodes' \in [Threads -> SUBSET Nat], disturbed' \in [Threads -> BOOLEAN],
         DOMAIN mode_stacks' \subseteq Threads,
         \A u \in DOMAIN mode_stacks' : mode_stacks'[u] \in Seq(Int),
         \A u \in Threads \ {t} :
           /\ nodes'[u] = nodes[u] /\ disturbed'[u] = disturbed[u]
           /\ HasStack(u)' = HasStack(u) /\ Stack(u)' = Stack(u),
         nodes'[t] = 1..Used(t)',
         ThreadOK(gen_case_mode, dump_internal, HasStack(t)', Stack(t)', Used(t)',
                  e, disturbed'[t], setUnder[t])
  PROVE  GenInv'
<1>1. frames \in [Threads -> Seq(Frame)] /\ setUnder \in [Threads -> BOOLEAN]
      /\ gen_case_mode \in Int /\ dump_internal \in BOOLEAN
  BY DEF GenInv, TypeOK
<1>2. e \in Seq(Frame)
  BY DEF ThreadOK, FramesOK
<1>3. frames'[t] = e /\ \A u \in Threads \ {t} : frames'[u] = frames[u]
  BY <1>1
<1>4. TypeOK'
  BY <1>1, <1>2 DEF TypeOK
<1>5. \A u \in Threads \ {t} : Used(u)' = Used(u)
  BY DEF Used
<1>6. FirstSlots'
  <2>1. ASSUME NEW u \in Threads
        PROVE  nodes'[u] = 1..Used(u)'
    BY <1>5 DEF GenInv, FirstSlots
  <2> QED  BY <2>1 DEF FirstSlots
<1>7. ASSUME NEW u \in Threads
      PROVE  GoodThread(u)'
  <2>1. CASE u = t
    BY <1>3, <2>1 DEF GoodThread
  <2>2. CASE u # t
    <3>1. GoodThread(u)
      BY DEF GenInv
    <3> QED  BY <1>3, <1>5, <2>2, <3>1 DEF GoodThread
  <2> QED  BY <2>1, <2>2
<1>8. WildNeedsSetUnder'
  BY DEF GenInv, WildNeedsSetUnder
<1> QED  BY <1>4, <1>6, <1>7, <1>8 DEF GenInv

\* The actions that change the frames of a thread, and its history.
LEMMA FramesStep ==
  ASSUME GenInv, NEW t \in Threads, NEW e, frames' = [frames EXCEPT ![t] = e],
         UNCHANGED <<gen_case_mode, dump_internal, mode_stacks, nodes, wild, setUnder>>,
         NEW b \in BOOLEAN, disturbed' = [disturbed EXCEPT ![t] = b],
         ThreadOK(gen_case_mode, dump_internal, HasStack(t), Stack(t), Used(t),
                  e, b, setUnder[t])
  PROVE  GenInv'
<1>1. TypeOK /\ FirstSlots
  BY DEF GenInv
<1>2. \A u \in Threads : HasStack(u)' = HasStack(u) /\ Stack(u)' = Stack(u)
                          /\ Used(u)' = Used(u)
  BY DEF HasStack, Stack, Used
<1>3. disturbed' \in [Threads -> BOOLEAN] /\ disturbed'[t] = b
      /\ \A u \in Threads \ {t} : disturbed'[u] = disturbed[u]
  BY <1>1 DEF TypeOK
<1>4. nodes'[t] = 1..Used(t)'
  BY <1>1, <1>2 DEF FirstSlots
<1>5. wild' \in BOOLEAN /\ nodes' \in [Threads -> SUBSET Nat]
      /\ DOMAIN mode_stacks' \subseteq Threads
      /\ \A u \in DOMAIN mode_stacks' : mode_stacks'[u] \in Seq(Int)
  BY <1>1 DEF TypeOK
<1> QED  BY <1>2, <1>3, <1>4, <1>5, StepOf

LEMMA SameHistory ==
  ASSUME GenInv, NEW t \in Threads, UNCHANGED disturbed
  PROVE  disturbed' = [disturbed EXCEPT ![t] = disturbed[t]]
  BY DEF GenInv, TypeOK

LEMMA CallKeeps ==
  ASSUME GenInv, NEW t \in Threads, Call(t)
  PROVE  GenInv'
<1> DEFINE e == Append(frames[t], NewFrame)
<1>1. frames[t] \in Seq(Frame) /\ frames' = [frames EXCEPT ![t] = e]
  BY Typed DEF Call
<1>2. frames[t] # <<>> => Last(frames[t]).at = "body"
  BY <1>1 DEF Call, Depth, Top, Last
<1>3. ThreadOK(gen_case_mode, dump_internal, HasStack(t), Stack(t), Used(t),
               e, disturbed[t], setUnder[t])
  BY <1>2, Typed, CallStep
<1> HIDE DEF e
<1>4. UNCHANGED <<gen_case_mode, dump_internal, mode_stacks, nodes, wild, setUnder>>
  BY DEF Call
<1>5. disturbed[t] \in BOOLEAN /\ disturbed' = [disturbed EXCEPT ![t] = disturbed[t]]
  BY Typed, SameHistory DEF Call
<1> QED  BY <1>1, <1>3, <1>4, <1>5, FramesStep

LEMMA TestOnKeeps ==
  ASSUME GenInv, NEW t \in Threads, TestOn(t)
  PROVE  GenInv'
<1> DEFINE x == IF gen_case_mode > 0
                THEN [Last(frames[t]) EXCEPT !.at = "push", !.asked = TRUE]
                ELSE [Last(frames[t]) EXCEPT !.at = "body"]
           e == [frames[t] EXCEPT ![Len(frames[t])] = x]
<1>1. /\ frames[t] # <<>> /\ Last(frames[t]).at = "on"
      /\ Top(t) = Last(frames[t]) /\ Depth(t) = Len(frames[t])
  BY Here DEF TestOn
<1>2. frames' = [frames EXCEPT ![t] = e]
  BY <1>1 DEF TestOn, SetTop
<1>3. Last(frames[t]) = NewFrame /\ NewFrame \in Frame
  <2>1. FramesOK(frames[t])
    BY Typed DEF ThreadOK
  <2> QED  BY <1>1, <2>1 DEF FramesOK, Last, NewFrame, Frame, Places
<1>4. /\ x \in Frame
      /\ x.at = (IF gen_case_mode > 0 THEN "push" ELSE "body")
      /\ x.asked <=> gen_case_mode > 0
      /\ ~x.wrote /\ x.node = 0
  <2> DEFINE r == Last(frames[t])
  <2>1. /\ r \in Frame /\ r.asked = FALSE /\ r.wrote = FALSE /\ r.node = 0
        /\ "push" \in Places /\ "body" \in Places
    BY <1>3 DEF NewFrame, Places
  <2>2. CASE gen_case_mode > 0
    <3>1. x = [r EXCEPT !.at = "push", !.asked = TRUE]
      BY <2>2
    <3> HIDE DEF x, r
    <3>2. x \in Frame /\ x.at = "push" /\ x.asked = TRUE
      BY <2>1, <3>1 DEF Frame
    <3>3. x.wrote = FALSE /\ x.node = 0
      BY <2>1, <3>1 DEF Frame
    <3> QED  BY <2>2, <3>2, <3>3
  <2>3. CASE ~(gen_case_mode > 0)
    <3>1. x = [r EXCEPT !.at = "body"]
      BY <2>3
    <3> HIDE DEF x, r
    <3> QED  BY <2>1, <2>3, <3>1, FrameAt
  <2> QED  BY <2>2, <2>3
<1> HIDE DEF x
<1>5. ThreadOK(gen_case_mode, dump_internal, HasStack(t), Stack(t), Used(t),
               e, disturbed[t], setUnder[t])
  BY <1>1, <1>4, Typed, TestOnStep
<1> HIDE DEF e
<1>6. UNCHANGED <<gen_case_mode, dump_internal, mode_stacks, nodes, wild, setUnder>>
  BY DEF TestOn
<1>7. disturbed[t] \in BOOLEAN /\ disturbed' = [disturbed EXCEPT ![t] = disturbed[t]]
  BY Typed, SameHistory DEF TestOn
<1> QED  BY <1>2, <1>5, <1>6, <1>7, FramesStep

LEMMA EndKeeps ==
  ASSUME GenInv, NEW t \in Threads, End(t)
  PROVE  GenInv'
<1> DEFINE x == [Last(frames[t]) EXCEPT !.at = IF gen_case_mode > 0 THEN "reset"
                                                                    ELSE "restore"]
           e == [frames[t] EXCEPT ![Len(frames[t])] = x]
<1>1. /\ frames[t] # <<>> /\ Last(frames[t]).at = "body"
      /\ Top(t) = Last(frames[t]) /\ Depth(t) = Len(frames[t])
  BY Here DEF End
<1>2. frames' = [frames EXCEPT ![t] = e]
  BY <1>1 DEF End, SetTop
<1>3. ThreadOK(gen_case_mode, dump_internal, HasStack(t), Stack(t), Used(t),
               e, disturbed[t], setUnder[t])
  BY <1>1, Typed, EndStep
<1> HIDE DEF e
<1>4. UNCHANGED <<gen_case_mode, dump_internal, mode_stacks, nodes, wild, setUnder>>
  BY DEF End
<1>5. disturbed[t] \in BOOLEAN /\ disturbed' = [disturbed EXCEPT ![t] = disturbed[t]]
  BY Typed, SameHistory DEF End
<1> QED  BY <1>2, <1>3, <1>4, <1>5, FramesStep

LEMMA FailKeeps ==
  ASSUME GenInv, NEW t \in Threads, Fail(t)
  PROVE  GenInv'
<1> DEFINE e == SubSeq(frames[t], 1, Len(frames[t]) - 1)
           b == disturbed[t] \/ Last(frames[t]).asked
<1>1. /\ frames[t] # <<>> /\ Last(frames[t]).at = "body"
      /\ Top(t) = Last(frames[t]) /\ Depth(t) = Len(frames[t])
  BY Here DEF Fail
<1>2. frames' = [frames EXCEPT ![t] = e]
  BY <1>1 DEF Fail, Leave
<1>3. b \in BOOLEAN /\ disturbed' = [disturbed EXCEPT ![t] = b]
  BY <1>1 DEF Fail
<1>4. b <=> disturbed[t] \/ Last(frames[t]).asked
  OBVIOUS
<1> HIDE DEF b
<1>5. ThreadOK(gen_case_mode, dump_internal, HasStack(t), Stack(t), Used(t),
               e, b, setUnder[t])
  BY <1>1, <1>3, <1>4, Typed, FailStep
<1> HIDE DEF e
<1>6. UNCHANGED <<gen_case_mode, dump_internal, mode_stacks, nodes, wild, setUnder>>
  BY DEF Fail
<1> QED  BY <1>2, <1>3, <1>5, <1>6, FramesStep

\* The slot that Start takes is the next one.
LEMMA FreeSlotIs ==
  ASSUME GenInv, NEW t \in Threads
  PROVE  FreeSlot(t) = Used(t) + 1
<1> DEFINE n == Used(t)
<1>1. n \in Nat /\ nodes[t] = 1..n /\ Cardinality(nodes[t]) = n
  BY Typed DEF Used
<1> HIDE DEF n
<1>2. FreeSlot(t) = CHOOSE i \in 1..n + 1 : i \notin 1..n /\ \A m \in 1..i - 1 : m \in 1..n
  BY <1>1 DEF FreeSlot
<1>3. ASSUME NEW i \in 1..n + 1
      PROVE  (i \notin 1..n /\ \A m \in 1..i - 1 : m \in 1..n) <=> i = n + 1
  BY <1>1
<1>4. n + 1 \in 1..n + 1
  BY <1>1
<1>5. FreeSlot(t) = n + 1
  BY <1>2, <1>3, <1>4
<1> QED  BY <1>5 DEF n

\* The actions that change the slots of a thread, or its stack, and its frames.
LEMMA NodesStep ==
  ASSUME GenInv, NEW t \in Threads, NEW e, frames' = [frames EXCEPT ![t] = e],
         UNCHANGED <<gen_case_mode, dump_internal, mode_stacks, disturbed, setUnder>>,
         wild' \in BOOLEAN, wild' => wild \/ setUnder[t],
         NEW n \in Nat, nodes' = [nodes EXCEPT ![t] = 1..n],
         ThreadOK(gen_case_mode, dump_internal, HasStack(t), Stack(t), n,
                  e, disturbed[t], setUnder[t])
  PROVE  GenInv'
<1>1. TypeOK /\ FirstSlots
  BY DEF GenInv
<1>2. \A u \in Threads : HasStack(u)' = HasStack(u) /\ Stack(u)' = Stack(u)
  BY DEF HasStack, Stack
<1>3. /\ nodes' \in [Threads -> SUBSET Nat] /\ nodes'[t] = 1..n
      /\ \A u \in Threads \ {t} : nodes'[u] = nodes[u]
  BY <1>1 DEF TypeOK
<1>4. Used(t)' = n
  BY <1>3, Slots DEF Used
<1>5. disturbed' \in [Threads -> BOOLEAN]
      /\ DOMAIN mode_stacks' \subseteq Threads
      /\ \A u \in DOMAIN mode_stacks' : mode_stacks'[u] \in Seq(Int)
      /\ disturbed'[t] = disturbed[t]
  BY <1>1 DEF TypeOK
<1> QED  BY <1>2, <1>3, <1>4, <1>5, StepOf

LEMMA StackStep ==
  ASSUME GenInv, NEW t \in Threads, NEW e, frames' = [frames EXCEPT ![t] = e],
         UNCHANGED <<gen_case_mode, dump_internal, nodes, wild, disturbed, setUnder>>,
         NEW s \in Seq(Int), DOMAIN mode_stacks' = DOMAIN mode_stacks \cup {t},
         mode_stacks'[t] = s,
         \A u \in DOMAIN mode_stacks \ {t} : mode_stacks'[u] = mode_stacks[u],
         ThreadOK(gen_case_mode, dump_internal, TRUE, s, Used(t),
                  e, disturbed[t], setUnder[t])
  PROVE  GenInv'
<1>1. TypeOK /\ FirstSlots
  BY DEF GenInv
<1>2. \A u \in Threads \ {t} : HasStack(u)' = HasStack(u) /\ Stack(u)' = Stack(u)
  BY DEF HasStack, Stack
<1>3. HasStack(t)' = TRUE /\ Stack(t)' = s
  BY DEF HasStack, Stack
<1>4. Used(t)' = Used(t) /\ nodes'[t] = 1..Used(t)
  BY <1>1 DEF FirstSlots, Used
<1>5. disturbed' \in [Threads -> BOOLEAN] /\ nodes' \in [Threads -> SUBSET Nat]
      /\ wild' \in BOOLEAN
      /\ DOMAIN mode_stacks' \subseteq Threads
      /\ \A u \in DOMAIN mode_stacks' : mode_stacks'[u] \in Seq(Int)
      /\ disturbed'[t] = disturbed[t]
  BY <1>1 DEF TypeOK
<1> QED  BY <1>2, <1>3, <1>4, <1>5, StepOf

LEMMA StartKeeps ==
  ASSUME GenInv, NEW t \in Threads, Start(t)
  PROVE  GenInv'
<1> DEFINE n == Used(t)
           i == FreeSlot(t)
           x == [Last(frames[t]) EXCEPT !.at = "body", !.wrote = TRUE, !.node = i]
           e == [frames[t] EXCEPT ![Len(frames[t])] = x]
<1>1. /\ frames[t] # <<>> /\ Last(frames[t]).at = "start"
      /\ Top(t) = Last(frames[t]) /\ Depth(t) = Len(frames[t])
  BY Here DEF Start
<1>2. frames' = [frames EXCEPT ![t] = e]
  BY <1>1 DEF Start, SetTop
<1>3. n \in Nat /\ nodes[t] = 1..n /\ i = n + 1
  BY Typed, FreeSlotIs
<1>4. nodes' = [nodes EXCEPT ![t] = 1..n + 1]
  <2>1. nodes[t] \cup {i} = 1..n + 1
    BY <1>3, Slots
  <2> QED  BY <2>1 DEF Start
<1> HIDE DEF i
<1>5. /\ x \in Frame /\ x.at = "body" /\ x.asked = Last(frames[t]).asked
      /\ x.wrote /\ x.node = i
  <2>1. Last(frames[t]) \in Frame
    BY <1>1, Typed DEF Last
  <2>2. "body" \in Places /\ i \in Nat
    BY <1>3 DEF Places
  <2>3. x \in Frame
    BY <2>1, <2>2 DEF Frame
  <2>4. x.at = "body" /\ x.asked = Last(frames[t]).asked /\ x.wrote = TRUE /\ x.node = i
    BY <2>1, <2>2 DEF Frame
  <2> QED  BY <2>3, <2>4
<1> HIDE DEF x
<1>6. ThreadOK(gen_case_mode, dump_internal, HasStack(t), Stack(t), i,
               e, disturbed[t], setUnder[t])
  BY <1>1, <1>3, <1>5, Typed, StartStep
<1> HIDE DEF e, n
<1>7. /\ UNCHANGED <<gen_case_mode, dump_internal, mode_stacks, disturbed, setUnder>>
      /\ wild' \in BOOLEAN /\ wild' = wild
  BY DEF Start, GenInv, TypeOK
<1>8. i \in Nat /\ nodes' = [nodes EXCEPT ![t] = 1..i]
  BY <1>3, <1>4
<1> QED  BY <1>2, <1>6, <1>7, <1>8, NodesStep

\* Memory that is not there is only touched where nothing else changes.
LEMMA WildStep ==
  ASSUME GenInv, NEW t \in Threads, setUnder[t], wild' = TRUE,
         UNCHANGED <<gen_case_mode, dump_internal, mode_stacks, nodes, frames,
                     disturbed, setUnder>>
  PROVE  GenInv'
<1>1. TypeOK' /\ FirstSlots'
  BY DEF GenInv, TypeOK, FirstSlots, Used
<1>2. \A u \in Threads : GoodThread(u)'
  BY DEF GenInv, GoodThread, HasStack, Stack, Used
<1>3. WildNeedsSetUnder'
  BY DEF WildNeedsSetUnder
<1> QED  BY <1>1, <1>2, <1>3 DEF GenInv

LEMMA PushKeeps ==
  ASSUME GenInv, NEW t \in Threads, Push(t)
  PROVE  GenInv'
<1> DEFINE f == frames[t]
           s1 == PushBase(gen_case_mode, HasStack(t), Stack(t))
           s2 == IF HasStack(t) THEN Pushed(mode_stacks[t])
                                ELSE <<InternalMode, gen_case_mode>>
           x == [Last(f) EXCEPT !.at = IF s2[Len(s2)] > 0 THEN "start" ELSE "body"]
           e == [f EXCEPT ![Len(f)] = x]
<1>1. /\ f # <<>> /\ Last(f).at = "push" /\ Top(t) = Last(f) /\ Depth(t) = Len(f)
  BY Here DEF Push
<1>2. /\ gen_case_mode \in Int /\ dump_internal \in BOOLEAN
      /\ HasStack(t) \in BOOLEAN /\ disturbed[t] \in BOOLEAN /\ setUnder[t] \in BOOLEAN
      /\ ThreadOK(gen_case_mode, dump_internal, HasStack(t), Stack(t), Used(t),
                  f, disturbed[t], setUnder[t])
  BY Typed
<1>3. CASE IsEmpty(t)
  <2>1. setUnder[t]
    BY <1>3, Typed DEF ThreadOK, IsEmpty, Stack
  <2>2. /\ wild' = TRUE
        /\ UNCHANGED <<gen_case_mode, dump_internal, mode_stacks, nodes, frames,
                       disturbed, setUnder>>
    BY <1>3 DEF Push
  <2> QED  BY <2>1, <2>2, WildStep
<1>4. CASE ~IsEmpty(t)
  <2>1. /\ UNCHANGED <<gen_case_mode, dump_internal, nodes, wild, disturbed, setUnder>>
        /\ mode_stacks' = [u \in DOMAIN mode_stacks \cup {t} |->
                              IF u = t THEN s2 ELSE mode_stacks[u]]
    BY <1>4 DEF Push
  <2>2. frames' = [frames EXCEPT ![t] = e]
    BY <1>1, <1>4 DEF Push, SetTop
  <2>3. /\ gen_case_mode \in Int /\ InternalMode \in Int
        /\ InternalMode = Inner(gen_case_mode, dump_internal)
    BY Typed DEF InternalMode, Inner
  <2>4. IsPushed(s1, s2, Inner(gen_case_mode, dump_internal))
    <3>1. CASE HasStack(t)
      <4>1. s1 \in Seq(Int) /\ s1 # <<>> /\ s2 = Pushed(s1)
        BY <1>4, <3>1, Typed DEF IsEmpty, Stack, PushBase
      <4> HIDE DEF s1, s2
      <4> QED  BY <2>3, <4>1, PushedStack DEF IsPushed
    <3>2. CASE ~HasStack(t)
      <4>1. s1 = <<gen_case_mode>> /\ s2 = <<InternalMode, gen_case_mode>>
        BY <3>2 DEF PushBase
      <4> HIDE DEF s1, s2
      <4> QED  BY <2>3, <4>1 DEF IsPushed
    <3> QED  BY <3>1, <3>2
  <2> HIDE DEF s2
  <2>5. ThreadOK(gen_case_mode, dump_internal, TRUE, s2, Used(t),
                 e, disturbed[t], setUnder[t])
    BY <1>2, <1>1, <2>4, PushStep
  <2> HIDE DEF e
  <2>6. /\ DOMAIN mode_stacks' = DOMAIN mode_stacks \cup {t}
        /\ mode_stacks'[t] = s2
        /\ \A u \in DOMAIN mode_stacks \ {t} : mode_stacks'[u] = mode_stacks[u]
    BY <2>1
  <2>7. s2 \in Seq(Int)
    BY <2>4 DEF IsPushed
  <2> QED  BY <2>1, <2>2, <2>5, <2>6, <2>7, StackStep
<1> QED  BY <1>3, <1>4

LEMMA ResetKeeps ==
  ASSUME GenInv, NEW t \in Threads, Reset(t)
  PROVE  GenInv'
<1> DEFINE f == frames[t]
           n == Used(t)
           s == Stack(t)
           i == IF s[Len(s)] > 0 /\ n > 0 THEN n - 1 ELSE n
           x == [Last(f) EXCEPT !.at = "restore"]
           e == [f EXCEPT ![Len(f)] = x]
<1>1. /\ f # <<>> /\ Last(f).at = "reset" /\ Top(t) = Last(f) /\ Depth(t) = Len(f)
  BY Here DEF Reset
<1>2. n \in Nat /\ nodes[t] = 1..n
  BY Typed
<1>3. /\ gen_case_mode \in Int /\ dump_internal \in BOOLEAN
      /\ HasStack(t) \in BOOLEAN /\ disturbed[t] \in BOOLEAN /\ setUnder[t] \in BOOLEAN
      /\ ThreadOK(gen_case_mode, dump_internal, HasStack(t), Stack(t), Used(t),
                  f, disturbed[t], setUnder[t])
  BY Typed
<1>4. ~setUnder[t] => /\ HasStack(t) /\ s # <<>>
                      /\ s[Len(s)] > 0 => n > 0
  BY <1>3, <1>1, ResetFinds
<1>5. CASE ~HasStack(t) \/ IsEmpty(t)
  <2>1. setUnder[t]
    BY <1>4, <1>5 DEF IsEmpty, Stack
  <2>2. /\ wild' = TRUE
        /\ UNCHANGED <<gen_case_mode, dump_internal, mode_stacks, nodes, frames,
                       disturbed, setUnder>>
    BY <1>5 DEF Reset
  <2> QED  BY <2>1, <2>2, WildStep
<1>6. CASE HasStack(t) /\ ~IsEmpty(t)
  <2>1. UNCHANGED <<gen_case_mode, dump_internal, mode_stacks, disturbed, setUnder>>
    BY DEF Reset
  <2>2. frames' = [frames EXCEPT ![t] = e]
    BY <1>1, <1>6 DEF Reset, SetTop
  <2>3. Back(t) = s[Len(s)]
    BY <1>6 DEF Back, Stack
  <2>4. i \in Nat /\ nodes' = [nodes EXCEPT ![t] = 1..i]
    <3>1. CASE Back(t) > 0
      <4>1. nodes' = [nodes EXCEPT ![t] = nodes[t] \ {n}]
        BY <1>6, <3>1 DEF Reset
      <4>2. i \in Nat /\ nodes[t] \ {n} = 1..i
        <5>1. (1..n) \ {n} = IF n = 0 THEN {} ELSE 1..n - 1
          BY <1>2, Slots
        <5>2. i = IF n = 0 THEN 0 ELSE n - 1
          BY <1>2, <2>3, <3>1
        <5> HIDE DEF i, n
        <5> QED  BY <1>2, <5>1, <5>2
      <4> QED  BY <4>1, <4>2
    <3>2. CASE ~(Back(t) > 0)
      <4>1. nodes' = nodes /\ i = n
        BY <1>6, <2>3, <3>2 DEF Reset
      <4>2. nodes = [nodes EXCEPT ![t] = nodes[t]]
        BY DEF GenInv, TypeOK
      <4> HIDE DEF i, n
      <4> QED  BY <1>2, <4>1, <4>2
    <3> QED  BY <3>1, <3>2
  <2>5. wild' \in BOOLEAN /\ (wild' => wild \/ setUnder[t])
    <3>1. CASE Back(t) > 0
      <4>1. wild' = (Used(t) = 0)
        BY <1>6, <3>1 DEF Reset
      <4>2. setUnder[t] \/ n > 0
        BY <1>4, <2>3, <3>1
      <4> QED  BY <1>3, <1>2, <4>1, <4>2
    <3>2. CASE ~(Back(t) > 0)
      BY <1>6, <3>2 DEF Reset, GenInv, TypeOK
    <3> QED  BY <3>1, <3>2
  <2>6. ThreadOK(gen_case_mode, dump_internal, HasStack(t), s, i,
                 e, disturbed[t], setUnder[t])
    <3>1. i = IF s[Len(s)] > 0 /\ n > 0 THEN n - 1 ELSE n
      OBVIOUS
    <3> HIDE DEF i
    <3> QED  BY <1>3, <1>1, <2>4, <3>1, ResetStep
  <2> HIDE DEF e, i
  <2> QED  BY <2>1, <2>2, <2>4, <2>5, <2>6, NodesStep
<1> QED  BY <1>5, <1>6

LEMMA TestRestoreKeeps ==
  ASSUME GenInv, NEW t \in Threads, TestRestore(t)
  PROVE  GenInv'
<1> DEFINE f == frames[t]
           x == [Last(f) EXCEPT !.at = "pop"]
           e1 == [f EXCEPT ![Len(f)] = x]
           e2 == SubSeq(f, 1, Len(f) - 1)
<1>1. /\ f # <<>> /\ Last(f).at = "restore" /\ Top(t) = Last(f) /\ Depth(t) = Len(f)
  BY Here DEF TestRestore
<1>2. UNCHANGED <<gen_case_mode, dump_internal, mode_stacks, nodes, wild, setUnder>>
  BY DEF TestRestore
<1>3. disturbed[t] \in BOOLEAN /\ disturbed' = [disturbed EXCEPT ![t] = disturbed[t]]
  BY Typed, SameHistory DEF TestRestore
<1>4. CASE gen_case_mode > 0
  <2>1. frames' = [frames EXCEPT ![t] = e1]
    BY <1>1, <1>4, Typed DEF TestRestore, SetTop
  <2>2. ThreadOK(gen_case_mode, dump_internal, HasStack(t), Stack(t), Used(t),
                 e1, disturbed[t], setUnder[t])
    BY <1>1, <1>4, Typed, AskStep
  <2> HIDE DEF e1
  <2> QED  BY <1>2, <1>3, <2>1, <2>2, FramesStep
<1>5. CASE gen_case_mode <= 0
  <2>1. frames' = [frames EXCEPT ![t] = e2]
    BY <1>1, <1>5, Typed DEF TestRestore, Leave
  <2>2. ThreadOK(gen_case_mode, dump_internal, HasStack(t), Stack(t), Used(t),
                 e2, disturbed[t], setUnder[t])
    BY <1>1, <1>5, Typed, LeaveStep
  <2> HIDE DEF e2
  <2> QED  BY <1>2, <1>3, <2>1, <2>2, FramesStep
<1> QED  BY <1>4, <1>5, Typed

LEMMA RestoreKeeps ==
  ASSUME GenInv, NEW t \in Threads, Restore(t)
  PROVE  GenInv'
<1> DEFINE f == frames[t]
           e == SubSeq(f, 1, Len(f) - 1)
<1>1. /\ f # <<>> /\ Last(f).at = "pop" /\ Depth(t) = Len(f)
  BY Here DEF Restore
<1>2. /\ gen_case_mode \in Int /\ dump_internal \in BOOLEAN
      /\ HasStack(t) \in BOOLEAN /\ disturbed[t] \in BOOLEAN /\ setUnder[t] \in BOOLEAN
      /\ ThreadOK(gen_case_mode, dump_internal, HasStack(t), Stack(t), Used(t),
                  f, disturbed[t], setUnder[t])
  BY Typed
<1>3. UNCHANGED <<gen_case_mode, dump_internal, nodes, disturbed, setUnder>>
  BY DEF Restore
<1>4. CASE IsEmpty(t)
  <2>1. setUnder[t]
    BY <1>4, Typed DEF ThreadOK, IsEmpty, Stack
  <2>2. wild' = TRUE /\ UNCHANGED <<mode_stacks, frames>>
    BY <1>4, Typed DEF Restore, IsEmpty
  <2> QED  BY <1>3, <2>1, <2>2, WildStep
<1>5. CASE HasStack(t) /\ ~IsEmpty(t)
  <2> DEFINE s2 == Restored(Stack(t))
  <2>1. /\ mode_stacks' = [mode_stacks EXCEPT ![t] = s2]
        /\ frames' = [frames EXCEPT ![t] = e] /\ wild' = wild
    BY <1>1, <1>5, Typed DEF Restore, Leave, Stack
  <2>2. Stack(t) # <<>> /\ Stack(t) \in Seq(Int)
    BY <1>5, Typed DEF IsEmpty, Stack
  <2>3. s2 \in Seq(Int)
    BY <2>2, RestoredStack
  <2>4. ThreadOK(gen_case_mode, dump_internal, HasStack(t), s2, Used(t),
                 e, disturbed[t], setUnder[t])
    BY <1>2, <1>1, <1>5, <2>2, RestoreStep
  <2> HIDE DEF s2, e
  <2>5. ThreadOK(gen_case_mode, dump_internal, TRUE, s2, Used(t),
                 e, disturbed[t], setUnder[t])
    <3>1. HasStack(t) = TRUE
      BY <1>5 DEF HasStack
    <3> QED  BY <2>4, <3>1, Zenon
  <2>6. /\ DOMAIN mode_stacks' = DOMAIN mode_stacks \cup {t}
        /\ mode_stacks'[t] = s2
        /\ \A u \in DOMAIN mode_stacks \ {t} : mode_stacks'[u] = mode_stacks[u]
    BY <1>5, <2>1 DEF HasStack
  <2> QED  BY <1>3, <2>1, <2>3, <2>5, <2>6, StackStep
<1>6. CASE ~HasStack(t)
  <2>1. frames' = [frames EXCEPT ![t] = e] /\ UNCHANGED <<mode_stacks, wild>>
    BY <1>1, <1>6, Typed DEF Restore, Leave, IsEmpty
  <2>2. ThreadOK(gen_case_mode, dump_internal, HasStack(t), Stack(t), Used(t),
                 e, disturbed[t], setUnder[t])
    BY <1>1, <1>6, Typed, LeaveStep
  <2> HIDE DEF e
  <2>3. disturbed[t] \in BOOLEAN /\ disturbed' = [disturbed EXCEPT ![t] = disturbed[t]]
    BY <1>3, Typed, SameHistory
  <2> QED  BY <1>3, <2>1, <2>2, <2>3, FramesStep
<1> QED  BY <1>4, <1>5, <1>6, Typed DEF IsEmpty

LEMMA SetModeKeeps ==
  ASSUME GenInv, NEW mode \in Int, SetMode(mode)
  PROVE  GenInv'
<1>1. TypeOK /\ FirstSlots /\ \A t \in Threads : GoodThread(t)
  BY DEF GenInv
<1>2. /\ gen_case_mode' = mode /\ UNCHANGED <<dump_internal, nodes, frames, wild>>
      /\ \A u \in Threads : setUnder[u] => setUnder'[u]
  BY <1>1 DEF SetMode, TypeOK
<1>3. /\ DOMAIN mode_stacks' = DOMAIN mode_stacks
      /\ \A u \in DOMAIN mode_stacks : mode_stacks'[u] = Overwritten(mode_stacks[u], mode)
  BY DEF SetMode
<1>4. ASSUME NEW s \in Seq(Int)
      PROVE  /\ Overwritten(s, mode) \in Seq(Int) /\ Len(Overwritten(s, mode)) = Len(s)
             /\ \A j \in 1..Len(Overwritten(s, mode)) : Overwritten(s, mode)[j] = mode
  BY DEF Overwritten
<1>5. TypeOK'
  <2>1. \A u \in DOMAIN mode_stacks' : mode_stacks'[u] \in Seq(Int)
    BY <1>1, <1>3, <1>4 DEF TypeOK
  <2>2. disturbed' \in [Threads -> BOOLEAN] /\ setUnder' \in [Threads -> BOOLEAN]
    BY <1>1 DEF SetMode, TypeOK, InOperator, IsEmpty, HasStack
  <2> QED  BY <1>1, <1>2, <1>3, <2>1, <2>2 DEF TypeOK
<1>6. FirstSlots' /\ WildNeedsSetUnder'
  BY <1>1, <1>2 DEF GenInv, FirstSlots, Used, WildNeedsSetUnder
<1>7. ASSUME NEW t \in Threads
      PROVE  GoodThread(t)'
  <2>1. /\ HasStack(t)' = HasStack(t) /\ Used(t)' = Used(t)
    BY <1>2, <1>3 DEF HasStack, Used
  <2>2. IsOverwritten(Stack(t), Stack(t)', mode)
    <3>1. CASE HasStack(t)
      <4>1. Stack(t)' = Overwritten(Stack(t), mode)
        BY <1>3, <2>1, <3>1 DEF Stack, HasStack
      <4> QED  BY <1>4, <4>1, Typed DEF IsOverwritten
    <3>2. CASE ~HasStack(t)
      <4>1. Stack(t)' = <<>> /\ Stack(t) = <<>>
        BY <2>1, <3>2 DEF Stack
      <4> QED  BY <4>1 DEF IsOverwritten
    <3> QED  BY <3>1, <3>2
  <2>3. /\ disturbed'[t] = (UnderWay(frames[t]) \/ (HasStack(t) /\ Stack(t) = <<>>))
        /\ setUnder'[t] = (setUnder[t] \/ UnderWay(frames[t]))
    BY DEF SetMode, InOperator, Depth, UnderWay, IsEmpty, Stack
  <2>4. ThreadOK(mode, dump_internal, HasStack(t), Stack(t)', Used(t), frames[t],
                 UnderWay(frames[t]) \/ (HasStack(t) /\ Stack(t) = <<>>),
                 setUnder[t] \/ UnderWay(frames[t]))
    BY <2>2, Typed, SetModeStep
  <2>5. ThreadOK(mode, dump_internal, HasStack(t), Stack(t)', Used(t),
                 frames[t], disturbed'[t], setUnder'[t])
    BY <2>3, <2>4
  <2>6. ThreadOK(gen_case_mode', dump_internal', HasStack(t)', Stack(t)', Used(t)',
                 frames'[t], disturbed'[t], setUnder'[t])
    BY <1>2, <2>1, <2>5
  <2> QED  BY <2>6 DEF GoodThread
<1> QED  BY <1>5, <1>6, <1>7 DEF GenInv

LEMMA GenInit == Init => GenInv
<1> SUFFICES ASSUME Init
             PROVE  GenInv
  OBVIOUS
<1>1. TypeOK
  <2>1. DOMAIN mode_stacks = {}
    BY DEF Init
  <2>2. gen_case_mode \in Int
    BY GenCaseAssumption DEF Init
  <2>3. <<>> \in Seq(Frame)
    OBVIOUS
  <2>4. frames \in [Threads -> Seq(Frame)]
    BY <2>3 DEF Init
  <2> QED  BY <2>1, <2>2, <2>4 DEF Init, TypeOK
<1>2. ASSUME NEW t \in Threads
      PROVE  /\ HasStack(t) = FALSE /\ Stack(t) = <<>> /\ Used(t) = 0
             /\ frames[t] = <<>> /\ nodes[t] = {}
             /\ disturbed[t] = FALSE /\ setUnder[t] = FALSE
  BY FS_EmptySet DEF Init, HasStack, Stack, Used
<1>3. FirstSlots
  <2>1. 1..0 = {}
    OBVIOUS
  <2> QED  BY <1>2, <2>1 DEF FirstSlots
<1>4. ASSUME NEW g \in Int, NEW d \in BOOLEAN
      PROVE  ThreadOK(g, d, FALSE, <<>>, 0, <<>>, FALSE, FALSE)
  <2>1. FramesOK(<<>>)
    <3>1. <<>> \in Seq(Frame) /\ Len(<<>>) = 0
      OBVIOUS
    <3> QED  BY <3>1 DEF FramesOK
  <2>2. Pushes(g, <<>>) = 0 /\ Holders(g, <<>>) = 0
    BY DEF Pushes, Holders
  <2>3. SawMode(g, <<>>) /\ WritersOK(g, d, <<>>) /\ CleanStack(g, d, <<>>, 0)
    BY DEF SawMode, WritersOK, CleanStack
  <2>4. SlotsOK(g, d, 0, <<>>, FALSE)
    BY <2>2 DEF SlotsOK
  <2>5. <<>> \in Seq(Int)
    OBVIOUS
  <2> QED  BY <2>1, <2>2, <2>4, <2>3, <2>5 DEF ThreadOK
<1>5. \A t \in Threads : GoodThread(t)
  BY <1>1, <1>2, <1>4 DEF GoodThread, TypeOK
<1>6. WildNeedsSetUnder
  BY DEF Init, WildNeedsSetUnder
<1> QED  BY <1>1, <1>3, <1>5, <1>6 DEF GenInv

LEMMA GenNext == GenInv /\ [Next]_vars => GenInv'
<1> SUFFICES ASSUME GenInv, [Next]_vars
             PROVE  GenInv'
  OBVIOUS
<1>1. ASSUME NEW t \in Threads,
             \/ Call(t) \/ TestOn(t) \/ Push(t) \/ Start(t) \/ Fail(t)
             \/ End(t) \/ Reset(t) \/ TestRestore(t) \/ Restore(t)
      PROVE  GenInv'
  BY <1>1, CallKeeps, TestOnKeeps, PushKeeps, StartKeeps, FailKeeps, EndKeeps,
     ResetKeeps, TestRestoreKeeps, RestoreKeeps
<1>2. ASSUME NEW mode \in Modes, SetMode(mode)
      PROVE  GenInv'
  BY <1>2, SetModeKeeps, GenCaseAssumption
<1>3. CASE UNCHANGED vars
  BY <1>3 DEF vars, GenInv, TypeOK, FirstSlots, WildNeedsSetUnder, GoodThread,
     HasStack, Stack, Used
<1> QED  BY <1>1, <1>2, <1>3 DEF Next

-----------------------------------------------------------------------------
(***************************************************************************)
(* The theorems.                                                           *)
(***************************************************************************)

\* The invariant of gen_case holds: each thread's stack, slots and operators
\* under way agree, whatever the other threads do (gen_case.cpp:105-168, 380-403).
THEOREM GenCaseInvariant == Spec => []GenInv
<1> QED  BY GenInit, GenNext, PTL DEF Spec

\* An operator called by an operator writes no file unless that is asked for,
\* at any depth, if nothing failed and no mode was set on the way
\* (gen_case.cpp:51-66, 105-137).
THEOREM InternalOperatorsAreSilent == Spec => []InternalIsSilent
<1>1. GenInv => InternalIsSilent
  <2> SUFFICES ASSUME GenInv, NEW t \in Threads, ~dump_internal, ~disturbed[t],
                      NEW k \in 2..Depth(t)
               PROVE  ~frames[t][k].wrote
    BY DEF InternalIsSilent
  <2>1. WritersOK(gen_case_mode, dump_internal, frames[t])
    BY Typed DEF ThreadOK
  <2> QED  BY <2>1, Typed DEF WritersOK, Inner, Depth
<1> QED  BY <1>1, GenCaseInvariant, PTL

\* An operator the program calls with the mode on writes its file, however many
\* operators came before it (gen_case.cpp:105-153).
THEOREM OutermostOperatorsWrite == Spec => []OutermostWrites
<1>1. GenInv => OutermostWrites
  <2> SUFFICES ASSUME GenInv, NEW t \in Threads, Depth(t) > 0, frames[t][1].at = "body",
                      frames[t][1].asked, ~disturbed[t]
               PROVE  frames[t][1].wrote
    BY DEF OutermostWrites
  <2>1. WritersOK(gen_case_mode, dump_internal, frames[t])
    BY Typed DEF ThreadOK
  <2>2. 1 \in 1..Len(frames[t])
    BY Typed DEF Depth
  <2> QED  BY <2>1, <2>2 DEF WritersOK
<1> QED  BY <1>1, GenCaseInvariant, PTL

\* The slot GEN_CASE_END finds by counting is that of the operator that ends
\* (gen_case.cpp:380-403).
THEOREM EndFindsItsSlot == Spec => []EndResetsOwnSlot
<1>1. GenInv => EndResetsOwnSlot
  <2> SUFFICES ASSUME GenInv, NEW t \in Threads, At(t, "reset"), ~disturbed[t],
                      ~setUnder[t], Top(t).wrote
               PROVE  Used(t) = Top(t).node
    BY DEF EndResetsOwnSlot
  <2> DEFINE f == frames[t]
             m == Len(f)
  <2>1. f # <<>> /\ f[m].at = "reset" /\ Top(t) = f[m]
    BY Here DEF Last
  <2>2. m \in Nat \ {0} /\ m \in 1..m /\ Used(t) \in Nat
    BY <2>1, Typed
  <2>3. /\ SawMode(gen_case_mode, f)
        /\ SlotsOK(gen_case_mode, dump_internal, Used(t), f, disturbed[t])
    BY Typed DEF ThreadOK
  <2>4. gen_case_mode > 0
    BY <2>1, <2>2, <2>3 DEF SawMode
  <2>5. Holders(gen_case_mode, f) = m
    BY <2>1, <2>4, Typed DEF Holders, Last
  <2> HIDE DEF m
  <2>6. f[m].node = IF dump_internal THEN Used(t) - (m - m) ELSE Used(t)
    BY <2>1, <2>2, <2>3, <2>5 DEF SlotsOK, m
  <2> QED  BY <2>1, <2>2, <2>6
<1> QED  BY <1>1, GenCaseInvariant, PTL

\* Operators that fail never lead to memory that is not there: only a mode set
\* under an operator does (gen_case.cpp:156-168, 380-403).
THEOREM OnlySettingTheModeIsWild == Spec => []WildNeedsSetUnder
<1>1. GenInv => WildNeedsSetUnder
  BY DEF GenInv
<1> QED  BY <1>1, GenCaseInvariant, PTL
=============================================================================

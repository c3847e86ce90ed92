--------------------------- MODULE FFTBounds_proofs ---------------------------
(***************************************************************************)
(* Every kernel of a plan stays inside the workspace and the reserve area  *)
(* of the sizes announced, and inside the caller's tensors: a theorem      *)
(* about FFTPlans for any lengths, extents and batches.                    *)
(***************************************************************************)
EXTENDS FFTPlans_proofs

-----------------------------------------------------------------------------
(* Room at an address.                                                     *)

Spaces == {"workspace", "reserve", "host", "input", "output"}

\* The space an address is in has W numbers.
Extent(p, space, W) ==
  \/ space = "workspace" /\ W = Sizes(p).workspace
  \/ space = "reserve" /\ W = Sizes(p).reserve
  \/ space = "host"
  \/ space \in {"input", "output"} /\ W \in UserExtent(p, space)

\* From the address a on there is room for len numbers.
Room(p, a, len) ==
  /\ len \in Nat
  /\ \E space \in Spaces, k \in Nat, W \in Nat :
       a = At(space, k) /\ k + len <= W /\ Extent(p, space, W)

\* Regions that lie within their spaces.
Inside(p, H) == \A h \in H : Within(p, h.at)

\* Kernels that read and write such regions only.
Safe(p, seq) ==
  \E S : seq \in Seq(S) /\ \A s \in S : Inside(p, s.reads \cup s.writes)

\* Room for more is room for less, and for what lies further on.
LEMMA RoomLess ==
  ASSUME NEW p, NEW a, NEW n, Room(p, a, n), NEW len \in Nat, len <= n
  PROVE  Room(p, a, len)
<1>1. n \in Nat
  BY DEF Room
<1>2. PICK space \in Spaces, k \in Nat, W \in Nat :
        a = At(space, k) /\ k + n <= W /\ Extent(p, space, W)
  BY DEF Room
<1>3. k + len <= W
  BY <1>1, <1>2
<1> QED BY <1>2, <1>3 DEF Room

LEMMA RoomMove ==
  ASSUME NEW p, NEW a, NEW n, Room(p, a, n), NEW d \in Nat, NEW len \in Nat,
         d + len <= n
  PROVE  Room(p, Move(a, d), len)
<1>1. n \in Nat
  BY DEF Room
<1>2. PICK space \in Spaces, k \in Nat, W \in Nat :
        a = At(space, k) /\ k + n <= W /\ Extent(p, space, W)
  BY DEF Room
<1>3. Move(a, d) = At(space, k + d)
  BY <1>2 DEF Move, At
<1>4. k + d \in Nat /\ (k + d) + len <= W
  BY <1>1, <1>2
<1> QED BY <1>2, <1>3, <1>4 DEF Room

\* What has room is within.
LEMMA RoomHolds ==
  ASSUME NEW p, NEW a, NEW len, Room(p, a, len), NEW v
  PROVE  Inside(p, {Holds(a, len, v)})
<1>1. len \in Nat
  BY DEF Room
<1>2. PICK space \in Spaces, k \in Nat, W \in Nat :
        a = At(space, k) /\ k + len <= W /\ Extent(p, space, W)
  BY DEF Room
<1> DEFINE r == [in |-> space, lo |-> k, hi |-> k + len]
<1>3. Holds(a, len, v).at = r
  BY <1>2 DEF Holds, Region, At
<1>4. Within(p, r)
  BY <1>1, <1>2 DEF Within, Extent
<1> QED BY <1>3, <1>4 DEF Inside

\* Moving along a space adds up.
LEMMA MoveAt ==
  ASSUME NEW space, NEW k \in Int, NEW d \in Int
  PROVE  Move(At(space, k), d) = At(space, k + d)
BY DEF Move, At

LEMMA MoveTwice ==
  ASSUME NEW W \in Nat, NEW d \in Nat
  PROVE  Move(Move(Workspace, W), - d) = Move(Workspace, W - d)
<1>1. - d \in Int /\ 0 + W = W /\ W + (- d) = W - d
      /\ 0 + (W - d) = W - d /\ W - d \in Int
  OBVIOUS
<1>2. Move(Workspace, W) = At("workspace", W)
  BY <1>1, MoveAt DEF Workspace
<1>3. Move(At("workspace", W), - d) = At("workspace", W - d)
  BY <1>1, MoveAt
<1>4. Move(Workspace, W - d) = At("workspace", W - d)
  BY <1>1, MoveAt DEF Workspace
<1> QED BY <1>2, <1>3, <1>4

\* Room in the workspace, in the reserve area and on the host.
LEMMA RoomOwn ==
  ASSUME NEW p, NEW k \in Nat, NEW len \in Nat, NEW W \in Nat, k + len <= W
  PROVE  /\ W = Sizes(p).workspace => Room(p, Move(Workspace, k), len)
         /\ W = Sizes(p).reserve => Room(p, Move(Reserve, k), len)
         /\ Room(p, At("host", 0), 0)
<1>1. /\ Move(Workspace, k) = At("workspace", k)
      /\ Move(Reserve, k) = At("reserve", k)
  BY MoveAt DEF Workspace, Reserve
<1>2. ASSUME NEW space \in Spaces, Extent(p, space, W)
      PROVE  Room(p, At(space, k), len) /\ Room(p, At(space, 0), 0)
  <2>1. 0 + 0 <= W
    OBVIOUS
  <2> QED BY <1>2, <2>1 DEF Room
<1>3. Extent(p, "host", W)
  BY DEF Extent
<1>4. /\ W = Sizes(p).workspace => Extent(p, "workspace", W)
      /\ W = Sizes(p).reserve => Extent(p, "reserve", W)
  BY DEF Extent
<1> QED BY <1>1, <1>2, <1>3, <1>4 DEF Spaces

\* A layout from the start of the workspace gives each of its buffers its
\* length, and what the workspace has more than the layout.
LEMMA RoomForward ==
  ASSUME NEW p, NEW s, NEW X, NEW L, NEW T, Fill(s, X, L, T),
         NEW W \in Nat, T <= W
  PROVE  /\ DOMAIN Forward(Workspace, s) = X
         /\ DOMAIN Forward(Reserve, s) = X
         /\ W = Sizes(p).workspace =>
              \A x \in X : Room(p, Forward(Workspace, s)[x], L[x] + (W - T))
         /\ W = Sizes(p).reserve =>
              \A x \in X : Room(p, Forward(Reserve, s)[x], L[x] + (W - T))
<1>1. Names(s) = X
  BY DEF Fill
<1>2. ASSUME NEW x \in X
      PROVE  \E k \in Nat :
               /\ L[x] \in Nat /\ T \in Nat /\ k + L[x] <= T
               /\ Forward(Workspace, s)[x] = Move(Workspace, k)
               /\ Forward(Reserve, s)[x] = Move(Reserve, k)
  <2> DEFINE lo == Length(SubSeq(s, 1, Place(s, x) - 1))
  <2>1. lo \in Nat /\ L[x] \in Nat /\ T \in Nat /\ lo + L[x] <= T
    BY Bounds
  <2>2. /\ Forward(Workspace, s)[x] = Move(Workspace, lo)
        /\ Forward(Reserve, s)[x] = Move(Reserve, lo)
    BY <1>1 DEF Forward
  <2> HIDE DEF lo
  <2> QED BY <2>1, <2>2
<1>3. ASSUME NEW x \in X
      PROVE  /\ W = Sizes(p).workspace =>
                  Room(p, Forward(Workspace, s)[x], L[x] + (W - T))
             /\ W = Sizes(p).reserve =>
                  Room(p, Forward(Reserve, s)[x], L[x] + (W - T))
  <2>1. PICK k \in Nat :
          /\ L[x] \in Nat /\ T \in Nat /\ k + L[x] <= T
          /\ Forward(Workspace, s)[x] = Move(Workspace, k)
          /\ Forward(Reserve, s)[x] = Move(Reserve, k)
    BY <1>2
  <2>2. L[x] + (W - T) \in Nat /\ k + (L[x] + (W - T)) <= W
    BY <2>1
  <2> QED BY <2>1, <2>2, RoomOwn
<1> QED BY <1>1, <1>3 DEF Forward

\* A layout backwards from the end of the workspace.
LEMMA RoomBackward ==
  ASSUME NEW p, NEW s, NEW X, NEW L, NEW T, Fill(s, X, L, T),
         Sizes(p).workspace \in Nat, T <= Sizes(p).workspace
  PROVE  LET back == Backward(Move(Workspace, Sizes(p).workspace), s)
         IN  DOMAIN back = X /\ \A x \in X : Room(p, back[x], L[x])
<1> DEFINE W == Sizes(p).workspace
           back == Backward(Move(Workspace, W), s)
<1>1. Names(s) = X
  BY DEF Fill
<1>2. ASSUME NEW x \in X PROVE Room(p, back[x], L[x])
  <2> DEFINE hi == Length(SubSeq(s, 1, Place(s, x)))
  <2>1. L[x] \in Nat /\ T \in Nat /\ hi \in Nat /\ hi <= T /\ L[x] <= hi
    BY Bounds
  <2>2. back[x] = Move(Move(Workspace, W), - hi)
    BY <1>1 DEF Backward
  <2> HIDE DEF hi, back, W
  <2>3. W \in Nat /\ T <= W
    BY DEF W
  <2>4. Move(Move(Workspace, W), - hi) = Move(Workspace, W - hi)
    BY <2>1, <2>3, MoveTwice
  <2>5. W - hi \in Nat /\ (W - hi) + L[x] <= W
    BY <2>1, <2>3
  <2> QED BY <2>1, <2>2, <2>3, <2>4, <2>5, RoomOwn DEF W
<1> QED BY <1>1, <1>2 DEF Backward

\* A buffer of the second of two has all of the first behind it.
LEMMA RoomBehind ==
  ASSUME NEW p, NEW s, NEW t, NEW X, NEW Y, NEW L, NEW T, NEW U,
         Fill(s, X, L, T), Fill(t, Y, L, U), NEW x \in Y, x \notin X,
         Sizes(p).workspace \in Nat, T + U <= Sizes(p).workspace,
         T \in Nat
  PROVE  Room(p, Backward(Move(Workspace, Sizes(p).workspace), s \o t)[x],
              T + L[x])
<1> DEFINE r  == s \o t
           W  == Sizes(p).workspace
           lo == Length(SubSeq(r, 1, Place(r, x) - 1))
           hi == Length(SubSeq(r, 1, Place(r, x)))
<1>1. Fill(r, X \cup Y, L, T + U)
  BY FillConcat
<1>2. x \in X \cup Y /\ Names(r) = X \cup Y
  BY <1>1 DEF Fill
<1>3. lo >= T
  BY <1>2, BoundsOfTwo
<1> HIDE DEF r
<1>4. /\ lo \in Nat /\ L[x] \in Nat /\ hi = lo + L[x] /\ hi <= T + U
      /\ T + U \in Nat
  BY <1>1, <1>2, Bounds
<1>5. Backward(Move(Workspace, W), r)[x] = Move(Move(Workspace, W), - hi)
  BY <1>2 DEF Backward
<1> HIDE DEF lo, hi, W
<1>6. W \in Nat /\ T + U <= W
  BY DEF W
<1>7. Move(Move(Workspace, W), - hi) = Move(Workspace, W - hi)
  BY <1>4, <1>6, MoveTwice
<1>8. T + L[x] \in Nat /\ W - hi \in Nat /\ (W - hi) + (T + L[x]) <= W
  BY <1>3, <1>4, <1>6
<1>9. W = Sizes(p).workspace
  BY DEF W
<1>10. Room(p, Move(Workspace, W - hi), T + L[x])
  BY <1>6, <1>8, <1>9, RoomOwn
<1> QED BY <1>5, <1>7, <1>10 DEF W, r

-----------------------------------------------------------------------------
(* Regions and kernels.                                                    *)

\* Both of two sets of regions.
LEMMA InsideBoth ==
  ASSUME NEW p, NEW V, NEW W, Inside(p, V), Inside(p, W)
  PROVE  Inside(p, V \cup W)
BY DEF Inside

\* No region.
LEMMA InsideNone ==
  ASSUME NEW p
  PROVE  Inside(p, {})
BY DEF Inside

\* No kernel at all.
LEMMA SafeNothing ==
  ASSUME NEW p
  PROVE  Safe(p, <<>>)
<1>1. PICK S : S = {}
  OBVIOUS
<1>2. <<>> \in Seq(S) /\ \A s \in S : Inside(p, s.reads \cup s.writes)
  BY <1>1
<1> QED BY <1>2 DEF Safe

\* One kernel.
LEMMA SafeStage ==
  ASSUME NEW p, NEW reads, NEW writes, Inside(p, reads), Inside(p, writes)
  PROVE  Safe(p, Stage(reads, writes))
<1> DEFINE S == {[reads |-> reads, writes |-> writes]}
<1>1. Stage(reads, writes) \in Seq(S)
  BY DEF Stage
<1>2. \A s \in S : Inside(p, s.reads \cup s.writes)
  BY InsideBoth
<1> HIDE DEF S
<1> QED BY <1>1, <1>2 DEF Safe

\* Kernels one after the other.
LEMMA SafeConcat ==
  ASSUME NEW p, NEW s, NEW t, Safe(p, s), Safe(p, t)
  PROVE  Safe(p, s \o t)
<1>1. PICK S : s \in Seq(S) /\ \A x \in S : Inside(p, x.reads \cup x.writes)
  BY DEF Safe
<1>2. PICK T : t \in Seq(T) /\ \A x \in T : Inside(p, x.reads \cup x.writes)
  BY DEF Safe
<1>3. s \in Seq(S \cup T) /\ t \in Seq(S \cup T)
  BY <1>1, <1>2
<1>4. s \o t \in Seq(S \cup T)
  BY <1>3
<1>5. \A x \in S \cup T : Inside(p, x.reads \cup x.writes)
  BY <1>1, <1>2
<1> QED BY <1>4, <1>5 DEF Safe

\* Kernels that run under a condition.
LEMMA SafeWhen ==
  ASSUME NEW p, NEW cond, NEW s, cond => Safe(p, s)
  PROVE  Safe(p, When(cond, s))
BY SafeNothing DEF When

\* The kernel at the head, and those behind it.
LEMMA SafeTail ==
  ASSUME NEW p, NEW s, Safe(p, s), s # <<>>
  PROVE  /\ Inside(p, Head(s).reads \cup Head(s).writes)
         /\ Safe(p, Tail(s))
<1>1. PICK S : s \in Seq(S) /\ \A x \in S : Inside(p, x.reads \cup x.writes)
  BY DEF Safe
<1>2. Head(s) \in S /\ Tail(s) \in Seq(S)
  BY <1>1
<1> QED BY <1>1, <1>2 DEF Safe

\* A loop over the signals of a batch, or over tables.
LEMMA SafeFlat ==
  ASSUME NEW p, NEW n \in Nat, NEW seqs, seqs = [i \in 1 .. n |-> seqs[i]],
         \A i \in 1 .. n : Safe(p, seqs[i])
  PROVE  Safe(p, FlattenSeq(seqs))
<1> DEFINE S == UNION {{seqs[i][j] : j \in DOMAIN seqs[i]} : i \in 1 .. n}
<1>1. ASSUME NEW i \in 1 .. n
      PROVE  /\ seqs[i] \in Seq(S)
             /\ \A j \in DOMAIN seqs[i] :
                  Inside(p, seqs[i][j].reads \cup seqs[i][j].writes)
  <2>1. PICK B : /\ seqs[i] \in Seq(B)
                 /\ \A x \in B : Inside(p, x.reads \cup x.writes)
    BY DEF Safe
  <2>2. \A j \in DOMAIN seqs[i] : seqs[i][j] \in S /\ seqs[i][j] \in B
    BY <2>1
  <2> HIDE DEF S
  <2>3. /\ DOMAIN seqs[i] = 1 .. Len(seqs[i]) /\ Len(seqs[i]) \in Nat
        /\ seqs[i] = [j \in 1 .. Len(seqs[i]) |-> seqs[i][j]]
    BY <2>1
  <2>4. seqs[i] \in [1 .. Len(seqs[i]) -> S]
    BY <2>2, <2>3
  <2>5. seqs[i] \in Seq(S)
    BY <2>3, <2>4, SeqDef
  <2> QED BY <2>1, <2>2, <2>5
<1>2. \A x \in S : Inside(p, x.reads \cup x.writes)
  BY <1>1
<1> HIDE DEF S
<1>3. FlattenSeq(seqs) \in Seq(S)
  BY <1>1, FlatIsSeq
<1> QED BY <1>2, <1>3 DEF Safe

-----------------------------------------------------------------------------
(* Signals of a batch.                                                     *)

\* The numbers in a batch of signals, each of these dimensions.
Count(p, dims) == p.batch * Size(dims)

Units == {R, C}

\* A multiple and one more.
LEMMA Multiples ==
  ASSUME NEW k \in Nat, NEW m \in Nat, NEW b \in 0 .. k - 1
  PROVE  b * m \in Nat /\ b * m + m <= k * m /\ k * m \in Nat
<1>1. PICK d \in Nat : k = b + 1 + d
  <2>1. k - b - 1 \in Nat /\ k = b + 1 + (k - b - 1)
    OBVIOUS
  <2> QED BY <2>1
<1>2. k * m = b * m + m + d * m
  BY <1>1
<1>3. b * m \in Nat /\ d * m \in Nat /\ k * m \in Nat
  OBVIOUS
<1> QED BY <1>2, <1>3

\* More of more is more.
LEMMA Grows ==
  ASSUME NEW a \in Nat, NEW b \in Nat, NEW c \in Nat, NEW d \in Nat,
         a <= c, b <= d
  PROVE  a * b <= c * d /\ a * b \in Nat /\ c * d \in Nat
<1>1. PICK e \in Nat : c = a + e
  <2>1. c - a \in Nat /\ c = a + (c - a)
    OBVIOUS
  <2> QED BY <2>1
<1>2. PICK f \in Nat : d = b + f
  <2>1. d - b \in Nat /\ d = b + (d - b)
    OBVIOUS
  <2> QED BY <2>1
<1>3. c * d = a * b + a * f + e * b + e * f
  BY <1>1, <1>2
<1>4. a * b \in Nat /\ a * f \in Nat /\ e * b \in Nat /\ e * f \in Nat
  OBVIOUS
<1> QED BY <1>3, <1>4

\* The numbers of a dense batch, and of one signal of it.
LEMMA Signals ==
  ASSUME NEW batch \in Nat, NEW unit \in Units, NEW size \in Nat
  PROVE  /\ unit * (batch * size) \in Nat /\ unit * size \in Nat
         /\ batch * unit * size = unit * (batch * size)
         /\ \A b \in 0 .. batch - 1 :
              /\ b * unit * size \in Nat
              /\ b * unit * size + unit * size <= unit * (batch * size)
<1> DEFINE m == unit * size
<1>1. unit \in Nat /\ (unit = 1 \/ unit = 2)
  BY DEF Units, R, C
<1>2. m \in Nat /\ batch * size \in Nat
  BY <1>1
<1>3. batch * m = unit * (batch * size) /\ batch * unit * size = batch * m
  BY <1>1
<1>4. \A b \in Nat : b * unit * size = b * m
  BY <1>1
<1>5. unit * (batch * size) \in Nat
  BY <1>1, <1>2
<1> HIDE DEF m
<1>6. ASSUME NEW b \in 0 .. batch - 1
      PROVE  b * m \in Nat /\ b * m + m <= batch * m
  BY <1>2, Multiples
<1>7. ASSUME NEW b \in 0 .. batch - 1
      PROVE  /\ b * unit * size \in Nat
             /\ b * unit * size + m <= unit * (batch * size)
  BY <1>3, <1>4, <1>6
<1> QED BY <1>2, <1>3, <1>5, <1>7 DEF m

\* There is room at a for a batch of signals of these dimensions.
Takes(p, a, unit, dims) ==
  unit \in Units /\ p.batch \in Nat /\ Size(dims) \in Nat
  /\ Room(p, a, unit * Count(p, dims))

\* One signal of the batch is inside where the batch has room.
LEMMA InsideSignal ==
  ASSUME NEW p, NEW a, NEW unit, NEW dims, Takes(p, a, unit, dims),
         NEW b \in 0 .. p.batch - 1, NEW v
  PROVE  Inside(p, {Holds(Move(a, b * unit * Size(dims)),
                          unit * Size(dims), v)})
<1> DEFINE size == Size(dims)
<1>1. unit \in Units /\ p.batch \in Nat /\ size \in Nat
  BY DEF Takes
<1>2. Room(p, a, unit * (p.batch * size))
  BY DEF Takes, Count
<1> HIDE DEF size
<1>3. /\ unit * size \in Nat
      /\ b * unit * size \in Nat
      /\ b * unit * size + unit * size <= unit * (p.batch * size)
  BY <1>1, Signals
<1>4. Room(p, Move(a, b * unit * size), unit * size)
  BY <1>2, <1>3, RoomMove
<1> QED BY <1>4, RoomHolds DEF size

\* So is the batch.
LEMMA InsideSignals ==
  ASSUME NEW p, NEW a, NEW unit, NEW v, Takes(p, a, unit, v.dims)
  PROVE  /\ Inside(p, Dense(p, a, unit, v))
         /\ Inside(p, Strided(p, a, unit, v))
<1>1. Inside(p, Dense(p, a, unit, v))
  BY InsideSignal DEF Dense, Inside
<1> DEFINE size == Size(v.dims)
<1>2. unit \in Units /\ p.batch \in Nat /\ size \in Nat
  BY DEF Takes
<1>3. Room(p, a, unit * (p.batch * size))
  BY DEF Takes, Count
<1> HIDE DEF size
<1>4. p.batch * unit * size = unit * (p.batch * size)
  BY <1>2, Signals
<1>5. Inside(p, Strided(p, a, unit, v))
  BY <1>3, <1>4, RoomHolds DEF Strided, size
<1> QED BY <1>1, <1>5

\* Scratch.
LEMMA InsideScratch ==
  ASSUME NEW p, NEW a, NEW len, Room(p, a, len)
  PROVE  Inside(p, Scratch(a, len))
BY RoomHolds DEF Scratch

-----------------------------------------------------------------------------
(* Dimensions.                                                             *)

\* The lengths of one signal, and how many numbers it has.
LEMMA SizeOf ==
  ASSUME NEW r \in 1 .. 2, NEW d \in Dims(r)
  PROVE  /\ r = 1 => Size(d) = d[1]
         /\ r = 2 => Size(d) = d[1] * d[2]
         /\ \A i \in 1 .. r : d[i] \in Nat /\ d[i] >= 1
         /\ Size(d) \in Nat
<1>1. DOMAIN d = 1 .. r /\ \A i \in 1 .. r : d[i] \in Nat \ {0}
  BY DEF Dims
<1>2. \A i \in 1 .. r : d[i] \in Nat /\ d[i] >= 1
  BY <1>1
<1>3. r = 1 => Size(d) = d[1]
  <2>1. r = 1 => 2 \notin DOMAIN d
    BY <1>1
  <2> QED BY <2>1 DEF Size
<1>4. r = 2 => Size(d) = d[1] * d[2]
  <2>1. r = 2 => 2 \in DOMAIN d
    BY <1>1
  <2> QED BY <2>1 DEF Size
<1>5. Size(d) \in Nat
  <2>1. r = 1 => d[1] \in Nat
    BY <1>2
  <2>2. r = 2 => d[1] \in Nat /\ d[2] \in Nat
    BY <1>2
  <2> QED BY <1>3, <1>4, <2>1, <2>2
<1> QED BY <1>2, <1>3, <1>4, <1>5

\* Signals that are nowhere longer have no more numbers.
LEMMA SizeGrows ==
  ASSUME NEW r \in 1 .. 2, NEW d \in Dims(r), NEW e \in Dims(r),
         \A i \in 1 .. r : d[i] <= e[i]
  PROVE  Size(d) <= Size(e)
<1>1. CASE r = 1
  BY <1>1, SizeOf
<1>2. CASE r = 2
  <2>1. /\ d[1] \in Nat /\ d[2] \in Nat /\ e[1] \in Nat /\ e[2] \in Nat
        /\ d[1] <= e[1] /\ d[2] <= e[2]
    BY <1>2, SizeOf
  <2>2. d[1] * d[2] <= e[1] * e[2]
    BY <2>1, Grows
  <2> QED BY <1>2, <2>2, SizeOf
<1> QED BY <1>1, <1>2

\* Two of the same lengths are the same.
LEMMA SameDims ==
  ASSUME NEW r, NEW d \in Dims(r), NEW e \in Dims(r),
         \A i \in 1 .. r : d[i] = e[i]
  PROVE  d = e
<1>1. d = [i \in 1 .. r |-> d[i]] /\ e = [i \in 1 .. r |-> e[i]]
  BY DEF Dims
<1> QED BY <1>1

\* Half of the last dimension.
LEMMA Halves2 ==
  ASSUME NEW r \in 1 .. 2, NEW n \in Dims(r)
  PROVE  /\ HalfDims(n) \in Dims(r)
         /\ \A i \in 1 .. r : HalfDims(n)[i] <= n[i]
         /\ \A i \in 1 .. r :
              HalfDims(n)[i] = IF i = r THEN Half(n[i]) ELSE n[i]
<1>1. Len(n) = r
  <2>1. n \in Seq(Nat \ {0})
    <3>1. [1 .. r -> Nat \ {0}] \in {[1 .. k -> Nat \ {0}] : k \in Nat}
      OBVIOUS
    <3> QED BY <3>1, SeqDef DEF Dims
  <2>2. DOMAIN n = 1 .. r
    BY DEF Dims
  <2> QED BY <2>1, <2>2, LenProperties
<1>2. \A i \in 1 .. r : n[i] \in Nat /\ n[i] >= 1
  BY SizeOf
<1>3. \A k \in Nat : k >= 1 => /\ Half(k) \in Nat \ {0} /\ Half(k) <= k
  BY DEF Half
<1>4. HalfDims(n) = [i \in 1 .. r |-> IF i = r THEN Half(n[i]) ELSE n[i]]
  BY <1>1 DEF HalfDims, Dims
<1>5. \A i \in 1 .. r : HalfDims(n)[i] = IF i = r THEN Half(n[i]) ELSE n[i]
  BY <1>4
<1>6. \A i \in 1 .. r : HalfDims(n)[i] \in Nat \ {0} /\ HalfDims(n)[i] <= n[i]
  BY <1>2, <1>3, <1>5
<1>7. HalfDims(n) \in Dims(r)
  BY <1>4, <1>6 DEF Dims
<1> QED BY <1>5, <1>6, <1>7

\* Room for a batch is room for one of shorter signals.
LEMMA TakesRoom ==
  ASSUME NEW p, NEW a, NEW len, Room(p, a, len), NEW unit \in Units,
         p.batch \in Nat, NEW r \in 1 .. 2, NEW d \in Dims(r),
         unit * Count(p, d) <= len
  PROVE  Takes(p, a, unit, d)
<1>1. Size(d) \in Nat
  BY SizeOf
<1>2. unit * Count(p, d) \in Nat
  BY <1>1, Signals DEF Count
<1>3. Room(p, a, unit * Count(p, d))
  BY <1>2, RoomLess
<1> QED BY <1>1, <1>3 DEF Takes

LEMMA CountGrows ==
  ASSUME NEW p, p.batch \in Nat, NEW unit \in Units,
         NEW r \in 1 .. 2, NEW d \in Dims(r), NEW e \in Dims(r),
         \A i \in 1 .. r : d[i] <= e[i]
  PROVE  /\ unit * Count(p, d) \in Nat /\ unit * Count(p, e) \in Nat
         /\ unit * Count(p, d) <= unit * Count(p, e)
<1>1. Size(d) \in Nat /\ Size(e) \in Nat /\ Size(d) <= Size(e)
  BY SizeOf, SizeGrows
<1>2. p.batch <= p.batch
  OBVIOUS
<1>3. Count(p, d) <= Count(p, e) /\ Count(p, d) \in Nat /\ Count(p, e) \in Nat
  BY <1>1, <1>2, Grows DEF Count
<1>4. unit \in Nat /\ unit <= unit
  BY DEF Units, R, C
<1> QED BY <1>3, <1>4, Grows

LEMMA TakesLess ==
  ASSUME NEW p, NEW a, NEW unit, NEW r \in 1 .. 2, NEW d \in Dims(r),
         NEW e \in Dims(r), Takes(p, a, unit, e),
         \A i \in 1 .. r : d[i] <= e[i]
  PROVE  Takes(p, a, unit, d)
<1>1. unit * Count(p, d) <= unit * Count(p, e)
  BY CountGrows DEF Takes
<1> QED BY <1>1, TakesRoom DEF Takes

\* What the caller gives reaches as far as his batch.
LEMMA GivenReaches ==
  ASSUME NEW p, p.batch \in Nat, p.batch >= 1, NEW unit \in Units, NEW v,
         Size(v.dims) \in Nat, NEW space
  PROVE  LET reaches(H) == \E h \in H : /\ h.at.in = space
                                        /\ h.at.hi = unit * Count(p, v.dims)
         IN  /\ reaches(Dense(p, At(space, 0), unit, v))
             /\ reaches(Strided(p, At(space, 0), unit, v))
<1> DEFINE size == Size(v.dims)
           b    == p.batch - 1
<1>1. unit \in Nat /\ size \in Nat
  BY DEF Units, R, C
<1> HIDE DEF size
<1>2. p.batch * unit * size = unit * (p.batch * size)
  BY <1>1, Signals
<1>3. /\ b \in Nat /\ b * unit * size \in Nat /\ unit * size \in Nat
      /\ 0 + b * unit * size + unit * size = p.batch * unit * size
      /\ 0 + p.batch * unit * size = p.batch * unit * size
  <2>1. b \in Nat /\ p.batch = b + 1
    OBVIOUS
  <2> HIDE DEF b
  <2>2. (b + 1) * unit * size = b * unit * size + unit * size
    BY <1>1, <2>1
  <2>3. b * unit * size \in Nat /\ unit * size \in Nat
    BY <1>1, <2>1
  <2> QED BY <1>1, <2>1, <2>2, <2>3
<1>4. b \in 0 .. p.batch - 1
  BY <1>3
<1> HIDE DEF b
<1> DEFINE d == Holds(Move(At(space, 0), b * unit * size), unit * size, v)
           w == [v EXCEPT !.is = @ \o " strided"]
           s == Holds(At(space, 0), p.batch * unit * size, w)
<1>5. d \in Dense(p, At(space, 0), unit, v)
  BY <1>4 DEF Dense, size
<1>6. s \in Strided(p, At(space, 0), unit, v)
  BY DEF Strided, size
<1> HIDE DEF w
<1>7. /\ d.at.in = space
      /\ d.at.hi = 0 + b * unit * size + unit * size
  BY DEF Holds, Region, Move, At
<1>8. /\ s.at.in = space
      /\ s.at.hi = 0 + p.batch * unit * size
  BY DEF Holds, Region, At
<1> HIDE DEF d, s
<1>9. Count(p, v.dims) = p.batch * size
  BY DEF Count, size
<1> QED BY <1>2, <1>3, <1>5, <1>6, <1>7, <1>8, <1>9

\* So the caller's tensors take his batch.
LEMMA CallerTakes ==
  ASSUME NEW p, p.batch \in Nat, p.batch >= 1, NEW r \in 1 .. 2
  PROVE  /\ p.inembed \in Dims(r) => Takes(p, Input(p), InUnit(p), p.inembed)
         /\ p.onembed \in Dims(r) => Takes(p, Output(p), OutUnit(p), p.onembed)
<1>1. InUnit(p) \in Units /\ OutUnit(p) \in Units
  BY DEF InUnit, OutUnit, Units
<1>2. Signal(p.inembed).dims = p.inembed /\ Result(p.onembed).dims = p.onembed
  BY DEF Signal, Result, Value
<1>3. ASSUME NEW space \in {"input", "output"}, NEW unit \in Units, NEW dims,
             Size(dims) \in Nat, unit * Count(p, dims) \in UserExtent(p, space)
      PROVE  Takes(p, At(space, 0), unit, dims)
  <2> DEFINE len == unit * Count(p, dims)
  <2>1. len \in Nat
    BY <1>3, Signals DEF Count
  <2>2. len \in UserExtent(p, space)
    BY <1>3
  <2> HIDE DEF len
  <2>3. 0 + len <= len /\ Extent(p, space, len) /\ space \in Spaces
    BY <2>1, <2>2 DEF Extent, Spaces
  <2>4. Room(p, At(space, 0), len)
    BY <2>1, <2>3 DEF Room
  <2> QED BY <1>3, <2>4 DEF Takes, len
<1> DEFINE in   == GivenInput(p, InUnit(p))
           out  == GivenOutput(p, OutUnit(p), Result(p.onembed))
           all  == in \cup out
<1>4. ASSUME NEW h \in all, NEW space, h.at.in = space
      PROVE  h.at.hi \in UserExtent(p, space)
  BY <1>4 DEF UserExtent
<1>5. ASSUME p.inembed \in Dims(r)
      PROVE  Takes(p, Input(p), InUnit(p), p.inembed)
  <2>1. Size(p.inembed) \in Nat
    BY <1>5, SizeOf
  <2>2. \E h \in in : /\ h.at.in = "input"
                      /\ h.at.hi = InUnit(p) * Count(p, p.inembed)
    BY <1>1, <1>2, <2>1, GivenReaches DEF GivenInput, Input
  <2> HIDE DEF in, out
  <2>3. InUnit(p) * Count(p, p.inembed) \in UserExtent(p, "input")
    BY <1>4, <2>2
  <2> QED BY <1>1, <1>3, <2>1, <2>3 DEF Input
<1>6. ASSUME p.onembed \in Dims(r)
      PROVE  Takes(p, Output(p), OutUnit(p), p.onembed)
  <2> DEFINE space == IF p.inPlace THEN "input" ELSE "output"
  <2>1. Size(p.onembed) \in Nat
    BY <1>6, SizeOf
  <2>2. Output(p) = At(space, 0)
    BY DEF Output
  <2> HIDE DEF space
  <2>3. \E h \in out : /\ h.at.in = space
                       /\ h.at.hi = OutUnit(p) * Count(p, p.onembed)
    BY <1>1, <1>2, <2>1, <2>2, GivenReaches DEF GivenOutput
  <2> HIDE DEF in, out
  <2>4. OutUnit(p) * Count(p, p.onembed) \in UserExtent(p, space)
    BY <1>4, <2>3
  <2>5. space \in {"input", "output"}
    BY DEF space
  <2> QED BY <1>1, <1>3, <2>1, <2>2, <2>4, <2>5
<1> QED BY <1>5, <1>6

-----------------------------------------------------------------------------
(* Steps the plans share.                                                  *)

\* What is enough for them: the caller's tensors are of these dimensions.
IsGiven(p) ==
  /\ p.rank \in 1 .. 2 /\ p.batch \in Nat /\ p.batch >= 1
  /\ p.inembed \in Dims(p.rank) /\ p.onembed \in Dims(p.rank)

LEMMA GivenTakes ==
  ASSUME NEW p, IsGiven(p)
  PROVE  /\ Takes(p, Input(p), InUnit(p), p.inembed)
         /\ Takes(p, Output(p), OutUnit(p), p.onembed)
BY CallerTakes DEF IsGiven

\* Naming a value anew and scaling it keep its dimensions.
LEMMA ValueDims ==
  ASSUME NEW p, NEW name, NEW d
  PROVE  LET v == Value(name, d)
         IN  /\ v.dims = d /\ Scaled(p, v).dims = d
             /\ \A along : Along(along, v).dims = d
BY DEF Value, Scaled, Along

LEMMA SafeCopyIn ==
  ASSUME NEW p, IsGiven(p), NEW unit, unit = InUnit(p), NEW to, NEW dims,
         Takes(p, to, unit, dims)
  PROVE  Safe(p, CopyIn(p, to, unit, dims))
<1>1. Signal(p.inembed).dims = p.inembed /\ Signal(dims).dims = dims
  BY DEF Signal, Value
<1>2. Takes(p, Input(p), unit, p.inembed)
  BY GivenTakes
<1>3. Inside(p, GivenInput(p, unit))
  BY <1>1, <1>2, InsideSignals DEF GivenInput
<1>4. Inside(p, Dense(p, to, unit, Signal(dims)))
  BY <1>1, InsideSignals
<1> QED BY <1>3, <1>4, SafeStage DEF CopyIn

LEMMA SafeFit ==
  ASSUME NEW p, NEW from, NEW dims, NEW to, NEW n, NEW unit,
         Takes(p, from, unit, dims), Takes(p, to, unit, n)
  PROVE  Safe(p, Fit(p, from, dims, to, n, unit))
<1>1. Signal(dims).dims = dims /\ Signal(n).dims = n
  BY DEF Signal, Value
<1>2. /\ Inside(p, Dense(p, from, unit, Signal(dims)))
      /\ Inside(p, Dense(p, to, unit, Signal(n)))
  BY <1>1, InsideSignals
<1> QED BY <1>2, SafeStage DEF Fit

LEMMA SafeRescale ==
  ASSUME NEW p, NEW a, NEW unit, NEW d, Takes(p, a, unit, d)
  PROVE  /\ Safe(p, Rescale(p, a, unit, Result(d)))
         /\ Safe(p, RescaleStrided(p, a, unit, Result(d)))
<1>1. Result(d).dims = d /\ Scaled(p, Result(d)).dims = d
  BY ValueDims DEF Result
<1>2. /\ Inside(p, Dense(p, a, unit, Result(d)))
      /\ Inside(p, Dense(p, a, unit, Scaled(p, Result(d))))
      /\ Inside(p, Strided(p, a, unit, Result(d)))
      /\ Inside(p, Strided(p, a, unit, Scaled(p, Result(d))))
  BY <1>1, InsideSignals
<1> QED BY <1>2, SafeStage, SafeWhen DEF Rescale, RescaleStrided

LEMMA SafeCopyOut ==
  ASSUME NEW p, IsGiven(p), NEW unit, unit = OutUnit(p), NEW from,
         Takes(p, from, unit, p.onembed)
  PROVE  Safe(p, CopyOut(p, from, unit, Scaled(p, Result(p.onembed))))
<1> DEFINE v == Scaled(p, Result(p.onembed))
<1>1. v.dims = p.onembed
  BY ValueDims DEF Result
<1> HIDE DEF v
<1>2. Takes(p, Output(p), unit, p.onembed)
  BY GivenTakes
<1>3. Inside(p, Dense(p, from, unit, v)) /\ Inside(p, Strided(p, Output(p), unit, v))
  BY <1>1, <1>2, InsideSignals
<1>4. Safe(p, CopyOut(p, from, unit, v))
  BY <1>3, SafeStage, SafeWhen DEF CopyOut
<1> QED BY <1>4 DEF v

LEMMA SafeButterfly ==
  ASSUME NEW p, NEW tables, NEW from, NEW to, NEW buf, Inside(p, tables),
         Inside(p, from), Inside(p, to), Inside(p, buf)
  PROVE  Safe(p, Butterfly(tables, from, to, buf))
BY InsideBoth, SafeStage DEF Butterfly

-----------------------------------------------------------------------------
(* Layouts.                                                                *)

\* Tables that fit into the reserve area are where the kernels read them and
\* where the copies from the host write them.
LEMMA TablesFit ==
  ASSUME NEW p, NEW s, NEW X, NEW L, NEW T, Fill(s, X, L, T),
         Sizes(p).reserve \in Nat, T <= Sizes(p).reserve
  PROVE  /\ \A names \in SUBSET X : Inside(p, Tables(s, names))
         /\ Safe(p, CopyTables(s))
<1> DEFINE at == Forward(Reserve, s)
           W  == Sizes(p).reserve
<1>1. \A x \in X : Room(p, at[x], L[x] + (W - T))
  BY RoomForward
<1>2. T \in Nat /\ IsLayout(s) /\ Names(s) = X
  <2>1. IsLayout(s) /\ Names(s) = X /\ Length(s) = T
    BY DEF Fill
  <2>2. PICK g : Sums(s, g) /\ T = g[Len(s)]
    BY <2>1, LengthSums
  <2>3. Len(s) \in Nat
    BY <2>1 DEF IsLayout, IsSeq
  <2> QED BY <2>1, <2>2, <2>3 DEF Sums
<1>3. /\ Len(s) \in Nat /\ DOMAIN s = 1 .. Len(s)
      /\ \A i \in DOMAIN s : /\ s[i].name \in X /\ s[i].len = L[s[i].name]
                             /\ s[i].len \in Nat
  BY <1>2 DEF IsLayout, IsSeq, Names, Fill
<1>4. ASSUME NEW x \in X, L[x] \in Nat PROVE Room(p, at[x], L[x])
  <2>1. L[x] <= L[x] + (W - T)
    BY <1>2, <1>4
  <2> HIDE DEF at, W
  <2> QED BY <1>1, <1>4, <2>1, RoomLess
<1>5. Room(p, At("host", 0), 0)
  <2>1. 0 + 0 <= 0
    OBVIOUS
  <2> QED BY <2>1, RoomOwn
<1>6. ASSUME NEW names \in SUBSET X PROVE Inside(p, Tables(s, names))
  <2>1. ASSUME NEW t \in names
        PROVE  Inside(p, {Holds(at[t], s[Place(s, t)].len, Value(t, <<>>))})
    <3>1. s[Place(s, t)].len = L[t] /\ L[t] \in Nat
      BY Bounds
    <3> HIDE DEF at
    <3> QED BY <1>4, <3>1, RoomHolds
  <2> QED BY <2>1 DEF Tables, Inside
<1>7. Safe(p, CopyTables(s))
  <2> DEFINE seqs == [i \in 1 .. Len(s) |->
                        CopyTable(s[i].name, at[s[i].name], s[i].len)]
  <2>1. CopyTables(s) = FlattenSeq(seqs)
    BY DEF CopyTables
  <2>2. ASSUME NEW i \in 1 .. Len(s) PROVE Safe(p, seqs[i])
    <3>1. Room(p, at[s[i].name], s[i].len)
      BY <1>3, <1>4
    <3>2. seqs[i] = CopyTable(s[i].name, at[s[i].name], s[i].len)
      OBVIOUS
    <3> HIDE DEF at, seqs
    <3> QED BY <1>5, <3>1, <3>2, RoomHolds, SafeStage DEF CopyTable
  <2>3. seqs = [i \in 1 .. Len(s) |-> seqs[i]]
    OBVIOUS
  <2> HIDE DEF seqs
  <2> QED BY <1>3, <2>1, <2>2, <2>3, SafeFlat
<1> QED BY <1>6, <1>7

\* The branches that lay out the workspace from its start have what they lay
\* out, and otherwise the caller's tensors.
LEMMA CallerRoom ==
  ASSUME NEW p, NEW s, NEW X, NEW L, NEW T, Fill(s, X, L, T),
         Sizes(p).workspace \in Nat, T <= Sizes(p).workspace,
         NEW rest, {"input", "output"} \subseteq DOMAIN rest,
         rest["input"] = Input(p), rest["output"] = Output(p)
  PROVE  LET a == With(Forward(Workspace, s), rest)
         IN  /\ \A x \in X :
                  x \in DOMAIN a
                  /\ Room(p, a[x], L[x] + (Sizes(p).workspace - T))
             /\ "input" \notin X => a["input"] = Input(p)
             /\ "output" \notin X => a["output"] = Output(p)
             /\ {"input", "output"} \subseteq DOMAIN a
<1> DEFINE f == Forward(Workspace, s)
<1>1. /\ DOMAIN f = X
      /\ \A x \in X : Room(p, f[x], L[x] + (Sizes(p).workspace - T))
  BY RoomForward
<1> HIDE DEF f
<1>2. /\ DOMAIN With(f, rest) = DOMAIN f \cup DOMAIN rest
      /\ \A x \in DOMAIN f : With(f, rest)[x] = f[x]
      /\ \A x \in DOMAIN rest \ DOMAIN f : With(f, rest)[x] = rest[x]
  BY Merge
<1> QED BY <1>1, <1>2 DEF f

-----------------------------------------------------------------------------
(* What a plan is made of, as far as the sizes go.                         *)

IsMeasured(p) ==
  /\ IsTransform(p) /\ p.batch >= 1
  /\ p.L = p.n[1]
  /\ p.onembed = IF p.kind = "r2c" THEN HalfDims(p.n) ELSE p.n
  /\ p.internal \in Nat /\ CnnlSpace <= p.internal
  /\ p.rank = 1 /\ p.strategy # "matmul" =>
       2 * R * p.batch * p.n[1] <= p.internal
  /\ p.bluestein => p.kind = "c2c" /\ p.prime
  /\ p.batchInner /\ p.rank = 1 => p.kind = "c2c"
  /\ p.batchInner \/ p.strategy = "many" =>
       ~ p.inDense /\ ~ p.outDense /\ p.inembed = Matching(p.kind, p.n)

LEMMA MeasuredIsGiven ==
  ASSUME NEW p, IsMeasured(p)
  PROVE  IsGiven(p)
<1>1. HalfDims(p.n) \in Dims(p.rank)
  BY Halves2 DEF IsMeasured, IsTransform
<1> QED BY <1>1 DEF IsMeasured, IsTransform, IsGiven

\* The sizes CNNL asks for.
LEMMA SizesAreNat ==
  FactorTable \in Nat /\ DftTable \in Nat /\ CnnlSpace \in Nat
BY FFTSizesAssumption DEF FFTSizes

\* A signal is nowhere longer nor shorter than one of the same dimensions.
LEMMA LikeTheInput ==
  ASSUME NEW p, IsMeasured(p)
  PROVE  /\ ~ Longer(p) /\ ~ Shorter(p) => p.n = p.inembed
         /\ Longer(p) => p.n # p.inembed
         /\ Shorter(p) => p.n # p.inembed
         /\ ~ Shorter(p) => \A i \in 1 .. p.rank : p.inembed[i] <= p.n[i]
         /\ ~ Longer(p) => \A i \in 1 .. p.rank : p.n[i] <= p.inembed[i]
         /\ Trimmed(p) \in Dims(p.rank)
         /\ \A i \in 1 .. p.rank : /\ Trimmed(p)[i] <= p.n[i]
                                   /\ Trimmed(p)[i] <= p.inembed[i]
         /\ ~ Shorter(p) => Trimmed(p) = p.inembed
<1>1. p.rank \in 1 .. 2 /\ p.n \in Dims(p.rank) /\ p.inembed \in Dims(p.rank)
  BY DEF IsMeasured, IsTransform
<1>2. \A i \in 1 .. p.rank : /\ p.n[i] \in Nat \ {0} /\ p.inembed[i] \in Nat \ {0}
  BY <1>1, SizeOf DEF Dims
<1>3. ~ Shorter(p) => \A i \in 1 .. p.rank : p.inembed[i] <= p.n[i]
  BY <1>2 DEF Shorter
<1>4. ~ Longer(p) => \A i \in 1 .. p.rank : p.n[i] <= p.inembed[i]
  BY <1>2 DEF Longer
<1>5. ~ Longer(p) /\ ~ Shorter(p) => p.n = p.inembed
  <2>1. ~ Longer(p) /\ ~ Shorter(p) =>
          \A i \in 1 .. p.rank : p.n[i] = p.inembed[i]
    BY <1>2, <1>3, <1>4
  <2> QED BY <1>1, <2>1, SameDims
<1>6. (Longer(p) => p.n # p.inembed) /\ (Shorter(p) => p.n # p.inembed)
  BY <1>2 DEF Longer, Shorter
<1>7. \A i \in 1 .. p.rank :
        Trimmed(p)[i] = IF p.n[i] < p.inembed[i] THEN p.n[i] ELSE p.inembed[i]
  BY DEF Trimmed
<1>8. \A i \in 1 .. p.rank : /\ Trimmed(p)[i] \in Nat \ {0}
                             /\ Trimmed(p)[i] <= p.n[i]
                             /\ Trimmed(p)[i] <= p.inembed[i]
  BY <1>2, <1>7
<1>9. Trimmed(p) \in Dims(p.rank)
  <2>1. Trimmed(p) = [i \in 1 .. p.rank |-> Trimmed(p)[i]]
    BY DEF Trimmed
  <2> QED BY <1>8, <2>1 DEF Dims
<1>10. ~ Shorter(p) => Trimmed(p) = p.inembed
  <2>1. ~ Shorter(p) => \A i \in 1 .. p.rank : Trimmed(p)[i] = p.inembed[i]
    BY <1>2, <1>3, <1>7
  <2> QED BY <1>1, <1>9, <2>1, SameDims
<1> QED BY <1>3, <1>4, <1>5, <1>6, <1>8, <1>9, <1>10

-----------------------------------------------------------------------------
(* Complex to complex, one dimension, by butterflies.                      *)

\* What this branch has room for behind each of its addresses.
ButterflyRoom(p, a) ==
  LET buffer == C * p.batch * Length1(p)
      copied == ~ (p.inDense /\ ~ Shorter(p)) /\ ~ Columnwise(p)
      given  == ~ p.outDense /\ ~ Columnwise(p)
  IN /\ Room(p, a["buf"], 2 * buffer)
     /\ IF copied THEN Room(p, a["input"], buffer) ELSE a["input"] = Input(p)
     /\ IF given THEN Room(p, a["output"], buffer)
                 ELSE a["output"] = Output(p)
     /\ Longer(p) => Room(p, a["input_pad"], buffer)
     /\ p.bluestein => /\ Room(p, a["chirpz_row"], C * Length1(p))
                       /\ Room(p, a["aux_row"], C * Length1(p))
                       /\ Room(p, a["bs_input"], buffer)
                       /\ Room(p, a["bs_output"], buffer)

\* mluOpAllocateC2C1D and configureFFT1dWorkspaceAddrs agree.
LEMMA ButterflyAgree ==
  ASSUME NEW p, IsMeasured(p), p.kind = "c2c", p.rank = 1, ~ MatmulPath(p)
  PROVE  ButterflyRoom(p, configureFFT1dWorkspaceAddrs(p))
<1> DEFINE buffer == C * p.batch * Length1(p)
           twice  == 2 * buffer
           chirp  == C * Length1(p)
           both   == 2 * C * Length1(p)
           short  == p.inDense /\ p.n[1] <= p.inembed[1]
           fine   == p.outDense /\ p.n[1] <= p.onembed[1]
           inner  == Columnwise(p)
           inA    == ~ short /\ ~ inner
           outA   == ~ fine /\ ~ inner
           padA   == p.n # p.inembed
           copied == ~ (p.inDense /\ ~ Shorter(p)) /\ ~ inner
           given  == ~ p.outDense /\ ~ inner
           pad    == Longer(p)
           blue   == p.bluestein
           L == [buf |-> twice, input |-> buffer, output |-> buffer,
                 pad |-> buffer, chirps |-> both, products |-> twice,
                 input_pad |-> buffer, chirpz_row |-> chirp,
                 aux_row |-> chirp, bs_input |-> buffer, bs_output |-> buffer]
           sizes == Buffer("buf", twice)
                    \o When(inA, Buffer("input", buffer))
                    \o When(outA, Buffer("output", buffer))
                    \o When(padA, Buffer("pad", buffer))
                    \o When(blue, Buffer("chirps", both)
                                  \o Buffer("products", twice))
           more  == Buffer("chirpz_row", chirp) \o Buffer("aux_row", chirp)
                    \o Buffer("bs_input", buffer)
                    \o Buffer("bs_output", buffer)
           moreNames == {"chirpz_row"} \cup {"aux_row"} \cup {"bs_input"}
                        \cup {"bs_output"}
           parts == Buffer("buf", twice)
                    \o When(copied, Buffer("input", buffer))
                    \o When(given, Buffer("output", buffer))
                    \o When(pad, Buffer("input_pad", buffer))
                    \o When(blue, more)
           names == {"buf"} \cup (IF copied THEN {"input"} ELSE {})
                    \cup (IF given THEN {"output"} ELSE {})
                    \cup (IF pad THEN {"input_pad"} ELSE {})
                    \cup (IF blue THEN moreNames ELSE {})
           rest  == [input |-> Input(p), output |-> Output(p),
                     input_pad |-> Unset]
           W     == Sizes(p).workspace
           total == twice + (IF copied THEN buffer ELSE 0)
                    + (IF given THEN buffer ELSE 0)
                    + (IF pad THEN buffer ELSE 0)
                    + (IF blue THEN chirp + chirp + buffer + buffer ELSE 0)
           a     == With(Forward(Workspace, parts), rest)
<1>1. configureFFT1dWorkspaceAddrs(p) = a
  BY DEF configureFFT1dWorkspaceAddrs
<1>2. W = Length(sizes)
  BY DEF Sizes, C2CSizes, AllocateC2C1D
<1>3. /\ buffer \in Nat /\ twice \in Nat /\ chirp \in Nat /\ both \in Nat
      /\ twice = buffer + buffer /\ both = chirp + chirp
  <2>1. p.batch \in Nat /\ p.n[1] \in Nat
    BY SizeOf DEF IsMeasured, IsTransform
  <2>2. Length1(p) \in Nat
    BY <2>1 DEF Length1, PadN
  <2> QED BY <2>1, <2>2 DEF C
<1>4. /\ L["buf"] = twice /\ L["input"] = buffer /\ L["output"] = buffer
      /\ L["pad"] = buffer /\ L["chirps"] = both /\ L["products"] = twice
      /\ L["input_pad"] = buffer /\ L["chirpz_row"] = chirp
      /\ L["aux_row"] = chirp /\ L["bs_input"] = buffer
      /\ L["bs_output"] = buffer
  OBVIOUS
<1>5. /\ copied => inA \/ padA
      /\ given => outA
      /\ pad => padA
      /\ copied /\ pad => inA
  <2>1. p.n[1] \in Nat /\ p.inembed[1] \in Nat
    BY SizeOf DEF IsMeasured, IsTransform
  <2>2. /\ Shorter(p) => padA
        /\ Longer(p) => padA /\ p.n[1] > p.inembed[1]
    BY LikeTheInput DEF Longer
  <2>3. Longer(p) => ~ (p.n[1] <= p.inembed[1])
    BY <2>1, <2>2
  <2>4. /\ copied => ~ inner /\ (~ p.inDense \/ Shorter(p))
        /\ given => ~ inner /\ ~ p.outDense
    OBVIOUS
  <2>5. given => outA
    BY <2>4
  <2>6. copied /\ ~ p.inDense => inA
    BY <2>4
  <2> HIDE DEF padA, inner
  <2> QED BY <2>2, <2>3, <2>4, <2>5, <2>6
<1> HIDE DEF buffer, twice, chirp, both, inA, outA, padA, copied, given, pad,
             blue, L, W
<1> HIDE DEF inner, short, fine
<1>6. Fill(sizes, {"buf"} \cup (IF inA THEN {"input"} ELSE {})
                  \cup (IF outA THEN {"output"} ELSE {})
                  \cup (IF padA THEN {"pad"} ELSE {})
                  \cup (IF blue THEN {"chirps"} \cup {"products"} ELSE {}),
           L, twice + (IF inA THEN buffer ELSE 0)
              + (IF outA THEN buffer ELSE 0) + (IF padA THEN buffer ELSE 0)
              + (IF blue THEN both + twice ELSE 0))
  <2>1. /\ Fill(Buffer("buf", twice), {"buf"}, L, twice)
        /\ Fill(Buffer("input", buffer), {"input"}, L, buffer)
        /\ Fill(Buffer("output", buffer), {"output"}, L, buffer)
        /\ Fill(Buffer("pad", buffer), {"pad"}, L, buffer)
        /\ Fill(Buffer("chirps", both), {"chirps"}, L, both)
        /\ Fill(Buffer("products", twice), {"products"}, L, twice)
    BY <1>3, <1>4, FillBuffer
  <2> QED BY ZenonT(40), <2>1, FillWhen, FillConcat
<1>7. W = twice + (IF inA THEN buffer ELSE 0)
          + (IF outA THEN buffer ELSE 0) + (IF padA THEN buffer ELSE 0)
          + (IF blue THEN both + twice ELSE 0)
  BY <1>2, <1>6 DEF Fill
<1>8. Fill(parts, names, L, total)
  <2>1. /\ Fill(Buffer("buf", twice), {"buf"}, L, twice)
        /\ Fill(Buffer("input", buffer), {"input"}, L, buffer)
        /\ Fill(Buffer("output", buffer), {"output"}, L, buffer)
        /\ Fill(Buffer("input_pad", buffer), {"input_pad"}, L, buffer)
        /\ Fill(Buffer("chirpz_row", chirp), {"chirpz_row"}, L, chirp)
        /\ Fill(Buffer("aux_row", chirp), {"aux_row"}, L, chirp)
        /\ Fill(Buffer("bs_input", buffer), {"bs_input"}, L, buffer)
        /\ Fill(Buffer("bs_output", buffer), {"bs_output"}, L, buffer)
    BY <1>3, <1>4, FillBuffer
  <2>2. Fill(more, moreNames, L, chirp + chirp + buffer + buffer)
    BY <2>1, FillConcat
  <2> HIDE DEF more, moreNames
  <2> QED BY ZenonT(40), <2>1, <2>2, FillWhen, FillConcat
<1>9. W \in Nat /\ total <= W /\ W - total \in Nat
  BY <1>3, <1>5, <1>7
<1> HIDE DEF parts, total
<1>10. /\ \A x \in names : Room(p, a[x], L[x] + (W - total))
       /\ "input" \notin names => a["input"] = Input(p)
       /\ "output" \notin names => a["output"] = Output(p)
  <2> HIDE DEF names
  <2> DEFINE own == {"input", "output"}
  <2>1. /\ own \subseteq DOMAIN rest
        /\ rest["input"] = Input(p) /\ rest["output"] = Output(p)
    OBVIOUS
  <2> HIDE DEF rest
  <2> QED BY <1>8, <1>9, <2>1, CallerRoom DEF W
<1> HIDE DEF a
<1>11. \A x \in names : L[x] \in Nat => Room(p, a[x], L[x])
  <2> HIDE DEF names
  <2> QED BY <1>9, <1>10, RoomLess
<1>12. /\ "buf" \in names
       /\ copied <=> "input" \in names
       /\ given <=> "output" \in names
       /\ pad => "input_pad" \in names
       /\ blue => {"chirpz_row", "aux_row", "bs_input", "bs_output"}
                    \subseteq names
  OBVIOUS
<1> HIDE DEF names
<1>13. /\ Room(p, a["buf"], twice)
       /\ copied => Room(p, a["input"], buffer)
       /\ ~ copied => a["input"] = Input(p)
       /\ given => Room(p, a["output"], buffer)
       /\ ~ given => a["output"] = Output(p)
       /\ pad => Room(p, a["input_pad"], buffer)
       /\ blue => /\ Room(p, a["chirpz_row"], chirp)
                  /\ Room(p, a["aux_row"], chirp)
                  /\ Room(p, a["bs_input"], buffer)
                  /\ Room(p, a["bs_output"], buffer)
  BY <1>3, <1>4, <1>10, <1>11, <1>12
<1> QED BY <1>1, <1>13 DEF ButterflyRoom, buffer, twice, chirp, copied, given,
                           pad, blue, inner

\* The tables of the butterflies, and their copies from the host.
LEMMA ButterflyTablesSafe ==
  ASSUME NEW p, IsMeasured(p), p.kind = "c2c", p.rank = 1, ~ MatmulPath(p)
  PROVE  /\ \A forward \in BOOLEAN : Inside(p, ButterflyTables(p, forward))
         /\ Safe(p, CopyTables(ButterflyTables1d(p)))
<1> DEFINE len == 2 * C * Length1(p)
           L   == [twiddles |-> len, dft_matrix |-> DftTable,
                   twiddles_inv |-> len, idft_matrix |-> DftTable,
                   factors |-> FactorTable]
           s   == Buffer("twiddles", len) \o Buffer("dft_matrix", DftTable)
                  \o Buffer("twiddles_inv", len)
                  \o Buffer("idft_matrix", DftTable)
                  \o Buffer("factors", FactorTable)
           X   == {"twiddles"} \cup {"dft_matrix"} \cup {"twiddles_inv"}
                  \cup {"idft_matrix"} \cup {"factors"}
           W   == Sizes(p).reserve
<1>1. len \in Nat /\ DftTable \in Nat /\ FactorTable \in Nat
  <2>1. p.n[1] \in Nat
    BY SizeOf DEF IsMeasured, IsTransform
  <2>2. Length1(p) \in Nat
    BY <2>1 DEF Length1, PadN
  <2> QED BY <2>2, SizesAreNat DEF C
<1>2. W = len + DftTable + len + DftTable + FactorTable
  <2>1. W = FactorTable + 4 * C * Length1(p) + 2 * DftTable
    BY DEF Sizes, C2CSizes, AllocateC2C1D
  <2>2. p.n[1] \in Nat
    BY SizeOf DEF IsMeasured, IsTransform
  <2>3. Length1(p) \in Nat
    BY <2>2 DEF Length1, PadN
  <2> QED BY <1>1, <2>1, <2>3 DEF C
<1>3. s = ButterflyTables1d(p)
  BY DEF ButterflyTables1d
<1>4. Fill(s, X, L, len + DftTable + len + DftTable + FactorTable)
  <2>1. /\ L["twiddles"] = len /\ L["dft_matrix"] = DftTable
        /\ L["twiddles_inv"] = len /\ L["idft_matrix"] = DftTable
        /\ L["factors"] = FactorTable
    OBVIOUS
  <2> HIDE DEF L, len
  <2>2. /\ Fill(Buffer("twiddles", len), {"twiddles"}, L, len)
        /\ Fill(Buffer("dft_matrix", DftTable), {"dft_matrix"}, L, DftTable)
        /\ Fill(Buffer("twiddles_inv", len), {"twiddles_inv"}, L, len)
        /\ Fill(Buffer("idft_matrix", DftTable), {"idft_matrix"}, L, DftTable)
        /\ Fill(Buffer("factors", FactorTable), {"factors"}, L, FactorTable)
    BY <1>1, <2>1, FillBuffer
  <2> QED BY <2>2, FillConcat
<1>5. \A forward \in BOOLEAN :
        {"factors"} \cup (IF forward THEN {"twiddles", "dft_matrix"}
                          ELSE {"twiddles_inv", "idft_matrix"}) \in SUBSET X
  OBVIOUS
<1> HIDE DEF s, L, len
<1>6. W \in Nat /\ len + DftTable + len + DftTable + FactorTable <= W
  BY <1>1, <1>2
<1> HIDE DEF X
<1>7. /\ \A names \in SUBSET X : Inside(p, Tables(s, names))
      /\ Safe(p, CopyTables(s))
  BY <1>4, <1>6, TablesFit
<1> QED BY <1>3, <1>5, <1>7 DEF ButterflyTables

\* Bluestein's eight kernels.
LEMMA ChirpsSafe ==
  ASSUME NEW p, IsMeasured(p), p.kind = "c2c", p.rank = 1, p.bluestein,
         NEW a, ButterflyRoom(p, a), NEW in, Takes(p, in, C, p.n),
         Takes(p, a["output"], C, p.n),
         \A forward \in BOOLEAN : Inside(p, ButterflyTables(p, forward))
  PROVE  Safe(p, Bluestein1d(p, a, in))
<1> DEFINE len  == Length1(p)
           aux(v) == {Holds(a["aux_row"], C * len, Value(v, <<len>>))}
           chirp  == {Holds(a["chirpz_row"], C * p.n[1],
                            Value("chirpz_row", p.n))}
           at(name, v) == {Holds(a[name], C * p.batch * len,
                                 Value(v, <<len>>))}
           buf    == Scratch(a["buf"], 2 * C * p.batch * len)
           buf1   == Scratch(a["buf"], 2 * C * len)
           x      == Dense(p, in, C, Signal(p.n))
           y      == Dense(p, a["output"], C, Result(p.n))
           first  == ButterflyTables(p, TRUE)
           second == ButterflyTables(p, FALSE)
           s1 == Stage({}, chirp)
           s2 == Stage({}, aux("chirp"))
           s3 == Butterfly(first, aux("chirp"), aux("fft chirp"), buf1)
           s4 == Stage(chirp \cup x, at("bs_input", "x chirp"))
           s5 == Butterfly(first, at("bs_input", "x chirp"),
                           at("bs_input", "fft x chirp"), buf)
           s6 == Stage(aux("fft chirp") \cup at("bs_input", "fft x chirp"),
                       at("bs_output", "convolved"))
           s7 == Butterfly(second, at("bs_output", "convolved"),
                           at("bs_input", "y chirp"), buf)
           s8 == Stage(chirp \cup at("bs_input", "y chirp"), y)
<1>1. Bluestein1d(p, a, in) = s1 \o s2 \o s3 \o s4 \o s5 \o s6 \o s7 \o s8
  BY DEF Bluestein1d
<1>2. /\ Room(p, a["buf"], 2 * (C * p.batch * len))
      /\ Room(p, a["aux_row"], C * len) /\ Room(p, a["chirpz_row"], C * len)
      /\ Room(p, a["bs_input"], C * p.batch * len)
      /\ Room(p, a["bs_output"], C * p.batch * len)
  BY DEF ButterflyRoom
<1>3. /\ p.n[1] \in Nat /\ p.batch \in Nat /\ p.batch >= 1 /\ len \in Nat
      /\ p.n[1] <= len
  <2>1. p.n[1] \in Nat /\ p.batch \in Nat /\ p.batch >= 1
    BY SizeOf DEF IsMeasured, IsTransform
  <2> QED BY <2>1 DEF Length1, PadN
<1> HIDE DEF len
<1>4. /\ 2 * C * p.batch * len = 2 * (C * p.batch * len)
      /\ C * p.n[1] \in Nat /\ C * p.n[1] <= C * len
  BY <1>3 DEF C
<1>5. 2 * C * len \in Nat /\ 2 * C * len <= 2 * (C * p.batch * len)
  <2>1. len <= p.batch * len /\ p.batch * len \in Nat
    <3>1. 1 * len <= p.batch * len
      BY <1>3, Grows
    <3> QED BY <1>3, <3>1
  <2>2. C * p.batch * len = C * (p.batch * len)
    BY <1>3 DEF C
  <2> QED BY <1>3, <2>1, <2>2 DEF C
<1>6. Inside(p, buf) /\ Inside(p, buf1)
  BY <1>2, <1>4, <1>5, RoomLess, InsideScratch
<1>7. Inside(p, chirp) /\ \A v : Inside(p, aux(v))
  BY <1>2, <1>4, RoomLess, RoomHolds
<1>8. \A name \in {"bs_input", "bs_output"} : \A v : Inside(p, at(name, v))
  BY <1>2, RoomHolds
<1>9. Inside(p, x) /\ Inside(p, y)
  <2>1. Signal(p.n).dims = p.n /\ Result(p.n).dims = p.n
    BY DEF Signal, Result, Value
  <2> QED BY <2>1, InsideSignals
<1>10. Inside(p, first) /\ Inside(p, second) /\ Inside(p, {})
  BY InsideNone
<1> HIDE DEF aux, chirp, at, buf, buf1, x, y, first, second
<1>11. Safe(p, s1) /\ Safe(p, s2) /\ Safe(p, s3)
  BY <1>6, <1>7, <1>10, SafeStage, SafeButterfly
<1>12. Safe(p, s4) /\ Safe(p, s5) /\ Safe(p, s6)
  BY <1>6, <1>7, <1>8, <1>9, <1>10, InsideBoth, SafeStage, SafeButterfly
<1>13. Safe(p, s7) /\ Safe(p, s8)
  BY <1>6, <1>7, <1>8, <1>9, <1>10, InsideBoth, SafeStage, SafeButterfly
<1> HIDE DEF s1, s2, s3, s4, s5, s6, s7, s8
<1> QED BY <1>1, <1>11, <1>12, <1>13, SafeConcat

\* A whole batch has room where the buffer of so many numbers has.
LEMMA BufferTakes ==
  ASSUME NEW p, IsMeasured(p), p.rank = 1, NEW a, NEW len \in Nat,
         NEW d \in Dims(1), d[1] <= len, NEW unit \in Units,
         Room(p, a, unit * p.batch * len)
  PROVE  Takes(p, a, unit, d)
<1>1. p.batch \in Nat /\ d[1] \in Nat /\ Size(d) = d[1] /\ unit \in Nat
  BY SizeOf DEF IsMeasured, IsTransform, Units, R, C
<1>2. /\ p.batch * d[1] <= p.batch * len
      /\ p.batch * d[1] \in Nat /\ p.batch * len \in Nat
  BY <1>1, Grows
<1>3. unit * p.batch * len = unit * (p.batch * len)
  BY <1>1
<1>4. unit * Count(p, d) <= unit * (p.batch * len)
  BY <1>1, <1>2, Grows DEF Count
<1> QED BY <1>1, <1>3, <1>4, TakesRoom

\* Execution by butterflies, or by Bluestein's algorithm, keeps inside.
LEMMA ButterflySafe ==
  ASSUME NEW p, IsMeasured(p), p.kind = "c2c", p.rank = 1, ~ MatmulPath(p),
         ~ BluesteinPads(p)
  PROVE  Safe(p, execButterfly1d(p))
<1> DEFINE a  == configureFFT1dWorkspaceAddrs(p)
           in == IF Longer(p) THEN a["input_pad"] ELSE a["input"]
           y  == Result(p.n)
           copied == ~ (p.inDense /\ ~ Shorter(p)) /\ ~ Columnwise(p)
           scale == IF Columnwise(p) THEN RescaleStrided(p, a["output"], C, y)
                                     ELSE Rescale(p, a["output"], C, y)
           s1 == When(copied, CopyIn(p, a["input"], C, Trimmed(p)))
           s2 == When(Longer(p), Padding1d(p, a))
           s3 == execFFTc2c1d(p, a, in)
           s5 == When(~ Columnwise(p),
                      CopyOut(p, a["output"], C, Scaled(p, y)))
<1>1. execButterfly1d(p) = s1 \o s2 \o s3 \o scale \o s5
  BY DEF execButterfly1d
<1>2. ButterflyRoom(p, a)
  BY ButterflyAgree
<1>3. /\ \A forward \in BOOLEAN : Inside(p, ButterflyTables(p, forward))
  BY ButterflyTablesSafe
<1>4. /\ IsGiven(p) /\ C = InUnit(p) /\ C = OutUnit(p) /\ C \in Units
      /\ p.onembed = p.n
      /\ p.n \in Dims(1) /\ p.inembed \in Dims(1) /\ Trimmed(p) \in Dims(1)
      /\ Length1(p) \in Nat /\ p.n[1] <= Length1(p)
      /\ Trimmed(p)[1] <= Length1(p)
  <2>1. /\ p.n \in Dims(1) /\ p.inembed \in Dims(1) /\ Trimmed(p) \in Dims(1)
        /\ Trimmed(p)[1] <= p.n[1]
    BY LikeTheInput DEF IsMeasured, IsTransform
  <2>2. p.n[1] \in Nat /\ Trimmed(p)[1] \in Nat
    BY <2>1, SizeOf
  <2>3. /\ Length1(p) \in Nat /\ p.n[1] <= Length1(p)
        /\ Trimmed(p)[1] <= Length1(p)
    BY <2>1, <2>2 DEF Length1, PadN
  <2> QED BY <2>1, <2>3, MeasuredIsGiven
          DEF IsMeasured, InUnit, OutUnit, Units
<1>5. /\ Takes(p, Input(p), C, p.inembed) /\ Takes(p, Output(p), C, p.n)
  BY <1>4, GivenTakes
<1>6. copied => Takes(p, a["input"], C, Trimmed(p)) /\ Takes(p, a["input"], C, p.n)
  <2> SUFFICES ASSUME copied
               PROVE  /\ Takes(p, a["input"], C, Trimmed(p))
                      /\ Takes(p, a["input"], C, p.n)
    OBVIOUS
  <2>1. Room(p, a["input"], C * p.batch * Length1(p))
    BY <1>2 DEF ButterflyRoom
  <2> HIDE DEF a
  <2> QED BY <1>4, <2>1, BufferTakes
<1>7. Longer(p) => Takes(p, a["input_pad"], C, p.n)
  <2> SUFFICES ASSUME Longer(p) PROVE Takes(p, a["input_pad"], C, p.n)
    OBVIOUS
  <2>1. Room(p, a["input_pad"], C * p.batch * Length1(p))
    BY <1>2 DEF ButterflyRoom
  <2> HIDE DEF a
  <2> QED BY <1>4, <2>1, BufferTakes
<1>8. ~ copied => a["input"] = Input(p)
  BY <1>2 DEF ButterflyRoom
<1>9. Takes(p, a["output"], C, p.n)
  <2>1. \/ Room(p, a["output"], C * p.batch * Length1(p))
        \/ a["output"] = Output(p)
    BY <1>2 DEF ButterflyRoom
  <2> HIDE DEF a
  <2> QED BY <1>4, <1>5, <2>1, BufferTakes
<1>10. Columnwise(p) => p.inembed = p.n
  BY DEF Columnwise, IsMeasured, Matching
<1> HIDE DEF a
<1>11. Takes(p, in, C, p.n)
  <2>1. ~ Longer(p) /\ ~ copied => p.n = p.inembed
    BY <1>10, LikeTheInput
  <2> HIDE DEF copied
  <2> QED BY <1>5, <1>6, <1>7, <1>8, <2>1
<1> HIDE DEF in
<1>12. Safe(p, s1)
  <2> HIDE DEF copied
  <2> QED BY <1>4, <1>6, SafeCopyIn, SafeWhen
<1>13. Safe(p, s2)
  <2>1. ASSUME Longer(p) PROVE Safe(p, Padding1d(p, a))
    <3>1. ~ p.prime
      BY <2>1 DEF BluesteinPads, MatmulPath
    <3>2. Takes(p, a["input"], C, p.inembed)
      <4>1. CASE copied
        <5>1. p.inembed[1] <= p.n[1] /\ 1 \in 1 .. p.rank
          <6>1. p.inembed[1] \in Nat /\ p.n[1] \in Nat
            BY <1>4, SizeOf
          <6> QED BY <2>1, <6>1 DEF Longer
        <5>2. \A i \in 1 .. 1 : p.inembed[i] <= p.n[i]
          BY <5>1
        <5>3. Takes(p, a["input"], C, p.n)
          BY <1>6, <4>1
        <5> HIDE DEF copied
        <5> QED BY <1>4, <5>2, <5>3, TakesLess
      <4>2. CASE ~ copied
        BY <1>5, <1>8, <4>2
      <4> QED BY <4>1, <4>2
    <3> QED BY <1>7, <2>1, <3>1, <3>2, SafeFit DEF Padding1d
  <2> QED BY <2>1, SafeWhen
<1>14. Safe(p, s3)
  <2>1. CASE p.bluestein
    BY <1>2, <1>3, <1>9, <1>11, <2>1, ChirpsSafe DEF execFFTc2c1d
  <2>2. CASE ~ p.bluestein
    <3> DEFINE x   == IF Columnwise(p) THEN Strided(p, in, C, Signal(p.n))
                                       ELSE Dense(p, in, C, Signal(p.n))
               to  == IF Columnwise(p) THEN Strided(p, a["output"], C, y)
                                       ELSE Dense(p, a["output"], C, y)
               buf == Scratch(a["buf"], 2 * C * p.batch * p.n[1])
    <3>1. s3 = Butterfly(ButterflyTables(p, Forwards(p)), x, to, buf)
      BY <2>2 DEF execFFTc2c1d
    <3>2. Inside(p, ButterflyTables(p, Forwards(p)))
      BY <1>3 DEF Forwards
    <3>3. Inside(p, x) /\ Inside(p, to)
      <4>1. Signal(p.n).dims = p.n /\ y.dims = p.n
        BY DEF Signal, Result, Value
      <4> HIDE DEF y
      <4> QED BY <1>9, <1>11, <4>1, InsideSignals
    <3>4. Inside(p, buf)
      <4>1. Room(p, a["buf"], 2 * (C * p.batch * p.n[1]))
        BY <1>2, <2>2 DEF ButterflyRoom, Length1
      <4>2. 2 * (C * p.batch * p.n[1]) = 2 * C * p.batch * p.n[1]
        <5>1. p.n[1] \in Nat /\ p.batch \in Nat
          BY <1>4, SizeOf DEF IsGiven
        <5> QED BY <5>1 DEF C
      <4> QED BY <4>1, <4>2, InsideScratch
    <3> HIDE DEF x, to, buf
    <3> QED BY <3>1, <3>2, <3>3, <3>4, SafeButterfly
  <2> QED BY <2>1, <2>2
<1>15. Safe(p, scale)
  BY <1>9, SafeRescale
<1>16. Safe(p, s5)
  BY <1>4, <1>9, SafeCopyOut, SafeWhen
<1> HIDE DEF s1, s2, s3, scale, s5
<1> QED BY <1>1, <1>12, <1>13, <1>14, <1>15, <1>16, SafeConcat

-----------------------------------------------------------------------------
(* Complex to complex, one dimension, by matrix products.                  *)

\* The matmul branches of all kinds take their addresses from two layouts,
\* and from the caller's tensors where there is no copy of them.
LEMMA MatmulFields ==
  ASSUME NEW p, NEW front, NEW back, NEW X, NEW Y,
         DOMAIN front = X, DOMAIN back = Y, X \cap Y = {},
         {"input_contiguous", "input_pad"} \cap Y = {},
         "output_contiguous" \notin X
  PROVE  LET full == With(front, [input_contiguous |-> Input(p)])
             rest == [input_pad |-> full["input_contiguous"],
                      output_contiguous |-> Output(p)]
             a    == With(With(back, full), rest)
         IN  /\ X \cup Y \subseteq DOMAIN a
             /\ \A x \in Y : a[x] = back[x]
             /\ \A x \in X : a[x] = front[x]
             /\ "input_contiguous" \notin X => a["input_contiguous"] = Input(p)
             /\ "input_pad" \notin X => a["input_pad"] = a["input_contiguous"]
             /\ "output_contiguous" \notin Y =>
                  a["output_contiguous"] = Output(p)
<1> DEFINE given == [input_contiguous |-> Input(p)]
           full  == With(front, given)
           rest  == [input_pad |-> full["input_contiguous"],
                     output_contiguous |-> Output(p)]
           both  == With(back, full)
           a     == With(both, rest)
<1>1. DOMAIN given = {"input_contiguous"} /\ given["input_contiguous"] = Input(p)
  OBVIOUS
<1>2. /\ DOMAIN rest = {"input_pad", "output_contiguous"}
      /\ rest["input_pad"] = full["input_contiguous"]
      /\ rest["output_contiguous"] = Output(p)
  <2> HIDE DEF full
  <2> QED OBVIOUS
<1> HIDE DEF given, rest
<1>3. /\ DOMAIN full = X \cup {"input_contiguous"}
      /\ \A x \in X : full[x] = front[x]
      /\ "input_contiguous" \notin X => full["input_contiguous"] = Input(p)
  <2>1. /\ DOMAIN full = DOMAIN front \cup DOMAIN given
        /\ \A x \in DOMAIN front : full[x] = front[x]
        /\ \A x \in DOMAIN given \ DOMAIN front : full[x] = given[x]
    BY ZenonT(40), Merge
  <2> HIDE DEF full
  <2> QED BY <1>1, <2>1
<1> HIDE DEF full
<1>4. /\ DOMAIN both = Y \cup X \cup {"input_contiguous"}
      /\ \A x \in Y : both[x] = back[x]
      /\ \A x \in X \cup {"input_contiguous"} : both[x] = full[x]
  <2>1. /\ DOMAIN both = DOMAIN back \cup DOMAIN full
        /\ \A x \in DOMAIN back : both[x] = back[x]
        /\ \A x \in DOMAIN full \ DOMAIN back : both[x] = full[x]
    BY Merge
  <2> HIDE DEF both
  <2> QED BY <1>3, <2>1
<1> HIDE DEF both
<1>5. /\ DOMAIN a = DOMAIN both \cup DOMAIN rest
      /\ \A x \in DOMAIN both : a[x] = both[x]
      /\ \A x \in DOMAIN rest \ DOMAIN both : a[x] = rest[x]
  BY ZenonT(40), Merge
<1> HIDE DEF a
<1>6. a["input_contiguous"] = full["input_contiguous"]
  BY <1>4, <1>5
<1>7. "input_pad" \notin X => a["input_pad"] = full["input_contiguous"]
  BY <1>2, <1>4, <1>5
<1>8. "output_contiguous" \notin Y => a["output_contiguous"] = Output(p)
  BY <1>2, <1>4, <1>5
<1>9. /\ X \cup Y \subseteq DOMAIN a
      /\ \A x \in Y : a[x] = back[x]
      /\ \A x \in X : a[x] = front[x]
      /\ "input_contiguous" \notin X => a["input_contiguous"] = Input(p)
      /\ "input_pad" \notin X => a["input_pad"] = a["input_contiguous"]
  BY <1>3, <1>4, <1>5, <1>6, <1>7
<1> QED BY <1>8, <1>9 DEF full, given, rest, both, a

\* What the matmul branch has room for behind each of its addresses.
MatmulRoom(p, a) ==
  LET part == R * p.batch * p.n[1]
  IN /\ Room(p, a["internal"], p.internal)
     /\ \A x \in {"im_mul_im", "im_mul_re", "re_mul_im"} : Room(p, a[x], part)
     /\ Room(p, a["re_mul_re"], 4 * part)
     /\ Takes(p, a["output_contiguous"], C, p.n)
     /\ Takes(p, a["input_contiguous"], C, p.inembed)
     /\ Takes(p, a["input_pad"], C, p.n)
     /\ p.strategy \in {"matmul", "cooley"} =>
          Room(p, a["input_re"], 2 * part) /\ Room(p, a["input_im"], part)
     /\ p.strategy = "cooley" => Room(p, a["input_transed"], 2 * part)

\* makeFFT1dPolicy and configureFFT1dMatmulWorkspaceAddrs agree.
LEMMA MatmulAgree ==
  ASSUME NEW p, IsMeasured(p), p.kind = "c2c", p.rank = 1, MatmulPath(p)
  PROVE  MatmulRoom(p, configureFFT1dMatmulWorkspaceAddrs(p))
<1> DEFINE part  == R * p.batch * p.n[1]
           two   == 2 * part
           four  == 4 * part
           in    == C * p.batch * p.inembed[1]
           out   == C * p.batch * p.onembed[1]
           inner == p.internal
           strategy == p.strategy
           matmul == p.strategy = "matmul"
           copied == ~ p.inDense
           padded == p.n # p.inembed
           given  == ~ p.outDense
           L == [input_contiguous |-> in, input_pad |-> two,
                 input_transed |-> two, input_re |-> part, input_im |-> part,
                 internal |-> inner, output_contiguous |-> out,
                 im_mul_im |-> part, im_mul_re |-> part,
                 re_mul_im |-> part, re_mul_re |-> part]
           M == [in |-> in, pad |-> two,
                 trans |-> IF matmul THEN two ELSE four, products |-> four,
                 out |-> out]
           sizes == When(copied, Buffer("in", C * p.batch * p.inembed[1]))
                    \o When(padded, Buffer("pad", C * (p.batch * p.n[1])))
                    \o Buffer("trans", (IF matmul THEN 1 ELSE 2) * C
                                       * (p.batch * p.n[1]))
                    \o Buffer("products", 4 * R * (p.batch * p.n[1]))
                    \o When(given, Buffer("out", C * p.batch * p.onembed[1]))
           lay   == When(copied, Buffer("in", in)) \o When(padded, Buffer("pad", two))
                    \o Buffer("trans", IF matmul THEN two ELSE four)
                    \o Buffer("products", four)
                    \o When(given, Buffer("out", out))
           split == Buffer("input_re", part) \o Buffer("input_im", part)
           way   == CASE strategy = "matmul"   -> split
                      [] strategy = "cooley"   ->
                           Buffer("input_transed", two) \o split
                      [] strategy = "stockham" -> <<>>
           wayNames == IF strategy = "matmul" THEN {"input_re", "input_im"}
                       ELSE IF strategy = "cooley"
                       THEN {"input_transed", "input_re", "input_im"} ELSE {}
           wayLen   == IF strategy = "matmul" THEN two
                       ELSE IF strategy = "cooley" THEN four ELSE 0
           head  == When(copied, Buffer("input_contiguous", in))
                    \o When(padded, Buffer("input_pad", two)) \o way
           X     == (IF copied THEN {"input_contiguous"} ELSE {})
                    \cup (IF padded THEN {"input_pad"} ELSE {}) \cup wayNames
           T     == (IF copied THEN in ELSE 0) + (IF padded THEN two ELSE 0)
                    + wayLen
           most  == Buffer("internal", inner)
                    \o When(given, Buffer("output_contiguous", out))
                    \o Buffer("im_mul_im", part) \o Buffer("im_mul_re", part)
                    \o Buffer("re_mul_im", part)
           mostNames == {"internal"}
                    \cup (IF given THEN {"output_contiguous"} ELSE {})
                    \cup {"im_mul_im"} \cup {"im_mul_re"} \cup {"re_mul_im"}
           mostLen == inner + (IF given THEN out ELSE 0) + part + part + part
           last  == Buffer("re_mul_re", part)
           W     == Sizes(p).workspace
           front == Forward(Workspace, head)
           back  == Backward(Move(Workspace, W), most \o last)
           full  == With(front, [input_contiguous |-> Input(p)])
           rest  == [input_pad |-> full["input_contiguous"],
                     output_contiguous |-> Output(p)]
           a     == With(With(back, full), rest)
<1>1. configureFFT1dMatmulWorkspaceAddrs(p) = a
  BY DEF configureFFT1dMatmulWorkspaceAddrs, Sizes
<1>2. /\ p.n \in Dims(1) /\ p.inembed \in Dims(1) /\ p.onembed = p.n
      /\ p.batch \in Nat /\ p.n[1] \in Nat /\ p.inembed[1] \in Nat
      /\ inner \in Nat /\ strategy \in MatmulStrategies
  BY SizeOf DEF IsMeasured, IsTransform, MatmulPath
<1>3. /\ part \in Nat /\ two = part + part /\ four = two + two
      /\ in \in Nat /\ out \in Nat /\ two \in Nat /\ four \in Nat
      /\ C * p.batch * p.n[1] = two /\ out = two
      /\ C * p.batch * p.inembed[1] = in
  BY <1>2 DEF R, C
<1>4. /\ C * (p.batch * p.n[1]) = two
      /\ (IF matmul THEN 1 ELSE 2) * C * (p.batch * p.n[1])
           = IF matmul THEN two ELSE four
      /\ 4 * R * (p.batch * p.n[1]) = four
  BY <1>2 DEF R, C
<1>5. W = Length(lay) + inner
  <2>1. W = Length(sizes) + inner
    BY DEF Sizes, C2CSizes, makeFFT1dPolicy
  <2>2. sizes = lay
    <3> HIDE DEF two, four, matmul
    <3> QED BY <1>4
  <2> QED BY <2>1, <2>2
<1>6. /\ L["input_contiguous"] = in /\ L["input_pad"] = two
      /\ L["input_transed"] = two /\ L["input_re"] = part
      /\ L["input_im"] = part /\ L["internal"] = inner
      /\ L["output_contiguous"] = out /\ L["im_mul_im"] = part
      /\ L["im_mul_re"] = part /\ L["re_mul_im"] = part
      /\ L["re_mul_re"] = part
  OBVIOUS
<1>7. /\ M["in"] = in /\ M["pad"] = two /\ M["products"] = four
      /\ M["trans"] = IF matmul THEN two ELSE four
      /\ M["out"] = out
  OBVIOUS
<1>8. matmul <=> strategy = "matmul"
  OBVIOUS
<1> HIDE DEF part, two, four, in, out, inner, strategy, matmul, copied, padded,
             given, L, M, W
<1>9. W = (IF copied THEN in ELSE 0) + (IF padded THEN two ELSE 0)
          + (IF matmul THEN two ELSE four) + four
          + (IF given THEN out ELSE 0) + inner
  <2>1. (IF matmul THEN two ELSE four) \in Nat
    BY <1>3
  <2> DEFINE trans == IF matmul THEN two ELSE four
  <2> HIDE DEF trans
  <2>2. /\ Fill(Buffer("in", in), {"in"}, M, in)
        /\ Fill(Buffer("pad", two), {"pad"}, M, two)
        /\ Fill(Buffer("trans", trans), {"trans"}, M, trans)
        /\ Fill(Buffer("products", four), {"products"}, M, four)
        /\ Fill(Buffer("out", out), {"out"}, M, out)
    BY <1>3, <1>7, <2>1, FillBuffer DEF trans
  <2>3. Fill(When(copied, Buffer("in", in)) \o When(padded, Buffer("pad", two))
             \o Buffer("trans", trans) \o Buffer("products", four)
             \o When(given, Buffer("out", out)),
             (IF copied THEN {"in"} ELSE {})
             \cup (IF padded THEN {"pad"} ELSE {}) \cup {"trans"}
             \cup {"products"} \cup (IF given THEN {"out"} ELSE {}),
             M, (IF copied THEN in ELSE 0) + (IF padded THEN two ELSE 0)
                + trans + four + (IF given THEN out ELSE 0))
    <3>1. /\ Fill(When(copied, Buffer("in", in)),
                  IF copied THEN {"in"} ELSE {}, M, IF copied THEN in ELSE 0)
          /\ Fill(When(padded, Buffer("pad", two)),
                  IF padded THEN {"pad"} ELSE {}, M, IF padded THEN two ELSE 0)
          /\ Fill(When(given, Buffer("out", out)),
                  IF given THEN {"out"} ELSE {}, M, IF given THEN out ELSE 0)
      BY <2>2, FillWhen
    <3> HIDE DEF lay, sizes
    <3>2. Fill(When(copied, Buffer("in", in)) \o When(padded, Buffer("pad", two)),
               (IF copied THEN {"in"} ELSE {})
               \cup (IF padded THEN {"pad"} ELSE {}),
               M, (IF copied THEN in ELSE 0) + (IF padded THEN two ELSE 0))
      BY <3>1, FillConcat
    <3>3. Fill(When(copied, Buffer("in", in)) \o When(padded, Buffer("pad", two))
               \o Buffer("trans", trans),
               (IF copied THEN {"in"} ELSE {})
               \cup (IF padded THEN {"pad"} ELSE {}) \cup {"trans"},
               M, (IF copied THEN in ELSE 0) + (IF padded THEN two ELSE 0)
                  + trans)
      BY <2>2, <3>2, FillConcat
    <3> QED BY <2>2, <3>1, <3>3, FillConcat
  <2>4. lay = When(copied, Buffer("in", in)) \o When(padded, Buffer("pad", two))
              \o Buffer("trans", trans) \o Buffer("products", four)
              \o When(given, Buffer("out", out))
    BY DEF trans
  <2> HIDE DEF lay
  <2>5. Length(lay) = (IF copied THEN in ELSE 0) + (IF padded THEN two ELSE 0)
                      + trans + four + (IF given THEN out ELSE 0)
    BY <2>3, <2>4 DEF Fill
  <2> QED BY <1>5, <2>5 DEF trans
<1>10. Fill(way, wayNames, L, wayLen)
  <2>1. /\ Fill(Buffer("input_re", part), {"input_re"}, L, part)
        /\ Fill(Buffer("input_im", part), {"input_im"}, L, part)
        /\ Fill(Buffer("input_transed", two), {"input_transed"}, L, two)
    BY <1>3, <1>6, FillBuffer
  <2>2. Fill(split, {"input_re"} \cup {"input_im"}, L, part + part)
    BY <2>1, FillConcat
  <2>3. {"input_re"} \cup {"input_im"} = {"input_re", "input_im"}
    OBVIOUS
  <2> HIDE DEF split
  <2>4. Fill(split, {"input_re", "input_im"}, L, two)
    BY <1>3, <2>2, <2>3
  <2>5. Fill(Buffer("input_transed", two) \o split,
             {"input_transed"} \cup {"input_re", "input_im"}, L, two + two)
    BY <2>1, <2>4, FillConcat
  <2>6. {"input_transed"} \cup {"input_re", "input_im"}
          = {"input_transed", "input_re", "input_im"}
    OBVIOUS
  <2>7. Fill(<<>>, {}, L, 0)
    BY FillNothing
  <2>8. CASE strategy = "matmul"
    BY <2>4, <2>8
  <2>9. CASE strategy = "cooley"
    BY <1>3, <2>5, <2>6, <2>9
  <2>10. CASE strategy = "stockham"
    BY <2>7, <2>10
  <2> QED BY <1>2, <2>8, <2>9, <2>10 DEF MatmulStrategies
<1> HIDE DEF way, wayNames
<1>11. Fill(head, X, L, T)
  <2>1. /\ Fill(Buffer("input_contiguous", in), {"input_contiguous"}, L, in)
        /\ Fill(Buffer("input_pad", two), {"input_pad"}, L, two)
    BY <1>3, <1>6, FillBuffer
  <2> HIDE DEF wayLen
  <2> QED BY <1>10, <2>1, FillWhen, FillConcat
<1>12. Fill(most, mostNames, L, mostLen)
  <2>1. /\ Fill(Buffer("internal", inner), {"internal"}, L, inner)
        /\ Fill(Buffer("output_contiguous", out), {"output_contiguous"}, L, out)
        /\ Fill(Buffer("im_mul_im", part), {"im_mul_im"}, L, part)
        /\ Fill(Buffer("im_mul_re", part), {"im_mul_re"}, L, part)
        /\ Fill(Buffer("re_mul_im", part), {"re_mul_im"}, L, part)
    BY <1>2, <1>3, <1>6, FillBuffer
  <2> QED BY ZenonT(40), <2>1, FillWhen, FillConcat
<1>13. Fill(last, {"re_mul_re"}, L, part)
  BY <1>3, <1>6, FillBuffer
<1>14. /\ W \in Nat /\ T \in Nat /\ mostLen \in Nat /\ T + four <= W
       /\ T <= W /\ mostLen + part <= W
       /\ mostLen + part >= four
  BY <1>2, <1>3, <1>8, <1>9
<1>15. W = Sizes(p).workspace
  BY DEF W
<1>16. /\ X \cap (mostNames \cup {"re_mul_re"}) = {}
       /\ {"input_contiguous", "input_pad"}
            \cap (mostNames \cup {"re_mul_re"}) = {}
       /\ "output_contiguous" \notin X
       /\ "re_mul_re" \notin mostNames
       /\ "input_contiguous" \in X <=> copied
       /\ "input_pad" \in X <=> padded
       /\ "output_contiguous" \in mostNames \cup {"re_mul_re"} <=> given
       /\ strategy \in {"matmul", "cooley"} => {"input_re", "input_im"} \subseteq X
       /\ strategy = "cooley" => "input_transed" \in X
       /\ {"internal", "im_mul_im", "im_mul_re", "re_mul_im", "re_mul_re"}
            \subseteq mostNames \cup {"re_mul_re"}
  BY DEF wayNames
<1> DEFINE Y == mostNames \cup {"re_mul_re"}
<1> HIDE DEF T, mostLen, head, most, last, X, mostNames
<1>25. /\ X \cap Y = {} /\ {"input_contiguous", "input_pad"} \cap Y = {}
       /\ "output_contiguous" \notin X
  BY <1>16
<1>17. DOMAIN front = X /\ \A x \in X : Room(p, front[x], L[x] + (W - T))
  BY <1>11, <1>14, <1>15, RoomForward
<1>18. Fill(most \o last, Y, L, mostLen + part)
  BY <1>12, <1>13, FillConcat
<1>19. DOMAIN back = Y /\ \A x \in Y : Room(p, back[x], L[x])
  BY <1>14, <1>15, <1>18, RoomBackward
<1>20. Room(p, back["re_mul_re"], mostLen + part)
  <2>1. /\ "re_mul_re" \in {"re_mul_re"} /\ "re_mul_re" \notin mostNames
        /\ Sizes(p).workspace \in Nat
        /\ mostLen + part <= Sizes(p).workspace /\ mostLen \in Nat
    BY <1>14, <1>15, <1>16
  <2>2. Room(p, Backward(Move(Workspace, Sizes(p).workspace),
                         most \o last)["re_mul_re"], mostLen + L["re_mul_re"])
    BY <1>12, <1>13, <2>1, RoomBehind
  <2> QED BY <1>6, <1>15, <2>2
<1> HIDE DEF front, back, Y
<1>21. /\ \A x \in Y : a[x] = back[x]
       /\ \A x \in X : a[x] = front[x]
       /\ "input_contiguous" \notin X => a["input_contiguous"] = Input(p)
       /\ "input_pad" \notin X => a["input_pad"] = a["input_contiguous"]
       /\ "output_contiguous" \notin Y => a["output_contiguous"] = Output(p)
  BY <1>17, <1>19, <1>25, MatmulFields
<1> HIDE DEF a
<1>22. /\ Room(p, a["internal"], inner)
       /\ Room(p, a["im_mul_im"], part) /\ Room(p, a["im_mul_re"], part)
       /\ Room(p, a["re_mul_im"], part)
       /\ given => Room(p, a["output_contiguous"], out)
       /\ ~ given => a["output_contiguous"] = Output(p)
  <2>1. /\ {"internal", "im_mul_im", "im_mul_re", "re_mul_im", "re_mul_re"}
             \subseteq Y
        /\ "output_contiguous" \in Y <=> given
    BY <1>16 DEF Y
  <2> QED BY <1>6, <1>19, <1>21, <2>1
<1>23. Room(p, a["re_mul_re"], four)
  <2>1. "re_mul_re" \in Y
    BY DEF Y
  <2>2. Room(p, a["re_mul_re"], mostLen + part)
    BY <1>20, <1>21, <2>1
  <2> QED BY <1>3, <1>14, <2>2, RoomLess
<1>24. ASSUME NEW x \in X, NEW len \in Nat, L[x] \in Nat, len <= L[x] + four
       PROVE  Room(p, a[x], len)
  <2>1. Room(p, a[x], L[x] + (W - T))
    BY <1>17, <1>21
  <2>2. len <= L[x] + (W - T)
    BY <1>3, <1>14, <1>24
  <2> QED BY <1>24, <2>1, <2>2, RoomLess
<1>26. /\ copied => Room(p, a["input_contiguous"], in)
       /\ padded => Room(p, a["input_pad"], two)
       /\ strategy \in {"matmul", "cooley"} =>
            Room(p, a["input_re"], two) /\ Room(p, a["input_im"], part)
       /\ strategy = "cooley" => Room(p, a["input_transed"], two)
  <2>1. in <= in + four /\ two <= two + four /\ part <= part + four
        /\ two <= part + four
    BY <1>3
  <2> QED BY <1>3, <1>6, <1>16, <1>24, <2>1
<1>27. /\ ~ copied => a["input_contiguous"] = Input(p)
       /\ ~ padded => a["input_pad"] = a["input_contiguous"]
  BY <1>16, <1>21
<1>28. /\ IsGiven(p) /\ C \in Units /\ InUnit(p) = C /\ OutUnit(p) = C
  BY MeasuredIsGiven DEF InUnit, OutUnit, Units
<1>29. Takes(p, Input(p), C, p.inembed) /\ Takes(p, Output(p), C, p.n)
  BY <1>2, <1>28, GivenTakes
<1>30. Takes(p, a["input_contiguous"], C, p.inembed)
  <2>1. p.inembed[1] <= p.inembed[1]
    BY <1>2
  <2> QED BY <1>2, <1>3, <1>26, <1>27, <1>28, <1>29, <2>1, BufferTakes
<1>31. p.n[1] <= p.n[1]
  BY <1>2
<1>32. Takes(p, a["input_pad"], C, p.n)
  <2>1. CASE padded
    BY <1>2, <1>3, <1>26, <1>28, <1>31, <2>1, BufferTakes
  <2>2. CASE ~ padded
    BY <1>27, <1>30, <2>2 DEF padded
  <2> QED BY <2>1, <2>2
<1>33. Takes(p, a["output_contiguous"], C, p.n)
  BY <1>2, <1>3, <1>22, <1>28, <1>29, <1>31, BufferTakes
<1>34. a = configureFFT1dMatmulWorkspaceAddrs(p)
  BY <1>1 DEF a, Y, front, back
<1> QED BY <1>22, <1>23, <1>26, <1>30, <1>32, <1>33, <1>34
        DEF MatmulRoom, part, two, four, inner, strategy

\* The DFT matrices, which a kernel makes in the reserve area.
LEMMA MatricesSafe ==
  ASSUME NEW p, IsMeasured(p), p.kind = "c2c", p.rank = 1, MatmulPath(p)
  PROVE  /\ \A part \in {"re", "im"} : Inside(p, DirectionMatrix(p, part))
         /\ Safe(p, setFFT1dReserveArea(p))
<1> DEFINE order == IF p.strategy = "matmul" THEN p.n[1] ELSE p.L
           len == R * order * order
           L   == [dft_re |-> len, dft_im |-> len, ifft_dft_re |-> len,
                   ifft_dft_im |-> len]
           s   == Buffer("dft_re", len) \o Buffer("dft_im", len)
                  \o Buffer("ifft_dft_re", len) \o Buffer("ifft_dft_im", len)
           X   == {"dft_re"} \cup {"dft_im"} \cup {"ifft_dft_re"}
                  \cup {"ifft_dft_im"}
           W   == Sizes(p).reserve
<1>1. order \in Nat
  BY SizeOf DEF IsMeasured, IsTransform
<1>2. W = 4 * R * order * order
  BY DEF Sizes, C2CSizes, makeFFT1dPolicy
<1>3. s = DftMatrices(p)
  BY DEF DftMatrices
<1> HIDE DEF order
<1>4. len \in Nat /\ W = len + len + len + len
  BY <1>1, <1>2 DEF R
<1>5. /\ L["dft_re"] = len /\ L["dft_im"] = len /\ L["ifft_dft_re"] = len
      /\ L["ifft_dft_im"] = len
  OBVIOUS
<1> HIDE DEF L, len
<1>6. Fill(s, X, L, len + len + len + len)
  <2>1. /\ Fill(Buffer("dft_re", len), {"dft_re"}, L, len)
        /\ Fill(Buffer("dft_im", len), {"dft_im"}, L, len)
        /\ Fill(Buffer("ifft_dft_re", len), {"ifft_dft_re"}, L, len)
        /\ Fill(Buffer("ifft_dft_im", len), {"ifft_dft_im"}, L, len)
    BY <1>4, <1>5, FillBuffer
  <2> QED BY <2>1, FillConcat
<1>7. \A part \in {"re", "im"} :
        {IF Forwards(p) THEN MatrixOf[part] ELSE InverseOf[part]} \in SUBSET X
  BY DEF MatrixOf, InverseOf
<1> HIDE DEF s, X
<1>8. W \in Nat /\ len + len + len + len <= W
  BY <1>4
<1>9. \A names \in SUBSET X : Inside(p, Tables(s, names))
  BY <1>6, <1>8, TablesFit
<1>10. \A part \in {"re", "im"} : Inside(p, DirectionMatrix(p, part))
  BY <1>3, <1>7, <1>9 DEF DirectionMatrix
<1>11. Names(s) \in SUBSET X
  BY <1>6 DEF Fill
<1>12. Safe(p, Stage({}, Tables(s, Names(s))))
  BY <1>9, <1>11, InsideNone, SafeStage
<1> QED BY <1>3, <1>10, <1>12 DEF setFFT1dReserveArea

\* One array of real numbers.
LEMMA InsideReals ==
  ASSUME NEW p, NEW a, Room(p, a, R * p.batch * p.n[1]), NEW v
  PROVE  Inside(p, Reals(p, a, v))
BY RoomHolds DEF Reals

\* What CNNL uses, and the merge kernels.
LEMMA InternalRoom ==
  ASSUME NEW p, IsMeasured(p), p.rank = 1, NEW a, Room(p, a, p.internal)
  PROVE  /\ Inside(p, Scratch(a, CnnlSpace))
         /\ p.strategy # "matmul" =>
              Inside(p, Scratch(a, 2 * R * p.batch * p.n[1]))
<1>1. p.batch \in Nat /\ p.n[1] \in Nat
  BY SizeOf DEF IsMeasured, IsTransform
<1>2. 2 * R * p.batch * p.n[1] \in Nat
  BY <1>1 DEF R
<1>3. CnnlSpace <= p.internal /\ CnnlSpace \in Nat
  BY SizesAreNat DEF IsMeasured
<1>4. Room(p, a, CnnlSpace)
  BY <1>3, RoomLess
<1>5. p.strategy # "matmul" => Room(p, a, 2 * R * p.batch * p.n[1])
  BY <1>2, RoomLess DEF IsMeasured
<1> QED BY <1>4, <1>5, InsideScratch

\* transposeFFT1dPaddedInput.
LEMMA SafeTransposeInput ==
  ASSUME NEW p, IsMeasured(p), p.rank = 1, p.strategy \in MatmulStrategies,
         NEW a, MatmulRoom(p, a)
  PROVE  Safe(p, transposeFFT1dPaddedInput(p, a))
<1> DEFINE part == R * p.batch * p.n[1]
           used == Scratch(a["internal"], CnnlSpace)
           halves(at, how) ==
             Reals(p, at, Part(p, "re" \o how))
             \cup Reals(p, Move(at, part), Part(p, "im" \o how))
           signals == Dense(p, a["input_pad"], C, Signal(p.n))
<1>1. Inside(p, used) /\ Inside(p, signals)
  <2>1. Signal(p.n).dims = p.n
    BY DEF Signal, Value
  <2> QED BY <2>1, InternalRoom, InsideSignals DEF MatmulRoom
<1>2. part \in Nat /\ 2 * part = part + part
  <2>1. p.batch \in Nat /\ p.n[1] \in Nat
    BY SizeOf DEF IsMeasured, IsTransform
  <2> QED BY <2>1 DEF R
<1>3. ASSUME NEW at, Room(p, at, 2 * part), NEW how
      PROVE  Inside(p, halves(at, how))
  <2> HIDE DEF part
  <2>1. /\ part <= 2 * part /\ part + part <= 2 * part
    BY <1>2
  <2>2. Room(p, at, part) /\ Room(p, Move(at, part), part)
    BY <1>2, <1>3, <2>1, RoomLess, RoomMove
  <2> QED BY <2>2, InsideReals, InsideBoth DEF part
<1>4. /\ p.strategy \in {"matmul", "cooley"} => Room(p, a["input_re"], 2 * part)
      /\ p.strategy = "cooley" => Room(p, a["input_transed"], 2 * part)
  BY DEF MatmulRoom
<1> HIDE DEF used, halves, signals
<1>5. CASE p.strategy = "matmul"
  <2>1. transposeFFT1dPaddedInput(p, a) =
          Stage(signals, used \cup halves(a["input_re"], ""))
    BY <1>5 DEF transposeFFT1dPaddedInput, signals, used, halves
  <2> HIDE DEF part
  <2> QED BY <1>1, <1>3, <1>4, <1>5, <2>1, InsideBoth, SafeStage
<1>6. CASE p.strategy = "cooley"
  <2>1. transposeFFT1dPaddedInput(p, a) =
          Stage(signals, used \cup halves(a["input_transed"], ""))
          \o Stage(halves(a["input_transed"], ""),
                   used \cup halves(a["input_re"], " by L"))
    BY <1>6 DEF transposeFFT1dPaddedInput, signals, used, halves
  <2> HIDE DEF part
  <2>2. /\ Inside(p, halves(a["input_transed"], ""))
        /\ Inside(p, halves(a["input_re"], " by L"))
    BY <1>3, <1>4, <1>6
  <2>3. /\ Safe(p, Stage(signals, used \cup halves(a["input_transed"], "")))
        /\ Safe(p, Stage(halves(a["input_transed"], ""),
                         used \cup halves(a["input_re"], " by L")))
    BY <1>1, <2>2, InsideBoth, SafeStage
  <2> QED BY <2>1, <2>3, SafeConcat
<1>7. CASE p.strategy = "stockham"
  BY <1>7, SafeNothing DEF transposeFFT1dPaddedInput
<1> QED BY <1>5, <1>6, <1>7 DEF MatmulStrategies

\* computeFFT1dMatmulResult.
LEMMA SafeProducts ==
  ASSUME NEW p, IsMeasured(p), p.rank = 1, p.strategy \in MatmulStrategies,
         NEW a, MatmulRoom(p, a),
         \A part \in {"re", "im"} : Inside(p, DirectionMatrix(p, part))
  PROVE  Safe(p, computeFFT1dMatmulResult(p, a))
<1> DEFINE how  == IF p.strategy = "cooley" THEN " by L" ELSE ""
           used == Scratch(a["internal"], CnnlSpace)
           product(x, w) ==
             Stage(Reals(p, a[InputOf[x]], Part(p, x \o how))
                   \cup DirectionMatrix(p, w),
                   used \cup Reals(p, a[ProductOf[x][w]],
                                   Scaled(p, Part(p, x \o "*" \o w))))
           combine(x, y, to) ==
             LET read(q) == Reals(p, a[ProductOf[q[1]][q[2]]],
                                  Scaled(p, Part(p, q[1] \o "*" \o q[2])))
             IN Stage(read(x) \cup read(y),
                      used \cup Reals(p, a[ProductOf[x[1]][x[2]]],
                                      Scaled(p, Part(p, to))))
           four == product("re", "re") \o product("im", "im")
                   \o product("re", "im") \o product("im", "re")
           len  == R * p.batch * p.n[1]
<1>1. Inside(p, used)
  BY InternalRoom DEF MatmulRoom
<1>2. len \in Nat /\ len <= 4 * len /\ len <= 2 * len
      /\ 4 * len = 4 * R * p.batch * p.n[1]
  <2>1. p.batch \in Nat /\ p.n[1] \in Nat
    BY SizeOf DEF IsMeasured, IsTransform
  <2> QED BY <2>1 DEF R
<1>3. \A x, w \in {"re", "im"} : Room(p, a[ProductOf[x][w]], len)
  <2>1. \A x \in {"im_mul_im", "im_mul_re", "re_mul_im"} : Room(p, a[x], len)
    BY DEF MatmulRoom
  <2>2. Room(p, a["re_mul_re"], len)
    <3>1. Room(p, a["re_mul_re"], 4 * len)
      BY DEF MatmulRoom
    <3> HIDE DEF len
    <3> QED BY <1>2, <3>1, RoomLess
  <2> HIDE DEF len
  <2> QED BY <2>1, <2>2 DEF ProductOf
<1>4. p.strategy # "stockham" => \A x \in {"re", "im"} :
                                    Room(p, a[InputOf[x]], len)
  <2> SUFFICES ASSUME p.strategy # "stockham"
               PROVE  \A x \in {"re", "im"} : Room(p, a[InputOf[x]], len)
    OBVIOUS
  <2>1. Room(p, a["input_re"], 2 * len) /\ Room(p, a["input_im"], len)
    BY DEF MatmulRoom, MatmulStrategies
  <2> HIDE DEF len
  <2>2. Room(p, a["input_re"], len)
    BY <1>2, <2>1, RoomLess
  <2> QED BY <2>1, <2>2 DEF InputOf
<1>5. ASSUME NEW x \in {"re", "im"}, NEW w \in {"re", "im"}, NEW v
      PROVE  /\ Inside(p, Reals(p, a[ProductOf[x][w]], v))
             /\ Inside(p, used \cup Reals(p, a[ProductOf[x][w]], v))
  <2> HIDE DEF used
  <2> QED BY <1>1, <1>3, InsideReals, InsideBoth
<1>6. ASSUME NEW x \in {"re", "im"}, NEW w \in {"re", "im"},
             p.strategy # "stockham"
      PROVE  Safe(p, product(x, w))
  <2>1. Inside(p, Reals(p, a[InputOf[x]], Part(p, x \o how)))
    BY <1>4, <1>6, InsideReals
  <2> HIDE DEF used, how
  <2> QED BY <1>5, <2>1, InsideBoth, SafeStage
<1>7. ASSUME NEW x \in {"re", "im"}, NEW w \in {"re", "im"},
             NEW x1 \in {"re", "im"}, NEW w1 \in {"re", "im"}, NEW to
      PROVE  Safe(p, combine(<<x, w>>, <<x1, w1>>, to))
  <2> DEFINE read(x2, w2) == Reals(p, a[ProductOf[x2][w2]],
                                   Scaled(p, Part(p, x2 \o "*" \o w2)))
  <2>1. combine(<<x, w>>, <<x1, w1>>, to) =
          Stage(read(x, w) \cup read(x1, w1),
                used \cup Reals(p, a[ProductOf[x][w]], Scaled(p, Part(p, to))))
    OBVIOUS
  <2>2. Inside(p, read(x, w)) /\ Inside(p, read(x1, w1))
    BY <1>5
  <2> HIDE DEF used, read, combine
  <2> QED BY <1>5, <2>1, <2>2, InsideBoth, SafeStage
<1> HIDE DEF product, combine
<1>8. p.strategy # "stockham" => Safe(p, four)
  BY <1>6, SafeConcat
<1> HIDE DEF four
<1>9. CASE p.strategy = "matmul"
  <2>1. computeFFT1dMatmulResult(p, a) =
          four \o combine(<<"re", "re">>, <<"im", "im">>, "y re")
          \o combine(<<"re", "im">>, <<"im", "re">>, "y im")
    BY <1>9 DEF computeFFT1dMatmulResult, four, product, combine
  <2> QED BY <1>7, <1>8, <1>9, <2>1, SafeConcat
<1>10. CASE p.strategy = "cooley"
  <2>1. computeFFT1dMatmulResult(p, a) = four
    BY <1>10 DEF computeFFT1dMatmulResult, four, product
  <2> QED BY <1>8, <1>10, <2>1
<1>11. CASE p.strategy = "stockham"
  <2> DEFINE x    == Dense(p, a["input_pad"], C, Signal(p.n))
             all  == {Holds(a["re_mul_re"], 4 * R * p.batch * p.n[1],
                            Part(p, "products"))}
  <2>1. computeFFT1dMatmulResult(p, a) =
          Stage(x \cup DirectionMatrix(p, "re") \cup DirectionMatrix(p, "im"),
                used \cup all)
    BY <1>11 DEF computeFFT1dMatmulResult
  <2>2. Inside(p, all)
    <3>1. Room(p, a["re_mul_re"], 4 * len)
      BY DEF MatmulRoom
    <3> HIDE DEF len
    <3> QED BY <1>2, <3>1, RoomHolds
  <2>3. Inside(p, x)
    <3>1. Signal(p.n).dims = p.n
      BY DEF Signal, Value
    <3> QED BY <3>1, InsideSignals DEF MatmulRoom
  <2> HIDE DEF x, all, used
  <2>4. Inside(p, x \cup DirectionMatrix(p, "re") \cup DirectionMatrix(p, "im"))
    BY <2>3, InsideBoth
  <2> QED BY <1>1, <2>1, <2>2, <2>4, InsideBoth, SafeStage
<1> QED BY <1>9, <1>10, <1>11 DEF MatmulStrategies

\* mergeFFT1dOutput and transposeFFT1dOutput.
LEMMA SafeMerge ==
  ASSUME NEW p, IsMeasured(p), p.rank = 1, p.strategy \in MatmulStrategies,
         NEW a, MatmulRoom(p, a)
  PROVE  /\ Safe(p, mergeFFT1dOutput(p, a))
         /\ Safe(p, transposeFFT1dOutput(p, a))
<1> DEFINE len  == R * p.batch * p.n[1]
           y    == Dense(p, a["output_contiguous"], C, Scaled(p, Result(p.n)))
           used == Scratch(a["internal"], 2 * R * p.batch * p.n[1])
           cnnl == Scratch(a["internal"], CnnlSpace)
           read(x, w) == Reals(p, a[ProductOf[x][w]],
                               Scaled(p, Part(p, x \o "*" \o w)))
<1>1. len \in Nat /\ len <= 4 * len /\ len + len <= 4 * len
      /\ 4 * len = 4 * R * p.batch * p.n[1]
  <2>1. p.batch \in Nat /\ p.n[1] \in Nat
    BY SizeOf DEF IsMeasured, IsTransform
  <2> QED BY <2>1 DEF R
<1>2. /\ Inside(p, y) /\ Inside(p, cnnl)
      /\ p.strategy # "matmul" => Inside(p, used)
  <2>1. Scaled(p, Result(p.n)).dims = p.n
    BY ValueDims DEF Result
  <2> QED BY <2>1, InternalRoom, InsideSignals DEF MatmulRoom
<1>3. Room(p, a["re_mul_re"], 4 * len)
  BY DEF MatmulRoom
<1>4. \A x, w \in {"re", "im"} : Inside(p, read(x, w))
  <2>1. \A x \in {"im_mul_im", "im_mul_re", "re_mul_im"} : Room(p, a[x], len)
    BY DEF MatmulRoom
  <2> HIDE DEF len
  <2>2. Room(p, a["re_mul_re"], len)
    BY <1>1, <1>3, RoomLess
  <2>3. \A x, w \in {"re", "im"} : Room(p, a[ProductOf[x][w]], len)
    BY <2>1, <2>2 DEF ProductOf
  <2> QED BY <2>3, InsideReals DEF len
<1> HIDE DEF y, used, cnnl
<1>5. Safe(p, mergeFFT1dOutput(p, a))
  <2>1. CASE p.strategy = "matmul"
    BY <2>1, SafeNothing DEF mergeFFT1dOutput
  <2>2. CASE p.strategy = "cooley"
    <3>1. mergeFFT1dOutput(p, a) =
            Stage(read("re", "re") \cup read("re", "im")
                  \cup read("im", "re") \cup read("im", "im"), used \cup y)
      BY <2>2 DEF mergeFFT1dOutput, used, y
    <3> HIDE DEF read
    <3>2. /\ Inside(p, read("re", "re")) /\ Inside(p, read("re", "im"))
          /\ Inside(p, read("im", "re")) /\ Inside(p, read("im", "im"))
      BY <1>4
    <3>3. Inside(p, read("re", "re") \cup read("re", "im")
                    \cup read("im", "re") \cup read("im", "im"))
      BY <3>2, InsideBoth
    <3> QED BY <1>2, <2>2, <3>1, <3>3, InsideBoth, SafeStage
  <2>3. CASE p.strategy = "stockham"
    <3> DEFINE all == {Holds(a["re_mul_re"], 4 * R * p.batch * p.n[1],
                             Part(p, "products"))}
    <3>1. mergeFFT1dOutput(p, a) = Stage(all, used \cup y)
      BY <2>3 DEF mergeFFT1dOutput, used, y
    <3>2. Inside(p, all)
      <4> HIDE DEF len
      <4> QED BY <1>1, <1>3, RoomHolds
    <3> HIDE DEF all
    <3> QED BY <1>2, <2>3, <3>1, <3>2, InsideBoth, SafeStage
  <2> QED BY <2>1, <2>2, <2>3 DEF MatmulStrategies
<1>6. Safe(p, transposeFFT1dOutput(p, a))
  <2> DEFINE re == Reals(p, a["re_mul_re"], Scaled(p, Part(p, "y re")))
             im == Reals(p, Move(a["re_mul_re"], len),
                         Scaled(p, Part(p, "y im")))
  <2>1. transposeFFT1dOutput(p, a) =
          When(p.strategy = "matmul", Stage(re \cup im, cnnl \cup y))
    BY DEF transposeFFT1dOutput, cnnl, y
  <2>2. Inside(p, re) /\ Inside(p, im)
    <3>1. Room(p, a["re_mul_re"], len) /\ Room(p, Move(a["re_mul_re"], len), len)
      <4> HIDE DEF len
      <4> QED BY <1>1, <1>3, RoomLess, RoomMove
    <3> QED BY <3>1, InsideReals
  <2> HIDE DEF re, im
  <2> QED BY <1>2, <2>1, <2>2, InsideBoth, SafeStage, SafeWhen
<1> QED BY <1>5, <1>6

\* Execution by matrix products keeps inside.
LEMMA MatmulSafe ==
  ASSUME NEW p, IsMeasured(p), p.kind = "c2c", p.rank = 1, MatmulPath(p)
  PROVE  Safe(p, execMatmul1d(p))
<1> DEFINE a  == configureFFT1dMatmulWorkspaceAddrs(p)
           s1 == When(~ p.inDense,
                      CopyIn(p, a["input_contiguous"], C, p.inembed))
           s2 == When(p.n # p.inembed,
                      Fit(p, a["input_contiguous"], p.inembed,
                          a["input_pad"], p.n, C))
           s3 == transposeFFT1dPaddedInput(p, a)
           s4 == computeFFT1dMatmulResult(p, a)
           s5 == mergeFFT1dOutput(p, a)
           s6 == transposeFFT1dOutput(p, a)
           s7 == CopyOut(p, a["output_contiguous"], C, Scaled(p, Result(p.n)))
<1>1. execMatmul1d(p) = s1 \o s2 \o s3 \o s4 \o s5 \o s6 \o s7
  BY DEF execMatmul1d
<1>2. MatmulRoom(p, a)
  BY MatmulAgree
<1> HIDE DEF a
<1>3. /\ IsGiven(p) /\ C = InUnit(p) /\ C = OutUnit(p) /\ p.onembed = p.n
      /\ p.strategy \in MatmulStrategies
  BY MeasuredIsGiven
     DEF IsMeasured, IsTransform, MatmulPath, InUnit, OutUnit
<1>4. /\ Takes(p, a["output_contiguous"], C, p.n)
      /\ Takes(p, a["input_contiguous"], C, p.inembed)
      /\ Takes(p, a["input_pad"], C, p.n)
  BY <1>2 DEF MatmulRoom
<1>5. Safe(p, s1) /\ Safe(p, s2)
  BY <1>3, <1>4, SafeCopyIn, SafeFit, SafeWhen
<1>6. Safe(p, s3) /\ Safe(p, s4) /\ Safe(p, s5) /\ Safe(p, s6)
  BY <1>2, <1>3, MatricesSafe, SafeTransposeInput, SafeProducts, SafeMerge
<1>7. Safe(p, s7)
  BY <1>3, <1>4, SafeCopyOut
<1> HIDE DEF s1, s2, s3, s4, s5, s6, s7
<1> QED BY <1>1, <1>5, <1>6, <1>7, SafeConcat

-----------------------------------------------------------------------------
(* Two dimensions: the tables.                                             *)

\* The lengths along the dimensions, padded for Bluestein or not.
LEMMA Lens2d ==
  ASSUME NEW p, IsMeasured(p), p.rank = 2
  PROVE  /\ p.n[1] \in Nat /\ p.n[2] \in Nat /\ p.batch \in Nat
         /\ ColumnLen(p) \in Nat /\ RowLen(p) \in Nat
         /\ p.n[1] >= 1 /\ p.n[2] >= 1
         /\ p.n[1] <= ColumnLen(p) /\ p.n[2] <= RowLen(p)
         /\ ~ p.bluestein => ColumnLen(p) = p.n[1] /\ RowLen(p) = p.n[2]
         /\ p.kind # "c2c" => ~ p.bluestein
         /\ ~ p.bluesteinColumn => ColumnLen(p) = p.n[1]
         /\ ~ p.bluesteinRow => RowLen(p) = p.n[2]
         /\ Size(p.n) = p.n[1] * p.n[2]
         /\ p.n \in Dims(2) /\ p.inembed \in Dims(2)
<1>1. /\ p.n \in Dims(2) /\ p.inembed \in Dims(2) /\ p.batch \in Nat
      /\ p.bluesteinRow \/ p.bluesteinColumn => p.bluestein
      /\ p.bluestein => p.kind = "c2c"
  BY DEF IsMeasured, IsTransform
<1>2. /\ p.n[1] \in Nat /\ p.n[2] \in Nat /\ p.n[1] >= 1 /\ p.n[2] >= 1
      /\ Size(p.n) = p.n[1] * p.n[2]
  BY <1>1, SizeOf
<1>3. /\ ColumnLen(p) \in Nat /\ RowLen(p) \in Nat
      /\ p.n[1] <= ColumnLen(p) /\ p.n[2] <= RowLen(p)
      /\ ~ p.bluesteinColumn => ColumnLen(p) = p.n[1]
      /\ ~ p.bluesteinRow => RowLen(p) = p.n[2]
  BY <1>2 DEF ColumnLen, RowLen, PadN
<1> QED BY <1>1, <1>2, <1>3

\* The reserve area takes the tables of butterflies in two dimensions.
LEMMA TwoLevelTablesSafe ==
  ASSUME NEW p, IsMeasured(p), p.rank = 2, p.strategy # "many"
  PROVE  /\ Safe(p, setFFT2dReserveArea(p))
         /\ p.kind # "c2r" => \A along \in {"row", "column"} :
                                 Inside(p, Tables2(p, along, TRUE))
         /\ p.kind = "c2c" => \A along \in {"row", "column"} :
                                 Inside(p, Tables2(p, along, FALSE))
         /\ p.kind = "c2r" =>
              /\ Inside(p, Tables2(p, "column", FALSE))
              /\ Inside(p, Tables(Tables2d(p),
                                  {"factors", "twiddles", "dft_matrix"}))
<1> DEFINE row    == C * RowLen(p)
           column == C * ColumnLen(p)
           D  == DftTable
           F  == FactorTable
           fw == p.kind # "c2r"
           bw == p.kind # "r2c"
           cc == p.kind = "c2c"
           L  == [twiddles |-> row, dft_matrix |-> D, factors |-> F,
                  factors_2d |-> F, twiddles_2d |-> column,
                  dft_matrix_2d |-> D, twiddles_inv |-> row,
                  twiddles_inv_2d |-> column, idft_matrix_2d |-> D,
                  idft_matrix |-> D]
           s  == Buffer("twiddles", row) \o Buffer("dft_matrix", D)
                 \o Buffer("factors", F) \o Buffer("factors_2d", F)
                 \o When(fw, Buffer("twiddles_2d", column)
                             \o Buffer("dft_matrix_2d", D))
                 \o When(cc, Buffer("twiddles_inv", row))
                 \o When(bw, Buffer("twiddles_inv_2d", column)
                             \o Buffer("idft_matrix_2d", D))
                 \o When(cc, Buffer("idft_matrix", D))
           X  == {"twiddles"} \cup {"dft_matrix"} \cup {"factors"}
                 \cup {"factors_2d"}
                 \cup (IF fw THEN {"twiddles_2d"} \cup {"dft_matrix_2d"}
                       ELSE {})
                 \cup (IF cc THEN {"twiddles_inv"} ELSE {})
                 \cup (IF bw THEN {"twiddles_inv_2d"} \cup {"idft_matrix_2d"}
                       ELSE {})
                 \cup (IF cc THEN {"idft_matrix"} ELSE {})
           T  == row + D + F + F + (IF fw THEN column + D ELSE 0)
                 + (IF cc THEN row ELSE 0) + (IF bw THEN column + D ELSE 0)
                 + (IF cc THEN D ELSE 0)
           W  == Sizes(p).reserve
<1>1. W = 2 * FactorTable + 2 * C * (ColumnLen(p) + RowLen(p)) + 4 * DftTable
  <2>1. CASE p.kind = "c2c"
    BY <2>1 DEF Sizes, C2CSizes, AllocateC2C2D
  <2>2. CASE p.kind = "r2c"
    BY <2>2, Lens2d
       DEF Sizes, R2CSizes, AllocateRFFT2D, AllocateReal2D
  <2>3. CASE p.kind = "c2r"
    BY <2>3, Lens2d
       DEF Sizes, C2RSizes, AllocateIRFFT2D, AllocateReal2D
  <2> QED BY <2>1, <2>2, <2>3 DEF IsMeasured, IsTransform
<1>2. /\ row \in Nat /\ column \in Nat /\ D \in Nat /\ F \in Nat
      /\ 2 * C * (ColumnLen(p) + RowLen(p)) = row + row + column + column
  BY Lens2d, SizesAreNat DEF C
<1>3. s = Tables2d(p)
  BY DEF Tables2d
<1>4. /\ L["twiddles"] = row /\ L["dft_matrix"] = D /\ L["factors"] = F
      /\ L["factors_2d"] = F /\ L["twiddles_2d"] = column
      /\ L["dft_matrix_2d"] = D /\ L["twiddles_inv"] = row
      /\ L["twiddles_inv_2d"] = column /\ L["idft_matrix_2d"] = D
      /\ L["idft_matrix"] = D
  OBVIOUS
<1>5. fw \/ bw
  OBVIOUS
<1>6. cc => fw /\ bw
  OBVIOUS
<1>7. W = F + F + row + row + column + column + D + D + D + D
  BY <1>1, <1>2
<1> HIDE DEF L, row, column, D, F, W, fw, bw, cc
<1>8. Fill(s, X, L, T)
  <2>1. /\ Fill(Buffer("twiddles", row), {"twiddles"}, L, row)
        /\ Fill(Buffer("dft_matrix", D), {"dft_matrix"}, L, D)
        /\ Fill(Buffer("factors", F), {"factors"}, L, F)
        /\ Fill(Buffer("factors_2d", F), {"factors_2d"}, L, F)
        /\ Fill(Buffer("twiddles_2d", column), {"twiddles_2d"}, L, column)
        /\ Fill(Buffer("dft_matrix_2d", D), {"dft_matrix_2d"}, L, D)
        /\ Fill(Buffer("twiddles_inv", row), {"twiddles_inv"}, L, row)
        /\ Fill(Buffer("twiddles_inv_2d", column), {"twiddles_inv_2d"}, L,
                column)
        /\ Fill(Buffer("idft_matrix_2d", D), {"idft_matrix_2d"}, L, D)
        /\ Fill(Buffer("idft_matrix", D), {"idft_matrix"}, L, D)
    BY <1>2, <1>4, FillBuffer
  <2> DEFINE one   == Buffer("twiddles_2d", column)
                      \o Buffer("dft_matrix_2d", D)
             two   == Buffer("twiddles_inv_2d", column)
                      \o Buffer("idft_matrix_2d", D)
             ones  == {"twiddles_2d"} \cup {"dft_matrix_2d"}
             twos  == {"twiddles_inv_2d"} \cup {"idft_matrix_2d"}
             fixed == Buffer("twiddles", row) \o Buffer("dft_matrix", D)
                      \o Buffer("factors", F) \o Buffer("factors_2d", F)
             names == {"twiddles"} \cup {"dft_matrix"} \cup {"factors"}
                      \cup {"factors_2d"}
             len   == column + D
             sum   == row + D + F + F
  <2>2. Fill(one, ones, L, len) /\ Fill(two, twos, L, len)
    BY <2>1, FillConcat
  <2>3. Fill(fixed, names, L, sum)
    BY <2>1, FillConcat
  <2> HIDE DEF one, two, ones, twos, fixed, names, len, sum
  <2>4. /\ Fill(When(fw, one), IF fw THEN ones ELSE {}, L,
                IF fw THEN len ELSE 0)
        /\ Fill(When(cc, Buffer("twiddles_inv", row)),
                IF cc THEN {"twiddles_inv"} ELSE {}, L, IF cc THEN row ELSE 0)
        /\ Fill(When(bw, two), IF bw THEN twos ELSE {}, L,
                IF bw THEN len ELSE 0)
        /\ Fill(When(cc, Buffer("idft_matrix", D)),
                IF cc THEN {"idft_matrix"} ELSE {}, L, IF cc THEN D ELSE 0)
    BY <2>1, <2>2, FillWhen
  <2>5. Fill(fixed \o When(fw, one) \o When(cc, Buffer("twiddles_inv", row))
             \o When(bw, two) \o When(cc, Buffer("idft_matrix", D)),
             names \cup (IF fw THEN ones ELSE {})
             \cup (IF cc THEN {"twiddles_inv"} ELSE {})
             \cup (IF bw THEN twos ELSE {})
             \cup (IF cc THEN {"idft_matrix"} ELSE {}), L,
             sum + (IF fw THEN len ELSE 0) + (IF cc THEN row ELSE 0)
             + (IF bw THEN len ELSE 0) + (IF cc THEN D ELSE 0))
    BY ZenonT(40), <2>3, <2>4, FillConcat
  <2> QED BY <2>5 DEF one, two, ones, twos, fixed, names, len, sum
<1>9. W \in Nat /\ T <= W
  BY <1>2, <1>6, <1>7
<1>10. /\ fw => /\ {"factors"} \cup {"twiddles", "dft_matrix"} \in SUBSET X
                /\ {"factors_2d"} \cup {"twiddles_2d", "dft_matrix_2d"}
                     \in SUBSET X
       /\ cc => {"factors"} \cup {"twiddles_inv", "idft_matrix"} \in SUBSET X
       /\ bw => {"factors_2d"} \cup {"twiddles_inv_2d", "idft_matrix_2d"}
                  \in SUBSET X
       /\ {"factors", "twiddles", "dft_matrix"} \in SUBSET X
  OBVIOUS
<1> HIDE DEF s, X, T
<1>11. /\ \A names \in SUBSET X : Inside(p, Tables(Tables2d(p), names))
       /\ Safe(p, CopyTables(Tables2d(p)))
  BY <1>3, <1>8, <1>9, TablesFit DEF W
<1>12. fw => \A along \in {"row", "column"} : Inside(p, Tables2(p, along, TRUE))
  BY <1>10, <1>11 DEF Tables2, ButterflyTables
<1>13. cc => \A along \in {"row", "column"} :
                Inside(p, Tables2(p, along, FALSE))
  BY <1>6, <1>10, <1>11 DEF Tables2, ButterflyTables
<1>14. bw => Inside(p, Tables2(p, "column", FALSE))
  BY <1>10, <1>11 DEF Tables2
<1>15. Inside(p, Tables(Tables2d(p), {"factors", "twiddles", "dft_matrix"}))
  BY <1>10, <1>11
<1> QED BY <1>11, <1>12, <1>13, <1>14, <1>15
        DEF setFFT2dReserveArea, fw, bw, cc

\* And the matrices of those that transform the whole batch at once.
LEMMA ManyTablesSafe ==
  ASSUME NEW p, IsMeasured(p), p.rank = 2, p.strategy = "many"
  PROVE  /\ Safe(p, setFFT2dReserveArea(p))
         /\ \A t \in {"dft_matrix", "dft_matrix_2d"} :
              Inside(p, Tables(Tables2d(p), {t}))
         /\ p.kind = "c2c" => \A t \in {"idft_matrix", "idft_matrix_2d"} :
                                 Inside(p, Tables(Tables2d(p), {t}))
<1> DEFINE row    == C * p.n[2] * p.n[2]
           short  == C * Half(p.n[2]) * p.n[2]
           column == C * p.n[1] * p.n[1]
           cc == p.kind = "c2c"
           K  == [dft_matrix |-> row, dft_matrix_2d |-> column,
                  idft_matrix |-> row, idft_matrix_2d |-> column]
           L  == [dft_matrix |-> short, dft_matrix_2d |-> column]
           s  == Buffer("dft_matrix", row) \o Buffer("dft_matrix_2d", column)
                 \o Buffer("idft_matrix", row)
                 \o Buffer("idft_matrix_2d", column)
           t  == Buffer("dft_matrix", short)
                 \o Buffer("dft_matrix_2d", column)
           X  == {"dft_matrix"} \cup {"dft_matrix_2d"} \cup {"idft_matrix"}
                 \cup {"idft_matrix_2d"}
           Y  == {"dft_matrix"} \cup {"dft_matrix_2d"}
           W  == Sizes(p).reserve
<1>1. W = 2 * C * (ColumnLen(p) * ColumnLen(p) + RowLen(p) * RowLen(p))
  <2>1. CASE p.kind = "c2c"
    BY <2>1 DEF Sizes, C2CSizes, AllocateC2C2D
  <2>2. CASE p.kind = "r2c"
    BY <2>2, Lens2d
       DEF Sizes, R2CSizes, AllocateRFFT2D, AllocateReal2D
  <2>3. CASE p.kind = "c2r"
    BY <2>3, Lens2d
       DEF Sizes, C2RSizes, AllocateIRFFT2D, AllocateReal2D
  <2> QED BY <2>1, <2>2, <2>3 DEF IsMeasured, IsTransform
<1>2. /\ row \in Nat /\ column \in Nat /\ short \in Nat /\ short <= row
      /\ W \in Nat /\ row + row + column + column <= W
  <2> DEFINE n0 == p.n[1]
             n1 == p.n[2]
             l0 == ColumnLen(p)
             l1 == RowLen(p)
  <2>1. /\ n0 \in Nat /\ n1 \in Nat /\ l0 \in Nat /\ l1 \in Nat
        /\ n1 >= 1 /\ n0 <= l0 /\ n1 <= l1
    BY Lens2d
  <2>2. /\ W = 2 * C * (l0 * l0 + l1 * l1)
        /\ row = C * n1 * n1 /\ column = C * n0 * n0
        /\ short = C * Half(n1) * n1
    BY <1>1
  <2> HIDE DEF n0, n1, l0, l1, row, column, short, W
  <2>3. Half(n1) \in Nat /\ Half(n1) <= n1
    BY <2>1 DEF Half
  <2> DEFINE a == n0 * n0
             b == n1 * n1
             c == Half(n1) * n1
             d == l0 * l0
             e == l1 * l1
  <2>4. /\ a \in Nat /\ b \in Nat /\ c \in Nat /\ d \in Nat /\ e \in Nat
        /\ c <= b /\ a <= d /\ b <= e
    BY <2>1, <2>3, Grows
  <2>5. C * n1 * n1 = 2 * b /\ C * n0 * n0 = 2 * a
        /\ C * Half(n1) * n1 = 2 * c
    BY <2>1, <2>3 DEF C
  <2> HIDE DEF a, b, c
  <2>6. row = 2 * b /\ column = 2 * a /\ short = 2 * c
    BY <2>2, <2>5
  <2>7. W = 2 * C * (d + e)
    BY <2>2
  <2> HIDE DEF d, e
  <2>8. W = 4 * d + 4 * e
    BY <2>4, <2>7 DEF C
  <2> QED BY <2>4, <2>6, <2>8
<1>3. /\ K["dft_matrix"] = row /\ K["dft_matrix_2d"] = column
      /\ K["idft_matrix"] = row /\ K["idft_matrix_2d"] = column
      /\ L["dft_matrix"] = short /\ L["dft_matrix_2d"] = column
  OBVIOUS
<1>4. Tables2d(p) = IF cc THEN s ELSE t
  BY DEF Tables2d
<1>5. W = Sizes(p).reserve
  OBVIOUS
<1> HIDE DEF K, L, row, column, short, W
<1>6. Fill(s, X, K, row + column + row + column)
  <2>1. /\ Fill(Buffer("dft_matrix", row), {"dft_matrix"}, K, row)
        /\ Fill(Buffer("dft_matrix_2d", column), {"dft_matrix_2d"}, K, column)
        /\ Fill(Buffer("idft_matrix", row), {"idft_matrix"}, K, row)
        /\ Fill(Buffer("idft_matrix_2d", column), {"idft_matrix_2d"}, K,
                column)
    BY <1>2, <1>3, FillBuffer
  <2> QED BY <2>1, FillConcat
<1>7. Fill(t, Y, L, short + column)
  <2>1. /\ Fill(Buffer("dft_matrix", short), {"dft_matrix"}, L, short)
        /\ Fill(Buffer("dft_matrix_2d", column), {"dft_matrix_2d"}, L, column)
    BY <1>2, <1>3, FillBuffer
  <2> QED BY <2>1, FillConcat
<1>8. /\ W \in Nat /\ row + column + row + column <= W
      /\ short + column <= W
  BY <1>2
<1>9. /\ \A u \in {"dft_matrix", "dft_matrix_2d"} :
           {u} \in SUBSET X /\ {u} \in SUBSET Y
      /\ \A u \in {"idft_matrix", "idft_matrix_2d"} : {u} \in SUBSET X
  OBVIOUS
<1> HIDE DEF s, t, X, Y, cc
<1>10. /\ \A names \in SUBSET X : Inside(p, Tables(s, names))
       /\ Safe(p, CopyTables(s))
  BY <1>5, <1>6, <1>8, TablesFit
<1>11. /\ \A names \in SUBSET Y : Inside(p, Tables(t, names))
       /\ Safe(p, CopyTables(t))
  BY <1>5, <1>7, <1>8, TablesFit
<1> QED BY <1>4, <1>9, <1>10, <1>11 DEF setFFT2dReserveArea, cc

-----------------------------------------------------------------------------
(* Complex to complex, two dimensions.                                     *)

\* An address of a record of addresses with room behind it.
Owns(p, a, name, len) == name \in DOMAIN a /\ Room(p, a[name], len)

\* What this branch has room for behind each of its addresses.
PlaneRoom(p, a) ==
  LET room    == C * ColumnLen(p) * RowLen(p)
      signals == C * p.batch * ColumnLen(p) * RowLen(p)
      copied  == ~ (p.inDense /\ ~ Shorter(p))
  IN /\ p.strategy = "many" =>
          /\ Owns(p, a, "buffer_in", 2 * signals)
          /\ Owns(p, a, "buffer_out", 2 * signals)
          /\ a["input"] = Input(p) /\ a["output"] = Output(p)
     /\ p.strategy # "many" =>
          /\ Owns(p, a, "buf", 2 * signals)
          /\ IF copied THEN Owns(p, a, "input", signals)
                       ELSE a["input"] = Input(p)
          /\ IF ~ p.outDense THEN Owns(p, a, "output", signals)
                             ELSE a["output"] = Output(p)
     /\ Longer(p) => Owns(p, a, "input_pad", signals)
     /\ p.bluesteinColumn => /\ Owns(p, a, "chirpz_column", C * ColumnLen(p))
                             /\ Owns(p, a, "aux_column", C * ColumnLen(p))
     /\ p.bluesteinRow => /\ Owns(p, a, "chirpz_row", C * RowLen(p))
                          /\ Owns(p, a, "aux_row", C * RowLen(p))
     /\ p.bluestein => /\ Owns(p, a, "bs_input", room)
                       /\ Owns(p, a, "bs_output", room)
     /\ {"input", "output"} \subseteq DOMAIN a

\* mluOpAllocateC2C2D and configureFFT2dWorkspaceAddrs agree.
LEMMA PlaneAgree ==
  ASSUME NEW p, IsMeasured(p), p.kind = "c2c", p.rank = 2
  PROVE  PlaneRoom(p, configureFFT2dWorkspaceAddrs(p))
<1> DEFINE signals == C * p.batch * ColumnLen(p) * RowLen(p)
           two     == 2 * signals
           six     == 6 * signals
           room    == C * ColumnLen(p) * RowLen(p)
           rooms   == 2 * C * ColumnLen(p) * RowLen(p)
           cl      == C * ColumnLen(p)
           rl      == C * RowLen(p)
           both    == 2 * C * (ColumnLen(p) + RowLen(p))
           many    == p.strategy = "many"
           copied  == ~ (p.inDense /\ ~ Shorter(p))
           given   == ~ p.outDense
           padA    == p.n # p.inembed
           pad     == Longer(p)
           blue    == p.bluestein
           col     == p.bluesteinColumn
           row     == p.bluesteinRow
           inA     == ~ many /\ copied
           outA    == ~ many /\ given
           first   == IF many THEN six ELSE two
           L == [buf |-> two, input |-> signals, output |-> signals,
                 input_pad |-> 0, buffer_in |-> two, buffer_out |-> two,
                 chirpz_column |-> cl, aux_column |-> cl, chirpz_row |-> rl,
                 aux_row |-> rl, bs_input |-> room, bs_output |-> room]
           M == [buf |-> first, input |-> signals, output |-> signals,
                 pad |-> signals, chirps |-> both, products |-> rooms]
           sizes == Buffer("buf", first) \o When(inA, Buffer("input", signals))
                    \o When(outA, Buffer("output", signals))
                    \o When(padA, Buffer("pad", signals))
                    \o When(blue, Buffer("chirps", both)
                                  \o Buffer("products", rooms))
           manyBufs   == Buffer("buffer_in", two) \o Buffer("buffer_out", two)
           manyNames  == {"buffer_in"} \cup {"buffer_out"}
           otherBufs  == Buffer("buf", two)
                         \o When(copied, Buffer("input", signals))
                         \o When(given, Buffer("output", signals))
           otherNames == {"buf"} \cup (IF copied THEN {"input"} ELSE {})
                         \cup (IF given THEN {"output"} ELSE {})
           otherLen   == two + (IF copied THEN signals ELSE 0)
                         + (IF given THEN signals ELSE 0)
           core      == IF many THEN manyBufs ELSE otherBufs
           coreNames == IF many THEN manyNames ELSE otherNames
           coreLen   == IF many THEN two + two ELSE otherLen
           column == Buffer("chirpz_column", cl) \o Buffer("aux_column", cl)
           rows   == Buffer("chirpz_row", rl) \o Buffer("aux_row", rl)
           spare  == Buffer("bs_input", room) \o Buffer("bs_output", room)
           parts  == core \o When(pad, Buffer("input_pad", 0))
                     \o When(col, column) \o When(row, rows)
                     \o When(blue, spare)
           names  == coreNames \cup (IF pad THEN {"input_pad"} ELSE {})
                     \cup (IF col THEN {"chirpz_column"} \cup {"aux_column"}
                           ELSE {})
                     \cup (IF row THEN {"chirpz_row"} \cup {"aux_row"} ELSE {})
                     \cup (IF blue THEN {"bs_input"} \cup {"bs_output"}
                           ELSE {})
           total  == coreLen + (IF pad THEN 0 ELSE 0)
                     + (IF col THEN cl + cl ELSE 0)
                     + (IF row THEN rl + rl ELSE 0)
                     + (IF blue THEN room + room ELSE 0)
           rest   == [input |-> Input(p), output |-> Output(p)]
           W      == Sizes(p).workspace
           a      == With(Forward(Workspace, parts), rest)
<1>1. configureFFT2dWorkspaceAddrs(p) = a
  BY DEF configureFFT2dWorkspaceAddrs, ChirpOf, AuxOf
<1>2. W = Length(sizes)
  BY DEF Sizes, C2CSizes, AllocateC2C2D
<1>3. /\ signals \in Nat /\ two \in Nat /\ six \in Nat /\ room \in Nat
      /\ rooms \in Nat /\ cl \in Nat /\ rl \in Nat /\ both \in Nat
      /\ two = signals + signals /\ six = two + two + two
      /\ rooms = room + room /\ both = cl + cl + rl + rl
  <2>1. p.batch \in Nat /\ ColumnLen(p) \in Nat /\ RowLen(p) \in Nat
    BY Lens2d
  <2>2. p.batch * ColumnLen(p) \in Nat /\ ColumnLen(p) * RowLen(p) \in Nat
    BY <2>1
  <2>3. C * p.batch * ColumnLen(p) * RowLen(p)
          = 2 * ((p.batch * ColumnLen(p)) * RowLen(p))
        /\ (p.batch * ColumnLen(p)) * RowLen(p) \in Nat
    BY <2>1, <2>2 DEF C
  <2>4. C * ColumnLen(p) * RowLen(p) = 2 * (ColumnLen(p) * RowLen(p))
        /\ 2 * C * ColumnLen(p) * RowLen(p) = 4 * (ColumnLen(p) * RowLen(p))
    BY <2>1, <2>2 DEF C
  <2>5. signals \in Nat /\ room \in Nat /\ rooms = room + room
    BY <2>2, <2>3, <2>4
  <2>6. cl \in Nat /\ rl \in Nat /\ both = cl + cl + rl + rl
    BY <2>1 DEF C
  <2> HIDE DEF signals, room, rooms, cl, rl, both
  <2> QED BY <2>5, <2>6
<1>4. /\ L["buf"] = two /\ L["input"] = signals /\ L["output"] = signals
      /\ L["input_pad"] = 0 /\ L["buffer_in"] = two /\ L["buffer_out"] = two
      /\ L["chirpz_column"] = cl /\ L["aux_column"] = cl
      /\ L["chirpz_row"] = rl /\ L["aux_row"] = rl
      /\ L["bs_input"] = room /\ L["bs_output"] = room
  OBVIOUS
<1>5. /\ M["buf"] = first /\ M["input"] = signals /\ M["output"] = signals
      /\ M["pad"] = signals /\ M["chirps"] = both /\ M["products"] = rooms
  OBVIOUS
<1>6. /\ pad => padA
      /\ col \/ row => blue
  BY LikeTheInput DEF IsMeasured, IsTransform
<1>7. /\ inA <=> ~ many /\ copied
      /\ outA <=> ~ many /\ given
      /\ first = IF many THEN six ELSE two
  OBVIOUS
<1>8. W = Sizes(p).workspace
  OBVIOUS
<1> HIDE DEF signals, two, six, room, rooms, cl, rl, both, many, copied, given,
             padA, pad, blue, col, row, inA, outA, first, L, M, W
<1>9. W = first + (IF inA THEN signals ELSE 0) + (IF outA THEN signals ELSE 0)
          + (IF padA THEN signals ELSE 0) + (IF blue THEN both + rooms ELSE 0)
  <2>1. first \in Nat
    BY <1>3, <1>7
  <2>2. /\ Fill(Buffer("buf", first), {"buf"}, M, first)
        /\ Fill(Buffer("input", signals), {"input"}, M, signals)
        /\ Fill(Buffer("output", signals), {"output"}, M, signals)
        /\ Fill(Buffer("pad", signals), {"pad"}, M, signals)
        /\ Fill(Buffer("chirps", both), {"chirps"}, M, both)
        /\ Fill(Buffer("products", rooms), {"products"}, M, rooms)
    BY <1>3, <1>5, <2>1, FillBuffer
  <2>3. Fill(sizes, {"buf"} \cup (IF inA THEN {"input"} ELSE {})
                    \cup (IF outA THEN {"output"} ELSE {})
                    \cup (IF padA THEN {"pad"} ELSE {})
                    \cup (IF blue THEN {"chirps"} \cup {"products"} ELSE {}),
             M, first + (IF inA THEN signals ELSE 0)
                + (IF outA THEN signals ELSE 0)
                + (IF padA THEN signals ELSE 0)
                + (IF blue THEN both + rooms ELSE 0))
    BY ZenonT(40), <2>2, FillWhen, FillConcat
  <2> HIDE DEF sizes
  <2> QED BY <1>2, <2>3 DEF Fill
<1>10. Fill(core, coreNames, L, coreLen)
  <2>1. /\ Fill(Buffer("buf", two), {"buf"}, L, two)
        /\ Fill(Buffer("input", signals), {"input"}, L, signals)
        /\ Fill(Buffer("output", signals), {"output"}, L, signals)
        /\ Fill(Buffer("buffer_in", two), {"buffer_in"}, L, two)
        /\ Fill(Buffer("buffer_out", two), {"buffer_out"}, L, two)
    BY <1>3, <1>4, FillBuffer
  <2>2. Fill(manyBufs, manyNames, L, two + two)
    BY <2>1, FillConcat
  <2>3. Fill(otherBufs, otherNames, L, otherLen)
    BY <2>1, FillWhen, FillConcat
  <2> HIDE DEF manyBufs, manyNames, otherBufs, otherNames, otherLen
  <2> QED BY <2>2, <2>3
<1>11. Fill(parts, names, L, total)
  <2>1. /\ Fill(Buffer("input_pad", 0), {"input_pad"}, L, 0)
        /\ Fill(Buffer("chirpz_column", cl), {"chirpz_column"}, L, cl)
        /\ Fill(Buffer("aux_column", cl), {"aux_column"}, L, cl)
        /\ Fill(Buffer("chirpz_row", rl), {"chirpz_row"}, L, rl)
        /\ Fill(Buffer("aux_row", rl), {"aux_row"}, L, rl)
        /\ Fill(Buffer("bs_input", room), {"bs_input"}, L, room)
        /\ Fill(Buffer("bs_output", room), {"bs_output"}, L, room)
    BY <1>3, <1>4, FillBuffer
  <2>2. /\ Fill(column, {"chirpz_column"} \cup {"aux_column"}, L, cl + cl)
        /\ Fill(rows, {"chirpz_row"} \cup {"aux_row"}, L, rl + rl)
        /\ Fill(spare, {"bs_input"} \cup {"bs_output"}, L, room + room)
    BY <2>1, FillConcat
  <2> HIDE DEF core, coreNames, coreLen, column, rows, spare
  <2> QED BY ZenonT(40), <1>10, <2>1, <2>2, FillWhen, FillConcat
<1>12. /\ W \in Nat /\ total \in Nat /\ total <= W
       /\ pad => total + signals <= W
  BY <1>3, <1>6, <1>7, <1>9
<1>13. /\ ~ many => "buf" \in names
       /\ many => {"buffer_in", "buffer_out"} \subseteq names
       /\ "input" \in names <=> ~ many /\ copied
       /\ "output" \in names <=> ~ many /\ given
       /\ pad => "input_pad" \in names
       /\ col => {"chirpz_column", "aux_column"} \subseteq names
       /\ row => {"chirpz_row", "aux_row"} \subseteq names
       /\ blue => {"bs_input", "bs_output"} \subseteq names
  OBVIOUS
<1> HIDE DEF parts, total, names
<1>14. /\ \A x \in names : x \in DOMAIN a /\ Room(p, a[x], L[x] + (W - total))
       /\ "input" \notin names => a["input"] = Input(p)
       /\ "output" \notin names => a["output"] = Output(p)
       /\ {"input", "output"} \subseteq DOMAIN a
  <2> DEFINE own == {"input", "output"}
  <2>1. /\ own \subseteq DOMAIN rest
        /\ rest["input"] = Input(p) /\ rest["output"] = Output(p)
    OBVIOUS
  <2> HIDE DEF rest
  <2> QED BY <1>8, <1>11, <1>12, <2>1, CallerRoom
<1> HIDE DEF a
<1>15. \A x \in names : L[x] \in Nat => Owns(p, a, x, L[x])
  BY <1>12, <1>14, RoomLess DEF Owns
<1>16. pad => Owns(p, a, "input_pad", signals)
  <2>1. pad => signals <= L["input_pad"] + (W - total)
    BY <1>3, <1>4, <1>12
  <2> QED BY <1>3, <1>13, <1>14, <2>1, RoomLess DEF Owns
<1>17. /\ ~ many => Owns(p, a, "buf", two)
       /\ many => /\ Owns(p, a, "buffer_in", two)
                  /\ Owns(p, a, "buffer_out", two)
       /\ ~ many /\ copied => Owns(p, a, "input", signals)
       /\ ~ many /\ given => Owns(p, a, "output", signals)
  BY <1>3, <1>4, <1>13, <1>15
<1>18. /\ many \/ ~ copied => a["input"] = Input(p)
       /\ many \/ ~ given => a["output"] = Output(p)
       /\ {"input", "output"} \subseteq DOMAIN a
  BY <1>13, <1>14
<1>19. /\ col => Owns(p, a, "chirpz_column", cl) /\ Owns(p, a, "aux_column", cl)
       /\ row => Owns(p, a, "chirpz_row", rl) /\ Owns(p, a, "aux_row", rl)
       /\ blue => Owns(p, a, "bs_input", room) /\ Owns(p, a, "bs_output", room)
  BY <1>3, <1>4, <1>13, <1>15
<1> QED BY <1>1, <1>16, <1>17, <1>18, <1>19
        DEF PlaneRoom, signals, two, room, cl, rl, many, copied, given, pad,
            blue, col, row

\* A plane of so many numbers takes a batch of signals that are no longer.
LEMMA PlaneTakes ==
  ASSUME NEW p, IsMeasured(p), p.rank = 2, NEW l0 \in Nat, NEW l1 \in Nat,
         NEW a, Room(p, a, C * p.batch * l0 * l1), NEW unit \in Units,
         NEW d \in Dims(2), d[1] <= l0, d[2] <= l1
  PROVE  Takes(p, a, unit, d)
<1>1. /\ p.batch \in Nat /\ d[1] \in Nat /\ d[2] \in Nat
      /\ Size(d) = d[1] * d[2] /\ unit \in Nat /\ unit <= C
  BY SizeOf DEF IsMeasured, IsTransform, Units, R, C
<1>2. d[1] * d[2] <= l0 * l1 /\ d[1] * d[2] \in Nat /\ l0 * l1 \in Nat
  BY <1>1, Grows
<1> DEFINE s == d[1] * d[2]
           l == l0 * l1
<1>3. C * p.batch * l0 * l1 = C * (p.batch * l)
  <2>1. p.batch * l0 \in Nat
    BY <1>1
  <2>2. (p.batch * l0) * l1 = p.batch * (l0 * l1)
    BY <1>1
  <2>3. C * p.batch * l0 * l1 = C * ((p.batch * l0) * l1)
    BY <1>1, <2>1 DEF C
  <2> QED BY <2>2, <2>3
<1> HIDE DEF s, l
<1>4. s \in Nat /\ l \in Nat /\ s <= l
  BY <1>2 DEF s, l
<1>5. p.batch * s <= p.batch * l /\ p.batch * s \in Nat /\ p.batch * l \in Nat
  BY <1>1, <1>4, Grows
<1>6. unit * (p.batch * s) <= C * (p.batch * l)
  BY <1>1, <1>5, Grows DEF C
<1>7. Count(p, d) = p.batch * s
  BY <1>1 DEF Count, s
<1>8. Room(p, a, C * (p.batch * l))
  BY <1>3
<1> QED BY <1>1, <1>6, <1>7, <1>8, TakesRoom

\* What the butterflies use of it, and what the matmuls do.
TwoLevelRoom(p, a) ==
  LET room    == C * ColumnLen(p) * RowLen(p)
      signals == C * p.batch * ColumnLen(p) * RowLen(p)
  IN /\ Room(p, a["buf"], 2 * signals)
     /\ Takes(p, a["input"], C, p.n) /\ Takes(p, a["output"], C, p.n)
     /\ p.bluesteinColumn => /\ Room(p, a["chirpz_column"], C * ColumnLen(p))
                             /\ Room(p, a["aux_column"], C * ColumnLen(p))
     /\ p.bluesteinRow => /\ Room(p, a["chirpz_row"], C * RowLen(p))
                          /\ Room(p, a["aux_row"], C * RowLen(p))
     /\ p.bluestein => /\ Room(p, a["bs_input"], room)
                       /\ Room(p, a["bs_output"], room)

ManyRoom(p, a) ==
  LET signals == C * p.batch * ColumnLen(p) * RowLen(p)
  IN /\ Room(p, a["buffer_in"], 2 * signals)
     /\ Room(p, a["buffer_out"], 2 * signals)
     /\ Takes(p, a["input"], C, p.n) /\ Takes(p, a["output"], C, p.n)

\* Bounds of the buffers of one signal.
LEMMA SignalSizes ==
  ASSUME NEW p, IsMeasured(p), p.rank = 2, NEW along \in {"row", "column"},
         p.strategy # "many"
  PROVE  LET long == IF along = "row" THEN <<p.n[1], RowLen(p)>>
                                      ELSE <<ColumnLen(p), p.n[2]>>
             len  == IF along = "row" THEN RowLen(p) ELSE ColumnLen(p)
             short == IF along = "row" THEN p.n[2] ELSE p.n[1]
             room    == C * ColumnLen(p) * RowLen(p)
             signals == C * p.batch * ColumnLen(p) * RowLen(p)
         IN  /\ C * Size(long) \in Nat /\ C * Size(long) <= room
             /\ 2 * C * Size(long) \in Nat /\ 2 * C * Size(long) <= 2 * signals
             /\ C * short \in Nat /\ C * short <= C * len
             /\ 2 * C * len \in Nat /\ 2 * C * len <= 2 * signals
<1> DEFINE n0 == ColumnLen(p)
           n1 == RowLen(p)
           l0 == IF along = "row" THEN p.n[1] ELSE n0
           l1 == IF along = "row" THEN n1 ELSE p.n[2]
           long == IF along = "row" THEN <<p.n[1], RowLen(p)>>
                                    ELSE <<ColumnLen(p), p.n[2]>>
           len  == IF along = "row" THEN RowLen(p) ELSE ColumnLen(p)
           short == IF along = "row" THEN p.n[2] ELSE p.n[1]
<1>1. /\ n0 \in Nat /\ n1 \in Nat /\ l0 \in Nat /\ l1 \in Nat
      /\ l0 <= n0 /\ l1 <= n1 /\ n0 >= 1 /\ n1 >= 1
      /\ len \in Nat /\ short \in Nat /\ short <= len
      /\ p.batch \in Nat /\ p.batch >= 1
      /\ len = n0 \/ len = n1
  BY Lens2d DEF IsMeasured
<1>2. Size(long) = l0 * l1
  <2>1. /\ Size(<<p.n[1], RowLen(p)>>) = p.n[1] * RowLen(p)
        /\ Size(<<ColumnLen(p), p.n[2]>>) = ColumnLen(p) * p.n[2]
    BY DEF Size
  <2> QED BY <2>1
<1> HIDE DEF n0, n1, l0, l1, long, len, short
<1> DEFINE s == l0 * l1
           m == n0 * n1
<1>3. s <= m /\ s \in Nat /\ m \in Nat
  BY <1>1, Grows
<1>4. len <= m
  <2>1. n0 * 1 <= n0 * n1 /\ 1 * n1 <= n0 * n1
    BY <1>1, Grows
  <2> QED BY <1>1, <2>1
<1>5. C * n0 * n1 = C * m
  BY <1>1 DEF C
<1>6. C * p.batch * n0 * n1 = C * (p.batch * m)
  <2>1. p.batch * n0 \in Nat
    BY <1>1
  <2>2. (p.batch * n0) * n1 = p.batch * (n0 * n1)
    BY <1>1
  <2>3. C * p.batch * n0 * n1 = C * ((p.batch * n0) * n1)
    BY <1>1, <2>1 DEF C
  <2> QED BY <2>2, <2>3
<1>7. Size(long) = s
  BY <1>2
<1> HIDE DEF s, m
<1>8. m <= p.batch * m /\ p.batch * m \in Nat
  <2>1. 1 * m <= p.batch * m
    BY <1>1, <1>3, Grows
  <2> QED BY <1>1, <1>3, <2>1
<1> DEFINE t == p.batch * m
<1>9. C * n0 * n1 = C * m /\ C * p.batch * n0 * n1 = C * t /\ m <= t /\ t \in Nat
  BY <1>5, <1>6, <1>8
<1> HIDE DEF t
<1>10. /\ C * s \in Nat /\ C * s <= C * m
       /\ 2 * C * s \in Nat /\ 2 * C * s <= 2 * (C * t)
       /\ C * short \in Nat /\ C * short <= C * len
       /\ 2 * C * len \in Nat /\ 2 * C * len <= 2 * (C * t)
  BY <1>1, <1>3, <1>4, <1>9 DEF C
<1> QED BY <1>7, <1>9, <1>10 DEF n0, n1, long, len, short

\* One signal of the batch along a dimension.
LEMMA SignalSafe ==
  ASSUME NEW p, IsMeasured(p), p.kind = "c2c", p.rank = 2,
         p.strategy # "many", NEW a, TwoLevelRoom(p, a),
         NEW along \in {"row", "column"}, NEW b \in 0 .. p.batch - 1,
         NEW from \in {"input", "output"}, NEW v, NEW w
  PROVE  Safe(p, Transform2d(p, a, b, along, from, v, w))
<1> DEFINE signal(at, x) == {Holds(Move(at, b * C * Size(p.n)),
                                   C * Size(p.n), x)}
           long  == IF along = "row" THEN <<p.n[1], RowLen(p)>>
                                     ELSE <<ColumnLen(p), p.n[2]>>
           at(name, x) == {Holds(a[name], C * Size(long), Value(x, long))}
           short == IF along = "row" THEN p.n[2] ELSE p.n[1]
           len   == IF along = "row" THEN RowLen(p) ELSE ColumnLen(p)
           chirp == {Holds(a[ChirpOf[along]], C * short,
                           Value("chirpz", <<>>))}
           aux   == {Holds(a[AuxOf[along]], C * len,
                           Value("fft chirp", <<>>))}
           buf   == Scratch(a["buf"], 2 * C * Size(long))
           x     == signal(a[from], v)
           y     == signal(a["output"], w)
           by    == IF along = "row" THEN p.bluesteinRow ELSE p.bluesteinColumn
           fw    == Tables2(p, along, TRUE)
           bw    == Tables2(p, along, FALSE)
           dir   == Tables2(p, along, Forwards(p))
           s1 == Stage(chirp \cup x, at("bs_input", "x chirp"))
           s2 == Butterfly(fw, at("bs_input", "x chirp"),
                           at("bs_input", "fft x chirp"), buf)
           s3 == Stage(aux \cup at("bs_input", "fft x chirp"),
                       at("bs_output", "convolved"))
           s4 == Butterfly(bw, at("bs_output", "convolved"),
                           at("bs_output", "y chirp"), buf)
           s5 == Stage(chirp \cup at("bs_output", "y chirp"), y)
           one == Butterfly(dir, x, y, buf)
<1>1. Transform2d(p, a, b, along, from, v, w) =
        IF ~ by THEN one ELSE s1 \o s2 \o s3 \o s4 \o s5
  BY DEF Transform2d
<1>2. Inside(p, x) /\ Inside(p, y)
  BY InsideSignal DEF TwoLevelRoom
<1>3. Inside(p, fw) /\ Inside(p, bw) /\ Inside(p, dir)
  BY TwoLevelTablesSafe DEF Forwards
<1>4. /\ C * Size(long) \in Nat
      /\ C * Size(long) <= C * ColumnLen(p) * RowLen(p)
      /\ 2 * C * Size(long) \in Nat
      /\ 2 * C * Size(long) <= 2 * (C * p.batch * ColumnLen(p) * RowLen(p))
      /\ C * short \in Nat /\ C * short <= C * len
  BY SignalSizes
<1> HIDE DEF long, len, short
<1>5. Inside(p, buf)
  BY <1>4, RoomLess, InsideScratch DEF TwoLevelRoom
<1>6. by => p.bluestein
  BY DEF IsMeasured, IsTransform
<1>7. by => \A name \in {"bs_input", "bs_output"} : \A z :
              Inside(p, at(name, z))
  <2> SUFFICES ASSUME by
               PROVE  \A name \in {"bs_input", "bs_output"} : \A z :
                        Inside(p, at(name, z))
    OBVIOUS
  <2>1. \A name \in {"bs_input", "bs_output"} :
          Room(p, a[name], C * Size(long))
    BY <1>4, <1>6, RoomLess DEF TwoLevelRoom
  <2> QED BY <2>1, RoomHolds
<1>8. by => Inside(p, chirp) /\ Inside(p, aux)
  <2> SUFFICES ASSUME by PROVE Inside(p, chirp) /\ Inside(p, aux)
    OBVIOUS
  <2>1. Room(p, a[ChirpOf[along]], C * len) /\ Room(p, a[AuxOf[along]], C * len)
    BY DEF TwoLevelRoom, ChirpOf, AuxOf, len
  <2>2. Room(p, a[ChirpOf[along]], C * short)
    BY <1>4, <2>1, RoomLess
  <2> QED BY <2>1, <2>2, RoomHolds
<1> HIDE DEF x, y, at, chirp, aux, buf, by, fw, bw, dir
<1>9. CASE ~ by
  BY <1>1, <1>2, <1>3, <1>5, <1>9, SafeButterfly
<1>10. CASE by
  <2>1. Safe(p, s1) /\ Safe(p, s3) /\ Safe(p, s5)
    BY <1>2, <1>7, <1>8, <1>10, InsideBoth, SafeStage
  <2>2. Safe(p, s2) /\ Safe(p, s4)
    BY <1>3, <1>5, <1>7, <1>10, SafeButterfly
  <2> HIDE DEF s1, s2, s3, s4, s5, one
  <2> QED BY <1>1, <1>10, <2>1, <2>2, SafeConcat
<1> QED BY <1>9, <1>10

\* The chirps and their transform, once for the batch.
LEMMA Chirps2dSafe ==
  ASSUME NEW p, IsMeasured(p), p.kind = "c2c", p.rank = 2,
         p.strategy # "many", NEW a, TwoLevelRoom(p, a),
         NEW along \in {"row", "column"},
         IF along = "row" THEN p.bluesteinRow ELSE p.bluesteinColumn
  PROVE  Safe(p, Chirps2d(p, a, along))
<1> DEFINE len    == IF along = "row" THEN RowLen(p) ELSE ColumnLen(p)
           short  == IF along = "row" THEN p.n[2] ELSE p.n[1]
           aux(v) == {Holds(a[AuxOf[along]], C * len, Value(v, <<>>))}
           chirp  == {Holds(a[ChirpOf[along]], C * short,
                            Value("chirpz", <<>>))}
           buf    == Scratch(a["buf"], 2 * C * len)
           fw     == Tables2(p, along, TRUE)
           s1 == Stage({}, chirp)
           s2 == Stage({}, aux("chirp"))
           s3 == Butterfly(fw, aux("chirp"), aux("fft chirp"), buf)
<1>1. Chirps2d(p, a, along) = s1 \o s2 \o s3
  BY DEF Chirps2d
<1>2. /\ C * short \in Nat /\ C * short <= C * len
      /\ 2 * C * len \in Nat
      /\ 2 * C * len <= 2 * (C * p.batch * ColumnLen(p) * RowLen(p))
  BY SignalSizes
<1>3. Room(p, a[ChirpOf[along]], C * len) /\ Room(p, a[AuxOf[along]], C * len)
  BY DEF TwoLevelRoom, ChirpOf, AuxOf
<1> HIDE DEF len, short
<1>4. Inside(p, chirp) /\ \A v : Inside(p, aux(v))
  BY <1>2, <1>3, RoomLess, RoomHolds
<1>5. Inside(p, buf)
  BY <1>2, RoomLess, InsideScratch DEF TwoLevelRoom
<1>6. Inside(p, fw) /\ Inside(p, {})
  BY TwoLevelTablesSafe, InsideNone
<1> HIDE DEF chirp, aux, buf, fw
<1>7. Safe(p, s1) /\ Safe(p, s2) /\ Safe(p, s3)
  BY <1>4, <1>5, <1>6, SafeStage, SafeButterfly
<1> HIDE DEF s1, s2, s3
<1> QED BY <1>1, <1>7, SafeConcat

\* All signals of the batch, along both dimensions.
LEMMA TwoLevelSafe ==
  ASSUME NEW p, IsMeasured(p), p.kind = "c2c", p.rank = 2,
         p.strategy # "many", NEW a, TwoLevelRoom(p, a)
  PROVE  Safe(p, execTwoLevel(p, a))
<1> DEFINE order == IF Forwards(p) THEN <<"row", "column">>
                    ELSE <<"column", "row">>
           len(along) == IF along = "row" THEN p.n[2] ELSE p.n[1]
           first  == order[1]
           second == order[2]
           half   == IF len(first) = 1 THEN Signal(p.n)
                     ELSE Along(first, Signal(p.n))
           full   == Result(p.n)
           one(b) == When(len(first) # 1,
                          Transform2d(p, a, b, first, "input", Signal(p.n),
                                      IF len(second) = 1 THEN full ELSE half))
                     \o When(len(second) # 1,
                             Transform2d(p, a, b, second, "output", half,
                                         full))
           column == When(p.bluesteinColumn, Chirps2d(p, a, "column"))
           row    == When(p.bluesteinRow, Chirps2d(p, a, "row"))
           batch  == [b \in 1 .. p.batch |-> one(b - 1)]
<1>1. execTwoLevel(p, a) = column \o row \o FlattenSeq(batch)
  BY DEF execTwoLevel
<1>2. Safe(p, column) /\ Safe(p, row)
  <2>1. p.bluesteinColumn => Safe(p, Chirps2d(p, a, "column"))
    BY Chirps2dSafe
  <2>2. p.bluesteinRow => Safe(p, Chirps2d(p, a, "row"))
    BY Chirps2dSafe
  <2> QED BY <2>1, <2>2, SafeWhen
<1>3. first \in {"row", "column"} /\ second \in {"row", "column"}
  OBVIOUS
<1> HIDE DEF order, first, second, half, full, len
<1>4. ASSUME NEW b \in 0 .. p.batch - 1 PROVE Safe(p, one(b))
  BY <1>3, SignalSafe, SafeWhen, SafeConcat
<1> HIDE DEF one
<1>5. Safe(p, FlattenSeq(batch))
  <2>1. p.batch \in Nat
    BY DEF IsMeasured, IsTransform
  <2>2. \A i \in 1 .. p.batch : i - 1 \in 0 .. p.batch - 1
    BY <2>1
  <2>3. /\ batch = [i \in 1 .. p.batch |-> batch[i]]
        /\ \A i \in 1 .. p.batch : Safe(p, batch[i])
    BY <1>4, <2>2
  <2> HIDE DEF batch
  <2> QED BY <2>1, <2>3, SafeFlat
<1> HIDE DEF column, row, batch
<1> QED BY <1>1, <1>2, <1>5, SafeConcat

\* Where the kernels read the input once it is copied and padded.
LEMMA PlaneInput ==
  ASSUME NEW p, IsMeasured(p), p.kind = "c2c", p.rank = 2, NEW a,
         PlaneRoom(p, a)
  PROVE  /\ Longer(p) => Takes(p, a["input_pad"], C, p.n)
         /\ Takes(p, a["input"], C, Trimmed(p))
         /\ ~ Longer(p) => Takes(p, a["input"], C, p.n)
         /\ Takes(p, a["output"], C, p.n)
         /\ p.strategy = "many" => ~ Longer(p)
<1> DEFINE signals == C * p.batch * ColumnLen(p) * RowLen(p)
           copied  == ~ (p.inDense /\ ~ Shorter(p))
<1>1. /\ p.n \in Dims(2) /\ p.inembed \in Dims(2) /\ Trimmed(p) \in Dims(2)
      /\ \A i \in 1 .. 2 : /\ Trimmed(p)[i] <= p.n[i]
                           /\ Trimmed(p)[i] <= p.inembed[i]
      /\ ~ Longer(p) => \A i \in 1 .. 2 : p.n[i] <= p.inembed[i]
      /\ 1 \in 1 .. 2 /\ 2 \in 1 .. 2
  BY LikeTheInput, Lens2d
<1>2. /\ ColumnLen(p) \in Nat /\ RowLen(p) \in Nat
      /\ p.n[1] <= ColumnLen(p) /\ p.n[2] <= RowLen(p)
      /\ p.n[1] \in Nat /\ p.n[2] \in Nat
      /\ Trimmed(p)[1] \in Nat /\ Trimmed(p)[2] \in Nat
  BY <1>1, Lens2d, SizeOf
<1>3. Trimmed(p)[1] <= ColumnLen(p) /\ Trimmed(p)[2] <= RowLen(p)
  BY <1>1, <1>2
<1>4. C \in Units /\ InUnit(p) = C /\ OutUnit(p) = C
  BY DEF InUnit, OutUnit, Units
<1>5. \A x : Room(p, x, signals) => /\ Takes(p, x, C, p.n)
                                    /\ Takes(p, x, C, Trimmed(p))
  BY <1>1, <1>2, <1>3, <1>4, PlaneTakes
<1>6. Takes(p, Input(p), C, p.inembed) /\ Takes(p, Output(p), C, p.n)
  BY <1>4, MeasuredIsGiven, GivenTakes DEF IsMeasured
<1>7. /\ Takes(p, Input(p), C, Trimmed(p))
      /\ ~ Longer(p) => Takes(p, Input(p), C, p.n)
  BY <1>1, <1>6, TakesLess
<1>8. p.strategy = "many" => p.inembed = p.n
  BY DEF IsMeasured, Matching
<1>9. p.strategy = "many" => ~ Longer(p)
  BY <1>8, LikeTheInput
<1>10. /\ a["input"] = Input(p) \/ Room(p, a["input"], signals)
       /\ a["output"] = Output(p) \/ Room(p, a["output"], signals)
       /\ Longer(p) => Room(p, a["input_pad"], signals)
  BY DEF PlaneRoom, Owns
<1> HIDE DEF signals, copied
<1> QED BY <1>5, <1>6, <1>7, <1>9, <1>10

LEMMA PlaneFit ==
  ASSUME NEW p, IsMeasured(p), p.kind = "c2c", p.rank = 2, NEW a,
         PlaneRoom(p, a)
  PROVE  LET fit == [a EXCEPT !["input"] =
                       IF Longer(p) THEN a["input_pad"] ELSE a["input"]]
         IN  /\ p.strategy = "many" => ManyRoom(p, fit)
             /\ p.strategy # "many" => TwoLevelRoom(p, fit)
<1> DEFINE in  == IF Longer(p) THEN a["input_pad"] ELSE a["input"]
           fit == [a EXCEPT !["input"] = in]
<1>1. Takes(p, in, C, p.n) /\ Takes(p, a["output"], C, p.n)
  BY PlaneInput
<1> HIDE DEF in
<1>2. fit["input"] = in /\ fit["output"] = a["output"]
  BY DEF PlaneRoom
<1>3. \A x \in DOMAIN a : x # "input" => fit[x] = a[x]
  OBVIOUS
<1> HIDE DEF fit
<1>4. \A x : \A len : Owns(p, a, x, len) /\ x # "input" => Room(p, fit[x], len)
  BY <1>3 DEF Owns
<1>5. /\ p.strategy = "many" => ManyRoom(p, fit)
      /\ p.strategy # "many" => TwoLevelRoom(p, fit)
  BY <1>1, <1>2, <1>4 DEF PlaneRoom, ManyRoom, TwoLevelRoom
<1> QED BY <1>5 DEF fit, in

\* The matmuls of one dimension for the whole batch.
LEMMA MatMulSafe ==
  ASSUME NEW p, IsMeasured(p), p.kind = "c2c", p.rank = 2,
         p.strategy = "many", NEW a, NEW signals,
         signals = C * p.batch * Size(p.n),
         Room(p, a["buffer_out"], 2 * signals),
         NEW along \in {"row", "column"},
         NEW from, Room(p, from, signals), NEW to, Room(p, to, signals),
         NEW v, NEW w
  PROVE  Safe(p, MatMul2d(p, a, along, from, to, v, w))
<1> DEFINE all(at, k, x) == {Holds(at, k * C * p.batch * Size(p.n), x)}
           name  == IF Forwards(p)
                    THEN IF along = "row" THEN "dft_matrix"
                         ELSE "dft_matrix_2d"
                    ELSE IF along = "row" THEN "idft_matrix"
                         ELSE "idft_matrix_2d"
           table == Tables(Tables2d(p), {name})
           parts == Along("parts", w)
           s1 == Stage(table \cup all(from, 1, v),
                       all(a["buffer_out"], 2, parts))
           s2 == Stage(all(a["buffer_out"], 2, parts), all(to, 1, w))
<1>1. MatMul2d(p, a, along, from, to, v, w) = s1 \o s2
  BY DEF MatMul2d
<1>2. Inside(p, table)
  BY ManyTablesSafe
<1>3. /\ 1 * C * p.batch * Size(p.n) = signals
      /\ 2 * C * p.batch * Size(p.n) = 2 * signals
  <2>1. p.batch \in Nat /\ Size(p.n) \in Nat
    BY SizeOf DEF IsMeasured, IsTransform
  <2>2. 1 * C * p.batch = C * p.batch /\ 2 * C * p.batch = 2 * (C * p.batch)
        /\ C * p.batch \in Nat
    BY <2>1 DEF C
  <2> DEFINE b == C * p.batch
  <2>3. 1 * C * p.batch = b /\ 2 * C * p.batch = 2 * b /\ b \in Nat
        /\ signals = b * Size(p.n)
    BY <2>2
  <2> HIDE DEF b
  <2>4. 2 * b * Size(p.n) = 2 * (b * Size(p.n))
    BY <2>1, <2>3
  <2> QED BY <2>3, <2>4
<1> HIDE DEF table, parts, name
<1>4. /\ \A x : Inside(p, all(from, 1, x)) /\ Inside(p, all(to, 1, x))
      /\ \A x : Inside(p, all(a["buffer_out"], 2, x))
  BY <1>3, RoomHolds
<1> HIDE DEF all
<1>5. Safe(p, s1) /\ Safe(p, s2)
  BY <1>2, <1>4, InsideBoth, SafeStage
<1> HIDE DEF s1, s2
<1> QED BY <1>1, <1>5, SafeConcat

\* Both dimensions of the whole batch.
LEMMA ManySafe ==
  ASSUME NEW p, IsMeasured(p), p.kind = "c2c", p.rank = 2,
         p.strategy = "many", NEW a, ManyRoom(p, a)
  PROVE  Safe(p, execMany(p, a))
<1> DEFINE order == IF Forwards(p) THEN <<"row", "column">>
                    ELSE <<"column", "row">>
           x     == Along("strided", Signal(p.n))
           half  == Along(order[1], Signal(p.n))
           y     == Along("strided", Result(p.n))
           first == order[1]
           second == order[2]
           s1 == MatMul2d(p, a, first, a["input"], a["buffer_in"], x, half)
           s2 == MatMul2d(p, a, second, a["buffer_in"], a["output"], half, y)
           signals == C * p.batch * Size(p.n)
<1>1. execMany(p, a) = s1 \o s2
  BY DEF execMany
<1>2. first \in {"row", "column"} /\ second \in {"row", "column"}
  OBVIOUS
<1>3. p.batch \in Nat /\ Size(p.n) \in Nat
  BY SizeOf DEF IsMeasured, IsTransform
<1>4. /\ signals \in Nat /\ C * Count(p, p.n) = signals
      /\ signals <= 2 * signals /\ 2 * signals \in Nat
  <2>1. p.batch * Size(p.n) \in Nat
        /\ C * p.batch * Size(p.n) = 2 * (p.batch * Size(p.n))
        /\ C * (p.batch * Size(p.n)) = 2 * (p.batch * Size(p.n))
    BY <1>3 DEF C
  <2> DEFINE m == p.batch * Size(p.n)
  <2>2. m \in Nat /\ signals = 2 * m /\ C * Count(p, p.n) = 2 * m
    BY <2>1 DEF Count
  <2> HIDE DEF m, signals
  <2> QED BY <2>2
<1> DEFINE padded == C * p.batch * ColumnLen(p) * RowLen(p)
<1>5. padded \in Nat /\ signals <= padded
  <2>1. /\ p.n[1] \in Nat /\ p.n[2] \in Nat
        /\ ColumnLen(p) \in Nat /\ RowLen(p) \in Nat
        /\ p.n[1] <= ColumnLen(p) /\ p.n[2] <= RowLen(p)
        /\ Size(p.n) = p.n[1] * p.n[2]
    BY Lens2d
  <2> DEFINE m == Size(p.n)
             l == ColumnLen(p) * RowLen(p)
             b == C * p.batch
  <2>2. m \in Nat /\ l \in Nat /\ m <= l
    BY <2>1, Grows
  <2>3. b \in Nat
    BY <1>3 DEF C
  <2>4. b * ColumnLen(p) * RowLen(p) = b * l
    <3> HIDE DEF b
    <3> QED BY <2>1, <2>3
  <2>5. padded = b * l /\ signals = b * m
    BY <2>4
  <2> HIDE DEF b, l, m, padded, signals
  <2>6. b * m <= b * l /\ b * l \in Nat
    BY <2>2, <2>3, Grows
  <2> QED BY <2>5, <2>6
<1>6. /\ Room(p, a["buffer_in"], signals) /\ Room(p, a["buffer_out"], 2 * signals)
      /\ Room(p, a["input"], signals) /\ Room(p, a["output"], signals)
  <2>1. Room(p, a["buffer_in"], 2 * padded)
        /\ Room(p, a["buffer_out"], 2 * padded)
    BY DEF ManyRoom
  <2>2. Room(p, a["input"], signals) /\ Room(p, a["output"], signals)
    BY <1>4 DEF ManyRoom, Takes
  <2> HIDE DEF signals, padded
  <2>3. 2 * signals <= 2 * padded /\ signals <= 2 * padded
    BY <1>4, <1>5
  <2> QED BY <1>4, <2>1, <2>2, <2>3, RoomLess
<1>7. signals = C * p.batch * Size(p.n)
  OBVIOUS
<1> HIDE DEF order, first, second, x, half, y, signals
<1>8. Safe(p, s1)
  BY <1>2, <1>6, <1>7, MatMulSafe
<1>9. Safe(p, s2)
  BY <1>2, <1>6, <1>7, MatMulSafe
<1> HIDE DEF s1, s2
<1> QED BY <1>1, <1>8, <1>9, SafeConcat

\* Execution of a complex transform in two dimensions.
LEMMA PlaneSafe ==
  ASSUME NEW p, IsMeasured(p), p.kind = "c2c", p.rank = 2
  PROVE  Safe(p, execFFT2d(p))
<1> DEFINE a     == configureFFT2dWorkspaceAddrs(p)
           many  == p.strategy = "many"
           fit   == [a EXCEPT !["input"] =
                       IF Longer(p) THEN a["input_pad"] ELSE a["input"]]
           y     == Result(p.n)
           inner == \/ p.n = <<1, 1>>
                    \/ /\ \E i \in 1 .. 2 : p.n[i] = 1
                       /\ IF Forwards(p) THEN p.n[1] # 1 ELSE p.n[2] # 1
           unchanged == IF p.n = <<1, 1>> /\ ~ many THEN y ELSE Signal(p.n)
           copies == ~ many /\ ~ (p.inDense /\ ~ Shorter(p))
           s1 == When(copies, CopyIn(p, a["input"], C, Trimmed(p)))
           s2 == When(Longer(p),
                      Fit(p, a["input"], Trimmed(p), a["input_pad"], p.n, C))
           s3 == When(inner, IF many
                    THEN Stage(Strided(p, fit["input"], C, Signal(p.n)),
                               Strided(p, fit["output"], C, unchanged))
                    ELSE Stage(Dense(p, fit["input"], C, Signal(p.n)),
                               Dense(p, fit["output"], C, unchanged)))
           s4 == execMany(p, fit) \o RescaleStrided(p, fit["output"], C, y)
           s5 == execTwoLevel(p, fit) \o Rescale(p, fit["output"], C, y)
                 \o CopyOut(p, fit["output"], C, Scaled(p, y))
<1>1. execFFT2d(p) = s1 \o s2 \o s3 \o (IF many THEN s4 ELSE s5)
  BY DEF execFFT2d
<1>2. PlaneRoom(p, a)
  BY PlaneAgree
<1>3. /\ many => ManyRoom(p, fit)
      /\ ~ many => TwoLevelRoom(p, fit)
  BY <1>2, PlaneFit
<1>4. Takes(p, fit["input"], C, p.n) /\ Takes(p, fit["output"], C, p.n)
  BY <1>3 DEF ManyRoom, TwoLevelRoom
<1>5. /\ Takes(p, a["input"], C, Trimmed(p))
      /\ Longer(p) => Takes(p, a["input_pad"], C, p.n)
  BY <1>2, PlaneInput
<1>6. InUnit(p) = C /\ OutUnit(p) = C /\ p.onembed = p.n
  BY DEF InUnit, OutUnit, IsMeasured
<1>7. Signal(p.n).dims = p.n /\ unchanged.dims = p.n
  BY DEF Signal, Result, Value
<1>8. IsGiven(p)
  BY MeasuredIsGiven
<1> HIDE DEF a, fit, copies, inner, unchanged, many
<1>9. Safe(p, s1)
  BY <1>5, <1>6, <1>8, SafeCopyIn, SafeWhen
<1>10. Safe(p, s2)
  BY <1>5, SafeFit, SafeWhen
<1>11. Safe(p, s3)
  <2>1. /\ Inside(p, Strided(p, fit["input"], C, Signal(p.n)))
        /\ Inside(p, Dense(p, fit["input"], C, Signal(p.n)))
    BY <1>4, <1>7, InsideSignals
  <2>2. /\ Inside(p, Strided(p, fit["output"], C, unchanged))
        /\ Inside(p, Dense(p, fit["output"], C, unchanged))
    BY <1>4, <1>7, InsideSignals
  <2> QED BY <2>1, <2>2, SafeStage, SafeWhen
<1>12. /\ Safe(p, RescaleStrided(p, fit["output"], C, y))
       /\ Safe(p, Rescale(p, fit["output"], C, y))
  BY <1>4, SafeRescale
<1>13. Safe(p, CopyOut(p, fit["output"], C, Scaled(p, y)))
  <2>1. y = Result(p.onembed)
    BY <1>6
  <2> HIDE DEF y
  <2> QED BY <1>4, <1>6, <1>8, <2>1, SafeCopyOut
<1>14. many => Safe(p, execMany(p, fit))
  BY <1>3, ManySafe DEF many
<1>15. ~ many => Safe(p, execTwoLevel(p, fit))
  BY <1>3, TwoLevelSafe DEF many
<1> HIDE DEF y, s1, s2, s3
<1>16. Safe(p, IF many THEN s4 ELSE s5)
  BY <1>12, <1>13, <1>14, <1>15, SafeConcat
<1> HIDE DEF s4, s5
<1> QED BY <1>1, <1>9, <1>10, <1>11, <1>16, SafeConcat

-----------------------------------------------------------------------------
(* Real to complex, one dimension.                                         *)

\* A matmul branch of the real kinds: one layout from the start of the
\* workspace, and one backwards from its end.
LEMMA TwoLayouts ==
  ASSUME NEW p, NEW head, NEW X, NEW T, NEW tail, NEW Y, NEW U, NEW L, NEW W,
         Fill(head, X, L, T), Fill(tail, Y, L, U), W = Sizes(p).workspace,
         W \in Nat, T <= W, U <= W, X \cap Y = {},
         {"input_contiguous", "input_pad"} \cap Y = {},
         "output_contiguous" \notin X
  PROVE  LET full == With(Forward(Workspace, head),
                          [input_contiguous |-> Input(p)])
             rest == [input_pad |-> full["input_contiguous"],
                      output_contiguous |-> Output(p)]
             back == Backward(Move(Workspace, W), tail)
             a    == With(With(back, full), rest)
         IN  /\ X \cup Y \subseteq DOMAIN a
             /\ \A x \in X : Room(p, a[x], L[x] + (W - T))
             /\ \A x \in Y : Room(p, a[x], L[x]) /\ a[x] = back[x]
             /\ "input_contiguous" \notin X => a["input_contiguous"] = Input(p)
             /\ "input_pad" \notin X => a["input_pad"] = a["input_contiguous"]
             /\ "output_contiguous" \notin Y =>
                  a["output_contiguous"] = Output(p)
<1> DEFINE front == Forward(Workspace, head)
           back  == Backward(Move(Workspace, W), tail)
           full  == With(front, [input_contiguous |-> Input(p)])
           rest  == [input_pad |-> full["input_contiguous"],
                     output_contiguous |-> Output(p)]
           a     == With(With(back, full), rest)
<1>1. DOMAIN front = X /\ \A x \in X : Room(p, front[x], L[x] + (W - T))
  BY RoomForward
<1>2. DOMAIN back = Y /\ \A x \in Y : Room(p, back[x], L[x])
  BY RoomBackward
<1> HIDE DEF front, back
<1>3. /\ X \cup Y \subseteq DOMAIN a
      /\ \A x \in Y : a[x] = back[x]
      /\ \A x \in X : a[x] = front[x]
      /\ "input_contiguous" \notin X => a["input_contiguous"] = Input(p)
      /\ "input_pad" \notin X => a["input_pad"] = a["input_contiguous"]
      /\ "output_contiguous" \notin Y => a["output_contiguous"] = Output(p)
  BY <1>1, <1>2, MatmulFields
<1> HIDE DEF a
<1>4. /\ \A x \in X : Room(p, a[x], L[x] + (W - T))
      /\ \A x \in Y : Room(p, a[x], L[x])
  BY <1>1, <1>2, <1>3
<1> QED BY <1>3, <1>4 DEF a, rest, full, front, back

\* What the branch has room for behind each of its addresses.
RealMatmulRoom(p, a) ==
  LET signals == R * p.batch * p.n[1]
  IN /\ Room(p, a["internal"], p.internal)
     /\ p.strategy # "matmul" => /\ Room(p, a["input_transed"], signals)
                                 /\ Room(p, a["re_mul_im"], signals)
                                 /\ Room(p, a["re_mul_re"], 2 * signals)
     /\ Takes(p, a["output_contiguous"], C, p.onembed)
     /\ Takes(p, a["input_contiguous"], R, p.inembed)
     /\ Takes(p, a["input_pad"], R, p.n)

\* makeRFFT1dPolicy and configureRFFT1dMatmulWorkspaceAddrs agree.
LEMMA RealMatmulAgree ==
  ASSUME NEW p, IsMeasured(p), p.kind = "r2c", p.rank = 1, p.prime
  PROVE  RealMatmulRoom(p, configureRFFT1dMatmulWorkspaceAddrs(p))
<1> DEFINE signals == R * p.batch * p.n[1]
           two    == 2 * signals
           in     == R * p.batch * p.inembed[1]
           out    == C * p.batch * p.onembed[1]
           inner  == p.internal
           parted == ~ (p.strategy = "matmul")
           copied == ~ p.inDense
           padded == p.n # p.inembed
           given  == ~ p.outDense
           L == [input_contiguous |-> in, input_pad |-> signals,
                 input_transed |-> signals, internal |-> inner,
                 output_contiguous |-> out, re_mul_im |-> signals,
                 re_mul_re |-> signals]
           M == [in |-> in, pad |-> signals, trans |-> signals,
                 products |-> two, out |-> out]
           sizes == When(copied, Buffer("in", in))
                    \o When(padded, Buffer("pad", signals))
                    \o When(parted, Buffer("trans", signals)
                                    \o Buffer("products", two))
                    \o When(given, Buffer("out", out))
           head  == When(copied, Buffer("input_contiguous", in))
                    \o When(padded, Buffer("input_pad", signals))
                    \o When(parted, Buffer("input_transed", signals))
           X     == (IF copied THEN {"input_contiguous"} ELSE {})
                    \cup (IF padded THEN {"input_pad"} ELSE {})
                    \cup (IF parted THEN {"input_transed"} ELSE {})
           T     == (IF copied THEN in ELSE 0) + (IF padded THEN signals ELSE 0)
                    + (IF parted THEN signals ELSE 0)
           first == Buffer("internal", inner)
                    \o When(given, Buffer("output_contiguous", out))
           firstNames == {"internal"}
                         \cup (IF given THEN {"output_contiguous"} ELSE {})
           firstLen   == inner + (IF given THEN out ELSE 0)
           then  == When(parted, Buffer("re_mul_im", signals)
                                 \o Buffer("re_mul_re", signals))
           thenNames == IF parted THEN {"re_mul_im"} \cup {"re_mul_re"} ELSE {}
           thenLen   == IF parted THEN signals + signals ELSE 0
           Y     == firstNames \cup thenNames
           W     == Sizes(p).workspace
           front == Forward(Workspace, head)
           back  == Backward(Move(Workspace, W), first \o then)
           full  == With(front, [input_contiguous |-> Input(p)])
           rest  == [input_pad |-> full["input_contiguous"],
                     output_contiguous |-> Output(p)]
           a     == With(With(back, full), rest)
<1>1. configureRFFT1dMatmulWorkspaceAddrs(p) = a
  BY DEF configureRFFT1dMatmulWorkspaceAddrs, Sizes
<1>2. /\ p.n \in Dims(1) /\ p.inembed \in Dims(1) /\ p.onembed \in Dims(1)
      /\ p.onembed = HalfDims(p.n) /\ p.onembed[1] = Half(p.n[1])
      /\ p.batch \in Nat /\ p.n[1] \in Nat /\ p.inembed[1] \in Nat
      /\ p.onembed[1] \in Nat /\ inner \in Nat
      /\ parted => two <= inner
  <2>1. 1 \in 1 .. 1
    OBVIOUS
  <2>2. /\ p.n \in Dims(1) /\ p.inembed \in Dims(1) /\ p.batch \in Nat
        /\ p.onembed = HalfDims(p.n) /\ inner \in Nat
    BY DEF IsMeasured, IsTransform
  <2>3. p.onembed \in Dims(1) /\ p.onembed[1] = Half(p.n[1])
    BY <2>1, <2>2, Halves2
  <2>4. p.n[1] \in Nat /\ p.inembed[1] \in Nat /\ p.onembed[1] \in Nat
    BY <2>1, <2>2, <2>3, SizeOf
  <2>5. parted => 2 * R * p.batch * p.n[1] <= inner
    BY DEF IsMeasured
  <2>6. 2 * R * p.batch * p.n[1] = two
    BY <2>2, <2>4 DEF R
  <2> QED BY <2>2, <2>3, <2>4, <2>5, <2>6
<1>3. /\ signals \in Nat /\ two = signals + signals /\ in \in Nat
      /\ out \in Nat /\ two \in Nat
  BY <1>2 DEF R, C
<1>4. W = Length(sizes) + inner
  BY <1>2 DEF Sizes, R2CSizes, makeRFFT1dPolicy
<1>5. /\ L["input_contiguous"] = in /\ L["input_pad"] = signals
      /\ L["input_transed"] = signals /\ L["internal"] = inner
      /\ L["output_contiguous"] = out /\ L["re_mul_im"] = signals
      /\ L["re_mul_re"] = signals
  OBVIOUS
<1>6. /\ M["in"] = in /\ M["pad"] = signals /\ M["trans"] = signals
      /\ M["products"] = two /\ M["out"] = out
  OBVIOUS
<1>7. W = Sizes(p).workspace
  OBVIOUS
<1> HIDE DEF signals, two, in, out, inner, parted, copied, padded, given, L, M,
             W
<1>8. W = (IF copied THEN in ELSE 0) + (IF padded THEN signals ELSE 0)
          + (IF parted THEN signals + two ELSE 0)
          + (IF given THEN out ELSE 0) + inner
  <2>1. /\ Fill(Buffer("in", in), {"in"}, M, in)
        /\ Fill(Buffer("pad", signals), {"pad"}, M, signals)
        /\ Fill(Buffer("trans", signals), {"trans"}, M, signals)
        /\ Fill(Buffer("products", two), {"products"}, M, two)
        /\ Fill(Buffer("out", out), {"out"}, M, out)
    BY <1>3, <1>6, FillBuffer
  <2>2. Fill(sizes, (IF copied THEN {"in"} ELSE {})
                    \cup (IF padded THEN {"pad"} ELSE {})
                    \cup (IF parted THEN {"trans"} \cup {"products"} ELSE {})
                    \cup (IF given THEN {"out"} ELSE {}),
             M, (IF copied THEN in ELSE 0) + (IF padded THEN signals ELSE 0)
                + (IF parted THEN signals + two ELSE 0)
                + (IF given THEN out ELSE 0))
    BY ZenonT(40), <2>1, FillWhen, FillConcat
  <2> HIDE DEF sizes
  <2>3. Length(sizes) = (IF copied THEN in ELSE 0)
                        + (IF padded THEN signals ELSE 0)
                        + (IF parted THEN signals + two ELSE 0)
                        + (IF given THEN out ELSE 0)
    BY <2>2 DEF Fill
  <2> QED BY <1>4, <2>3
<1>9. /\ Fill(Buffer("input_contiguous", in), {"input_contiguous"}, L, in)
      /\ Fill(Buffer("input_pad", signals), {"input_pad"}, L, signals)
      /\ Fill(Buffer("input_transed", signals), {"input_transed"}, L, signals)
      /\ Fill(Buffer("internal", inner), {"internal"}, L, inner)
      /\ Fill(Buffer("output_contiguous", out), {"output_contiguous"}, L, out)
      /\ Fill(Buffer("re_mul_im", signals), {"re_mul_im"}, L, signals)
      /\ Fill(Buffer("re_mul_re", signals), {"re_mul_re"}, L, signals)
  BY <1>2, <1>3, <1>5, FillBuffer
<1>10. Fill(head, X, L, T)
  BY <1>9, FillWhen, FillConcat
<1>11. Fill(first, firstNames, L, firstLen) /\ Fill(then, thenNames, L, thenLen)
  BY <1>9, FillWhen, FillConcat
<1>12. /\ W \in Nat /\ T \in Nat /\ firstLen \in Nat /\ thenLen \in Nat
       /\ T <= W /\ firstLen + thenLen <= W
       /\ parted => two <= firstLen + signals
       /\ firstLen + signals \in Nat
  BY <1>2, <1>3, <1>8
<1>13. /\ X \cap Y = {}
       /\ {"input_contiguous", "input_pad"} \cap Y = {}
       /\ "output_contiguous" \notin X
       /\ "re_mul_re" \notin firstNames
       /\ parted => "re_mul_re" \in thenNames
       /\ "input_contiguous" \in X <=> copied
       /\ "input_pad" \in X <=> padded
       /\ "output_contiguous" \in Y <=> given
       /\ parted => /\ "input_transed" \in X
                    /\ {"re_mul_im", "re_mul_re"} \subseteq Y
       /\ "internal" \in Y
  OBVIOUS
<1> HIDE DEF head, X, T, first, firstNames, firstLen, then, thenNames, thenLen
<1>14. Fill(first \o then, Y, L, firstLen + thenLen)
  BY <1>11, FillConcat
<1> HIDE DEF Y
<1>15. /\ \A x \in X : Room(p, a[x], L[x] + (W - T))
       /\ \A x \in Y : Room(p, a[x], L[x]) /\ a[x] = back[x]
       /\ "input_contiguous" \notin X => a["input_contiguous"] = Input(p)
       /\ "input_pad" \notin X => a["input_pad"] = a["input_contiguous"]
       /\ "output_contiguous" \notin Y => a["output_contiguous"] = Output(p)
  BY <1>7, <1>10, <1>12, <1>13, <1>14, TwoLayouts
<1>16. parted => Room(p, back["re_mul_re"], firstLen + signals)
  <2> SUFFICES ASSUME parted
               PROVE  Room(p, back["re_mul_re"], firstLen + signals)
    OBVIOUS
  <2>1. Room(p, Backward(Move(Workspace, Sizes(p).workspace),
                         first \o then)["re_mul_re"],
             firstLen + L["re_mul_re"])
    BY <1>7, <1>11, <1>12, <1>13, RoomBehind
  <2> QED BY <1>5, <1>7, <2>1
<1> HIDE DEF a, back
<1>17. /\ Room(p, a["internal"], inner)
       /\ given => Room(p, a["output_contiguous"], out)
       /\ ~ given => a["output_contiguous"] = Output(p)
       /\ parted => Room(p, a["re_mul_im"], signals)
       /\ parted => Room(p, a["re_mul_re"], two)
  <2>1. parted => Room(p, a["re_mul_re"], firstLen + signals)
    BY <1>13, <1>15, <1>16
  <2>2. parted => Room(p, a["re_mul_re"], two)
    BY <1>3, <1>12, <2>1, RoomLess
  <2> QED BY <1>5, <1>13, <1>15, <2>2
<1>18. ASSUME NEW x \in X, L[x] \in Nat PROVE Room(p, a[x], L[x])
  <2>1. L[x] <= L[x] + (W - T)
    BY <1>12, <1>18
  <2> QED BY <1>15, <1>18, <2>1, RoomLess
<1>19. /\ copied => Room(p, a["input_contiguous"], in)
       /\ padded => Room(p, a["input_pad"], signals)
       /\ parted => Room(p, a["input_transed"], signals)
       /\ ~ copied => a["input_contiguous"] = Input(p)
       /\ ~ padded => a["input_pad"] = a["input_contiguous"]
  BY <1>3, <1>5, <1>13, <1>15, <1>18
<1>20. /\ IsGiven(p) /\ C \in Units /\ R \in Units
       /\ InUnit(p) = R /\ OutUnit(p) = C
  BY MeasuredIsGiven DEF InUnit, OutUnit, Units
<1>21. Takes(p, Input(p), R, p.inembed) /\ Takes(p, Output(p), C, p.onembed)
  BY <1>20, GivenTakes
<1>22. /\ p.inembed[1] <= p.inembed[1] /\ p.n[1] <= p.n[1]
       /\ p.onembed[1] <= p.onembed[1]
  BY <1>2
<1>23. Takes(p, a["input_contiguous"], R, p.inembed)
  BY <1>2, <1>19, <1>20, <1>21, <1>22, BufferTakes DEF in
<1>24. Takes(p, a["output_contiguous"], C, p.onembed)
  BY <1>2, <1>17, <1>20, <1>21, <1>22, BufferTakes DEF out
<1>25. Takes(p, a["input_pad"], R, p.n)
  <2>1. CASE padded
    BY <1>2, <1>19, <1>20, <1>22, <2>1, BufferTakes DEF signals
  <2>2. CASE ~ padded
    BY <1>19, <1>23, <2>2 DEF padded
  <2> QED BY <2>1, <2>2
<1>26. a = configureRFFT1dMatmulWorkspaceAddrs(p)
  BY <1>1 DEF a, back
<1> QED BY <1>17, <1>19, <1>23, <1>24, <1>25, <1>26
        DEF RealMatmulRoom, signals, two, inner, parted

\* The matrices of the real kinds, which a kernel makes.
LEMMA HalfMatrices ==
  ASSUME NEW p, NEW whole \in Nat, NEW square \in Nat, NEW matmul, NEW W,
         W = Sizes(p).reserve, W = IF matmul THEN whole ELSE square + square
  PROVE  LET s == IF matmul THEN Buffer("dft", whole)
                  ELSE Buffer("dft_re", square) \o Buffer("dft_im", square)
         IN  /\ matmul => Inside(p, Tables(s, {"dft"}))
             /\ ~ matmul => \A names \in SUBSET {"dft_re", "dft_im"} :
                              Inside(p, Tables(s, names))
             /\ Safe(p, Stage({}, Tables(s, Names(s))))
<1> DEFINE one == Buffer("dft", whole)
           two == Buffer("dft_re", square) \o Buffer("dft_im", square)
           s   == IF matmul THEN one ELSE two
           L   == [dft |-> whole, dft_re |-> square, dft_im |-> square]
           X   == IF matmul THEN {"dft"} ELSE {"dft_re"} \cup {"dft_im"}
           T   == IF matmul THEN whole ELSE square + square
<1>1. L["dft"] = whole /\ L["dft_re"] = square /\ L["dft_im"] = square
  OBVIOUS
<1> HIDE DEF L
<1>2. /\ Fill(Buffer("dft", whole), {"dft"}, L, whole)
      /\ Fill(Buffer("dft_re", square), {"dft_re"}, L, square)
      /\ Fill(Buffer("dft_im", square), {"dft_im"}, L, square)
  BY <1>1, FillBuffer
<1>3. /\ Fill(one, {"dft"}, L, whole)
      /\ Fill(two, {"dft_re"} \cup {"dft_im"}, L, square + square)
  BY <1>2, FillConcat
<1> HIDE DEF one, two
<1>4. Fill(s, X, L, T)
  BY <1>3
<1>5. W \in Nat /\ T <= W
  OBVIOUS
<1>6. /\ matmul => {"dft"} \in SUBSET X
      /\ ~ matmul => SUBSET {"dft_re", "dft_im"} \subseteq SUBSET X
  OBVIOUS
<1> HIDE DEF s, X, T
<1>7. \A names \in SUBSET X : Inside(p, Tables(s, names))
  BY <1>4, <1>5, TablesFit
<1>8. Names(s) \in SUBSET X
  BY <1>4 DEF Fill
<1>9. Safe(p, Stage({}, Tables(s, Names(s))))
  BY <1>7, <1>8, InsideNone, SafeStage
<1> QED BY <1>6, <1>7, <1>9 DEF s, one, two

LEMMA HalfDftSafe ==
  ASSUME NEW p, IsMeasured(p), p.kind = "r2c", p.rank = 1, p.prime
  PROVE  /\ p.strategy = "matmul" =>
              Inside(p, Tables(HalfDftMatrices(p), {"dft"}))
         /\ p.strategy # "matmul" =>
              \A names \in SUBSET {"dft_re", "dft_im"} :
                Inside(p, Tables(HalfDftMatrices(p), names))
         /\ Safe(p, setRFFT1dReserveArea(p))
<1> DEFINE whole  == R * Half(p.n[1]) * 2 * p.n[1]
           square == R * p.L * p.L
           matmul == p.strategy = "matmul"
           W      == Sizes(p).reserve
           s      == IF matmul THEN Buffer("dft", whole)
                     ELSE Buffer("dft_re", square) \o Buffer("dft_im", square)
<1>1. whole \in Nat /\ square \in Nat /\ 2 * R * p.L * p.L = square + square
  <2>1. p.n[1] \in Nat /\ p.L \in Nat
    BY SizeOf DEF IsMeasured, IsTransform
  <2>2. Half(p.n[1]) \in Nat
    BY <2>1 DEF Half
  <2>3. square \in Nat /\ 2 * R * p.L * p.L = square + square
    BY <2>1 DEF R
  <2>4. whole \in Nat
    BY <2>1, <2>2 DEF R
  <2> QED BY <2>3, <2>4
<1>2. W = IF matmul THEN whole ELSE square + square
  BY <1>1 DEF Sizes, R2CSizes, makeRFFT1dPolicy
<1>3. HalfDftMatrices(p) = s
  BY DEF HalfDftMatrices
<1> HIDE DEF whole, square, matmul, W
<1>4. /\ matmul => Inside(p, Tables(s, {"dft"}))
      /\ ~ matmul => \A names \in SUBSET {"dft_re", "dft_im"} :
                       Inside(p, Tables(s, names))
      /\ Safe(p, Stage({}, Tables(s, Names(s))))
  BY <1>1, <1>2, HalfMatrices DEF W
<1> HIDE DEF s
<1> QED BY <1>3, <1>4 DEF setRFFT1dReserveArea, matmul

\* And the tables of their butterflies.
LEMMA RealTablesSafe ==
  ASSUME NEW p, IsMeasured(p), p.kind \in {"r2c", "c2r"}, p.rank = 1,
         ~ p.prime
  PROVE  /\ Inside(p, Tables(RealTables1d(p, 2 * C * p.n[1]),
                             {"factors", "twiddles", "dft_matrix"}))
         /\ Safe(p, CopyTables(RealTables1d(p, 2 * C * p.n[1])))
<1> DEFINE len == 2 * C * p.n[1]
           L   == [twiddles |-> len, dft_matrix |-> DftTable,
                   factors |-> FactorTable]
           s   == Buffer("twiddles", len) \o Buffer("dft_matrix", DftTable)
                  \o Buffer("factors", FactorTable)
           X   == {"twiddles"} \cup {"dft_matrix"} \cup {"factors"}
           W   == Sizes(p).reserve
<1>1. /\ len \in Nat /\ DftTable \in Nat /\ FactorTable \in Nat
      /\ 2 * (2 * R * p.n[1]) = len /\ 2 * (2 * C * p.n[1]) = 2 * len
  <2>1. p.n[1] \in Nat
    BY SizeOf DEF IsMeasured, IsTransform
  <2> QED BY <2>1, SizesAreNat DEF R, C
<1>2. W = FactorTable + len + 2 * DftTable \/
      W = FactorTable + 2 * len + 2 * DftTable
  <2>1. CASE p.kind = "r2c"
    BY <1>1, <2>1 DEF Sizes, R2CSizes, AllocateR2C1D
  <2>2. CASE p.kind = "c2r"
    BY <1>1, <2>2 DEF Sizes, C2RSizes, AllocateC2R1D
  <2> QED BY <2>1, <2>2
<1>3. s = RealTables1d(p, 2 * C * p.n[1])
  BY DEF RealTables1d
<1>4. /\ L["twiddles"] = len /\ L["dft_matrix"] = DftTable
      /\ L["factors"] = FactorTable
  OBVIOUS
<1> HIDE DEF L, len, W
<1>5. Fill(s, X, L, len + DftTable + FactorTable)
  <2>1. /\ Fill(Buffer("twiddles", len), {"twiddles"}, L, len)
        /\ Fill(Buffer("dft_matrix", DftTable), {"dft_matrix"}, L, DftTable)
        /\ Fill(Buffer("factors", FactorTable), {"factors"}, L, FactorTable)
    BY <1>1, <1>4, FillBuffer
  <2> QED BY <2>1, FillConcat
<1>6. {"factors", "twiddles", "dft_matrix"} \in SUBSET X
  OBVIOUS
<1>7. W \in Nat /\ len + DftTable + FactorTable <= W
  BY <1>1, <1>2
<1> HIDE DEF s, X
<1>8. /\ \A names \in SUBSET X : Inside(p, Tables(s, names))
      /\ Safe(p, CopyTables(s))
  BY <1>5, <1>7, TablesFit DEF W
<1> QED BY <1>3, <1>6, <1>8

\* Transposing, multiplying and merging real signals.
LEMMA RealProductsSafe ==
  ASSUME NEW p, IsMeasured(p), p.kind = "r2c", p.rank = 1, p.prime, NEW a,
         RealMatmulRoom(p, a)
  PROVE  /\ Safe(p, transposeRFFT1dPaddedInput(p, a))
         /\ Safe(p, computeRFFT1dMatmulResult(p, a))
         /\ Safe(p, mergeRFFT1dOutput(p, a))
<1> DEFINE signals == R * p.batch * p.n[1]
           used == Scratch(a["internal"], CnnlSpace)
           room == Scratch(a["internal"], 2 * R * p.batch * p.n[1])
           x    == Dense(p, a["input_pad"], R, Signal(p.n))
           y    == Dense(p, a["output_contiguous"], C,
                         Scaled(p, HalfResult(p)))
           all  == {Holds(a["re_mul_re"], 2 * R * p.batch * p.n[1],
                          Part(p, "products"))}
           transed == Reals(p, a["input_transed"], Part(p, "x by L"))
           part(w) == Reals(p, a[ProductOf["re"][w]],
                            Scaled(p, Part(p, "x*" \o w)))
           matrix(names) == Tables(HalfDftMatrices(p), names)
<1>1. p.strategy \in MatmulStrategies /\ p.onembed = HalfDims(p.n)
  BY DEF IsMeasured, IsTransform
<1>2. Inside(p, used) /\ (p.strategy # "matmul" => Inside(p, room))
  BY InternalRoom DEF RealMatmulRoom
<1>3. Inside(p, x) /\ Inside(p, y)
  <2>1. Signal(p.n).dims = p.n
    BY DEF Signal, Value
  <2>2. HalfResult(p) = Value("y", p.onembed)
    BY <1>1 DEF HalfResult, Result
  <2>3. Scaled(p, HalfResult(p)).dims = p.onembed
    BY <2>2, ValueDims
  <2> QED BY <2>1, <2>3, InsideSignals DEF RealMatmulRoom
<1>4. p.strategy # "matmul" =>
        Inside(p, all) /\ Inside(p, transed) /\ \A w \in {"re", "im"} :
                                                  Inside(p, part(w))
  <2> SUFFICES ASSUME p.strategy # "matmul"
               PROVE  /\ Inside(p, all) /\ Inside(p, transed)
                      /\ \A w \in {"re", "im"} : Inside(p, part(w))
    OBVIOUS
  <2>1. /\ Room(p, a["input_transed"], signals)
        /\ Room(p, a["re_mul_im"], signals)
        /\ Room(p, a["re_mul_re"], 2 * signals)
    BY DEF RealMatmulRoom
  <2>2. /\ 2 * R * p.batch * p.n[1] = 2 * signals
        /\ signals <= 2 * signals /\ signals \in Nat
    <3>1. p.batch \in Nat /\ p.n[1] \in Nat
      BY SizeOf DEF IsMeasured, IsTransform
    <3>2. signals \in Nat /\ 2 * R * p.batch * p.n[1] = 2 * signals
      BY <3>1 DEF R
    <3> HIDE DEF signals
    <3> QED BY <3>2
  <2>3. Room(p, a["re_mul_re"], signals)
    BY <2>1, <2>2, RoomLess
  <2>4. Inside(p, all)
    BY <2>1, <2>2, RoomHolds
  <2>5. Inside(p, transed)
    BY <2>1, InsideReals
  <2>6. ProductOf["re"]["re"] = "re_mul_re" /\ ProductOf["re"]["im"] = "re_mul_im"
    BY DEF ProductOf
  <2>7. ASSUME NEW w \in {"re", "im"} PROVE Inside(p, part(w))
    <3>1. Room(p, a[ProductOf["re"][w]], signals)
      BY <2>1, <2>3, <2>6
    <3> QED BY <3>1, InsideReals
  <2> HIDE DEF all, transed, part
  <2> QED BY <2>4, <2>5, <2>7
<1>5. /\ p.strategy = "matmul" => Inside(p, matrix({"dft"}))
      /\ p.strategy # "matmul" => /\ Inside(p, matrix({"dft_re", "dft_im"}))
                                  /\ Inside(p, matrix({"dft_re"}))
                                  /\ Inside(p, matrix({"dft_im"}))
  BY HalfDftSafe
<1>6. Safe(p, transposeRFFT1dPaddedInput(p, a))
  <2>1. transposeRFFT1dPaddedInput(p, a) =
          When(p.strategy = "cooley", Stage(x, used \cup transed))
    BY DEF transposeRFFT1dPaddedInput
  <2> HIDE DEF x, used, transed, room, y, all, part
  <2>2. p.strategy = "cooley" => Inside(p, transed)
    BY <1>4
  <2>3. p.strategy = "cooley" => Inside(p, used \cup transed)
    BY <1>2, <2>2, InsideBoth
  <2>4. p.strategy = "cooley" => Safe(p, Stage(x, used \cup transed))
    BY <1>3, <2>3, SafeStage
  <2> QED BY <2>1, <2>4, SafeNothing DEF When
<1>7. Safe(p, computeRFFT1dMatmulResult(p, a))
  <2>1. CASE p.strategy = "matmul"
    <3>1. computeRFFT1dMatmulResult(p, a) =
            Stage(x \cup matrix({"dft"}), used \cup y)
      BY <2>1 DEF computeRFFT1dMatmulResult
    <3> HIDE DEF x, used, matrix, y
    <3> QED BY <1>2, <1>3, <1>5, <2>1, <3>1, InsideBoth, SafeStage
  <2>2. CASE p.strategy = "cooley"
    <3>1. computeRFFT1dMatmulResult(p, a) =
            Stage(transed \cup matrix({"dft_re"}), used \cup part("re"))
            \o Stage(transed \cup matrix({"dft_im"}), used \cup part("im"))
      BY <2>2 DEF computeRFFT1dMatmulResult, MatrixOf
    <3> HIDE DEF used, matrix, transed, part
    <3> QED BY <1>2, <1>4, <1>5, <2>2, <3>1, InsideBoth, SafeStage, SafeConcat
  <2>3. CASE p.strategy = "stockham"
    <3>1. computeRFFT1dMatmulResult(p, a) =
            Stage(x \cup matrix({"dft_re", "dft_im"}), used \cup all)
      BY <2>3 DEF computeRFFT1dMatmulResult
    <3> HIDE DEF x, used, matrix, all
    <3> QED BY <1>2, <1>3, <1>4, <1>5, <2>3, <3>1, InsideBoth, SafeStage
  <2> QED BY <1>1, <2>1, <2>2, <2>3 DEF MatmulStrategies
<1>8. Safe(p, mergeRFFT1dOutput(p, a))
  <2>1. CASE p.strategy = "matmul"
    BY <2>1, SafeNothing DEF mergeRFFT1dOutput
  <2>2. CASE p.strategy = "cooley"
    <3>1. mergeRFFT1dOutput(p, a) =
            Stage(part("re") \cup part("im"), room \cup y)
      BY <2>2 DEF mergeRFFT1dOutput
    <3> HIDE DEF room, y, part
    <3> QED BY <1>2, <1>3, <1>4, <2>2, <3>1, InsideBoth, SafeStage
  <2>3. CASE p.strategy = "stockham"
    <3>1. mergeRFFT1dOutput(p, a) = Stage(all, room \cup y)
      BY <2>3 DEF mergeRFFT1dOutput
    <3> HIDE DEF room, y, all
    <3> QED BY <1>2, <1>3, <1>4, <2>3, <3>1, InsideBoth, SafeStage
  <2> QED BY <1>1, <2>1, <2>2, <2>3 DEF MatmulStrategies
<1> QED BY <1>6, <1>7, <1>8

\* Execution of a real transform by matrix products.
LEMMA RealMatmulSafe ==
  ASSUME NEW p, IsMeasured(p), p.kind = "r2c", p.rank = 1, p.prime
  PROVE  Safe(p, execRFFTMatmul1d(p))
<1> DEFINE a  == configureRFFT1dMatmulWorkspaceAddrs(p)
           s1 == When(~ p.inDense,
                      CopyIn(p, a["input_contiguous"], R, p.inembed))
           s2 == When(p.n # p.inembed,
                      Fit(p, a["input_contiguous"], p.inembed,
                          a["input_pad"], p.n, R))
           s3 == transposeRFFT1dPaddedInput(p, a)
           s4 == computeRFFT1dMatmulResult(p, a)
           s5 == mergeRFFT1dOutput(p, a)
           s6 == CopyOut(p, a["output_contiguous"], C,
                         Scaled(p, HalfResult(p)))
<1>1. execRFFTMatmul1d(p) = s1 \o s2 \o s3 \o s4 \o s5 \o s6
  BY DEF execRFFTMatmul1d
<1>2. RealMatmulRoom(p, a)
  BY RealMatmulAgree
<1> HIDE DEF a
<1>3. /\ IsGiven(p) /\ R = InUnit(p) /\ C = OutUnit(p)
      /\ HalfResult(p) = Result(p.onembed)
  BY MeasuredIsGiven DEF IsMeasured, InUnit, OutUnit, HalfResult
<1>4. /\ Takes(p, a["output_contiguous"], C, p.onembed)
      /\ Takes(p, a["input_contiguous"], R, p.inembed)
      /\ Takes(p, a["input_pad"], R, p.n)
  BY <1>2 DEF RealMatmulRoom
<1>5. Safe(p, s1) /\ Safe(p, s2)
  BY <1>3, <1>4, SafeCopyIn, SafeFit, SafeWhen
<1>6. Safe(p, s3) /\ Safe(p, s4) /\ Safe(p, s5)
  BY <1>2, RealProductsSafe
<1>7. Safe(p, s6)
  BY <1>3, <1>4, SafeCopyOut
<1> HIDE DEF s1, s2, s3, s4, s5, s6
<1> QED BY <1>1, <1>5, <1>6, <1>7, SafeConcat

\* A layout whose last buffer, for the padded input, is given an address and
\* no length: what the workspace has more is behind it.
LEMMA PadLast ==
  ASSUME NEW p, NEW most, NEW X, NEW L, NEW U, Fill(most, X, L, U),
         L["input_pad"] = 0, "input_pad" \notin X, NEW pad, NEW W,
         W = Sizes(p).workspace, W \in Nat, U \in Nat, U <= W
  PROVE  LET parts == most \o When(pad, Buffer("input_pad", 0))
             a     == With(Forward(Workspace, parts),
                           [input |-> Input(p), output |-> Output(p)])
         IN  /\ \A x \in X : L[x] \in Nat => Room(p, a[x], L[x])
             /\ pad => \A len \in Nat :
                         U + len <= W => Room(p, a["input_pad"], len)
             /\ "input" \notin X => a["input"] = Input(p)
             /\ "output" \notin X => a["output"] = Output(p)
<1> DEFINE last  == When(pad, Buffer("input_pad", 0))
           Y     == IF pad THEN {"input_pad"} ELSE {}
           V     == IF pad THEN 0 ELSE 0
           parts == most \o last
           rest  == [input |-> Input(p), output |-> Output(p)]
           a     == With(Forward(Workspace, parts), rest)
<1>1. Fill(last, Y, L, V)
  <2>1. Fill(Buffer("input_pad", 0), {"input_pad"}, L, 0)
    BY FillBuffer
  <2> QED BY <2>1, FillWhen
<1>2. Fill(parts, X \cup Y, L, U + V)
  <2> HIDE DEF last, Y, V
  <2> QED BY <1>1, FillConcat
<1>3. U + V = U
  OBVIOUS
<1>4. /\ {"input", "output"} \subseteq DOMAIN rest
      /\ rest["input"] = Input(p) /\ rest["output"] = Output(p)
  OBVIOUS
<1>5. /\ "input" \notin X => "input" \notin X \cup Y
      /\ "output" \notin X => "output" \notin X \cup Y
      /\ pad => "input_pad" \in X \cup Y
  OBVIOUS
<1> HIDE DEF parts, rest, Y, V, last
<1>6. /\ \A x \in X \cup Y : Room(p, a[x], L[x] + (W - U))
      /\ "input" \notin X \cup Y => a["input"] = Input(p)
      /\ "output" \notin X \cup Y => a["output"] = Output(p)
  BY ZenonT(40), <1>2, <1>3, <1>4, CallerRoom
<1> HIDE DEF a
<1>7. ASSUME NEW x \in X, L[x] \in Nat PROVE Room(p, a[x], L[x])
  <2>1. L[x] <= L[x] + (W - U)
    BY <1>7
  <2> QED BY <1>6, <1>7, <2>1, RoomLess
<1>8. ASSUME pad, NEW len \in Nat, U + len <= W
      PROVE  Room(p, a["input_pad"], len)
  <2>1. len <= L["input_pad"] + (W - U)
    BY <1>8
  <2> QED BY <1>5, <1>6, <1>8, <2>1, RoomLess
<1> QED BY <1>5, <1>6, <1>7, <1>8 DEF a, parts, rest, last

\* What the butterflies of the real kinds have room for.
RealRoom(p, a, copied, pads) ==
  LET buffer == C * p.batch * Size(p.n)
  IN /\ Room(p, a["buf"], 2 * buffer)
     /\ IF copied THEN Room(p, a["input"], buffer) ELSE a["input"] = Input(p)
     /\ IF ~ p.outDense THEN Room(p, a["output"], buffer)
                        ELSE a["output"] = Output(p)
     /\ pads => Room(p, a["input_pad"], buffer)

\* The one-dimensional layout of both.
LEMMA RealLayout ==
  ASSUME NEW p, NEW buffer \in Nat, buffer = C * p.batch * Size(p.n),
         NEW copied, NEW pad, NEW pads, pads => pad, NEW W,
         W = Sizes(p).workspace, W \in Nat,
         LET U == 2 * buffer + (IF copied THEN buffer ELSE 0)
                  + (IF ~ p.outDense THEN buffer ELSE 0)
         IN  U <= W /\ (pads => U + buffer <= W)
  PROVE  LET parts == Buffer("buf", 2 * buffer)
                      \o When(copied, Buffer("input", buffer))
                      \o When(~ p.outDense, Buffer("output", buffer))
                      \o When(pad, Buffer("input_pad", 0))
             a     == With(Forward(Workspace, parts),
                           [input |-> Input(p), output |-> Output(p)])
         IN  RealRoom(p, a, copied, pads)
<1> DEFINE two   == 2 * buffer
           given == ~ p.outDense
           L     == [buf |-> two, input |-> buffer, output |-> buffer,
                     input_pad |-> 0]
           most  == Buffer("buf", two) \o When(copied, Buffer("input", buffer))
                    \o When(given, Buffer("output", buffer))
           X     == {"buf"} \cup (IF copied THEN {"input"} ELSE {})
                    \cup (IF given THEN {"output"} ELSE {})
           U     == two + (IF copied THEN buffer ELSE 0)
                    + (IF given THEN buffer ELSE 0)
           parts == most \o When(pad, Buffer("input_pad", 0))
           a     == With(Forward(Workspace, parts),
                         [input |-> Input(p), output |-> Output(p)])
<1>1. U <= W /\ (pads => U + buffer <= W)
  OBVIOUS
<1>2. /\ L["buf"] = two /\ L["input"] = buffer /\ L["output"] = buffer
      /\ L["input_pad"] = 0
  OBVIOUS
<1>3. two \in Nat
  OBVIOUS
<1> HIDE DEF two, given, L
<1>4. Fill(most, X, L, U)
  <2>1. /\ Fill(Buffer("buf", two), {"buf"}, L, two)
        /\ Fill(Buffer("input", buffer), {"input"}, L, buffer)
        /\ Fill(Buffer("output", buffer), {"output"}, L, buffer)
    BY <1>2, <1>3, FillBuffer
  <2> QED BY <2>1, FillWhen, FillConcat
<1>5. U \in Nat
  BY <1>3
<1>6. /\ "input_pad" \notin X /\ "buf" \in X
      /\ copied <=> "input" \in X
      /\ given <=> "output" \in X
  OBVIOUS
<1> HIDE DEF most, X, U
<1>7. /\ \A x \in X : L[x] \in Nat => Room(p, a[x], L[x])
      /\ pad => \A len \in Nat : U + len <= W => Room(p, a["input_pad"], len)
      /\ "input" \notin X => a["input"] = Input(p)
      /\ "output" \notin X => a["output"] = Output(p)
  BY <1>1, <1>2, <1>4, <1>5, <1>6, PadLast
<1> HIDE DEF a
<1>8. /\ Room(p, a["buf"], two)
      /\ copied => Room(p, a["input"], buffer)
      /\ ~ copied => a["input"] = Input(p)
      /\ given => Room(p, a["output"], buffer)
      /\ ~ given => a["output"] = Output(p)
      /\ pads => Room(p, a["input_pad"], buffer)
  BY <1>1, <1>2, <1>3, <1>6, <1>7
<1>9. RealRoom(p, a, copied, pads)
  BY <1>8 DEF RealRoom, two, given
<1> QED BY <1>9 DEF a, parts, most, two, given

\* Room for complex signals takes a batch of any that are no longer.
LEMMA WideTakes ==
  ASSUME NEW p, IsMeasured(p), NEW a, Room(p, a, C * p.batch * Size(p.n)),
         NEW unit \in Units, NEW d \in Dims(p.rank),
         \A i \in 1 .. p.rank : d[i] <= p.n[i]
  PROVE  Takes(p, a, unit, d)
<1>1. p.rank \in 1 .. 2 /\ p.n \in Dims(p.rank) /\ p.batch \in Nat
  BY DEF IsMeasured, IsTransform
<1>2. Size(d) \in Nat /\ Size(p.n) \in Nat /\ Size(d) <= Size(p.n)
  BY <1>1, SizeOf, SizeGrows
<1>3. /\ p.batch * Size(d) <= p.batch * Size(p.n)
      /\ p.batch * Size(d) \in Nat /\ p.batch * Size(p.n) \in Nat
  BY <1>1, <1>2, Grows
<1>4. C * p.batch * Size(p.n) = C * (p.batch * Size(p.n))
  BY <1>1, <1>2 DEF C
<1>5. unit \in Nat /\ unit <= C
  BY DEF Units, R, C
<1>6. unit * Count(p, d) <= C * (p.batch * Size(p.n))
  BY <1>3, <1>5, Grows DEF Count, C
<1> QED BY <1>1, <1>4, <1>6, TakesRoom

\* mluOpAllocateR2C1D and configureRFFT1dWorkspaceAddrs agree.
LEMMA RealButterflyAgree ==
  ASSUME NEW p, IsMeasured(p), p.kind = "r2c", p.rank = 1, ~ p.prime
  PROVE  RealRoom(p, configureRFFT1dWorkspaceAddrs(p),
                  ~ (p.inDense /\ ~ Shorter(p)), Longer(p))
<1> DEFINE buffer == C * p.batch * p.n[1]
           two    == 2 * buffer
           inA    == ~ (p.inDense /\ p.n[1] <= p.inembed[1]) /\ ~ p.batchInner
           outA   == ~ (p.outDense /\ Half(p.n[1]) <= p.onembed[1])
                     /\ ~ p.batchInner
           padA   == p.n # p.inembed
           copied == ~ (p.inDense /\ ~ Shorter(p))
           given  == ~ p.outDense
           pad    == Longer(p)
           M      == [buf |-> two, input |-> buffer, output |-> buffer,
                      pad |-> buffer]
           sizes  == Buffer("buf", two) \o When(inA, Buffer("input", buffer))
                     \o When(outA, Buffer("output", buffer))
                     \o When(padA, Buffer("pad", buffer))
           W      == Sizes(p).workspace
           parts  == Buffer("buf", two) \o When(copied, Buffer("input", buffer))
                     \o When(given, Buffer("output", buffer))
                     \o When(pad, Buffer("input_pad", 0))
           a      == With(Forward(Workspace, parts),
                          [input |-> Input(p), output |-> Output(p)])
<1>1. configureRFFT1dWorkspaceAddrs(p) = a
  BY DEF configureRFFT1dWorkspaceAddrs
<1>2. /\ p.n[1] \in Nat /\ p.inembed[1] \in Nat /\ p.batch \in Nat
      /\ Size(p.n) = p.n[1] /\ ~ p.batchInner
  BY SizeOf DEF IsMeasured, IsTransform
<1>3. /\ buffer \in Nat /\ two \in Nat /\ two = buffer + buffer
      /\ 2 * R * p.batch * p.n[1] = buffer
  BY <1>2 DEF R, C
<1>4. W = Length(sizes)
  BY <1>3 DEF Sizes, R2CSizes, AllocateR2C1D
<1>5. /\ copied => inA \/ padA
      /\ given => outA
      /\ pad => padA
      /\ copied /\ pad => inA
  <2>1. /\ Shorter(p) => padA
        /\ Longer(p) => padA /\ p.n[1] > p.inembed[1]
    BY LikeTheInput DEF IsMeasured, Longer
  <2>2. Longer(p) => ~ (p.n[1] <= p.inembed[1])
    BY <1>2, <2>1
  <2> QED BY <1>2, <2>1, <2>2
<1>6. M["buf"] = two /\ M["input"] = buffer /\ M["output"] = buffer
      /\ M["pad"] = buffer
  OBVIOUS
<1>7. W = Sizes(p).workspace /\ buffer = C * p.batch * Size(p.n)
  BY <1>2
<1> HIDE DEF buffer, two, inA, outA, padA, copied, pad, M, W
<1>8. W = two + (IF inA THEN buffer ELSE 0) + (IF outA THEN buffer ELSE 0)
          + (IF padA THEN buffer ELSE 0)
  <2>1. /\ Fill(Buffer("buf", two), {"buf"}, M, two)
        /\ Fill(Buffer("input", buffer), {"input"}, M, buffer)
        /\ Fill(Buffer("output", buffer), {"output"}, M, buffer)
        /\ Fill(Buffer("pad", buffer), {"pad"}, M, buffer)
    BY <1>3, <1>6, FillBuffer
  <2>2. Fill(sizes, {"buf"} \cup (IF inA THEN {"input"} ELSE {})
                    \cup (IF outA THEN {"output"} ELSE {})
                    \cup (IF padA THEN {"pad"} ELSE {}),
             M, two + (IF inA THEN buffer ELSE 0)
                + (IF outA THEN buffer ELSE 0) + (IF padA THEN buffer ELSE 0))
    BY <2>1, FillWhen, FillConcat
  <2> HIDE DEF sizes
  <2> QED BY <1>4, <2>2 DEF Fill
<1>9. LET U == 2 * buffer + (IF copied THEN buffer ELSE 0)
               + (IF ~ p.outDense THEN buffer ELSE 0)
      IN  U <= W /\ (pad => U + buffer <= W)
  BY <1>3, <1>5, <1>8
<1>10. W \in Nat
  BY <1>3, <1>8
<1>11. RealRoom(p, a, copied, pad)
  BY <1>3, <1>7, <1>9, <1>10, RealLayout DEF two
<1> QED BY <1>1, <1>11 DEF copied, pad

\* Scratch of two complex signals.
LEMMA RealScratch ==
  ASSUME NEW p, IsMeasured(p), NEW a, NEW copied, NEW pads,
         RealRoom(p, a, copied, pads)
  PROVE  /\ Inside(p, Scratch(a["buf"], 2 * C * p.batch * Size(p.n)))
         /\ Inside(p, Scratch(a["buf"], 2 * C * Size(p.n)))
<1> DEFINE buffer == C * p.batch * Size(p.n)
<1>1. p.batch \in Nat /\ p.batch >= 1 /\ Size(p.n) \in Nat
  BY SizeOf DEF IsMeasured, IsTransform
<1>2. /\ 2 * C * p.batch * Size(p.n) = 2 * buffer /\ 2 * buffer \in Nat
      /\ 2 * C * Size(p.n) \in Nat /\ 2 * C * Size(p.n) <= 2 * buffer
  <2> DEFINE size == Size(p.n)
             m    == p.batch * size
  <2>1. size \in Nat
    BY <1>1
  <2> HIDE DEF size
  <2>2. 1 * size <= p.batch * size /\ m \in Nat
    BY <1>1, <2>1, Grows
  <2>3. C * p.batch * size = 2 * m /\ 2 * C * p.batch * size = 4 * m
        /\ 2 * C * size = 4 * size
    BY <1>1, <2>1 DEF C
  <2>4. size <= m
    BY <2>1, <2>2
  <2> HIDE DEF m
  <2> QED BY <2>1, <2>2, <2>3, <2>4 DEF size
<1>3. Room(p, a["buf"], 2 * buffer)
  BY DEF RealRoom
<1> HIDE DEF buffer
<1>4. Room(p, a["buf"], 2 * C * Size(p.n))
  BY <1>2, <1>3, RoomLess
<1> QED BY <1>2, <1>3, <1>4, InsideScratch

LEMMA NoLonger ==
  ASSUME NEW r \in 1 .. 2, NEW d \in Dims(r)
  PROVE  \A i \in 1 .. r : d[i] <= d[i]
<1>1. \A i \in 1 .. r : d[i] \in Nat
  BY SizeOf
<1> QED BY <1>1

\* The caller's output, or the buffer copied to it.
LEMMA RealOutput ==
  ASSUME NEW p, IsMeasured(p), NEW a, NEW copied, NEW pads,
         RealRoom(p, a, copied, pads)
  PROVE  Takes(p, a["output"], OutUnit(p), p.onembed)
<1>1. OutUnit(p) \in Units
  BY DEF OutUnit, Units
<1>2. /\ p.onembed \in Dims(p.rank)
      /\ \A i \in 1 .. p.rank : p.onembed[i] <= p.n[i]
  <2>1. p.n \in Dims(p.rank) /\ p.rank \in 1 .. 2
        /\ p.onembed = IF p.kind = "r2c" THEN HalfDims(p.n) ELSE p.n
    BY DEF IsMeasured, IsTransform
  <2>2. \A i \in 1 .. p.rank : p.n[i] <= p.n[i]
    BY <2>1, NoLonger
  <2> QED BY <2>1, <2>2, Halves2
<1>3. CASE ~ p.outDense
  <2>1. Room(p, a["output"], C * p.batch * Size(p.n))
    BY <1>3 DEF RealRoom
  <2> QED BY <1>1, <1>2, <2>1, WideTakes
<1>4. CASE p.outDense
  <2>1. a["output"] = Output(p)
    BY <1>4 DEF RealRoom
  <2> QED BY <2>1, MeasuredIsGiven, GivenTakes
<1> QED BY <1>3, <1>4

\* Where the real kernels read a real input, copied and padded.
LEMMA RealInput ==
  ASSUME NEW p, IsMeasured(p), p.kind = "r2c", NEW a,
         RealRoom(p, a, ~ (p.inDense /\ ~ Shorter(p)), Longer(p))
  PROVE  /\ Takes(p, a["input"], R, Trimmed(p))
         /\ ~ Longer(p) => Takes(p, a["input"], R, p.n)
         /\ Longer(p) => Takes(p, a["input_pad"], R, p.n)
<1> DEFINE copied == ~ (p.inDense /\ ~ Shorter(p))
<1>1. /\ p.n \in Dims(p.rank) /\ p.inembed \in Dims(p.rank)
      /\ p.rank \in 1 .. 2 /\ R \in Units /\ InUnit(p) = R
      /\ \A i \in 1 .. p.rank : p.n[i] <= p.n[i]
  <2>1. /\ p.n \in Dims(p.rank) /\ p.inembed \in Dims(p.rank)
        /\ p.rank \in 1 .. 2 /\ R \in Units /\ InUnit(p) = R
    BY DEF IsMeasured, IsTransform, InUnit, Units
  <2> QED BY <2>1, NoLonger
<1>2. /\ Trimmed(p) \in Dims(p.rank)
      /\ \A i \in 1 .. p.rank : /\ Trimmed(p)[i] <= p.n[i]
                                /\ Trimmed(p)[i] <= p.inembed[i]
      /\ ~ Longer(p) => \A i \in 1 .. p.rank : p.n[i] <= p.inembed[i]
  BY LikeTheInput
<1>3. Takes(p, Input(p), R, p.inembed)
  BY <1>1, MeasuredIsGiven, GivenTakes
<1>4. \A x : Room(p, x, C * p.batch * Size(p.n)) =>
               Takes(p, x, R, p.n) /\ Takes(p, x, R, Trimmed(p))
  BY <1>1, <1>2, WideTakes
<1>5. /\ Takes(p, Input(p), R, Trimmed(p))
      /\ ~ Longer(p) => Takes(p, Input(p), R, p.n)
  BY <1>1, <1>2, <1>3, TakesLess
<1>6. a["input"] = Input(p) \/ Room(p, a["input"], C * p.batch * Size(p.n))
  BY DEF RealRoom
<1>7. Longer(p) => Room(p, a["input_pad"], C * p.batch * Size(p.n))
  BY DEF RealRoom
<1> QED BY <1>4, <1>5, <1>6, <1>7

\* Execution of a real transform by butterflies.
LEMMA RealButterflySafe ==
  ASSUME NEW p, IsMeasured(p), p.kind = "r2c", p.rank = 1, ~ p.prime
  PROVE  Safe(p, execRFFTButterfly1d(p))
<1> DEFINE a  == configureRFFT1dWorkspaceAddrs(p)
           in == a[IF Longer(p) THEN "input_pad" ELSE "input"]
           y  == HalfResult(p)
           copied == ~ (p.inDense /\ ~ Shorter(p))
           s1 == When(copied, CopyIn(p, a["input"], R, Trimmed(p)))
           s2 == When(Longer(p),
                      Fit(p, a["input"], p.inembed, a["input_pad"], p.n, R))
           s3 == Butterfly(Tables(RealTables1d(p, 2 * C * p.n[1]),
                                  {"factors", "twiddles", "dft_matrix"}),
                           Dense(p, in, R, Signal(p.n)),
                           Dense(p, a["output"], C, y),
                           Scratch(a["buf"], 2 * C * p.batch * p.n[1]))
           s4 == Rescale(p, a["output"], C, y)
           s5 == CopyOut(p, a["output"], C, Scaled(p, y))
<1>1. execRFFTButterfly1d(p) = s1 \o s2 \o s3 \o s4 \o s5
  BY DEF execRFFTButterfly1d
<1>2. RealRoom(p, a, copied, Longer(p))
  BY RealButterflyAgree
<1> HIDE DEF a
<1>3. /\ IsGiven(p) /\ R = InUnit(p) /\ C = OutUnit(p)
      /\ y = Result(p.onembed) /\ Signal(p.n).dims = p.n
      /\ y.dims = p.onembed
  BY MeasuredIsGiven
     DEF IsMeasured, InUnit, OutUnit, HalfResult, Result, Signal, Value
<1>4. /\ Takes(p, a["input"], R, Trimmed(p))
      /\ ~ Longer(p) => Takes(p, a["input"], R, p.n)
      /\ Longer(p) => Takes(p, a["input_pad"], R, p.n)
  BY <1>2, RealInput
<1>5. Takes(p, in, R, p.n)
  BY <1>4
<1>6. Takes(p, a["output"], C, p.onembed)
  BY <1>2, <1>3, RealOutput
<1>7. Longer(p) => Trimmed(p) = p.inembed
  <2>1. p.rank = 1 /\ p.n[1] \in Nat /\ p.inembed[1] \in Nat
    BY SizeOf DEF IsMeasured, IsTransform
  <2>2. Longer(p) => ~ Shorter(p)
    BY <2>1 DEF Longer, Shorter
  <2> QED BY <2>2, LikeTheInput
<1>8. Inside(p, Scratch(a["buf"], 2 * C * p.batch * p.n[1]))
  <2>1. Size(p.n) = p.n[1]
    BY SizeOf DEF IsMeasured, IsTransform
  <2> QED BY <1>2, <2>1, RealScratch
<1> HIDE DEF in, y, copied
<1>9. Safe(p, s1)
  BY <1>3, <1>4, SafeCopyIn, SafeWhen
<1>10. Safe(p, s2)
  BY <1>4, <1>7, SafeFit, SafeWhen
<1>11. Safe(p, s3)
  <2>1. /\ Inside(p, Dense(p, in, R, Signal(p.n)))
        /\ Inside(p, Dense(p, a["output"], C, y))
    BY <1>3, <1>5, <1>6, InsideSignals
  <2>2. Inside(p, Tables(RealTables1d(p, 2 * C * p.n[1]),
                         {"factors", "twiddles", "dft_matrix"}))
    BY RealTablesSafe
  <2> QED BY <1>8, <2>1, <2>2, SafeButterfly
<1>12. Safe(p, s4)
  BY <1>3, <1>6, SafeRescale
<1>13. Safe(p, s5)
  BY <1>3, <1>6, SafeCopyOut
<1> HIDE DEF s1, s2, s3, s4, s5
<1> QED BY <1>1, <1>9, <1>10, <1>11, <1>12, <1>13, SafeConcat

-----------------------------------------------------------------------------
(* The real kinds in two dimensions.                                       *)

\* One complex signal for each of the batch.
LEMMA Buffer2d ==
  ASSUME NEW p, IsMeasured(p), p.rank = 2
  PROVE  /\ C * p.batch * p.n[1] * p.n[2] = C * p.batch * Size(p.n)
         /\ C * p.batch * Size(p.n) \in Nat
<1>1. /\ p.batch \in Nat /\ p.n[1] \in Nat /\ p.n[2] \in Nat
      /\ Size(p.n) = p.n[1] * p.n[2]
  BY Lens2d
<1> DEFINE b == C * p.batch
<1>2. b \in Nat
  BY <1>1 DEF C
<1> HIDE DEF b
<1>3. b * p.n[1] * p.n[2] = b * (p.n[1] * p.n[2]) /\ p.n[1] * p.n[2] \in Nat
  BY <1>1, <1>2
<1>4. b * (p.n[1] * p.n[2]) \in Nat
  BY <1>2, <1>3
<1> QED BY <1>1, <1>3, <1>4 DEF b

\* What AllocateReal2D announces.
LEMMA RealSizes2d ==
  ASSUME NEW p, IsMeasured(p), p.rank = 2, NEW given, NEW more \in {0, 1}
  PROVE  LET buffer == C * p.batch * Size(p.n)
             many   == p.strategy = "many"
         IN  AllocateReal2D(p, given, more).workspace =
               (IF many THEN 6 * buffer ELSE 2 * buffer)
               + (IF ~ many /\ ~ given THEN buffer ELSE 0)
               + (IF ~ many /\ ~ p.outDense THEN buffer ELSE 0)
               + (IF ~ many THEN more * buffer ELSE 0)
               + (IF p.n # p.inembed THEN buffer ELSE 0)
<1> DEFINE buffer == C * p.batch * Size(p.n)
           other  == C * p.batch * p.n[1] * p.n[2]
           many   == p.strategy = "many"
           inA    == ~ many /\ ~ given
           outA   == ~ many /\ ~ p.outDense
           moreA  == ~ many
           padA   == p.n # p.inembed
           first  == IF many THEN 6 * buffer ELSE 2 * buffer
           rest   == more * buffer
           M      == [buf |-> first, input |-> buffer, output |-> buffer,
                      more |-> rest, pad |-> buffer]
           sizes  == Buffer("buf", first) \o When(inA, Buffer("input", buffer))
                     \o When(outA, Buffer("output", buffer))
                     \o When(moreA, Buffer("more", rest))
                     \o When(padA, Buffer("pad", buffer))
           W      == AllocateReal2D(p, given, more).workspace
<1>1. other = buffer /\ buffer \in Nat
  BY Buffer2d
<1>2. W = Length(sizes)
  BY <1>1 DEF AllocateReal2D
<1>3. /\ M["buf"] = first /\ M["input"] = buffer /\ M["output"] = buffer
      /\ M["more"] = rest /\ M["pad"] = buffer
  OBVIOUS
<1> HIDE DEF buffer
<1>4. first \in Nat /\ rest \in Nat
  BY <1>1
<1> HIDE DEF first, rest, M, inA, outA, moreA, padA, many, W
<1>5. /\ Fill(Buffer("buf", first), {"buf"}, M, first)
      /\ Fill(Buffer("input", buffer), {"input"}, M, buffer)
      /\ Fill(Buffer("output", buffer), {"output"}, M, buffer)
      /\ Fill(Buffer("more", rest), {"more"}, M, rest)
      /\ Fill(Buffer("pad", buffer), {"pad"}, M, buffer)
  BY <1>1, <1>3, <1>4, FillBuffer
<1>6. Fill(sizes, {"buf"} \cup (IF inA THEN {"input"} ELSE {})
                  \cup (IF outA THEN {"output"} ELSE {})
                  \cup (IF moreA THEN {"more"} ELSE {})
                  \cup (IF padA THEN {"pad"} ELSE {}),
           M, first + (IF inA THEN buffer ELSE 0)
              + (IF outA THEN buffer ELSE 0)
              + (IF moreA THEN rest ELSE 0)
              + (IF padA THEN buffer ELSE 0))
  BY ZenonT(40), <1>5, FillWhen, FillConcat
<1> HIDE DEF sizes
<1>7. W = first + (IF inA THEN buffer ELSE 0)
              + (IF outA THEN buffer ELSE 0)
              + (IF moreA THEN rest ELSE 0)
              + (IF padA THEN buffer ELSE 0)
  BY <1>2, <1>6 DEF Fill
<1> QED BY <1>7 DEF W, first, rest, buffer, inA, outA, moreA, padA, many

\* What the products over all signals at once have room for.
RealManyRoom(p, a) ==
  LET buffer == C * p.batch * Size(p.n)
  IN /\ Room(p, a["buffer_in"], 2 * buffer)
     /\ Room(p, a["buffer_out"], 2 * buffer)
     /\ a["input"] = Input(p) /\ a["output"] = Output(p)

\* The layout of both kinds for them.
LEMMA ManyLayout ==
  ASSUME NEW p, NEW buffer \in Nat, buffer = C * p.batch * Size(p.n),
         NEW pad, NEW W, W = Sizes(p).workspace, W \in Nat, 4 * buffer <= W
  PROVE  LET parts == (Buffer("buffer_in", 2 * buffer)
                       \o Buffer("buffer_out", 2 * buffer))
                      \o When(pad, Buffer("input_pad", 0))
             a     == With(Forward(Workspace, parts),
                           [input |-> Input(p), output |-> Output(p)])
         IN  RealManyRoom(p, a)
<1> DEFINE two  == 2 * buffer
           U    == two + two
           L    == [buffer_in |-> two, buffer_out |-> two, input_pad |-> 0]
           most == Buffer("buffer_in", two) \o Buffer("buffer_out", two)
           X    == {"buffer_in"} \cup {"buffer_out"}
           parts == most \o When(pad, Buffer("input_pad", 0))
           a     == With(Forward(Workspace, parts),
                         [input |-> Input(p), output |-> Output(p)])
<1>1. L["buffer_in"] = two /\ L["buffer_out"] = two /\ L["input_pad"] = 0
  OBVIOUS
<1>2. two \in Nat /\ U \in Nat /\ U <= W
  OBVIOUS
<1> HIDE DEF two, L
<1>3. Fill(most, X, L, U)
  <2>1. /\ Fill(Buffer("buffer_in", two), {"buffer_in"}, L, two)
        /\ Fill(Buffer("buffer_out", two), {"buffer_out"}, L, two)
    BY <1>1, <1>2, FillBuffer
  <2> QED BY <2>1, FillConcat
<1>4. /\ "input_pad" \notin X /\ "input" \notin X /\ "output" \notin X
      /\ "buffer_in" \in X /\ "buffer_out" \in X
  OBVIOUS
<1> HIDE DEF most, X, U
<1>5. /\ \A x \in X : L[x] \in Nat => Room(p, a[x], L[x])
      /\ a["input"] = Input(p) /\ a["output"] = Output(p)
  BY <1>1, <1>2, <1>3, <1>4, PadLast
<1> HIDE DEF a
<1>6. RealManyRoom(p, a)
  BY <1>1, <1>2, <1>4, <1>5 DEF RealManyRoom, two
<1> QED BY <1>6 DEF a, parts, most, two

\* mluOpAllocateRFFT2D and configureRFFT2dWorkspaceAddrs agree.
LEMMA RealAgree2d ==
  ASSUME NEW p, IsMeasured(p), p.kind = "r2c", p.rank = 2
  PROVE  LET a == configureRFFT2dWorkspaceAddrs(p)
         IN  /\ p.strategy = "many" => RealManyRoom(p, a)
             /\ p.strategy # "many" =>
                  RealRoom(p, a, ~ (p.inDense /\ ~ Shorter(p)), Longer(p))
<1> DEFINE buffer == C * p.batch * Size(p.n)
           given  == p.inDense /\ ~ Shorter(p)
           pad    == Longer(p)
           padA   == p.n # p.inembed
           W      == Sizes(p).workspace
           caller == [input |-> Input(p), output |-> Output(p)]
           many   == (Buffer("buffer_in", 2 * buffer)
                      \o Buffer("buffer_out", 2 * buffer))
                     \o When(pad, Buffer("input_pad", 0))
           other  == Buffer("buf", 2 * buffer)
                     \o When(~ given, Buffer("input", buffer))
                     \o When(~ p.outDense, Buffer("output", buffer))
                     \o When(pad, Buffer("input_pad", 0))
<1>1. configureRFFT2dWorkspaceAddrs(p) =
        With(Forward(Workspace, IF p.strategy = "many" THEN many ELSE other),
             caller)
  BY DEF configureRFFT2dWorkspaceAddrs
<1>2. buffer \in Nat
  BY Buffer2d
<1>3. W = (IF p.strategy = "many" THEN 6 * buffer ELSE 2 * buffer)
          + (IF p.strategy # "many" /\ ~ given THEN buffer ELSE 0)
          + (IF p.strategy # "many" /\ ~ p.outDense THEN buffer ELSE 0)
          + (IF p.strategy # "many" THEN 0 * buffer ELSE 0)
          + (IF padA THEN buffer ELSE 0)
  <2>1. W = AllocateReal2D(p, given, 0).workspace
    BY DEF Sizes, R2CSizes, AllocateRFFT2D
  <2>2. 0 \in {0, 1}
    OBVIOUS
  <2> HIDE DEF W, given
  <2> QED BY <2>1, <2>2, RealSizes2d
<1>4. pad => padA
  BY LikeTheInput
<1>5. W = Sizes(p).workspace /\ buffer = C * p.batch * Size(p.n)
  OBVIOUS
<1> HIDE DEF buffer, given, pad, padA, W
<1>6. CASE p.strategy = "many"
  <2>1. W \in Nat /\ 4 * buffer <= W
    BY <1>2, <1>3, <1>6
  <2>2. RealManyRoom(p, With(Forward(Workspace, many), caller))
    BY <1>2, <1>5, <2>1, ManyLayout
  <2> HIDE DEF many, caller
  <2> QED BY <1>1, <1>6, <2>2
<1>7. CASE p.strategy # "many"
  <2>1. W \in Nat
    BY <1>2, <1>3, <1>7
  <2>2. LET U == 2 * buffer + (IF ~ given THEN buffer ELSE 0)
                 + (IF ~ p.outDense THEN buffer ELSE 0)
        IN  U <= W /\ (pad => U + buffer <= W)
    BY <1>2, <1>3, <1>4, <1>7
  <2>3. RealRoom(p, With(Forward(Workspace, other), caller), ~ given, pad)
    BY ZenonT(40), <1>2, <1>5, <2>1, <2>2, RealLayout
  <2> HIDE DEF many, other, caller
  <2> QED BY <1>1, <1>7, <2>3 DEF given, pad
<1> QED BY <1>6, <1>7

\* Products of the whole batch, of half signals.
LEMMA HalfAll ==
  ASSUME NEW p, IsMeasured(p), p.rank = 2, NEW a,
         Room(p, a, 2 * (C * p.batch * Size(p.n))), NEW k \in {1, 2}, NEW v
  PROVE  Inside(p, {Holds(a, k * C * p.batch * Size(HalfDims(p.n)), v)})
<1> DEFINE h == Size(HalfDims(p.n))
           s == Size(p.n)
           len == k * C * p.batch * Size(HalfDims(p.n))
<1>1. /\ h \in Nat /\ s \in Nat /\ h <= s /\ p.batch \in Nat
  <2>1. p.rank \in 1 .. 2 /\ p.n \in Dims(p.rank) /\ p.batch \in Nat
    BY DEF IsMeasured, IsTransform
  <2>2. /\ HalfDims(p.n) \in Dims(p.rank)
        /\ \A i \in 1 .. p.rank : HalfDims(p.n)[i] <= p.n[i]
    BY <2>1, Halves2
  <2> QED BY <2>1, <2>2, SizeOf, SizeGrows
<1>2. /\ C * p.batch * Size(p.n) = C * (p.batch * s)
      /\ len = k * (C * (p.batch * h))
  <2> HIDE DEF h, s
  <2>1. C * p.batch * s = C * (p.batch * s)
    BY <1>1 DEF C
  <2>2. 1 * C * p.batch * h = 1 * (C * (p.batch * h))
    BY <1>1 DEF C
  <2>3. 2 * C * p.batch * h = 2 * (C * (p.batch * h))
    BY <1>1 DEF C
  <2>4. k * C * p.batch * h = k * (C * (p.batch * h))
    BY <2>2, <2>3
  <2> QED BY <2>1, <2>4 DEF h, s
<1> HIDE DEF h, s, len
<1>3. p.batch * h <= p.batch * s /\ p.batch * h \in Nat /\ p.batch * s \in Nat
  BY <1>1, Grows
<1> DEFINE x == p.batch * h
           y == p.batch * s
<1> HIDE DEF x, y
<1>4. x <= y /\ x \in Nat /\ y \in Nat /\ len = k * (C * x)
      /\ Room(p, a, 2 * (C * y))
  BY <1>2, <1>3 DEF x, y
<1>5. len \in Nat /\ len <= 2 * (C * y)
  BY <1>4 DEF C
<1>6. Room(p, a, len)
  BY <1>4, <1>5, RoomLess
<1> QED BY <1>6, RoomHolds DEF len

\* Rows, then columns, of all signals of the batch.
LEMMA RealTwoLevelSafe ==
  ASSUME NEW p, IsMeasured(p), p.kind = "r2c", p.rank = 2,
         p.strategy # "many", NEW a, Takes(p, a["input"], R, p.n),
         Takes(p, a["output"], C, p.onembed),
         Inside(p, Scratch(a["buf"], 2 * C * Size(p.n)))
  PROVE  Safe(p, execRFFTTwoLevel(p, a))
<1> DEFINE half == HalfDims(p.n)
           y    == HalfResult(p)
           mid  == IF p.n[1] = 1 THEN y ELSE Along("row", Signal(half))
           signal(at, b, unit, v) ==
             {Holds(Move(at, b * unit * Size(v.dims)),
                    unit * Size(v.dims), v)}
           buf  == Scratch(a["buf"], 2 * C * Size(p.n))
           row(b) ==
             When(p.n[2] # 1,
                  Butterfly(Tables2(p, "row", TRUE),
                            signal(a["input"], b, R, Signal(p.n)),
                            signal(a["output"], b, C, mid), buf))
           column(b) ==
             When(p.n[1] # 1,
                  Butterfly(Tables2(p, "column", TRUE),
                            signal(a["output"], b, C, mid),
                            signal(a["output"], b, C, y), buf))
           to   == Dense(p, a["output"], C, mid)
           from == Dense(p, a["input"], R, Signal(p.n))
           s1   == When(p.n[2] = 1, Stage(from, to))
           batch == [b \in 1 .. p.batch |-> row(b - 1) \o column(b - 1)]
<1>1. execRFFTTwoLevel(p, a) = s1 \o FlattenSeq(batch)
  BY DEF execRFFTTwoLevel
<1>2. /\ half = p.onembed /\ y.dims = p.onembed /\ mid.dims = p.onembed
      /\ Signal(p.n).dims = p.n
  BY DEF IsMeasured, HalfResult, Result, Signal, Value, Along
<1>3. Inside(p, Tables2(p, "row", TRUE)) /\ Inside(p, Tables2(p, "column", TRUE))
  BY TwoLevelTablesSafe
<1> HIDE DEF half, y, mid
<1>4. ASSUME NEW b \in 0 .. p.batch - 1
      PROVE  /\ Inside(p, signal(a["input"], b, R, Signal(p.n)))
             /\ Inside(p, signal(a["output"], b, C, mid))
             /\ Inside(p, signal(a["output"], b, C, y))
  BY <1>2, InsideSignal
<1>5. Inside(p, from) /\ Inside(p, to)
  BY <1>2, InsideSignals
<1>6. Inside(p, buf)
  OBVIOUS
<1> HIDE DEF signal, buf, to, from
<1>7. Safe(p, s1)
  BY <1>5, SafeStage, SafeWhen
<1>8. ASSUME NEW b \in 0 .. p.batch - 1 PROVE Safe(p, row(b) \o column(b))
  BY <1>3, <1>4, <1>6, SafeButterfly, SafeWhen, SafeConcat
<1> HIDE DEF row, column, s1
<1>9. Safe(p, FlattenSeq(batch))
  <2>1. p.batch \in Nat
    BY DEF IsMeasured, IsTransform
  <2>2. \A i \in 1 .. p.batch : i - 1 \in 0 .. p.batch - 1
    BY <2>1
  <2>3. /\ batch = [i \in 1 .. p.batch |-> batch[i]]
        /\ \A i \in 1 .. p.batch : Safe(p, batch[i])
    BY <1>8, <2>2
  <2> HIDE DEF batch
  <2> QED BY <2>1, <2>3, SafeFlat
<1> HIDE DEF batch
<1> QED BY <1>1, <1>7, <1>9, SafeConcat

\* The matrix products over all signals at once.
LEMMA RealManySafe ==
  ASSUME NEW p, IsMeasured(p), p.kind = "r2c", p.rank = 2,
         p.strategy = "many", NEW a, RealManyRoom(p, a)
  PROVE  /\ Safe(p, execRFFTMany(p, a))
         /\ Takes(p, a["output"], C, p.onembed)
<1> DEFINE half  == HalfDims(p.n)
           rows  == {Holds(a["buffer_in"], 1 * C * p.batch * Size(half),
                           Along("row", Signal(half)))}
           parts == {Holds(a["buffer_out"], 2 * C * p.batch * Size(half),
                           Along("parts", Result(half)))}
           x     == Strided(p, a["input"], R, Signal(p.n))
           y     == Strided(p, a["output"], C, HalfResult(p))
           one   == Tables(Tables2d(p), {"dft_matrix"})
           two   == Tables(Tables2d(p), {"dft_matrix_2d"})
           s1    == Stage(one \cup x, rows)
           s2    == Stage(two \cup rows, parts)
           s3    == Stage(parts, y)
<1>1. execRFFTMany(p, a) = s1 \o s2 \o s3
  BY DEF execRFFTMany
<1>2. /\ p.inembed = p.n /\ IsGiven(p) /\ InUnit(p) = R /\ OutUnit(p) = C
      /\ p.onembed = HalfDims(p.n)
  BY MeasuredIsGiven DEF IsMeasured, Matching, InUnit, OutUnit
<1>3. Takes(p, a["input"], R, p.n) /\ Takes(p, a["output"], C, p.onembed)
  BY <1>2, GivenTakes DEF RealManyRoom
<1>4. Inside(p, x) /\ Inside(p, y)
  <2>1. Signal(p.n).dims = p.n /\ HalfResult(p).dims = p.onembed
    BY <1>2 DEF Signal, HalfResult, Result, Value
  <2> QED BY <1>3, <2>1, InsideSignals
<1>5. Inside(p, rows) /\ Inside(p, parts)
  BY HalfAll DEF RealManyRoom
<1>6. Inside(p, one) /\ Inside(p, two)
  BY ManyTablesSafe
<1> HIDE DEF rows, parts, x, y, one, two
<1>7. Safe(p, s1) /\ Safe(p, s2) /\ Safe(p, s3)
  BY <1>4, <1>5, <1>6, InsideBoth, SafeStage
<1> HIDE DEF s1, s2, s3
<1> QED BY <1>1, <1>3, <1>7, SafeConcat

\* Execution of a real transform in two dimensions.
LEMMA RealPlaneSafe ==
  ASSUME NEW p, IsMeasured(p), p.kind = "r2c", p.rank = 2, ~ NeverPads(p)
  PROVE  Safe(p, execRFFT2d(p))
<1> DEFINE a == configureRFFT2dWorkspaceAddrs(p)
           y == HalfResult(p)
           copied == ~ (p.inDense /\ ~ Shorter(p))
           s1 == When(copied, CopyIn(p, a["input"], R, Trimmed(p)))
           s2 == execRFFTTwoLevel(p, a)
           s3 == Rescale(p, a["output"], C, y)
           s4 == CopyOut(p, a["output"], C, Scaled(p, y))
           m1 == execRFFTMany(p, a)
           m2 == RescaleStrided(p, a["output"], C, y)
<1>1. execRFFT2d(p) = IF p.strategy = "many" THEN m1 \o m2
                      ELSE s1 \o s2 \o s3 \o s4
  BY DEF execRFFT2d
<1>2. /\ p.strategy = "many" => RealManyRoom(p, a)
      /\ p.strategy # "many" => RealRoom(p, a, copied, Longer(p))
  BY RealAgree2d
<1>3. /\ IsGiven(p) /\ InUnit(p) = R /\ OutUnit(p) = C
      /\ y = Result(p.onembed)
  BY MeasuredIsGiven DEF IsMeasured, InUnit, OutUnit, HalfResult
<1> HIDE DEF a, y
<1>4. CASE p.strategy = "many"
  <2>1. Safe(p, m1) /\ Takes(p, a["output"], C, p.onembed)
    BY <1>2, <1>4, RealManySafe
  <2>2. Safe(p, m2)
    BY <1>3, <2>1, SafeRescale
  <2> HIDE DEF m1, m2, s1, s2, s3, s4
  <2> QED BY <1>1, <1>4, <2>1, <2>2, SafeConcat
<1>5. CASE p.strategy # "many"
  <2>1. ~ Longer(p)
    BY <1>5 DEF NeverPads
  <2>2. RealRoom(p, a, copied, Longer(p))
    BY <1>2, <1>5
  <2>3. /\ Takes(p, a["input"], R, Trimmed(p))
        /\ Takes(p, a["input"], R, p.n)
    BY <2>1, <2>2, RealInput DEF copied
  <2>4. Takes(p, a["output"], C, p.onembed)
    BY <1>3, <2>2, RealOutput
  <2>5. Inside(p, Scratch(a["buf"], 2 * C * Size(p.n)))
    BY <2>2, RealScratch
  <2> HIDE DEF copied
  <2>6. Safe(p, s1)
    BY <1>3, <2>3, SafeCopyIn, SafeWhen
  <2>7. Safe(p, s2)
    BY <1>5, <2>3, <2>4, <2>5, RealTwoLevelSafe
  <2>8. Safe(p, s3) /\ Safe(p, s4)
    BY <1>3, <2>4, SafeRescale, SafeCopyOut
  <2> HIDE DEF m1, m2, s1, s2, s3, s4
  <2> QED BY <1>1, <1>5, <2>6, <2>7, <2>8, SafeConcat
<1> QED BY <1>4, <1>5

-----------------------------------------------------------------------------
(* Complex to real, one dimension, by matrix products.                     *)

\* Layouts one after the other may be grouped either way.
LEMMA Regroup ==
  ASSUME NEW L, NEW s, NEW t, NEW u, NEW X, NEW Y, NEW Z, NEW T, NEW U, NEW V,
         Fill(s, X, L, T), Fill(t, Y, L, U), Fill(u, Z, L, V)
  PROVE  s \o (t \o u) = (s \o t) \o u
<1>1. PICK A : s \in Seq(A)
  BY DEF Fill, IsLayout, IsSeq
<1>2. PICK B : t \in Seq(B)
  BY DEF Fill, IsLayout, IsSeq
<1>3. PICK D : u \in Seq(D)
  BY DEF Fill, IsLayout, IsSeq
<1> DEFINE S == A \cup B \cup D
<1>4. s \in Seq(S) /\ t \in Seq(S) /\ u \in Seq(S)
  BY <1>1, <1>2, <1>3
<1> HIDE DEF S
<1> QED BY <1>4, ConcatAssociative

\* What this branch has room for behind each of its addresses.
HalfMatmulRoom(p, a) ==
  LET signals == R * p.batch * p.n[1]
      half    == C * p.batch * Half(p.n[1])
  IN /\ Room(p, a["internal"], p.internal)
     /\ p.strategy # "matmul" =>
          /\ Room(p, a["input_transed"], 2 * signals)
          /\ Room(p, a["input_reversed"], 2 * signals - half)
          /\ Room(p, a["input_merged"], 2 * signals)
          /\ Room(p, a["input_re"], 2 * signals)
          /\ Room(p, a["input_im"], signals)
          /\ \A x \in {"im_mul_im", "im_mul_re", "re_mul_im"} :
               Room(p, a[x], signals)
          /\ Room(p, a["re_mul_re"], 4 * signals)
     /\ Takes(p, a["output_contiguous"], R, p.onembed)
     /\ Takes(p, a["input_contiguous"], C, p.inembed)
     /\ Takes(p, a["input_pad"], C, HalfDims(p.n))

\* Half of each signal is no more than the signal.
LEMMA HalfLengths ==
  ASSUME NEW p, IsMeasured(p), p.rank = 1
  PROVE  /\ p.batch \in Nat /\ p.n[1] \in Nat /\ p.inembed[1] \in Nat
         /\ Half(p.n[1]) \in Nat /\ Half(p.n[1]) <= p.n[1]
         /\ HalfDims(p.n) \in Dims(1) /\ HalfDims(p.n)[1] = Half(p.n[1])
         /\ Size(p.n) = p.n[1] /\ p.n \in Dims(1) /\ p.inembed \in Dims(1)
         /\ R * p.batch * Half(p.n[1]) \in Nat
         /\ R * p.batch * p.n[1] \in Nat
         /\ R * p.batch * Half(p.n[1]) <= R * p.batch * p.n[1]
         /\ C * p.batch * Half(p.n[1]) = 2 * (R * p.batch * Half(p.n[1]))
         /\ C * p.batch * p.n[1] = 2 * (R * p.batch * p.n[1])
<1>1. 1 \in 1 .. 1
  OBVIOUS
<1>2. p.n \in Dims(1) /\ p.inembed \in Dims(1) /\ p.batch \in Nat
  BY DEF IsMeasured, IsTransform
<1>3. /\ p.n[1] \in Nat /\ p.n[1] >= 1 /\ p.inembed[1] \in Nat
      /\ Size(p.n) = p.n[1]
  BY <1>1, <1>2, SizeOf
<1>4. HalfDims(p.n) \in Dims(1) /\ HalfDims(p.n)[1] = Half(p.n[1])
  BY <1>1, <1>2, Halves2
<1>5. Half(p.n[1]) \in Nat /\ Half(p.n[1]) <= p.n[1]
  BY <1>3 DEF Half
<1> DEFINE h == Half(p.n[1])
<1> HIDE DEF h
<1>6. h \in Nat /\ h <= p.n[1]
  BY <1>5 DEF h
<1>7. p.batch * h <= p.batch * p.n[1] /\ p.batch * h \in Nat
      /\ p.batch * p.n[1] \in Nat
  BY <1>2, <1>3, <1>6, Grows
<1>8. /\ R * p.batch * h = p.batch * h
      /\ R * p.batch * p.n[1] = p.batch * p.n[1]
      /\ C * p.batch * h = 2 * (p.batch * h)
      /\ C * p.batch * p.n[1] = 2 * (p.batch * p.n[1])
  BY <1>2, <1>3, <1>6 DEF R, C
<1>9. /\ R * p.batch * h \in Nat /\ R * p.batch * p.n[1] \in Nat
      /\ R * p.batch * h <= R * p.batch * p.n[1]
      /\ C * p.batch * h = 2 * (R * p.batch * h)
      /\ C * p.batch * p.n[1] = 2 * (R * p.batch * p.n[1])
  BY <1>7, <1>8
<1> QED BY <1>2, <1>3, <1>4, <1>5, <1>9 DEF h

\* The names of the addresses of a matmul branch.
LEMMA MatmulNames ==
  ASSUME NEW p, NEW front, NEW back, NEW X, NEW Y,
         DOMAIN front = X, DOMAIN back = Y
  PROVE  LET full == With(front, [input_contiguous |-> Input(p)])
             rest == [input_pad |-> full["input_contiguous"],
                      output_contiguous |-> Output(p)]
         IN  DOMAIN With(With(back, full), rest) =
               X \cup Y \cup {"input_contiguous", "input_pad",
                              "output_contiguous"}
<1> DEFINE given == [input_contiguous |-> Input(p)]
           full  == With(front, given)
           rest  == [input_pad |-> full["input_contiguous"],
                     output_contiguous |-> Output(p)]
           both  == With(back, full)
<1>1. /\ DOMAIN given = {"input_contiguous"}
      /\ DOMAIN rest = {"input_pad", "output_contiguous"}
  OBVIOUS
<1> HIDE DEF given, rest
<1>2. DOMAIN full = X \cup {"input_contiguous"}
  BY <1>1, Merge
<1> HIDE DEF full
<1>3. DOMAIN With(back, full) = DOMAIN back \cup DOMAIN full
  BY Merge
<1>6. DOMAIN both = Y \cup X \cup {"input_contiguous"}
  BY <1>2, <1>3
<1> HIDE DEF both
<1>4. DOMAIN With(both, rest) = DOMAIN both \cup DOMAIN rest
  BY Merge
<1>5. DOMAIN With(both, rest) = X \cup Y \cup {"input_contiguous", "input_pad",
                                               "output_contiguous"}
  BY <1>1, <1>4, <1>6
<1> QED BY <1>5 DEF rest, both, full, given

\* makeIRFFT1dPolicy and configureIRFFT1dMatmulWorkspaceAddrs agree on what
\* they lay out.
LEMMA HalfMatmulLayout ==
  ASSUME NEW p, IsMeasured(p), p.kind = "c2r", p.rank = 1, p.prime
  PROVE  LET signals == R * p.batch * p.n[1]
             half    == C * p.batch * Half(p.n[1])
             in      == C * p.batch * p.inembed[1]
             out     == R * p.batch * p.onembed[1]
             parted  == ~ (p.strategy = "matmul")
             copied  == ~ p.inDense
             padded  == p.inembed # HalfDims(p.n)
             given   == ~ p.outDense
             front == Forward(Workspace,
                        When(copied, Buffer("input_contiguous", in))
                        \o When(padded, Buffer("input_pad", half))
                        \o When(parted, Buffer("input_transed", half)
                             \o Buffer("input_reversed", 2 * signals - half)
                             \o Buffer("input_merged", 2 * signals)))
             back  == Backward(Move(Workspace, Sizes(p).workspace),
                        Buffer("internal", p.internal)
                        \o When(given, Buffer("output_contiguous", out))
                        \o When(parted, Buffer("im_mul_im", signals)
                                        \o Buffer("im_mul_re", signals)
                                        \o Buffer("re_mul_im", signals)
                                        \o Buffer("re_mul_re", signals)))
             full  == With(front, [input_contiguous |-> Input(p)])
             a     == With(With(back, full),
                           [input_pad |-> full["input_contiguous"],
                            output_contiguous |-> Output(p)])
         IN  /\ Room(p, a["internal"], p.internal)
             /\ given => Room(p, a["output_contiguous"], out)
             /\ ~ given => a["output_contiguous"] = Output(p)
             /\ parted =>
                  /\ Room(p, a["im_mul_im"], signals)
                  /\ Room(p, a["im_mul_re"], signals)
                  /\ Room(p, a["re_mul_im"], signals)
                  /\ Room(p, a["re_mul_re"], 4 * signals)
                  /\ Room(p, a["input_transed"], 2 * signals)
                  /\ Room(p, a["input_reversed"], 2 * signals - half)
                  /\ Room(p, a["input_merged"], 2 * signals)
             /\ copied => Room(p, a["input_contiguous"], in)
             /\ ~ copied => a["input_contiguous"] = Input(p)
             /\ padded => Room(p, a["input_pad"], half)
             /\ ~ padded => a["input_pad"] = a["input_contiguous"]
             /\ "input_re" \notin DOMAIN a /\ "input_im" \notin DOMAIN a
             /\ {"internal", "output_contiguous", "input_contiguous",
                 "input_pad"} \subseteq DOMAIN a
             /\ parted => {"input_transed", "input_reversed", "input_merged",
                           "im_mul_im", "im_mul_re", "re_mul_im",
                           "re_mul_re"} \subseteq DOMAIN a
<1> DEFINE signals == R * p.batch * p.n[1]
           half   == C * p.batch * Half(p.n[1])
           two    == 2 * signals
           four   == 4 * signals
           mirror == two - half
           in     == C * p.batch * p.inembed[1]
           out    == R * p.batch * p.onembed[1]
           inner  == p.internal
           parted == ~ (p.strategy = "matmul")
           copied == ~ p.inDense
           padded == p.inembed # HalfDims(p.n)
           given  == ~ p.outDense
           L == [input_contiguous |-> in, input_pad |-> half,
                 input_transed |-> half, input_reversed |-> mirror,
                 input_merged |-> two, internal |-> inner,
                 output_contiguous |-> out, im_mul_im |-> signals,
                 im_mul_re |-> signals, re_mul_im |-> signals,
                 re_mul_re |-> signals]
           M == [in |-> in, pad |-> half, merged |-> two, transed |-> two,
                 products |-> four, out |-> out]
           sizes == When(copied, Buffer("in", in))
                    \o When(padded, Buffer("pad", half))
                    \o When(parted, Buffer("merged", two)
                                    \o Buffer("transed", two)
                                    \o Buffer("products", four))
                    \o When(given, Buffer("out", out))
           more      == Buffer("input_transed", half)
                        \o Buffer("input_reversed", mirror)
                        \o Buffer("input_merged", two)
           moreNames == {"input_transed"} \cup {"input_reversed"}
                        \cup {"input_merged"}
           moreLen   == half + mirror + two
           head  == When(copied, Buffer("input_contiguous", in))
                    \o When(padded, Buffer("input_pad", half))
                    \o When(parted, more)
           X     == (IF copied THEN {"input_contiguous"} ELSE {})
                    \cup (IF padded THEN {"input_pad"} ELSE {})
                    \cup (IF parted THEN moreNames ELSE {})
           T     == (IF copied THEN in ELSE 0) + (IF padded THEN half ELSE 0)
                    + (IF parted THEN moreLen ELSE 0)
           first == Buffer("internal", inner)
                    \o When(given, Buffer("output_contiguous", out))
           firstNames == {"internal"}
                         \cup (IF given THEN {"output_contiguous"} ELSE {})
           firstLen   == inner + (IF given THEN out ELSE 0)
           three      == Buffer("im_mul_im", signals)
                         \o Buffer("im_mul_re", signals)
                         \o Buffer("re_mul_im", signals)
           threeNames == {"im_mul_im"} \cup {"im_mul_re"} \cup {"re_mul_im"}
           threeLen   == signals + signals + signals
           last  == Buffer("re_mul_re", signals)
           then  == When(parted, three \o last)
           thenNames == IF parted THEN threeNames \cup {"re_mul_re"} ELSE {}
           thenLen   == IF parted THEN threeLen + signals ELSE 0
           Y     == firstNames \cup thenNames
           W     == Sizes(p).workspace
           front == Forward(Workspace, head)
           back  == Backward(Move(Workspace, W), first \o then)
           full  == With(front, [input_contiguous |-> Input(p)])
           rest  == [input_pad |-> full["input_contiguous"],
                     output_contiguous |-> Output(p)]
           a     == With(With(back, full), rest)
<1>1. /\ p.batch \in Nat /\ p.n[1] \in Nat /\ p.inembed[1] \in Nat
      /\ p.onembed = p.n /\ inner \in Nat
  BY HalfLengths DEF IsMeasured
<1>2. /\ signals \in Nat /\ two = signals + signals /\ in \in Nat
      /\ out \in Nat /\ two \in Nat /\ half \in Nat /\ half <= two
      /\ mirror \in Nat /\ half + mirror = two
      /\ four = two + two /\ four \in Nat
      /\ parted => two <= inner
  <2>1. signals \in Nat /\ half \in Nat /\ half <= two
    BY HalfLengths
  <2>2. in \in Nat /\ out = signals
    BY <1>1 DEF C
  <2>3. parted => 2 * R * p.batch * p.n[1] <= inner
    BY DEF IsMeasured
  <2>4. 2 * R * p.batch * p.n[1] = two
    BY <1>1 DEF R
  <2> HIDE DEF signals, half, in, out, inner, parted
  <2> QED BY <2>1, <2>2, <2>3, <2>4
<1>3. W = Length(sizes) + inner
  BY DEF Sizes, C2RSizes, makeIRFFT1dPolicy
<1>4. /\ L["input_contiguous"] = in /\ L["input_pad"] = half
      /\ L["input_transed"] = half /\ L["input_reversed"] = mirror
      /\ L["input_merged"] = two /\ L["internal"] = inner
      /\ L["output_contiguous"] = out /\ L["im_mul_im"] = signals
      /\ L["im_mul_re"] = signals /\ L["re_mul_im"] = signals
      /\ L["re_mul_re"] = signals
  OBVIOUS
<1>5. /\ M["in"] = in /\ M["pad"] = half /\ M["merged"] = two
      /\ M["transed"] = two /\ M["products"] = four /\ M["out"] = out
  OBVIOUS
<1>6. W = Sizes(p).workspace
  OBVIOUS
<1> HIDE DEF signals, half, two, four, mirror, in, out, inner, parted, copied,
             padded, given, L, M, W
<1>7. W = (IF copied THEN in ELSE 0) + (IF padded THEN half ELSE 0)
          + (IF parted THEN two + two + four ELSE 0)
          + (IF given THEN out ELSE 0) + inner
  <2> DEFINE inside == Buffer("merged", two) \o Buffer("transed", two)
                       \o Buffer("products", four)
             names  == {"merged"} \cup {"transed"} \cup {"products"}
             len    == two + two + four
  <2>1. /\ Fill(Buffer("in", in), {"in"}, M, in)
        /\ Fill(Buffer("pad", half), {"pad"}, M, half)
        /\ Fill(Buffer("merged", two), {"merged"}, M, two)
        /\ Fill(Buffer("transed", two), {"transed"}, M, two)
        /\ Fill(Buffer("products", four), {"products"}, M, four)
        /\ Fill(Buffer("out", out), {"out"}, M, out)
    BY <1>2, <1>5, FillBuffer
  <2>2. Fill(inside, names, M, len)
    BY <2>1, FillConcat
  <2> HIDE DEF inside, names, len
  <2>3. Fill(When(copied, Buffer("in", in))
             \o When(padded, Buffer("pad", half))
             \o When(parted, inside) \o When(given, Buffer("out", out)),
             (IF copied THEN {"in"} ELSE {})
             \cup (IF padded THEN {"pad"} ELSE {})
             \cup (IF parted THEN names ELSE {})
             \cup (IF given THEN {"out"} ELSE {}),
             M, (IF copied THEN in ELSE 0) + (IF padded THEN half ELSE 0)
                + (IF parted THEN len ELSE 0) + (IF given THEN out ELSE 0))
    BY <2>1, <2>2, FillWhen, FillConcat
  <2>4. Length(sizes) = (IF copied THEN in ELSE 0)
                        + (IF padded THEN half ELSE 0)
                        + (IF parted THEN len ELSE 0)
                        + (IF given THEN out ELSE 0)
    BY <2>3 DEF Fill, inside
  <2> HIDE DEF sizes
  <2> QED BY <1>3, <2>4 DEF len
<1>8. /\ Fill(Buffer("input_contiguous", in), {"input_contiguous"}, L, in)
      /\ Fill(Buffer("input_pad", half), {"input_pad"}, L, half)
      /\ Fill(Buffer("input_transed", half), {"input_transed"}, L, half)
      /\ Fill(Buffer("input_reversed", mirror), {"input_reversed"}, L, mirror)
      /\ Fill(Buffer("input_merged", two), {"input_merged"}, L, two)
      /\ Fill(Buffer("internal", inner), {"internal"}, L, inner)
      /\ Fill(Buffer("output_contiguous", out), {"output_contiguous"}, L, out)
      /\ Fill(Buffer("im_mul_im", signals), {"im_mul_im"}, L, signals)
      /\ Fill(Buffer("im_mul_re", signals), {"im_mul_re"}, L, signals)
      /\ Fill(Buffer("re_mul_im", signals), {"re_mul_im"}, L, signals)
      /\ Fill(last, {"re_mul_re"}, L, signals)
  BY <1>1, <1>2, <1>4, FillBuffer
<1>9. Fill(more, moreNames, L, moreLen) /\ Fill(three, threeNames, L, threeLen)
  BY <1>8, FillConcat
<1>10. Fill(first, firstNames, L, firstLen)
  BY <1>8, FillWhen, FillConcat
<1>11. /\ W \in Nat /\ T \in Nat /\ firstLen \in Nat /\ threeLen \in Nat
       /\ thenLen \in Nat
       /\ T <= W /\ firstLen + thenLen <= W
       /\ parted => /\ four <= firstLen + threeLen + signals
                    /\ firstLen + threeLen + signals <= W
                    /\ two <= half + (W - T)
  BY <1>1, <1>2, <1>7
<1>12. /\ X \cap Y = {}
       /\ {"input_contiguous", "input_pad"} \cap Y = {}
       /\ "output_contiguous" \notin X
       /\ "re_mul_re" \notin firstNames \cup threeNames
       /\ "input_contiguous" \in X <=> copied
       /\ "input_pad" \in X <=> padded
       /\ "output_contiguous" \in Y <=> given
       /\ parted => /\ "input_transed" \in X /\ "input_reversed" \in X
                    /\ "input_merged" \in X
                    /\ "im_mul_im" \in Y /\ "im_mul_re" \in Y
                    /\ "re_mul_im" \in Y /\ "re_mul_re" \in Y
       /\ "internal" \in Y
  OBVIOUS
<1>13. "input_re" \notin X \cup Y /\ "input_im" \notin X \cup Y
  OBVIOUS
<1> HIDE DEF more, moreNames, moreLen, three, threeNames, threeLen, last, first,
             firstNames, firstLen
<1>14. Fill(head, X, L, T) /\ Fill(then, thenNames, L, thenLen)
  BY <1>8, <1>9, FillWhen, FillConcat
<1> HIDE DEF head, X, T
<1>15. parted => Room(p, back["re_mul_re"], firstLen + threeLen + signals)
  <2> SUFFICES ASSUME parted
               PROVE  Room(p, back["re_mul_re"],
                           firstLen + threeLen + signals)
    OBVIOUS
  <2>7. then = three \o last
    BY DEF When
  <2>1. first \o then = (first \o three) \o last
    <3>1. /\ Fill(first, firstNames, L, firstLen)
          /\ Fill(three, threeNames, L, threeLen)
          /\ Fill(last, {"re_mul_re"}, L, signals)
      BY <1>8, <1>9, <1>10
    <3> HIDE DEF then, thenNames, thenLen, Y, sizes, front, back, full, rest, a
    <3>2. first \o (three \o last) = (first \o three) \o last
      BY ONLY <3>1, Regroup
    <3> QED BY <2>7, <3>2
  <2>2. Fill(first \o three, firstNames \cup threeNames, L, firstLen + threeLen)
    BY <1>9, <1>10, FillConcat
  <2> DEFINE s == first \o three
             N == firstNames \cup threeNames
             U == firstLen + threeLen
  <2>3. U \in Nat /\ U + signals <= Sizes(p).workspace
        /\ Sizes(p).workspace \in Nat /\ "re_mul_re" \notin N
        /\ "re_mul_re" \in {"re_mul_re"}
    BY <1>6, <1>11, <1>12
  <2>4. Fill(s, N, L, U) /\ Fill(last, {"re_mul_re"}, L, signals)
    BY <1>8, <2>2
  <2>5. Move(Workspace, W) = Move(Workspace, Sizes(p).workspace)
        /\ first \o then = s \o last
    BY <1>6, <2>1
  <2> HIDE DEF s, N, U, then
  <2>6. Room(p, Backward(Move(Workspace, Sizes(p).workspace),
                         s \o last)["re_mul_re"], U + L["re_mul_re"])
    BY <2>3, <2>4, RoomBehind
  <2> QED BY <1>4, <2>5, <2>6 DEF U
<1> HIDE DEF then, thenNames, thenLen
<1>16. Fill(first \o then, Y, L, firstLen + thenLen)
  BY <1>10, <1>14, FillConcat
<1> HIDE DEF Y
<1>17. /\ \A x \in X : Room(p, a[x], L[x] + (W - T))
       /\ \A x \in Y : Room(p, a[x], L[x]) /\ a[x] = back[x]
       /\ "input_contiguous" \notin X => a["input_contiguous"] = Input(p)
       /\ "input_pad" \notin X => a["input_pad"] = a["input_contiguous"]
       /\ "output_contiguous" \notin Y => a["output_contiguous"] = Output(p)
  BY <1>6, <1>11, <1>12, <1>14, <1>16, TwoLayouts
<1>18. DOMAIN a = X \cup Y \cup {"input_contiguous", "input_pad",
                                 "output_contiguous"}
  <2>1. DOMAIN front = X
    BY <1>6, <1>11, <1>14, RoomForward
  <2>2. DOMAIN back = Y
    BY <1>6, <1>11, <1>16, RoomBackward
  <2> HIDE DEF front, back
  <2> QED BY <2>1, <2>2, MatmulNames
<1> HIDE DEF a, back
<1>19. /\ "input_re" \notin DOMAIN a /\ "input_im" \notin DOMAIN a
       /\ {"internal", "output_contiguous", "input_contiguous",
           "input_pad"} \subseteq DOMAIN a
       /\ parted => {"input_transed", "input_reversed", "input_merged",
                     "im_mul_im", "im_mul_re", "re_mul_im",
                     "re_mul_re"} \subseteq DOMAIN a
  BY <1>12, <1>13, <1>18
<1>20. /\ Room(p, a["internal"], inner)
       /\ given => Room(p, a["output_contiguous"], out)
       /\ ~ given => a["output_contiguous"] = Output(p)
       /\ parted => /\ Room(p, a["im_mul_im"], signals)
                    /\ Room(p, a["im_mul_re"], signals)
                    /\ Room(p, a["re_mul_im"], signals)
  BY <1>4, <1>12, <1>17
<1>21. parted => Room(p, a["re_mul_re"], four)
  <2>1. parted => Room(p, a["re_mul_re"], firstLen + threeLen + signals)
    BY <1>12, <1>15, <1>17
  <2> QED BY <1>2, <1>11, <2>1, RoomLess
<1>22. ASSUME NEW x \in X, L[x] \in Nat PROVE Room(p, a[x], L[x])
  <2>1. L[x] <= L[x] + (W - T)
    BY <1>11, <1>22
  <2> QED BY <1>17, <1>22, <2>1, RoomLess
<1>23. /\ copied => Room(p, a["input_contiguous"], in)
       /\ padded => Room(p, a["input_pad"], half)
       /\ parted => /\ Room(p, a["input_reversed"], mirror)
                    /\ Room(p, a["input_merged"], two)
       /\ ~ copied => a["input_contiguous"] = Input(p)
       /\ ~ padded => a["input_pad"] = a["input_contiguous"]
  BY <1>2, <1>4, <1>12, <1>17, <1>22
<1>24. parted => Room(p, a["input_transed"], two)
  <2>1. parted => Room(p, a["input_transed"], half + (W - T))
    BY <1>4, <1>12, <1>17
  <2> QED BY <1>2, <1>11, <2>1, RoomLess
<1> QED BY <1>19, <1>20, <1>21, <1>23, <1>24
        DEF a, rest, full, front, back, head, more, first, then, three, last,
            signals, half, two, four, mirror, in, out, inner, parted, copied,
            padded, given, W

\* makeIRFFT1dPolicy and configureIRFFT1dMatmulWorkspaceAddrs agree.
LEMMA HalfMatmulAgree ==
  ASSUME NEW p, IsMeasured(p), p.kind = "c2r", p.rank = 1, p.prime
  PROVE  HalfMatmulRoom(p, configureIRFFT1dMatmulWorkspaceAddrs(p))
<1> DEFINE signals == R * p.batch * p.n[1]
           half    == C * p.batch * Half(p.n[1])
           in      == C * p.batch * p.inembed[1]
           out     == R * p.batch * p.onembed[1]
           parted  == ~ (p.strategy = "matmul")
           copied  == ~ p.inDense
           padded  == p.inembed # HalfDims(p.n)
           given   == ~ p.outDense
           front == Forward(Workspace,
                      When(copied, Buffer("input_contiguous", in))
                      \o When(padded, Buffer("input_pad", half))
                      \o When(parted, Buffer("input_transed", half)
                           \o Buffer("input_reversed", 2 * signals - half)
                           \o Buffer("input_merged", 2 * signals)))
           back  == Backward(Move(Workspace, Sizes(p).workspace),
                      Buffer("internal", p.internal)
                      \o When(given, Buffer("output_contiguous", out))
                      \o When(parted, Buffer("im_mul_im", signals)
                                      \o Buffer("im_mul_re", signals)
                                      \o Buffer("re_mul_im", signals)
                                      \o Buffer("re_mul_re", signals)))
           full  == With(front, [input_contiguous |-> Input(p)])
           a     == With(With(back, full),
                         [input_pad |-> full["input_contiguous"],
                          output_contiguous |-> Output(p)])
           by_L  == a["input_transed"]
           more  == [input_re |-> by_L, input_im |-> Move(by_L, signals)]
           b     == configureIRFFT1dMatmulWorkspaceAddrs(p)
<1>1. b = IF parted THEN With(a, more) ELSE a
  BY DEF configureIRFFT1dMatmulWorkspaceAddrs, Sizes
<1>2. /\ Room(p, a["internal"], p.internal)
      /\ given => Room(p, a["output_contiguous"], out)
      /\ ~ given => a["output_contiguous"] = Output(p)
      /\ parted =>
           /\ Room(p, a["im_mul_im"], signals)
           /\ Room(p, a["im_mul_re"], signals)
           /\ Room(p, a["re_mul_im"], signals)
           /\ Room(p, a["re_mul_re"], 4 * signals)
           /\ Room(p, a["input_transed"], 2 * signals)
           /\ Room(p, a["input_reversed"], 2 * signals - half)
           /\ Room(p, a["input_merged"], 2 * signals)
      /\ copied => Room(p, a["input_contiguous"], in)
      /\ ~ copied => a["input_contiguous"] = Input(p)
      /\ padded => Room(p, a["input_pad"], half)
      /\ ~ padded => a["input_pad"] = a["input_contiguous"]
      /\ "input_re" \notin DOMAIN a /\ "input_im" \notin DOMAIN a
      /\ {"internal", "output_contiguous", "input_contiguous",
          "input_pad"} \subseteq DOMAIN a
      /\ parted => {"input_transed", "input_reversed", "input_merged",
                    "im_mul_im", "im_mul_re", "re_mul_im",
                    "re_mul_re"} \subseteq DOMAIN a
  BY ZenonT(40), HalfMatmulLayout
<1> HIDE DEF a, front, back, full, b
<1>3. /\ DOMAIN more = {"input_re", "input_im"}
      /\ more["input_re"] = by_L /\ more["input_im"] = Move(by_L, signals)
  OBVIOUS
<1> HIDE DEF more
<1>4. /\ \A x \in DOMAIN a : b[x] = a[x]
      /\ parted => b["input_re"] = by_L /\ b["input_im"] = Move(by_L, signals)
  <2>1. "input_re" \notin DOMAIN a /\ "input_im" \notin DOMAIN a
    BY <1>2
  <2> HIDE DEF by_L, parted, signals
  <2>2. /\ \A x \in DOMAIN a : With(a, more)[x] = a[x]
        /\ \A x \in DOMAIN more \ DOMAIN a : With(a, more)[x] = more[x]
    BY Merge
  <2>5. /\ With(a, more)["input_re"] = by_L
        /\ With(a, more)["input_im"] = Move(by_L, signals)
    BY <1>3, <2>1, <2>2
  <2>3. CASE parted
    BY <1>1, <2>2, <2>3, <2>5
  <2>4. CASE ~ parted
    BY <1>1, <2>4
  <2> QED BY <2>3, <2>4
<1> HIDE DEF by_L
<1>5. /\ b["internal"] = a["internal"]
      /\ b["output_contiguous"] = a["output_contiguous"]
      /\ b["input_contiguous"] = a["input_contiguous"]
      /\ b["input_pad"] = a["input_pad"]
      /\ parted => \A x \in {"input_transed", "input_reversed", "input_merged",
                             "im_mul_im", "im_mul_re", "re_mul_im",
                             "re_mul_re"} : b[x] = a[x]
  BY <1>2, <1>4
<1>6. parted => Room(p, b["input_re"], 2 * signals)
                /\ Room(p, b["input_im"], signals)
  <2>1. signals \in Nat
    BY HalfLengths
  <2> HIDE DEF signals
  <2>2. signals + signals <= 2 * signals
    BY <2>1
  <2>3. parted => Room(p, by_L, 2 * signals)
    BY <1>2 DEF by_L
  <2> QED BY <1>4, <2>1, <2>2, <2>3, RoomMove
<1>7. /\ IsGiven(p) /\ C \in Units /\ R \in Units
      /\ InUnit(p) = C /\ OutUnit(p) = R
      /\ p.onembed = p.n
  BY MeasuredIsGiven DEF InUnit, OutUnit, Units, IsMeasured
<1>8. Takes(p, Input(p), C, p.inembed) /\ Takes(p, Output(p), R, p.onembed)
  BY <1>7, GivenTakes
<1>9. /\ p.inembed \in Dims(1) /\ p.n \in Dims(1) /\ HalfDims(p.n) \in Dims(1)
      /\ p.inembed[1] \in Nat /\ p.onembed[1] \in Nat /\ Half(p.n[1]) \in Nat
      /\ p.inembed[1] <= p.inembed[1] /\ p.onembed[1] <= p.onembed[1]
      /\ HalfDims(p.n)[1] <= Half(p.n[1]) /\ p.onembed \in Dims(1)
  BY <1>7, HalfLengths
<1>10. Takes(p, a["input_contiguous"], C, p.inembed)
  BY <1>2, <1>7, <1>8, <1>9, BufferTakes DEF in
<1>11. Takes(p, a["output_contiguous"], R, p.onembed)
  BY <1>2, <1>7, <1>8, <1>9, BufferTakes DEF out
<1>12. Takes(p, a["input_pad"], C, HalfDims(p.n))
  <2>1. CASE padded
    <3>1. Room(p, a["input_pad"], C * p.batch * Half(p.n[1]))
      BY <1>2, <2>1
    <3> QED BY <1>7, <1>9, <3>1, BufferTakes
  <2>2. CASE ~ padded
    BY <1>2, <1>10, <2>2
  <2> QED BY <2>1, <2>2
<1>13. /\ Room(p, b["internal"], p.internal)
       /\ Takes(p, b["output_contiguous"], R, p.onembed)
       /\ Takes(p, b["input_contiguous"], C, p.inembed)
       /\ Takes(p, b["input_pad"], C, HalfDims(p.n))
  BY <1>2, <1>5, <1>10, <1>11, <1>12
<1>14. parted =>
         /\ Room(p, b["input_transed"], 2 * signals)
         /\ Room(p, b["input_reversed"], 2 * signals - half)
         /\ Room(p, b["input_merged"], 2 * signals)
         /\ \A x \in {"im_mul_im", "im_mul_re", "re_mul_im"} :
              Room(p, b[x], signals)
         /\ Room(p, b["re_mul_re"], 4 * signals)
  <2> HIDE DEF signals, half
  <2> QED BY <1>2, <1>5
<1> QED BY <1>6, <1>13, <1>14 DEF HalfMatmulRoom, b

\* The matrices of the complex-to-real kind.
LEMMA HalfIdftSafe ==
  ASSUME NEW p, IsMeasured(p), p.kind = "c2r", p.rank = 1, p.prime
  PROVE  /\ p.strategy = "matmul" =>
              Inside(p, Tables(HalfIdftMatrices(p), {"dft"}))
         /\ p.strategy # "matmul" =>
              \A names \in SUBSET {"dft_re", "dft_im"} :
                Inside(p, Tables(HalfIdftMatrices(p), names))
         /\ Safe(p, setIRFFT1dReserveArea(p))
<1> DEFINE whole  == C * p.n[1] * Half(p.n[1])
           square == R * p.L * p.L
           matmul == p.strategy = "matmul"
           W      == Sizes(p).reserve
           s      == IF matmul THEN Buffer("dft", whole)
                     ELSE Buffer("dft_re", square) \o Buffer("dft_im", square)
<1>1. whole \in Nat /\ square \in Nat /\ 2 * R * p.L * p.L = square + square
  <2>1. p.n[1] \in Nat /\ p.L \in Nat
    BY SizeOf DEF IsMeasured, IsTransform
  <2>2. Half(p.n[1]) \in Nat
    BY <2>1 DEF Half
  <2>3. square \in Nat /\ 2 * R * p.L * p.L = square + square
    BY <2>1 DEF R
  <2>4. whole \in Nat
    BY <2>1, <2>2 DEF C
  <2> QED BY <2>3, <2>4
<1>2. W = IF matmul THEN whole ELSE square + square
  BY <1>1 DEF Sizes, C2RSizes, makeIRFFT1dPolicy
<1>3. HalfIdftMatrices(p) = s
  BY DEF HalfIdftMatrices
<1> HIDE DEF whole, square, matmul, W
<1>4. /\ matmul => Inside(p, Tables(s, {"dft"}))
      /\ ~ matmul => \A names \in SUBSET {"dft_re", "dft_im"} :
                       Inside(p, Tables(s, names))
      /\ Safe(p, Stage({}, Tables(s, Names(s))))
  BY <1>1, <1>2, HalfMatrices DEF W
<1> HIDE DEF s
<1> QED BY <1>3, <1>4 DEF setIRFFT1dReserveArea, matmul

\* The two halves of a batch fit where twice one does.
LEMMA InsideHalves ==
  ASSUME NEW p, NEW a, NEW len \in Nat, Room(p, a, 2 * len), NEW name
  PROVE  Inside(p, Halves(a, len, name))
<1>1. len <= 2 * len /\ len + len <= 2 * len
  OBVIOUS
<1>2. Room(p, a, len) /\ Room(p, Move(a, len), len)
  BY <1>1, RoomLess, RoomMove
<1> DEFINE re == Holds(a, len, Value("re " \o name, <<>>))
           im == Holds(Move(a, len), len, Value("im " \o name, <<>>))
<1>3. Inside(p, {re}) /\ Inside(p, {im})
  BY <1>2, RoomHolds
<1>4. Halves(a, len, name) = {re} \cup {im}
  BY DEF Halves
<1> HIDE DEF re, im
<1> QED BY <1>3, <1>4, InsideBoth

\* mergeIRFFT1dInput mirrors the half in the buffers it is given.
LEMMA HalfMergeSafe ==
  ASSUME NEW p, IsMeasured(p), p.kind = "c2r", p.rank = 1, p.prime, NEW a,
         HalfMatmulRoom(p, a)
  PROVE  /\ Safe(p, mergeIRFFT1dInput(p, a))
         /\ Safe(p, transposeIRFFT1dPaddedInput(p, a))
<1> DEFINE signals == R * p.batch * p.n[1]
           half == R * p.batch * Half(p.n[1])
           rest == signals - half
           used == Scratch(a["internal"], CnnlSpace)
           x    == Dense(p, a["input_pad"], C, HalfSignal(p))
           w1   == Halves(a["input_transed"], half, "half")
           w2   == Halves(a["input_reversed"], rest, "reversed")
           w3   == Halves(a["input_reversed"], rest, "mirrored")
           w4   == Halves(a["input_merged"], half + rest, "x")
           v1   == Halves(a["input_merged"], signals, "x")
           v2   == Halves(a["input_re"], signals, "by L")
<1>1. Inside(p, used) /\ Inside(p, x)
  <2>1. HalfSignal(p).dims = HalfDims(p.n)
    BY DEF HalfSignal, Signal, Value
  <2> QED BY <2>1, InternalRoom, InsideSignals DEF HalfMatmulRoom
<1>2. /\ half \in Nat /\ signals \in Nat /\ rest \in Nat /\ half <= signals
      /\ half + rest = signals /\ 2 * half <= 2 * signals
      /\ C * p.batch * Half(p.n[1]) = 2 * half
      /\ 2 * signals - 2 * half = 2 * rest /\ 2 * half \in Nat
  <2>1. /\ half \in Nat /\ signals \in Nat /\ half <= signals
        /\ C * p.batch * Half(p.n[1]) = 2 * half
    BY HalfLengths
  <2> HIDE DEF half, signals
  <2> QED BY <2>1
<1>3. ASSUME p.strategy # "matmul"
      PROVE  /\ Inside(p, w1) /\ Inside(p, w2) /\ Inside(p, w3)
             /\ Inside(p, w4) /\ Inside(p, v1) /\ Inside(p, v2)
  <2>1. /\ Room(p, a["input_transed"], 2 * signals)
        /\ Room(p, a["input_reversed"], 2 * signals - 2 * half)
        /\ Room(p, a["input_merged"], 2 * signals)
        /\ Room(p, a["input_re"], 2 * signals)
    BY <1>2, <1>3 DEF HalfMatmulRoom
  <2> HIDE DEF signals, half, rest
  <2>2. Room(p, a["input_transed"], 2 * half)
    BY <1>2, <2>1, RoomLess
  <2> QED BY <1>2, <2>1, <2>2, InsideHalves
<1>4. Safe(p, mergeIRFFT1dInput(p, a))
  <2>1. mergeIRFFT1dInput(p, a) =
          When(p.strategy # "matmul",
               Stage(x, used \cup w1) \o Stage(w1, w2)
               \o Stage(w2, used \cup w3) \o Stage(w1 \cup w3, used \cup w4))
    BY DEF mergeIRFFT1dInput
  <2> HIDE DEF x, used, w1, w2, w3, w4, v1, v2
  <2>2. ASSUME p.strategy # "matmul"
        PROVE  /\ Safe(p, Stage(x, used \cup w1)) /\ Safe(p, Stage(w1, w2))
               /\ Safe(p, Stage(w2, used \cup w3))
               /\ Safe(p, Stage(w1 \cup w3, used \cup w4))
    BY <1>1, <1>3, <2>2, InsideBoth, SafeStage
  <2>3. p.strategy # "matmul" =>
          Safe(p, Stage(x, used \cup w1) \o Stage(w1, w2)
               \o Stage(w2, used \cup w3) \o Stage(w1 \cup w3, used \cup w4))
    BY <2>2, SafeConcat
  <2> QED BY <2>1, <2>3, SafeNothing DEF When
<1>5. Safe(p, transposeIRFFT1dPaddedInput(p, a))
  <2>1. transposeIRFFT1dPaddedInput(p, a) =
          When(p.strategy = "cooley", Stage(v1, used \cup v2))
    BY DEF transposeIRFFT1dPaddedInput
  <2> HIDE DEF x, used, w1, w2, w3, w4, v1, v2
  <2>2. p.strategy = "cooley" => Inside(p, v1) /\ Inside(p, v2)
    BY <1>3
  <2>3. p.strategy = "cooley" => Inside(p, used \cup v2)
    BY <1>1, <2>2, InsideBoth
  <2>4. p.strategy = "cooley" => Safe(p, Stage(v1, used \cup v2))
    BY <2>2, <2>3, SafeStage
  <2> QED BY <2>1, <2>4, SafeNothing DEF When
<1> QED BY <1>4, <1>5

\* Multiplying, and merging the products.
LEMMA HalfProductsSafe ==
  ASSUME NEW p, IsMeasured(p), p.kind = "c2r", p.rank = 1, p.prime, NEW a,
         HalfMatmulRoom(p, a)
  PROVE  /\ Safe(p, computeIRFFT1dMatmulResult(p, a))
         /\ Safe(p, mergeIRFFT1dOutput(p, a))
<1> DEFINE signals == R * p.batch * p.n[1]
           used == Scratch(a["internal"], CnnlSpace)
           room == Scratch(a["internal"], 2 * R * p.batch * p.n[1])
           x    == Dense(p, a["input_pad"], C, HalfSignal(p))
           y    == Dense(p, a["output_contiguous"], R,
                         Scaled(p, Result(p.n)))
           all  == {Holds(a["re_mul_re"], 4 * signals, Part(p, "products"))}
           most == {Holds(a["re_mul_re"], 4 * R * p.batch * p.n[1],
                          Part(p, "products"))}
           given == Halves(a["input_merged"], signals, "x")
           one(q)     == {Holds(a[InputOf[q]], signals,
                                Value(q \o " by L", <<>>))}
           part(q, w) == Reals(p, a[ProductOf[q][w]],
                               Scaled(p, Part(p, q \o "*" \o w)))
           matrix(names) == Tables(HalfIdftMatrices(p), names)
           product(q, w) == Stage(one(q) \cup matrix({MatrixOf[w]}),
                                  used \cup part(q, w))
<1>1. p.strategy \in MatmulStrategies /\ p.onembed = p.n
  BY DEF IsMeasured, IsTransform
<1>2. Inside(p, used) /\ (p.strategy # "matmul" => Inside(p, room))
  BY InternalRoom DEF HalfMatmulRoom
<1>3. Inside(p, x) /\ Inside(p, y)
  <2>1. HalfSignal(p).dims = HalfDims(p.n)
    BY DEF HalfSignal, Signal, Value
  <2>2. Result(p.n) = Value("y", p.onembed)
    BY <1>1 DEF Result
  <2>3. Scaled(p, Result(p.n)).dims = p.onembed
    BY <2>2, ValueDims
  <2> QED BY <2>1, <2>3, InsideSignals DEF HalfMatmulRoom
<1>4. ASSUME p.strategy # "matmul"
      PROVE  /\ Inside(p, all) /\ Inside(p, most) /\ Inside(p, given)
             /\ \A q \in {"re", "im"} : Inside(p, one(q))
             /\ \A q, w \in {"re", "im"} : Inside(p, part(q, w))
  <2>1. /\ Room(p, a["input_merged"], 2 * signals)
        /\ Room(p, a["input_re"], 2 * signals)
        /\ Room(p, a["input_im"], signals)
        /\ \A z \in {"im_mul_im", "im_mul_re", "re_mul_im"} :
             Room(p, a[z], signals)
        /\ Room(p, a["re_mul_re"], 4 * signals)
    BY <1>4 DEF HalfMatmulRoom
  <2>2. signals \in Nat /\ 4 * R * p.batch * p.n[1] = 4 * signals
    <3>1. p.batch \in Nat /\ p.n[1] \in Nat
      BY SizeOf DEF IsMeasured, IsTransform
    <3> QED BY <3>1 DEF R
  <2>3. signals = R * p.batch * p.n[1]
    OBVIOUS
  <2>4. signals <= 2 * signals /\ signals <= 4 * signals
    <3> HIDE DEF signals
    <3> QED BY <2>2
  <2>5. Room(p, a["input_re"], signals) /\ Room(p, a["re_mul_re"], signals)
    BY <2>1, <2>2, <2>4, RoomLess
  <2>6. Inside(p, all) /\ Inside(p, most)
    BY <2>1, <2>2, RoomHolds
  <2>7. Inside(p, given)
    BY <2>1, <2>2, InsideHalves
  <2>8. InputOf["re"] = "input_re" /\ InputOf["im"] = "input_im"
    BY DEF InputOf
  <2>9. /\ ProductOf["re"]["re"] = "re_mul_re"
        /\ ProductOf["re"]["im"] = "re_mul_im"
        /\ ProductOf["im"]["re"] = "im_mul_re"
        /\ ProductOf["im"]["im"] = "im_mul_im"
    BY DEF ProductOf
  <2>10. ASSUME NEW q \in {"re", "im"} PROVE Inside(p, one(q))
    <3>1. Room(p, a[InputOf[q]], signals)
      BY <2>1, <2>5, <2>8
    <3> QED BY <3>1, RoomHolds
  <2>11. ASSUME NEW q \in {"re", "im"}, NEW w \in {"re", "im"}
         PROVE  Inside(p, part(q, w))
    <3>1. Room(p, a[ProductOf[q][w]], signals)
      BY <2>1, <2>5, <2>9
    <3> QED BY <2>3, <3>1, InsideReals
  <2> HIDE DEF all, most, given, one, part
  <2> QED BY <2>6, <2>7, <2>10, <2>11
<1>5. /\ p.strategy = "matmul" => Inside(p, matrix({"dft"}))
      /\ p.strategy # "matmul" =>
           /\ Inside(p, matrix({"dft_re", "dft_im"}))
           /\ \A w \in {"re", "im"} : Inside(p, matrix({MatrixOf[w]}))
  <2>1. MatrixOf["re"] = "dft_re" /\ MatrixOf["im"] = "dft_im"
    BY DEF MatrixOf
  <2>2. \A w \in {"re", "im"} : {MatrixOf[w]} \in SUBSET {"dft_re", "dft_im"}
    BY <2>1
  <2> QED BY <2>2, HalfIdftSafe
<1>6. ASSUME p.strategy # "matmul", NEW q \in {"re", "im"},
             NEW w \in {"re", "im"}
      PROVE  Safe(p, product(q, w))
  <2> HIDE DEF one, matrix, used, part
  <2>1. Inside(p, one(q)) /\ Inside(p, part(q, w))
        /\ Inside(p, matrix({MatrixOf[w]}))
    BY <1>4, <1>5, <1>6
  <2> QED BY <1>2, <2>1, InsideBoth, SafeStage
<1>7. Safe(p, computeIRFFT1dMatmulResult(p, a))
  <2>1. CASE p.strategy = "matmul"
    <3>1. computeIRFFT1dMatmulResult(p, a) =
            Stage(x \cup matrix({"dft"}), used \cup y)
      BY <2>1 DEF computeIRFFT1dMatmulResult
    <3> HIDE DEF x, used, matrix, y
    <3> QED BY <1>2, <1>3, <1>5, <2>1, <3>1, InsideBoth, SafeStage
  <2>2. CASE p.strategy = "cooley"
    <3>1. computeIRFFT1dMatmulResult(p, a) =
            product("re", "re") \o product("im", "im")
            \o product("re", "im") \o product("im", "re")
      BY <2>2 DEF computeIRFFT1dMatmulResult
    <3> HIDE DEF product
    <3>2. /\ Safe(p, product("re", "re")) /\ Safe(p, product("im", "im"))
          /\ Safe(p, product("re", "im")) /\ Safe(p, product("im", "re"))
      BY <1>6, <2>2
    <3> QED BY <3>1, <3>2, SafeConcat
  <2>3. CASE p.strategy = "stockham"
    <3>1. computeIRFFT1dMatmulResult(p, a) =
            Stage(given \cup matrix({"dft_re", "dft_im"}), used \cup all)
      BY <2>3 DEF computeIRFFT1dMatmulResult
    <3> HIDE DEF given, used, matrix, all
    <3> QED BY <1>2, <1>4, <1>5, <2>3, <3>1, InsideBoth, SafeStage
  <2> QED BY <1>1, <2>1, <2>2, <2>3 DEF MatmulStrategies
<1>8. Safe(p, mergeIRFFT1dOutput(p, a))
  <2>1. CASE p.strategy = "matmul"
    BY <2>1, SafeNothing DEF mergeIRFFT1dOutput
  <2>2. CASE p.strategy = "cooley"
    <3> DEFINE four == UNION {part(q, w) : q \in {"re", "im"},
                                           w \in {"re", "im"}}
    <3>1. mergeIRFFT1dOutput(p, a) = Stage(four, room \cup y)
      BY <2>2 DEF mergeIRFFT1dOutput
    <3>2. Inside(p, four)
      <4> HIDE DEF part, signals, used, room, x, y, all, most, given, one,
                   matrix, product
      <4>1. ASSUME NEW h \in four PROVE Within(p, h.at)
        <5>1. PICK q \in {"re", "im"}, w \in {"re", "im"} : h \in part(q, w)
          BY <4>1
        <5>2. Inside(p, part(q, w))
          BY <1>4, <2>2
        <5> QED BY <5>1, <5>2 DEF Inside
      <4> QED BY <4>1 DEF Inside
    <3> HIDE DEF room, y, four
    <3> QED BY <1>2, <1>3, <2>2, <3>1, <3>2, InsideBoth, SafeStage
  <2>3. CASE p.strategy = "stockham"
    <3>1. mergeIRFFT1dOutput(p, a) = Stage(most, room \cup y)
      BY <2>3 DEF mergeIRFFT1dOutput
    <3> HIDE DEF room, y, most
    <3> QED BY <1>2, <1>3, <1>4, <2>3, <3>1, InsideBoth, SafeStage
  <2> QED BY <1>1, <2>1, <2>2, <2>3 DEF MatmulStrategies
<1> QED BY <1>7, <1>8

\* Execution of a transform to real numbers by matrix products.
LEMMA HalfMatmulSafe ==
  ASSUME NEW p, IsMeasured(p), p.kind = "c2r", p.rank = 1, p.prime
  PROVE  Safe(p, execIRFFTMatmul1d(p))
<1> DEFINE a  == configureIRFFT1dMatmulWorkspaceAddrs(p)
           s1 == When(~ p.inDense,
                      CopyIn(p, a["input_contiguous"], C, p.inembed))
           s2 == When(p.inembed # HalfDims(p.n),
                      Fit(p, a["input_contiguous"], p.inembed,
                          a["input_pad"], HalfDims(p.n), C))
           s3 == mergeIRFFT1dInput(p, a)
           s4 == transposeIRFFT1dPaddedInput(p, a)
           s5 == computeIRFFT1dMatmulResult(p, a)
           s6 == mergeIRFFT1dOutput(p, a)
           s7 == CopyOut(p, a["output_contiguous"], R, Scaled(p, Result(p.n)))
<1>1. execIRFFTMatmul1d(p) = s1 \o s2 \o s3 \o s4 \o s5 \o s6 \o s7
  BY DEF execIRFFTMatmul1d
<1>2. HalfMatmulRoom(p, a)
  BY HalfMatmulAgree
<1> HIDE DEF a
<1>3. /\ IsGiven(p) /\ C = InUnit(p) /\ R = OutUnit(p)
      /\ Result(p.n) = Result(p.onembed)
  BY MeasuredIsGiven DEF IsMeasured, InUnit, OutUnit
<1>4. /\ Takes(p, a["output_contiguous"], R, p.onembed)
      /\ Takes(p, a["input_contiguous"], C, p.inembed)
      /\ Takes(p, a["input_pad"], C, HalfDims(p.n))
  BY <1>2 DEF HalfMatmulRoom
<1>5. Safe(p, s1) /\ Safe(p, s2)
  BY <1>3, <1>4, SafeCopyIn, SafeFit, SafeWhen
<1>6. Safe(p, s3) /\ Safe(p, s4) /\ Safe(p, s5) /\ Safe(p, s6)
  BY <1>2, HalfMergeSafe, HalfProductsSafe
<1>7. Safe(p, s7)
  BY <1>3, <1>4, SafeCopyOut
<1> HIDE DEF s1, s2, s3, s4, s5, s6, s7
<1> QED BY <1>1, <1>5, <1>6, <1>7, SafeConcat

-----------------------------------------------------------------------------
(* Complex to real, one dimension, by butterflies.                         *)

\* What is read of each signal of the input: no more than half of one, and
\* no more than there is.
LEMMA LikeTheHalf ==
  ASSUME NEW p, IsMeasured(p)
  PROVE  /\ HalfTrimmed(p) \in Dims(p.rank) /\ HalfDims(p.n) \in Dims(p.rank)
         /\ \A i \in 1 .. p.rank : /\ HalfTrimmed(p)[i] <= HalfDims(p.n)[i]
                                   /\ HalfTrimmed(p)[i] <= p.inembed[i]
                                   /\ HalfTrimmed(p)[i] <= p.n[i]
                                   /\ HalfDims(p.n)[i] <= p.n[i]
         /\ ~ BelowHalf(p) => HalfTrimmed(p) = HalfDims(p.n)
         /\ WithinHalf(p) => HalfTrimmed(p) = p.inembed
         /\ p.rank = 1 /\ BelowHalf(p) =>
              HalfTrimmed(p) = p.inembed /\ ~ (Half(p.n[1]) <= p.inembed[1])
<1> DEFINE h == HalfDims(p.n)
           t == HalfTrimmed(p)
<1>1. /\ p.rank \in 1 .. 2 /\ p.n \in Dims(p.rank) /\ p.inembed \in Dims(p.rank)
  BY DEF IsMeasured, IsTransform
<1>2. /\ h \in Dims(p.rank)
      /\ \A i \in 1 .. p.rank : h[i] <= p.n[i]
      /\ p.rank = 1 => h[1] = Half(p.n[1])
  BY <1>1, Halves2
<1>3. t = [i \in 1 .. p.rank |-> IF h[i] < p.inembed[i] THEN h[i]
                                 ELSE p.inembed[i]]
  BY DEF HalfTrimmed
<1>4. \A i \in 1 .. p.rank : h[i] \in Nat \ {0} /\ p.inembed[i] \in Nat \ {0}
                             /\ p.n[i] \in Nat
  BY <1>1, <1>2, SizeOf DEF Dims
<1>5. ~ BelowHalf(p) => t = h
  BY DEF BelowHalf
<1>6. WithinHalf(p) => t = p.inembed
  BY DEF WithinHalf
<1>7. BelowHalf(p) => t # h
  BY DEF BelowHalf
<1> HIDE DEF h, t
<1>8. \A i \in 1 .. p.rank : t[i] = IF h[i] < p.inembed[i] THEN h[i]
                                    ELSE p.inembed[i]
  BY <1>3
<1>9. \A i \in 1 .. p.rank : /\ t[i] \in Nat \ {0} /\ t[i] <= h[i]
                             /\ t[i] <= p.inembed[i]
  BY <1>4, <1>8
<1>10. \A i \in 1 .. p.rank : t[i] <= p.n[i]
  BY <1>2, <1>4, <1>9
<1>11. t \in Dims(p.rank)
  <2>1. t = [i \in 1 .. p.rank |-> t[i]]
    BY <1>3
  <2> QED BY <1>9, <2>1 DEF Dims
<1>12. ASSUME p.rank = 1, BelowHalf(p)
       PROVE  t = p.inembed /\ ~ (Half(p.n[1]) <= p.inembed[1])
  <2>1. /\ h[1] \in Nat /\ p.inembed[1] \in Nat /\ h[1] = Half(p.n[1])
        /\ t[1] = IF h[1] < p.inembed[1] THEN h[1] ELSE p.inembed[1]
    BY <1>2, <1>4, <1>8, <1>12
  <2>2. t[1] # h[1]
    <3>1. t[1] = h[1] => \A i \in 1 .. p.rank : t[i] = h[i]
      BY <1>12
    <3> QED BY <1>2, <1>7, <1>11, <1>12, <3>1, SameDims
  <2>3. t[1] = p.inembed[1] /\ ~ (h[1] <= p.inembed[1])
    BY <2>1, <2>2
  <2>4. \A i \in 1 .. p.rank : t[i] = p.inembed[i]
    BY <1>12, <2>3
  <2>5. t = p.inembed
    BY <1>1, <1>11, <2>4, SameDims
  <2> QED BY <2>1, <2>3, <2>5
<1> QED BY <1>2, <1>5, <1>6, <1>9, <1>10, <1>11, <1>12 DEF h, t

\* Where the kernels read a half input, copied and padded.
LEMMA HalfInput ==
  ASSUME NEW p, IsMeasured(p), p.kind = "c2r", NEW a,
         RealRoom(p, a, ~ (p.inDense /\ WithinHalf(p)), BelowHalf(p))
  PROVE  /\ Takes(p, a["input"], C, HalfTrimmed(p))
         /\ ~ BelowHalf(p) => Takes(p, a["input"], C, HalfDims(p.n))
         /\ BelowHalf(p) => Takes(p, a["input_pad"], C, HalfDims(p.n))
<1>1. /\ p.inembed \in Dims(p.rank) /\ p.rank \in 1 .. 2
      /\ C \in Units /\ InUnit(p) = C
  BY DEF IsMeasured, IsTransform, InUnit, Units
<1>2. /\ HalfTrimmed(p) \in Dims(p.rank) /\ HalfDims(p.n) \in Dims(p.rank)
      /\ \A i \in 1 .. p.rank : /\ HalfTrimmed(p)[i] <= p.n[i]
                                /\ HalfDims(p.n)[i] <= p.n[i]
                                /\ HalfTrimmed(p)[i] <= p.inembed[i]
      /\ ~ BelowHalf(p) => HalfTrimmed(p) = HalfDims(p.n)
  BY LikeTheHalf
<1>3. Takes(p, Input(p), C, p.inembed)
  BY <1>1, MeasuredIsGiven, GivenTakes
<1>4. \A x : Room(p, x, C * p.batch * Size(p.n)) =>
               Takes(p, x, C, HalfDims(p.n)) /\ Takes(p, x, C, HalfTrimmed(p))
  BY <1>1, <1>2, WideTakes
<1>5. Takes(p, Input(p), C, HalfTrimmed(p))
  BY <1>1, <1>2, <1>3, TakesLess
<1>6. a["input"] = Input(p) \/ Room(p, a["input"], C * p.batch * Size(p.n))
  BY DEF RealRoom
<1>7. BelowHalf(p) => Room(p, a["input_pad"], C * p.batch * Size(p.n))
  BY DEF RealRoom
<1> QED BY <1>2, <1>4, <1>5, <1>6, <1>7

\* mluOpAllocateC2R1D and configureIRFFT1dWorkspaceAddrs agree, except on the
\* plans that have no room for a copy.
LEMMA HalfButterflyAgree ==
  ASSUME NEW p, IsMeasured(p), p.kind = "c2r", p.rank = 1, ~ p.prime,
         ~ NoRoomForCopy(p)
  PROVE  RealRoom(p, configureIRFFT1dWorkspaceAddrs(p),
                  ~ (p.inDense /\ WithinHalf(p)), BelowHalf(p))
<1> DEFINE buffer == C * p.batch * p.n[1]
           two    == 2 * buffer
           inA    == ~ (p.inDense /\ Half(p.n[1]) <= p.inembed[1])
           outA   == ~ (p.outDense /\ p.n[1] <= p.onembed[1])
           padA   == p.n # p.inembed
           copied == ~ (p.inDense /\ WithinHalf(p))
           given  == ~ p.outDense
           pad    == Longer(p)
           pads   == BelowHalf(p)
           M      == [buf |-> two, input |-> buffer, output |-> buffer,
                      pad |-> buffer]
           sizes  == Buffer("buf", two) \o When(inA, Buffer("input", buffer))
                     \o When(outA, Buffer("output", buffer))
                     \o When(padA, Buffer("pad", buffer))
           W      == Sizes(p).workspace
           parts  == Buffer("buf", two) \o When(copied, Buffer("input", buffer))
                     \o When(given, Buffer("output", buffer))
                     \o When(pad, Buffer("input_pad", 0))
           a      == With(Forward(Workspace, parts),
                          [input |-> Input(p), output |-> Output(p)])
<1>1. configureIRFFT1dWorkspaceAddrs(p) = a
  BY DEF configureIRFFT1dWorkspaceAddrs
<1>2. /\ p.n[1] \in Nat /\ p.inembed[1] \in Nat /\ p.batch \in Nat
      /\ Size(p.n) = p.n[1]
  BY HalfLengths
<1>3. buffer \in Nat /\ two \in Nat /\ two = buffer + buffer
  BY <1>2 DEF C
<1>4. W = Length(sizes)
  BY DEF Sizes, C2RSizes, AllocateC2R1D
<1>5. /\ copied => inA \/ padA
      /\ given => outA
      /\ pads => inA /\ padA
      /\ pads => pad
  <2>1. pads => pad
    BY BelowIsLonger DEF IsMeasured, IsTransform
  <2>2. pad => padA
    BY LikeTheInput
  <2>3. pads => inA
    BY LikeTheHalf
  <2>4. copied => inA \/ padA
    BY DEF NoRoomForCopy
  <2> QED BY <2>1, <2>2, <2>3, <2>4
<1>6. M["buf"] = two /\ M["input"] = buffer /\ M["output"] = buffer
      /\ M["pad"] = buffer
  OBVIOUS
<1>7. W = Sizes(p).workspace /\ buffer = C * p.batch * Size(p.n)
  BY <1>2
<1> HIDE DEF buffer, two, inA, outA, padA, copied, pad, pads, M, W
<1>8. W = two + (IF inA THEN buffer ELSE 0) + (IF outA THEN buffer ELSE 0)
          + (IF padA THEN buffer ELSE 0)
  <2>1. /\ Fill(Buffer("buf", two), {"buf"}, M, two)
        /\ Fill(Buffer("input", buffer), {"input"}, M, buffer)
        /\ Fill(Buffer("output", buffer), {"output"}, M, buffer)
        /\ Fill(Buffer("pad", buffer), {"pad"}, M, buffer)
    BY <1>3, <1>6, FillBuffer
  <2>2. Fill(sizes, {"buf"} \cup (IF inA THEN {"input"} ELSE {})
                    \cup (IF outA THEN {"output"} ELSE {})
                    \cup (IF padA THEN {"pad"} ELSE {}),
             M, two + (IF inA THEN buffer ELSE 0)
                + (IF outA THEN buffer ELSE 0) + (IF padA THEN buffer ELSE 0))
    BY <2>1, FillWhen, FillConcat
  <2> HIDE DEF sizes
  <2> QED BY <1>4, <2>2 DEF Fill
<1>9. LET U == 2 * buffer + (IF copied THEN buffer ELSE 0)
               + (IF ~ p.outDense THEN buffer ELSE 0)
      IN  U <= W /\ (pads => U + buffer <= W)
  BY <1>3, <1>5, <1>8
<1>10. W \in Nat
  BY <1>3, <1>8
<1>11. RealRoom(p, a, copied, pads)
  BY ZenonT(40), <1>3, <1>5, <1>7, <1>9, <1>10, RealLayout DEF two
<1> QED BY <1>1, <1>11 DEF copied, pads

\* Execution of a transform to real numbers by butterflies.
LEMMA HalfButterflySafe ==
  ASSUME NEW p, IsMeasured(p), p.kind = "c2r", p.rank = 1, ~ p.prime,
         ~ NoRoomForCopy(p)
  PROVE  Safe(p, execIRFFTButterfly1d(p))
<1> DEFINE a  == configureIRFFT1dWorkspaceAddrs(p)
           in == a[IF BelowHalf(p) THEN "input_pad" ELSE "input"]
           y  == Result(p.n)
           copied == ~ (p.inDense /\ WithinHalf(p))
           s1 == When(copied, CopyIn(p, a["input"], C, HalfTrimmed(p)))
           s2 == When(BelowHalf(p),
                      Fit(p, a["input"], p.inembed, a["input_pad"],
                          HalfDims(p.n), C))
           s3 == Butterfly(Tables(RealTables1d(p, 2 * C * p.n[1]),
                                  {"factors", "twiddles", "dft_matrix"}),
                           Dense(p, in, C, HalfSignal(p)),
                           Dense(p, a["output"], R, y),
                           Scratch(a["buf"], 2 * C * p.batch * p.n[1]))
           s4 == Rescale(p, a["output"], R, y)
           s5 == CopyOut(p, a["output"], R, Scaled(p, y))
<1>1. execIRFFTButterfly1d(p) = s1 \o s2 \o s3 \o s4 \o s5
  BY DEF execIRFFTButterfly1d
<1>2. RealRoom(p, a, copied, BelowHalf(p))
  BY HalfButterflyAgree
<1> HIDE DEF a
<1>3. /\ IsGiven(p) /\ C = InUnit(p) /\ R = OutUnit(p)
      /\ y = Result(p.onembed) /\ HalfSignal(p).dims = HalfDims(p.n)
      /\ y.dims = p.onembed
  BY MeasuredIsGiven
     DEF IsMeasured, InUnit, OutUnit, HalfSignal, Result, Signal, Value
<1>4. /\ Takes(p, a["input"], C, HalfTrimmed(p))
      /\ ~ BelowHalf(p) => Takes(p, a["input"], C, HalfDims(p.n))
      /\ BelowHalf(p) => Takes(p, a["input_pad"], C, HalfDims(p.n))
  BY <1>2, HalfInput
<1>5. Takes(p, in, C, HalfDims(p.n))
  BY <1>4
<1>6. Takes(p, a["output"], R, p.onembed)
  BY <1>2, <1>3, RealOutput
<1>7. BelowHalf(p) => HalfTrimmed(p) = p.inembed
  BY LikeTheHalf
<1>8. Inside(p, Scratch(a["buf"], 2 * C * p.batch * p.n[1]))
  <2>1. Size(p.n) = p.n[1]
    BY HalfLengths
  <2> QED BY <1>2, <2>1, RealScratch
<1> HIDE DEF in, y, copied
<1>9. Safe(p, s1)
  BY <1>3, <1>4, SafeCopyIn, SafeWhen
<1>10. Safe(p, s2)
  <2>1. BelowHalf(p) => Takes(p, a["input"], C, p.inembed)
    BY <1>4, <1>7
  <2> QED BY <1>4, <2>1, SafeFit, SafeWhen
<1>11. Safe(p, s3)
  <2>1. /\ Inside(p, Dense(p, in, C, HalfSignal(p)))
        /\ Inside(p, Dense(p, a["output"], R, y))
    BY <1>3, <1>5, <1>6, InsideSignals
  <2>2. Inside(p, Tables(RealTables1d(p, 2 * C * p.n[1]),
                         {"factors", "twiddles", "dft_matrix"}))
    BY RealTablesSafe
  <2> QED BY <1>8, <2>1, <2>2, SafeButterfly
<1>12. Safe(p, s4)
  BY <1>3, <1>6, SafeRescale
<1>13. Safe(p, s5)
  BY <1>3, <1>6, SafeCopyOut
<1> HIDE DEF s1, s2, s3, s4, s5
<1> QED BY <1>1, <1>9, <1>10, <1>11, <1>12, <1>13, SafeConcat

-----------------------------------------------------------------------------
(* Complex to real, two dimensions.                                        *)

\* Halves that exceed the input are halves of something longer than it.
LEMMA BelowDiffers ==
  ASSUME NEW p, IsMeasured(p), BelowHalf(p)
  PROVE  p.n # p.inembed
<1> DEFINE h == HalfDims(p.n)
           t == HalfTrimmed(p)
<1>1. /\ t \in Dims(p.rank) /\ h \in Dims(p.rank) /\ p.rank \in 1 .. 2
      /\ \A i \in 1 .. p.rank : h[i] <= p.n[i]
  BY LikeTheHalf DEF IsMeasured, IsTransform
<1>2. \A i \in 1 .. p.rank : t[i] = IF h[i] < p.inembed[i] THEN h[i]
                                    ELSE p.inembed[i]
  BY DEF HalfTrimmed
<1>3. t # h
  BY DEF BelowHalf
<1>4. \A i \in 1 .. p.rank : h[i] \in Nat /\ p.inembed[i] \in Nat
  BY <1>1, SizeOf DEF IsMeasured, IsTransform
<1> HIDE DEF h, t
<1> SUFFICES ASSUME p.n = p.inembed PROVE FALSE
  OBVIOUS
<1>5. \A i \in 1 .. p.rank : t[i] = h[i]
  BY <1>1, <1>2, <1>4
<1>6. t = h
  BY <1>1, <1>5, SameDims
<1> QED BY <1>3, <1>6

\* mluOpAllocateIRFFT2D and configureIRFFT2dWorkspaceAddrs agree: there is
\* room for what is between the two passes too.
LEMMA HalfAgree2d ==
  ASSUME NEW p, IsMeasured(p), p.kind = "c2r", p.rank = 2
  PROVE  LET a == configureIRFFT2dWorkspaceAddrs(p)
         IN  /\ p.strategy = "many" => RealManyRoom(p, a)
             /\ p.strategy # "many" =>
                  /\ RealRoom(p, a, ~ (p.inDense /\ WithinHalf(p)),
                              BelowHalf(p))
                  /\ Room(p, a["buffer_out"], C * p.batch * Size(p.n))
<1> DEFINE buffer == C * p.batch * Size(p.n)
           two    == 2 * buffer
           given  == p.inDense /\ WithinHalf(p)
           copied == ~ given
           out    == ~ p.outDense
           pad    == BelowHalf(p)
           padA   == p.n # p.inembed
           W      == Sizes(p).workspace
           caller == [input |-> Input(p), output |-> Output(p)]
           many   == (Buffer("buffer_in", 2 * buffer)
                      \o Buffer("buffer_out", 2 * buffer))
                     \o When(pad, Buffer("input_pad", 0))
           most   == Buffer("buf", 2 * buffer)
                     \o When(copied, Buffer("input", buffer))
                     \o When(out, Buffer("output", buffer))
                     \o Buffer("buffer_out", buffer)
           other  == most \o When(pad, Buffer("input_pad", 0))
           L      == [buf |-> two, input |-> buffer, output |-> buffer,
                      buffer_out |-> buffer, input_pad |-> 0]
           X      == {"buf"} \cup (IF copied THEN {"input"} ELSE {})
                     \cup (IF out THEN {"output"} ELSE {})
                     \cup {"buffer_out"}
           U      == two + (IF copied THEN buffer ELSE 0)
                     + (IF out THEN buffer ELSE 0) + buffer
<1>1. configureIRFFT2dWorkspaceAddrs(p) =
        With(Forward(Workspace, IF p.strategy = "many" THEN many ELSE other),
             caller)
  BY DEF configureIRFFT2dWorkspaceAddrs
<1>2. buffer \in Nat
  BY Buffer2d
<1>3. W = (IF p.strategy = "many" THEN 6 * buffer ELSE 2 * buffer)
          + (IF p.strategy # "many" /\ ~ given THEN buffer ELSE 0)
          + (IF p.strategy # "many" /\ ~ p.outDense THEN buffer ELSE 0)
          + (IF p.strategy # "many" THEN 1 * buffer ELSE 0)
          + (IF padA THEN buffer ELSE 0)
  <2>1. W = AllocateReal2D(p, given, 1).workspace
    BY DEF Sizes, C2RSizes, AllocateIRFFT2D
  <2>2. 1 \in {0, 1}
    OBVIOUS
  <2> HIDE DEF W, given
  <2> QED BY <2>1, <2>2, RealSizes2d
<1>4. pad => padA
  BY BelowDiffers
<1>5. W = Sizes(p).workspace /\ buffer = C * p.batch * Size(p.n)
  OBVIOUS
<1>6. /\ L["buf"] = two /\ L["input"] = buffer /\ L["output"] = buffer
      /\ L["buffer_out"] = buffer /\ L["input_pad"] = 0
  OBVIOUS
<1>7. (copied <=> ~ given) /\ (out <=> ~ p.outDense) /\ two = 2 * buffer
  OBVIOUS
<1> HIDE DEF buffer, two, given, copied, out, pad, padA, W, L
<1>8. CASE p.strategy = "many"
  <2>1. W \in Nat /\ 4 * buffer <= W
    BY <1>2, <1>3, <1>8
  <2>2. RealManyRoom(p, With(Forward(Workspace, many), caller))
    BY <1>2, <1>5, <2>1, ManyLayout
  <2> HIDE DEF many, caller, other
  <2> QED BY <1>1, <1>8, <2>2
<1>9. CASE p.strategy # "many"
  <2> DEFINE a == With(Forward(Workspace, other), caller)
  <2>1. W \in Nat /\ U \in Nat /\ two \in Nat
    BY <1>2, <1>3, <1>7, <1>9
  <2>2. U <= W /\ (pad => U + buffer <= W)
    BY <1>2, <1>3, <1>4, <1>7, <1>9
  <2>3. Fill(most, X, L, U)
    <3>1. /\ Fill(Buffer("buf", 2 * buffer), {"buf"}, L, two)
          /\ Fill(Buffer("input", buffer), {"input"}, L, buffer)
          /\ Fill(Buffer("output", buffer), {"output"}, L, buffer)
          /\ Fill(Buffer("buffer_out", buffer), {"buffer_out"}, L, buffer)
      BY <1>2, <1>6, <1>7, <2>1, FillBuffer
    <3> QED BY <3>1, FillWhen, FillConcat
  <2>4. /\ "input_pad" \notin X /\ "buf" \in X /\ "buffer_out" \in X
        /\ copied <=> "input" \in X
        /\ out <=> "output" \in X
    OBVIOUS
  <2> HIDE DEF most, X, U
  <2>5. /\ \A x \in X : L[x] \in Nat => Room(p, a[x], L[x])
        /\ pad => \A len \in Nat :
                    U + len <= W => Room(p, a["input_pad"], len)
        /\ "input" \notin X => a["input"] = Input(p)
        /\ "output" \notin X => a["output"] = Output(p)
    BY <1>5, <1>6, <2>1, <2>2, <2>3, <2>4, PadLast
  <2> HIDE DEF a
  <2>6. /\ Room(p, a["buf"], two)
        /\ copied => Room(p, a["input"], buffer)
        /\ ~ copied => a["input"] = Input(p)
        /\ out => Room(p, a["output"], buffer)
        /\ ~ out => a["output"] = Output(p)
        /\ pad => Room(p, a["input_pad"], buffer)
        /\ Room(p, a["buffer_out"], buffer)
    BY <1>2, <1>6, <2>1, <2>2, <2>4, <2>5
  <2>7. RealRoom(p, a, copied, pad)
    BY <1>5, <1>7, <2>6 DEF RealRoom
  <2>8. configureIRFFT2dWorkspaceAddrs(p) = a
    BY <1>1, <1>9 DEF a
  <2> QED BY <1>5, <1>9, <2>6, <2>7, <2>8 DEF copied, given, pad
<1> QED BY <1>8, <1>9

\* Columns, then rows, of all signals of the batch.
LEMMA HalfTwoLevelSafe ==
  ASSUME NEW p, IsMeasured(p), p.kind = "c2r", p.rank = 2,
         p.strategy # "many", NEW a, NEW in, Takes(p, in, C, HalfDims(p.n)),
         Takes(p, a["buffer_out"], C, HalfDims(p.n)),
         Takes(p, a["output"], R, p.onembed),
         Inside(p, Scratch(a["buf"], 2 * C * Size(p.n)))
  PROVE  Safe(p, execIRFFTTwoLevel(p, a, in))
<1> DEFINE half == HalfDims(p.n)
           x    == Signal(half)
           y    == Result(p.n)
           mid  == Along("column", x)
           signal(at, b, unit, v) ==
             {Holds(Move(at, b * unit * Size(v.dims)),
                    unit * Size(v.dims), v)}
           buf  == Scratch(a["buf"], 2 * C * Size(p.n))
           row  == Tables(Tables2d(p), {"factors", "twiddles", "dft_matrix"})
           column == Tables2(p, "column", FALSE)
           first(b) ==
             When(p.n[1] # 1,
                  Butterfly(column, signal(in, b, C, x),
                            signal(a["buffer_out"], b, C, mid), buf))
           second(b) ==
             When(p.n[2] # 1,
                  Butterfly(row,
                            IF p.n[1] = 1 THEN signal(in, b, C, x)
                            ELSE signal(a["buffer_out"], b, C, mid),
                            signal(a["output"], b, R, y), buf))
           from == IF p.n[1] = 1 THEN Dense(p, in, C, x)
                   ELSE Dense(p, a["buffer_out"], C, mid)
           to   == Dense(p, a["output"], R, y)
           s2   == When(p.n[2] = 1, Stage(from, to))
           batch == [b \in 1 .. p.batch |-> first(b - 1) \o second(b - 1)]
<1>1. execIRFFTTwoLevel(p, a, in) = FlattenSeq(batch) \o s2
  BY DEF execIRFFTTwoLevel
<1>2. x.dims = half /\ mid.dims = half /\ y.dims = p.onembed
  BY DEF IsMeasured, Result, Signal, Value, Along
<1>3. Inside(p, row) /\ Inside(p, column)
  BY TwoLevelTablesSafe
<1>4. Takes(p, in, C, half) /\ Takes(p, a["buffer_out"], C, half)
  OBVIOUS
<1> HIDE DEF half, x, y, mid, row, column
<1>5. ASSUME NEW b \in 0 .. p.batch - 1
      PROVE  /\ Inside(p, signal(in, b, C, x))
             /\ Inside(p, signal(a["buffer_out"], b, C, mid))
             /\ Inside(p, signal(a["output"], b, R, y))
  BY <1>2, <1>4, InsideSignal
<1>6. Inside(p, from) /\ Inside(p, to)
  BY <1>2, <1>4, InsideSignals
<1>7. Inside(p, buf)
  OBVIOUS
<1> HIDE DEF signal, buf, to, from
<1>8. Safe(p, s2)
  BY <1>6, SafeStage, SafeWhen
<1>9. ASSUME NEW b \in 0 .. p.batch - 1 PROVE Safe(p, first(b) \o second(b))
  <2>1. Safe(p, first(b))
    BY <1>3, <1>5, <1>7, SafeButterfly, SafeWhen
  <2>2. Safe(p, second(b))
    <3> DEFINE mine == IF p.n[1] = 1 THEN signal(in, b, C, x)
                       ELSE signal(a["buffer_out"], b, C, mid)
    <3>1. Inside(p, mine)
      BY <1>5
    <3> HIDE DEF mine
    <3>2. Safe(p, Butterfly(row, mine, signal(a["output"], b, R, y), buf))
      BY <1>3, <1>5, <1>7, <3>1, SafeButterfly
    <3> QED BY <3>2, SafeWhen DEF mine
  <2> HIDE DEF first, second
  <2> QED BY <2>1, <2>2, SafeConcat
<1> HIDE DEF first, second, s2
<1>10. Safe(p, FlattenSeq(batch))
  <2>1. p.batch \in Nat
    BY DEF IsMeasured, IsTransform
  <2>2. \A i \in 1 .. p.batch : i - 1 \in 0 .. p.batch - 1
    BY <2>1
  <2>3. /\ batch = [i \in 1 .. p.batch |-> batch[i]]
        /\ \A i \in 1 .. p.batch : Safe(p, batch[i])
    BY <1>9, <2>2
  <2> HIDE DEF batch
  <2> QED BY <2>1, <2>3, SafeFlat
<1> HIDE DEF batch
<1> QED BY <1>1, <1>8, <1>10, SafeConcat

\* The matrix products over all signals at once.
LEMMA HalfManySafe ==
  ASSUME NEW p, IsMeasured(p), p.kind = "c2r", p.rank = 2,
         p.strategy = "many", NEW a, RealManyRoom(p, a)
  PROVE  /\ Safe(p, execIRFFTMany(p, a))
         /\ Takes(p, a["output"], R, p.onembed)
<1> DEFINE half  == HalfDims(p.n)
           columns == Along("column", Signal(half))
           together == Along("parts", columns)
           rows  == {Holds(a["buffer_in"], 1 * C * p.batch * Size(half),
                           columns)}
           parts == {Holds(a["buffer_out"], 2 * C * p.batch * Size(half),
                           together)}
           x     == Strided(p, a["input"], C, Signal(half))
           y     == Strided(p, a["output"], R, Result(p.n))
           one   == Tables(Tables2d(p), {"dft_matrix"})
           two   == Tables(Tables2d(p), {"dft_matrix_2d"})
           s1    == Stage(two \cup x, parts)
           s2    == Stage(parts, rows)
           s3    == Stage(one \cup rows, y)
<1>1. execIRFFTMany(p, a) = s1 \o s2 \o s3
  BY DEF execIRFFTMany
<1>2. /\ p.inembed = half /\ IsGiven(p) /\ InUnit(p) = C /\ OutUnit(p) = R
      /\ p.onembed = p.n
  BY MeasuredIsGiven DEF IsMeasured, Matching, InUnit, OutUnit
<1>3. Takes(p, a["input"], C, half) /\ Takes(p, a["output"], R, p.onembed)
  BY <1>2, GivenTakes DEF RealManyRoom
<1>4. Inside(p, x) /\ Inside(p, y)
  <2>1. Signal(half).dims = half /\ Result(p.n).dims = p.onembed
    BY <1>2 DEF Signal, Result, Value
  <2> QED BY <1>3, <2>1, InsideSignals
<1>5. Inside(p, rows) /\ Inside(p, parts)
  <2>1. Room(p, a["buffer_in"], 2 * (C * p.batch * Size(p.n)))
        /\ Room(p, a["buffer_out"], 2 * (C * p.batch * Size(p.n)))
    BY DEF RealManyRoom
  <2> HIDE DEF columns, together
  <2>2. 1 \in {1, 2} /\ 2 \in {1, 2}
    OBVIOUS
  <2> QED BY <2>1, <2>2, HalfAll
<1>6. Inside(p, one) /\ Inside(p, two)
  BY ManyTablesSafe
<1> HIDE DEF rows, parts, x, y, one, two
<1>7. Safe(p, s1) /\ Safe(p, s2) /\ Safe(p, s3)
  BY <1>4, <1>5, <1>6, InsideBoth, SafeStage
<1> HIDE DEF s1, s2, s3
<1> QED BY <1>1, <1>3, <1>7, SafeConcat

\* padIRFFT2dContiguousInput, where it is given addresses.
LEMMA HalfPaddingSafe ==
  ASSUME NEW p, IsMeasured(p), p.kind = "c2r", p.rank = 2,
         p.strategy # "many", BelowHalf(p), ~ PadsNowhere(p), NEW a,
         Takes(p, a["input"], C, HalfTrimmed(p)),
         Takes(p, a["input_pad"], C, HalfDims(p.n))
  PROVE  Safe(p, Padding2d(p, a))
<1> DEFINE known == \E i \in 1 .. 2 : Half(p.n[i]) > p.inembed[i]
<1>1. known
  <2>1. \A i \in 1 .. 2 : Half(p.n[i]) \in Nat /\ p.inembed[i] \in Nat
    BY SizeOf DEF IsMeasured, IsTransform, Half
  <2>2. PICK i \in 1 .. 2 : ~ (Half(p.n[i]) <= p.inembed[i])
    BY DEF PadsNowhere
  <2> QED BY <2>1, <2>2
<1>2. Padding2d(p, a) =
        Fit(p, IF known THEN a["input"] ELSE Unset, HalfTrimmed(p),
            IF known THEN a["input_pad"] ELSE Unset, HalfDims(p.n), C)
  BY DEF Padding2d
<1> HIDE DEF known
<1>3. Padding2d(p, a) =
        Fit(p, a["input"], HalfTrimmed(p), a["input_pad"], HalfDims(p.n), C)
  BY <1>1, <1>2
<1> QED BY <1>3, SafeFit

\* Execution of a transform to real numbers in two dimensions.
LEMMA HalfPlaneSafe ==
  ASSUME NEW p, IsMeasured(p), p.kind = "c2r", p.rank = 2, ~ PadsNowhere(p)
  PROVE  Safe(p, execIRFFT2d(p))
<1> DEFINE a  == configureIRFFT2dWorkspaceAddrs(p)
           y  == Result(p.n)
           in == a[IF BelowHalf(p) THEN "input_pad" ELSE "input"]
           copied == ~ (p.inDense /\ WithinHalf(p))
           s1 == When(copied, CopyIn(p, a["input"], C, HalfTrimmed(p)))
           s2 == When(BelowHalf(p), Padding2d(p, a))
           s3 == execIRFFTTwoLevel(p, a, in)
           s4 == Rescale(p, a["output"], R, y)
           s5 == CopyOut(p, a["output"], R, Scaled(p, y))
           m1 == execIRFFTMany(p, a)
           m2 == RescaleStrided(p, a["output"], R, y)
<1>1. execIRFFT2d(p) = IF p.strategy = "many" THEN m1 \o m2
                       ELSE s1 \o s2 \o s3 \o s4 \o s5
  BY DEF execIRFFT2d
<1>2. /\ p.strategy = "many" => RealManyRoom(p, a)
      /\ p.strategy # "many" =>
           /\ RealRoom(p, a, copied, BelowHalf(p))
           /\ Room(p, a["buffer_out"], C * p.batch * Size(p.n))
  BY HalfAgree2d
<1>3. /\ IsGiven(p) /\ InUnit(p) = C /\ OutUnit(p) = R
      /\ y = Result(p.onembed)
  BY MeasuredIsGiven DEF IsMeasured, InUnit, OutUnit
<1> HIDE DEF a, y
<1>4. CASE p.strategy = "many"
  <2>1. Safe(p, m1) /\ Takes(p, a["output"], R, p.onembed)
    BY <1>2, <1>4, HalfManySafe
  <2>2. Safe(p, m2)
    BY <1>3, <2>1, SafeRescale
  <2> HIDE DEF m1, m2, s1, s2, s3, s4, s5
  <2> QED BY <1>1, <1>4, <2>1, <2>2, SafeConcat
<1>5. CASE p.strategy # "many"
  <2>1. /\ RealRoom(p, a, copied, BelowHalf(p))
        /\ Room(p, a["buffer_out"], C * p.batch * Size(p.n))
    BY <1>2, <1>5
  <2>2. /\ Takes(p, a["input"], C, HalfTrimmed(p))
        /\ ~ BelowHalf(p) => Takes(p, a["input"], C, HalfDims(p.n))
        /\ BelowHalf(p) => Takes(p, a["input_pad"], C, HalfDims(p.n))
    BY <2>1, HalfInput
  <2>3. Takes(p, in, C, HalfDims(p.n))
    BY <2>2
  <2>4. Takes(p, a["output"], R, p.onembed)
    BY <1>3, <2>1, RealOutput
  <2>5. Takes(p, a["buffer_out"], C, HalfDims(p.n))
    <3>1. /\ HalfDims(p.n) \in Dims(p.rank) /\ C \in Units
          /\ \A i \in 1 .. p.rank : HalfDims(p.n)[i] <= p.n[i]
      BY LikeTheHalf DEF Units
    <3> QED BY <2>1, <3>1, WideTakes
  <2>6. Inside(p, Scratch(a["buf"], 2 * C * Size(p.n)))
    BY <2>1, RealScratch
  <2> HIDE DEF copied, in
  <2>7. Safe(p, s1)
    BY <1>3, <2>2, SafeCopyIn, SafeWhen
  <2>8. Safe(p, s2)
    BY <1>5, <2>2, HalfPaddingSafe, SafeWhen
  <2>9. Safe(p, s3)
    BY <1>5, <2>3, <2>4, <2>5, <2>6, HalfTwoLevelSafe
  <2>10. Safe(p, s4) /\ Safe(p, s5)
    BY <1>3, <2>4, SafeRescale, SafeCopyOut
  <2> HIDE DEF m1, m2, s1, s2, s3, s4, s5
  <2> QED BY <1>1, <1>5, <2>7, <2>8, <2>9, <2>10, SafeConcat
<1> QED BY <1>4, <1>5

-----------------------------------------------------------------------------
(* Every plan that is made.                                                *)

\* What the plan says besides of its sizes and layouts.
LEMMA MadeMeasures ==
  ASSUME NEW rank, NEW kind, NEW t \in Tensors(rank), NEW way \in AnyWay
  PROVE  LET p == Made(rank, kind, t, way)
         IN  /\ p.L = t.n[1]
             /\ p.onembed = IF kind = "r2c" THEN HalfDims(t.n) ELSE t.n
             /\ p.inDense = t.inDense /\ p.outDense = t.outDense
             /\ p.batchInner = way.batchInner
             /\ p.internal = IF way.strategy = "matmul"
                                \/ CnnlSpace > 2 * R * t.batch * t.n[1]
                             THEN CnnlSpace ELSE 2 * R * t.batch * t.n[1]
             /\ {"L", "onembed", "inDense", "outDense", "batchInner",
                 "internal"} \subseteq DOMAIN p
<1> DEFINE own  == [rank |-> rank, kind |-> kind, L |-> t.n[1],
                    onembed |-> IF kind = "r2c" THEN HalfDims(t.n) ELSE t.n]
           both == With(way, t)
           all  == With(both, own)
           rest == [internal |-> InternalSize(all)]
           p    == With(all, rest)
<1>1. DOMAIN way = {"strategy", "prime", "bluestein", "bluesteinRow",
                    "bluesteinColumn", "batchInner"}
  BY DEF AnyWay
<1>2. DOMAIN t = {"n", "inembed", "batch", "inDense", "outDense"}
  BY DEF Tensors
<1>3. /\ DOMAIN own = {"rank", "kind", "L", "onembed"}
      /\ own["L"] = t.n[1]
      /\ own["onembed"] = IF kind = "r2c" THEN HalfDims(t.n) ELSE t.n
  OBVIOUS
<1>4. Made(rank, kind, t, way) = p
  BY DEF Made
<1>5. DOMAIN rest = {"internal"} /\ rest["internal"] = InternalSize(all)
  OBVIOUS
<1> HIDE DEF own, both, all, rest, p
<1>6. /\ DOMAIN both = DOMAIN way \cup DOMAIN t
      /\ \A x \in DOMAIN way : both[x] = way[x]
      /\ \A x \in DOMAIN t \ DOMAIN way : both[x] = t[x]
  BY Merge DEF both
<1>7. /\ DOMAIN all = DOMAIN both \cup DOMAIN own
      /\ \A x \in DOMAIN both : all[x] = both[x]
      /\ \A x \in DOMAIN own \ DOMAIN both : all[x] = own[x]
  BY Merge DEF all
<1>8. /\ DOMAIN p = DOMAIN all \cup DOMAIN rest
      /\ \A x \in DOMAIN all : p[x] = all[x]
      /\ \A x \in DOMAIN rest \ DOMAIN all : p[x] = rest[x]
  BY Merge DEF p
<1>9. /\ all["strategy"] = way["strategy"] /\ all["n"] = t["n"]
      /\ all["batch"] = t["batch"] /\ all["inDense"] = t["inDense"]
      /\ all["outDense"] = t["outDense"]
      /\ all["batchInner"] = way["batchInner"]
      /\ {"inDense", "outDense", "batchInner"} \subseteq DOMAIN all
  BY <1>1, <1>2, <1>6, <1>7
<1>10. /\ all["L"] = own["L"] /\ all["onembed"] = own["onembed"]
       /\ {"L", "onembed"} \subseteq DOMAIN all
       /\ "internal" \notin DOMAIN all
  BY <1>1, <1>2, <1>3, <1>6, <1>7
<1>11. /\ p["internal"] = InternalSize(all)
       /\ p["L"] = own["L"] /\ p["onembed"] = own["onembed"]
       /\ p["inDense"] = t["inDense"] /\ p["outDense"] = t["outDense"]
       /\ p["batchInner"] = way["batchInner"]
       /\ {"L", "onembed", "inDense", "outDense", "batchInner",
           "internal"} \subseteq DOMAIN p
  BY <1>5, <1>8, <1>9, <1>10
<1>12. InternalSize(all) =
         IF way.strategy = "matmul" \/ CnnlSpace > 2 * R * t.batch * t.n[1]
         THEN CnnlSpace ELSE 2 * R * t.batch * t.n[1]
  BY <1>9 DEF InternalSize
<1> QED BY <1>3, <1>4, <1>11, <1>12

\* Whatever is made has the sizes that the lemmas above ask for.
LEMMA MadeIsMeasured ==
  ASSUME NEW rank \in 1 .. 2, NEW kind \in {"c2c", "r2c", "c2r"},
         NEW t \in Tensors(rank), NEW way \in AnyWay,
         \/ rank = 1 /\ way \in Ways1d(kind, t)
         \/ rank = 2 /\ way \in Ways2d(kind, t)
  PROVE  IsMeasured(Made(rank, kind, t, way))
<1> DEFINE p == Made(rank, kind, t, way)
           two == 2 * R * t.batch * t.n[1]
<1>1. IsTransform(p)
  BY MadeIsTransform
<1>2. /\ p.rank = rank /\ p.kind = kind
      /\ p.n = t.n /\ p.inembed = t.inembed /\ p.batch = t.batch
      /\ p.strategy = way.strategy /\ p.prime = way.prime
      /\ p.bluestein = way.bluestein
  BY MadeSettles
<1>3. /\ p.L = t.n[1]
      /\ p.onembed = IF kind = "r2c" THEN HalfDims(t.n) ELSE t.n
      /\ p.inDense = t.inDense /\ p.outDense = t.outDense
      /\ p.batchInner = way.batchInner
      /\ p.internal = IF way.strategy = "matmul" \/ CnnlSpace > two
                      THEN CnnlSpace ELSE two
  BY MadeMeasures
<1>4. t.batch \in Nat /\ t.batch >= 1 /\ t.n[1] \in Nat
  <2> HIDE DEF p, two
  <2>1. t.batch \in Batches /\ t.n \in [1 .. rank -> Lengths]
    BY DEF Tensors
  <2>2. 1 \in 1 .. rank
    OBVIOUS
  <2>3. t.n[1] \in Lengths
    BY <2>1, <2>2
  <2>4. /\ \A b \in Batches : b \in Nat /\ b >= 1
        /\ \A k \in Lengths : k \in Nat
    BY PlanAssumption
  <2> QED BY <2>1, <2>3, <2>4
<1>5. two \in Nat /\ two = 2 * R * t.batch * t.n[1]
  BY <1>4 DEF R
<1>6. CnnlSpace \in Nat
  BY SizesAreNat
<1>7. /\ way.bluestein => kind = "c2c" /\ way.prime
      /\ way.batchInner /\ rank = 1 => kind = "c2c"
      /\ way.batchInner \/ way.strategy = "many" => Inner(kind, t)
  <2> HIDE DEF p, two
  <2>1. CASE rank = 1
    <3>1. Suits1d(kind, t, way)
      BY <2>1, WaysSuit
    <3> QED BY <3>1 DEF Suits1d
  <2>2. CASE rank = 2
    <3>1. Suits2d(kind, t, way)
      BY <2>2, WaysSuit
    <3>2. rank # 1
      BY <2>2
    <3> QED BY <3>1, <3>2, Zenon DEF Suits2d
  <2>3. rank = 1 \/ rank = 2
    OBVIOUS
  <2> QED BY <2>1, <2>2, <2>3
<1> HIDE DEF p, two
<1>8. /\ p.internal \in Nat /\ CnnlSpace <= p.internal
      /\ p.strategy # "matmul" => two <= p.internal
  BY <1>2, <1>3, <1>5, <1>6
<1>9. p.batch >= 1 /\ p.L = p.n[1]
      /\ p.onembed = IF p.kind = "r2c" THEN HalfDims(p.n) ELSE p.n
  BY <1>2, <1>3, <1>4
<1>10. /\ p.bluestein => p.kind = "c2c" /\ p.prime
       /\ p.batchInner /\ p.rank = 1 => p.kind = "c2c"
       /\ p.batchInner \/ p.strategy = "many" =>
            ~ p.inDense /\ ~ p.outDense /\ p.inembed = Matching(p.kind, p.n)
  BY <1>2, <1>3, <1>7 DEF Inner
<1>11. p.rank = 1 /\ p.strategy # "matmul" =>
         2 * R * p.batch * p.n[1] <= p.internal
  BY <1>2, <1>5, <1>8
<1>12. IsMeasured(p)
  BY <1>1, <1>8, <1>9, <1>10, <1>11 DEF IsMeasured
<1> QED BY <1>12 DEF p

\* The tables of every plan fit into the reserve area.
LEMMA ReserveIsSafe ==
  ASSUME NEW p, IsMeasured(p)
  PROVE  Safe(p, CASE p.kind = "c2c" -> C2CReserve(p)
                   [] p.kind = "r2c" -> R2CReserve(p)
                   [] p.kind = "c2r" -> C2RReserve(p))
<1>1. p.kind \in {"c2c", "r2c", "c2r"} /\ p.rank \in 1 .. 2
  BY DEF IsMeasured, IsTransform
<1>2. p.rank = 2 => Safe(p, setFFT2dReserveArea(p))
  BY TwoLevelTablesSafe, ManyTablesSafe
<1>3. p.rank # 1 => p.rank = 2
  BY <1>1
<1>4. CASE p.kind = "c2c"
  <2>1. p.rank = 1 /\ MatmulPath(p) => Safe(p, setFFT1dReserveArea(p))
    BY <1>4, MatricesSafe
  <2>2. p.rank = 1 /\ ~ MatmulPath(p) =>
          Safe(p, CopyTables(ButterflyTables1d(p)))
    BY <1>4, ButterflyTablesSafe
  <2>3. p.rank = 1 => Safe(p, setFFT1dReserveArea(p))
    BY <2>1, <2>2 DEF setFFT1dReserveArea
  <2>4. Safe(p, C2CReserve(p))
    BY <1>2, <1>3, <2>3 DEF C2CReserve
  <2> QED BY <1>4, <2>4
<1>5. CASE p.kind = "r2c"
  <2>1. p.rank = 1 /\ p.prime => Safe(p, setRFFT1dReserveArea(p))
    BY <1>5, HalfDftSafe
  <2>2. p.rank = 1 /\ ~ p.prime =>
          Safe(p, CopyTables(RealTables1d(p, 2 * C * p.n[1])))
    BY <1>5, RealTablesSafe
  <2>3. p.rank = 1 => Safe(p, setRFFT1dReserveArea(p))
    BY <2>1, <2>2 DEF setRFFT1dReserveArea
  <2>4. Safe(p, R2CReserve(p))
    BY <1>2, <1>3, <2>3 DEF R2CReserve
  <2> QED BY <1>5, <2>4
<1>6. CASE p.kind = "c2r"
  <2>1. p.rank = 1 /\ p.prime => Safe(p, setIRFFT1dReserveArea(p))
    BY <1>6, HalfIdftSafe
  <2>2. p.rank = 1 /\ ~ p.prime =>
          Safe(p, CopyTables(RealTables1d(p, 2 * C * p.n[1])))
    BY <1>6, RealTablesSafe
  <2>3. p.rank = 1 => Safe(p, setIRFFT1dReserveArea(p))
    BY <2>1, <2>2 DEF setIRFFT1dReserveArea
  <2>4. Safe(p, C2RReserve(p))
    BY <1>2, <1>3, <2>3 DEF C2RReserve
  <2> QED BY <1>6, <2>4
<1> QED BY <1>1, <1>4, <1>5, <1>6

\* And every execution of a plan that is none of the exceptions keeps inside.
LEMMA ExecutedIsSafe ==
  ASSUME NEW p, IsMeasured(p), ~ Misplaced(p), ~ NoRoomForCopy(p)
  PROVE  Safe(p, Executed(p))
<1>1. p.kind \in {"c2c", "r2c", "c2r"} /\ p.rank \in 1 .. 2
  BY DEF IsMeasured, IsTransform
<1>2. ~ BluesteinPads(p) /\ ~ NeverPads(p) /\ ~ PadsNowhere(p)
  BY DEF Misplaced
<1>3. p.rank # 1 => p.rank = 2
  BY <1>1
<1>4. CASE p.kind = "c2c"
  <2>1. p.rank = 1 => Safe(p, execFFT1d(p))
    BY <1>2, <1>4, MatmulSafe, ButterflySafe DEF execFFT1d
  <2>2. p.rank = 2 => Safe(p, execFFT2d(p))
    BY <1>4, PlaneSafe
  <2> QED BY <1>3, <1>4, <2>1, <2>2 DEF Executed, C2CExec
<1>5. CASE p.kind = "r2c"
  <2>1. p.rank = 1 /\ p.prime => Safe(p, execRFFTMatmul1d(p))
    BY <1>5, RealMatmulSafe
  <2>2. p.rank = 1 /\ ~ p.prime => Safe(p, execRFFTButterfly1d(p))
    BY <1>5, RealButterflySafe
  <2>3. p.rank = 2 => Safe(p, execRFFT2d(p))
    BY <1>2, <1>5, RealPlaneSafe
  <2> QED BY <1>1, <1>5, <2>1, <2>2, <2>3 DEF Executed, R2CExec
<1>6. CASE p.kind = "c2r"
  <2>1. p.rank = 1 /\ p.prime => Safe(p, execIRFFTMatmul1d(p))
    BY <1>6, HalfMatmulSafe
  <2>2. p.rank = 1 /\ ~ p.prime => Safe(p, execIRFFTButterfly1d(p))
    BY <1>6, HalfButterflySafe
  <2>3. p.rank = 2 => Safe(p, execIRFFT2d(p))
    BY <1>2, <1>6, HalfPlaneSafe
  <2> QED BY <1>1, <1>6, <2>1, <2>2, <2>3 DEF Executed, C2RExec
<1> QED BY <1>1, <1>4, <1>5, <1>6

-----------------------------------------------------------------------------
(* Every behaviour.                                                        *)

\* What mluOpMakeFFTPlanMany adds to what it settles.
Measured == {"L", "onembed", "inDense", "outDense", "batchInner", "internal"}

\* From the call that makes the plan on, its sizes are those announced, and
\* every kernel that waits keeps inside of them.  Before, none waits.
BoundInv ==
  /\ phase \in {"none", "created"} => queue = <<>>
  /\ phase \in {"made", "reserved", "executed", "refused"} =>
       IsMeasured(plan) /\ Measured \subseteq DOMAIN plan
  /\ \/ queue = <<>>
     \/ Misplaced(plan) \/ NoRoomForCopy(plan)
     \/ Safe(plan, queue)

\* The arguments of mluOpExecFFT change none of the sizes.
LEMMA CallKeepsMeasure ==
  ASSUME NEW p, IsMeasured(p), Measured \subseteq DOMAIN p, NEW given
  PROVE  /\ IsMeasured(With(p, given))
         /\ Measured \subseteq DOMAIN With(p, given)
<1> DEFINE q == With(p, given)
<1>1. /\ DOMAIN p \subseteq DOMAIN q
      /\ \A x \in DOMAIN p : q[x] = p[x]
  BY Merge
<1> HIDE DEF q
<1>2. Settled \subseteq DOMAIN p
  BY DEF IsMeasured, IsTransform
<1>3. Settled \subseteq DOMAIN q /\ Measured \subseteq DOMAIN q
  BY <1>1, <1>2
<1>4. (\A x \in Settled : q[x] = p[x]) /\ (\A x \in Measured : q[x] = p[x])
  BY <1>1, <1>2
<1>5. /\ q.kind = p.kind /\ q.rank = p.rank /\ q.n = p.n
      /\ q.inembed = p.inembed /\ q.batch = p.batch
      /\ q.strategy = p.strategy /\ q.prime = p.prime
      /\ q.bluestein = p.bluestein /\ q.bluesteinRow = p.bluesteinRow
      /\ q.bluesteinColumn = p.bluesteinColumn
  BY <1>4 DEF Settled
<1>6. /\ q.L = p.L /\ q.onembed = p.onembed /\ q.inDense = p.inDense
      /\ q.outDense = p.outDense /\ q.batchInner = p.batchInner
      /\ q.internal = p.internal
  BY <1>4 DEF Measured
<1>7. IsTransform(q)
  BY <1>3, <1>5 DEF IsMeasured, IsTransform
<1>8. IsMeasured(q)
  BY <1>5, <1>6, <1>7 DEF IsMeasured
<1> QED BY <1>3, <1>8 DEF q

\* No call and no kernel breaks this.
LEMMA BoundStep == BoundInv /\ [Next]_vars => BoundInv'
<1> SUFFICES ASSUME BoundInv, [Next]_vars PROVE BoundInv'
  OBVIOUS
<1>1. CASE CreateFFTPlan
  BY <1>1 DEF CreateFFTPlan, BoundInv
<1>2. CASE MakeFFTPlanMany
  <2>1. PICK rank \in 1 .. 2, kind \in {"c2c", "r2c", "c2r"} :
          \E t \in Tensors(rank) :
          \E way \in IF rank = 1 THEN Ways1d(kind, t) ELSE Ways2d(kind, t) :
            plan' = Made(rank, kind, t, way)
    BY <1>2 DEF MakeFFTPlanMany
  <2>2. PICK t \in Tensors(rank) :
          \E way \in IF rank = 1 THEN Ways1d(kind, t) ELSE Ways2d(kind, t) :
            plan' = Made(rank, kind, t, way)
    BY <2>1
  <2>3. PICK way \in AnyWay :
          /\ plan' = Made(rank, kind, t, way)
          /\ \/ rank = 1 /\ way \in Ways1d(kind, t)
             \/ rank = 2 /\ way \in Ways2d(kind, t)
    BY <2>2, WaysAreTyped
  <2>4. IsMeasured(plan')
    BY <2>3, MadeIsMeasured
  <2>5. Measured \subseteq DOMAIN plan'
    BY <2>3, MadeMeasures DEF Measured
  <2>6. phase' = "made" /\ queue' = <<>>
    BY <1>2 DEF MakeFFTPlanMany, BoundInv
  <2>7. (IsMeasured(plan) /\ Measured \subseteq DOMAIN plan)'
    BY <2>4, <2>5
  <2> QED BY <2>6, <2>7 DEF BoundInv
<1>3. CASE SetFFTReserveArea
  <2>1. /\ phase = "made" /\ phase' = "reserved" /\ plan' = plan
        /\ queue' = CASE plan.kind = "c2c" -> C2CReserve(plan)
                      [] plan.kind = "r2c" -> R2CReserve(plan)
                      [] plan.kind = "c2r" -> C2RReserve(plan)
    BY <1>3 DEF SetFFTReserveArea
  <2>2. IsMeasured(plan) /\ Measured \subseteq DOMAIN plan
    BY <2>1 DEF BoundInv
  <2>3. Safe(plan, queue')
    BY <2>1, <2>2, ReserveIsSafe
  <2>4. (IsMeasured(plan) /\ Measured \subseteq DOMAIN plan)'
        /\ Safe(plan, queue)'
    BY <2>1, <2>2, <2>3
  <2> QED BY <2>1, <2>4 DEF BoundInv
<1>4. CASE ExecFFT
  <2>1. PICK given : plan' = With(plan, given)
    BY <1>4 DEF ExecFFT
  <2>2. /\ phase = "reserved" /\ phase' = "executed"
        /\ queue' = Executed(plan')
    BY <1>4 DEF ExecFFT
  <2>3. IsMeasured(plan) /\ Measured \subseteq DOMAIN plan
    BY <2>2 DEF BoundInv
  <2>4. IsMeasured(plan') /\ Measured \subseteq DOMAIN plan'
    BY <2>1, <2>3, CallKeepsMeasure
  <2>5. Misplaced(plan') \/ NoRoomForCopy(plan') \/ Safe(plan', queue')
    BY <2>2, <2>4, ExecutedIsSafe
  <2>6. /\ (IsMeasured(plan) /\ Measured \subseteq DOMAIN plan)'
        /\ (Misplaced(plan) \/ NoRoomForCopy(plan) \/ Safe(plan, queue))'
    BY <2>4, <2>5
  <2> QED BY <2>2, <2>6 DEF BoundInv
<1>5. CASE RefuseFFT
  BY <1>5 DEF RefuseFFT, BoundInv
<1>6. CASE RunStage
  <2>1. UNCHANGED <<plan, phase>> /\ queue # <<>> /\ queue' = Tail(queue)
    BY <1>6 DEF RunStage
  <2>2. Misplaced(plan) \/ NoRoomForCopy(plan) \/ Safe(plan, queue)
    BY <2>1 DEF BoundInv
  <2>3. Misplaced(plan) \/ NoRoomForCopy(plan) \/ Safe(plan, queue')
    BY <2>1, <2>2, SafeTail
  <2>4. phase \notin {"none", "created"}
    BY <2>1 DEF BoundInv
  <2>5. (Misplaced(plan) \/ NoRoomForCopy(plan) \/ Safe(plan, queue))'
    BY <2>1, <2>3
  <2> QED BY <2>1, <2>4, <2>5 DEF BoundInv
<1>7. CASE DestroyFFTPlan
  BY <1>7 DEF DestroyFFTPlan, BoundInv
<1>8. CASE UNCHANGED vars
  BY <1>8 DEF vars, BoundInv
<1> QED BY <1>1, <1>2, <1>3, <1>4, <1>5, <1>6, <1>7, <1>8 DEF Next

\* Every kernel stays inside the workspace and the reserve area of the sizes
\* that mluOpMakeFFTPlanMany announced, and inside the caller's tensors: for
\* any lengths, extents and batches the Allocate functions and the configure
\* functions agree on the buffers of every plan but those of the exceptions.
THEOREM KernelsStayInside == Spec => []WorkspaceHolds
<1>1. Init => BoundInv
  BY DEF Init, BoundInv
<1>2. BoundInv => WorkspaceHolds
  <2> SUFFICES ASSUME BoundInv, ~ Misplaced(plan), ~ NoRoomForCopy(plan)
               PROVE  Fits
    BY DEF WorkspaceHolds
  <2>1. CASE queue = <<>>
    BY <2>1 DEF Fits
  <2>2. CASE queue # <<>>
    <3>1. Safe(plan, queue)
      BY <2>2 DEF BoundInv
    <3>2. Inside(plan, Touched)
      BY <2>2, <3>1, SafeTail DEF Touched
    <3> QED BY <3>2 DEF Fits, Inside
  <2> QED BY <2>1, <2>2
<1> QED BY <1>1, <1>2, BoundStep, PTL DEF Spec
=============================================================================

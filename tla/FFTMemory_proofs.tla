-------------------------- MODULE FFTMemory_proofs --------------------------
(***************************************************************************)
(* Lemmas about the operators of FFTMemory: the addresses a layout gives,  *)
(* and sequences of kernels that write nothing to the caller's input.      *)
(***************************************************************************)
EXTENDS FFTMemory, SequenceTheorems, NaturalsInduction,
        WellFoundedInduction, TLAPS

-----------------------------------------------------------------------------
(* Addresses and layouts.                                                  *)

\* An address outside the caller's input.
Apart(a) == "in" \in DOMAIN a /\ a.in # "input"

IsSeq(s) == \E S : s \in Seq(S)

\* A layout that names the buffers of X.
Lays(s, X) == IsSeq(s) /\ Names(s) = X

\* Addresses of every space but "input" are outside it.
LEMMA ApartAt ==
  ASSUME NEW space, space # "input", NEW k
  PROVE  Apart(At(space, k))
BY DEF Apart, At

\* Moving along a space does not leave it.
LEMMA ApartMove ==
  ASSUME NEW a, Apart(a), NEW k
  PROVE  Apart(Move(a, k))
BY DEF Apart, Move

\* The named places of a caller that does not work in place.
LEMMA ApartPlaces ==
  /\ Apart(Workspace) /\ Apart(Reserve) /\ Apart(Unset)
  /\ \A p : ~ p.inPlace => Apart(Output(p))
BY ApartAt DEF Workspace, Reserve, Unset, Output

\* One buffer is a layout of its name.
LEMMA LaysBuffer ==
  ASSUME NEW name, NEW len
  PROVE  Lays(Buffer(name, len), {name})
<1>1. Buffer(name, len) \in Seq({[name |-> name, len |-> len]})
  BY DEF Buffer
<1>2. Names(Buffer(name, len)) = {name}
  BY DEF Buffer, Names
<1> QED BY <1>1, <1>2 DEF Lays, IsSeq

\* Layouts one after the other name what both name.
LEMMA LaysConcat ==
  ASSUME NEW s, NEW t, NEW X, NEW Y, Lays(s, X), Lays(t, Y)
  PROVE  Lays(s \o t, X \cup Y)
<1>1. PICK S : s \in Seq(S)
  BY DEF Lays, IsSeq
<1>2. PICK T : t \in Seq(T)
  BY DEF Lays, IsSeq
<1>3. s \in Seq(S \cup T) /\ t \in Seq(S \cup T)
  BY <1>1, <1>2
<1>4. s \o t \in Seq(S \cup T)
  BY <1>3
<1>5. Names(s \o t) \subseteq X \cup Y
  <2> SUFFICES ASSUME NEW i \in DOMAIN (s \o t)
               PROVE  (s \o t)[i].name \in X \cup Y
    BY DEF Names
  <2>1. CASE i \in 1 .. Len(s)
    BY <1>3, <2>1 DEF Lays, Names
  <2>2. CASE i \notin 1 .. Len(s)
    <3>1. i - Len(s) \in 1 .. Len(t) /\ (s \o t)[i] = t[i - Len(s)]
      BY <1>3, <2>2
    <3> QED BY <1>3, <3>1 DEF Lays, Names
  <2> QED BY <2>1, <2>2
<1>6. X \cup Y \subseteq Names(s \o t)
  <2>1. ASSUME NEW i \in DOMAIN s PROVE s[i].name \in Names(s \o t)
    <3>1. i \in DOMAIN (s \o t) /\ (s \o t)[i] = s[i]
      BY <1>3
    <3> QED BY <3>1 DEF Names
  <2>2. ASSUME NEW i \in DOMAIN t PROVE t[i].name \in Names(s \o t)
    <3>1. /\ i + Len(s) \in DOMAIN (s \o t)
          /\ (s \o t)[i + Len(s)] = t[i]
      BY <1>3
    <3> QED BY <3>1 DEF Names
  <2> QED BY <2>1, <2>2 DEF Lays, Names
<1> QED BY <1>4, <1>5, <1>6 DEF Lays, IsSeq

\* No buffer at all.
LEMMA LaysNothing == Lays(<<>>, {})
<1>1. <<>> \in Seq({})
  OBVIOUS
<1> QED BY <1>1 DEF Lays, IsSeq, Names

\* What is not needed is not laid out.
LEMMA LaysWhen ==
  ASSUME NEW cond, NEW s, NEW X, Lays(s, X)
  PROVE  Lays(When(cond, s), IF cond THEN X ELSE {})
BY LaysNothing DEF When

\* With(f, g) has the fields of f, and those of g that f has not.
LEMMA Merge ==
  ASSUME NEW f, NEW g
  PROVE  /\ DOMAIN With(f, g) = DOMAIN f \cup DOMAIN g
         /\ \A x \in DOMAIN f : With(f, g)[x] = f[x]
         /\ \A x \in DOMAIN g \ DOMAIN f : With(f, g)[x] = g[x]
BY DEF With

\* A record of addresses with the fields X and Z: those of X are apart.
Serves(a, X, Z) == DOMAIN a = X \cup Z /\ \A x \in X : Apart(a[x])

\* A layout puts the buffers it names where it starts, or where it ends.
LEMMA ServesLaid ==
  ASSUME NEW start, Apart(start), NEW s, NEW X, Lays(s, X)
  PROVE  Serves(Forward(start, s), X, {}) /\ Serves(Backward(start, s), X, {})
<1>1. DOMAIN Forward(start, s) = X /\ DOMAIN Backward(start, s) = X
  BY DEF Lays, Forward, Backward
<1>2. ASSUME NEW x \in X
      PROVE  Apart(Forward(start, s)[x]) /\ Apart(Backward(start, s)[x])
  <2>1. x \in Names(s)
    BY DEF Lays
  <2> QED BY <2>1, ApartMove DEF Forward, Backward
<1> QED BY <1>1, <1>2 DEF Serves

\* With takes from g what f has not.
LEMMA ServesWith ==
  ASSUME NEW f, NEW g, NEW X, NEW Y, NEW Z, NEW W,
         Serves(f, X, Z), Serves(g, Y, W)
  PROVE  Serves(With(f, g), X \cup (Y \ Z), Z \cup W)
<1> DEFINE h == With(f, g)
<1>1. /\ DOMAIN h = DOMAIN f \cup DOMAIN g
      /\ \A x \in DOMAIN f : h[x] = f[x]
      /\ \A x \in DOMAIN g \ DOMAIN f : h[x] = g[x]
  BY Merge
<1> HIDE DEF h
<1>2. /\ DOMAIN f = X \cup Z /\ \A x \in X : Apart(f[x])
      /\ DOMAIN g = Y \cup W /\ \A x \in Y : Apart(g[x])
  BY DEF Serves
<1>3. DOMAIN h = X \cup (Y \ Z) \cup (Z \cup W)
  BY <1>1, <1>2
<1>4. \A x \in X : Apart(h[x])
  BY <1>1, <1>2
<1>5. \A x \in Y \ Z : Apart(h[x])
  BY <1>1, <1>2
<1>6. Serves(h, X \cup (Y \ Z), Z \cup W)
  BY <1>3, <1>4, <1>5 DEF Serves
<1> QED BY <1>6 DEF h

\* The tensors of a caller that does not work in place.
LEMMA ServesCaller ==
  ASSUME NEW p, ~ p.inPlace
  PROVE  Serves([input |-> Input(p), output |-> Output(p)],
                {"output"}, {"input"})
BY ApartPlaces DEF Serves

-----------------------------------------------------------------------------
(* Kernels that write nothing to the caller's input.                       *)

Spares(W)     == \A w \in W : w.at.in # "input"
Harmless(seq) == \E S : seq \in Seq(S) /\ \A s \in S : Spares(s.writes)

\* What one kernel writes.
LEMMA SparesHolds ==
  ASSUME NEW a, Apart(a), NEW len, NEW v
  PROVE  Spares({Holds(a, len, v)})
BY DEF Spares, Holds, Region, Apart

\* Both of two sets.
LEMMA SparesBoth ==
  ASSUME NEW V, NEW W, Spares(V), Spares(W)
  PROVE  Spares(V \cup W)
BY DEF Spares

\* Dense signals, strided ones, and scratch.
LEMMA SparesSignals ==
  ASSUME NEW a, Apart(a)
  PROVE  /\ \A p, unit, v : Spares(Dense(p, a, unit, v))
         /\ \A p, unit, v : Spares(Strided(p, a, unit, v))
         /\ \A len : Spares(Scratch(a, len))
<1>1. ASSUME NEW p, NEW unit, NEW v PROVE Spares(Dense(p, a, unit, v))
  <2> SUFFICES ASSUME NEW b \in 0 .. p.batch - 1
               PROVE  Holds(Move(a, b * unit * Size(v.dims)),
                            unit * Size(v.dims), v).at.in # "input"
    BY DEF Dense, Spares
  <2>1. Apart(Move(a, b * unit * Size(v.dims)))
    BY ApartMove
  <2> QED BY <2>1 DEF Holds, Region, Apart
<1>2. ASSUME NEW p, NEW unit, NEW v PROVE Spares(Strided(p, a, unit, v))
  BY SparesHolds DEF Strided
<1>3. ASSUME NEW len PROVE Spares(Scratch(a, len))
  BY SparesHolds DEF Scratch
<1> QED BY <1>1, <1>2, <1>3

\* No kernel at all.
LEMMA HarmlessNothing == Harmless(<<>>)
<1>1. PICK S : S = {}
  OBVIOUS
<1>2. <<>> \in Seq(S) /\ \A s \in S : Spares(s.writes)
  BY <1>1
<1> QED BY <1>2 DEF Harmless

\* One kernel.
LEMMA HarmlessStage ==
  ASSUME NEW reads, NEW writes, Spares(writes)
  PROVE  Harmless(Stage(reads, writes))
<1> DEFINE S == {[reads |-> reads, writes |-> writes]}
<1>1. Stage(reads, writes) \in Seq(S)
  BY DEF Stage
<1>2. \A s \in S : Spares(s.writes)
  OBVIOUS
<1> QED BY <1>1, <1>2 DEF Harmless

\* Kernels one after the other.
LEMMA HarmlessConcat ==
  ASSUME NEW s, NEW t, Harmless(s), Harmless(t)
  PROVE  Harmless(s \o t)
<1>1. PICK S : s \in Seq(S) /\ \A x \in S : Spares(x.writes)
  BY DEF Harmless
<1>2. PICK T : t \in Seq(T) /\ \A x \in T : Spares(x.writes)
  BY DEF Harmless
<1>3. s \in Seq(S \cup T) /\ t \in Seq(S \cup T)
  BY <1>1, <1>2
<1>4. s \o t \in Seq(S \cup T)
  BY <1>3
<1>5. \A x \in S \cup T : Spares(x.writes)
  BY <1>1, <1>2
<1> QED BY <1>4, <1>5 DEF Harmless

\* Kernels that run under a condition.
LEMMA HarmlessWhen ==
  ASSUME NEW cond, NEW s, cond => Harmless(s)
  PROVE  Harmless(When(cond, s))
BY HarmlessNothing DEF When

\* The kernel at the head, and those behind it.
LEMMA HarmlessTail ==
  ASSUME NEW s, Harmless(s), s # <<>>
  PROVE  Spares(Head(s).writes) /\ Harmless(Tail(s))
<1>1. PICK S : s \in Seq(S) /\ \A x \in S : Spares(x.writes)
  BY DEF Harmless
<1>2. Head(s) \in S /\ Tail(s) \in Seq(S)
  BY <1>1
<1> QED BY <1>1, <1>2 DEF Harmless

-----------------------------------------------------------------------------
(* The loop over the signals of a batch.                                   *)

\* A set of naturals that has 0, and with each number the next one, has all.
LEMMA Reached ==
  ASSUME NEW T, 0 \in T, \A m \in Nat : m \in T => m + 1 \in T
  PROVE  Nat \subseteq T
<1> SUFFICES ASSUME Nat \ T # {} PROVE FALSE
  OBVIOUS
<1> DEFINE less == {pair \in Nat \X Nat : pair[1] < pair[2]}
<1>1. IsWellFoundedOn(less, Nat)
  BY NatLessThanWellFounded DEF OpToRel
<1>2. PICK m \in Nat \ T : \A k \in Nat \ T : ~ (<<k, m>> \in less)
  <2> HIDE DEF less
  <2> QED BY <1>1, WFMin
<1>3. m # 0 /\ m - 1 \in Nat /\ m - 1 < m /\ m = (m - 1) + 1
  BY <1>2
<1>4. <<m - 1, m>> \in less
  BY <1>3
<1>5. m - 1 \in T
  <2> HIDE DEF less
  <2> QED BY <1>2, <1>3, <1>4
<1>6. m \in T
  BY <1>3, <1>5
<1> QED BY <1>6

\* g is what FlattenSeq defines by recursion over the first m of some
\* sequences.
Flattens(seqs, m, g) ==
  g = [i \in 1 .. m |-> IF i = 1 THEN seqs[i] ELSE g[i - 1] \o seqs[i]]

\* Some sequences of kernels, one after the other: what FlattenSeq defines by
\* recursion exists, and has no kernels but theirs.
LEMMA FlatIsSeq ==
  ASSUME NEW n \in Nat, NEW seqs, seqs = [i \in 1 .. n |-> seqs[i]],
         NEW S, \A i \in 1 .. n : seqs[i] \in Seq(S)
  PROVE  FlattenSeq(seqs) \in Seq(S)
<1> DEFINE exists == {m \in Nat : \E g : Flattens(seqs, m, g)}
<1>1. ASSUME NEW m \in Nat, m \in exists PROVE m + 1 \in exists
  <2>1. PICK g : Flattens(seqs, m, g)
    BY <1>1
  <2> DEFINE last == IF m + 1 = 1 THEN seqs[m + 1] ELSE g[m] \o seqs[m + 1]
             h == [i \in 1 .. m + 1 |-> IF i = m + 1 THEN last ELSE g[i]]
  <2>2. h = [i \in 1 .. m + 1 |-> IF i = 1 THEN seqs[i]
                                 ELSE h[i - 1] \o seqs[i]]
    <3> SUFFICES ASSUME NEW i \in 1 .. m + 1
                 PROVE  h[i] = IF i = 1 THEN seqs[i]
                               ELSE h[i - 1] \o seqs[i]
      OBVIOUS
    <3>1. CASE i = m + 1
      <4>1. CASE i = 1
        BY <3>1, <4>1
      <4>2. CASE i # 1
        <5>1. i - 1 \in 1 .. m + 1 /\ i - 1 # m + 1 /\ i - 1 = m
          BY <3>1, <4>2
        <5>2. h[i - 1] = g[m]
          BY <5>1
        <5> HIDE DEF h
        <5>3. h[i] = g[m] \o seqs[i]
          BY <3>1, <4>2 DEF h
        <5> QED BY <4>2, <5>2, <5>3
      <4> QED BY <4>1, <4>2
    <3>2. CASE i # m + 1
      <4>1. i \in 1 .. m /\ h[i] = g[i]
        BY <3>2
      <4>2. g[i] = IF i = 1 THEN seqs[i] ELSE g[i - 1] \o seqs[i]
        BY <2>1, <4>1 DEF Flattens
      <4>3. i # 1 => h[i - 1] = g[i - 1]
        BY <4>1
      <4> HIDE DEF h
      <4> QED BY <4>1, <4>2, <4>3
    <3> QED BY <3>1, <3>2
  <2>3. Flattens(seqs, m + 1, h)
    <3> HIDE DEF h
    <3> QED BY <2>2 DEF Flattens
  <2>4. ASSUME NEW k \in Nat, NEW f, Flattens(seqs, k, f)
        PROVE  k \in exists
    BY <2>4
  <2> HIDE DEF exists, h
  <2> QED BY <2>3, <2>4
<1>2. 0 \in exists
  <2> DEFINE h == [i \in 1 .. 0 |-> IF i = 1 THEN seqs[i]
                                   ELSE seqs[i - 1] \o seqs[i]]
  <2>1. Flattens(seqs, 0, h)
    BY DEF Flattens
  <2> QED BY <2>1
<1>3. \E g : Flattens(seqs, n, g)
  <2> HIDE DEF exists
  <2>1. n \in exists
    BY <1>1, <1>2, Reached
  <2> QED BY <2>1 DEF exists
<1>4. Len(seqs) = n
  <2>1. seqs \in Seq({seqs[i] : i \in 1 .. n})
    OBVIOUS
  <2> QED BY <2>1
<1>5. CASE n = 0
  <2>1. FlattenSeq(seqs) = seqs
    BY <1>4, <1>5 DEF FlattenSeq
  <2>2. seqs = <<>>
    BY <1>5
  <2>3. <<>> \in Seq(S)
    OBVIOUS
  <2>4. FlattenSeq(seqs) = <<>>
    BY <2>1, <2>2
  <2> QED BY ONLY <2>3, <2>4
<1>6. CASE n # 0
  <2> DEFINE flat == CHOOSE g : Flattens(seqs, n, g)
  <2>1. FlattenSeq(seqs) = flat[n]
    BY <1>4, <1>6 DEF FlattenSeq, Flattens
  <2>2. Flattens(seqs, n, flat)
    BY <1>3
  <2> HIDE DEF flat
  <2> DEFINE fine == {m \in Nat : m \in 1 .. n => flat[m] \in Seq(S)}
  <2>3. ASSUME NEW m \in Nat, m \in fine PROVE m + 1 \in fine
    <3> SUFFICES ASSUME m + 1 \in 1 .. n PROVE flat[m + 1] \in Seq(S)
      OBVIOUS
    <3>1. CASE m = 0
      BY <2>2, <3>1 DEF Flattens
    <3>2. CASE m # 0
      <4>1. flat[m + 1] = flat[m] \o seqs[m + 1]
        <5>1. flat = [i \in 1 .. n |-> IF i = 1 THEN seqs[i]
                                      ELSE flat[i - 1] \o seqs[i]]
          BY <2>2 DEF Flattens
        <5>2. m + 1 # 1 /\ (m + 1) - 1 = m
          BY <3>2
        <5> QED BY <5>1, <5>2
      <4>2. flat[m] \in Seq(S) /\ seqs[m + 1] \in Seq(S)
        BY <2>3, <3>2
      <4> QED BY <4>1, <4>2
    <3> QED BY <3>1, <3>2
  <2>4. 0 \in fine
    OBVIOUS
  <2>5. n \in fine
    <3> HIDE DEF fine
    <3> QED BY <2>3, <2>4, Reached
  <2> QED BY <1>6, <2>1, <2>5
<1> QED BY <1>5, <1>6

\* The first n of some sequences of harmless kernels.
LEMMA HarmlessFlat ==
  ASSUME NEW n \in Nat, NEW seqs, seqs = [i \in 1 .. n |-> seqs[i]],
         \A i \in 1 .. n : Harmless(seqs[i])
  PROVE  Harmless(FlattenSeq(seqs))
<1> DEFINE S == UNION {{seqs[i][j] : j \in DOMAIN seqs[i]} : i \in 1 .. n}
<1>1. ASSUME NEW i \in 1 .. n
      PROVE  /\ seqs[i] \in Seq(S)
             /\ \A j \in DOMAIN seqs[i] : Spares(seqs[i][j].writes)
  <2>1. PICK B : seqs[i] \in Seq(B) /\ \A x \in B : Spares(x.writes)
    BY DEF Harmless
  <2>2. \A j \in DOMAIN seqs[i] : seqs[i][j] \in S /\ seqs[i][j] \in B
    BY <2>1
  <2> HIDE DEF S
  <2>3. /\ DOMAIN seqs[i] = 1 .. Len(seqs[i]) /\ Len(seqs[i]) \in Nat
        /\ seqs[i] = [j \in 1 .. Len(seqs[i]) |-> seqs[i][j]]
    BY <2>1
  <2>4. seqs[i] \in [1 .. Len(seqs[i]) -> S]
    BY <2>2, <2>3
  <2>5. seqs[i] \in Seq(S)
    BY <2>3, <2>4, SeqDef
  <2> QED BY <2>1, <2>2, <2>5
<1>2. \A x \in S : Spares(x.writes)
  BY <1>1
<1> HIDE DEF S
<1>3. FlattenSeq(seqs) \in Seq(S)
  BY <1>1, FlatIsSeq
<1> QED BY <1>2, <1>3 DEF Harmless

-----------------------------------------------------------------------------
(* How long a layout is.                                                   *)

\* A layout of buffers, each of a natural length.
IsLayout(s) == IsSeq(s) /\ \A i \in DOMAIN s : s[i].len \in Nat

\* g adds up the lengths of the first buffers of s.
Sums(s, g) ==
  /\ g \in [0 .. Len(s) -> Nat] /\ g[0] = 0
  /\ \A i \in 1 .. Len(s) : g[i] = g[i - 1] + s[i].len

\* h is what Length defines by a fold, over subsets of the first m places.
Adds(s, m, h) ==
  h = [S \in SUBSET (1 .. m) |->
         IF S = {} THEN 0 ELSE h[S \ {Max(S)}] + s[Max(S)].len]

\* The greatest of a set of places.
LEMMA Greatest ==
  ASSUME NEW S, S \subseteq Nat, NEW m \in S, \A i \in S : i <= m
  PROVE  Max(S) = m
<1>1. \E x \in S : \A y \in S : x >= y
  BY SMT
<1>2. Max(S) \in S /\ \A y \in S : Max(S) >= y
  BY <1>1 DEF Max
<1>3. Max(S) >= m /\ Max(S) <= m /\ Max(S) \in Nat
  BY <1>2
<1> QED BY <1>3

\* That fold is defined.
LEMMA FoldExists ==
  ASSUME NEW s, NEW n \in Nat
  PROVE  \E h : Adds(s, n, h)
<1> DEFINE exists == {m \in Nat : \E h : Adds(s, m, h)}
<1>1. ASSUME NEW m \in Nat, m \in exists PROVE m + 1 \in exists
  <2>1. PICK h : Adds(s, m, h)
    BY <1>1
  <2> DEFINE k == [S \in SUBSET (1 .. m + 1) |->
                     IF m + 1 \in S THEN h[S \ {m + 1}] + s[m + 1].len
                     ELSE h[S]]
  <2>2. ASSUME NEW S \in SUBSET (1 .. m + 1)
        PROVE  k[S] = IF S = {} THEN 0 ELSE k[S \ {Max(S)}] + s[Max(S)].len
    <3>1. CASE m + 1 \in S
      <4>1. Max(S) = m + 1
        <5>1. S \subseteq Nat /\ \A i \in S : i <= m + 1
          OBVIOUS
        <5> QED BY <3>1, <5>1, Greatest
      <4>2. /\ S \ {m + 1} \in SUBSET (1 .. m + 1)
            /\ m + 1 \notin S \ {m + 1}
        OBVIOUS
      <4>3. k[S \ {m + 1}] = h[S \ {m + 1}]
        BY <4>2
      <4>4. k[S] = h[S \ {m + 1}] + s[m + 1].len
        BY <3>1
      <4> HIDE DEF k
      <4> QED BY <3>1, <4>1, <4>3, <4>4
    <3>2. CASE m + 1 \notin S
      <4>1. S \in SUBSET (1 .. m)
        BY <3>2
      <4>2. k[S] = h[S]
        BY <3>2
      <4>3. S \ {Max(S)} \in SUBSET (1 .. m + 1) /\ m + 1 \notin S \ {Max(S)}
        BY <3>2
      <4>4. k[S \ {Max(S)}] = h[S \ {Max(S)}]
        BY <4>3
      <4>5. h[S] = IF S = {} THEN 0 ELSE h[S \ {Max(S)}] + s[Max(S)].len
        BY <2>1, <4>1 DEF Adds
      <4> HIDE DEF k
      <4> QED BY <4>2, <4>4, <4>5
    <3> QED BY <3>1, <3>2
  <2>3. k = [S \in SUBSET (1 .. m + 1) |-> k[S]]
    OBVIOUS
  <2> HIDE DEF k
  <2>4. Adds(s, m + 1, k)
    BY <2>2, <2>3 DEF Adds
  <2> QED BY <2>4
<1>2. 0 \in exists
  <2> DEFINE h == [S \in SUBSET (1 .. 0) |-> 0]
  <2>1. \A S \in SUBSET (1 .. 0) : S = {}
    OBVIOUS
  <2>2. Adds(s, 0, h)
    BY <2>1 DEF Adds
  <2> QED BY <2>2
<1>3. n \in exists
  <2> HIDE DEF exists
  <2> QED BY <1>1, <1>2, Reached
<1> QED BY <1>3

\* The length of a layout is the sum of those of its buffers.
LEMMA LengthSums ==
  ASSUME NEW s, IsLayout(s)
  PROVE  \E g : Sums(s, g) /\ Length(s) = g[Len(s)]
<1>1. PICK B : s \in Seq(B)
  BY DEF IsLayout, IsSeq
<1> DEFINE n == Len(s)
<1>2. n \in Nat /\ DOMAIN s = 1 .. n
  BY <1>1
<1> DEFINE fold == CHOOSE h : Adds(s, n, h)
<1>3. Length(s) = fold[1 .. n]
  <2>1. Length(s) = (CHOOSE h : h = [S \in SUBSET (DOMAIN s) |->
                       IF S = {} THEN 0
                       ELSE h[S \ {Max(S)}] + s[Max(S)].len])[DOMAIN s]
    BY DEF Length, FoldLeft, MapThenFoldSet
  <2> QED BY <1>2, <2>1 DEF Adds
<1>4. Adds(s, n, fold)
  BY <1>2, FoldExists
<1> HIDE DEF fold
<1> DEFINE g == [i \in 0 .. n |-> fold[1 .. i]]
<1>5. fold[1 .. 0] = 0
  <2>1. 1 .. 0 = {} /\ {} \in SUBSET (1 .. n)
    OBVIOUS
  <2> QED BY <1>4, <2>1 DEF Adds
<1>6. ASSUME NEW i \in 1 .. n
      PROVE  fold[1 .. i] = fold[1 .. i - 1] + s[i].len
  <2>1. 1 .. i \in SUBSET (1 .. n) /\ 1 .. i # {}
    BY <1>2
  <2>2. Max(1 .. i) = i
    <3>1. 1 .. i \subseteq Nat /\ i \in 1 .. i /\ \A j \in 1 .. i : j <= i
      BY <1>2
    <3> QED BY <3>1, Greatest
  <2>3. (1 .. i) \ {i} = 1 .. i - 1
    BY <1>2
  <2> HIDE DEF n
  <2>4. fold[1 .. i] = fold[(1 .. i) \ {Max(1 .. i)}] + s[Max(1 .. i)].len
    BY <1>4, <2>1 DEF Adds
  <2> QED BY <2>2, <2>3, <2>4
<1>7. g[0] = 0 /\ \A i \in 1 .. n : g[i] = g[i - 1] + s[i].len
  <2>1. g[0] = 0
    BY <1>2, <1>5
  <2>2. ASSUME NEW i \in 1 .. n PROVE g[i] = g[i - 1] + s[i].len
    <3>1. i \in 0 .. n /\ i - 1 \in 0 .. n
      BY <1>2
    <3> HIDE DEF n
    <3>2. g[i] = fold[1 .. i] /\ g[i - 1] = fold[1 .. i - 1]
      BY <3>1
    <3> QED BY <1>6, <3>2
  <2> QED BY <2>1, <2>2
<1>8. DOMAIN g = 0 .. n /\ g = [i \in 0 .. n |-> g[i]] /\ g[n] = fold[1 .. n]
  BY <1>2
<1> HIDE DEF g
<1> DEFINE natural == {i \in Nat : i \in 0 .. n => g[i] \in Nat}
<1>9. ASSUME NEW i \in Nat, i \in natural PROVE i + 1 \in natural
  <2> SUFFICES ASSUME i + 1 \in 0 .. n PROVE g[i + 1] \in Nat
    OBVIOUS
  <2>1. i + 1 \in 1 .. n /\ (i + 1) - 1 = i /\ i \in 0 .. n
    BY <1>2
  <2>2. g[i + 1] = g[i] + s[i + 1].len
    BY <1>7, <2>1
  <2>3. s[i + 1].len \in Nat
    BY <1>2, <2>1 DEF IsLayout
  <2> QED BY <1>9, <2>1, <2>2, <2>3
<1>10. \A i \in 0 .. n : g[i] \in Nat
  <2>1. 0 \in natural
    BY <1>7
  <2> HIDE DEF natural
  <2>2. Nat \subseteq natural
    BY <1>9, <2>1, Reached
  <2> QED BY <1>2, <2>2 DEF natural
<1>11. Sums(s, g)
  <2>1. g \in [0 .. n -> Nat]
    <3> HIDE DEF n
    <3> QED BY <1>8, <1>10
  <2> QED BY <1>7, <2>1 DEF Sums
<1> QED BY <1>3, <1>8, <1>11

\* A layout that begins another one is as long as the sum over its buffers.
LEMMA LengthOfPrefix ==
  ASSUME NEW s, IsLayout(s), NEW t, IsLayout(t), NEW g, Sums(s, g),
         Len(t) <= Len(s), \A i \in DOMAIN t : t[i] = s[i]
  PROVE  Length(t) = g[Len(t)]
<1>1. PICK f : Sums(t, f) /\ Length(t) = f[Len(t)]
  BY LengthSums
<1>2. Len(t) \in Nat /\ Len(s) \in Nat /\ DOMAIN t = 1 .. Len(t)
  BY DEF IsLayout, IsSeq
<1> DEFINE agree == {i \in Nat : i \in 0 .. Len(t) => f[i] = g[i]}
<1>3. ASSUME NEW i \in Nat, i \in agree PROVE i + 1 \in agree
  <2> SUFFICES ASSUME i + 1 \in 0 .. Len(t) PROVE f[i + 1] = g[i + 1]
    OBVIOUS
  <2>1. /\ i + 1 \in 1 .. Len(t) /\ i + 1 \in 1 .. Len(s)
        /\ (i + 1) - 1 = i /\ i \in 0 .. Len(t)
    BY <1>2
  <2>2. f[i + 1] = f[i] + t[i + 1].len /\ g[i + 1] = g[i] + s[i + 1].len
    BY <1>1, <2>1 DEF Sums
  <2> QED BY <1>2, <1>3, <2>1, <2>2
<1>4. 0 \in agree
  BY <1>1 DEF Sums
<1>5. Len(t) \in agree
  <2> HIDE DEF agree
  <2> QED BY <1>2, <1>3, <1>4, Reached
<1> QED BY <1>1, <1>2, <1>5

\* The sums grow along the layout.
LEMMA SumsGrow ==
  ASSUME NEW s, IsLayout(s), NEW g, Sums(s, g),
         NEW i \in 0 .. Len(s), NEW j \in 0 .. Len(s), i <= j
  PROVE  g[i] <= g[j]
<1>1. Len(s) \in Nat /\ DOMAIN s = 1 .. Len(s)
  BY DEF IsLayout, IsSeq
<1> DEFINE above == {k \in Nat : i <= k /\ k <= Len(s) => g[i] <= g[k]}
<1>2. ASSUME NEW k \in Nat, k \in above PROVE k + 1 \in above
  <2> SUFFICES ASSUME i <= k + 1, k + 1 <= Len(s) PROVE g[i] <= g[k + 1]
    OBVIOUS
  <2>1. CASE i = k + 1
    BY <1>1, <2>1 DEF Sums
  <2>2. CASE i # k + 1
    <3>1. k + 1 \in 1 .. Len(s) /\ (k + 1) - 1 = k /\ k \in 0 .. Len(s) /\ i <= k
      BY <1>1, <2>2
    <3>2. g[k + 1] = g[k] + s[k + 1].len
      BY <3>1 DEF Sums
    <3>3. g[k] \in Nat /\ g[i] \in Nat /\ s[k + 1].len \in Nat
      BY <1>1, <3>1 DEF Sums, IsLayout
    <3> QED BY <1>2, <3>1, <3>2, <3>3
  <2> QED BY <2>1, <2>2
<1>3. 0 \in above
  <2>1. i <= 0 => i = 0
    BY <1>1
  <2>2. g[0] \in Nat
    BY <1>1 DEF Sums
  <2> QED BY <2>1, <2>2
<1>4. j \in above
  <2>1. Nat \subseteq above
    <3> HIDE DEF above
    <3> QED BY <1>2, <1>3, Reached
  <2> QED BY <1>1, <2>1
<1> QED BY <1>1, <1>4

\* A layout of the buffers X, of the lengths L gives them, is T long.
Fill(s, X, L, T) ==
  /\ IsLayout(s) /\ Names(s) = X /\ Length(s) = T
  /\ \A i \in DOMAIN s : s[i].len = L[s[i].name]

\* One buffer is as long as it says.
LEMMA FillBuffer ==
  ASSUME NEW name, NEW L, NEW len \in Nat, L[name] = len
  PROVE  Fill(Buffer(name, len), {name}, L, len)
<1> DEFINE s == Buffer(name, len)
<1>1. s \in Seq({[name |-> name, len |-> len]}) /\ Len(s) = 1
  BY DEF Buffer
<1>2. DOMAIN s = {1} /\ s[1].name = name /\ s[1].len = len
  BY DEF Buffer
<1> HIDE DEF s
<1>3. IsLayout(s) /\ Names(s) = {name}
  BY <1>1, <1>2 DEF IsLayout, IsSeq, Names
<1>4. PICK g : Sums(s, g) /\ Length(s) = g[Len(s)]
  BY <1>3, LengthSums
<1>5. g[1] = g[1 - 1] + s[1].len /\ g[0] = 0
  BY <1>1, <1>4 DEF Sums
<1>6. Length(s) = len
  BY <1>1, <1>2, <1>4, <1>5
<1>7. Fill(s, {name}, L, len)
  BY <1>2, <1>3, <1>6 DEF Fill
<1> QED BY <1>7 DEF s

\* No buffer has no length.
LEMMA FillNothing ==
  ASSUME NEW L
  PROVE  Fill(<<>>, {}, L, 0)
<1>1. <<>> \in Seq({}) /\ Len(<<>>) = 0 /\ DOMAIN <<>> = {}
  OBVIOUS
<1>2. IsLayout(<<>>) /\ Names(<<>>) = {}
  BY <1>1 DEF IsLayout, IsSeq, Names
<1>3. PICK g : Sums(<<>>, g) /\ Length(<<>>) = g[Len(<<>>)]
  BY <1>2, LengthSums
<1>4. Length(<<>>) = 0
  BY <1>1, <1>3 DEF Sums
<1> QED BY <1>1, <1>2, <1>4 DEF Fill

\* What two layouts one after the other have in which place.
LEMMA PlacesOfTwo ==
  ASSUME NEW s, NEW t, IsSeq(s), IsSeq(t)
  PROVE  /\ IsSeq(s \o t)
         /\ Len(s) \in Nat /\ Len(t) \in Nat /\ Len(s \o t) = Len(s) + Len(t)
         /\ DOMAIN s = 1 .. Len(s) /\ DOMAIN t = 1 .. Len(t)
         /\ DOMAIN (s \o t) = 1 .. Len(s) + Len(t)
         /\ \A i \in 1 .. Len(s) : (s \o t)[i] = s[i]
         /\ \A i \in 1 .. Len(t) : (s \o t)[Len(s) + i] = t[i]
<1>1. PICK S : s \in Seq(S)
  BY DEF IsSeq
<1>2. PICK T : t \in Seq(T)
  BY DEF IsSeq
<1>3. s \in Seq(S \cup T) /\ t \in Seq(S \cup T)
  BY <1>1, <1>2
<1>4. s \o t \in Seq(S \cup T)
  BY <1>3
<1>5. /\ Len(s) \in Nat /\ Len(t) \in Nat /\ Len(s \o t) = Len(s) + Len(t)
      /\ DOMAIN s = 1 .. Len(s) /\ DOMAIN t = 1 .. Len(t)
      /\ DOMAIN (s \o t) = 1 .. Len(s) + Len(t)
      /\ \A i \in 1 .. Len(s) : (s \o t)[i] = s[i]
      /\ \A i \in 1 .. Len(t) : (s \o t)[Len(s) + i] = t[i]
  BY <1>3
<1> QED BY <1>4, <1>5 DEF IsSeq

\* Layouts one after the other are as long as both.
LEMMA FillConcat ==
  ASSUME NEW s, NEW t, NEW X, NEW Y, NEW L, NEW T, NEW U,
         Fill(s, X, L, T), Fill(t, Y, L, U)
  PROVE  Fill(s \o t, X \cup Y, L, T + U)
<1> DEFINE r == s \o t
           m == Len(s)
           n == Len(t)
<1>1. /\ IsSeq(r)
      /\ m \in Nat /\ n \in Nat /\ Len(r) = m + n
      /\ DOMAIN s = 1 .. m /\ DOMAIN t = 1 .. n /\ DOMAIN r = 1 .. m + n
      /\ \A i \in 1 .. m : r[i] = s[i]
      /\ \A i \in 1 .. n : r[m + i] = t[i]
  BY PlacesOfTwo DEF Fill, IsLayout
<1>2. Names(r) = X \cup Y
  <2>1. Lays(s, X) /\ Lays(t, Y)
    BY DEF Fill, IsLayout, Lays
  <2> QED BY <2>1, LaysConcat DEF Lays
<1> HIDE DEF r
<1>3. ASSUME NEW i \in DOMAIN r
      PROVE  r[i].len \in Nat /\ r[i].len = L[r[i].name]
  <2>1. CASE i \in 1 .. m
    BY <1>1, <2>1 DEF Fill, IsLayout
  <2>2. CASE i \notin 1 .. m
    <3>1. i - m \in 1 .. n /\ i = m + (i - m)
      BY <1>1, <2>2
    <3>2. r[i] = t[i - m]
      BY <1>1, <3>1
    <3> QED BY <1>1, <3>1, <3>2 DEF Fill, IsLayout
  <2> QED BY <2>1, <2>2
<1>4. IsLayout(r)
  BY <1>1, <1>3 DEF IsLayout
<1>5. PICK g : Sums(r, g) /\ Length(r) = g[m + n]
  BY <1>1, <1>4, LengthSums
<1>6. g[m] = T
  <2>1. IsLayout(s) /\ Len(s) <= Len(r) /\ \A i \in DOMAIN s : s[i] = r[i]
    BY <1>1 DEF Fill
  <2>2. Length(s) = g[Len(s)]
    BY <1>4, <1>5, <2>1, LengthOfPrefix
  <2> QED BY <2>2 DEF Fill
<1>7. PICK f : Sums(t, f) /\ Length(t) = f[n]
  BY LengthSums DEF Fill
<1>8. \A i \in 1 .. n : t[i].len \in Nat
  BY <1>1 DEF Fill, IsLayout
<1>9. T \in Nat
  <2>1. m \in 0 .. Len(r)
    BY <1>1
  <2> QED BY <1>5, <1>6, <2>1 DEF Sums
<1> HIDE DEF m, n
<1> DEFINE agree == {i \in Nat : i <= n => g[m + i] = T + f[i]}
<1>10. ASSUME NEW i \in Nat, i \in agree PROVE i + 1 \in agree
  <2> SUFFICES ASSUME i + 1 <= n PROVE g[m + (i + 1)] = T + f[i + 1]
    OBVIOUS
  <2>1. /\ i + 1 \in 1 .. n /\ m + (i + 1) \in 1 .. m + n
        /\ (i + 1) - 1 = i /\ (m + (i + 1)) - 1 = m + i /\ i <= n
        /\ i \in 0 .. n
    BY <1>1
  <2>2. f[i + 1] = f[i] + t[i + 1].len /\ f[i] \in Nat
    BY <1>7, <2>1 DEF Sums, n
  <2>3. g[m + (i + 1)] = g[m + i] + r[m + (i + 1)].len
    BY <1>1, <1>5, <2>1 DEF Sums
  <2>4. r[m + (i + 1)] = t[i + 1]
    BY <1>1, <2>1
  <2>5. g[m + i] = T + f[i]
    BY <1>10, <2>1
  <2> QED BY <1>8, <1>9, <2>1, <2>2, <2>3, <2>4, <2>5
<1>11. 0 \in agree
  <2>1. m + 0 = m /\ f[0] = 0
    BY <1>1, <1>7 DEF Sums
  <2> QED BY <1>6, <1>9, <2>1
<1>12. n \in agree
  <2> HIDE DEF agree
  <2> QED BY <1>1, <1>10, <1>11, Reached
<1>13. Length(r) = T + U
  <2>1. Length(t) = U
    BY DEF Fill
  <2>2. n <= n
    BY <1>1
  <2>3. g[m + n] = T + f[n]
    BY <1>12, <2>2
  <2> QED BY <1>5, <1>7, <2>1, <2>3
<1>14. Fill(r, X \cup Y, L, T + U)
  BY <1>2, <1>3, <1>4, <1>13 DEF Fill
<1> QED BY <1>14 DEF r

\* What is not needed takes no room.
LEMMA FillWhen ==
  ASSUME NEW cond, NEW s, NEW X, NEW L, NEW T, Fill(s, X, L, T)
  PROVE  Fill(When(cond, s), IF cond THEN X ELSE {}, L, IF cond THEN T ELSE 0)
BY FillNothing DEF When

\* Where a buffer begins and where it ends, counted along the layout.
LEMMA Bounds ==
  ASSUME NEW s, NEW X, NEW L, NEW T, Fill(s, X, L, T), NEW x \in X
  PROVE  LET i  == Place(s, x)
             lo == Length(SubSeq(s, 1, i - 1))
             hi == Length(SubSeq(s, 1, i))
         IN  /\ i \in DOMAIN s /\ s[i].name = x /\ s[i].len = L[x]
             /\ lo \in Nat /\ L[x] \in Nat /\ hi = lo + L[x] /\ hi <= T
             /\ T \in Nat
             /\ \E g : Sums(s, g) /\ lo = g[i - 1] /\ hi = g[i]
<1> DEFINE i  == Place(s, x)
           lo == Length(SubSeq(s, 1, i - 1))
           hi == Length(SubSeq(s, 1, i))
<1>1. PICK B : s \in Seq(B)
  BY DEF Fill, IsLayout, IsSeq
<1>2. Len(s) \in Nat /\ DOMAIN s = 1 .. Len(s)
  BY <1>1
<1>3. i \in DOMAIN s /\ s[i].name = x
  <2>1. \E j \in DOMAIN s : s[j].name = x
    BY DEF Fill, Names
  <2> QED BY <2>1 DEF Place
<1> HIDE DEF i
<1>4. PICK g : Sums(s, g) /\ T = g[Len(s)]
  BY LengthSums DEF Fill
<1>5. ASSUME NEW k \in 0 .. Len(s) PROVE Length(SubSeq(s, 1, k)) = g[k]
  <2> DEFINE r == SubSeq(s, 1, k)
  <2>1. /\ r \in Seq(B) /\ Len(r) = k
        /\ \A j \in 1 .. k : r[j] = s[j]
        /\ DOMAIN r = 1 .. k
    BY <1>1, <1>2
  <2>2. \A j \in 1 .. k : s[j].len \in Nat /\ j \in 1 .. Len(s)
    BY <1>2 DEF Fill, IsLayout
  <2> HIDE DEF r
  <2>3. IsLayout(r)
    BY <2>1, <2>2 DEF IsLayout, IsSeq
  <2>4. Len(r) <= Len(s) /\ \A j \in DOMAIN r : r[j] = s[j]
    BY <1>2, <2>1
  <2>5. Length(r) = g[Len(r)]
    BY <1>4, <2>3, <2>4, LengthOfPrefix DEF Fill
  <2> QED BY <2>1, <2>5 DEF r
<1>6. /\ i \in 1 .. Len(s) /\ i \in 0 .. Len(s) /\ i - 1 \in 0 .. Len(s)
      /\ Len(s) \in 0 .. Len(s) /\ i <= Len(s)
  BY <1>2, <1>3
<1>7. lo = g[i - 1] /\ hi = g[i]
  BY <1>5, <1>6
<1>8. s[i].len = L[x] /\ s[i].len \in Nat
  BY <1>3 DEF Fill, IsLayout
<1>9. g[i] = g[i - 1] + s[i].len /\ g[i - 1] \in Nat /\ T \in Nat
  BY <1>4, <1>6 DEF Sums
<1>10. g[i] <= T
  BY <1>4, <1>6, SumsGrow DEF Fill
<1> HIDE DEF lo, hi
<1>11. /\ i \in DOMAIN s /\ s[i].name = x /\ s[i].len = L[x]
       /\ lo \in Nat /\ L[x] \in Nat /\ hi = lo + L[x] /\ hi <= T
       /\ T \in Nat
  BY <1>3, <1>7, <1>8, <1>9, <1>10
<1> QED BY <1>4, <1>7, <1>11 DEF i, lo, hi

\* A buffer of the first of two layouts ends before the second begins, and
\* one of the second begins behind the first.
LEMMA BoundsOfTwo ==
  ASSUME NEW s, NEW t, NEW X, NEW Y, NEW L, NEW T, NEW U,
         Fill(s, X, L, T), Fill(t, Y, L, U), NEW x \in X \cup Y
  PROVE  LET i == Place(s \o t, x)
         IN  /\ x \notin Y => Length(SubSeq(s \o t, 1, i)) <= T
             /\ x \notin X => Length(SubSeq(s \o t, 1, i - 1)) >= T
<1> DEFINE r == s \o t
           i == Place(r, x)
           lo == Length(SubSeq(r, 1, i - 1))
           hi == Length(SubSeq(r, 1, i))
<1>1. Fill(r, X \cup Y, L, T + U)
  BY FillConcat
<1>2. /\ Len(s) \in Nat /\ Len(t) \in Nat /\ Len(r) = Len(s) + Len(t)
      /\ DOMAIN s = 1 .. Len(s) /\ DOMAIN t = 1 .. Len(t)
      /\ DOMAIN r = 1 .. Len(s) + Len(t)
      /\ \A j \in 1 .. Len(s) : r[j] = s[j]
      /\ \A j \in 1 .. Len(t) : r[Len(s) + j] = t[j]
  BY PlacesOfTwo DEF Fill, IsLayout
<1> HIDE DEF r
<1>3. /\ i \in DOMAIN r /\ r[i].name = x
      /\ \E g : Sums(r, g) /\ lo = g[i - 1] /\ hi = g[i]
  BY <1>1, Bounds
<1> HIDE DEF i, lo, hi
<1>4. PICK g : Sums(r, g) /\ lo = g[i - 1] /\ hi = g[i]
  BY <1>3
<1>5. g[Len(s)] = T
  <2>1. IsLayout(s) /\ Len(s) <= Len(r) /\ \A j \in DOMAIN s : s[j] = r[j]
    BY <1>2 DEF Fill
  <2>2. Length(s) = g[Len(s)]
    BY <1>1, <1>4, <2>1, LengthOfPrefix DEF Fill
  <2> QED BY <2>2 DEF Fill
<1>6. ASSUME x \notin Y PROVE hi <= T
  <2>1. i <= Len(s)
    <3> SUFFICES ASSUME i > Len(s) PROVE FALSE
      BY <1>2, <1>3
    <3>1. i - Len(s) \in 1 .. Len(t) /\ i = Len(s) + (i - Len(s))
      BY <1>2, <1>3
    <3>2. r[i] = t[i - Len(s)]
      BY <1>2, <3>1
    <3>3. x \in Names(t)
      BY <1>2, <1>3, <3>1, <3>2 DEF Names
    <3> QED BY <1>6, <3>3 DEF Fill
  <2>2. i \in 0 .. Len(r) /\ Len(s) \in 0 .. Len(r)
    BY <1>2, <1>3
  <2>3. g[i] <= g[Len(s)]
    BY <1>1, <1>4, <2>1, <2>2, SumsGrow DEF Fill
  <2> QED BY <1>4, <1>5, <2>3
<1>7. ASSUME x \notin X PROVE lo >= T
  <2>1. i > Len(s)
    <3> SUFFICES ASSUME i <= Len(s) PROVE FALSE
      BY <1>2, <1>3
    <3>1. i \in DOMAIN s /\ r[i] = s[i]
      BY <1>2, <1>3
    <3>2. x \in Names(s)
      BY <1>3, <3>1 DEF Names
    <3> QED BY <1>7, <3>2 DEF Fill
  <2>2. i - 1 \in 0 .. Len(r) /\ Len(s) \in 0 .. Len(r) /\ Len(s) <= i - 1
    BY <1>2, <1>3, <2>1
  <2>3. g[Len(s)] <= g[i - 1]
    BY <1>1, <1>4, <2>2, SumsGrow DEF Fill
  <2>4. g[i - 1] \in Nat /\ g[Len(s)] \in Nat
    BY <1>4, <2>2 DEF Sums
  <2> QED BY <1>4, <1>5, <2>3, <2>4
<1> QED BY <1>6, <1>7 DEF r, i, lo, hi
=============================================================================

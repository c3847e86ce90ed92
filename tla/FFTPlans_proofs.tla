--------------------------- MODULE FFTPlans_proofs ---------------------------
(***************************************************************************)
(* Theorems about FFTPlans for any lengths, extents and batches: who frees *)
(* the host tables of a plan, and what the kernels of an execution write.  *)
(***************************************************************************)
EXTENDS FFTPlans, FFTMemory_proofs

\* What the Make and destroy functions decide by.
Deciding == {"rank", "kind", "strategy", "prime", "bluestein"}

IsPlan(p) ==
  /\ Deciding \subseteq DOMAIN p
  /\ p.rank \in 1 .. 2 /\ p.kind \in {"c2c", "r2c", "c2r"}
  /\ p.prime \in BOOLEAN /\ p.bluestein \in BOOLEAN
  /\ p.rank = 1 /\ p.bluestein => p.kind = "c2c"
  /\ p.rank = 2 => p.strategy \in {"two level", "many"}

\* How matrix products are used.
MatmulStrategies == {"matmul", "cooley", "stockham"}
Strategies == MatmulStrategies \cup {"two level", "many"}

AnyWay == [strategy : Strategies, prime : BOOLEAN, bluestein : BOOLEAN,
            bluesteinRow : BOOLEAN, bluesteinColumn : BOOLEAN,
            batchInner : BOOLEAN]

\* Of one dimension, a length taken for a prime is multiplied by matrices,
\* and Bluestein's algorithm is never that of a row or a column.
Suits1d(kind, t, w) ==
  /\ w \in AnyWay /\ w.strategy # "many"
  /\ w.prime => w.strategy \in MatmulStrategies
  /\ w.bluestein => kind = "c2c" /\ w.prime
  /\ w.batchInner => kind = "c2c" /\ Inner(kind, t)
  /\ ~ w.bluesteinRow /\ ~ w.bluesteinColumn

\* Of two it is, and the layout decides the strategy.
Suits2d(kind, t, w) ==
  /\ w \in AnyWay /\ w.strategy \in {"two level", "many"}
  /\ w.bluestein => kind = "c2c" /\ w.prime
  /\ w.bluesteinRow \/ w.bluesteinColumn => w.bluestein
  /\ w.batchInner \/ w.strategy = "many" => Inner(kind, t)

\* Both flags are Boolean, and set for complex transforms only.
LEMMA FlagsOf ==
  ASSUME NEW kind, NEW t, NEW cr \in Flagged(kind, t)
  PROVE  /\ cr[1] \in BOOLEAN /\ cr[2] \in BOOLEAN
         /\ cr[1] \/ cr[2] => kind = "c2c"
<1>1. /\ cr \in BOOLEAN \X BOOLEAN
      /\ \A i \in 1 .. 2 : cr[i] => kind = "c2c" /\ t.n[i] # 1
  BY DEF Flagged
<1>2. cr[1] \in BOOLEAN /\ cr[2] \in BOOLEAN
  BY <1>1
<1>3. 1 \in 1 .. 2 /\ 2 \in 1 .. 2
  BY SMT
<1>4. (cr[1] => kind = "c2c") /\ (cr[2] => kind = "c2c")
  BY <1>1, <1>3, Zenon
<1> QED BY <1>2, <1>4

\* What each way to transform goes with.
LEMMA WaysSuit ==
  ASSUME NEW kind, NEW t
  PROVE  /\ \A w \in Ways1d(kind, t) : Suits1d(kind, t, w)
         /\ \A w \in Ways2d(kind, t) : Suits2d(kind, t, w)
<1> DEFINE any   == Inner(kind, t)
           plain == Way("two level", FALSE)
           fast  == [Way("matmul", TRUE) EXCEPT !.bluestein = TRUE]
           inner(w) == [w EXCEPT !.batchInner = TRUE]
<1>1. /\ Suits1d(kind, t, Way("matmul", TRUE))
      /\ Suits1d(kind, t, Way("cooley", TRUE))
      /\ Suits1d(kind, t, Way("stockham", TRUE))
      /\ Suits1d(kind, t, plain)
  BY DEF Way, Suits1d, AnyWay, MatmulStrategies, Strategies
<1>2. kind = "c2c" => Suits1d(kind, t, fast)
  BY DEF Way, Suits1d, AnyWay, MatmulStrategies, Strategies
<1>3. ASSUME NEW w, Suits1d(kind, t, w), kind = "c2c", any
      PROVE  Suits1d(kind, t, inner(w))
  <2> HIDE DEF any
  <2> QED BY <1>3 DEF Suits1d, AnyWay, any
<1>4. Ways1d(kind, t) =
        {Way("matmul", TRUE)}
        \cup IF t.n = <<1>> THEN {}
             ELSE {Way("cooley", TRUE), Way("stockham", TRUE)}
                  \cup ({plain} \cup IF kind = "c2c" /\ any THEN {inner(plain)}
                                     ELSE {})
                  \cup IF kind # "c2c" THEN {}
                       ELSE {fast} \cup IF kind = "c2c" /\ any
                                        THEN {inner(fast)} ELSE {}
  BY DEF Ways1d
<1>5. \A w \in Ways1d(kind, t) : Suits1d(kind, t, w)
  <2> HIDE DEF any, plain, fast, inner
  <2> QED BY <1>1, <1>2, <1>3, <1>4
<1>6. ASSUME NEW w \in Ways2d(kind, t)
      PROVE  Suits2d(kind, t, w)
  <2> DEFINE by(cr, strategy, inner2d) ==
               [Way(strategy, cr[1] \/ cr[2]) EXCEPT
                  !.bluestein = cr[1] \/ cr[2], !.bluesteinColumn = cr[1],
                  !.bluesteinRow = cr[2], !.batchInner = inner2d]
  <2>1. PICK cr \in Flagged(kind, t), strategy \in {"two level", "many"},
             last \in BOOLEAN :
          /\ w = by(cr, strategy, last)
          /\ strategy = "many" \/ last => any
    <3>1. Ways2d(kind, t) =
            {by(cr, "two level", FALSE) : cr \in Flagged(kind, t)}
            \cup IF any THEN {by(cr, "many", TRUE) : cr \in Flagged(kind, t)}
                        ELSE {}
      BY DEF Ways2d
    <3> HIDE DEF by, any
    <3>2. CASE w \in {by(cr, "two level", FALSE) : cr \in Flagged(kind, t)}
      BY <3>2
    <3>3. CASE any /\ w \in {by(cr, "many", TRUE) : cr \in Flagged(kind, t)}
      BY <3>3
    <3> QED BY <3>1, <3>2, <3>3
  <2>2. /\ cr[1] \in BOOLEAN /\ cr[2] \in BOOLEAN
        /\ cr[1] \/ cr[2] => kind = "c2c"
    BY FlagsOf
  <2> DEFINE both == cr[1] \/ cr[2]
  <2>3. w = [strategy |-> strategy, prime |-> both, bluestein |-> both,
             bluesteinRow |-> cr[2], bluesteinColumn |-> cr[1],
             batchInner |-> last]
    <3>1. w = [Way(strategy, both) EXCEPT
                 !.bluestein = both, !.bluesteinColumn = cr[1],
                 !.bluesteinRow = cr[2], !.batchInner = last]
      BY <2>1
    <3> HIDE DEF both
    <3> QED BY <3>1 DEF Way
  <2>4. both \in BOOLEAN /\ (both => kind = "c2c")
        /\ (cr[1] => both) /\ (cr[2] => both)
    BY <2>2
  <2> HIDE DEF both, any
  <2>5. w \in AnyWay
    BY <2>2, <2>3, <2>4 DEF AnyWay, Strategies
  <2>6. /\ w.strategy = strategy /\ w.prime = both /\ w.bluestein = both
        /\ w.bluesteinRow = cr[2] /\ w.bluesteinColumn = cr[1]
        /\ w.batchInner = last
    BY <2>3
  <2>7. /\ w.bluesteinRow \/ w.bluesteinColumn => w.bluestein
        /\ w.bluestein => kind = "c2c" /\ w.prime
    BY <2>4, <2>6
  <2> QED BY <2>1, <2>5, <2>6, <2>7 DEF Suits2d, any
<1> QED BY <1>5, <1>6

LEMMA WaysAreTyped ==
  ASSUME NEW kind, NEW t
  PROVE  Ways1d(kind, t) \subseteq AnyWay /\ Ways2d(kind, t) \subseteq AnyWay
<1>1. ASSUME NEW w, Suits1d(kind, t, w) \/ Suits2d(kind, t, w)
      PROVE  w \in AnyWay
  BY <1>1 DEF Suits1d, Suits2d
<1> QED BY <1>1, WaysSuit

\* A plan that is made has the fields of the way it is transformed, of the
\* tensors it is made for, and of the call.
LEMMA MadeFields ==
  ASSUME NEW rank, NEW kind, NEW t \in Tensors(rank), NEW way \in AnyWay
  PROVE  LET p == Made(rank, kind, t, way)
         IN  /\ DOMAIN way \cup DOMAIN t \cup {"rank", "kind"} \subseteq DOMAIN p
             /\ \A x \in DOMAIN way : p[x] = way[x]
             /\ \A x \in DOMAIN t : p[x] = t[x]
             /\ p.rank = rank /\ p.kind = kind
<1> DEFINE own  == [rank |-> rank, kind |-> kind, L |-> t.n[1],
                    onembed |-> IF kind = "r2c" THEN HalfDims(t.n) ELSE t.n]
           both == With(way, t)
           all  == With(both, own)
           rest == [internal |-> InternalSize(all)]
<1>1. DOMAIN way = {"strategy", "prime", "bluestein", "bluesteinRow",
                    "bluesteinColumn", "batchInner"}
  BY DEF AnyWay
<1>2. DOMAIN t = {"n", "inembed", "batch", "inDense", "outDense"}
  BY DEF Tensors
<1>3. /\ DOMAIN own = {"rank", "kind", "L", "onembed"}
      /\ own.rank = rank /\ own.kind = kind
  OBVIOUS
<1>4. Made(rank, kind, t, way) = With(all, rest)
  BY DEF Made
<1> HIDE DEF own
<1>5. /\ DOMAIN both = DOMAIN way \cup DOMAIN t
      /\ \A x \in DOMAIN way : both[x] = way[x]
      /\ \A x \in DOMAIN t : both[x] = t[x]
  <2>1. \A x \in DOMAIN t : x \notin DOMAIN way
    BY <1>1, <1>2
  <2>2. /\ DOMAIN both = DOMAIN way \cup DOMAIN t
        /\ \A x \in DOMAIN way : both[x] = way[x]
        /\ \A x \in DOMAIN t \ DOMAIN way : both[x] = t[x]
    BY Merge
  <2> HIDE DEF both
  <2> QED BY <2>1, <2>2
<1> HIDE DEF both
<1>6. /\ DOMAIN all = DOMAIN both \cup DOMAIN own
      /\ \A x \in DOMAIN both : all[x] = both[x]
      /\ \A x \in DOMAIN own \ DOMAIN both : all[x] = own[x]
  BY Merge
<1> HIDE DEF all, rest
<1>7. /\ DOMAIN all \subseteq DOMAIN With(all, rest)
      /\ \A x \in DOMAIN all : With(all, rest)[x] = all[x]
  BY Merge
<1>8. {"rank", "kind"} \subseteq DOMAIN own \ DOMAIN both
  <2>1. /\ {"rank", "kind"} \subseteq DOMAIN own
        /\ "rank" \notin DOMAIN way /\ "rank" \notin DOMAIN t
        /\ "kind" \notin DOMAIN way /\ "kind" \notin DOMAIN t
    BY <1>1, <1>2, <1>3
  <2> QED BY <1>5, <2>1
<1>9. all.rank = rank /\ all.kind = kind
  BY <1>3, <1>6, <1>8
<1>10. {"rank", "kind"} \subseteq DOMAIN all
  BY <1>6, <1>8
<1>11. /\ With(all, rest).rank = rank /\ With(all, rest).kind = kind
  BY <1>7, <1>9, <1>10
<1>12. /\ DOMAIN way \cup DOMAIN t \subseteq DOMAIN all
       /\ \A x \in DOMAIN way : all[x] = way[x]
       /\ \A x \in DOMAIN t : all[x] = t[x]
  BY <1>5, <1>6
<1> QED BY <1>4, <1>7, <1>10, <1>11, <1>12

\* So it says all that decides which tables it has.
LEMMA MadeIsPlan ==
  ASSUME NEW rank \in 1 .. 2, NEW kind \in {"c2c", "r2c", "c2r"},
         NEW t \in Tensors(rank), NEW way \in AnyWay,
         rank = 1 => Suits1d(kind, t, way), rank = 2 => Suits2d(kind, t, way)
  PROVE  IsPlan(Made(rank, kind, t, way))
<1> DEFINE p == Made(rank, kind, t, way)
<1>1. /\ DOMAIN way \cup DOMAIN t \cup {"rank", "kind"} \subseteq DOMAIN p
      /\ \A x \in DOMAIN way : p[x] = way[x]
      /\ p.rank = rank /\ p.kind = kind
  BY MadeFields
<1> HIDE DEF p
<1>2. /\ {"strategy", "prime", "bluestein"} \subseteq DOMAIN way
      /\ way.prime \in BOOLEAN /\ way.bluestein \in BOOLEAN
  BY DEF AnyWay
<1>3. rank = 2 => way.strategy \in {"two level", "many"}
  BY DEF Suits2d
<1>4. rank = 1 /\ way.bluestein => kind = "c2c"
  BY DEF Suits1d
<1>5. IsPlan(p)
  BY <1>1, <1>2, <1>3, <1>4 DEF IsPlan, Deciding
<1> QED BY <1>5 DEF p

\* The destroy functions, branch by branch, free of what the Make functions
\* computed and mluOpCreateFFTPlan allocated all but what is named, and no more.
LEMMA Freed ==
  ASSUME NEW p, IsPlan(p)
  PROVE  /\ DestroyedTables(p) \subseteq Factors \cup ComputedTables(p)
         /\ (Factors \cup ComputedTables(p)) \ DestroyedTables(p) = Leaked(p)
<1>1. CASE p.rank = 1
  <2>1. CASE p.prime
    <3>1. DestroyedTables(p) = {}
      BY <1>1, <2>1 DEF DestroyedTables, destroyFFT1dReserveArea, IsPlan,
                        destroyRFFT1dReserveArea, destroyIRFFT1dReserveArea
    <3>2. CASE ~ p.bluestein
      <4>1. ComputedTables(p) = {} /\ Leaked(p) = Factors
        BY <1>1, <2>1, <3>2 DEF ComputedTables, Leaked
      <4> QED BY <3>1, <4>1
    <3>3. CASE p.bluestein
      <4>1. p.kind = "c2c"
        BY <1>1, <3>3 DEF IsPlan
      <4>2. ComputedTables(p) = {"factors", "twiddles", "dft_matrix",
                                 "twiddles_inv", "idft_matrix"}
        BY <1>1, <2>1, <3>3, <4>1 DEF ComputedTables
      <4>3. Leaked(p) = Factors \cup {"twiddles", "dft_matrix", "twiddles_inv",
                                      "idft_matrix"}
        BY <1>1, <2>1, <3>3 DEF Leaked
      <4> QED BY <3>1, <4>2, <4>3 DEF Factors
    <3> QED BY <3>2, <3>3
  <2>2. CASE ~ p.prime
    <3>1. DestroyedTables(p) =
            {"factors", "twiddles", "dft_matrix"}
            \cup IF p.kind = "c2c" THEN {"twiddles_inv", "idft_matrix"} ELSE {}
      BY <1>1, <2>2 DEF DestroyedTables, destroyFFT1dReserveArea, IsPlan,
                        destroyRFFT1dReserveArea, destroyIRFFT1dReserveArea
    <3>2. ComputedTables(p) = DestroyedTables(p)
      BY <1>1, <2>2, <3>1 DEF ComputedTables
    <3>3. /\ "factors" \in DestroyedTables(p)
          /\ "factors_2d" \notin DestroyedTables(p)
      BY <3>1
    <3>4. Leaked(p) = {"factors_2d"}
      BY <1>1, <2>2 DEF Leaked
    <3> QED BY <3>2, <3>3, <3>4 DEF Factors
  <2> QED BY <2>1, <2>2
<1>2. CASE p.rank = 2
  <2>1. DestroyedTables(p) = destroyFFT2dReserveArea(p)
    BY <1>2 DEF DestroyedTables
  <2>2. CASE p.strategy = "many"
    <3>1. ComputedTables(p) = DestroyedTables(p)
      BY <1>2, <2>1, <2>2 DEF destroyFFT2dReserveArea, ComputedTables
    <3>2. DestroyedTables(p) \cap Factors = {}
      BY <1>2, <2>1, <2>2 DEF destroyFFT2dReserveArea, Factors
    <3>3. Leaked(p) = Factors
      BY <1>2, <2>2 DEF Leaked
    <3> QED BY <3>1, <3>2, <3>3
  <2>3. CASE p.strategy = "two level"
    <3>1. p.strategy # "many"
      BY <2>3
    <3>2. ComputedTables(p) = TwoLevelTables(p) \cup Factors
      BY <1>2, <3>1 DEF ComputedTables
    <3>3. DestroyedTables(p) =
            {"factors", "factors_2d", "twiddles", "dft_matrix"}
            \cup (CASE p.kind = "r2c" -> {"twiddles_2d", "dft_matrix_2d"}
                    [] p.kind = "c2r" -> {"twiddles_inv_2d", "idft_matrix_2d"}
                    [] p.kind = "c2c" -> {"twiddles_2d", "dft_matrix_2d",
                                          "twiddles_inv_2d", "twiddles_inv",
                                          "idft_matrix_2d", "idft_matrix"})
      BY <2>1, <2>3, <3>1 DEF destroyFFT2dReserveArea
    <3>4. Leaked(p) = {}
      BY <1>2, <3>1 DEF Leaked
    <3>5. CASE p.kind = "r2c"
      <4>1. TwoLevelTables(p) = {"twiddles", "dft_matrix", "twiddles_2d",
                                 "dft_matrix_2d"}
        BY <3>5 DEF TwoLevelTables
      <4>2. DestroyedTables(p) = Factors \cup TwoLevelTables(p)
        BY <3>3, <3>5, <4>1 DEF Factors
      <4> QED BY <3>2, <3>4, <4>2
    <3>6. CASE p.kind = "c2r"
      <4>1. TwoLevelTables(p) = {"twiddles", "dft_matrix", "twiddles_inv_2d",
                                 "idft_matrix_2d"}
        BY <3>6 DEF TwoLevelTables
      <4>2. DestroyedTables(p) = Factors \cup TwoLevelTables(p)
        BY <3>3, <3>6, <4>1 DEF Factors
      <4> QED BY <3>2, <3>4, <4>2
    <3>7. CASE p.kind = "c2c"
      <4>1. TwoLevelTables(p) = {"twiddles", "dft_matrix", "twiddles_inv",
                                 "idft_matrix", "twiddles_2d",
                                 "dft_matrix_2d", "twiddles_inv_2d",
                                 "idft_matrix_2d"}
        BY <3>7 DEF TwoLevelTables
      <4>2. DestroyedTables(p) = Factors \cup TwoLevelTables(p)
        BY <3>3, <3>7, <4>1 DEF Factors
      <4> QED BY <3>2, <3>4, <4>2
    <3> QED BY <3>5, <3>6, <3>7 DEF IsPlan
  <2> QED BY <1>2, <2>2, <2>3 DEF IsPlan
<1>3. p.rank = 1 \/ p.rank = 2
  <2>1. p.rank \in 1 .. 2
    BY DEF IsPlan
  <2> QED BY <2>1
<1> QED BY <1>1, <1>2, <1>3

\* From the first call to the last the tables on the host are the factors and
\* those the plan's type, rank and strategy ask for.
HostInv ==
  \/ phase = "none" /\ plan = NoPlan
  \/ phase = "created" /\ plan = NoPlan /\ host = Factors
  \/ /\ phase \in {"made", "reserved", "executed", "refused"}
     /\ IsPlan(plan) /\ host = Factors \cup ComputedTables(plan)
  \/ phase = "destroyed" /\ TablesFreed

\* The tables go by the fields that decide.
LEMMA SameDecision ==
  ASSUME NEW p, NEW q, \A x \in Deciding : p[x] = q[x]
  PROVE  ComputedTables(p) = ComputedTables(q)
BY DEF ComputedTables, TwoLevelTables, Deciding

\* No call breaks this.
LEMMA HostStep == HostInv /\ [Next]_vars => HostInv'
<1> SUFFICES ASSUME HostInv, [Next]_vars PROVE HostInv'
  OBVIOUS
<1>1. CASE CreateFFTPlan
  BY <1>1 DEF CreateFFTPlan, HostInv
<1>2. CASE MakeFFTPlanMany
  <2>1. IsPlan(plan')
    <3>1. PICK rank \in 1 .. 2, kind \in {"c2c", "r2c", "c2r"} :
            \E t \in Tensors(rank) :
            \E way \in IF rank = 1 THEN Ways1d(kind, t) ELSE Ways2d(kind, t) :
              plan' = Made(rank, kind, t, way)
      BY <1>2 DEF MakeFFTPlanMany
    <3>2. PICK t \in Tensors(rank) :
            \E way \in IF rank = 1 THEN Ways1d(kind, t) ELSE Ways2d(kind, t) :
              plan' = Made(rank, kind, t, way)
      BY <3>1
    <3>3. PICK way \in AnyWay : /\ plan' = Made(rank, kind, t, way)
                                /\ rank = 1 => way \in Ways1d(kind, t)
                                /\ rank = 2 => way \in Ways2d(kind, t)
      BY <3>2, WaysAreTyped
    <3>4. /\ rank = 1 => Suits1d(kind, t, way)
          /\ rank = 2 => Suits2d(kind, t, way)
      BY <3>3, WaysSuit
    <3> QED BY <3>3, <3>4, MadeIsPlan
  <2>2. host = Factors /\ phase' = "made"
    BY <1>2 DEF MakeFFTPlanMany, HostInv
  <2>3. host' = host \cup ComputedTables(plan')
    BY <1>2 DEF MakeFFTPlanMany
  <2>4. host' = Factors \cup ComputedTables(plan)'
    BY <2>2, <2>3
  <2>5. IsPlan(plan)'
    BY <2>1
  <2> QED BY <2>2, <2>4, <2>5 DEF HostInv
<1>3. CASE SetFFTReserveArea
  BY <1>3 DEF SetFFTReserveArea, HostInv, IsPlan
<1>4. CASE ExecFFT
  <2>1. PICK given : plan' = With(plan, given)
    BY <1>4 DEF ExecFFT
  <2>2. IsPlan(plan) /\ host = Factors \cup ComputedTables(plan)
    BY <1>4 DEF ExecFFT, HostInv
  <2>3. /\ DOMAIN plan \subseteq DOMAIN plan'
        /\ \A x \in DOMAIN plan : plan'[x] = plan[x]
    BY <2>1, Merge
  <2>4. \A x \in Deciding : plan'[x] = plan[x]
    BY <2>2, <2>3 DEF IsPlan
  <2>5. IsPlan(plan')
    BY <2>2, <2>3, <2>4 DEF IsPlan, Deciding
  <2>6. ComputedTables(plan') = ComputedTables(plan)
    BY <2>4, SameDecision
  <2>7. IsPlan(plan)' /\ host' = Factors \cup ComputedTables(plan)'
    BY <1>4, <2>2, <2>5, <2>6 DEF ExecFFT
  <2> QED BY <1>4, <2>7 DEF ExecFFT, HostInv
<1>5. CASE RefuseFFT
  BY <1>5 DEF RefuseFFT, HostInv
<1>6. CASE RunStage
  BY <1>6 DEF RunStage, HostInv, TablesFreed
<1>7. CASE DestroyFFTPlan
  <2> SUFFICES TablesFreed'
    BY <1>7 DEF DestroyFFTPlan, HostInv
  <2>1. CASE phase = "created"
    <3>1. plan = NoPlan /\ plan.rank = 0 /\ host = Factors
      BY <2>1 DEF HostInv, NoPlan
    <3>2. plan' = plan /\ host' = host \ DestroyedTables(plan)
      BY <1>7 DEF DestroyFFTPlan
    <3>3. DestroyedTables(plan) = {} /\ Leaked(plan) = Factors
      BY <3>1 DEF DestroyedTables, Leaked
    <3>4. host' = Leaked(plan)
      BY <3>1, <3>2, <3>3
    <3>5. TablesFreed' <=> (phase' = "destroyed" => host' = Leaked(plan))
      BY <3>2 DEF TablesFreed
    <3> QED BY <3>4, <3>5
  <2>2. CASE phase \in {"made", "reserved", "executed", "refused"}
    <3>1. IsPlan(plan)
      BY <2>2 DEF HostInv
    <3>2. plan' = plan /\ host' = host \ DestroyedTables(plan)
      BY <1>7 DEF DestroyFFTPlan
    <3>3. host = Factors \cup ComputedTables(plan)
      BY <2>2 DEF HostInv
    <3>4. host' = Leaked(plan)
      BY <3>1, <3>2, <3>3, Freed
    <3>5. TablesFreed' <=> (phase' = "destroyed" => host' = Leaked(plan))
      BY <3>2 DEF TablesFreed
    <3> QED BY <3>4, <3>5
  <2> QED BY <1>7, <2>1, <2>2 DEF DestroyFFTPlan
<1>8. CASE UNCHANGED vars
  BY <1>8 DEF vars, HostInv, TablesFreed
<1> QED BY <1>1, <1>2, <1>3, <1>4, <1>5, <1>6, <1>7, <1>8 DEF Next

\* Destroying a plan frees all the host memory its creation and its making
\* allocated, but for what Leaked names, and of that nothing: the branches of
\* destroyRFFT1dReserveArea and its like against those of the Make functions.
THEOREM HostTablesAreFreed == Spec => []TablesFreed
<1>1. Init => HostInv
  BY DEF Init, HostInv
<1>2. HostInv => TablesFreed
  BY DEF HostInv, TablesFreed
<1> QED BY <1>1, <1>2, HostStep, PTL DEF Spec

\* No branch of them frees a table the plan at hand has not allocated.
THEOREM OwnTablesAreFreed == Spec => []FreesItsOwn
<1>1. Init => HostInv
  BY DEF Init, HostInv
<1>2. HostInv => FreesItsOwn
  BY Freed DEF HostInv, FreesItsOwn
<1> QED BY <1>1, <1>2, HostStep, PTL DEF Spec

-----------------------------------------------------------------------------
(* What the kernels of one execution write.                                *)

-----------------------------------------------------------------------------
(* Complex to complex, one dimension.                                      *)

\* The matmul branches of all kinds make their record of addresses from two
\* layouts, and from the caller's tensors where there is no copy of them.
LEMMA MatmulRecord ==
  ASSUME NEW p, ~ p.inPlace, NEW front, NEW back, NEW X, NEW Y,
         Serves(front, X, {}), Serves(back, Y, {})
  PROVE  LET full == With(front, [input_contiguous |-> Input(p)])
             rest == [input_pad |-> full["input_contiguous"],
                      output_contiguous |-> Output(p)]
         IN  Serves(With(With(back, full), rest),
                    Y \cup X \cup {"output_contiguous"},
                    {"input_contiguous"} \cup {"input_pad"})
<1> DEFINE full == With(front, [input_contiguous |-> Input(p)])
           rest == [input_pad |-> full["input_contiguous"],
                    output_contiguous |-> Output(p)]
<1>1. Serves([input_contiguous |-> Input(p)], {}, {"input_contiguous"})
  BY DEF Serves
<1>2. Serves(full, X, {"input_contiguous"})
  <2>1. Serves(full, X \cup ({} \ {}), {} \cup {"input_contiguous"})
    BY <1>1, ServesWith
  <2> QED BY <2>1
<1>3. Serves(rest, {"output_contiguous"}, {"input_pad"})
  <2> HIDE DEF full
  <2> QED BY ApartPlaces DEF Serves
<1> HIDE DEF full, rest
<1>4. Serves(With(back, full), Y \cup (X \ {}), {} \cup {"input_contiguous"})
  BY <1>2, ServesWith
<1>5. /\ Y \cup (X \ {}) = Y \cup X
      /\ {} \cup {"input_contiguous"} = {"input_contiguous"}
      /\ {"output_contiguous"} \ {"input_contiguous"} = {"output_contiguous"}
  OBVIOUS
<1>6. Serves(With(back, full), Y \cup X, {"input_contiguous"})
  BY <1>4, <1>5
<1>7. Serves(With(With(back, full), rest),
             (Y \cup X) \cup ({"output_contiguous"} \ {"input_contiguous"}),
             {"input_contiguous"} \cup {"input_pad"})
  BY <1>3, <1>6, ServesWith
<1> QED BY <1>5, <1>7 DEF full, rest

\* What the matmul branch writes through these addresses is not the input.
MatmulServed(p, a) ==
  /\ \A x \in {"internal", "output_contiguous", "im_mul_im",
               "im_mul_re", "re_mul_im", "re_mul_re"} : Apart(a[x])
  /\ ~ p.inDense => Apart(a["input_contiguous"])
  /\ p.n # p.inembed => Apart(a["input_pad"])
  /\ p.strategy \in {"matmul", "cooley"} => Apart(a["input_re"])
  /\ p.strategy = "cooley" => Apart(a["input_transed"])

\* The matmul branch works in the workspace and in the caller's output.
LEMMA MatmulAddrs ==
  ASSUME NEW p, ~ p.inPlace, p.strategy \in MatmulStrategies
  PROVE  MatmulServed(p, configureFFT1dMatmulWorkspaceAddrs(p))
<1> DEFINE part  == R * p.batch * p.n[1]
           split == Buffer("input_re", part) \o Buffer("input_im", part)
           way   == CASE p.strategy = "matmul"   -> split
                      [] p.strategy = "cooley"   ->
                           Buffer("input_transed", 2 * part) \o split
                      [] p.strategy = "stockham" -> <<>>
           dense == When(~ p.inDense,
                         Buffer("input_contiguous",
                                C * p.batch * p.inembed[1]))
           pad   == When(p.n # p.inembed, Buffer("input_pad", 2 * part))
           out   == When(~ p.outDense, Buffer("output_contiguous",
                                              C * p.batch * p.onembed[1]))
           last  == Buffer("internal", p.internal) \o out
                    \o Buffer("im_mul_im", part) \o Buffer("im_mul_re", part)
                    \o Buffer("re_mul_im", part) \o Buffer("re_mul_re", part)
<1>1. Lays(last, {"internal"}
                 \cup (IF ~ p.outDense THEN {"output_contiguous"} ELSE {})
                 \cup {"im_mul_im"} \cup {"im_mul_re"}
                 \cup {"re_mul_im"} \cup {"re_mul_re"})
  BY LaysBuffer, LaysWhen, LaysConcat
<1> DEFINE lastNames == {"internal"}
                 \cup (IF ~ p.outDense THEN {"output_contiguous"} ELSE {})
                 \cup {"im_mul_im"} \cup {"im_mul_re"}
                 \cup {"re_mul_im"} \cup {"re_mul_re"}
           wayNames == IF p.strategy = "matmul" THEN {"input_re", "input_im"}
                       ELSE IF p.strategy = "cooley"
                       THEN {"input_transed", "input_re", "input_im"} ELSE {}
           frontNames == (IF ~ p.inDense THEN {"input_contiguous"} ELSE {})
                         \cup (IF p.n # p.inembed THEN {"input_pad"} ELSE {})
                         \cup wayNames
<1>2. Lays(way, wayNames)
  <2>1. Lays(split, {"input_re"} \cup {"input_im"})
    BY LaysBuffer, LaysConcat
  <2>2. Lays(<<>>, {})
    BY LaysNothing
  <2> HIDE DEF split
  <2>3. Lays(Buffer("input_transed", 2 * part) \o split,
             {"input_transed"} \cup ({"input_re"} \cup {"input_im"}))
    BY <2>1, LaysBuffer, LaysConcat
  <2>4. {"input_transed"} \cup ({"input_re"} \cup {"input_im"}) =
        {"input_transed", "input_re", "input_im"}
    OBVIOUS
  <2>5. {"input_re"} \cup {"input_im"} = {"input_re", "input_im"}
    OBVIOUS
  <2> HIDE DEF split
  <2>6. CASE p.strategy = "matmul"
    BY <2>1, <2>5, <2>6
  <2>7. CASE p.strategy = "cooley"
    BY <2>3, <2>4, <2>7
  <2>8. CASE p.strategy = "stockham"
    BY <2>2, <2>8
  <2> QED BY <2>6, <2>7, <2>8 DEF MatmulStrategies
<1> HIDE DEF way
<1>3. Lays(dense \o pad \o way, frontNames)
  BY <1>2, LaysBuffer, LaysWhen, LaysConcat
<1> DEFINE front == Forward(Workspace, dense \o pad \o way)
           end   == Move(Workspace, C2CSizes(p).workspace)
           back  == Backward(end, last)
           full  == With(front, [input_contiguous |-> Input(p)])
           rest  == [input_pad |-> full["input_contiguous"],
                     output_contiguous |-> Output(p)]
           a     == With(With(back, full), rest)
<1>4. configureFFT1dMatmulWorkspaceAddrs(p) = a
  BY DEF configureFFT1dMatmulWorkspaceAddrs, way
<1>5. Serves(front, frontNames, {}) /\ Serves(back, lastNames, {})
  <2>1. Apart(end) /\ Apart(Workspace)
    BY ApartPlaces, ApartMove
  <2> HIDE DEF dense, pad, frontNames, last, end, lastNames
  <2> QED BY <1>1, <1>3, <2>1, ServesLaid DEF lastNames
<1> HIDE DEF front, back
<1>6. Serves(a, lastNames \cup frontNames \cup {"output_contiguous"},
             {"input_contiguous"} \cup {"input_pad"})
  <2> HIDE DEF lastNames, frontNames
  <2> QED BY <1>5, MatmulRecord
<1> HIDE DEF a
<1> QED BY <1>4, <1>6 DEF Serves, MatmulServed

\* One array of real numbers, or the two of a complex signal.
LEMMA SparesReals ==
  ASSUME NEW a, Apart(a), NEW p, NEW v
  PROVE  Spares(Reals(p, a, v))
BY SparesHolds DEF Reals

\* transposeFFT1dPaddedInput writes the two parts and the scratch of CNNL.
LEMMA MatmulTransposeInput ==
  ASSUME NEW p, NEW a, p.strategy \in MatmulStrategies, MatmulServed(p, a)
  PROVE  Harmless(transposeFFT1dPaddedInput(p, a))
<1> DEFINE used == Scratch(a["internal"], CnnlSpace)
           halves(at, how) ==
             Reals(p, at, Part(p, "re" \o how))
             \cup Reals(p, Move(at, R * p.batch * p.n[1]),
                        Part(p, "im" \o how))
           signals == Dense(p, a["input_pad"], C, Signal(p.n))
<1>1. Spares(used)
  BY SparesSignals DEF MatmulServed
<1>2. ASSUME NEW at, Apart(at), NEW how
      PROVE  Spares(used \cup halves(at, how))
  <2>1. Apart(Move(at, R * p.batch * p.n[1]))
    BY <1>2, ApartMove
  <2>2. /\ Spares(Reals(p, at, Part(p, "re" \o how)))
        /\ Spares(Reals(p, Move(at, R * p.batch * p.n[1]),
                        Part(p, "im" \o how)))
    BY <1>2, <2>1, SparesReals
  <2> HIDE DEF used
  <2> QED BY <1>1, <2>2, SparesBoth
<1> HIDE DEF used, halves, signals
<1>3. CASE p.strategy = "matmul"
  <2>1. transposeFFT1dPaddedInput(p, a) =
          Stage(signals, used \cup halves(a["input_re"], ""))
    BY <1>3 DEF transposeFFT1dPaddedInput, signals, used, halves
  <2> QED BY <1>2, <1>3, <2>1, HarmlessStage DEF MatmulServed
<1>4. CASE p.strategy = "cooley"
  <2>1. transposeFFT1dPaddedInput(p, a) =
          Stage(signals, used \cup halves(a["input_transed"], ""))
          \o Stage(halves(a["input_transed"], ""),
                   used \cup halves(a["input_re"], " by L"))
    BY <1>4 DEF transposeFFT1dPaddedInput, signals, used, halves
  <2> QED BY <1>2, <1>4, <2>1, HarmlessStage, HarmlessConcat DEF MatmulServed
<1>5. CASE p.strategy = "stockham"
  BY <1>5, HarmlessNothing DEF transposeFFT1dPaddedInput
<1> QED BY <1>3, <1>4, <1>5 DEF MatmulStrategies

\* computeFFT1dMatmulResult writes the products of the parts.
LEMMA MatmulProducts ==
  ASSUME NEW p, NEW a, p.strategy \in MatmulStrategies, MatmulServed(p, a)
  PROVE  Harmless(computeFFT1dMatmulResult(p, a))
<1> DEFINE how  == IF p.strategy = "cooley" THEN " by L" ELSE ""
           used == Scratch(a["internal"], CnnlSpace)
           product(x, w) ==
             Stage(Reals(p, a[InputOf[x]], Part(p, x \o how))
                   \cup DirectionMatrix(p, w),
                   used \cup Reals(p, a[ProductOf[x][w]],
                                   Scaled(p, Part(p, x \o "*" \o w))))
           combine(x, y, to) ==
             LET read(q) == Reals(p, a[ProductOf[q[1]][q[2]]],
                                  Scaled(p, Part(p, q[1] \o "*" \o q[2])))
             IN Stage(read(x) \cup read(y),
                      used \cup Reals(p, a[ProductOf[x[1]][x[2]]],
                                      Scaled(p, Part(p, to))))
           four == product("re", "re") \o product("im", "im")
                   \o product("re", "im") \o product("im", "re")
<1>1. Spares(used)
  BY SparesSignals DEF MatmulServed
<1>2. \A x, w \in {"re", "im"} : Apart(a[ProductOf[x][w]])
  BY DEF ProductOf, MatmulServed
<1>3. ASSUME NEW x \in {"re", "im"}, NEW w \in {"re", "im"}, NEW v
      PROVE  Spares(used \cup Reals(p, a[ProductOf[x][w]], v))
  <2> HIDE DEF used
  <2> QED BY <1>1, <1>2, SparesReals, SparesBoth
<1>4. ASSUME NEW x \in {"re", "im"}, NEW w \in {"re", "im"}
      PROVE  Harmless(product(x, w))
  <2> HIDE DEF used
  <2> QED BY <1>3, HarmlessStage
<1>5. ASSUME NEW x \in {"re", "im"}, NEW w \in {"re", "im"}, NEW y, NEW to
      PROVE  Harmless(combine(<<x, w>>, y, to))
  <2> HIDE DEF used
  <2> QED BY <1>3, HarmlessStage
<1> HIDE DEF product, combine
<1>6. Harmless(four)
  BY <1>4, HarmlessConcat
<1> HIDE DEF four
<1>7. CASE p.strategy = "matmul"
  <2>1. computeFFT1dMatmulResult(p, a) =
          four \o combine(<<"re", "re">>, <<"im", "im">>, "y re")
          \o combine(<<"re", "im">>, <<"im", "re">>, "y im")
    BY <1>7 DEF computeFFT1dMatmulResult, four, product, combine
  <2> QED BY <1>5, <1>6, <2>1, HarmlessConcat
<1>8. CASE p.strategy = "cooley"
  <2>1. computeFFT1dMatmulResult(p, a) = four
    BY <1>8 DEF computeFFT1dMatmulResult, four, product
  <2> QED BY <1>6, <2>1
<1>9. CASE p.strategy = "stockham"
  <2> DEFINE reads == Dense(p, a["input_pad"], C, Signal(p.n))
                      \cup DirectionMatrix(p, "re")
                      \cup DirectionMatrix(p, "im")
             all == {Holds(a["re_mul_re"], 4 * R * p.batch * p.n[1],
                           Part(p, "products"))}
  <2>1. computeFFT1dMatmulResult(p, a) = Stage(reads, used \cup all)
    BY <1>9 DEF computeFFT1dMatmulResult
  <2>2. Spares(all)
    BY SparesHolds DEF MatmulServed
  <2> HIDE DEF reads, all, used
  <2> QED BY <1>1, <2>1, <2>2, SparesBoth, HarmlessStage
<1> QED BY <1>7, <1>8, <1>9 DEF MatmulStrategies

\* mergeFFT1dOutput writes the caller's result, or a copy of it.
LEMMA MatmulMerge ==
  ASSUME NEW p, NEW a, p.strategy \in MatmulStrategies, MatmulServed(p, a)
  PROVE  Harmless(mergeFFT1dOutput(p, a))
<1> DEFINE y    == Dense(p, a["output_contiguous"], C, Scaled(p, Result(p.n)))
           used == Scratch(a["internal"], 2 * R * p.batch * p.n[1])
<1>1. Spares(y) /\ Spares(used)
  BY SparesSignals DEF MatmulServed
<1>2. ASSUME NEW reads PROVE Harmless(Stage(reads, used \cup y))
  <2> HIDE DEF y, used
  <2> QED BY <1>1, SparesBoth, HarmlessStage
<1>3. CASE p.strategy = "matmul"
  BY <1>3, HarmlessNothing DEF mergeFFT1dOutput
<1>4. CASE p.strategy # "matmul"
  <2>1. PICK reads : mergeFFT1dOutput(p, a) = Stage(reads, used \cup y)
    BY <1>4 DEF mergeFFT1dOutput, MatmulStrategies
  <2> HIDE DEF y, used
  <2> QED BY <1>2, <2>1
<1> QED BY <1>3, <1>4

\* transposeFFT1dOutput writes it too.
LEMMA MatmulTransposeOutput ==
  ASSUME NEW p, NEW a, MatmulServed(p, a)
  PROVE  Harmless(transposeFFT1dOutput(p, a))
<1> DEFINE y    == Dense(p, a["output_contiguous"], C, Scaled(p, Result(p.n)))
           used == Scratch(a["internal"], CnnlSpace)
<1>1. Spares(y) /\ Spares(used)
  BY SparesSignals DEF MatmulServed
<1>2. PICK reads : transposeFFT1dOutput(p, a) =
                   When(p.strategy = "matmul", Stage(reads, used \cup y))
  BY DEF transposeFFT1dOutput
<1> HIDE DEF y, used
<1> QED BY <1>1, <1>2, SparesBoth, HarmlessStage, HarmlessWhen

-----------------------------------------------------------------------------
(* Steps the plans share.                                                  *)

\* Copying the input, padding it, scaling the result and copying it out write
\* to the address they are given, or to the caller's output.
LEMMA SharedSteps ==
  ASSUME NEW p, NEW a, Apart(a)
  PROVE  /\ \A unit, dims : Harmless(CopyIn(p, a, unit, dims))
         /\ \A from, dims, n, unit : Harmless(Fit(p, from, dims, a, n, unit))
         /\ \A unit, v : /\ Harmless(Rescale(p, a, unit, v))
                         /\ Harmless(RescaleStrided(p, a, unit, v))
<1>1. ASSUME NEW unit, NEW dims PROVE Harmless(CopyIn(p, a, unit, dims))
  BY SparesSignals, HarmlessStage DEF CopyIn
<1>2. ASSUME NEW from, NEW dims, NEW n, NEW unit
      PROVE  Harmless(Fit(p, from, dims, a, n, unit))
  BY SparesSignals, HarmlessStage DEF Fit
<1>3. ASSUME NEW unit, NEW v
      PROVE  Harmless(Rescale(p, a, unit, v))
  BY SparesSignals, HarmlessStage, HarmlessWhen DEF Rescale
<1>4. ASSUME NEW unit, NEW v
      PROVE  Harmless(RescaleStrided(p, a, unit, v))
  BY SparesSignals, HarmlessStage, HarmlessWhen DEF RescaleStrided
<1> QED BY <1>1, <1>2, <1>3, <1>4

\* Copying out writes to the caller's output.
LEMMA SharedCopyOut ==
  ASSUME NEW p, ~ p.inPlace, NEW from, NEW unit, NEW v
  PROVE  Harmless(CopyOut(p, from, unit, v))
BY ApartPlaces, SparesSignals, HarmlessStage, HarmlessWhen DEF CopyOut

\* A butterfly kernel writes its result and its buffer.
LEMMA SharedButterfly ==
  ASSUME NEW tables, NEW from, NEW to, NEW buf, Spares(to), Spares(buf)
  PROVE  Harmless(Butterfly(tables, from, to, buf))
BY SparesBoth, HarmlessStage DEF Butterfly

\* Execution by matrix products.
LEMMA MatmulExec ==
  ASSUME NEW p, ~ p.inPlace, p.strategy \in MatmulStrategies
  PROVE  Harmless(execMatmul1d(p))
<1> DEFINE a  == configureFFT1dMatmulWorkspaceAddrs(p)
           s1 == When(~ p.inDense,
                      CopyIn(p, a["input_contiguous"], C, p.inembed))
           s2 == When(p.n # p.inembed,
                      Fit(p, a["input_contiguous"], p.inembed,
                          a["input_pad"], p.n, C))
           s3 == transposeFFT1dPaddedInput(p, a)
           s4 == computeFFT1dMatmulResult(p, a)
           s5 == mergeFFT1dOutput(p, a)
           s6 == transposeFFT1dOutput(p, a)
           s7 == CopyOut(p, a["output_contiguous"], C, Scaled(p, Result(p.n)))
<1>1. MatmulServed(p, a)
  BY MatmulAddrs
<1>2. execMatmul1d(p) = s1 \o s2 \o s3 \o s4 \o s5 \o s6 \o s7
  BY DEF execMatmul1d
<1> HIDE DEF a
<1>3. Harmless(s1) /\ Harmless(s2)
  BY <1>1, SharedSteps, HarmlessWhen DEF MatmulServed
<1>4. Harmless(s3) /\ Harmless(s4) /\ Harmless(s5) /\ Harmless(s6)
  BY <1>1, MatmulTransposeInput, MatmulProducts, MatmulMerge,
     MatmulTransposeOutput
<1>5. Harmless(s7)
  BY SharedCopyOut
<1> HIDE DEF s1, s2, s3, s4, s5, s6, s7
<1> QED BY <1>2, <1>3, <1>4, <1>5, HarmlessConcat

-----------------------------------------------------------------------------
(* Complex to complex, one dimension, by butterflies.                      *)

\* What this branch writes through its addresses is not the input.
ButterflyServed(p, a) ==
  /\ \A x \in {"buf", "output"} : Apart(a[x])
  /\ ~ (p.inDense /\ ~ Shorter(p)) /\ ~ Columnwise(p) => Apart(a["input"])
  /\ Longer(p) => Apart(a["input_pad"])
  /\ p.bluestein => \A x \in {"chirpz_row", "aux_row", "bs_input",
                              "bs_output"} : Apart(a[x])

\* The butterfly branch lays out what it writes, or writes the caller's
\* output.
LEMMA ButterflyAddrs ==
  ASSUME NEW p, ~ p.inPlace
  PROVE  ButterflyServed(p, configureFFT1dWorkspaceAddrs(p))
<1> DEFINE buffer    == C * p.batch * Length1(p)
           own(user) == ~ user /\ ~ Columnwise(p)
           in    == own(p.inDense /\ ~ Shorter(p))
           out   == own(p.outDense)
           more  == Buffer("chirpz_row", C * Length1(p))
                    \o Buffer("aux_row", C * Length1(p))
                    \o Buffer("bs_input", buffer)
                    \o Buffer("bs_output", buffer)
           moreNames == {"chirpz_row"} \cup {"aux_row"}
                        \cup {"bs_input"} \cup {"bs_output"}
           parts == Buffer("buf", 2 * buffer)
                    \o When(in, Buffer("input", buffer))
                    \o When(out, Buffer("output", buffer))
                    \o When(Longer(p), Buffer("input_pad", buffer))
                    \o When(p.bluestein, more)
           names == {"buf"} \cup (IF in THEN {"input"} ELSE {})
                    \cup (IF out THEN {"output"} ELSE {})
                    \cup (IF Longer(p) THEN {"input_pad"} ELSE {})
                    \cup (IF p.bluestein THEN moreNames ELSE {})
           rest  == [input |-> Input(p), output |-> Output(p),
                     input_pad |-> Unset]
           a     == With(Forward(Workspace, parts), rest)
<1>1. configureFFT1dWorkspaceAddrs(p) = a
  BY DEF configureFFT1dWorkspaceAddrs
<1>2. Lays(parts, names)
  <2>1. Lays(more, moreNames)
    BY LaysBuffer, LaysConcat
  <2> HIDE DEF in, out, buffer, more, moreNames
  <2> QED BY <2>1, LaysBuffer, LaysWhen, LaysConcat
<1>3. Serves(Forward(Workspace, parts), names, {})
  <2> HIDE DEF parts, names
  <2> QED BY <1>2, ApartPlaces, ServesLaid
<1>4. Serves(rest, {"output", "input_pad"}, {"input"})
  BY ApartPlaces DEF Serves
<1>5. Serves(a, names \cup ({"output", "input_pad"} \ {}),
             {} \cup {"input"})
  <2> HIDE DEF parts, names, rest
  <2> QED BY <1>3, <1>4, ServesWith
<1>6. /\ {"buf", "output"} \subseteq names \cup {"output", "input_pad"}
      /\ in => "input" \in names
      /\ p.bluestein => {"chirpz_row", "aux_row", "bs_input", "bs_output"}
                         \subseteq names
  <2> HIDE DEF in, out
  <2> QED OBVIOUS
<1> HIDE DEF a, names
<1> QED BY <1>1, <1>5, <1>6 DEF Serves, ButterflyServed

\* Bluestein's eight kernels write the chirps, their auxiliary signals, and
\* the output.
LEMMA ButterflyChirps ==
  ASSUME NEW p, NEW a, ButterflyServed(p, a), p.bluestein, NEW in
  PROVE  Harmless(Bluestein1d(p, a, in))
<1> DEFINE len  == Length1(p)
           aux(v) == {Holds(a["aux_row"], C * len, Value(v, <<len>>))}
           chirp  == {Holds(a["chirpz_row"], C * p.n[1],
                            Value("chirpz_row", p.n))}
           at(name, v) == {Holds(a[name], C * p.batch * len,
                                 Value(v, <<len>>))}
           buf    == Scratch(a["buf"], 2 * C * p.batch * len)
           buf1   == Scratch(a["buf"], 2 * C * len)
           y      == Dense(p, a["output"], C, Result(p.n))
           first  == ButterflyTables(p, TRUE)
           s1 == Stage({}, chirp)
           s2 == Stage({}, aux("chirp"))
           s3 == Butterfly(first, aux("chirp"), aux("fft chirp"), buf1)
           s4 == Stage(chirp \cup Dense(p, in, C, Signal(p.n)),
                       at("bs_input", "x chirp"))
           s5 == Butterfly(first, at("bs_input", "x chirp"),
                           at("bs_input", "fft x chirp"), buf)
           s6 == Stage(aux("fft chirp") \cup at("bs_input", "fft x chirp"),
                       at("bs_output", "convolved"))
           s7 == Butterfly(ButterflyTables(p, FALSE),
                           at("bs_output", "convolved"),
                           at("bs_input", "y chirp"), buf)
           s8 == Stage(chirp \cup at("bs_input", "y chirp"), y)
<1>1. Bluestein1d(p, a, in) = s1 \o s2 \o s3 \o s4 \o s5 \o s6 \o s7 \o s8
  BY DEF Bluestein1d
<1>2. /\ Spares(buf) /\ Spares(buf1) /\ Spares(y)
  BY SparesSignals DEF ButterflyServed
<1>3. /\ Spares(chirp)
      /\ \A v : Spares(aux(v))
      /\ \A name \in {"bs_input", "bs_output"} : \A v : Spares(at(name, v))
  BY SparesHolds DEF ButterflyServed
<1> HIDE DEF aux, chirp, at, buf, buf1, y, first
<1>4. Harmless(s1) /\ Harmless(s2) /\ Harmless(s3)
  BY <1>2, <1>3, HarmlessStage, SharedButterfly
<1>5. Harmless(s4) /\ Harmless(s5) /\ Harmless(s6)
  BY <1>2, <1>3, HarmlessStage, SharedButterfly
<1>6. Harmless(s7) /\ Harmless(s8)
  BY <1>2, <1>3, HarmlessStage, SharedButterfly
<1> HIDE DEF s1, s2, s3, s4, s5, s6, s7, s8
<1> QED BY <1>1, <1>4, <1>5, <1>6, HarmlessConcat

\* Execution by butterflies, or by Bluestein's algorithm.
LEMMA ButterflyExec ==
  ASSUME NEW p, ~ p.inPlace
  PROVE  Harmless(execButterfly1d(p))
<1> DEFINE a  == configureFFT1dWorkspaceAddrs(p)
           in == IF Longer(p) THEN a["input_pad"] ELSE a["input"]
           y  == Result(p.n)
           scale == IF Columnwise(p) THEN RescaleStrided(p, a["output"], C, y)
                                     ELSE Rescale(p, a["output"], C, y)
           s1 == When(~ (p.inDense /\ ~ Shorter(p)) /\ ~ Columnwise(p),
                      CopyIn(p, a["input"], C, Trimmed(p)))
           s2 == When(Longer(p), Padding1d(p, a))
           s3 == execFFTc2c1d(p, a, in)
           s5 == When(~ Columnwise(p),
                      CopyOut(p, a["output"], C, Scaled(p, y)))
<1>1. ButterflyServed(p, a)
  BY ButterflyAddrs
<1>2. execButterfly1d(p) = s1 \o s2 \o s3 \o scale \o s5
  BY DEF execButterfly1d
<1> HIDE DEF a, in
<1>3. Harmless(s1)
  BY <1>1, SharedSteps, HarmlessWhen DEF ButterflyServed
<1>4. Harmless(s2)
  BY <1>1, ApartPlaces, SharedSteps, HarmlessWhen
     DEF ButterflyServed, Padding1d
<1>5. Harmless(s3)
  <2>1. CASE p.bluestein
    BY <1>1, <2>1, ButterflyChirps DEF execFFTc2c1d
  <2>2. CASE ~ p.bluestein
    <3> DEFINE to  == IF Columnwise(p) THEN Strided(p, a["output"], C, y)
                                       ELSE Dense(p, a["output"], C, y)
               buf == Scratch(a["buf"], 2 * C * p.batch * p.n[1])
    <3>1. Spares(to) /\ Spares(buf)
      BY <1>1, SparesSignals DEF ButterflyServed
    <3>2. PICK tables, from : s3 = Butterfly(tables, from, to, buf)
      BY <2>2 DEF execFFTc2c1d
    <3> HIDE DEF to, buf
    <3> QED BY <3>1, <3>2, SharedButterfly
  <2> QED BY <2>1, <2>2
<1>6. Harmless(scale)
  BY <1>1, SharedSteps DEF ButterflyServed
<1>7. Harmless(s5)
  BY SharedCopyOut, HarmlessWhen
<1> HIDE DEF s1, s2, s3, scale, s5
<1> QED BY <1>2, <1>3, <1>4, <1>5, <1>6, <1>7, HarmlessConcat

-----------------------------------------------------------------------------
(* Complex to complex, two dimensions.                                     *)

Has(a, x) == x \in DOMAIN a /\ Apart(a[x])

\* What the butterflies of two dimensions write through their addresses, and
\* what the matmuls do.
TwoLevelServed(p, a) ==
  /\ Has(a, "buf") /\ Has(a, "output")
  /\ p.bluesteinColumn => Has(a, "chirpz_column") /\ Has(a, "aux_column")
  /\ p.bluesteinRow => Has(a, "chirpz_row") /\ Has(a, "aux_row")
  /\ p.bluestein => Has(a, "bs_input") /\ Has(a, "bs_output")
ManyServed(a) ==
  Has(a, "buffer_in") /\ Has(a, "buffer_out") /\ Has(a, "output")

\* Each branch of the two-dimensional transforms lays out what it writes.
LEMMA Addrs2d ==
  ASSUME NEW p, ~ p.inPlace
  PROVE  LET a == configureFFT2dWorkspaceAddrs(p)
         IN  /\ p.strategy = "many" => ManyServed(a)
             /\ p.strategy # "many" =>
                  /\ TwoLevelServed(p, a)
                  /\ ~ (p.inDense /\ ~ Shorter(p)) => Has(a, "input")
             /\ Longer(p) => Has(a, "input_pad")
<1> DEFINE signals == C * p.batch * ColumnLen(p) * RowLen(p)
           many    == p.strategy = "many"
           copied  == ~ (p.inDense /\ ~ Shorter(p))
           chirps(len, along) ==
             Buffer(ChirpOf[along], C * len) \o Buffer(AuxOf[along], C * len)
           manyBufs  == Buffer("buffer_in", 2 * signals)
                        \o Buffer("buffer_out", 2 * signals)
           manyNames == {"buffer_in"} \cup {"buffer_out"}
           otherBufs  == Buffer("buf", 2 * signals)
                         \o When(copied, Buffer("input", signals))
                         \o When(~ p.outDense, Buffer("output", signals))
           otherNames == {"buf"} \cup (IF copied THEN {"input"} ELSE {})
                         \cup (IF ~ p.outDense THEN {"output"} ELSE {})
           core      == IF many THEN manyBufs ELSE otherBufs
           coreNames == IF many THEN manyNames ELSE otherNames
           room   == C * ColumnLen(p) * RowLen(p)
           column == chirps(ColumnLen(p), "column")
           row    == chirps(RowLen(p), "row")
           both   == Buffer("bs_input", room) \o Buffer("bs_output", room)
           parts  == core \o When(Longer(p), Buffer("input_pad", 0))
                     \o When(p.bluesteinColumn, column)
                     \o When(p.bluesteinRow, row)
                     \o When(p.bluestein, both)
           names  == coreNames \cup (IF Longer(p) THEN {"input_pad"} ELSE {})
                     \cup (IF p.bluesteinColumn
                           THEN {"chirpz_column"} \cup {"aux_column"} ELSE {})
                     \cup (IF p.bluesteinRow
                           THEN {"chirpz_row"} \cup {"aux_row"} ELSE {})
                     \cup (IF p.bluestein
                           THEN {"bs_input"} \cup {"bs_output"} ELSE {})
           rest   == [input |-> Input(p), output |-> Output(p)]
           a      == With(Forward(Workspace, parts), rest)
<1>1. configureFFT2dWorkspaceAddrs(p) = a
  BY DEF configureFFT2dWorkspaceAddrs
<1>2. Lays(core, coreNames)
  <2>1. Lays(manyBufs, manyNames)
    BY LaysBuffer, LaysConcat
  <2>2. Lays(otherBufs, otherNames)
    <3> HIDE DEF copied, signals
    <3> QED BY LaysBuffer, LaysWhen, LaysConcat
  <2> HIDE DEF manyBufs, manyNames, otherBufs, otherNames
  <2> QED BY <2>1, <2>2
<1>3. /\ Lays(column, {"chirpz_column"} \cup {"aux_column"})
      /\ Lays(row, {"chirpz_row"} \cup {"aux_row"})
      /\ Lays(both, {"bs_input"} \cup {"bs_output"})
  BY LaysBuffer, LaysConcat DEF ChirpOf, AuxOf
<1>4. Lays(parts, names)
  <2> HIDE DEF core, coreNames, column, row, both
  <2> QED BY <1>2, <1>3, LaysBuffer, LaysWhen, LaysConcat
<1>5. Serves(a, names \cup ({"output"} \ {}), {} \cup {"input"})
  <2> HIDE DEF parts, names, rest
  <2>1. Serves(Forward(Workspace, parts), names, {})
    BY <1>4, ApartPlaces, ServesLaid
  <2>2. Serves(rest, {"output"}, {"input"})
    BY ServesCaller DEF rest
  <2> QED BY <2>1, <2>2, ServesWith
<1>6. \A x \in names \cup {"output"} : Has(a, x)
  <2> HIDE DEF a, names
  <2> QED BY <1>5 DEF Serves, Has
<1> HIDE DEF a
<1>7. many => ManyServed(a)
  BY <1>6 DEF ManyServed
<1>8. ~ many => TwoLevelServed(p, a) /\ (copied => Has(a, "input"))
  <2> HIDE DEF copied
  <2> QED BY <1>6 DEF TwoLevelServed
<1>9. Longer(p) => Has(a, "input_pad")
  BY <1>6
<1> QED BY <1>1, <1>7, <1>8, <1>9

\* One signal of the batch along a dimension.
LEMMA SignalExec ==
  ASSUME NEW p, NEW a, TwoLevelServed(p, a),
         NEW along \in {"row", "column"},
         p.bluesteinRow \/ p.bluesteinColumn => p.bluestein,
         NEW b, NEW from, NEW v, NEW w
  PROVE  Harmless(Transform2d(p, a, b, along, from, v, w))
<1> DEFINE signal(at, x) == {Holds(Move(at, b * C * Size(p.n)),
                                   C * Size(p.n), x)}
           long  == IF along = "row" THEN <<p.n[1], RowLen(p)>>
                                     ELSE <<ColumnLen(p), p.n[2]>>
           at(name, x) == {Holds(a[name], C * Size(long), Value(x, long))}
           chirp == {Holds(a[ChirpOf[along]],
                           C * (IF along = "row" THEN p.n[2] ELSE p.n[1]),
                           Value("chirpz", <<>>))}
           aux   == {Holds(a[AuxOf[along]],
                           C * (IF along = "row" THEN RowLen(p)
                                ELSE ColumnLen(p)),
                           Value("fft chirp", <<>>))}
           buf   == Scratch(a["buf"], 2 * C * Size(long))
           y     == signal(a["output"], w)
           by    == IF along = "row" THEN p.bluesteinRow ELSE p.bluesteinColumn
           s1 == Stage(chirp \cup signal(a[from], v),
                       at("bs_input", "x chirp"))
           s2 == Butterfly(Tables2(p, along, TRUE), at("bs_input", "x chirp"),
                           at("bs_input", "fft x chirp"), buf)
           s3 == Stage(aux \cup at("bs_input", "fft x chirp"),
                       at("bs_output", "convolved"))
           s4 == Butterfly(Tables2(p, along, FALSE),
                           at("bs_output", "convolved"),
                           at("bs_output", "y chirp"), buf)
           s5 == Stage(chirp \cup at("bs_output", "y chirp"), y)
           one == Butterfly(Tables2(p, along, Forwards(p)),
                            signal(a[from], v), y, buf)
<1>1. Transform2d(p, a, b, along, from, v, w) =
        IF ~ by THEN one ELSE s1 \o s2 \o s3 \o s4 \o s5
  BY DEF Transform2d
<1>2. Spares(y)
  BY ApartMove, SparesHolds DEF TwoLevelServed, Has
<1>3. Spares(buf)
  BY SparesSignals DEF TwoLevelServed, Has
<1>4. by => \A name \in {"bs_input", "bs_output"} : \A x :
              Spares(at(name, x))
  <2> HIDE DEF long
  <2> QED BY SparesHolds DEF TwoLevelServed, Has
<1> HIDE DEF signal, at, chirp, aux, buf, y, by
<1>5. CASE ~ by
  BY <1>1, <1>2, <1>3, <1>5, SharedButterfly
<1>6. CASE by
  <2>1. Harmless(s1) /\ Harmless(s3) /\ Harmless(s5)
    BY <1>2, <1>4, <1>6, HarmlessStage
  <2>2. Harmless(s2) /\ Harmless(s4)
    BY <1>3, <1>4, <1>6, SharedButterfly
  <2> HIDE DEF s1, s2, s3, s4, s5, one
  <2> QED BY <1>1, <1>6, <2>1, <2>2, HarmlessConcat
<1> QED BY <1>5, <1>6

\* The chirps and their transform, once for the batch.
LEMMA ChirpsExec ==
  ASSUME NEW p, NEW a, NEW along \in {"row", "column"}, Has(a, "buf"),
         Has(a, ChirpOf[along]), Has(a, AuxOf[along])
  PROVE  Harmless(Chirps2d(p, a, along))
<1> DEFINE len    == IF along = "row" THEN RowLen(p) ELSE ColumnLen(p)
           short  == IF along = "row" THEN p.n[2] ELSE p.n[1]
           aux(v) == {Holds(a[AuxOf[along]], C * len, Value(v, <<>>))}
           chirp  == {Holds(a[ChirpOf[along]], C * short,
                            Value("chirpz", <<>>))}
           buf    == Scratch(a["buf"], 2 * C * len)
           s1 == Stage({}, chirp)
           s2 == Stage({}, aux("chirp"))
           s3 == Butterfly(Tables2(p, along, TRUE), aux("chirp"),
                           aux("fft chirp"), buf)
<1>1. Chirps2d(p, a, along) = s1 \o s2 \o s3
  BY DEF Chirps2d
<1>2. Spares(chirp) /\ (\A v : Spares(aux(v))) /\ Spares(buf)
  <2> HIDE DEF len, short
  <2> QED BY SparesHolds, SparesSignals DEF Has
<1> HIDE DEF chirp, aux, buf
<1>3. Harmless(s1) /\ Harmless(s2) /\ Harmless(s3)
  BY <1>2, HarmlessStage, SharedButterfly
<1> HIDE DEF s1, s2, s3
<1> QED BY <1>1, <1>3, HarmlessConcat

\* All signals of the batch, along both dimensions.
LEMMA TwoLevelExec ==
  ASSUME NEW p, p.batch \in Nat, NEW a, TwoLevelServed(p, a),
         p.bluesteinRow \/ p.bluesteinColumn => p.bluestein
  PROVE  Harmless(execTwoLevel(p, a))
<1> DEFINE order == IF Forwards(p) THEN <<"row", "column">>
                    ELSE <<"column", "row">>
           len(along) == IF along = "row" THEN p.n[2] ELSE p.n[1]
           first  == order[1]
           second == order[2]
           half   == IF len(first) = 1 THEN Signal(p.n)
                     ELSE Along(first, Signal(p.n))
           full   == Result(p.n)
           one(b) == When(len(first) # 1,
                          Transform2d(p, a, b, first, "input", Signal(p.n),
                                      IF len(second) = 1 THEN full ELSE half))
                     \o When(len(second) # 1,
                             Transform2d(p, a, b, second, "output", half,
                                         full))
           column == When(p.bluesteinColumn, Chirps2d(p, a, "column"))
           row    == When(p.bluesteinRow, Chirps2d(p, a, "row"))
           batch  == [b \in 1 .. p.batch |-> one(b - 1)]
<1>1. execTwoLevel(p, a) = column \o row \o FlattenSeq(batch)
  BY DEF execTwoLevel
<1>2. Harmless(column) /\ Harmless(row)
  BY ChirpsExec, HarmlessWhen DEF TwoLevelServed, ChirpOf, AuxOf
<1>3. first \in {"row", "column"} /\ second \in {"row", "column"}
  OBVIOUS
<1> HIDE DEF order, first, second, half, full, len
<1>4. ASSUME NEW b PROVE Harmless(one(b))
  BY <1>3, SignalExec, HarmlessWhen, HarmlessConcat
<1> HIDE DEF one
<1>5. Harmless(FlattenSeq(batch))
  <2>1. /\ batch = [i \in 1 .. p.batch |-> batch[i]]
        /\ \A i \in 1 .. p.batch : Harmless(batch[i])
    BY <1>4
  <2> HIDE DEF batch
  <2> QED BY <2>1, HarmlessFlat
<1> HIDE DEF column, row, batch
<1> QED BY <1>1, <1>2, <1>5, HarmlessConcat

\* The whole batch along both dimensions, by matrix products.
LEMMA ManyExec ==
  ASSUME NEW p, NEW a, ManyServed(a)
  PROVE  Harmless(execMany(p, a))
<1>1. ASSUME NEW along, NEW from, NEW to, Apart(to), NEW v, NEW w
      PROVE  Harmless(MatMul2d(p, a, along, from, to, v, w))
  <2> DEFINE all(at, k, x) == {Holds(at, k * C * p.batch * Size(p.n), x)}
             out == all(a["buffer_out"], 2, Along("parts", w))
             y   == all(to, 1, w)
  <2>1. PICK reads : MatMul2d(p, a, along, from, to, v, w) =
                     Stage(reads, out) \o Stage(out, y)
    BY DEF MatMul2d
  <2>2. Spares(out) /\ Spares(y)
    BY <1>1, SparesHolds DEF ManyServed, Has
  <2> HIDE DEF out, y
  <2> QED BY <2>1, <2>2, HarmlessStage, HarmlessConcat
<1>2. Apart(a["buffer_in"]) /\ Apart(a["output"])
  BY DEF ManyServed, Has
<1> QED BY <1>1, <1>2, HarmlessConcat DEF execMany

\* Execution of a two-dimensional transform.
LEMMA Exec2d ==
  ASSUME NEW p, ~ p.inPlace, p.batch \in Nat,
         p.bluesteinRow \/ p.bluesteinColumn => p.bluestein
  PROVE  Harmless(execFFT2d(p))
<1> DEFINE a     == configureFFT2dWorkspaceAddrs(p)
           many  == p.strategy = "many"
           fit   == [a EXCEPT !["input"] =
                       IF Longer(p) THEN a["input_pad"] ELSE a["input"]]
           y     == Result(p.n)
           inner == \/ p.n = <<1, 1>>
                    \/ /\ \E i \in 1 .. 2 : p.n[i] = 1
                       /\ IF Forwards(p) THEN p.n[1] # 1 ELSE p.n[2] # 1
           unchanged == IF p.n = <<1, 1>> /\ ~ many THEN y ELSE Signal(p.n)
           s1 == When(~ many /\ ~ (p.inDense /\ ~ Shorter(p)),
                      CopyIn(p, a["input"], C, Trimmed(p)))
           s2 == When(Longer(p),
                      Fit(p, a["input"], Trimmed(p), a["input_pad"], p.n, C))
           copy == IF many
                   THEN Stage(Strided(p, fit["input"], C, Signal(p.n)),
                              Strided(p, fit["output"], C, unchanged))
                   ELSE Stage(Dense(p, fit["input"], C, Signal(p.n)),
                              Dense(p, fit["output"], C, unchanged))
           s3 == When(inner, copy)
           byMany  == execMany(p, fit) \o RescaleStrided(p, fit["output"], C, y)
           byOther == execTwoLevel(p, fit) \o Rescale(p, fit["output"], C, y)
                      \o CopyOut(p, fit["output"], C, Scaled(p, y))
           s4 == IF many THEN byMany ELSE byOther
<1>1. execFFT2d(p) = s1 \o s2 \o s3 \o s4
  BY DEF execFFT2d
<1>2. /\ many => ManyServed(a)
      /\ ~ many => TwoLevelServed(p, a)
      /\ ~ many /\ ~ (p.inDense /\ ~ Shorter(p)) => Has(a, "input")
      /\ Longer(p) => Has(a, "input_pad")
  BY Addrs2d
<1> HIDE DEF a
<1>3. \A x : x # "input" /\ Has(a, x) => Has(fit, x)
  BY DEF Has
<1> HIDE DEF fit
<1>4. (many => ManyServed(fit)) /\ (~ many => TwoLevelServed(p, fit))
  BY <1>2, <1>3 DEF ManyServed, TwoLevelServed
<1>5. Apart(fit["output"])
  BY <1>4 DEF ManyServed, TwoLevelServed, Has
<1>6. Harmless(s1) /\ Harmless(s2)
  BY <1>2, SharedSteps, HarmlessWhen DEF Has
<1>7. Harmless(s3)
  <2>1. Harmless(copy)
    BY <1>5, SparesSignals, HarmlessStage
  <2> HIDE DEF copy, inner
  <2> QED BY <2>1, HarmlessWhen
<1>8. Harmless(s4)
  <2>1. CASE many
    BY <1>4, <1>5, <2>1, ManyExec, SharedSteps, HarmlessConcat
  <2>2. CASE ~ many
    <3>1. /\ Harmless(execTwoLevel(p, fit))
          /\ Harmless(Rescale(p, fit["output"], C, y))
          /\ Harmless(CopyOut(p, fit["output"], C, Scaled(p, y)))
      BY <1>4, <1>5, <2>2, TwoLevelExec, SharedSteps, SharedCopyOut
    <3> HIDE DEF y
    <3> QED BY <2>2, <3>1, HarmlessConcat
  <2> QED BY <2>1, <2>2
<1> HIDE DEF s1, s2, s3, s4
<1> QED BY <1>1, <1>6, <1>7, <1>8, HarmlessConcat

-----------------------------------------------------------------------------
(* Real to complex.                                                        *)

RealMatmulServed(p, a) ==
  /\ Apart(a["internal"]) /\ Apart(a["output_contiguous"])
  /\ p.strategy # "matmul" =>
       \A x \in {"re_mul_im", "re_mul_re", "input_transed"} : Apart(a[x])
  /\ ~ p.inDense => Apart(a["input_contiguous"])
  /\ p.n # p.inembed => Apart(a["input_pad"])

\* The matmul branch works in the workspace and in the caller's output.
LEMMA RealMatmulAddrs ==
  ASSUME NEW p, ~ p.inPlace
  PROVE  RealMatmulServed(p, configureRFFT1dMatmulWorkspaceAddrs(p))
<1> DEFINE signals == R * p.batch * p.n[1]
           matmul  == p.strategy = "matmul"
           first   == When(~ p.inDense,
                           Buffer("input_contiguous",
                                  R * p.batch * p.inembed[1]))
                      \o When(p.n # p.inembed, Buffer("input_pad", signals))
                      \o When(~ matmul, Buffer("input_transed", signals))
           firstNames == (IF ~ p.inDense THEN {"input_contiguous"} ELSE {})
                         \cup (IF p.n # p.inembed THEN {"input_pad"} ELSE {})
                         \cup (IF ~ matmul THEN {"input_transed"} ELSE {})
           products == Buffer("re_mul_im", signals)
                       \o Buffer("re_mul_re", signals)
           last    == Buffer("internal", p.internal)
                      \o When(~ p.outDense,
                              Buffer("output_contiguous",
                                     C * p.batch * p.onembed[1]))
                      \o When(~ matmul, products)
           lastNames == {"internal"}
                        \cup (IF ~ p.outDense THEN {"output_contiguous"} ELSE {})
                        \cup (IF ~ matmul THEN {"re_mul_im"} \cup {"re_mul_re"}
                              ELSE {})
           end   == Move(Workspace, R2CSizes(p).workspace)
           front == Forward(Workspace, first)
           back  == Backward(end, last)
           full  == With(front, [input_contiguous |-> Input(p)])
           rest  == [input_pad |-> full["input_contiguous"],
                     output_contiguous |-> Output(p)]
           a     == With(With(back, full), rest)
<1>1. configureRFFT1dMatmulWorkspaceAddrs(p) = a
  BY DEF configureRFFT1dMatmulWorkspaceAddrs
<1>2. Lays(first, firstNames)
  BY LaysBuffer, LaysWhen, LaysConcat
<1>3. Lays(last, lastNames)
  <2>1. Lays(products, {"re_mul_im"} \cup {"re_mul_re"})
    BY LaysBuffer, LaysConcat
  <2> HIDE DEF products
  <2> QED BY <2>1, LaysBuffer, LaysWhen, LaysConcat
<1> HIDE DEF first, last
<1>4. Serves(front, firstNames, {}) /\ Serves(back, lastNames, {})
  <2>1. Apart(end) /\ Apart(Workspace)
    BY ApartPlaces, ApartMove
  <2> HIDE DEF firstNames, lastNames, end
  <2> QED BY <1>2, <1>3, <2>1, ServesLaid
<1> HIDE DEF front, back
<1>5. \A x \in lastNames \cup firstNames \cup {"output_contiguous"} :
        Apart(a[x])
  <2> HIDE DEF firstNames, lastNames
  <2>1. Serves(a, lastNames \cup firstNames \cup {"output_contiguous"},
               {"input_contiguous"} \cup {"input_pad"})
    BY <1>4, MatmulRecord
  <2> HIDE DEF a
  <2> QED BY <2>1 DEF Serves
<1> HIDE DEF a
<1>6. Apart(a["internal"]) /\ Apart(a["output_contiguous"])
  BY <1>5
<1>7. ~ matmul => \A x \in {"re_mul_im", "re_mul_re", "input_transed"} :
                    Apart(a[x])
  BY <1>5
<1>8. /\ ~ p.inDense => Apart(a["input_contiguous"])
      /\ p.n # p.inembed => Apart(a["input_pad"])
  <2> HIDE DEF lastNames
  <2> QED BY <1>5
<1> QED BY <1>1, <1>6, <1>7, <1>8 DEF RealMatmulServed

\* Execution of a real transform by matrix products.
LEMMA RealMatmulExec ==
  ASSUME NEW p, ~ p.inPlace, p.strategy \in MatmulStrategies
  PROVE  Harmless(execRFFTMatmul1d(p))
<1> DEFINE a  == configureRFFT1dMatmulWorkspaceAddrs(p)
           y  == Scaled(p, HalfResult(p))
           s1 == When(~ p.inDense,
                      CopyIn(p, a["input_contiguous"], R, p.inembed))
           s2 == When(p.n # p.inembed,
                      Fit(p, a["input_contiguous"], p.inembed,
                          a["input_pad"], p.n, R))
           s3 == transposeRFFT1dPaddedInput(p, a)
           s4 == computeRFFT1dMatmulResult(p, a)
           s5 == mergeRFFT1dOutput(p, a)
           s6 == CopyOut(p, a["output_contiguous"], C, y)
           used == Scratch(a["internal"], CnnlSpace)
           room == Scratch(a["internal"], 2 * R * p.batch * p.n[1])
           out  == Dense(p, a["output_contiguous"], C, y)
<1>1. RealMatmulServed(p, a)
  BY RealMatmulAddrs
<1>2. execRFFTMatmul1d(p) = s1 \o s2 \o s3 \o s4 \o s5 \o s6
  BY DEF execRFFTMatmul1d
<1> HIDE DEF a
<1>3. Harmless(s1) /\ Harmless(s2)
  BY <1>1, SharedSteps, HarmlessWhen DEF RealMatmulServed
<1>4. Spares(used) /\ Spares(room) /\ Spares(out)
  BY <1>1, SparesSignals DEF RealMatmulServed
<1>5. Harmless(s3)
  <2> DEFINE to == Reals(p, a["input_transed"], Part(p, "x by L"))
  <2>1. PICK reads : s3 = When(p.strategy = "cooley",
                               Stage(reads, used \cup to))
    BY DEF transposeRFFT1dPaddedInput
  <2>2. p.strategy = "cooley" => Spares(to)
    BY <1>1, SparesReals DEF RealMatmulServed
  <2> HIDE DEF used, to, s3
  <2> QED BY <1>4, <2>1, <2>2, SparesBoth, HarmlessStage, HarmlessWhen
<1>6. Harmless(s4)
  <2>1. CASE p.strategy = "matmul"
    <3>1. PICK reads : s4 = Stage(reads, used \cup out)
      BY <2>1 DEF computeRFFT1dMatmulResult
    <3> HIDE DEF used, out, s4
    <3> QED BY <1>4, <3>1, SparesBoth, HarmlessStage
  <2>2. CASE p.strategy = "cooley"
    <3> DEFINE to(w) == Reals(p, a[ProductOf["re"][w]],
                              Scaled(p, Part(p, "x*" \o w)))
    <3>1. PICK r1, r2 : s4 = Stage(r1, used \cup to("re"))
                             \o Stage(r2, used \cup to("im"))
      BY <2>2 DEF computeRFFT1dMatmulResult
    <3>2. Spares(to("re")) /\ Spares(to("im"))
      BY <1>1, <2>2, SparesReals DEF RealMatmulServed, ProductOf
    <3> HIDE DEF used, to, s4
    <3> QED BY <1>4, <3>1, <3>2, SparesBoth, HarmlessStage, HarmlessConcat
  <2>3. CASE p.strategy = "stockham"
    <3> DEFINE all == {Holds(a["re_mul_re"], 2 * R * p.batch * p.n[1],
                             Part(p, "products"))}
    <3>1. PICK reads : s4 = Stage(reads, used \cup all)
      BY <2>3 DEF computeRFFT1dMatmulResult
    <3>2. Spares(all)
      BY <1>1, <2>3, SparesHolds DEF RealMatmulServed
    <3> HIDE DEF used, all, s4
    <3> QED BY <1>4, <3>1, <3>2, SparesBoth, HarmlessStage
  <2> QED BY <2>1, <2>2, <2>3 DEF MatmulStrategies
<1>7. Harmless(s5)
  <2>1. CASE p.strategy = "matmul"
    BY <2>1, HarmlessNothing DEF mergeRFFT1dOutput
  <2>2. CASE p.strategy # "matmul"
    <3>1. PICK reads : s5 = Stage(reads, room \cup out)
      BY <2>2 DEF mergeRFFT1dOutput, MatmulStrategies
    <3> HIDE DEF room, out, s5
    <3> QED BY <1>4, <3>1, SparesBoth, HarmlessStage
  <2> QED BY <2>1, <2>2
<1>8. Harmless(s6)
  BY SharedCopyOut
<1> HIDE DEF s1, s2, s3, s4, s5, s6
<1> QED BY <1>2, <1>3, <1>5, <1>6, <1>7, <1>8, HarmlessConcat

\* The butterfly branches lay out buffers, and use the caller's tensors where
\* there is no copy of them.
LEMMA CallerRecord ==
  ASSUME NEW p, ~ p.inPlace, NEW parts, NEW X, Lays(parts, X)
  PROVE  LET a == With(Forward(Workspace, parts),
                       [input |-> Input(p), output |-> Output(p)])
         IN  \A x \in X \cup {"output"} : Has(a, x)
<1> DEFINE rest == [input |-> Input(p), output |-> Output(p)]
           a    == With(Forward(Workspace, parts), rest)
<1>1. Serves(Forward(Workspace, parts), X, {})
  BY ApartPlaces, ServesLaid
<1>2. Serves(rest, {"output"}, {"input"})
  BY ServesCaller
<1>3. Serves(a, X \cup ({"output"} \ {}), {} \cup {"input"})
  <2> HIDE DEF rest
  <2> QED BY <1>1, <1>2, ServesWith
<1> HIDE DEF a
<1>4. \A x \in X \cup {"output"} : Has(a, x)
  BY <1>3 DEF Serves, Has
<1> QED BY <1>4 DEF a

\* The butterfly branch lays out what it writes, or writes the caller's
\* output.
LEMMA RealButterflyAddrs ==
  ASSUME NEW p, ~ p.inPlace
  PROVE  LET a == configureRFFT1dWorkspaceAddrs(p)
         IN  /\ Has(a, "buf") /\ Has(a, "output")
             /\ ~ (p.inDense /\ ~ Shorter(p)) => Has(a, "input")
             /\ Longer(p) => Has(a, "input_pad")
<1> DEFINE buffer == C * p.batch * p.n[1]
           copied == ~ (p.inDense /\ ~ Shorter(p))
           parts  == Buffer("buf", 2 * buffer)
                     \o When(copied, Buffer("input", buffer))
                     \o When(~ p.outDense, Buffer("output", buffer))
                     \o When(Longer(p), Buffer("input_pad", 0))
           names  == {"buf"} \cup (IF copied THEN {"input"} ELSE {})
                     \cup (IF ~ p.outDense THEN {"output"} ELSE {})
                     \cup (IF Longer(p) THEN {"input_pad"} ELSE {})
           a      == With(Forward(Workspace, parts),
                          [input |-> Input(p), output |-> Output(p)])
<1>1. configureRFFT1dWorkspaceAddrs(p) = a
  BY DEF configureRFFT1dWorkspaceAddrs
<1>2. Lays(parts, names)
  <2> HIDE DEF copied, buffer
  <2> QED BY LaysBuffer, LaysWhen, LaysConcat
<1>3. \A x \in names \cup {"output"} : Has(a, x)
  <2> HIDE DEF parts, names
  <2> QED BY <1>2, CallerRecord
<1> HIDE DEF a, copied
<1>4. Has(a, "buf") /\ Has(a, "output")
  BY <1>3
<1>5. (copied => Has(a, "input")) /\ (Longer(p) => Has(a, "input_pad"))
  BY <1>3
<1> QED BY <1>1, <1>4, <1>5 DEF copied

\* Execution of a real transform by butterflies.
LEMMA RealButterflyExec ==
  ASSUME NEW p, ~ p.inPlace
  PROVE  Harmless(execRFFTButterfly1d(p))
<1> DEFINE a  == configureRFFT1dWorkspaceAddrs(p)
           in == a[IF Longer(p) THEN "input_pad" ELSE "input"]
           y  == HalfResult(p)
           to  == Dense(p, a["output"], C, y)
           buf == Scratch(a["buf"], 2 * C * p.batch * p.n[1])
           s1 == When(~ (p.inDense /\ ~ Shorter(p)),
                      CopyIn(p, a["input"], R, Trimmed(p)))
           s2 == When(Longer(p),
                      Fit(p, a["input"], p.inembed, a["input_pad"], p.n, R))
           s3 == Butterfly(Tables(RealTables1d(p, 2 * C * p.n[1]),
                                  {"factors", "twiddles", "dft_matrix"}),
                           Dense(p, in, R, Signal(p.n)), to, buf)
           s4 == Rescale(p, a["output"], C, y)
           s5 == CopyOut(p, a["output"], C, Scaled(p, y))
<1>1. execRFFTButterfly1d(p) = s1 \o s2 \o s3 \o s4 \o s5
  BY DEF execRFFTButterfly1d
<1>2. /\ Has(a, "buf") /\ Has(a, "output")
      /\ ~ (p.inDense /\ ~ Shorter(p)) => Has(a, "input")
      /\ Longer(p) => Has(a, "input_pad")
  BY RealButterflyAddrs
<1> HIDE DEF a, in, y
<1>3. Harmless(s1) /\ Harmless(s2)
  BY <1>2, SharedSteps, HarmlessWhen DEF Has
<1>4. Spares(to) /\ Spares(buf)
  BY <1>2, SparesSignals DEF Has
<1>5. Harmless(s3)
  <2> HIDE DEF to, buf
  <2> QED BY <1>4, SharedButterfly
<1>6. Harmless(s4) /\ Harmless(s5)
  BY <1>2, SharedSteps, SharedCopyOut DEF Has
<1> HIDE DEF s1, s2, s3, s4, s5
<1> QED BY <1>1, <1>3, <1>5, <1>6, HarmlessConcat

\* Each branch in two dimensions lays out what it writes.
LEMMA RealAddrs2d ==
  ASSUME NEW p, ~ p.inPlace
  PROVE  LET a == configureRFFT2dWorkspaceAddrs(p)
         IN  /\ p.strategy = "many" => ManyServed(a)
             /\ p.strategy # "many" => /\ Has(a, "buf") /\ Has(a, "output")
                                       /\ ~ (p.inDense /\ ~ Shorter(p)) =>
                                            Has(a, "input")
<1> DEFINE signals == C * p.batch * Size(p.n)
           many   == p.strategy = "many"
           copied == ~ (p.inDense /\ ~ Shorter(p))
           manyBufs   == Buffer("buffer_in", 2 * signals)
                         \o Buffer("buffer_out", 2 * signals)
           manyNames  == {"buffer_in"} \cup {"buffer_out"}
           otherBufs  == Buffer("buf", 2 * signals)
                         \o When(copied, Buffer("input", signals))
                         \o When(~ p.outDense, Buffer("output", signals))
           otherNames == {"buf"} \cup (IF copied THEN {"input"} ELSE {})
                         \cup (IF ~ p.outDense THEN {"output"} ELSE {})
           core      == IF many THEN manyBufs ELSE otherBufs
           coreNames == IF many THEN manyNames ELSE otherNames
           parts     == core \o When(Longer(p), Buffer("input_pad", 0))
           names     == coreNames
                        \cup (IF Longer(p) THEN {"input_pad"} ELSE {})
           a      == With(Forward(Workspace, parts),
                          [input |-> Input(p), output |-> Output(p)])
<1>1. configureRFFT2dWorkspaceAddrs(p) = a
  BY DEF configureRFFT2dWorkspaceAddrs
<1>2. Lays(core, coreNames)
  <2>1. Lays(manyBufs, manyNames)
    BY LaysBuffer, LaysConcat
  <2>2. Lays(otherBufs, otherNames)
    <3> HIDE DEF copied, signals
    <3> QED BY LaysBuffer, LaysWhen, LaysConcat
  <2> HIDE DEF manyBufs, manyNames, otherBufs, otherNames
  <2> QED BY <2>1, <2>2
<1>3. Lays(parts, names)
  <2> HIDE DEF core, coreNames
  <2> QED BY <1>2, LaysBuffer, LaysWhen, LaysConcat
<1>4. \A x \in names \cup {"output"} : Has(a, x)
  <2> HIDE DEF parts, names
  <2> QED BY <1>3, CallerRecord
<1> HIDE DEF a, copied
<1>5. many => ManyServed(a)
  BY <1>4 DEF ManyServed
<1>6. ~ many => /\ Has(a, "buf") /\ Has(a, "output")
                /\ copied => Has(a, "input")
  BY <1>4
<1> QED BY <1>1, <1>5, <1>6 DEF copied

\* Rows, then columns, of all signals of the batch.
LEMMA RealTwoLevelExec ==
  ASSUME NEW p, p.batch \in Nat, NEW a, Has(a, "buf"), Has(a, "output")
  PROVE  Harmless(execRFFTTwoLevel(p, a))
<1> DEFINE half == HalfDims(p.n)
           y    == HalfResult(p)
           mid  == IF p.n[1] = 1 THEN y ELSE Along("row", Signal(half))
           signal(at, b, unit, v) ==
             {Holds(Move(at, b * unit * Size(v.dims)),
                    unit * Size(v.dims), v)}
           buf  == Scratch(a["buf"], 2 * C * Size(p.n))
           row(b) ==
             When(p.n[2] # 1,
                  Butterfly(Tables2(p, "row", TRUE),
                            signal(a["input"], b, R, Signal(p.n)),
                            signal(a["output"], b, C, mid), buf))
           column(b) ==
             When(p.n[1] # 1,
                  Butterfly(Tables2(p, "column", TRUE),
                            signal(a["output"], b, C, mid),
                            signal(a["output"], b, C, y), buf))
           to   == Dense(p, a["output"], C, mid)
           s1   == When(p.n[2] = 1,
                        Stage(Dense(p, a["input"], R, Signal(p.n)), to))
           batch == [b \in 1 .. p.batch |-> row(b - 1) \o column(b - 1)]
<1>1. execRFFTTwoLevel(p, a) = s1 \o FlattenSeq(batch)
  BY DEF execRFFTTwoLevel
<1>2. Spares(buf) /\ Spares(to)
  BY SparesSignals DEF Has
<1>3. ASSUME NEW b, NEW unit, NEW v
      PROVE  Spares(signal(a["output"], b, unit, v))
  BY ApartMove, SparesHolds DEF Has
<1>4. Harmless(s1)
  <2> HIDE DEF to
  <2> QED BY <1>2, HarmlessStage, HarmlessWhen
<1> HIDE DEF half, y, mid, signal, buf, to
<1>5. ASSUME NEW b PROVE Harmless(row(b) \o column(b))
  BY <1>2, <1>3, SharedButterfly, HarmlessWhen, HarmlessConcat
<1> HIDE DEF row, column, s1
<1>6. Harmless(FlattenSeq(batch))
  <2>1. /\ batch = [i \in 1 .. p.batch |-> batch[i]]
        /\ \A i \in 1 .. p.batch : Harmless(batch[i])
    BY <1>5
  <2> HIDE DEF batch
  <2> QED BY <2>1, HarmlessFlat
<1> HIDE DEF batch
<1> QED BY <1>1, <1>4, <1>6, HarmlessConcat

\* The matrix products over all signals at once.
LEMMA RealManyExec ==
  ASSUME NEW p, NEW a, ManyServed(a)
  PROVE  Harmless(execRFFTMany(p, a))
<1> DEFINE half == HalfDims(p.n)
           all(at, k, v) == {Holds(at, k * C * p.batch * Size(half), v)}
           rows  == all(a["buffer_in"], 1, Along("row", Signal(half)))
           parts == all(a["buffer_out"], 2, Along("parts", Result(half)))
           y     == Strided(p, a["output"], C, HalfResult(p))
<1>1. PICK r1, r2 : execRFFTMany(p, a) =
                    Stage(r1, rows) \o Stage(r2, parts) \o Stage(parts, y)
  BY DEF execRFFTMany
<1>2. Spares(rows) /\ Spares(parts) /\ Spares(y)
  BY SparesHolds, SparesSignals DEF ManyServed, Has
<1> HIDE DEF rows, parts, y
<1> QED BY <1>1, <1>2, HarmlessStage, HarmlessConcat

\* Execution of a two-dimensional real transform.
LEMMA RealExec2d ==
  ASSUME NEW p, ~ p.inPlace, p.batch \in Nat
  PROVE  Harmless(execRFFT2d(p))
<1> DEFINE a == configureRFFT2dWorkspaceAddrs(p)
           y == HalfResult(p)
           s1 == When(~ (p.inDense /\ ~ Shorter(p)),
                      CopyIn(p, a["input"], R, Trimmed(p)))
           s2 == execRFFTTwoLevel(p, a)
           s3 == Rescale(p, a["output"], C, y)
           s4 == CopyOut(p, a["output"], C, Scaled(p, y))
<1>1. CASE p.strategy = "many"
  <2>1. ManyServed(a)
    BY <1>1, RealAddrs2d
  <2>2. execRFFT2d(p) = execRFFTMany(p, a)
                        \o RescaleStrided(p, a["output"], C, y)
    BY <1>1 DEF execRFFT2d
  <2> HIDE DEF a, y
  <2>3. Harmless(RescaleStrided(p, a["output"], C, y))
    BY <2>1, SharedSteps DEF ManyServed, Has
  <2> QED BY <2>1, <2>2, <2>3, RealManyExec, HarmlessConcat
<1>2. CASE p.strategy # "many"
  <2>1. /\ Has(a, "buf") /\ Has(a, "output")
        /\ ~ (p.inDense /\ ~ Shorter(p)) => Has(a, "input")
    BY <1>2, RealAddrs2d
  <2>2. execRFFT2d(p) = s1 \o s2 \o s3 \o s4
    BY <1>2 DEF execRFFT2d
  <2> HIDE DEF a, y
  <2>3. Harmless(s1) /\ Harmless(s2)
    BY <2>1, SharedSteps, RealTwoLevelExec, HarmlessWhen DEF Has
  <2>4. Harmless(s3) /\ Harmless(s4)
    BY <2>1, SharedSteps, SharedCopyOut DEF Has
  <2> HIDE DEF s1, s2, s3, s4
  <2> QED BY <2>2, <2>3, <2>4, HarmlessConcat
<1> QED BY <1>1, <1>2

-----------------------------------------------------------------------------
(* Complex to real, one dimension.                                         *)

\* What the matmul branch writes through these addresses is not the input.
HalfMatmulServed(p, a) ==
  /\ Apart(a["internal"]) /\ Apart(a["output_contiguous"])
  /\ p.strategy # "matmul" =>
       \A x \in {"input_transed", "input_reversed", "input_merged",
                 "input_re", "im_mul_im", "im_mul_re", "re_mul_im",
                 "re_mul_re"} : Apart(a[x])
  /\ ~ p.inDense => Apart(a["input_contiguous"])
  /\ p.inembed # HalfDims(p.n) => Apart(a["input_pad"])

\* The matmul branch works in the workspace and in the caller's output.
LEMMA HalfMatmulAddrs ==
  ASSUME NEW p, ~ p.inPlace
  PROVE  HalfMatmulServed(p, configureIRFFT1dMatmulWorkspaceAddrs(p))
<1> DEFINE signals == R * p.batch * p.n[1]
           half    == C * p.batch * Half(p.n[1])
           matmul  == p.strategy = "matmul"
           padded  == p.inembed # HalfDims(p.n)
           mirror  == Buffer("input_transed", half)
                      \o Buffer("input_reversed", 2 * signals - half)
                      \o Buffer("input_merged", 2 * signals)
           mirrorNames == {"input_transed"} \cup {"input_reversed"}
                          \cup {"input_merged"}
           first   == When(~ p.inDense,
                           Buffer("input_contiguous",
                                  C * p.batch * p.inembed[1]))
                      \o When(padded, Buffer("input_pad", half))
                      \o When(~ matmul, mirror)
           firstNames == (IF ~ p.inDense THEN {"input_contiguous"} ELSE {})
                         \cup (IF padded THEN {"input_pad"} ELSE {})
                         \cup (IF ~ matmul THEN mirrorNames ELSE {})
           products == Buffer("im_mul_im", signals)
                       \o Buffer("im_mul_re", signals)
                       \o Buffer("re_mul_im", signals)
                       \o Buffer("re_mul_re", signals)
           productNames == {"im_mul_im"} \cup {"im_mul_re"}
                           \cup {"re_mul_im"} \cup {"re_mul_re"}
           last    == Buffer("internal", p.internal)
                      \o When(~ p.outDense,
                              Buffer("output_contiguous",
                                     R * p.batch * p.onembed[1]))
                      \o When(~ matmul, products)
           lastNames == {"internal"}
                        \cup (IF ~ p.outDense THEN {"output_contiguous"} ELSE {})
                        \cup (IF ~ matmul THEN productNames ELSE {})
           end   == Move(Workspace, C2RSizes(p).workspace)
           front == Forward(Workspace, first)
           back  == Backward(end, last)
           full  == With(front, [input_contiguous |-> Input(p)])
           rest  == [input_pad |-> full["input_contiguous"],
                     output_contiguous |-> Output(p)]
           all   == With(With(back, full), rest)
           by_L  == [input_re |-> all["input_transed"],
                     input_im |-> Move(all["input_transed"], signals)]
           a     == configureIRFFT1dMatmulWorkspaceAddrs(p)
<1>1. a = IF matmul THEN all ELSE With(all, by_L)
  BY DEF configureIRFFT1dMatmulWorkspaceAddrs
<1>2. Lays(first, firstNames)
  <2>1. Lays(mirror, mirrorNames)
    BY LaysBuffer, LaysConcat
  <2> HIDE DEF mirror, mirrorNames, matmul, padded, half
  <2> QED BY <2>1, LaysBuffer, LaysWhen, LaysConcat
<1>3. Lays(last, lastNames)
  <2>1. Lays(products, productNames)
    BY LaysBuffer, LaysConcat
  <2> HIDE DEF products, productNames, matmul
  <2> QED BY <2>1, LaysBuffer, LaysWhen, LaysConcat
<1> HIDE DEF first, last
<1>4. Serves(front, firstNames, {}) /\ Serves(back, lastNames, {})
  <2>1. Apart(end) /\ Apart(Workspace)
    BY ApartPlaces, ApartMove
  <2> HIDE DEF firstNames, lastNames, end
  <2> QED BY <1>2, <1>3, <2>1, ServesLaid
<1> HIDE DEF front, back
<1> DEFINE names == lastNames \cup firstNames \cup {"output_contiguous"}
           given == {"input_contiguous"} \cup {"input_pad"}
<1>5. Serves(all, names, given)
  <2> HIDE DEF firstNames, lastNames
  <2> QED BY <1>4, MatmulRecord
<1> HIDE DEF all
<1>6. ~ matmul => Apart(all["input_transed"])
  BY <1>5 DEF Serves
<1>7. ~ matmul => Serves(With(all, by_L),
                         names \cup ({"input_re", "input_im"} \ given),
                         given \cup {})
  <2> SUFFICES ASSUME ~ matmul PROVE
               Serves(With(all, by_L),
                      names \cup ({"input_re", "input_im"} \ given),
                      given \cup {})
    OBVIOUS
  <2>1. Serves(by_L, {"input_re", "input_im"}, {})
    <3>1. Apart(Move(all["input_transed"], signals))
      BY <1>6, ApartMove
    <3> QED BY <1>6, <3>1 DEF Serves
  <2> HIDE DEF by_L, names, given
  <2> QED BY <1>5, <2>1, ServesWith
<1>8. /\ \A x \in names : Apart(a[x])
      /\ ~ matmul => Apart(a["input_re"])
  <2>1. CASE matmul
    <3> HIDE DEF names, given
    <3> QED BY <1>1, <1>5, <2>1 DEF Serves
  <2>2. CASE ~ matmul
    <3>1. Serves(a, names \cup ({"input_re", "input_im"} \ given),
                 given \cup {})
      BY <1>1, <1>7, <2>2
    <3> HIDE DEF a, names
    <3> QED BY <3>1 DEF Serves
  <2> QED BY <2>1, <2>2
<1> HIDE DEF a
<1>9. Apart(a["internal"]) /\ Apart(a["output_contiguous"])
  BY <1>8
<1>10. ~ matmul =>
         \A x \in {"input_transed", "input_reversed", "input_merged",
                   "input_re", "im_mul_im", "im_mul_re", "re_mul_im",
                   "re_mul_re"} : Apart(a[x])
  BY <1>8
<1>11. /\ ~ p.inDense => Apart(a["input_contiguous"])
       /\ padded => Apart(a["input_pad"])
  <2> HIDE DEF lastNames
  <2> QED BY <1>8
<1> QED BY <1>9, <1>10, <1>11 DEF HalfMatmulServed, a

\* The two halves of a batch.
LEMMA SparesHalves ==
  ASSUME NEW a, Apart(a), NEW len, NEW name
  PROVE  Spares(Halves(a, len, name))
<1> DEFINE re == Holds(a, len, Value("re " \o name, <<>>))
           im == Holds(Move(a, len), len, Value("im " \o name, <<>>))
<1>1. Spares({re}) /\ Spares({im})
  BY ApartMove, SparesHolds
<1>2. Halves(a, len, name) = {re} \cup {im}
  BY DEF Halves
<1> HIDE DEF re, im
<1> QED BY <1>1, <1>2, SparesBoth

\* mergeIRFFT1dInput mirrors the half in buffers of its own.
LEMMA HalfMerge ==
  ASSUME NEW p, NEW a, HalfMatmulServed(p, a)
  PROVE  Harmless(mergeIRFFT1dInput(p, a))
<1> SUFFICES ASSUME p.strategy # "matmul"
             PROVE  Harmless(mergeIRFFT1dInput(p, a))
  BY HarmlessNothing DEF mergeIRFFT1dInput, When
<1> DEFINE half == R * p.batch * Half(p.n[1])
           rest == R * p.batch * p.n[1] - half
           used == Scratch(a["internal"], CnnlSpace)
           w1   == Halves(a["input_transed"], half, "half")
           w2   == Halves(a["input_reversed"], rest, "reversed")
           w3   == Halves(a["input_reversed"], rest, "mirrored")
           w4   == Halves(a["input_merged"], half + rest, "x")
<1>1. PICK r1, r2, r3, r4 :
        mergeIRFFT1dInput(p, a) =
          Stage(r1, used \cup w1) \o Stage(r2, w2)
          \o Stage(r3, used \cup w3) \o Stage(r4, used \cup w4)
  BY DEF mergeIRFFT1dInput, When
<1>2. /\ Spares(used) /\ Spares(w1) /\ Spares(w2)
      /\ Spares(w3) /\ Spares(w4)
  BY SparesSignals, SparesHalves DEF HalfMatmulServed
<1> HIDE DEF used, w1, w2, w3, w4
<1>3. /\ Harmless(Stage(r1, used \cup w1)) /\ Harmless(Stage(r2, w2))
      /\ Harmless(Stage(r3, used \cup w3))
      /\ Harmless(Stage(r4, used \cup w4))
  BY <1>2, SparesBoth, HarmlessStage
<1> QED BY <1>1, <1>3, HarmlessConcat

\* transposeIRFFT1dPaddedInput writes the halves by L.
LEMMA HalfTranspose ==
  ASSUME NEW p, NEW a, HalfMatmulServed(p, a)
  PROVE  Harmless(transposeIRFFT1dPaddedInput(p, a))
<1> DEFINE used == Scratch(a["internal"], CnnlSpace)
           to   == Halves(a["input_re"], R * p.batch * p.n[1], "by L")
<1>1. PICK reads : transposeIRFFT1dPaddedInput(p, a) =
                   When(p.strategy = "cooley", Stage(reads, used \cup to))
  BY DEF transposeIRFFT1dPaddedInput
<1>2. Spares(used) /\ (p.strategy = "cooley" => Spares(to))
  BY SparesSignals, SparesHalves DEF HalfMatmulServed
<1> HIDE DEF used, to
<1>3. p.strategy = "cooley" => Harmless(Stage(reads, used \cup to))
  BY <1>2, SparesBoth, HarmlessStage
<1> QED BY <1>1, <1>3, HarmlessNothing DEF When

\* computeIRFFT1dMatmulResult writes the products, or the result.
LEMMA HalfProducts ==
  ASSUME NEW p, NEW a, p.strategy \in MatmulStrategies,
         HalfMatmulServed(p, a)
  PROVE  Harmless(computeIRFFT1dMatmulResult(p, a))
<1> DEFINE used == Scratch(a["internal"], CnnlSpace)
           to(x, w) == Reals(p, a[ProductOf[x][w]],
                             Scaled(p, Part(p, x \o "*" \o w)))
           out == Dense(p, a["output_contiguous"], R, Scaled(p, Result(p.n)))
           all == {Holds(a["re_mul_re"], 4 * (R * p.batch * p.n[1]),
                         Part(p, "products"))}
<1>1. Spares(used) /\ Spares(out)
  BY SparesSignals DEF HalfMatmulServed
<1>2. CASE p.strategy = "matmul"
  <2>1. PICK reads : computeIRFFT1dMatmulResult(p, a) =
                     Stage(reads, used \cup out)
    BY <1>2 DEF computeIRFFT1dMatmulResult
  <2> HIDE DEF used, out
  <2> QED BY <1>1, <2>1, SparesBoth, HarmlessStage
<1>3. CASE p.strategy = "cooley"
  <2>1. PICK r1, r2, r3, r4 :
          computeIRFFT1dMatmulResult(p, a) =
            Stage(r1, used \cup to("re", "re"))
            \o Stage(r2, used \cup to("im", "im"))
            \o Stage(r3, used \cup to("re", "im"))
            \o Stage(r4, used \cup to("im", "re"))
    BY <1>3 DEF computeIRFFT1dMatmulResult
  <2>2. \A x, w \in {"re", "im"} : Apart(a[ProductOf[x][w]])
    BY <1>3 DEF ProductOf, HalfMatmulServed
  <2>3. \A x, w \in {"re", "im"} : Spares(to(x, w))
    BY <2>2, SparesReals
  <2> HIDE DEF used, to
  <2>4. /\ Harmless(Stage(r1, used \cup to("re", "re")))
        /\ Harmless(Stage(r2, used \cup to("im", "im")))
        /\ Harmless(Stage(r3, used \cup to("re", "im")))
        /\ Harmless(Stage(r4, used \cup to("im", "re")))
    BY <1>1, <2>3, SparesBoth, HarmlessStage
  <2> QED BY <2>1, <2>4, HarmlessConcat
<1>4. CASE p.strategy = "stockham"
  <2>1. PICK reads : computeIRFFT1dMatmulResult(p, a) =
                     Stage(reads, used \cup all)
    BY <1>4 DEF computeIRFFT1dMatmulResult
  <2>2. Spares(all)
    BY <1>4, SparesHolds DEF HalfMatmulServed
  <2> HIDE DEF used, all
  <2> QED BY <1>1, <2>1, <2>2, SparesBoth, HarmlessStage
<1> QED BY <1>2, <1>3, <1>4 DEF MatmulStrategies

\* mergeIRFFT1dOutput writes the result.
LEMMA HalfMergeOutput ==
  ASSUME NEW p, NEW a, p.strategy \in MatmulStrategies,
         HalfMatmulServed(p, a)
  PROVE  Harmless(mergeIRFFT1dOutput(p, a))
<1> DEFINE out  == Dense(p, a["output_contiguous"], R, Scaled(p, Result(p.n)))
           room == Scratch(a["internal"], 2 * R * p.batch * p.n[1])
<1>1. CASE p.strategy = "matmul"
  BY <1>1, HarmlessNothing DEF mergeIRFFT1dOutput
<1>2. CASE p.strategy # "matmul"
  <2>1. PICK reads : mergeIRFFT1dOutput(p, a) = Stage(reads, room \cup out)
    <3> DEFINE four == UNION {Reals(p, a[ProductOf[x][w]],
                                    Scaled(p, Part(p, x \o "*" \o w))) :
                                x \in {"re", "im"}, w \in {"re", "im"}}
               all  == {Holds(a["re_mul_re"], 4 * R * p.batch * p.n[1],
                              Part(p, "products"))}
    <3>1. mergeIRFFT1dOutput(p, a) =
            CASE p.strategy = "matmul" -> <<>>
              [] p.strategy = "cooley" -> Stage(four, room \cup out)
              [] p.strategy = "stockham" -> Stage(all, room \cup out)
      BY DEF mergeIRFFT1dOutput
    <3> HIDE DEF four, all, room, out
    <3> QED BY <1>2, <3>1 DEF MatmulStrategies
  <2>2. Spares(room) /\ Spares(out)
    BY SparesSignals DEF HalfMatmulServed
  <2> HIDE DEF room, out
  <2> QED BY <2>1, <2>2, SparesBoth, HarmlessStage
<1> QED BY <1>1, <1>2

\* Execution of a transform to real numbers by matrix products.
LEMMA HalfMatmulExec ==
  ASSUME NEW p, ~ p.inPlace, p.strategy \in MatmulStrategies
  PROVE  Harmless(execIRFFTMatmul1d(p))
<1> DEFINE a  == configureIRFFT1dMatmulWorkspaceAddrs(p)
           s1 == When(~ p.inDense,
                      CopyIn(p, a["input_contiguous"], C, p.inembed))
           s2 == When(p.inembed # HalfDims(p.n),
                      Fit(p, a["input_contiguous"], p.inembed,
                          a["input_pad"], HalfDims(p.n), C))
           s3 == mergeIRFFT1dInput(p, a)
           s4 == transposeIRFFT1dPaddedInput(p, a)
           s5 == computeIRFFT1dMatmulResult(p, a)
           s6 == mergeIRFFT1dOutput(p, a)
           s7 == CopyOut(p, a["output_contiguous"], R, Scaled(p, Result(p.n)))
<1>1. HalfMatmulServed(p, a)
  BY HalfMatmulAddrs
<1>2. execIRFFTMatmul1d(p) = s1 \o s2 \o s3 \o s4 \o s5 \o s6 \o s7
  BY DEF execIRFFTMatmul1d
<1> HIDE DEF a
<1>3. Harmless(s1) /\ Harmless(s2)
  BY <1>1, SharedSteps, HarmlessWhen DEF HalfMatmulServed
<1>4. Harmless(s3) /\ Harmless(s4) /\ Harmless(s5) /\ Harmless(s6)
  BY <1>1, HalfMerge, HalfTranspose, HalfProducts, HalfMergeOutput
<1>5. Harmless(s7)
  BY SharedCopyOut
<1> HIDE DEF s1, s2, s3, s4, s5, s6, s7
<1> QED BY <1>2, <1>3, <1>4, <1>5, HarmlessConcat

\* The lengths and the extents of a plan.
Dims(rank) == [1 .. rank -> Nat \ {0}]

\* Half of a length is no more than the length: where half of it exceeds the
\* input, it does too.
LEMMA BelowIsLonger ==
  ASSUME NEW p, p.rank = 1, p.n \in Dims(1), p.inembed \in Dims(1),
         BelowHalf(p)
  PROVE  Longer(p)
<1>1. Len(p.n) = 1 /\ p.n \in Seq(Nat \ {0})
  <2>1. [1 .. 1 -> Nat \ {0}] \in {[1 .. n -> Nat \ {0}] : n \in Nat}
    OBVIOUS
  <2>2. p.n \in Seq(Nat \ {0})
    BY <2>1, SeqDef DEF Dims
  <2> QED BY <2>2, LenProperties DEF Dims
<1>2. HalfDims(p.n) = [i \in 1 .. 1 |-> Half(p.n[1])]
  BY <1>1 DEF HalfDims, Dims
<1>3. Half(p.n[1]) > p.inembed[1]
  <2>1. Half(p.n[1]) \in Nat /\ p.inembed[1] \in Nat
    BY DEF Half, Dims
  <2> SUFFICES ASSUME Half(p.n[1]) <= p.inembed[1]
               PROVE  HalfTrimmed(p) = HalfDims(p.n)
    BY <2>1 DEF BelowHalf
  <2>2. HalfDims(p.n)[1] = Half(p.n[1])
    BY <1>2
  <2>3. HalfTrimmed(p) = [i \in 1 .. 1 |-> Half(p.n[1])]
    BY <2>1, <2>2 DEF HalfTrimmed
  <2> QED BY <1>2, <2>3
<1>4. p.n[1] \in Nat \ {0} /\ p.inembed[1] \in Nat
  BY DEF Dims
<1>5. p.n[1] >= Half(p.n[1])
  BY <1>4 DEF Half
<1>6. p.n[1] > p.inembed[1]
  BY <1>3, <1>4, <1>5 DEF Half
<1> QED BY <1>6 DEF Longer

\* The butterfly branch lays out what it writes, or writes the caller's
\* output.
LEMMA HalfButterflyAddrs ==
  ASSUME NEW p, ~ p.inPlace
  PROVE  LET a == configureIRFFT1dWorkspaceAddrs(p)
         IN  /\ Has(a, "buf") /\ Has(a, "output")
             /\ ~ (p.inDense /\ WithinHalf(p)) => Has(a, "input")
             /\ Longer(p) => Has(a, "input_pad")
<1> DEFINE buffer == C * p.batch * p.n[1]
           copied == ~ (p.inDense /\ WithinHalf(p))
           parts  == Buffer("buf", 2 * buffer)
                     \o When(copied, Buffer("input", buffer))
                     \o When(~ p.outDense, Buffer("output", buffer))
                     \o When(Longer(p), Buffer("input_pad", 0))
           names  == {"buf"} \cup (IF copied THEN {"input"} ELSE {})
                     \cup (IF ~ p.outDense THEN {"output"} ELSE {})
                     \cup (IF Longer(p) THEN {"input_pad"} ELSE {})
           a      == With(Forward(Workspace, parts),
                          [input |-> Input(p), output |-> Output(p)])
<1>1. configureIRFFT1dWorkspaceAddrs(p) = a
  BY DEF configureIRFFT1dWorkspaceAddrs
<1>2. Lays(parts, names)
  <2> HIDE DEF copied, buffer
  <2> QED BY LaysBuffer, LaysWhen, LaysConcat
<1>3. \A x \in names \cup {"output"} : Has(a, x)
  <2> HIDE DEF parts, names
  <2> QED BY <1>2, CallerRecord
<1> HIDE DEF a, copied
<1>4. Has(a, "buf") /\ Has(a, "output")
  BY <1>3
<1>5. (copied => Has(a, "input")) /\ (Longer(p) => Has(a, "input_pad"))
  BY <1>3
<1> QED BY <1>1, <1>4, <1>5 DEF copied

\* Execution of a transform to real numbers by butterflies.
LEMMA HalfButterflyExec ==
  ASSUME NEW p, ~ p.inPlace, p.rank = 1, p.n \in Dims(1),
         p.inembed \in Dims(1)
  PROVE  Harmless(execIRFFTButterfly1d(p))
<1> DEFINE a  == configureIRFFT1dWorkspaceAddrs(p)
           in == a[IF BelowHalf(p) THEN "input_pad" ELSE "input"]
           y  == Result(p.n)
           to  == Dense(p, a["output"], R, y)
           buf == Scratch(a["buf"], 2 * C * p.batch * p.n[1])
           s1 == When(~ (p.inDense /\ WithinHalf(p)),
                      CopyIn(p, a["input"], C, HalfTrimmed(p)))
           s2 == When(BelowHalf(p),
                      Fit(p, a["input"], p.inembed, a["input_pad"],
                          HalfDims(p.n), C))
           s3 == Butterfly(Tables(RealTables1d(p, 2 * C * p.n[1]),
                                  {"factors", "twiddles", "dft_matrix"}),
                           Dense(p, in, C, HalfSignal(p)), to, buf)
           s4 == Rescale(p, a["output"], R, y)
           s5 == CopyOut(p, a["output"], R, Scaled(p, y))
<1>1. execIRFFTButterfly1d(p) = s1 \o s2 \o s3 \o s4 \o s5
  BY DEF execIRFFTButterfly1d
<1>2. /\ Has(a, "buf") /\ Has(a, "output")
      /\ ~ (p.inDense /\ WithinHalf(p)) => Has(a, "input")
      /\ BelowHalf(p) => Has(a, "input_pad")
  BY HalfButterflyAddrs, BelowIsLonger
<1> HIDE DEF a, in, y
<1>3. Harmless(s1) /\ Harmless(s2)
  BY <1>2, SharedSteps, HarmlessWhen DEF Has
<1>4. Spares(to) /\ Spares(buf)
  BY <1>2, SparesSignals DEF Has
<1>5. Harmless(s3)
  <2> HIDE DEF to, buf
  <2> QED BY <1>4, SharedButterfly
<1>6. Harmless(s4) /\ Harmless(s5)
  BY <1>2, SharedSteps, SharedCopyOut DEF Has
<1> HIDE DEF s1, s2, s3, s4, s5
<1> QED BY <1>1, <1>3, <1>5, <1>6, HarmlessConcat

-----------------------------------------------------------------------------
(* Complex to real, two dimensions.                                        *)

\* The two-level branch has a buffer between its passes.
LEMMA HalfAddrs2d ==
  ASSUME NEW p, ~ p.inPlace
  PROVE  LET a == configureIRFFT2dWorkspaceAddrs(p)
         IN  /\ p.strategy = "many" => ManyServed(a)
             /\ p.strategy # "many" =>
                  /\ Has(a, "buf") /\ Has(a, "output") /\ Has(a, "buffer_out")
                  /\ ~ (p.inDense /\ WithinHalf(p)) => Has(a, "input")
                  /\ BelowHalf(p) => Has(a, "input_pad")
<1> DEFINE signals == C * p.batch * Size(p.n)
           many   == p.strategy = "many"
           copied == ~ (p.inDense /\ WithinHalf(p))
           manyBufs   == Buffer("buffer_in", 2 * signals)
                         \o Buffer("buffer_out", 2 * signals)
           manyNames  == {"buffer_in"} \cup {"buffer_out"}
           otherBufs  == Buffer("buf", 2 * signals)
                         \o When(copied, Buffer("input", signals))
                         \o When(~ p.outDense, Buffer("output", signals))
                         \o Buffer("buffer_out", signals)
           otherNames == {"buf"} \cup (IF copied THEN {"input"} ELSE {})
                         \cup (IF ~ p.outDense THEN {"output"} ELSE {})
                         \cup {"buffer_out"}
           core      == IF many THEN manyBufs ELSE otherBufs
           coreNames == IF many THEN manyNames ELSE otherNames
           parts     == core \o When(BelowHalf(p), Buffer("input_pad", 0))
           names     == coreNames
                        \cup (IF BelowHalf(p) THEN {"input_pad"} ELSE {})
           a      == With(Forward(Workspace, parts),
                          [input |-> Input(p), output |-> Output(p)])
<1>1. configureIRFFT2dWorkspaceAddrs(p) = a
  BY DEF configureIRFFT2dWorkspaceAddrs
<1>2. Lays(core, coreNames)
  <2>1. Lays(manyBufs, manyNames)
    BY LaysBuffer, LaysConcat
  <2>2. Lays(otherBufs, otherNames)
    <3> HIDE DEF copied, signals
    <3> QED BY LaysBuffer, LaysWhen, LaysConcat
  <2> HIDE DEF manyBufs, manyNames, otherBufs, otherNames
  <2> QED BY <2>1, <2>2
<1>3. Lays(parts, names)
  <2> HIDE DEF core, coreNames
  <2> QED BY <1>2, LaysBuffer, LaysWhen, LaysConcat
<1>4. \A x \in names \cup {"output"} : Has(a, x)
  <2> HIDE DEF parts, names
  <2> QED BY <1>3, CallerRecord
<1> HIDE DEF a, copied
<1>5. many => ManyServed(a)
  BY <1>4 DEF ManyServed
<1>6. ~ many => /\ Has(a, "buf") /\ Has(a, "output") /\ Has(a, "buffer_out")
                /\ copied => Has(a, "input")
  BY <1>4
<1>7. BelowHalf(p) => Has(a, "input_pad")
  <2> HIDE DEF coreNames
  <2> QED BY <1>4
<1> QED BY <1>1, <1>5, <1>6, <1>7 DEF copied

\* Columns, then rows, of all signals of the batch.
LEMMA HalfTwoLevelExec ==
  ASSUME NEW p, p.batch \in Nat, NEW in, NEW a,
         Has(a, "buf"), Has(a, "output"), Has(a, "buffer_out")
  PROVE  Harmless(execIRFFTTwoLevel(p, a, in))
<1> DEFINE half == HalfDims(p.n)
           y    == Result(p.n)
           mid  == Along("column", Signal(half))
           signal(at, b, unit, v) ==
             {Holds(Move(at, b * unit * Size(v.dims)),
                    unit * Size(v.dims), v)}
           buf  == Scratch(a["buf"], 2 * C * Size(p.n))
           row  == Tables(Tables2d(p), {"factors", "twiddles", "dft_matrix"})
           one(b) ==
             When(p.n[1] # 1,
                  Butterfly(Tables2(p, "column", FALSE),
                            signal(in, b, C, Signal(half)),
                            signal(a["buffer_out"], b, C, mid), buf))
             \o When(p.n[2] # 1,
                     Butterfly(row,
                               IF p.n[1] = 1 THEN signal(in, b, C, Signal(half))
                               ELSE signal(a["buffer_out"], b, C, mid),
                               signal(a["output"], b, R, y), buf))
           to   == Dense(p, a["output"], R, y)
           from == IF p.n[1] = 1 THEN Dense(p, in, C, Signal(half))
                   ELSE Dense(p, a["buffer_out"], C, mid)
           last == When(p.n[2] = 1, Stage(from, to))
           batch == [b \in 1 .. p.batch |-> one(b - 1)]
<1>1. execIRFFTTwoLevel(p, a, in) = FlattenSeq(batch) \o last
  BY DEF execIRFFTTwoLevel
<1>2. Spares(buf) /\ Spares(to)
  BY SparesSignals DEF Has
<1>3. ASSUME NEW b, NEW unit, NEW v
      PROVE  /\ Spares(signal(a["output"], b, unit, v))
             /\ Spares(signal(a["buffer_out"], b, unit, v))
  BY ApartMove, SparesHolds DEF Has
<1>4. Harmless(last)
  <2> HIDE DEF to, from
  <2> QED BY <1>2, HarmlessStage, HarmlessWhen
<1> HIDE DEF half, y, mid, signal, buf, row, to
<1>5. ASSUME NEW b PROVE Harmless(one(b))
  BY <1>2, <1>3, SharedButterfly, HarmlessWhen, HarmlessConcat
<1> HIDE DEF one, last
<1>6. Harmless(FlattenSeq(batch))
  <2>1. /\ batch = [i \in 1 .. p.batch |-> batch[i]]
        /\ \A i \in 1 .. p.batch : Harmless(batch[i])
    BY <1>5
  <2> HIDE DEF batch
  <2> QED BY <2>1, HarmlessFlat
<1> HIDE DEF batch
<1> QED BY <1>1, <1>4, <1>6, HarmlessConcat

\* The matrix products over all signals at once.
LEMMA HalfManyExec ==
  ASSUME NEW p, NEW a, ManyServed(a)
  PROVE  Harmless(execIRFFTMany(p, a))
<1> DEFINE half == HalfDims(p.n)
           all(at, k, v) == {Holds(at, k * C * p.batch * Size(half), v)}
           column == Along("column", Signal(half))
           parts   == all(a["buffer_out"], 2, Along("parts", column))
           columns == all(a["buffer_in"], 1, column)
           y       == Strided(p, a["output"], R, Result(p.n))
<1>1. PICK r1, r2, r3 : execIRFFTMany(p, a) =
                        Stage(r1, parts) \o Stage(r2, columns) \o Stage(r3, y)
  BY DEF execIRFFTMany
<1>2. Spares(parts) /\ Spares(columns) /\ Spares(y)
  BY SparesHolds, SparesSignals DEF ManyServed, Has
<1> HIDE DEF parts, columns, y
<1> QED BY <1>1, <1>2, HarmlessStage, HarmlessConcat

\* Execution of a two-dimensional transform to real numbers.
LEMMA HalfExec2d ==
  ASSUME NEW p, ~ p.inPlace, p.batch \in Nat
  PROVE  Harmless(execIRFFT2d(p))
<1> DEFINE a  == configureIRFFT2dWorkspaceAddrs(p)
           y  == Result(p.n)
           in == a[IF BelowHalf(p) THEN "input_pad" ELSE "input"]
           s1 == When(~ (p.inDense /\ WithinHalf(p)),
                      CopyIn(p, a["input"], C, HalfTrimmed(p)))
           s2 == When(BelowHalf(p), Padding2d(p, a))
           s3 == execIRFFTTwoLevel(p, a, in)
           s4 == Rescale(p, a["output"], R, y)
           s5 == CopyOut(p, a["output"], R, Scaled(p, y))
<1>1. CASE p.strategy = "many"
  <2>1. ManyServed(a)
    BY <1>1, HalfAddrs2d
  <2>2. execIRFFT2d(p) = execIRFFTMany(p, a)
                         \o RescaleStrided(p, a["output"], R, y)
    BY <1>1 DEF execIRFFT2d
  <2> HIDE DEF a, y
  <2>3. Harmless(RescaleStrided(p, a["output"], R, y))
    BY <2>1, SharedSteps DEF ManyServed, Has
  <2> QED BY <2>1, <2>2, <2>3, HalfManyExec, HarmlessConcat
<1>2. CASE p.strategy # "many"
  <2>1. /\ Has(a, "buf") /\ Has(a, "output") /\ Has(a, "buffer_out")
        /\ ~ (p.inDense /\ WithinHalf(p)) => Has(a, "input")
        /\ BelowHalf(p) => Has(a, "input_pad")
    BY <1>2, HalfAddrs2d
  <2>2. execIRFFT2d(p) = s1 \o s2 \o s3 \o s4 \o s5
    BY <1>2 DEF execIRFFT2d
  <2> HIDE DEF a, y, in
  <2>3. Harmless(s1) /\ Harmless(s3)
    BY <2>1, SharedSteps, HalfTwoLevelExec, HarmlessWhen DEF Has
  <2>4. Harmless(s2)
    <3>1. BelowHalf(p) => Harmless(Padding2d(p, a))
      <4> DEFINE known == \E i \in 1 .. 2 : Half(p.n[i]) > p.inembed[i]
                 from  == IF known THEN a["input"] ELSE Unset
                 to    == IF known THEN a["input_pad"] ELSE Unset
      <4>1. BelowHalf(p) => Apart(to)
        BY <2>1, ApartPlaces DEF Has
      <4>2. Padding2d(p, a) = Fit(p, from, HalfTrimmed(p), to,
                                  HalfDims(p.n), C)
        BY DEF Padding2d
      <4> HIDE DEF from, to
      <4> QED BY <4>1, <4>2, SharedSteps
    <3> QED BY <3>1, HarmlessWhen
  <2>5. Harmless(s4) /\ Harmless(s5)
    BY <2>1, SharedSteps, SharedCopyOut DEF Has
  <2> HIDE DEF s1, s2, s3, s4, s5
  <2> QED BY <2>2, <2>3, <2>4, <2>5, HarmlessConcat
<1> QED BY <1>1, <1>2

-----------------------------------------------------------------------------
(* Every plan that is made.                                                *)

\* What mluOpMakeFFTPlanMany settles, and later calls go by.
Settled == {"kind", "rank", "n", "inembed", "batch", "strategy", "prime",
            "bluestein", "bluesteinRow", "bluesteinColumn"}

IsTransform(p) ==
  /\ Settled \subseteq DOMAIN p
  /\ p.kind \in {"c2c", "r2c", "c2r"} /\ p.rank \in 1 .. 2
  /\ p.n \in Dims(p.rank) /\ p.inembed \in Dims(p.rank) /\ p.batch \in Nat
  /\ p.rank = 1 /\ p.prime => p.strategy \in MatmulStrategies
  /\ p.bluesteinRow \/ p.bluesteinColumn => p.bluestein

\* No kernel of an execution that is not in place writes to the input.
LEMMA ExecutedIsHarmless ==
  ASSUME NEW p, IsTransform(p), ~ p.inPlace
  PROVE  Harmless(Executed(p))
<1>1. CASE p.kind = "c2c"
  <2>1. CASE p.rank = 1
    <3>1. MatmulPath(p) => p.strategy \in MatmulStrategies
      BY <2>1 DEF MatmulPath, IsTransform
    <3>2. Harmless(execFFT1d(p))
      BY <3>1, MatmulExec, ButterflyExec DEF execFFT1d
    <3> QED BY <1>1, <2>1, <3>2 DEF Executed, C2CExec
  <2>2. CASE p.rank = 2
    <3>1. Harmless(execFFT2d(p))
      BY Exec2d DEF IsTransform
    <3> QED BY <1>1, <2>2, <3>1 DEF Executed, C2CExec
  <2> QED BY <2>1, <2>2 DEF IsTransform
<1>2. CASE p.kind = "r2c"
  <2>1. CASE p.rank = 1
    <3>1. p.prime => Harmless(execRFFTMatmul1d(p))
      BY <2>1, RealMatmulExec DEF IsTransform
    <3>2. Harmless(execRFFTButterfly1d(p))
      BY RealButterflyExec
    <3> QED BY <1>2, <2>1, <3>1, <3>2 DEF Executed, R2CExec
  <2>2. CASE p.rank = 2
    <3>1. Harmless(execRFFT2d(p))
      BY RealExec2d DEF IsTransform
    <3> QED BY <1>2, <2>2, <3>1 DEF Executed, R2CExec
  <2> QED BY <2>1, <2>2 DEF IsTransform
<1>3. CASE p.kind = "c2r"
  <2>1. CASE p.rank = 1
    <3>1. p.prime => Harmless(execIRFFTMatmul1d(p))
      BY <2>1, HalfMatmulExec DEF IsTransform
    <3>2. Harmless(execIRFFTButterfly1d(p))
      BY <2>1, HalfButterflyExec DEF IsTransform
    <3> QED BY <1>3, <2>1, <3>1, <3>2 DEF Executed, C2RExec
  <2>2. CASE p.rank = 2
    <3>1. Harmless(execIRFFT2d(p))
      BY HalfExec2d DEF IsTransform
    <3> QED BY <1>3, <2>2, <3>1 DEF Executed, C2RExec
  <2> QED BY <2>1, <2>2 DEF IsTransform
<1> QED BY <1>1, <1>2, <1>3 DEF IsTransform

\* What is settled comes from the call, the tensors and the way chosen.
LEMMA MadeSettles ==
  ASSUME NEW rank, NEW kind, NEW t \in Tensors(rank), NEW way \in AnyWay
  PROVE  LET p == Made(rank, kind, t, way)
         IN  /\ Settled \subseteq DOMAIN p
             /\ p.rank = rank /\ p.kind = kind
             /\ p.n = t.n /\ p.inembed = t.inembed /\ p.batch = t.batch
             /\ p.strategy = way.strategy /\ p.prime = way.prime
             /\ p.bluestein = way.bluestein
             /\ p.bluesteinRow = way.bluesteinRow
             /\ p.bluesteinColumn = way.bluesteinColumn
<1> DEFINE p == Made(rank, kind, t, way)
<1>1. DOMAIN way = {"strategy", "prime", "bluestein", "bluesteinRow",
                    "bluesteinColumn", "batchInner"}
  BY DEF AnyWay
<1>2. DOMAIN t = {"n", "inembed", "batch", "inDense", "outDense"}
  BY DEF Tensors
<1>3. /\ DOMAIN way \cup DOMAIN t \cup {"rank", "kind"} \subseteq DOMAIN p
      /\ \A x \in DOMAIN way : p[x] = way[x]
      /\ \A x \in DOMAIN t : p[x] = t[x]
      /\ p.rank = rank /\ p.kind = kind
  BY MadeFields
<1> HIDE DEF p
<1>4. Settled \subseteq DOMAIN p
  BY <1>1, <1>2, <1>3 DEF Settled
<1>5. /\ p.strategy = way.strategy /\ p.prime = way.prime
      /\ p.bluestein = way.bluestein /\ p.bluesteinRow = way.bluesteinRow
      /\ p.bluesteinColumn = way.bluesteinColumn
      /\ p.n = t.n /\ p.inembed = t.inembed /\ p.batch = t.batch
  BY <1>1, <1>2, <1>3
<1> QED BY <1>3, <1>4, <1>5 DEF p

\* Whatever is made can be executed.
LEMMA MadeIsTransform ==
  ASSUME NEW rank \in 1 .. 2, NEW kind \in {"c2c", "r2c", "c2r"},
         NEW t \in Tensors(rank), NEW way \in AnyWay,
         \/ rank = 1 /\ way \in Ways1d(kind, t)
         \/ rank = 2 /\ way \in Ways2d(kind, t)
  PROVE  IsTransform(Made(rank, kind, t, way))
<1>1. t.n \in Dims(rank) /\ t.inembed \in Dims(rank) /\ t.batch \in Nat
  <2>1. /\ t.n \in [1 .. rank -> Lengths] /\ t.inembed \in [1 .. rank -> Embeds]
        /\ t.batch \in Batches
    BY DEF Tensors
  <2> QED BY <2>1, PlanAssumption DEF Dims
<1>2. /\ rank = 1 /\ way.prime => way.strategy \in MatmulStrategies
      /\ way.bluesteinRow \/ way.bluesteinColumn => way.bluestein
  <2>1. Suits1d(kind, t, way) \/ (rank = 2 /\ Suits2d(kind, t, way))
    BY WaysSuit
  <2>2. CASE Suits1d(kind, t, way)
    BY <2>2 DEF Suits1d
  <2>3. CASE rank = 2 /\ Suits2d(kind, t, way)
    <3>1. way.bluesteinRow \/ way.bluesteinColumn => way.bluestein
      BY <2>3 DEF Suits2d
    <3>2. rank # 1
      BY <2>3
    <3> QED BY <3>1, <3>2
  <2> QED BY <2>1, <2>2, <2>3
<1> DEFINE p == Made(rank, kind, t, way)
<1>3. /\ Settled \subseteq DOMAIN p
      /\ p.rank = rank /\ p.kind = kind
      /\ p.n = t.n /\ p.inembed = t.inembed /\ p.batch = t.batch
      /\ p.strategy = way.strategy /\ p.prime = way.prime
      /\ p.bluestein = way.bluestein
      /\ p.bluesteinRow = way.bluesteinRow
      /\ p.bluesteinColumn = way.bluesteinColumn
  BY MadeSettles
<1> HIDE DEF p
<1>4. IsTransform(p)
  BY <1>1, <1>2, <1>3 DEF IsTransform
<1> QED BY <1>4 DEF p

-----------------------------------------------------------------------------
(* The input of a transform.                                               *)

\* Its regions lie in the space of the caller's input.
LEMMA GivenIsInput ==
  ASSUME NEW p, NEW unit, NEW h \in GivenInput(p, unit)
  PROVE  h.at.in = "input"
<1>1. Input(p).in = "input"
  BY DEF Input, At
<1>2. ASSUME NEW k, NEW len, NEW v
      PROVE  /\ Holds(Move(Input(p), k), len, v).at.in = "input"
             /\ Holds(Input(p), len, v).at.in = "input"
  BY DEF Holds, Region, Move, Input, At
<1>3. CASE p.inDense
  BY <1>2, <1>3 DEF GivenInput, Dense
<1>4. CASE ~ p.inDense
  BY <1>2, <1>4 DEF GivenInput, Strided
<1> QED BY <1>3, <1>4

\* From the call of an execution on, the input is there, and no kernel that
\* waits writes to it.
InputInv ==
  /\ phase \in {"made", "reserved", "executed", "refused"} => IsTransform(plan)
  /\ phase = "executed" /\ ~ plan.inPlace =>
       GivenInput(plan, InUnit(plan)) \subseteq cells /\ Harmless(queue)

\* No call and no kernel breaks this: ExecFFT enqueues harmless kernels only,
\* and what runs leaves the input alone.
LEMMA InputStep == InputInv /\ [Next]_vars => InputInv'
<1> SUFFICES ASSUME InputInv, [Next]_vars PROVE InputInv'
  OBVIOUS
<1>1. CASE CreateFFTPlan
  BY <1>1 DEF CreateFFTPlan, InputInv
<1>2. CASE MakeFFTPlanMany
  <2>1. PICK rank \in 1 .. 2, kind \in {"c2c", "r2c", "c2r"} :
          \E t \in Tensors(rank) :
          \E way \in IF rank = 1 THEN Ways1d(kind, t) ELSE Ways2d(kind, t) :
            plan' = Made(rank, kind, t, way)
    BY <1>2 DEF MakeFFTPlanMany
  <2>2. IsTransform(plan')
    <3>1. PICK t \in Tensors(rank) :
            \E way \in IF rank = 1 THEN Ways1d(kind, t) ELSE Ways2d(kind, t) :
              plan' = Made(rank, kind, t, way)
      BY <2>1
    <3>2. PICK way \in AnyWay :
            /\ plan' = Made(rank, kind, t, way)
            /\ \/ rank = 1 /\ way \in Ways1d(kind, t)
               \/ rank = 2 /\ way \in Ways2d(kind, t)
      BY <3>1, WaysAreTyped
    <3> QED BY <3>2, MadeIsTransform
  <2>3. phase' = "made"
    BY <1>2 DEF MakeFFTPlanMany
  <2>4. IsTransform(plan)'
    BY <2>2
  <2> QED BY <2>3, <2>4 DEF InputInv
<1>3. CASE SetFFTReserveArea
  BY <1>3 DEF SetFFTReserveArea, InputInv
<1>4. CASE ExecFFT
  <2>1. PICK given : plan' = With(plan, given)
    BY <1>4 DEF ExecFFT
  <2>2. IsTransform(plan)
    BY <1>4 DEF ExecFFT, InputInv
  <2>3. /\ DOMAIN plan \subseteq DOMAIN plan'
        /\ \A x \in DOMAIN plan : plan'[x] = plan[x]
    BY <2>1, Merge
  <2>4. Settled \subseteq DOMAIN plan'
    BY <2>2, <2>3 DEF IsTransform
  <2>5. \A x \in Settled : plan'[x] = plan[x]
    BY <2>2, <2>3 DEF IsTransform
  <2>6. IsTransform(plan')
    BY <2>2, <2>4, <2>5 DEF IsTransform, Settled
  <2>7. /\ queue' = Executed(plan')
        /\ GivenInput(plan', InUnit(plan')) \subseteq cells'
        /\ phase' = "executed"
    BY <1>4 DEF ExecFFT
  <2>8. ~ plan'.inPlace => Harmless(queue')
    BY <2>6, <2>7, ExecutedIsHarmless
  <2>9. /\ IsTransform(plan)'
        /\ (GivenInput(plan, InUnit(plan)) \subseteq cells)'
        /\ ~ plan'.inPlace => Harmless(queue)'
    BY <2>6, <2>7, <2>8
  <2> QED BY <2>7, <2>9 DEF InputInv
<1>5. CASE RefuseFFT
  BY <1>5 DEF RefuseFFT, InputInv
<1>6. CASE RunStage
  <2>1. UNCHANGED <<plan, phase>> /\ queue # <<>> /\ queue' = Tail(queue)
    BY <1>6 DEF RunStage
  <2>2. ASSUME phase = "executed", ~ plan.inPlace
        PROVE  /\ GivenInput(plan, InUnit(plan)) \subseteq cells'
               /\ Harmless(queue')
    <3>1. /\ GivenInput(plan, InUnit(plan)) \subseteq cells
          /\ Harmless(queue)
      BY <2>2 DEF InputInv
    <3>2. Spares(Head(queue).writes) /\ Harmless(Tail(queue))
      BY <2>1, <3>1, HarmlessTail
    <3>3. ASSUME NEW h \in GivenInput(plan, InUnit(plan)),
                 NEW w \in Head(queue).writes
          PROVE  ~ Overlap(h.at, w.at)
      <4>1. h.at.in = "input"
        BY GivenIsInput
      <4>2. w.at.in # "input"
        BY <3>2 DEF Spares
      <4> QED BY <4>1, <4>2 DEF Overlap
    <3>4. GivenInput(plan, InUnit(plan)) \subseteq cells'
      BY <1>6, <3>1, <3>3 DEF RunStage
    <3> QED BY <2>1, <3>2, <3>4
  <2>3. InputInv' <=>
          /\ phase \in {"made", "reserved", "executed", "refused"} =>
               IsTransform(plan)
          /\ phase = "executed" /\ ~ plan.inPlace =>
               /\ GivenInput(plan, InUnit(plan)) \subseteq cells'
               /\ Harmless(queue')
    BY <2>1 DEF InputInv, InUnit
  <2> QED BY <2>2, <2>3 DEF InputInv
<1>7. CASE DestroyFFTPlan
  BY <1>7 DEF DestroyFFTPlan, InputInv
<1>8. CASE UNCHANGED vars
  BY <1>8 DEF vars, InputInv, InUnit
<1> QED BY <1>1, <1>2, <1>3, <1>4, <1>5, <1>6, <1>7, <1>8 DEF Next

\* A transform that is not in place leaves the caller's input as it was: the
\* addresses that the configure functions lay out are those of the workspace
\* and of the caller's output, and every kernel of the exec functions writes
\* to those only.
THEOREM CallerInputIsKept == Spec => []InputKept
<1>1. Init => InputInv
  BY DEF Init, InputInv
<1>2. InputInv => InputKept
  BY DEF InputInv, InputKept
<1> QED BY <1>1, <1>2, InputStep, PTL DEF Spec
=============================================================================

-------------------------------- MODULE FFTPlans --------------------------------
(***************************************************************************)
(* One FFT plan from mluOpCreateFFTPlan to mluOpDestroyFFTPlan             *)
(* (kernels/fft/fft.cpp), and what the kernels it enqueues do to memory.   *)
(* The host calls append stages to the queue of the handle; the device     *)
(* runs them in order.  The caller synchronizes before his next call.      *)
(***************************************************************************)
EXTENDS IRFFT

CONSTANTS
  Lengths,   \* lengths of a transform in one dimension
  Embeds,    \* and of the caller's input
  Batches    \* signals in a batch

ASSUME PlanAssumption ==
  /\ Lengths \subseteq Nat \ {0}
  /\ Embeds \subseteq Nat \ {0}
  /\ Batches \subseteq Nat \ {0}

VARIABLES
  plan,      \* the fields of mluOpFFTStruct, and the arguments of the call
  phase,     \* the last call that was made with it
  queue,     \* stages enqueued and not yet run
  cells,     \* what each region written so far holds
  host       \* tables of the plan that are allocated on the host
vars == <<plan, phase, queue, cells, host>>

-----------------------------------------------------------------------------
(* The choices of mluOpMakeFFTPlanMany.  Lengths stand for their kind: of  *)
(* a length that is not 1 every way to transform it is considered, as the  *)
(* factors, the type and the device may choose each.                       *)
Way(strategy, prime) ==
  [strategy |-> strategy, prime |-> prime, bluestein |-> FALSE,
   bluesteinRow |-> FALSE, bluesteinColumn |-> FALSE, batchInner |-> FALSE]

\* The extent of the caller's input that matches a transform of n.
Matching(kind, n) == IF kind = "c2r" THEN HalfDims(n) ELSE n

Inner(kind, t) == /\ ~ t.inDense /\ ~ t.outDense
                  /\ t.inembed = Matching(kind, t.n)

Ways1d(kind, t) ==
  LET byLength(w) ==
        {w} \cup IF kind = "c2c" /\ Inner(kind, t)
                 THEN {[w EXCEPT !.batchInner = TRUE]} ELSE {}
  IN {Way("matmul", TRUE)}
     \cup IF t.n = <<1>> THEN {}
          ELSE {Way("cooley", TRUE), Way("stockham", TRUE)}
               \cup byLength(Way("two level", FALSE))
               \cup IF kind # "c2c" THEN {}
                    ELSE byLength([Way("matmul", TRUE) EXCEPT
                                     !.bluestein = TRUE])

\* Which dimensions, <<column, row>>, have a length for Bluestein's algorithm.
Flagged(kind, t) ==
  {cr \in BOOLEAN \X BOOLEAN :
     \A i \in 1 .. 2 : cr[i] => kind = "c2c" /\ t.n[i] # 1}

\* The strategy is chosen by the layout alone, whatever the flags.
Ways2d(kind, t) ==
  LET by(strategy, inner) ==
        {[Way(strategy, cr[1] \/ cr[2]) EXCEPT
            !.bluestein = cr[1] \/ cr[2], !.bluesteinColumn = cr[1],
            !.bluesteinRow = cr[2], !.batchInner = inner] :
           cr \in Flagged(kind, t)}
  IN by("two level", FALSE)
     \cup IF Inner(kind, t) THEN by("many", TRUE) ELSE {}

Tensors(rank) ==
  [n : [1 .. rank -> Lengths], inembed : [1 .. rank -> Embeds],
   batch : Batches, inDense : BOOLEAN, outDense : BOOLEAN]

\* The last dimension of the output must match; the first is taken to.
Made(rank, kind, t, way) ==
  LET p == With(With(way, t),
           [rank |-> rank, kind |-> kind, L |-> t.n[1],
            onembed |-> IF kind = "r2c" THEN HalfDims(t.n) ELSE t.n])
  IN With(p, [internal |-> InternalSize(p)])

Sizes(p) == CASE p.kind = "c2c" -> C2CSizes(p)
              [] p.kind = "r2c" -> R2CSizes(p)
              [] p.kind = "c2r" -> C2RSizes(p)
InUnit(p)  == IF p.kind = "r2c" THEN R ELSE C
OutUnit(p) == IF p.kind = "c2r" THEN R ELSE C

-----------------------------------------------------------------------------
(* Tables on the host: what the Make functions compute, and what the       *)
(* destroy functions free.                                                 *)
Factors == {"factors", "factors_2d"}   \* allocated by mluOpCreateFFTPlan

\* mutant: the tables of a forward transform for every kind
MutTwoLevelTables(p) ==
  {"twiddles", "dft_matrix", "twiddles_2d", "dft_matrix_2d"}

TwoLevelTables(p) ==
  {"twiddles", "dft_matrix"}
  \cup (CASE p.kind = "c2c" -> {"twiddles_inv", "idft_matrix", "twiddles_2d",
                                "dft_matrix_2d", "twiddles_inv_2d",
                                "idft_matrix_2d"}
          [] p.kind = "r2c" -> {"twiddles_2d", "dft_matrix_2d"}
          [] p.kind = "c2r" -> {"twiddles_inv_2d", "idft_matrix_2d"})

ComputedTables(p) ==
  CASE p.rank = 2 /\ p.strategy = "many" ->
         {"dft_matrix", "dft_matrix_2d"}
         \cup IF p.kind = "c2c" THEN {"idft_matrix", "idft_matrix_2d"} ELSE {}
    [] p.rank = 2 /\ p.strategy # "many" -> TwoLevelTables(p) \cup Factors
    [] p.rank = 1 /\ p.prime /\ ~ p.bluestein -> {}
    [] p.rank = 1 /\ ~ (p.prime /\ ~ p.bluestein) ->
         {"factors", "twiddles", "dft_matrix"}
         \cup IF p.kind = "c2c" THEN {"twiddles_inv", "idft_matrix"} ELSE {}

\* What is freed of a plan in one dimension goes by prime alone.
destroyRFFT1dReserveArea(p) ==
  IF p.prime THEN {} ELSE {"factors", "twiddles", "dft_matrix"}

\* mutant: the list of destroyFFT1dReserveArea
MutDestroyIRFFT1dReserveArea(p) ==
  IF p.prime THEN {} ELSE {"factors", "twiddles", "dft_matrix",
                           "twiddles_inv", "idft_matrix"}

destroyIRFFT1dReserveArea(p) ==
  IF p.prime THEN {} ELSE {"factors", "twiddles", "dft_matrix"}

destroyFFT1dReserveArea(p) ==
  IF p.prime THEN {} ELSE {"factors", "twiddles", "dft_matrix",
                           "twiddles_inv", "idft_matrix"}

\* mutant: the inverse tables along the rows are forgotten
MutDestroyFFT2dReserveArea(p) ==
  {"factors", "factors_2d", "twiddles", "dft_matrix"}
  \cup (IF p.kind # "c2r" THEN {"twiddles_2d", "dft_matrix_2d"} ELSE {})
  \cup (IF p.kind # "r2c" THEN {"twiddles_inv_2d", "idft_matrix_2d"} ELSE {})

destroyFFT2dReserveArea(p) ==
  CASE p.strategy = "two level" ->
         {"factors", "factors_2d", "twiddles", "dft_matrix"}
         \cup (CASE p.kind = "r2c" -> {"twiddles_2d", "dft_matrix_2d"}
                 [] p.kind = "c2r" -> {"twiddles_inv_2d", "idft_matrix_2d"}
                 [] p.kind = "c2c" -> {"twiddles_2d", "dft_matrix_2d",
                                       "twiddles_inv_2d", "twiddles_inv",
                                       "idft_matrix_2d", "idft_matrix"})
    [] p.strategy = "many" ->
         {"dft_matrix", "dft_matrix_2d"}
         \cup IF p.kind = "c2c" THEN {"idft_matrix", "idft_matrix_2d"} ELSE {}

\* The switch of mluOpDestroyFFTPlan; a plan never made has rank 0.
DestroyedTables(p) ==
  CASE p.rank = 0 -> {}
    [] p.rank = 1 /\ p.kind = "r2c" -> destroyRFFT1dReserveArea(p)
    [] p.rank = 1 /\ p.kind = "c2c" -> destroyFFT1dReserveArea(p)
    [] p.rank = 1 /\ p.kind = "c2r" -> destroyIRFFT1dReserveArea(p)
    [] p.rank = 2 -> destroyFFT2dReserveArea(p)

OnHost(names) == {Holds(At("host", 0), 0, Value(t, <<>>)) : t \in names}

-----------------------------------------------------------------------------
NoPlan == [rank |-> 0]

Init == /\ plan = NoPlan /\ phase = "none"
        /\ queue = <<>> /\ cells = {} /\ host = {}

CreateFFTPlan ==
  /\ phase = "none"
  /\ phase' = "created" /\ host' = Factors
  /\ UNCHANGED <<plan, queue, cells>>

MakeFFTPlanMany ==
  /\ phase = "created" /\ phase' = "made"
  /\ \E rank \in 1 .. 2, kind \in {"c2c", "r2c", "c2r"} :
     \E t \in Tensors(rank) :
     \E way \in IF rank = 1 THEN Ways1d(kind, t) ELSE Ways2d(kind, t) :
        plan' = Made(rank, kind, t, way)
  /\ host' = host \cup ComputedTables(plan')
  /\ cells' = OnHost(ComputedTables(plan'))
  /\ UNCHANGED queue

SetFFTReserveArea ==
  /\ phase = "made" /\ phase' = "reserved"
  /\ queue' = CASE plan.kind = "c2c" -> C2CReserve(plan)
                [] plan.kind = "r2c" -> R2CReserve(plan)
                [] plan.kind = "c2r" -> C2RReserve(plan)
  /\ UNCHANGED <<plan, cells, host>>

\* mluOpExecFFT refuses a 2D input whose rows are longer than the transform.
Refused(p) == p.rank = 2 /\ p.inembed[2] > Matching(p.kind, p.n)[2]

\* The distance of dense signals, in numbers of the unit.
Distance(unit, dims) == unit * Size(dims)

\* What it asks of a call in place.  It only logs an error when this is not
\* so, and then executes: callers are taken to keep to it.  Signals that are
\* not dense may be as far apart as that takes.
InPlaceFits(p) ==
  p.inDense /\ p.outDense =>
    IF p.kind = "c2r"
    THEN Distance(C, p.inembed) <= Distance(R, p.onembed)
    ELSE Distance(InUnit(p), p.inembed) >= Distance(C, p.onembed)

Executed(p) ==
  CASE p.kind = "c2c" -> C2CExec(p)
    [] p.kind = "r2c" -> R2CExec(p)
    [] p.kind = "c2r" -> C2RExec(p)

ExecFFT ==
  /\ phase = "reserved" /\ queue = <<>> /\ ~ Refused(plan)
  /\ phase' = "executed"
  /\ \E scale, inPlace \in BOOLEAN :
     \E dir \in IF plan.kind = "c2c" THEN {"forward", "backward"}
                ELSE IF plan.kind = "r2c" THEN {"forward"} ELSE {"backward"} :
       /\ inPlace => InPlaceFits(plan)
       /\ plan' = With(plan, [scale |-> scale, inPlace |-> inPlace, dir |-> dir])
  /\ queue' = Executed(plan')
  /\ cells' = cells \cup GivenInput(plan', InUnit(plan'))
  /\ UNCHANGED host

RefuseFFT ==
  /\ phase = "reserved" /\ queue = <<>> /\ Refused(plan)
  /\ phase' = "refused"
  /\ UNCHANGED <<plan, queue, cells, host>>

\* The device runs the stage at the head of the queue.
RunStage ==
  /\ queue # <<>>
  /\ queue' = Tail(queue)
  /\ cells' = {c \in cells : \A w \in Head(queue).writes :
                               ~ Overlap(c.at, w.at)}
              \cup Head(queue).writes
  /\ UNCHANGED <<plan, phase, host>>

DestroyFFTPlan ==
  /\ phase \in {"created", "made", "reserved", "executed", "refused"}
  /\ queue = <<>>
  /\ phase' = "destroyed"
  /\ host' = host \ DestroyedTables(plan)
  /\ cells' = cells \ OnHost(host \ host')
  /\ UNCHANGED <<plan, queue>>

Next == \/ CreateFFTPlan \/ MakeFFTPlanMany \/ SetFFTReserveArea
        \/ ExecFFT \/ RefuseFFT \/ RunStage \/ DestroyFFTPlan
Spec == Init /\ [][Next]_vars

-----------------------------------------------------------------------------
(* Plans that go wrong, each by itself.                                    *)
\* Bluestein's chirps lie over the padded input in 2D, and in 1D the padding
\* goes by prime to addresses that this branch never sets.
BluesteinPads(p) == p.bluestein /\ Longer(p)
\* padRFFT2dContiguousInput is never called.
NeverPads(p) ==
  p.rank = 2 /\ p.kind = "r2c" /\ p.strategy # "many" /\ Longer(p)
\* padIRFFT2dContiguousInput compares half of the first dimension too, and
\* takes addresses that this branch never sets.
PadsNowhere(p) ==
  /\ p.rank = 2 /\ p.kind = "c2r" /\ p.strategy # "many" /\ BelowHalf(p)
  /\ \A i \in 1 .. 2 : Half(p.n[i]) <= p.inembed[i]
\* mluOpAllocateC2R1D leaves no room for a copy of a longer input, unless
\* its length differs from the one of the output.
NoRoomForCopy(p) ==
  /\ p.rank = 1 /\ p.kind = "c2r" /\ ~ p.prime
  /\ p.inDense /\ ~ WithinHalf(p) /\ p.n = p.inembed

Misplaced(p) == BluesteinPads(p) \/ NeverPads(p) \/ PadsNowhere(p)

Touched == Head(queue).reads \cup Head(queue).writes
UserExtent(p, space) ==
  LET given == {h.at : h \in GivenInput(p, InUnit(p))
                             \cup GivenOutput(p, OutUnit(p),
                                              Result(p.onembed))}
  IN {r.hi : r \in {x \in given : x.in = space}}
Within(p, r) ==
  /\ 0 <= r.lo
  /\ CASE r.in = "workspace" -> r.hi <= Sizes(p).workspace
       [] r.in = "reserve"   -> r.hi <= Sizes(p).reserve
       [] r.in = "host"      -> TRUE
       [] r.in = "unset"     -> FALSE
       [] OTHER -> \E hi \in UserExtent(p, r.in) : r.hi <= hi

Fits == queue # <<>> => \A h \in Touched : Within(plan, h.at)
Written == queue # <<>> => Head(queue).reads \subseteq cells

\* Every kernel stays inside the workspace and the reserve area of the sizes
\* that mluOpMakeFFTPlanMany announced, and inside the caller's tensors: the
\* Allocate functions and the configure functions, which are written apart,
\* agree on the buffers of every plan (but one listed above).
WorkspaceHolds ==
  phase # "none" /\ plan # NoPlan =>
    Misplaced(plan) \/ NoRoomForCopy(plan) \/ Fits

\* Every region a kernel reads holds, when its turn comes, what it expects:
\* no buffer, table or part of the input is read before it is written or
\* after another kernel wrote over it.
ReadsWereWritten == plan # NoPlan /\ ~ Misplaced(plan) => Written

\* When the queue is empty the output holds the transform of the whole
\* padded or trimmed input, multiplied once by the scale factor, in the
\* caller's layout.
ResultDelivered ==
  phase = "executed" /\ queue = <<>> /\ ~ Misplaced(plan) =>
    GivenOutput(plan, OutUnit(plan), Scaled(plan, Result(plan.onembed)))
      \subseteq cells

\* A transform that is not in place leaves the caller's input as it was.
InputKept ==
  phase = "executed" /\ ~ plan.inPlace =>
    GivenInput(plan, InUnit(plan)) \subseteq cells

\* What mluOpDestroyFFTPlan leaves, against the header: the factors that
\* mluOpCreateFFTPlan allocated where no branch or the wrong one frees them,
\* and the tables of a one-dimensional Bluestein plan, whose prime is set.
Leaked(p) ==
  CASE p.rank = 0 -> Factors
    [] p.rank = 1 /\ ~ p.prime -> {"factors_2d"}
    [] p.rank = 1 /\ p.prime /\ ~ p.bluestein -> Factors
    [] p.rank = 1 /\ p.prime /\ p.bluestein ->
         Factors \cup {"twiddles", "dft_matrix", "twiddles_inv", "idft_matrix"}
    [] p.rank = 2 -> IF p.strategy = "many" THEN Factors ELSE {}

\* Destroying a plan leaves exactly that, and frees all else that was allocated:
\* the destroy functions go by rank, type and prime, the Make functions by the
\* strategy, and the flags in between are set by others.
TablesFreed == phase = "destroyed" => host = Leaked(plan)

\* From the making to the end, all that mluOpDestroyFFTPlan would free is
\* allocated: it gives no pointer that was never set to cnrtFreeHost.
FreesItsOwn ==
  plan # NoPlan /\ phase # "destroyed" => DestroyedTables(plan) \subseteq host

\* The header's promise on padding, for every plan.
InputIsFitted == Written

\* The header's promise on the size of the workspace, for every plan whose
\* addresses are set.
AnnouncedSuffices ==
  plan # NoPlan /\ ~ Misplaced(plan) => Fits
=============================================================================

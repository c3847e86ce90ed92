------------------------------ MODULE FFTMemory ------------------------------
(***************************************************************************)
(* What an execution of an FFT plan does to device memory.  The host code  *)
(* in kernels/fft lays out buffers in the workspace and in the reserve     *)
(* area, then enqueues kernels that read some regions and write others.    *)
(* Sizes count real numbers; what a region holds is a value with a name    *)
(* and the dimensions of one signal of the batch.                          *)
(***************************************************************************)
EXTENDS Integers, Sequences, SequencesExt

R == 1                    \* size of a real number
C == 2                    \* and of a complex one (COMPLEX)
Half(n) == n \div 2 + 1   \* FFT_HALF

-----------------------------------------------------------------------------
(* Addresses, and regions of a space: the user's buffers, "workspace",     *)
(* "reserve", a table on the host, or "unset" for a pointer never assigned.*)
At(space, k)   == [in |-> space, at |-> k]
Unset          == At("unset", 0)
Move(a, k)     == [a EXCEPT !.at = @ + k]
Region(a, len) == [in |-> a.in, lo |-> a.at, hi |-> a.at + len]
Overlap(r, s)  == r.in = s.in /\ r.lo < s.hi /\ s.lo < r.hi

(* Buffers laid out one after the other, and backwards from an end; what   *)
(* is not needed is not laid out.                                          *)
Buffer(name, len) == <<[name |-> name, len |-> len]>>
When(cond, seq)   == IF cond THEN seq ELSE <<>>
Length(buffers)   == FoldLeft(LAMBDA sum, b : sum + b.len, 0, buffers)

Names(buffers) == {buffers[i].name : i \in DOMAIN buffers}
Place(buffers, name) ==
  CHOOSE i \in DOMAIN buffers : buffers[i].name = name

Forward(start, buffers) ==
  [name \in Names(buffers) |->
     Move(start, Length(SubSeq(buffers, 1, Place(buffers, name) - 1)))]

Backward(end, buffers) ==
  [name \in Names(buffers) |->
     Move(end, - Length(SubSeq(buffers, 1, Place(buffers, name))))]

\* p with the fields of q it has not.
With(p, q) ==
  [f \in DOMAIN p \cup DOMAIN q |-> IF f \in DOMAIN p THEN p[f] ELSE q[f]]

-----------------------------------------------------------------------------
(* Values.  "scaled" counts the multiplications by a scale_factor that is  *)
(* not 1.                                                                  *)
Value(name, dims)     == [is |-> name, dims |-> dims, scaled |-> 0]
Scaled(p, v)          == IF p.scale THEN [v EXCEPT !.scaled = @ + 1] ELSE v
Holds(a, len, v)      == [at |-> Region(a, len), value |-> v]
Stage(reads, writes)  == <<[reads |-> reads, writes |-> writes]>>

-----------------------------------------------------------------------------
(* Steps that the plans share.  A tensor of the caller is dense, or laid    *)
(* out by his strides; the kernels want dense signals of the plan's length.*)
\* Transforms have one dimension or two.
Size(dims) == IF 2 \in DOMAIN dims THEN dims[1] * dims[2] ELSE dims[1]
Signal(dims) == Value("x", dims)
Result(dims) == Value("y", dims)
Input(p)     == At("input", 0)
Output(p)    == At(IF p.inPlace THEN "input" ELSE "output", 0)
Workspace    == At("workspace", 0)
Reserve      == At("reserve", 0)

\* dense signals, one after the other, of numbers of size unit
Dense(p, a, unit, v) ==
  {Holds(Move(a, b * unit * Size(v.dims)), unit * Size(v.dims), v) :
     b \in 0 .. p.batch - 1}
Strided(p, a, unit, v) ==
  {Holds(a, p.batch * unit * Size(v.dims), [v EXCEPT !.is = @ \o " strided"])}

GivenInput(p, unit) ==
  IF p.inDense THEN Dense(p, Input(p), unit, Signal(p.inembed))
  ELSE Strided(p, Input(p), unit, Signal(p.inembed))
GivenOutput(p, unit, v) ==
  IF p.outDense THEN Dense(p, Output(p), unit, v)
  ELSE Strided(p, Output(p), unit, v)

\* mluOpContiguous, of the leading dims of each of the caller's signals
CopyIn(p, to, unit, dims) ==
  Stage(GivenInput(p, unit), Dense(p, to, unit, Signal(dims)))

\* mutant: pads in place
MutFit(p, from, dims, to, n, unit) ==
  Stage(Dense(p, from, unit, Signal(dims)), Dense(p, from, unit, Signal(n)))

\* cnnlPad: zeros behind a shorter signal (or less of a longer one)
Fit(p, from, dims, to, n, unit) ==
  Stage(Dense(p, from, unit, Signal(dims)), Dense(p, to, unit, Signal(n)))

\* cnnlTransform_v2 by the scale factor, in place
Rescale(p, a, unit, v) ==
  When(p.scale, Stage(Dense(p, a, unit, v), Dense(p, a, unit, Scaled(p, v))))

RescaleStrided(p, a, unit, v) ==
  When(p.scale, Stage(Strided(p, a, unit, v),
                      Strided(p, a, unit, Scaled(p, v))))

\* mutant: the caller's strides are ignored
MutCopyOut(p, from, unit, v) ==
  When(~ p.outDense,
       Stage(Dense(p, from, unit, v), Dense(p, Output(p), unit, v)))

\* cnnlCopy_v2 to the strides of the caller
CopyOut(p, from, unit, v) ==
  When(~ p.outDense,
       Stage(Dense(p, from, unit, v), Strided(p, Output(p), unit, v)))

\* A copy of a table from the host, where making the plan put it.
CopyTable(name, to, len) ==
  Stage({Holds(At("host", 0), 0, Value(name, <<>>))},
        {Holds(to, len, Value(name, <<>>))})
CopyTables(buffers) ==
  LET at == Forward(Reserve, buffers)
  IN FlattenSeq([i \in 1 .. Len(buffers) |->
                   CopyTable(buffers[i].name, at[buffers[i].name],
                             buffers[i].len)])
Tables(buffers, names) ==
  LET at == Forward(Reserve, buffers)
  IN {Holds(at[t], buffers[Place(buffers, t)].len, Value(t, <<>>)) :
        t \in names}

Scratch(a, len) == {Holds(a, len, Value("scratch", <<>>))}
=============================================================================

--------------------------------- MODULE IRFFT ---------------------------------
(***************************************************************************)
(* Complex-to-real transforms (kernels/fft/irfft/irfft_host.cpp and the    *)
(* C2R part of fft.cpp).  Of each signal of the input only the first half  *)
(* of the last dimension is read.                                          *)
(***************************************************************************)
EXTENDS RFFT

HalfSignal(p)  == Signal(HalfDims(p.n))
HalfTrimmed(p) == [i \in 1 .. p.rank |->
                     IF HalfDims(p.n)[i] < p.inembed[i] THEN HalfDims(p.n)[i]
                     ELSE p.inembed[i]]
WithinHalf(p)  == p.inembed = HalfTrimmed(p)
BelowHalf(p)   == HalfTrimmed(p) # HalfDims(p.n)

-----------------------------------------------------------------------------
(* The announced sizes: makeIRFFT1dPolicy, mluOpAllocateC2R1D and          *)
(* mluOpAllocateIRFFT2D.                                                   *)
makeIRFFT1dPolicy(p) ==
  LET signals == R * p.batch * p.n[1]
      matmul  == p.strategy = "matmul"
  IN [workspace |->
        Length(When(~ p.inDense, Buffer("in", C * p.batch * p.inembed[1]))
          \o When(p.inembed # HalfDims(p.n),
                  Buffer("pad", C * p.batch * Half(p.n[1])))
          \o When(~ matmul, Buffer("merged", 2 * signals)
                            \o Buffer("transed", 2 * signals)
                            \o Buffer("products", 4 * signals))
          \o When(~ p.outDense, Buffer("out", R * p.batch * p.onembed[1])))
        + p.internal,
      reserve |-> IF matmul THEN C * p.n[1] * Half(p.n[1])
                  ELSE 2 * R * p.L * p.L]

AllocateC2R1D(p) ==
  LET buffer == C * p.batch * p.n[1]
  IN [workspace |->
        Length(Buffer("buf", 2 * buffer)
          \o When(~ (p.inDense /\ Half(p.n[1]) <= p.inembed[1]),
                  Buffer("input", buffer))
          \o When(~ (p.outDense /\ p.n[1] <= p.onembed[1]),
                  Buffer("output", buffer))
          \o When(p.n # p.inembed, Buffer("pad", buffer))),
      reserve |-> FactorTable + 2 * (2 * C * p.n[1]) + 2 * DftTable]

\* mutant: the buffer between the two passes is forgotten
MutAllocateIRFFT2D(p) == AllocateReal2D(p, p.inDense /\ WithinHalf(p), 0)

AllocateIRFFT2D(p) == AllocateReal2D(p, p.inDense /\ WithinHalf(p), 1)

C2RSizes(p) ==
  IF p.rank = 2 THEN AllocateIRFFT2D(p)
  ELSE IF p.prime THEN makeIRFFT1dPolicy(p) ELSE AllocateC2R1D(p)

-----------------------------------------------------------------------------
(* The tables of the reserve area.                                         *)
\* configureIRFFT1dMatmulReserveAddrs
HalfIdftMatrices(p) ==
  IF p.strategy = "matmul" THEN Buffer("dft", C * p.n[1] * Half(p.n[1]))
  ELSE Buffer("dft_re", R * p.L * p.L) \o Buffer("dft_im", R * p.L * p.L)

setIRFFT1dReserveArea(p) ==
  IF p.prime
  THEN Stage({}, Tables(HalfIdftMatrices(p), Names(HalfIdftMatrices(p))))
  ELSE CopyTables(RealTables1d(p, 2 * C * p.n[1]))

-----------------------------------------------------------------------------
(* One dimension (execIRFFT1d).                                            *)
configureIRFFT1dMatmulWorkspaceAddrs(p) ==
  LET signals == R * p.batch * p.n[1]
      half    == C * p.batch * Half(p.n[1])
      matmul  == p.strategy = "matmul"
      front   == Forward(Workspace,
                   When(~ p.inDense,
                        Buffer("input_contiguous",
                               C * p.batch * p.inembed[1]))
                   \o When(p.inembed # HalfDims(p.n),
                           Buffer("input_pad", half))
                   \o When(~ matmul,
                           Buffer("input_transed", half)
                           \o Buffer("input_reversed", 2 * signals - half)
                           \o Buffer("input_merged", 2 * signals)))
      back    == Backward(Move(Workspace, C2RSizes(p).workspace),
                   Buffer("internal", p.internal)
                   \o When(~ p.outDense,
                           Buffer("output_contiguous",
                                  R * p.batch * p.onembed[1]))
                   \o When(~ matmul,
                           Buffer("im_mul_im", signals)
                           \o Buffer("im_mul_re", signals)
                           \o Buffer("re_mul_im", signals)
                           \o Buffer("re_mul_re", signals)))
      dense   == With(front, [input_contiguous |-> Input(p)])
      all     == With(With(back, dense),
                      [input_pad |-> dense["input_contiguous"],
                       output_contiguous |-> Output(p)])
      \* the halves by L take the place of the first two transposed buffers
      by_L    == all["input_transed"]
  IN IF matmul THEN all
     ELSE With(all, [input_re |-> by_L, input_im |-> Move(by_L, signals)])

\* The two real arrays of the whole batch, one after the other, each of len.
Halves(a, len, name) ==
  {Holds(a, len, Value("re " \o name, <<>>)),
   Holds(Move(a, len), len, Value("im " \o name, <<>>))}

\* Transpose to two arrays, reverse the part to mirror, negate its imaginary
\* half, and join it to the transposed half.
mergeIRFFT1dInput(p, a) ==
  LET half   == R * p.batch * Half(p.n[1])
      rest   == R * p.batch * p.n[1] - half
      used   == Scratch(a["internal"], CnnlSpace)
      transed == Halves(a["input_transed"], half, "half")
      reversed(name) == Halves(a["input_reversed"], rest, name)
  IN When(p.strategy # "matmul",
       Stage(Dense(p, a["input_pad"], C, HalfSignal(p)), used \cup transed)
       \o Stage(transed, reversed("reversed"))
       \o Stage(reversed("reversed"), used \cup reversed("mirrored"))
       \o Stage(transed \cup reversed("mirrored"),
                used \cup Halves(a["input_merged"], half + rest, "x")))

transposeIRFFT1dPaddedInput(p, a) ==
  LET signals == R * p.batch * p.n[1]
  IN When(p.strategy = "cooley",
          Stage(Halves(a["input_merged"], signals, "x"),
                Scratch(a["internal"], CnnlSpace)
                \cup Halves(a["input_re"], signals, "by L")))

computeIRFFT1dMatmulResult(p, a) ==
  LET signals == R * p.batch * p.n[1]
      used    == Scratch(a["internal"], CnnlSpace)
      matrix(names) == Tables(HalfIdftMatrices(p), names)
      product(x, w) ==
        Stage({Holds(a[InputOf[x]], signals,
                     Value(x \o " by L", <<>>))} \cup matrix({MatrixOf[w]}),
              used \cup Reals(p, a[ProductOf[x][w]],
                              Scaled(p, Part(p, x \o "*" \o w))))
  IN CASE p.strategy = "matmul" ->
            Stage(Dense(p, a["input_pad"], C, HalfSignal(p))
                  \cup matrix({"dft"}),
                  used \cup Dense(p, a["output_contiguous"], R,
                                  Scaled(p, Result(p.n))))
       [] p.strategy = "cooley" ->
            product("re", "re") \o product("im", "im")
            \o product("re", "im") \o product("im", "re")
       [] p.strategy = "stockham" ->   \* its scale is ignored
            Stage(Halves(a["input_merged"], signals, "x")
                  \cup matrix({"dft_re", "dft_im"}),
                  used \cup {Holds(a["re_mul_re"], 4 * signals,
                                   Part(p, "products"))})

\* kernelFFTCooleyTukey and kernelFFTStockham, which scales
mergeIRFFT1dOutput(p, a) ==
  LET y    == Dense(p, a["output_contiguous"], R, Scaled(p, Result(p.n)))
      used == Scratch(a["internal"], 2 * R * p.batch * p.n[1])
      read(x, w) == Reals(p, a[ProductOf[x][w]],
                          Scaled(p, Part(p, x \o "*" \o w)))
  IN CASE p.strategy = "matmul" -> <<>>
       [] p.strategy = "cooley" ->
            Stage(UNION {read(x, w) : x \in {"re", "im"}, w \in {"re", "im"}},
                  used \cup y)
       [] p.strategy = "stockham" ->
            Stage({Holds(a["re_mul_re"], 4 * R * p.batch * p.n[1],
                         Part(p, "products"))}, used \cup y)

execIRFFTMatmul1d(p) ==
  LET a == configureIRFFT1dMatmulWorkspaceAddrs(p)
  IN When(~ p.inDense, CopyIn(p, a["input_contiguous"], C, p.inembed))
     \o When(p.inembed # HalfDims(p.n),
             Fit(p, a["input_contiguous"], p.inembed,
                 a["input_pad"], HalfDims(p.n), C))
     \o mergeIRFFT1dInput(p, a)
     \o transposeIRFFT1dPaddedInput(p, a)
     \o computeIRFFT1dMatmulResult(p, a)
     \o mergeIRFFT1dOutput(p, a)
     \o CopyOut(p, a["output_contiguous"], R, Scaled(p, Result(p.n)))

configureIRFFT1dWorkspaceAddrs(p) ==
  LET buffer == C * p.batch * p.n[1]
      parts  == Buffer("buf", 2 * buffer)
                \o When(~ (p.inDense /\ WithinHalf(p)),
                        Buffer("input", buffer))
                \o When(~ p.outDense, Buffer("output", buffer))
                \o When(Longer(p), Buffer("input_pad", 0))
  IN With(Forward(Workspace, parts),
          [input |-> Input(p), output |-> Output(p)])

execIRFFTButterfly1d(p) ==
  LET a  == configureIRFFT1dWorkspaceAddrs(p)
      in == a[IF BelowHalf(p) THEN "input_pad" ELSE "input"]
      y  == Result(p.n)
  IN When(~ (p.inDense /\ WithinHalf(p)),
          CopyIn(p, a["input"], C, HalfTrimmed(p)))
     \o When(BelowHalf(p),
             Fit(p, a["input"], p.inembed, a["input_pad"], HalfDims(p.n), C))
     \o Butterfly(Tables(RealTables1d(p, 2 * C * p.n[1]),
                         {"factors", "twiddles", "dft_matrix"}),
                  Dense(p, in, C, HalfSignal(p)), Dense(p, a["output"], R, y),
                  Scratch(a["buf"], 2 * C * p.batch * p.n[1]))
     \o Rescale(p, a["output"], R, y)
     \o CopyOut(p, a["output"], R, Scaled(p, y))

-----------------------------------------------------------------------------
(* Two dimensions (execIRFFT2d).                                           *)
configureIRFFT2dWorkspaceAddrs(p) ==
  LET signals == C * p.batch * Size(p.n)
      parts ==
        (IF p.strategy = "many"
         THEN Buffer("buffer_in", 2 * signals)
              \o Buffer("buffer_out", 2 * signals)
         ELSE Buffer("buf", 2 * signals)
              \o When(~ (p.inDense /\ WithinHalf(p)), Buffer("input", signals))
              \o When(~ p.outDense, Buffer("output", signals))
              \o Buffer("buffer_out", signals))
        \o When(BelowHalf(p), Buffer("input_pad", 0))
  IN With(Forward(Workspace, parts),
          [input |-> Input(p), output |-> Output(p)])

\* Where padIRFFT2dContiguousInput reads and writes: it takes the addresses
\* of the butterflies only when half of a dimension exceeds the input.
Padding2d(p, a) ==
  LET known == \E i \in 1 .. 2 : Half(p.n[i]) > p.inembed[i]
  IN Fit(p, IF known THEN a["input"] ELSE Unset, HalfTrimmed(p),
         IF known THEN a["input_pad"] ELSE Unset, HalfDims(p.n), C)

\* Columns into buffer_out, then rows from there.  A one-long dimension is
\* not transformed: of one-long rows only the real part is copied.
execIRFFTTwoLevel(p, a, in) ==
  LET half == HalfDims(p.n)
      y    == Result(p.n)
      mid  == Along("column", Signal(half))
      signal(at, b, unit, v) ==
        {Holds(Move(at, b * unit * Size(v.dims)), unit * Size(v.dims), v)}
      buf  == Scratch(a["buf"], 2 * C * Size(p.n))
      row  == Tables(Tables2d(p), {"factors", "twiddles", "dft_matrix"})
      one(b) ==
        When(p.n[1] # 1,
             Butterfly(Tables2(p, "column", FALSE),
                       signal(in, b, C, Signal(half)),
                       signal(a["buffer_out"], b, C, mid), buf))
        \o When(p.n[2] # 1,
                Butterfly(row,
                          IF p.n[1] = 1 THEN signal(in, b, C, Signal(half))
                          ELSE signal(a["buffer_out"], b, C, mid),
                          signal(a["output"], b, R, y), buf))
  IN FlattenSeq([b \in 1 .. p.batch |-> one(b - 1)])
     \o When(p.n[2] = 1,
             Stage(IF p.n[1] = 1 THEN Dense(p, in, C, Signal(half))
                   ELSE Dense(p, a["buffer_out"], C, mid),
                   Dense(p, a["output"], R, y)))

\* computeFFT2dMatMulColumnC2R with its merge, and computeFFT2dMatMulRowC2R.
execIRFFTMany(p, a) ==
  LET half  == HalfDims(p.n)
      all(at, k, v) == {Holds(at, k * C * p.batch * Size(half), v)}
      table(t) == Tables(Tables2d(p), {t})
      columns == Along("column", Signal(half))
      parts   == Along("parts", columns)
  IN Stage(table("dft_matrix_2d")
           \cup Strided(p, a["input"], C, Signal(half)),
           all(a["buffer_out"], 2, parts))
     \o Stage(all(a["buffer_out"], 2, parts), all(a["buffer_in"], 1, columns))
     \o Stage(table("dft_matrix") \cup all(a["buffer_in"], 1, columns),
              Strided(p, a["output"], R, Result(p.n)))

execIRFFT2d(p) ==
  LET a == configureIRFFT2dWorkspaceAddrs(p)
      y == Result(p.n)
  IN IF p.strategy = "many"
     THEN execIRFFTMany(p, a) \o RescaleStrided(p, a["output"], R, y)
     ELSE When(~ (p.inDense /\ WithinHalf(p)),
               CopyIn(p, a["input"], C, HalfTrimmed(p)))
          \o When(BelowHalf(p), Padding2d(p, a))
          \o execIRFFTTwoLevel(p, a,
                               a[IF BelowHalf(p) THEN "input_pad" ELSE "input"])
          \o Rescale(p, a["output"], R, y)
          \o CopyOut(p, a["output"], R, Scaled(p, y))

C2RReserve(p) ==
  IF p.rank = 1 THEN setIRFFT1dReserveArea(p) ELSE setFFT2dReserveArea(p)
C2RExec(p) ==
  IF p.rank = 2 THEN execIRFFT2d(p)
  ELSE IF p.prime THEN execIRFFTMatmul1d(p) ELSE execIRFFTButterfly1d(p)
=============================================================================

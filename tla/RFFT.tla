---------------------------------- MODULE RFFT ----------------------------------
(***************************************************************************)
(* Real-to-complex transforms (kernels/fft/rfft/rfft_host.cpp and the R2C  *)
(* part of fft.cpp).  Of each signal of the result only the first half of  *)
(* the last dimension is computed.                                         *)
(***************************************************************************)
EXTENDS C2CFFT

\* What the caller gets for each signal: half of the last dimension.
HalfDims(n) == [n EXCEPT ![Len(n)] = Half(n[Len(n)])]
HalfResult(p) == Result(HalfDims(p.n))

-----------------------------------------------------------------------------
(* The announced sizes: makeRFFT1dPolicy, mluOpAllocateR2C1D and           *)
(* mluOpAllocateRFFT2D.                                                    *)
makeRFFT1dPolicy(p) ==
  LET signals == R * p.batch * p.n[1]
      matmul  == p.strategy = "matmul"
  IN [workspace |->
        Length(When(~ p.inDense, Buffer("in", R * p.batch * p.inembed[1]))
          \o When(p.n # p.inembed, Buffer("pad", signals))
          \o When(~ matmul, Buffer("trans", signals)
                            \o Buffer("products", 2 * signals))
          \o When(~ p.outDense, Buffer("out", C * p.batch * Half(p.n[1]))))
        + p.internal,
      reserve |-> IF matmul THEN R * Half(p.n[1]) * 2 * p.n[1]
                  ELSE 2 * R * p.L * p.L]

AllocateR2C1D(p) ==
  LET buffer == 2 * R * p.batch * p.n[1]
  IN [workspace |->
        Length(Buffer("buf", 2 * buffer)
          \o When(~ (p.inDense /\ p.n[1] <= p.inembed[1]) /\ ~ p.batchInner,
                  Buffer("input", buffer))
          \o When(~ (p.outDense /\ Half(p.n[1]) <= p.onembed[1])
                    /\ ~ p.batchInner,
                  Buffer("output", buffer))
          \o When(p.n # p.inembed, Buffer("pad", buffer))),
      reserve |-> FactorTable + 2 * (2 * R * p.n[1]) + 2 * DftTable]

\* The 2D sizes of both real kinds: what decides is whether the input needs
\* a copy, and what more a plan wants.
AllocateReal2D(p, given, more) ==
  LET n0 == p.n[1]  n1 == p.n[2]
      buffer == C * p.batch * n0 * n1
      many == p.strategy = "many"
  IN [workspace |->
        Length(Buffer("buf", IF many THEN 6 * buffer ELSE 2 * buffer)
          \o When(~ many /\ ~ given, Buffer("input", buffer))
          \o When(~ many /\ ~ p.outDense, Buffer("output", buffer))
          \o When(~ many, Buffer("more", more * buffer))
          \o When(p.n # p.inembed, Buffer("pad", buffer))),
      reserve |-> IF many THEN 2 * C * (n0 * n0 + n1 * n1)
                  ELSE 2 * FactorTable + 2 * C * (n0 + n1) + 4 * DftTable]

AllocateRFFT2D(p) == AllocateReal2D(p, p.inDense /\ ~ Shorter(p), 0)

R2CSizes(p) ==
  IF p.rank = 2 THEN AllocateRFFT2D(p)
  ELSE IF p.prime THEN makeRFFT1dPolicy(p) ELSE AllocateR2C1D(p)

-----------------------------------------------------------------------------
(* The tables of the reserve area.                                         *)
\* configureRFFT1dMatmulReserveAddrs
HalfDftMatrices(p) ==
  IF p.strategy = "matmul"
  THEN Buffer("dft", R * Half(p.n[1]) * 2 * p.n[1])
  ELSE Buffer("dft_re", R * p.L * p.L) \o Buffer("dft_im", R * p.L * p.L)

RealTables1d(p, twiddles) ==
  Buffer("twiddles", twiddles) \o Buffer("dft_matrix", DftTable)
  \o Buffer("factors", FactorTable)

setRFFT1dReserveArea(p) ==
  IF p.prime
  THEN Stage({}, Tables(HalfDftMatrices(p), Names(HalfDftMatrices(p))))
  ELSE CopyTables(RealTables1d(p, 2 * C * p.n[1]))

-----------------------------------------------------------------------------
(* One dimension (execRFFT1d).                                             *)
configureRFFT1dMatmulWorkspaceAddrs(p) ==
  LET signals == R * p.batch * p.n[1]
      matmul  == p.strategy = "matmul"
      front   == Forward(Workspace,
                   When(~ p.inDense,
                        Buffer("input_contiguous",
                               R * p.batch * p.inembed[1]))
                   \o When(p.n # p.inembed, Buffer("input_pad", signals))
                   \o When(~ matmul, Buffer("input_transed", signals)))
      back    == Backward(Move(Workspace, R2CSizes(p).workspace),
                   Buffer("internal", p.internal)
                   \o When(~ p.outDense,
                           Buffer("output_contiguous",
                                  C * p.batch * p.onembed[1]))
                   \o When(~ matmul, Buffer("re_mul_im", signals)
                                     \o Buffer("re_mul_re", signals)))
      dense   == With(front, [input_contiguous |-> Input(p)])
  IN With(With(back, dense), [input_pad |-> dense["input_contiguous"],
                              output_contiguous |-> Output(p)])

transposeRFFT1dPaddedInput(p, a) ==
  When(p.strategy = "cooley",
       Stage(Dense(p, a["input_pad"], R, Signal(p.n)),
             Scratch(a["internal"], CnnlSpace)
             \cup Reals(p, a["input_transed"], Part(p, "x by L"))))

computeRFFT1dMatmulResult(p, a) ==
  LET used    == Scratch(a["internal"], CnnlSpace)
      matrix(names) == Tables(HalfDftMatrices(p), names)
      product(w) ==
        Stage(Reals(p, a["input_transed"], Part(p, "x by L"))
              \cup matrix({MatrixOf[w]}),
              used \cup Reals(p, a[ProductOf["re"][w]],
                              Scaled(p, Part(p, "x*" \o w))))
  IN CASE p.strategy = "matmul" ->
            Stage(Dense(p, a["input_pad"], R, Signal(p.n)) \cup matrix({"dft"}),
                  used \cup Dense(p, a["output_contiguous"], C,
                                  Scaled(p, HalfResult(p))))
       [] p.strategy = "cooley" -> product("re") \o product("im")
       [] p.strategy = "stockham" ->   \* its scale is ignored
            Stage(Dense(p, a["input_pad"], R, Signal(p.n))
                  \cup matrix({"dft_re", "dft_im"}),
                  used \cup {Holds(a["re_mul_re"], 2 * R * p.batch * p.n[1],
                                   Part(p, "products"))})

\* kernelFFTCooleyTukey and kernelFFTStockham, which scales
mergeRFFT1dOutput(p, a) ==
  LET y    == Dense(p, a["output_contiguous"], C, Scaled(p, HalfResult(p)))
      used == Scratch(a["internal"], 2 * R * p.batch * p.n[1])
      read(w) == Reals(p, a[ProductOf["re"][w]], Scaled(p, Part(p, "x*" \o w)))
  IN CASE p.strategy = "matmul" -> <<>>
       [] p.strategy = "cooley" ->
            Stage(read("re") \cup read("im"), used \cup y)
       [] p.strategy = "stockham" ->
            Stage({Holds(a["re_mul_re"], 2 * R * p.batch * p.n[1],
                         Part(p, "products"))}, used \cup y)

execRFFTMatmul1d(p) ==
  LET a == configureRFFT1dMatmulWorkspaceAddrs(p)
  IN When(~ p.inDense, CopyIn(p, a["input_contiguous"], R, p.inembed))
     \o When(p.n # p.inembed,
             Fit(p, a["input_contiguous"], p.inembed, a["input_pad"], p.n, R))
     \o transposeRFFT1dPaddedInput(p, a)
     \o computeRFFT1dMatmulResult(p, a)
     \o mergeRFFT1dOutput(p, a)
     \o CopyOut(p, a["output_contiguous"], C, Scaled(p, HalfResult(p)))

configureRFFT1dWorkspaceAddrs(p) ==
  LET buffer == C * p.batch * p.n[1]
      parts  == Buffer("buf", 2 * buffer)
                \o When(~ (p.inDense /\ ~ Shorter(p)),
                        Buffer("input", buffer))
                \o When(~ p.outDense, Buffer("output", buffer))
                \o When(Longer(p), Buffer("input_pad", 0))
  IN With(Forward(Workspace, parts),
          [input |-> Input(p), output |-> Output(p)])

\* execFFTr2c1d
execRFFTButterfly1d(p) ==
  LET a  == configureRFFT1dWorkspaceAddrs(p)
      in == a[IF Longer(p) THEN "input_pad" ELSE "input"]
      y  == HalfResult(p)
  IN When(~ (p.inDense /\ ~ Shorter(p)), CopyIn(p, a["input"], R, Trimmed(p)))
     \o When(Longer(p),
             Fit(p, a["input"], p.inembed, a["input_pad"], p.n, R))
     \o Butterfly(Tables(RealTables1d(p, 2 * C * p.n[1]),
                         {"factors", "twiddles", "dft_matrix"}),
                  Dense(p, in, R, Signal(p.n)), Dense(p, a["output"], C, y),
                  Scratch(a["buf"], 2 * C * p.batch * p.n[1]))
     \o Rescale(p, a["output"], C, y)
     \o CopyOut(p, a["output"], C, Scaled(p, y))

-----------------------------------------------------------------------------
(* Two dimensions (execRFFT2d).                                            *)
configureRFFT2dWorkspaceAddrs(p) ==
  LET signals == C * p.batch * Size(p.n)
      parts ==
        (IF p.strategy = "many"
         THEN Buffer("buffer_in", 2 * signals)
              \o Buffer("buffer_out", 2 * signals)
         ELSE Buffer("buf", 2 * signals)
              \o When(~ (p.inDense /\ ~ Shorter(p)), Buffer("input", signals))
              \o When(~ p.outDense, Buffer("output", signals)))
        \o When(Longer(p), Buffer("input_pad", 0))
  IN With(Forward(Workspace, parts),
          [input |-> Input(p), output |-> Output(p)])

\* Rows, then columns.  One-long rows are only given their imaginary part,
\* and of one-long columns nothing is computed.
execRFFTTwoLevel(p, a) ==
  LET half == HalfDims(p.n)
      y    == HalfResult(p)
      mid  == IF p.n[1] = 1 THEN y ELSE Along("row", Signal(half))
      signal(at, b, unit, v) ==
        {Holds(Move(at, b * unit * Size(v.dims)), unit * Size(v.dims), v)}
      buf  == Scratch(a["buf"], 2 * C * Size(p.n))
      row(b) ==
        When(p.n[2] # 1,
             Butterfly(Tables2(p, "row", TRUE),
                       signal(a["input"], b, R, Signal(p.n)),
                       signal(a["output"], b, C, mid), buf))
      column(b) ==
        When(p.n[1] # 1,
             Butterfly(Tables2(p, "column", TRUE),
                       signal(a["output"], b, C, mid),
                       signal(a["output"], b, C, y), buf))
  IN When(p.n[2] = 1, Stage(Dense(p, a["input"], R, Signal(p.n)),
                            Dense(p, a["output"], C, mid)))
     \o FlattenSeq([b \in 1 .. p.batch |-> row(b - 1) \o column(b - 1)])

\* computeFFT2dMatMulRowR2C, and computeFFT2dMatMulColumnR2C with its merge.
execRFFTMany(p, a) ==
  LET half  == HalfDims(p.n)
      all(at, k, v) == {Holds(at, k * C * p.batch * Size(half), v)}
      table(t) == Tables(Tables2d(p), {t})
      rows  == Along("row", Signal(half))
      parts == Along("parts", Result(half))
  IN Stage(table("dft_matrix") \cup Strided(p, a["input"], R, Signal(p.n)),
           all(a["buffer_in"], 1, rows))
     \o Stage(table("dft_matrix_2d") \cup all(a["buffer_in"], 1, rows),
              all(a["buffer_out"], 2, parts))
     \o Stage(all(a["buffer_out"], 2, parts),
              Strided(p, a["output"], C, HalfResult(p)))

\* padRFFT2dContiguousInput is never called: a shorter signal stays short.
execRFFT2d(p) ==
  LET a == configureRFFT2dWorkspaceAddrs(p)
      y == HalfResult(p)
  IN IF p.strategy = "many"
     THEN execRFFTMany(p, a) \o RescaleStrided(p, a["output"], C, y)
     ELSE When(~ (p.inDense /\ ~ Shorter(p)),
               CopyIn(p, a["input"], R, Trimmed(p)))
          \o execRFFTTwoLevel(p, a)
          \o Rescale(p, a["output"], C, y)
          \o CopyOut(p, a["output"], C, Scaled(p, y))

R2CReserve(p) ==
  IF p.rank = 1 THEN setRFFT1dReserveArea(p) ELSE setFFT2dReserveArea(p)
R2CExec(p) ==
  IF p.rank = 2 THEN execRFFT2d(p)
  ELSE IF p.prime THEN execRFFTMatmul1d(p) ELSE execRFFTButterfly1d(p)
=============================================================================

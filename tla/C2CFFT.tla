------------------------------- MODULE C2CFFT -------------------------------
(***************************************************************************)
(* Complex-to-complex transforms (kernels/fft/c2c_fft/c2c_fft_host.cpp and *)
(* the C2C part of fft.cpp): the sizes a plan announces, the tables it     *)
(* copies to the reserve area, and the kernels one execution enqueues.     *)
(***************************************************************************)
EXTENDS FFTMemory

CONSTANTS
  FactorTable,    \* size of a table of factors
  DftTable,       \* size of the DFT matrices of the small radices
  CnnlSpace       \* what CNNL asks for its matmuls and transposes

FFTSizes == {FactorTable, DftTable, CnnlSpace}
ASSUME FFTSizesAssumption == \A s \in FFTSizes : s \in Nat \ {0}

\* getPadN: a length that factors and leaves room for the chirp
PadN(n) == 2 * n

Forwards(p) == p.dir = "forward"
MatmulPath(p) == p.prime /\ ~ p.bluestein
Length1(p)   == IF p.bluestein THEN PadN(p.n[1]) ELSE p.n[1]
ColumnLen(p) == IF p.bluesteinColumn THEN PadN(p.n[1]) ELSE p.n[1]
RowLen(p)    == IF p.bluesteinRow THEN PadN(p.n[2]) ELSE p.n[2]
Longer(p)    == \E i \in 1 .. p.rank : p.n[i] > p.inembed[i]
Shorter(p)   == \E i \in 1 .. p.rank : p.n[i] < p.inembed[i]
Trimmed(p)   == [i \in 1 .. p.rank |->
                   IF p.n[i] < p.inembed[i] THEN p.n[i] ELSE p.inembed[i]]
\* tensors whose batch is the last dimension are transformed in place of it
Columnwise(p) == p.batchInner /\ ~ p.bluestein

-----------------------------------------------------------------------------
(* The announced sizes: mluOpAllocateC2C1D, mluOpAllocateC2C2D and         *)
(* makeFFT1dPolicy.                                                        *)
AllocateC2C1D(p) ==
  LET buffer == C * p.batch * Length1(p)
  IN [workspace |->
        Length(Buffer("buf", 2 * buffer)
          \o When(~ (p.inDense /\ p.n[1] <= p.inembed[1]) /\ ~ Columnwise(p),
                  Buffer("input", buffer))
          \o When(~ (p.outDense /\ p.n[1] <= p.onembed[1]) /\ ~ Columnwise(p),
                  Buffer("output", buffer))
          \o When(p.n # p.inembed, Buffer("pad", buffer))
          \o When(p.bluestein, Buffer("chirps", 2 * C * Length1(p))
                               \o Buffer("products", 2 * buffer))),
      reserve |-> FactorTable + 4 * C * Length1(p) + 2 * DftTable]

AllocateC2C2D(p) ==
  LET n0 == ColumnLen(p)  n1 == RowLen(p)
      buffer == C * p.batch * n0 * n1
      many == p.strategy = "many"
  IN [workspace |->
        Length(Buffer("buf", IF many THEN 6 * buffer ELSE 2 * buffer)
          \o When(~ many /\ ~ (p.inDense /\ ~ Shorter(p)),
                  Buffer("input", buffer))
          \o When(~ many /\ ~ p.outDense, Buffer("output", buffer))
          \o When(p.n # p.inembed, Buffer("pad", buffer))
          \o When(p.bluestein, Buffer("chirps", 2 * C * (n0 + n1))
                               \o Buffer("products", 2 * C * n0 * n1))),
      reserve |-> IF many THEN 2 * C * (n0 * n0 + n1 * n1)
                  ELSE 2 * FactorTable + 2 * C * (n0 + n1) + 4 * DftTable]

makeFFT1dPolicy(p) ==
  LET signals == p.batch * p.n[1]
      matmul  == p.strategy = "matmul"
      order   == IF matmul THEN p.n[1] ELSE p.L
  IN [workspace |->
        Length(When(~ p.inDense, Buffer("in", C * p.batch * p.inembed[1]))
          \o When(p.n # p.inembed, Buffer("pad", C * signals))
          \o Buffer("trans", (IF matmul THEN 1 ELSE 2) * C * signals)
          \o Buffer("products", 4 * R * signals)
          \o When(~ p.outDense, Buffer("out", C * p.batch * p.onembed[1])))
        + p.internal,
      reserve |-> 4 * R * order * order]

\* What CNNL asks; the merge kernels want room for every result.
InternalSize(p) ==
  IF p.strategy = "matmul" \/ CnnlSpace > 2 * R * p.batch * p.n[1]
  THEN CnnlSpace ELSE 2 * R * p.batch * p.n[1]

C2CSizes(p) ==
  IF p.rank = 2 THEN AllocateC2C2D(p)
  ELSE IF MatmulPath(p) THEN makeFFT1dPolicy(p) ELSE AllocateC2C1D(p)

-----------------------------------------------------------------------------
(* The tables of the reserve area.                                         *)
\* configureFFT1dMatmulReserveAddrs
DftMatrices(p) ==
  LET order == IF p.strategy = "matmul" THEN p.n[1] ELSE p.L
      len   == R * order * order
  IN Buffer("dft_re", len) \o Buffer("dft_im", len)
     \o Buffer("ifft_dft_re", len) \o Buffer("ifft_dft_im", len)

ButterflyTables1d(p) ==
  LET len == 2 * C * Length1(p)
  IN Buffer("twiddles", len) \o Buffer("dft_matrix", DftTable)
     \o Buffer("twiddles_inv", len) \o Buffer("idft_matrix", DftTable)
     \o Buffer("factors", FactorTable)

setFFT1dReserveArea(p) ==
  IF MatmulPath(p)
  THEN Stage({}, Tables(DftMatrices(p), Names(DftMatrices(p))))
  ELSE CopyTables(ButterflyTables1d(p))

Tables2d(p) ==
  LET n0 == p.n[1]  n1 == p.n[2]
      row    == C * RowLen(p)
      column == C * ColumnLen(p)
  IN IF p.strategy = "many"
     THEN IF p.kind = "c2c"
          THEN Buffer("dft_matrix", C * n1 * n1)
               \o Buffer("dft_matrix_2d", C * n0 * n0)
               \o Buffer("idft_matrix", C * n1 * n1)
               \o Buffer("idft_matrix_2d", C * n0 * n0)
          ELSE Buffer("dft_matrix", C * Half(n1) * n1)
               \o Buffer("dft_matrix_2d", C * n0 * n0)
     ELSE Buffer("twiddles", row) \o Buffer("dft_matrix", DftTable)
          \o Buffer("factors", FactorTable)
          \o Buffer("factors_2d", FactorTable)
          \o When(p.kind # "c2r", Buffer("twiddles_2d", column)
                                  \o Buffer("dft_matrix_2d", DftTable))
          \o When(p.kind = "c2c", Buffer("twiddles_inv", row))
          \o When(p.kind # "r2c", Buffer("twiddles_inv_2d", column)
                                  \o Buffer("idft_matrix_2d", DftTable))
          \o When(p.kind = "c2c", Buffer("idft_matrix", DftTable))

setFFT2dReserveArea(p) == CopyTables(Tables2d(p))


-----------------------------------------------------------------------------
(* Execution by matrix products (the "prime" branch of execFFT1d).         *)
configureFFT1dMatmulWorkspaceAddrs(p) ==
  LET part  == R * p.batch * p.n[1]
      split == Buffer("input_re", part) \o Buffer("input_im", part)
      front == Forward(Workspace,
                 When(~ p.inDense,
                      Buffer("input_contiguous", C * p.batch * p.inembed[1]))
                 \o When(p.n # p.inembed, Buffer("input_pad", 2 * part))
                 \o (CASE p.strategy = "matmul"   -> split
                       [] p.strategy = "cooley"   ->
                            Buffer("input_transed", 2 * part) \o split
                       [] p.strategy = "stockham" -> <<>>))
      back  == Backward(Move(Workspace, C2CSizes(p).workspace),
                 Buffer("internal", p.internal)
                 \o When(~ p.outDense,
                         Buffer("output_contiguous",
                                C * p.batch * p.onembed[1]))
                 \o Buffer("im_mul_im", part) \o Buffer("im_mul_re", part)
                 \o Buffer("re_mul_im", part) \o Buffer("re_mul_re", part))
      dense == With(front, [input_contiguous |-> Input(p)])
  IN With(With(back, dense), [input_pad |-> dense["input_contiguous"],
                              output_contiguous |-> Output(p)])

\* The names of the arrays and matrices of the real and imaginary parts, and
\* of the product of two.
InputOf   == [re |-> "input_re", im |-> "input_im"]
MatrixOf  == [re |-> "dft_re", im |-> "dft_im"]
InverseOf == [re |-> "ifft_dft_re", im |-> "ifft_dft_im"]
ProductOf == [re |-> [re |-> "re_mul_re", im |-> "re_mul_im"],
              im |-> [re |-> "im_mul_re", im |-> "im_mul_im"]]

\* The dft matrices of the direction.
DirectionMatrix(p, part) ==
  Tables(DftMatrices(p),
         {IF Forwards(p) THEN MatrixOf[part] ELSE InverseOf[part]})

\* One array of real numbers for the whole batch.
Reals(p, a, v) == {Holds(a, R * p.batch * p.n[1], v)}
Part(p, name)  == Value(name, p.n)

transposeFFT1dPaddedInput(p, a) ==
  LET signals == Dense(p, a["input_pad"], C, Signal(p.n))
      used    == Scratch(a["internal"], CnnlSpace)
      halves(at, how) ==
        Reals(p, at, Part(p, "re" \o how))
        \cup Reals(p, Move(at, R * p.batch * p.n[1]), Part(p, "im" \o how))
  IN CASE p.strategy = "matmul" ->
            Stage(signals, used \cup halves(a["input_re"], ""))
       [] p.strategy = "cooley" ->
            Stage(signals, used \cup halves(a["input_transed"], ""))
            \o Stage(halves(a["input_transed"], ""),
                     used \cup halves(a["input_re"], " by L"))
       [] p.strategy = "stockham" -> <<>>

computeFFT1dMatmulResult(p, a) ==
  LET how  == IF p.strategy = "cooley" THEN " by L" ELSE ""
      used == Scratch(a["internal"], CnnlSpace)
      product(x, w) ==
        Stage(Reals(p, a[InputOf[x]], Part(p, x \o how))
              \cup DirectionMatrix(p, w),
              used \cup Reals(p, a[ProductOf[x][w]],
                              Scaled(p, Part(p, x \o "*" \o w))))
      combine(x, y, to) ==   \* fftOptensor, on its first operand
        LET read(q) == Reals(p, a[ProductOf[q[1]][q[2]]],
                             Scaled(p, Part(p, q[1] \o "*" \o q[2])))
        IN Stage(read(x) \cup read(y),
                 used \cup Reals(p, a[ProductOf[x[1]][x[2]]],
                                 Scaled(p, Part(p, to))))
      four == product("re", "re") \o product("im", "im")
              \o product("re", "im") \o product("im", "re")
  IN CASE p.strategy = "matmul" ->
            four \o combine(<<"re", "re">>, <<"im", "im">>, "y re")
            \o combine(<<"re", "im">>, <<"im", "re">>, "y im")
       [] p.strategy = "cooley" -> four
       [] p.strategy = "stockham" ->   \* one product; its scale is ignored
            Stage(Dense(p, a["input_pad"], C, Signal(p.n))
                  \cup DirectionMatrix(p, "re") \cup DirectionMatrix(p, "im"),
                  used \cup {Holds(a["re_mul_re"], 4 * R * p.batch * p.n[1],
                                   Part(p, "products"))})

\* kernelFFTCooleyTukey and kernelFFTStockham, which scales
mergeFFT1dOutput(p, a) ==
  LET y(v) == Dense(p, a["output_contiguous"], C, v)
      used == Scratch(a["internal"], 2 * R * p.batch * p.n[1])
      read(q) == Reals(p, a[ProductOf[q[1]][q[2]]],
                       Scaled(p, Part(p, q[1] \o "*" \o q[2])))
  IN CASE p.strategy = "matmul" -> <<>>
       [] p.strategy = "cooley" ->
            Stage(read(<<"re", "re">>) \cup read(<<"re", "im">>)
                  \cup read(<<"im", "re">>) \cup read(<<"im", "im">>),
                  used \cup y(Scaled(p, Result(p.n))))
       [] p.strategy = "stockham" ->
            Stage({Holds(a["re_mul_re"], 4 * R * p.batch * p.n[1],
                         Part(p, "products"))},
                  used \cup y(Scaled(p, Result(p.n))))

\* reads re_mul_re and re_mul_im as one array of both
transposeFFT1dOutput(p, a) ==
  When(p.strategy = "matmul",
       Stage(Reals(p, a["re_mul_re"], Scaled(p, Part(p, "y re")))
             \cup Reals(p, Move(a["re_mul_re"], R * p.batch * p.n[1]),
                        Scaled(p, Part(p, "y im"))),
             Scratch(a["internal"], CnnlSpace)
             \cup Dense(p, a["output_contiguous"], C,
                        Scaled(p, Result(p.n)))))

execMatmul1d(p) ==
  LET a == configureFFT1dMatmulWorkspaceAddrs(p)
  IN When(~ p.inDense, CopyIn(p, a["input_contiguous"], C, p.inembed))
     \o When(p.n # p.inembed,
             Fit(p, a["input_contiguous"], p.inembed, a["input_pad"], p.n, C))
     \o transposeFFT1dPaddedInput(p, a)
     \o computeFFT1dMatmulResult(p, a)
     \o mergeFFT1dOutput(p, a)
     \o transposeFFT1dOutput(p, a)
     \o CopyOut(p, a["output_contiguous"], C, Scaled(p, Result(p.n)))

-----------------------------------------------------------------------------
(* Execution by butterflies (the other branch of execFFT1d).               *)
configureFFT1dWorkspaceAddrs(p) ==
  LET buffer  == C * p.batch * Length1(p)
      own(user) == ~ user /\ ~ Columnwise(p)
      parts == Buffer("buf", 2 * buffer)
               \o When(own(p.inDense /\ ~ Shorter(p)), Buffer("input", buffer))
               \o When(own(p.outDense), Buffer("output", buffer))
               \o When(Longer(p), Buffer("input_pad", buffer))
               \o When(p.bluestein,
                       Buffer("chirpz_row", C * Length1(p))
                       \o Buffer("aux_row", C * Length1(p))
                       \o Buffer("bs_input", buffer)
                       \o Buffer("bs_output", buffer))
  IN With(Forward(Workspace, parts),
          [input |-> Input(p), output |-> Output(p), input_pad |-> Unset])

\* Where padFFT1dContiguousInput reads and writes: by prime, which a
\* Bluestein plan has set, although its matmul addresses are not.
Padding1d(p, a) ==
  IF p.prime THEN Fit(p, Unset, p.inembed, Unset, p.n, C)
  ELSE Fit(p, a["input"], p.inembed, a["input_pad"], p.n, C)

ButterflyTables(p, forward) ==
  Tables(IF p.rank = 1 THEN ButterflyTables1d(p) ELSE Tables2d(p),
         {"factors"} \cup IF forward THEN {"twiddles", "dft_matrix"}
                                     ELSE {"twiddles_inv", "idft_matrix"})

\* One butterfly kernel on a region of complex numbers.
Butterfly(tables, from, to, buf) ==
  Stage(tables \cup from, to \cup buf)

Bluestein1d(p, a, in) ==
  LET len  == Length1(p)
      aux(v) == {Holds(a["aux_row"], C * len, Value(v, <<len>>))}
      chirp  == {Holds(a["chirpz_row"], C * p.n[1],
                       Value("chirpz_row", p.n))}
      at(name, v) == {Holds(a[name], C * p.batch * len, Value(v, <<len>>))}
      buf    == Scratch(a["buf"], 2 * C * p.batch * len)
      buf1   == Scratch(a["buf"], 2 * C * len)
  IN Stage({}, {Holds(a["chirpz_row"], C * p.n[1], Value("chirpz_row", p.n))})
     \o Stage({}, aux("chirp"))
     \o Butterfly(ButterflyTables(p, TRUE), aux("chirp"), aux("fft chirp"),
                  buf1)
     \o Stage(chirp \cup Dense(p, in, C, Signal(p.n)), at("bs_input", "x chirp"))
     \o Butterfly(ButterflyTables(p, TRUE), at("bs_input", "x chirp"),
                  at("bs_input", "fft x chirp"), buf)
     \o Stage(aux("fft chirp") \cup at("bs_input", "fft x chirp"),
              at("bs_output", "convolved"))
     \o Butterfly(ButterflyTables(p, FALSE), at("bs_output", "convolved"),
                  at("bs_input", "y chirp"), buf)
     \o Stage(chirp \cup at("bs_input", "y chirp"),
              Dense(p, a["output"], C, Result(p.n)))

execFFTc2c1d(p, a, in) ==
  IF p.bluestein THEN Bluestein1d(p, a, in)
  ELSE Butterfly(ButterflyTables(p, Forwards(p)),
                 IF Columnwise(p) THEN Strided(p, in, C, Signal(p.n))
                                  ELSE Dense(p, in, C, Signal(p.n)),
                 IF Columnwise(p) THEN Strided(p, a["output"], C, Result(p.n))
                                  ELSE Dense(p, a["output"], C, Result(p.n)),
                 Scratch(a["buf"], 2 * C * p.batch * p.n[1]))

execButterfly1d(p) ==
  LET a  == configureFFT1dWorkspaceAddrs(p)
      in == IF Longer(p) THEN a["input_pad"] ELSE a["input"]
      y  == Result(p.n)
      scale == IF Columnwise(p) THEN RescaleStrided(p, a["output"], C, y)
                                ELSE Rescale(p, a["output"], C, y)
  IN When(~ (p.inDense /\ ~ Shorter(p)) /\ ~ Columnwise(p),
          CopyIn(p, a["input"], C, Trimmed(p)))
     \o When(Longer(p), Padding1d(p, a))
     \o execFFTc2c1d(p, a, in)
     \o scale
     \o When(~ Columnwise(p), CopyOut(p, a["output"], C, Scaled(p, y)))

execFFT1d(p) == IF MatmulPath(p) THEN execMatmul1d(p) ELSE execButterfly1d(p)

-----------------------------------------------------------------------------
(* Two dimensions (execFFT2d).                                             *)
\* The names of the chirps along a dimension, "row" or "column".
ChirpOf == [row |-> "chirpz_row", column |-> "chirpz_column"]
AuxOf   == [row |-> "aux_row", column |-> "aux_column"]

configureFFT2dWorkspaceAddrs(p) ==
  LET signals == C * p.batch * ColumnLen(p) * RowLen(p)
      many    == p.strategy = "many"
      chirps(len, along) ==
        Buffer(ChirpOf[along], C * len) \o Buffer(AuxOf[along], C * len)
      parts == (IF many
                THEN Buffer("buffer_in", 2 * signals)
                     \o Buffer("buffer_out", 2 * signals)
                ELSE Buffer("buf", 2 * signals)
                     \o When(~ (p.inDense /\ ~ Shorter(p)),
                             Buffer("input", signals))
                     \o When(~ p.outDense, Buffer("output", signals)))
               \* the address of input_pad is taken, and no room for it
               \o When(Longer(p), Buffer("input_pad", 0))
               \o When(p.bluesteinColumn, chirps(ColumnLen(p), "column"))
               \o When(p.bluesteinRow, chirps(RowLen(p), "row"))
               \o When(p.bluestein,
                       Buffer("bs_input", C * ColumnLen(p) * RowLen(p))
                       \o Buffer("bs_output", C * ColumnLen(p) * RowLen(p)))
  IN With(Forward(Workspace, parts),
          [input |-> Input(p), output |-> Output(p)])

\* The tables of a transform along one dimension.
Tables2(p, along, forward) ==
  IF along = "row" THEN ButterflyTables(p, forward)
  ELSE Tables(Tables2d(p),
              {"factors_2d"} \cup
              IF forward THEN {"twiddles_2d", "dft_matrix_2d"}
                         ELSE {"twiddles_inv_2d", "idft_matrix_2d"})

Along(along, v) == [v EXCEPT !.is = v.is \o " " \o along]

\* One signal of the batch, at a, transformed along a dimension: by one
\* butterfly kernel, or in eight steps through the chirp (of which the first
\* three are done once, before).
Transform2d(p, a, b, along, from, v, w) ==
  LET signal(at, x) == {Holds(Move(at, b * C * Size(p.n)), C * Size(p.n), x)}
      long  == IF along = "row" THEN <<p.n[1], RowLen(p)>>
                                ELSE <<ColumnLen(p), p.n[2]>>
      at(name, x) == {Holds(a[name], C * Size(long), Value(x, long))}
      chirp == {Holds(a[ChirpOf[along]],
                      C * (IF along = "row" THEN p.n[2] ELSE p.n[1]),
                      Value("chirpz", <<>>))}
      aux   == {Holds(a[AuxOf[along]],
                      C * (IF along = "row" THEN RowLen(p) ELSE ColumnLen(p)),
                      Value("fft chirp", <<>>))}
      buf   == Scratch(a["buf"], 2 * C * Size(long))
  IN IF ~ (IF along = "row" THEN p.bluesteinRow ELSE p.bluesteinColumn)
     THEN Butterfly(Tables2(p, along, Forwards(p)), signal(a[from], v),
                    signal(a["output"], w), buf)
     ELSE Stage(chirp \cup signal(a[from], v), at("bs_input", "x chirp"))
          \o Butterfly(Tables2(p, along, TRUE), at("bs_input", "x chirp"),
                       at("bs_input", "fft x chirp"), buf)
          \o Stage(aux \cup at("bs_input", "fft x chirp"),
                   at("bs_output", "convolved"))
          \o Butterfly(Tables2(p, along, FALSE), at("bs_output", "convolved"),
                       at("bs_output", "y chirp"), buf)
          \o Stage(chirp \cup at("bs_output", "y chirp"),
                   signal(a["output"], w))

Chirps2d(p, a, along) ==
  LET len    == IF along = "row" THEN RowLen(p) ELSE ColumnLen(p)
      short  == IF along = "row" THEN p.n[2] ELSE p.n[1]
      aux(v) == {Holds(a[AuxOf[along]], C * len, Value(v, <<>>))}
  IN Stage({}, {Holds(a[ChirpOf[along]], C * short,
                      Value("chirpz", <<>>))})
     \o Stage({}, aux("chirp"))
     \o Butterfly(Tables2(p, along, TRUE), aux("chirp"), aux("fft chirp"),
                  Scratch(a["buf"], 2 * C * len))

\* Rows, then columns; backward, columns, then rows.  A dimension of length 1
\* is not transformed: the first that is reads the input, except that
\* execFFT2d copies it to the output when the second one is to read it there.
execTwoLevel(p, a) ==
  LET order == IF Forwards(p) THEN <<"row", "column">> ELSE <<"column", "row">>
      len(along) == IF along = "row" THEN p.n[2] ELSE p.n[1]
      first  == order[1]
      second == order[2]
      half   == IF len(first) = 1 THEN Signal(p.n)
                ELSE Along(first, Signal(p.n))
      full   == Result(p.n)
      one(b) == When(len(first) # 1,
                     Transform2d(p, a, b, first, "input", Signal(p.n),
                                 IF len(second) = 1 THEN full ELSE half))
                \o When(len(second) # 1,
                        Transform2d(p, a, b, second, "output", half, full))
  IN When(p.bluesteinColumn, Chirps2d(p, a, "column"))
     \o When(p.bluesteinRow, Chirps2d(p, a, "row"))
     \o FlattenSeq([b \in 1 .. p.batch |-> one(b - 1)])

\* computeFFT2dMatMulRow and computeFFT2dMatMulColumn: a matmul of the whole
\* batch into the two parts, and a kernel that merges them.
MatMul2d(p, a, along, from, to, v, w) ==
  LET all(at, k, x) == {Holds(at, k * C * p.batch * Size(p.n), x)}
      table == Tables(Tables2d(p),
                      {IF Forwards(p)
                       THEN IF along = "row" THEN "dft_matrix"
                            ELSE "dft_matrix_2d"
                       ELSE IF along = "row" THEN "idft_matrix"
                            ELSE "idft_matrix_2d"})
      parts == Along("parts", w)
  IN Stage(table \cup all(from, 1, v), all(a["buffer_out"], 2, parts))
     \o Stage(all(a["buffer_out"], 2, parts), all(to, 1, w))

execMany(p, a) ==
  LET order == IF Forwards(p) THEN <<"row", "column">> ELSE <<"column", "row">>
      x     == Along("strided", Signal(p.n))
      half  == Along(order[1], Signal(p.n))
  IN MatMul2d(p, a, order[1], a["input"], a["buffer_in"], x, half)
     \o MatMul2d(p, a, order[2], a["buffer_in"], a["output"], half,
                 Along("strided", Result(p.n)))

execFFT2d(p) ==
  LET a     == configureFFT2dWorkspaceAddrs(p)
      many  == p.strategy = "many"
      fit   == [a EXCEPT !["input"] =
                  IF Longer(p) THEN a["input_pad"] ELSE a["input"]]
      y     == Result(p.n)
      inner == \/ p.n = <<1, 1>>
               \/ /\ \E i \in 1 .. 2 : p.n[i] = 1
                  /\ IF Forwards(p) THEN p.n[1] # 1 ELSE p.n[2] # 1
      unchanged == IF p.n = <<1, 1>> /\ ~ many THEN y ELSE Signal(p.n)
  IN When(~ many /\ ~ (p.inDense /\ ~ Shorter(p)),
          CopyIn(p, a["input"], C, Trimmed(p)))
     \o When(Longer(p),
             Fit(p, a["input"], Trimmed(p), a["input_pad"], p.n, C))
     \o When(inner, IF many
                    THEN Stage(Strided(p, fit["input"], C, Signal(p.n)),
                               Strided(p, fit["output"], C, unchanged))
                    ELSE Stage(Dense(p, fit["input"], C, Signal(p.n)),
                               Dense(p, fit["output"], C, unchanged)))
     \o (IF many
         THEN execMany(p, fit) \o RescaleStrided(p, fit["output"], C, y)
         ELSE execTwoLevel(p, fit) \o Rescale(p, fit["output"], C, y)
              \o CopyOut(p, fit["output"], C, Scaled(p, y)))

C2CReserve(p) ==
  IF p.rank = 1 THEN setFFT1dReserveArea(p) ELSE setFFT2dReserveArea(p)
C2CExec(p) == IF p.rank = 1 THEN execFFT1d(p) ELSE execFFT2d(p)
=============================================================================

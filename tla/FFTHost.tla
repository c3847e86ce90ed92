-------------------------------- MODULE FFTHost --------------------------------
(***************************************************************************)
(* The host code of kernels/fft as calls: which descriptors and CNNL       *)
(* objects each function holds, which statuses it returns or drops, and    *)
(* when the fields batch and n of the plan hold other values than its own. *)
(* What the addresses of the plan point to is the business of FFTPlans, so *)
(* a kernel on them is work on no tensor of the caller.                    *)
(***************************************************************************)
EXTENDS ElementwiseHost

Kernel     == Work({})           \* CHECK_RETURN(api, kernel...(...))
KernelCall == Unchecked          \* a launch whose status is dropped
Resize     == Alter({"fft_plan"})     \* batch or n lent to a kernel
Resized    == Restore({"fft_plan"})

\* CNRT_CHECK(cnrtMalloc(&workspace, ..)) over a local pointer: it does not
\* return, and nothing frees what it gave.
Malloc == Either(<<Take({"malloced"})>>, <<Missed>>)
-----------------------------------------------------------------------------
(* kernels/fft/common/fft_basic_ops.cpp                                    *)

MatMulObjs ==
  {"a_desc", "b_desc", "c_desc", "cnnl_a_desc", "cnnl_b_desc", "cnnl_c_desc",
   "cnnl_handle", "matmul_desc", "matmul_algo", "heuristic_result"}

fftGetMatMulWorkspaceSize ==
  <<Get(MatMulObjs \cup {"cnnl_d_desc"}), Try,
    Put(MatMulObjs \cup {"cnnl_d_desc"}), Ok>>

fftMatMul ==
  <<Get(MatMulObjs \cup {"cnnl_d_desc"}), Try, Maybe(<<Malloc>>),
    Run(MatMulObjs \cup {"cnnl_d_desc"}, {}),
    Put(MatMulObjs \cup {"cnnl_d_desc"}), Ok>>

\* the two heuristic calls of a batched product are not looked at
fftGetBatchMatMulBcastWorkspaceSize ==
  <<Get(MatMulObjs), Unchecked, Put(MatMulObjs), Ok>>

fftBatchMatMulBcast ==
  <<Get(MatMulObjs), Unchecked, Malloc, Run(MatMulObjs, {}),
    Put(MatMulObjs), Ok>>

TransposeObjs ==
  {"input_desc", "cnnl_input_desc", "trans_desc", "cnnl_handle"}

fftGetTransposeWorkspaceSize ==
  <<Get(TransposeObjs), Try, Put(TransposeObjs), Ok>>

\* transed_input_desc is not destroyed
fftTranspose ==
  <<Get(TransposeObjs \cup {"transed_input_desc", "cnnl_transed_input_desc"}),
    Run(TransposeObjs \cup {"transed_input_desc", "cnnl_transed_input_desc"},
        {}),
    Put(TransposeObjs \cup {"cnnl_transed_input_desc"}), Ok>>

OptensorObjs ==
  {"in1_desc", "in2_desc", "out_desc", "cnnl_in1_desc", "cnnl_in2_desc",
   "cnnl_out_desc", "cnnl_optensor_handle"}

fftGetOptensorWorkspaceSize ==
  <<Get(OptensorObjs), Try, Put(OptensorObjs), Ok>>

fftOptensor ==
  <<Get(OptensorObjs \cup {"opTensor_desc"}),
    Run(OptensorObjs \cup {"opTensor_desc"}, {}),
    Put(OptensorObjs \cup {"opTensor_desc"}), Ok>>
-----------------------------------------------------------------------------
(* What the three kinds of transform share: a copy into the workspace, the *)
(* padding with zeros, the copy to a strided output, and the scaling.      *)

ContiguousInput ==
  Maybe(<<Get({"input_desc"}), Call(mluOpContiguous), Put({"input_desc"})>>)

PadInput ==
  Maybe(<<Cnnl({"input_desc", "padded_input_desc", "cnnl_input_desc",
                "cnnl_padded_input_desc", "cnnl_handle"}, {})>>)

CopyOutput ==
  Maybe(<<Cnnl({"copy_src_desc", "copy_dst_desc", "cnnl_copy_src_desc",
                "cnnl_copy_dst_desc", "cnnl_handle"}, {"output"})>>)

ScaleOutput ==
  Maybe(<<Cnnl({"c_desc", "cnnl_output_desc", "cnnl_handle"}, {})>>)

\* computeFFT2dMatMulColumn and its kin never destroy cnnl_d_desc, and free
\* the memory of neither product.
MatMulColumn(then) ==
  <<Get(MatMulObjs \cup {"column_d_desc"}), Try, Maybe(<<Malloc>>),
    Run(MatMulObjs \cup {"column_d_desc"}, {}), Put(MatMulObjs)>>
  \o then \o <<Ok>>
MatMulRow(then) ==
  <<Get(MatMulObjs), Unchecked, Malloc, Run(MatMulObjs, {}), Put(MatMulObjs)>>
  \o then \o <<Ok>>

FourMatMuls ==
  <<Call(fftMatMul), Call(fftMatMul), Call(fftMatMul), Call(fftMatMul)>>
-----------------------------------------------------------------------------
(* kernels/fft/c2c_fft/c2c_fft_host.cpp                                    *)

makeFFT1dContiguousInput == <<ContiguousInput, Ok>>
makeFFT2dContiguousInput == <<ContiguousInput, Ok>>
padFFT1dContiguousInput  == <<PadInput, Ok>>
padFFT2dContiguousInput  == <<PadInput, Ok>>

\* the status of the first of two transpositions is overwritten
transposeFFT1dPaddedInput ==
  <<Choose({<<Call(fftTranspose)>>,
            <<CallDropped(fftTranspose), Call(fftTranspose)>>, <<>>}), Ok>>

computeFFT1dMatmulResult ==
  <<Choose({FourMatMuls \o <<Call(fftOptensor), Call(fftOptensor)>>,
            FourMatMuls, <<Call(fftBatchMatMulBcast)>>}), Ok>>

mergeFFT1dOutput          == <<Maybe(<<KernelCall>>), Ok>>
transposeFFT1dOutput      == <<Maybe(<<Call(fftTranspose)>>), Ok>>
makeFFT1dContiguousOutput == <<CopyOutput, Ok>>
makeFFT2dContiguousOutput == <<CopyOutput, Ok>>

\* Bluestein transforms its auxiliary signal as a batch of one
execFFTc2c1d ==
  <<Either(<<Kernel>>,
           <<Kernel, Kernel, Resize, Kernel, Resized,
             Kernel, Kernel, Kernel, Kernel, Kernel>>), Ok>>

kernelFFT2dBluesteinRow ==
  <<Resize, Kernel, Kernel, Kernel, Kernel, Kernel, Resized, Ok>>
kernelFFT2dBluesteinColumn ==
  <<Resize, Kernel, Kernel, Kernel, Kernel, Kernel, Resized, Ok>>

\* cnrtQueueSync around the kernel
SyncedKernel == <<Unchecked, KernelCall, Unchecked>>
computeFFT2dMatMulColumn == MatMulColumn(SyncedKernel)
computeFFT2dMatMulRow    == MatMulRow(SyncedKernel)

execFFTc2c2d ==
  LET signal  == Maybe(<<Kernel, Kernel, Resize, Kernel>>)
      rows    == Choose({<<>>, <<Kernel>>, <<Call(kernelFFT2dBluesteinRow)>>})
      columns == Choose({<<>>, <<Kernel>>,
                         <<Call(kernelFFT2dBluesteinColumn)>>})
  IN <<Choose({
         <<signal, signal, Resized,
           Either(<<Repeat(<<rows, columns>>)>>,
                  <<Repeat(<<columns, rows>>)>>)>>,
         <<Call(computeFFT2dMatMulRow), Call(computeFFT2dMatMulColumn)>>,
         <<Call(computeFFT2dMatMulColumn), Call(computeFFT2dMatMulRow)>>}),
       Ok>>

execFFT1d ==
  <<Either(<<Call(makeFFT1dContiguousInput), Call(padFFT1dContiguousInput),
             Call(transposeFFT1dPaddedInput), Call(computeFFT1dMatmulResult),
             Call(mergeFFT1dOutput), Call(transposeFFT1dOutput),
             Call(makeFFT1dContiguousOutput)>>,
           <<Call(makeFFT1dContiguousInput),
             Maybe(<<Call(padFFT1dContiguousInput)>>), Call(execFFTc2c1d),
             ScaleOutput, Call(makeFFT1dContiguousOutput)>>), Ok>>

\* a side of length one is copied
execFFT2d ==
  <<Maybe(<<Call(makeFFT2dContiguousInput)>>),
    Maybe(<<Call(padFFT2dContiguousInput)>>), ScaleOutput,
    Call(execFFTc2c2d), ScaleOutput,
    Maybe(<<Call(makeFFT2dContiguousOutput)>>), Ok>>
-----------------------------------------------------------------------------
(* kernels/fft/rfft/rfft_host.cpp                                          *)

makeRFFT1dContiguousInput  == <<ContiguousInput, Ok>>
makeRFFT2dContiguousInput  == <<ContiguousInput, Ok>>
padRFFT1dContiguousInput   == <<PadInput, Ok>>
makeRFFT1dContiguousOutput == <<CopyOutput, Ok>>
makeRFFT2dContiguousOutput == <<CopyOutput, Ok>>

transposeRFFT1dPaddedInput == <<Maybe(<<Call(fftTranspose)>>), Ok>>

computeRFFT1dMatmulResult ==
  <<Choose({<<Call(fftMatMul)>>, <<Call(fftMatMul), Call(fftMatMul)>>,
            <<Call(fftBatchMatMulBcast)>>}), Ok>>

mergeRFFT1dOutput == <<Maybe(<<KernelCall>>), Ok>>
execFFTr2c1d      == <<KernelCall, Ok>>

execRFFT1d ==
  <<Either(<<Call(makeRFFT1dContiguousInput), Call(padRFFT1dContiguousInput),
             Call(transposeRFFT1dPaddedInput),
             Call(computeRFFT1dMatmulResult), Call(mergeRFFT1dOutput),
             Call(makeRFFT1dContiguousOutput)>>,
           <<Call(makeRFFT1dContiguousInput),
             Maybe(<<Call(padRFFT1dContiguousInput)>>), Call(execFFTr2c1d),
             ScaleOutput, Call(makeRFFT1dContiguousOutput)>>), Ok>>

computeFFT2dMatMulColumnR2C == MatMulColumn(<<KernelCall>>)
computeFFT2dMatMulRowR2C    == MatMulRow(<<>>)

\* a transform of length one pads each number with a zero imaginary part
PadToComplex ==
  Cnnl({"input_desc", "padded_output_desc", "cnnl_input_desc",
        "cnnl_padded_output_desc", "cnnl_handle"}, {})

execRFFT2d ==
  <<Either(<<Call(makeRFFT2dContiguousInput),
             Choose({<<PadToComplex, Repeat(<<Kernel>>)>>,
                     <<Repeat(<<Kernel>>)>>, <<PadToComplex>>,
                     <<Repeat(<<Kernel, Kernel>>)>>}),
             ScaleOutput, Call(makeRFFT2dContiguousOutput)>>,
           <<Call(computeFFT2dMatMulRowR2C),
             Call(computeFFT2dMatMulColumnR2C), ScaleOutput>>), Ok>>
-----------------------------------------------------------------------------
(* kernels/fft/irfft/irfft_host.cpp                                        *)

makeIRFFT1dContiguousInput  == <<ContiguousInput, Ok>>
makeIRFFT2dContiguousInput  == <<ContiguousInput, Ok>>
padIRFFT1dContiguousInput   == <<PadInput, Ok>>
padIRFFT2dContiguousInput   == <<PadInput, Ok>>
makeIRFFT1dContiguousOutput == <<CopyOutput, Ok>>
makeIRFFT2dContiguousOutput == <<CopyOutput, Ok>>

\* The status of fftOptensor is overwritten, and concat_output_desc is not
\* destroyed.
mergeIRFFT1dInput ==
  LET slices == {"ss_input_desc", "ss_output_desc", "cnnl_ss_input_desc",
                 "cnnl_ss_output_desc", "cnnl_handle"}
      concat == {"concat_output_desc", "cnnl_concat_output_desc"}
  IN <<Maybe(<<Call(fftTranspose), Get(slices), Run(slices, {}),
               CallDropped(fftOptensor), Get(concat),
               Run(slices \cup concat, {}),
               Put(slices \cup {"cnnl_concat_output_desc"})>>), Ok>>

transposeIRFFT1dPaddedInput == <<Maybe(<<Call(fftTranspose)>>), Ok>>

computeIRFFT1dMatmulResult ==
  <<Choose({<<Call(fftMatMul)>>, FourMatMuls, <<Call(fftBatchMatMulBcast)>>}),
    Ok>>

mergeIRFFT1dOutput == <<Maybe(<<KernelCall>>), Ok>>

execIRFFT1d ==
  <<Either(<<Call(makeIRFFT1dContiguousInput),
             Call(padIRFFT1dContiguousInput), Call(mergeIRFFT1dInput),
             Call(transposeIRFFT1dPaddedInput),
             Call(computeIRFFT1dMatmulResult), Call(mergeIRFFT1dOutput),
             Call(makeIRFFT1dContiguousOutput)>>,
           <<Call(makeIRFFT1dContiguousInput),
             Maybe(<<Call(padIRFFT1dContiguousInput)>>), Kernel, ScaleOutput,
             Call(makeIRFFT1dContiguousOutput)>>), Ok>>

computeFFT2dMatMulColumnC2R == MatMulColumn(<<KernelCall>>)
computeFFT2dMatMulRowC2R    == MatMulRow(<<>>)

\* a transform of length one takes the real parts out
RealParts ==
  Block(<<Get({"input_desc"}), Call(mluOpContiguous), Put({"input_desc"})>>)

execIRFFT2d ==
  <<Either(<<Call(makeIRFFT2dContiguousInput),
             Maybe(<<Call(padIRFFT2dContiguousInput)>>),
             Choose({<<RealParts>>, <<Repeat(<<Kernel>>), RealParts>>,
                     <<Repeat(<<Kernel>>)>>, <<Repeat(<<Kernel, Kernel>>)>>}),
             ScaleOutput, Call(makeIRFFT2dContiguousOutput)>>,
           <<Call(computeFFT2dMatMulColumnC2R),
             Call(computeFFT2dMatMulRowC2R), ScaleOutput>>), Ok>>
-----------------------------------------------------------------------------
(* How a plan is made: of the queries that size the workspace, only the    *)
(* status of the last is returned.                                         *)

makeFFT1dPolicy ==
  LET product == Either(<<CallDropped(fftGetMatMulWorkspaceSize)>>,
                        <<CallDropped(fftGetBatchMatMulBcastWorkspaceSize)>>)
  IN <<Refuse,
       Choose({<<No>>,
               <<CallDropped(fftGetTransposeWorkspaceSize),
                 CallDropped(fftGetMatMulWorkspaceSize),
                 CallDropped(fftGetOptensorWorkspaceSize),
                 Call(fftGetTransposeWorkspaceSize)>>,
               <<CallDropped(fftGetTransposeWorkspaceSize),
                 CallDropped(fftGetTransposeWorkspaceSize), product,
                 Call(fftGetOptensorWorkspaceSize)>>}), Ok>>

makeRFFT1dPolicy ==
  <<Refuse,
    Choose({<<No>>, <<Call(fftGetMatMulWorkspaceSize)>>,
            <<CallDropped(fftGetTransposeWorkspaceSize),
              Either(<<Call(fftGetMatMulWorkspaceSize)>>,
                     <<Call(fftGetBatchMatMulBcastWorkspaceSize)>>)>>}), Ok>>

makeIRFFT1dPolicy ==
  LET product == Either(<<CallDropped(fftGetMatMulWorkspaceSize)>>,
                        <<CallDropped(fftGetBatchMatMulBcastWorkspaceSize)>>)
  IN <<Refuse,
       Choose({<<No>>, <<Call(fftGetMatMulWorkspaceSize)>>,
               <<CallDropped(fftGetTransposeWorkspaceSize),
                 CallDropped(fftGetTransposeWorkspaceSize), product,
                 Call(fftGetOptensorWorkspaceSize)>>}), Ok>>

\* CNRT_CHECK: an allocation or a copy that fails is logged
HostTables == Unchecked

mluOpCreateFFTPlan ==
  <<Try, Take({"plan"}), HostTables, Read({"fft_plan"}), Give({"plan"}), Ok>>

\* The plan takes over the two descriptors, also when the call is refused.
mluOpMakeFFTPlanMany ==
  <<NotNull({"handle"}), NotNull({"fft_plan"}),
    NotNull({"input_desc", "output_desc", "n", "reservespace_size",
             "workspace_size"}), Refuse, Alter({"fft_plan"}),
    Check({"input_desc", "output_desc"}), Alter({"fft_plan"}), Refuse,
    Get({"fft_input_desc", "fft_output_desc"}),
    Give({"fft_input_desc", "fft_output_desc"}), Refuse,
    Choose({<<HostTables>>, <<Call(makeFFT1dPolicy)>>,
            <<Call(makeRFFT1dPolicy)>>, <<Call(makeIRFFT1dPolicy)>>}),
    Read({"reservespace_size", "workspace_size"}), Ok>>

\* launches of the kernels that make DFT matrices, or copies of the tables
setFFT1dReserveArea ==
  <<Choose({<<KernelCall>>, <<No>>, <<HostTables>>}), Ok>>
setRFFT1dReserveArea ==
  <<Choose({<<KernelCall>>, <<No>>, <<HostTables>>}), Ok>>
setIRFFT1dReserveArea ==
  <<Choose({<<KernelCall>>, <<No>>, <<HostTables>>}), Ok>>
setFFT2dReserveArea == <<Either(<<No>>, <<HostTables>>), Ok>>

mluOpSetFFTReserveArea ==
  <<NotNull({"handle"}), NotNull({"fft_plan"}), NotNull({"reservespace"}),
    Alter({"fft_plan"}),
    Choose({<<Call(setFFT1dReserveArea)>>, <<Call(setRFFT1dReserveArea)>>,
            <<Call(setIRFFT1dReserveArea)>>, <<Call(setFFT2dReserveArea)>>,
            <<No>>}), Ok>>

\* The status of exec* is kept until the case is closed; that of an in-place
\* call that would overwrite its input is overwritten by it.
mluOpExecFFT ==
  LET Exec(p)     == <<Unchecked, CallOr(p, <<End, No>>)>>
      unsupported == <<End, No>>
  IN <<NotNull({"handle"}), NotNull({"fft_plan"}), MayReturn, Refuse, Refuse,
       On({"input", "output"}), NotNullIf({"workspace"}),
       NotNullIf({"input"}), NotNull({"output"}),
       Choose({unsupported, Exec(execRFFT1d), Exec(execRFFT2d),
               Exec(execFFT1d), Exec(execFFT2d), Exec(execIRFFT1d),
               Exec(execIRFFT2d)}), End, Ok>>

\* the descriptors of the plan first, then its tables
mluOpDestroyFFTPlan ==
  <<NotNull({"fft_plan"}), Maybe(<<Try>>), Maybe(<<Try>>),
    Either(<<HostTables>>, <<No>>), Ok>>

FFTApi ==
  [mluOpCreateFFTPlan |-> mluOpCreateFFTPlan,
   mluOpMakeFFTPlanMany |-> mluOpMakeFFTPlanMany,
   mluOpSetFFTReserveArea |-> mluOpSetFFTReserveArea,
   mluOpExecFFT |-> mluOpExecFFT,
   mluOpDestroyFFTPlan |-> mluOpDestroyFFTPlan]
=============================================================================

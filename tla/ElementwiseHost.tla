---------------------------- MODULE ElementwiseHost ----------------------------
(***************************************************************************)
(* The host code of the operators that work element by element: what they  *)
(* share (unary_op, binary_op), abs, div, lgamma, log, logspace, sqrt,     *)
(* adam_w, focal_loss_sigmoid and tensor_stride_process.                   *)
(***************************************************************************)
EXTENDS HostCall

\* mutant: the result is not compared with NULL
MutUnaryOpParamCheck ==
  <<NotNull({"handle", "x_desc", "y_desc"}), Check({"x_desc", "y_desc"}),
    ReturnEmpty, Check({"handle"}), NotNull({"x"}), Ok>>

\* kernels/unary_op/unary_op_host.cpp, kernels/binary_op/binary_op_host.cpp
unaryOpParamCheck ==
  <<NotNull({"handle", "x_desc", "y_desc"}), Check({"x_desc", "y_desc"}),
    ReturnEmpty, Check({"handle"}), NotNull({"x", "y"}), Ok>>

binaryOpParamSameShapeCheck(input1_desc, input2_desc, output_desc) ==
  <<Check({input1_desc, input2_desc, output_desc}), Ok>>

binaryOpParamCheck(input1_desc, input1, input2_desc, input2, output_desc, output) ==
  <<NotNull({"handle", input1_desc, input2_desc, output_desc}),
    Check({input1_desc, input2_desc, output_desc}),
    Either(<<Refuse>>,
           <<Call(binaryOpParamSameShapeCheck(input1_desc, input2_desc,
                                              output_desc))>>), ReturnEmpty,
    NotNull({input1, input2, output}), Check({"handle"}), Ok>>

\* kernels/abs/abs.cpp
mluOpAbsParamCheck ==
  <<NotNull({"handle", "x_desc", "y_desc"}),
    Check({"handle", "x_desc", "y_desc"}), ReturnEmpty, Refuse,
    NotNull({"x", "y"}), Ok>>

mluOpAbs ==
  <<Call(mluOpAbsParamCheck), ReturnIfEmpty, On({"x", "y"}), Check({"x_desc"}),
    Work({"x", "y"}), End, Ok>>

\* mutants: the case is left open; it does not describe the result
MutDivUnclosed ==
  <<Call(binaryOpParamCheck("x_desc", "x", "y_desc", "y", "z_desc", "z")),
    Check({"x_desc", "y_desc", "z_desc"}), ReturnIfEmpty,
    On({"x", "y", "z"}), Work({"x", "y", "z"}), Ok>>

MutDivUndescribed ==
  <<Call(binaryOpParamCheck("x_desc", "x", "y_desc", "y", "z_desc", "z")),
    Check({"x_desc", "y_desc", "z_desc"}), ReturnIfEmpty,
    On({"x", "y"}), Work({"x", "y", "z"}), End, Ok>>

\* kernels/div/div.cpp
mluOpDiv ==
  <<Call(binaryOpParamCheck("x_desc", "x", "y_desc", "y", "z_desc", "z")),
    Check({"x_desc", "y_desc", "z_desc"}), ReturnIfEmpty,
    On({"x", "y", "z"}), Work({"x", "y", "z"}), End, Ok>>

\* kernels/lgamma/lgamma.cpp
mluOpLgamma ==
  <<Call(unaryOpParamCheck), ReturnIfEmpty, On({"x", "y"}),
    Check({"handle", "x_desc", "y_desc"}), Work({"x", "y"}), End, Ok>>

\* kernels/log/log.cpp: the base is tested when the case is open
mluOpLog ==
  <<Call(unaryOpParamCheck), Check({"x_desc", "y_desc"}), ReturnIfEmpty,
    On({"x", "y"}), Refuse, Work({"x", "y"}), End, Ok>>

\* kernels/logspace/logspace.cpp
LogspaceParamCheck ==
  <<NotNull({"handle", "res_desc"}), Check({"res_desc"}), Ok>>

mluOpLogspace ==
  <<Call(LogspaceParamCheck), MayReturn, On({"res"}), Work({"res"}), End, Ok>>

\* mutant: a refused call leaves x_desc as a float one
MutSqrt ==
  <<Refuse, NotNull({"x_desc", "y_desc"}), Read({"x_desc", "y_desc"}),
    Either(<<NotNull({"handle"}), Call(unaryOpParamCheck)>>,
           <<Alter({"x_desc"}), NotNull({"handle"}), Call(unaryOpParamCheck),
             Restore({"x_desc"})>>),
    Check({"x_desc", "y_desc"}), ReturnIfEmpty, On({"x", "y"}),
    Work({"x", "y"}), End, Ok>>

\* kernels/sqrt/sqrt.cpp: an int32 input is a float one during the check
mluOpSqrt ==
  <<Refuse, NotNull({"x_desc", "y_desc"}), Read({"x_desc", "y_desc"}),
    Either(<<NotNull({"handle"}), Call(unaryOpParamCheck)>>,
           <<Alter({"x_desc"}), NotNull({"handle"}),
             CallOr(unaryOpParamCheck, <<Restore({"x_desc"}), No>>),
             Restore({"x_desc"})>>),
    Check({"x_desc", "y_desc"}), ReturnIfEmpty, On({"x", "y"}),
    Work({"x", "y"}), End, Ok>>

\* zero_element is not looked at
mluOpSqrtBackward ==
  <<Call(binaryOpParamCheck("y_desc", "y", "dy_desc", "diff_y", "dx_desc",
                            "diff_x")), Check({"dx_desc", "dy_desc", "y_desc"}),
    On({"diff_x", "diff_y", "y"}), Work({"diff_x", "diff_y", "y"}), End, Ok>>

\* kernels/adam_w/adam_w.cpp
mluOpCreateAdamWDescriptor  == <<NotNull({"adamw_desc"}), Try, Ok>>
mluOpSetAdamWDescAttr       == <<NotNull({"buf"}), Refuse, Read({"adamw_desc"}), Ok>>
mluOpDestroyAdamWDescriptor == <<NotNull({"desc"}), Ok>>

mluOpAdamW ==
  <<NotNull({"handle", "param_desc", "momentum_desc", "velocity_desc",
             "grad_desc"}),
    Check({"handle", "adamw_desc", "param_desc", "paramh_or_step_desc",
           "momentum_desc", "velocity_desc", "grad_desc"}),
    Optional({"param", "paramh_or_step"}), Refuse,
    NotNull({"momentum", "velocity", "grad"}),
    Optional({"paramh_or_step_desc"}), Refuse,
    On({"param", "paramh_or_step", "momentum", "velocity", "grad"}),
    Work({"param", "paramh_or_step", "momentum", "velocity", "grad"}),
    End, Ok>>

\* kernels/focal_loss_sigmoid/focal_loss_sigmoid.cpp
checkFocalLossSigmoidForwardValidation ==
  <<Check({"input_desc", "output_desc", "target_desc"}),
    Optional({"weight_desc"}), Maybe(<<Check({"weight_desc"})>>), Refuse, Ok>>

mluOpFocalLossSigmoidForward ==
  <<NotNull({"handle", "input_desc", "output_desc", "target_desc"}), Refuse,
    Call(checkFocalLossSigmoidForwardValidation), MayReturn,
    NotNullIf({"weight"}), Refuse, NotNull({"input", "output", "target"}),
    Check({"input_desc", "output_desc", "target_desc"}),
    On({"input", "target", "weight", "output"}),
    Work({"input", "target", "weight", "output"}), End, Ok>>

checkParams ==
  <<Check({"input_desc", "output_desc", "target_desc"}),
    Optional({"weight_desc"}), Maybe(<<Check({"weight_desc"})>>), Refuse,
    Maybe(<<Check({"weight_desc"})>>), Ok>>

mluOpFocalLossSigmoidBackward ==
  <<NotNull({"handle", "input_desc", "output_desc", "target_desc"}),
    Call(checkParams), Refuse, NotNullIf({"weight"}),
    Check({"handle", "input_desc", "target_desc"}), MayReturn,
    NotNull({"input", "output", "target"}),
    On({"input", "target", "weight", "output"}),
    Work({"input", "target", "weight", "output"}), End, Ok>>

\* kernels/tensor_stride_process/tensor_stride_process_host.cpp
mluOpTensorStrideIn ==
  <<Check({"handle", "input_desc"}), Work({"input", "output"}), Ok>>

mluOpTensorStrideOut ==
  <<Check({"handle", "input_desc"}), Work({"input", "output"}), Ok>>

\* temp_desc is created, set and destroyed, and no status is looked at
mluOpContiguous ==
  <<Read({"input_desc"}), Unchecked, Read({"handle"}),
    Cnnl({"cnnl_handle", "cnnl_input_desc", "cnnl_temp_desc"},
         {"input", "output"}), Unchecked, Ok>>

\* The operations of this module that mlu_op.h or kernels/ declare.
ElementwiseApi ==
  [mluOpAbs |-> mluOpAbs,
   mluOpDiv |-> mluOpDiv,
   mluOpLgamma |-> mluOpLgamma,
   mluOpLog |-> mluOpLog,
   mluOpLogspace |-> mluOpLogspace,
   mluOpSqrt |-> mluOpSqrt,
   mluOpSqrtBackward |-> mluOpSqrtBackward,
   mluOpCreateAdamWDescriptor |-> mluOpCreateAdamWDescriptor,
   mluOpSetAdamWDescAttr |-> mluOpSetAdamWDescAttr,
   mluOpDestroyAdamWDescriptor |-> mluOpDestroyAdamWDescriptor,
   mluOpAdamW |-> mluOpAdamW,
   mluOpFocalLossSigmoidForward |-> mluOpFocalLossSigmoidForward,
   mluOpFocalLossSigmoidBackward |-> mluOpFocalLossSigmoidBackward,
   mluOpTensorStrideIn |-> mluOpTensorStrideIn,
   mluOpTensorStrideOut |-> mluOpTensorStrideOut,
   mluOpContiguous |-> mluOpContiguous]
=============================================================================

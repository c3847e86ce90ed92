------------------------------- MODULE ImageHost -------------------------------
(*****************************************************************************)
(* The host code of the operators on images and their filters.  The CNNL    *)
(* descriptor of an argument that is NULL is not made (core/cnnl_helper.h), *)
(* so the arguments handed to CNNL untested are optional here.              *)
(*****************************************************************************)
EXTENDS HostCall

\* kernels/active_rotated_filter/active_rotated_filter.cpp
mluOpGetActiveRotatedFilterForwardWorkspaceSize ==
  <<NotNull({"handle", "input_desc", "workspace_size"}), Ok>>

activeRotatedFilterForwardParamCheck ==
  <<NotNull({"handle", "indices_desc", "input_desc", "output_desc"}),
    Check({"indices_desc", "input_desc", "output_desc"}),
    NotNullIf({"workspace"}), NotNull({"indices", "input", "output"}), Ok>>

mluOpActiveRotatedFilterForward ==
  <<Call(activeRotatedFilterForwardParamCheck),
    On({"indices", "input", "output"}),
    Work({"indices", "input", "output", "workspace"}), End, Ok>>

\* kernels/carafe/carafe.cpp
mluOpCreateCarafeDescriptor ==
  <<NotNull({"carafe_desc"}), Ok>>

mluOpSetCarafeDescriptor ==
  <<NotNull({"carafe_desc"}), Check({"carafe_desc"}), Ok>>

mluOpDestroyCarafeDescriptor ==
  <<NotNull({"carafe_desc"}), Ok>>

genPolicy ==
  <<Check({"handle", "carafe_desc", "input_desc"}), Ok>>

CarafeForwardParamCheck ==
  <<NotNull({"handle", "carafe_desc", "input_desc", "mask_desc",
             "output_desc"}),
    Check({"carafe_desc", "input_desc", "mask_desc", "output_desc"}),
    ReturnEmpty, NotNull({"input", "mask", "output"}), Ok>>

CarafeBackwardParamCheck ==
  <<NotNull({"handle", "carafe_desc", "grad_input_desc", "grad_mask_desc",
             "grad_output_desc", "input_desc", "mask_desc"}),
    Check({"carafe_desc", "grad_input_desc", "grad_mask_desc",
           "grad_output_desc", "input_desc", "mask_desc"}), ReturnEmpty,
    NotNull({"grad_input", "grad_mask", "grad_output", "input", "mask"}),
    Refuse, Ok>>

mluOpCarafeForward ==
  <<Call(CarafeForwardParamCheck), ReturnIfEmpty, Call(genPolicy),
    Check({"input_desc", "mask_desc", "output_desc"}),
    On({"input", "mask", "output"}), Work({"input", "mask", "output"}), End,
    Ok>>

mluOpCarafeBackward ==
  <<Call(CarafeBackwardParamCheck), ReturnIfEmpty,
    Check({"grad_input_desc", "grad_mask_desc", "grad_output_desc",
           "input_desc", "mask_desc"}),
    On({"grad_input", "grad_mask", "grad_output", "input", "mask"}),
    Fill({"grad_input"}),
    Work({"grad_input", "grad_mask", "grad_output", "input", "mask"}), End,
    Ok>>

\* kernels/deform_conv/dcn_common/dcn_common.cpp
mluOpCreateDCNDescriptor ==
  <<NotNull({"dcn_desc"}), Try, Ok>>

mluOpDestroyDCNDescriptor ==
  <<NotNull({"dcn_desc"}), Try, Ok>>

mluOpSetDCNDescriptor ==
  <<NotNull({"dcn_desc"}), Try, Ok>>

\* kernels/deform_conv/dcn_forward/dcn_forward.cpp
mluOpGetDCNForwardWorkspaceSize ==
  <<NotNull({"handle", "dcn_desc", "filter_desc", "input_desc", "offset_desc",
             "output_desc", "size"}), Optional({"bias_desc", "mask_desc"}),
    CnnlAsk({"cnnl_bias_desc", "cnnl_filter_desc", "cnnl_handle",
             "cnnl_input_desc", "cnnl_mask_desc", "cnnl_offset_desc",
             "cnnl_output_desc"}), Ok>>

mluOpDCNForward ==
  <<NotNull({"handle"}), NotNullIf({"workspace"}),
    Optional({"bias_desc", "filter_desc", "input_desc", "mask_desc", "offset_desc",
          "output_desc"}),
    Cnnl({"cnnl_bias_desc", "cnnl_filter_desc", "cnnl_handle",
          "cnnl_input_desc", "cnnl_mask_desc", "cnnl_offset_desc",
          "cnnl_output_desc"},
        {"bias", "filter", "input", "mask", "offset", "output", "workspace"}),
    Ok>>

\* kernels/deform_conv/dcn_backward_data/dcn_backward_data.cpp
mluOpGetDCNBakcwardDataWorkspaceSize ==
  <<NotNull({"handle", "dcn_desc", "filter_desc", "grad_input_desc",
             "grad_offset_desc", "grad_output_desc", "input_desc",
             "offset_desc"}), Optional({"grad_mask_desc", "mask_desc"}),
    CnnlAsk({"cnnl_filter_desc", "cnnl_grad_input_desc", "cnnl_grad_mask_desc",
             "cnnl_grad_offset_desc", "cnnl_grad_output_desc", "cnnl_handle",
             "cnnl_input_desc", "cnnl_mask_desc", "cnnl_offset_desc"}), Ok>>

mluOpDCNBackwardData ==
  <<NotNull({"handle"}), NotNullIf({"workspace"}),
    Optional({"filter_desc", "grad_input_desc", "grad_mask_desc",
          "grad_offset_desc", "grad_output_desc", "input_desc", "mask_desc",
          "offset_desc"}),
    Cnnl({"cnnl_filter_desc", "cnnl_grad_input_desc", "cnnl_grad_mask_desc",
          "cnnl_grad_offset_desc", "cnnl_grad_output_desc", "cnnl_handle",
          "cnnl_input_desc", "cnnl_mask_desc", "cnnl_offset_desc"},
        {"filter", "grad_input", "grad_mask", "grad_offset", "grad_output",
         "input", "mask", "offset", "workspace"}), Ok>>

\* kernels/deform_conv/dcn_backward_weight/dcn_backward_weight.cpp
mluOpGetDCNBackwardWeightWorkspaceSize ==
  <<NotNull({"handle", "dcn_desc"}),
    Optional({"grad_bias_desc", "grad_filter_desc", "grad_output_desc",
              "input_desc", "mask_desc", "offset_desc"}),
    CnnlAsk({"_grad_bias_desc", "_grad_filter_desc", "_grad_output_desc",
             "_handle", "_input_desc", "_mask_desc", "_offset_desc"}), Ok>>

mluOpDCNBackwardWeight ==
  <<NotNull({"handle"}), NotNullIf({"workspace"}),
    Optional({"grad_bias_desc", "grad_filter_desc", "grad_output_desc",
              "input_desc", "mask_desc", "offset_desc"}),
    Cnnl({"cnnl_grad_bias_desc", "cnnl_grad_filter_desc",
          "cnnl_grad_output_desc", "cnnl_handle", "cnnl_input_desc",
          "cnnl_mask_desc", "cnnl_offset_desc"},
        {"grad_bias", "grad_filter", "grad_output", "input", "mask", "offset",
         "workspace"}), Ok>>

\* kernels/masked_im2col/masked_im2col_forward/masked_im2col_forward.cpp
maskedIm2colForwardPreCheck ==
  <<NotNull({"handle", "data_col_desc", "feature_desc", "mask_h_idx_desc",
             "mask_w_idx_desc"}),
    Check({"data_col_desc", "feature_desc", "mask_h_idx_desc",
           "mask_w_idx_desc"}), Ok>>

mluOpGetMaskedIm2colForwardWorkspaceSize ==
  <<NotNull({"workspace_size"}), Call(maskedIm2colForwardPreCheck),
    Check({"data_col_desc", "feature_desc", "mask_h_idx_desc"}), MayReturn,
    Get({"trans_desc"}), Try, CnnlAsk({"cnnl_handle", "cnnl_x_desc"}),
    Get({"data_col_HWC_desc_tmp"}), Try, Get({"cnnl_handle", "cnnl_x_desc"}),
    Try,
    Put({"cnnl_handle", "cnnl_x_desc", "data_col_HWC_desc_tmp", "trans_desc"}),
    Ok>>

transposeTensor_masked_im2col_forward(input_desc, input, workspace_dst_desc, workspace_dst) ==
  <<Read({input_desc}), Get({"trans_desc"}), Try, Read({"handle"}),
    CnnlAsk({"cnnl_handle", "cnnl_x_desc"}), Read({workspace_dst_desc}),
    Get({"cnnl_handle", "cnnl_x_desc", "cnnl_y_desc"}),
    Run({"cnnl_handle", "cnnl_x_desc", "cnnl_y_desc", "trans_desc"},
        {input, "transpose_workspace", workspace_dst}),
    Put({"cnnl_handle", "cnnl_x_desc", "cnnl_y_desc", "trans_desc"}), Ok>>

mluOpMaskedIm2colForward ==
  <<Call(maskedIm2colForwardPreCheck),
    Check({"data_col_desc", "feature_desc", "mask_h_idx_desc"}), MayReturn,
    NotNullIf({"workspace"}),
    NotNull({"data_col", "feature", "mask_h_idx", "mask_w_idx"}),
    On({"data_col", "feature", "mask_h_idx", "mask_w_idx"}),
    Fill({"workspace"}), Get({"feature_desc_tmp"}), Try,
    Call(transposeTensor_masked_im2col_forward("feature_desc", "feature",
             "feature_desc_tmp", "workspace")), Put({"feature_desc_tmp"}),
    Work({"mask_h_idx", "mask_w_idx", "workspace"}),
    Get({"data_col_CHW_desc_tmp", "data_col_HWC_desc_tmp"}), Try,
    Call(transposeTensor_masked_im2col_forward("data_col_HWC_desc_tmp",
             "workspace", "data_col_CHW_desc_tmp", "data_col")),
    Put({"data_col_CHW_desc_tmp", "data_col_HWC_desc_tmp"}), End, Ok>>

\* kernels/masked_im2col/masked_col2im_forward/masked_col2im_forward.cpp
maskedCol2imForwardPreCheck ==
  <<NotNull({"col_desc", "im_desc", "mask_h_idx_desc", "mask_w_idx_desc"}),
    Check({"col_desc", "im_desc", "mask_h_idx_desc", "mask_w_idx_desc"}), Ok>>

mluOpGetMaskedCol2imForwardWorkspaceSize ==
  <<NotNull({"handle", "workspace_size"}), Call(maskedCol2imForwardPreCheck),
    Check({"col_desc", "im_desc", "mask_h_idx_desc"}), MayReturn,
    Get({"col_MC_desc_tmp"}), Try, Get({"trans_desc"}), Try,
    CnnlAsk({"cnnl_handle", "cnnl_x_desc"}), Get({"im_NHWC_desc_tmp"}), Try,
    Get({"cnnl_handle", "cnnl_x_desc"}), Try,
    Put({"cnnl_handle", "cnnl_x_desc", "col_MC_desc_tmp", "im_NHWC_desc_tmp",
         "trans_desc"}), Ok>>

transposeTensor_masked_col2im_forward(input_desc, input, workspace_dst_desc, workspace_dst) ==
  <<Read({input_desc}), Get({"trans_desc"}), Try, Read({"handle"}),
    CnnlAsk({"cnnl_handle", "cnnl_x_desc"}), Read({workspace_dst_desc}),
    Get({"cnnl_handle", "cnnl_x_desc", "cnnl_y_desc"}),
    Run({"cnnl_handle", "cnnl_x_desc", "cnnl_y_desc", "trans_desc"},
        {input, "transpose_workspace", workspace_dst}),
    Put({"cnnl_handle", "cnnl_x_desc", "cnnl_y_desc", "trans_desc"}), Ok>>

mluOpMaskedCol2imForward ==
  <<NotNull({"handle"}), Call(maskedCol2imForwardPreCheck),
    Check({"col_desc", "im_desc", "mask_h_idx_desc"}),
    Maybe(<<Fill({"im"}), Ok>>), NotNullIf({"workspace"}),
    NotNull({"col", "im", "mask_h_idx", "mask_w_idx"}),
    On({"col", "im", "mask_h_idx", "mask_w_idx"}), Get({"im_NHWC_desc_tmp"}),
    Try, Fill({"workspace"}), Get({"col_MC_desc_tmp"}), Try,
    Call(transposeTensor_masked_col2im_forward("col_desc", "col",
             "col_MC_desc_tmp", "workspace")), Put({"col_MC_desc_tmp"}),
    Work({"mask_h_idx", "mask_w_idx", "workspace"}),
    Call(transposeTensor_masked_col2im_forward("im_NHWC_desc_tmp", "workspace",
             "im_desc", "im")), Put({"im_NHWC_desc_tmp"}), End, Ok>>

\* kernels/psamask/psamask.cpp
findLimit ==
  <<Check({"handle"}), Ok>>

checkParams_psamask(input_desc, output_desc) ==
  <<Check({input_desc, output_desc}), Ok>>

mluOpPsamaskForward ==
  <<NotNull({"handle", "x_desc", "y_desc"}),
    CallOr(checkParams_psamask("x_desc", "y_desc"), <<No>>),
    Check({"x_desc", "y_desc"}), MayReturn, NotNull({"x", "y"}),
    On({"x", "y"}), CallOr(findLimit, <<End, No>>), Work({"x", "y"}), End, Ok>>

mluOpPsamaskBackward ==
  <<NotNull({"handle", "dx_desc", "dy_desc"}),
    CallOr(checkParams_psamask("dx_desc", "dy_desc"), <<No>>),
    Check({"dx_desc", "dy_desc"}), MayReturn, NotNull({"dx", "dy"}),
    On({"dx", "dy"}), CallOr(findLimit, <<End, No>>),
    Work({"dx", "dy"}), End, Ok>>

\* kernels/rotated_feature_align/rotated_feature_align.cpp
RotatedFeatureAlignForwardPreCheck ==
  <<NotNull({"handle", "bboxes_desc", "input_desc", "output_desc"}),
    Check({"bboxes_desc", "input_desc", "output_desc"}), Ok>>

RotatedFeatureAlignBackwardPreCheck ==
  <<NotNull({"handle", "bboxes_desc", "bottom_input_desc", "top_output_desc"}),
    Check({"bboxes_desc", "bottom_input_desc", "top_output_desc"}), Ok>>

mluOpRotatedFeatureAlignForward ==
  <<Call(RotatedFeatureAlignForwardPreCheck), Refuse,
    NotNull({"bboxes", "input", "output"}), On({"bboxes", "input", "output"}),
    Work({"bboxes", "input", "output"}), End, Ok>>

mluOpRotatedFeatureAlignBackward ==
  <<Call(RotatedFeatureAlignBackwardPreCheck),
    NotNull({"bboxes", "bottom_input", "top_output"}),
    On({"bboxes", "bottom_input", "top_output"}), Fill({"bottom_input"}),
    Work({"bboxes", "bottom_input", "top_output"}), End, Ok>>

\* kernels/tin_shift/tin_shift.cpp
TinShiftPreCheck(input_desc, output_desc) ==
  <<Check({input_desc, output_desc, "shifts_desc"}), Ok>>

mluOpTinShiftForward ==
  <<NotNull({"handle", "input_desc", "output_desc", "shifts_desc"}),
    Call(TinShiftPreCheck("input_desc", "output_desc")), MayReturn,
    NotNull({"input", "output", "shifts"}),
    On({"input", "output", "shifts"}), Work({"input", "output", "shifts"}),
    End, Ok>>

mluOpTinShiftBackward ==
  <<NotNull({"handle", "grad_input_desc", "grad_output_desc", "shifts_desc"}),
    Call(TinShiftPreCheck("grad_output_desc", "grad_input_desc")), MayReturn,
    NotNull({"grad_input", "grad_output", "shifts"}),
    On({"grad_input", "grad_output", "shifts"}),
    Work({"grad_input", "grad_output", "shifts"}), End, Ok>>

\* The operations of this module that mlu_op.h or kernels/ declare.
ImageApi ==
  [mluOpGetActiveRotatedFilterForwardWorkspaceSize |-> mluOpGetActiveRotatedFilterForwardWorkspaceSize,
   mluOpActiveRotatedFilterForward |-> mluOpActiveRotatedFilterForward,
   mluOpCreateCarafeDescriptor |-> mluOpCreateCarafeDescriptor,
   mluOpSetCarafeDescriptor |-> mluOpSetCarafeDescriptor,
   mluOpDestroyCarafeDescriptor |-> mluOpDestroyCarafeDescriptor,
   mluOpCarafeForward |-> mluOpCarafeForward,
   mluOpCarafeBackward |-> mluOpCarafeBackward,
   mluOpCreateDCNDescriptor |-> mluOpCreateDCNDescriptor,
   mluOpDestroyDCNDescriptor |-> mluOpDestroyDCNDescriptor,
   mluOpSetDCNDescriptor |-> mluOpSetDCNDescriptor,
   mluOpGetDCNForwardWorkspaceSize |-> mluOpGetDCNForwardWorkspaceSize,
   mluOpDCNForward |-> mluOpDCNForward,
   mluOpGetDCNBakcwardDataWorkspaceSize |-> mluOpGetDCNBakcwardDataWorkspaceSize,
   mluOpDCNBackwardData |-> mluOpDCNBackwardData,
   mluOpGetDCNBackwardWeightWorkspaceSize |-> mluOpGetDCNBackwardWeightWorkspaceSize,
   mluOpDCNBackwardWeight |-> mluOpDCNBackwardWeight,
   mluOpGetMaskedIm2colForwardWorkspaceSize |-> mluOpGetMaskedIm2colForwardWorkspaceSize,
   mluOpMaskedIm2colForward |-> mluOpMaskedIm2colForward,
   mluOpGetMaskedCol2imForwardWorkspaceSize |-> mluOpGetMaskedCol2imForwardWorkspaceSize,
   mluOpMaskedCol2imForward |-> mluOpMaskedCol2imForward,
   mluOpPsamaskForward |-> mluOpPsamaskForward,
   mluOpPsamaskBackward |-> mluOpPsamaskBackward,
   mluOpRotatedFeatureAlignForward |-> mluOpRotatedFeatureAlignForward,
   mluOpRotatedFeatureAlignBackward |-> mluOpRotatedFeatureAlignBackward,
   mluOpTinShiftForward |-> mluOpTinShiftForward,
   mluOpTinShiftBackward |-> mluOpTinShiftBackward]
=============================================================================

-------------------------------- MODULE RoiHost --------------------------------
(*****************************************************************************)
(* The host code of the operators that pool the features of regions: their  *)
(* checks, the CNNL operators two of them hand over to, and the launches.   *)
(*****************************************************************************)
EXTENDS HostCall

\* kernels/border_align/border_align_forward/border_align_forward.cpp
mluOpBorderAlignForward ==
  <<NotNull({"handle", "argmax_idx_desc", "boxes_desc", "input_desc",
             "output_desc"}),
    Check({"argmax_idx_desc", "boxes_desc", "input_desc", "output_desc"}),
    NotNull({"argmax_idx", "boxes", "input", "output"}),
    On({"argmax_idx", "boxes", "input", "output"}),
    Work({"argmax_idx", "boxes", "input", "output"}), End, Ok>>

\* kernels/border_align/border_align_backward/border_align_backward.cpp
mluOpBorderAlignBackward ==
  <<NotNull({"handle", "argmax_idx_desc", "boxes_desc", "grad_input_desc",
             "grad_output_desc"}),
    Check({"argmax_idx_desc", "boxes_desc", "grad_input_desc",
           "grad_output_desc"}),
    NotNull({"argmax_idx", "boxes", "grad_input", "grad_output"}),
    On({"argmax_idx", "boxes", "grad_input", "grad_output"}),
    Fill({"grad_input"}),
    Work({"argmax_idx", "boxes", "grad_input", "grad_output"}), End, Ok>>

\* kernels/deform_roi_pool/deform_roi_pool.cpp
DeformRoiPoolForwardPreCheck ==
  <<Check({"input_desc", "offset_desc", "output_desc", "rois_desc"}),
    Optional({"offset_desc"}), Refuse, Ok>>

DeformRoiPoolBackwardPreCheck ==
  <<Check({"grad_input_desc", "grad_offset_desc", "grad_output_desc",
           "input_desc", "offset_desc", "rois_desc"}),
    Optional({"offset", "offset_desc"}), Refuse,
    Optional({"grad_offset", "grad_offset_desc"}), Refuse,
    NotNullIf({"grad_offset_desc"}), Refuse, Ok>>

mluOpDeformRoiPoolForward ==
  <<NotNull({"handle", "input_desc", "output_desc", "rois_desc"}),
    Call(DeformRoiPoolForwardPreCheck), Optional({"offset"}),
    Check({"input_desc", "output_desc", "rois_desc"}), MayReturn,
    NotNull({"input", "output", "rois"}),
    On({"input", "offset", "output", "rois"}),
    Work({"input", "offset", "output", "rois"}), End, Ok>>

mluOpDeformRoiPoolBackward ==
  <<NotNull({"handle", "grad_input_desc", "grad_output_desc", "input_desc",
             "rois_desc"}), Call(DeformRoiPoolBackwardPreCheck),
    Check({"grad_output_desc", "input_desc", "rois_desc"}), MayReturn,
    NotNull({"grad_input", "grad_output", "input", "rois"}),
    On({"grad_input", "grad_offset", "grad_output", "input", "offset",
        "rois"}), Fill({"grad_input"}), Maybe(<<Fill({"grad_offset"})>>),
    Work({"grad_input", "grad_offset", "grad_output", "input", "offset",
          "rois"}), End, Ok>>

\* kernels/psroipool/psroipool.cpp
psRoiPoolForwardParamCheck ==
  <<NotNull({"handle", "input_desc", "mapping_channel_desc", "output_desc",
             "rois_desc"}),
    Check({"input_desc", "mapping_channel_desc", "output_desc", "rois_desc"}),
    Ok>>

psRoiPoolBackwardParamCheck ==
  <<NotNull({"handle", "bottom_grad_desc", "mapping_channel_desc", "rois_desc",
             "top_grad_desc"}),
    Check({"bottom_grad_desc", "mapping_channel_desc", "rois_desc",
           "top_grad_desc"}), Ok>>

mluOpPsRoiPoolForward ==
  <<Call(psRoiPoolForwardParamCheck), MayReturn, Check({"rois_desc"}),
    NotNull({"input", "mapping_channel", "output", "rois"}),
    On({"input", "mapping_channel", "output", "rois"}),
    Work({"input", "mapping_channel", "output", "rois"}), End, Ok>>

mluOpPsRoiPoolBackward ==
  <<Call(psRoiPoolBackwardParamCheck),
    Check({"bottom_grad_desc", "mapping_channel_desc", "rois_desc",
           "top_grad_desc"}), MayReturn,
    NotNull({"bottom_grad", "mapping_channel", "rois", "top_grad"}),
    On({"bottom_grad", "mapping_channel", "rois", "top_grad"}),
    Fill({"bottom_grad"}),
    Work({"bottom_grad", "mapping_channel", "rois", "top_grad"}), End, Ok>>

\* kernels/roi_align/roialign_forward/roialign_forward.cpp
mluOpCreateRoiAlignForwardDescriptor ==
  <<NotNull({"desc"}), Try, Ok>>

mluOpDestroyRoiAlignForwardDescriptor ==
  <<NotNull({"desc"}), Try, Ok>>

mluOpSetRoiAlignForwardDescriptor_v2 ==
  <<NotNull({"desc"}), Try, Ok>>

mluOpRoiAlignForward_v2 ==
  <<NotNull({"handle", "boxes", "boxes_desc", "input", "input_desc", "output",
             "output_desc", "roialign_desc"}),
    Optional({"argmax_x_desc", "argmax_y_desc"}),
    Cnnl({"cnnl_argmax_x_desc", "cnnl_argmax_y_desc", "cnnl_boxes_desc",
          "cnnl_handle", "cnnl_input_desc", "cnnl_output_desc"},
        {"argmax_x", "argmax_y", "boxes", "input", "output"}), Ok>>

\* kernels/roi_align/roi_align_backward/roi_align_backward.cpp
mluOpRoiAlignBackward ==
  <<No>>

mluOpRoiAlignBackward_v2 ==
  <<NotNull({"handle", "boxes", "boxes_desc", "grads", "grads_desc",
             "grads_image", "grads_image_desc"}),
    Get({"cnnl_boxes_desc", "cnnl_grads_desc", "cnnl_grads_image_desc",
         "cnnl_handle"}),
    Either(
      <<NotNull({"argmax_x", "argmax_x_desc", "argmax_y", "argmax_y_desc"}),
        Get({"cnnl_argmax_x_desc", "cnnl_argmax_y_desc"}),
        Run({"cnnl_argmax_x_desc", "cnnl_argmax_y_desc", "cnnl_boxes_desc",
             "cnnl_grads_desc", "cnnl_grads_image_desc", "cnnl_handle"},
            {"argmax_x", "argmax_y", "boxes", "grads", "grads_image"}),
        Put({"cnnl_boxes_desc", "cnnl_grads_desc", "cnnl_grads_image_desc",
             "cnnl_argmax_x_desc", "cnnl_argmax_y_desc"})>>,
      <<Run({"cnnl_boxes_desc", "cnnl_grads_desc", "cnnl_grads_image_desc",
             "cnnl_handle"},
            {"boxes", "grads", "grads_image"}),
        Put({"cnnl_boxes_desc", "cnnl_grads_desc",
             "cnnl_grads_image_desc"})>>),
    Put({"cnnl_handle"}), Ok>>

\* kernels/roi_align_rotated/roi_align_rotated.cpp
mluOpRoiAlignRotatedForward ==
  <<NotNull({"handle", "features_desc", "output_desc", "rois_desc"}),
    Check({"features_desc", "output_desc", "rois_desc"}), MayReturn,
    NotNull({"features", "output", "rois"}),
    On({"features", "output", "rois"}), Work({"features", "output", "rois"}),
    End, Ok>>

mluOpRoiAlignRotatedBackward ==
  <<NotNull({"handle", "bottom_grad_desc", "rois_desc", "top_grad_desc"}),
    Check({"bottom_grad_desc", "rois_desc", "top_grad_desc"}), MayReturn,
    NotNull({"bottom_grad", "rois", "top_grad"}),
    On({"bottom_grad", "rois", "top_grad"}), Fill({"bottom_grad"}),
    Work({"bottom_grad", "rois", "top_grad"}), End, Ok>>

\* kernels/roi_crop/roi_crop.cpp
RoiCropForwardParamCheck ==
  <<NotNull({"handle", "grid_desc", "input_desc", "output_desc"}),
    Check({"grid_desc", "input_desc", "output_desc"}),
    NotNull({"grid", "input", "output"}), Ok>>

RoiCropBackwardParamCheck ==
  <<NotNull({"handle", "grad_input_desc", "grad_output_desc", "grid_desc"}),
    Check({"grad_input_desc", "grad_output_desc", "grid_desc"}),
    NotNull({"grad_input", "grad_output", "grid"}), Ok>>

mluOpRoiCropForward ==
  <<Call(RoiCropForwardParamCheck), On({"grid", "input", "output"}),
    Work({"grid", "input", "output"}), End, Ok>>

mluOpRoiCropBackward ==
  <<Call(RoiCropBackwardParamCheck), On({"grad_input", "grad_output", "grid"}),
    Fill({"grad_input"}), Work({"grad_input", "grad_output", "grid"}), End,
    Ok>>

\* kernels/roi_pooling/roi_pooling_forward/roi_pooling_forward.cpp
mluOpRoiPoolingForward ==
  <<NotNull({"handle", "argmax", "input", "input_desc", "output",
             "output_desc", "rois", "rois_desc"}),
    Cnnl({"cnnl_handle", "cnnl_input_desc", "cnnl_output_desc",
          "cnnl_rois_desc"}, {"argmax", "input", "output", "rois"}), Ok>>

\* kernels/roi_pooling/roi_pooling_backward/roi_pooling_backward.cpp
mluOpRoiPoolingBackward ==
  <<NotNull({"handle", "argmax", "argmax_desc", "grads", "grads_desc",
             "grads_image", "grads_image_desc", "rois", "rois_desc"}),
    Cnnl({"cnnl_argmax_desc", "cnnl_grads_desc", "cnnl_grads_image_desc",
          "cnnl_handle", "cnnl_rois_desc"},
        {"argmax", "grads", "grads_image", "rois"}), Ok>>

\* kernels/roiaware_pool3d/roiaware_pool3d.cpp
kernelPtsIdxOfVoxelsPolicyFunc ==
  <<Read({"handle", "pts_idx_of_voxels_desc"}), Ok>>

kernelRoiawarePool3dForwardPolicyFunc ==
  <<Read({"handle", "pooled_features_desc"}), Ok>>

kernelRoiawarePool3dBackwardPolicyFunc ==
  <<Read({"handle", "grad_out_desc"}), Ok>>

transposeTensor_roiaware_pool3d(input_desc, input, workspace_dst_desc, workspace_dst) ==
  <<Read({input_desc}), Get({"trans_desc"}), Try, Read({"handle"}),
    CnnlAsk({"cnnl_handle", "cnnl_x_desc"}), Read({workspace_dst_desc}),
    Get({"cnnl_handle", "cnnl_x_desc", "cnnl_y_desc"}),
    Run({"cnnl_handle", "cnnl_x_desc", "cnnl_y_desc", "trans_desc"},
        {input, "transpose_workspace", workspace_dst}),
    Put({"cnnl_handle", "cnnl_x_desc", "cnnl_y_desc", "trans_desc"}), Ok>>

mluOpGetRoiAwarePool3dForwardWorkspaceSize ==
  <<NotNull({"handle", "pts_feature_desc", "workspace_size"}), MayReturn, Ok>>

mluOpRoiAwarePool3dForward ==
  <<NotNull({"handle", "pooled_features_desc", "pts_desc", "pts_feature_desc",
             "pts_idx_of_voxels_desc", "rois_desc"}),
    Check({"argmax_desc", "pooled_features_desc", "pts_desc",
           "pts_feature_desc", "pts_idx_of_voxels_desc", "rois_desc"}),
    Optional({"workspace"}), Refuse,
    NotNull({"pooled_features", "pts", "pts_feature", "pts_idx_of_voxels",
             "rois"}), NotNullIf({"argmax", "argmax_desc"}), Check({"handle"}),
    On({"argmax", "pooled_features", "pts", "pts_feature", "pts_idx_of_voxels",
        "rois"}), Get({"pts_desc_tmp"}), Try,
    Call(transposeTensor_roiaware_pool3d("pts_desc", "pts", "pts_desc_tmp",
             "workspace")), Put({"pts_desc_tmp"}),
    Get({"pts_feature_desc_tmp"}), Try,
    Call(transposeTensor_roiaware_pool3d("pts_feature_desc", "pts_feature",
             "pts_feature_desc_tmp", "workspace")),
    Put({"pts_feature_desc_tmp"}), Fill({"argmax"}),
    Fill({"pts_idx_of_voxels"}), Fill({"pooled_features"}),
    CallOr(kernelPtsIdxOfVoxelsPolicyFunc, <<End, No>>),
    Work({"pts_idx_of_voxels", "rois", "workspace"}),
    CallOr(kernelRoiawarePool3dForwardPolicyFunc, <<End, No>>),
    Work({"argmax", "pooled_features", "pts_idx_of_voxels", "workspace"}), End,
    Ok>>

mluOpRoiAwarePool3dBackward ==
  <<NotNull({"handle", "argmax_desc", "grad_in_desc", "grad_out_desc",
             "pts_idx_of_voxels_desc"}),
    Check({"argmax_desc", "grad_in_desc", "grad_out_desc",
           "pts_idx_of_voxels_desc"}),
    NotNull({"argmax", "grad_in", "grad_out", "pts_idx_of_voxels"}),
    Check({"handle"}),
    On({"argmax", "grad_in", "grad_out", "pts_idx_of_voxels"}),
    Fill({"grad_in"}), CallOr(kernelRoiawarePool3dBackwardPolicyFunc, <<End, No>>),
    Work({"argmax", "grad_in", "grad_out", "pts_idx_of_voxels"}), End, Ok>>

mluOpGetRoiawarePool3dForwardWorkspaceSize ==
  <<Call(mluOpGetRoiAwarePool3dForwardWorkspaceSize), Ok>>

mluOpRoiawarePool3dForward ==
  <<Call(mluOpRoiAwarePool3dForward), Ok>>

mluOpRoiawarePool3dBackward ==
  <<Call(mluOpRoiAwarePool3dBackward), Ok>>

\* kernels/roipoint_pool3d/roipoint_pool3d.cpp
paramcheck ==
  <<Check({"boxes3d_desc", "point_features_desc", "points_desc",
           "pooled_empty_flag_desc", "pooled_features_desc"}), Ok>>

mluOpGetRoiPointPool3dWorkspaceSize ==
  <<NotNull({"handle", "boxes3d_desc", "point_features_desc", "points_desc",
             "pooled_empty_flag_desc", "pooled_features_desc", "size"}),
    Call(paramcheck),
    Check({"boxes3d_desc", "point_features_desc", "points_desc",
           "pooled_empty_flag_desc", "pooled_features_desc", "size"}),
    Get({"trans_desc"}), Try, CnnlAsk({"cnnl_handle", "cnnl_x_desc"}),
    Get({"cnnl_handle", "cnnl_x_desc"}), Try,
    Put({"cnnl_handle", "cnnl_x_desc", "trans_desc"}), Ok>>

mluOpRoiPointPool3d ==
  <<NotNull({"handle", "boxes3d_desc", "point_features_desc", "points_desc",
             "pooled_empty_flag_desc", "pooled_features_desc"}),
    Call(paramcheck), NotNullIf({"workspace"}),
    Check({"boxes3d_desc", "point_features_desc", "points_desc",
           "pooled_empty_flag_desc", "pooled_features_desc"}),
    NotNull({"boxes3d", "point_features", "points", "pooled_empty_flag",
             "pooled_features"}),
    On({"boxes3d", "point_features", "points", "pooled_empty_flag",
        "pooled_features"}), Get({"output_transpose_desc"}), Try,
    Get({"trans_desc"}), Try, CnnlAsk({"cnnl_handle", "cnnl_x_desc"}),
    Get({"cnnl_handle", "cnnl_x_desc", "cnnl_y_desc"}),
    Run({"cnnl_handle", "cnnl_x_desc", "cnnl_y_desc", "trans_desc"},
        {"points", "workspace"}),
    Put({"cnnl_handle", "cnnl_x_desc", "cnnl_y_desc"}), Try,
    CnnlAsk({"cnnl_handle", "cnnl_x_desc"}),
    Get({"cnnl_handle", "cnnl_x_desc", "cnnl_y_desc"}),
    Run({"cnnl_handle", "cnnl_x_desc", "cnnl_y_desc", "trans_desc"},
        {"point_features", "workspace"}),
    Put({"cnnl_handle", "cnnl_x_desc", "cnnl_y_desc", "output_transpose_desc",
         "trans_desc"}),
    Work({"boxes3d", "pooled_empty_flag", "pooled_features", "workspace"}),
    End, Ok>>

\* The operations of this module that mlu_op.h or kernels/ declare.
RoiApi ==
  [mluOpBorderAlignForward |-> mluOpBorderAlignForward,
   mluOpBorderAlignBackward |-> mluOpBorderAlignBackward,
   mluOpDeformRoiPoolForward |-> mluOpDeformRoiPoolForward,
   mluOpDeformRoiPoolBackward |-> mluOpDeformRoiPoolBackward,
   mluOpPsRoiPoolForward |-> mluOpPsRoiPoolForward,
   mluOpPsRoiPoolBackward |-> mluOpPsRoiPoolBackward,
   mluOpCreateRoiAlignForwardDescriptor |-> mluOpCreateRoiAlignForwardDescriptor,
   mluOpDestroyRoiAlignForwardDescriptor |-> mluOpDestroyRoiAlignForwardDescriptor,
   mluOpSetRoiAlignForwardDescriptor_v2 |-> mluOpSetRoiAlignForwardDescriptor_v2,
   mluOpRoiAlignForward_v2 |-> mluOpRoiAlignForward_v2,
   mluOpRoiAlignBackward |-> mluOpRoiAlignBackward,
   mluOpRoiAlignBackward_v2 |-> mluOpRoiAlignBackward_v2,
   mluOpRoiAlignRotatedForward |-> mluOpRoiAlignRotatedForward,
   mluOpRoiAlignRotatedBackward |-> mluOpRoiAlignRotatedBackward,
   mluOpRoiCropForward |-> mluOpRoiCropForward,
   mluOpRoiCropBackward |-> mluOpRoiCropBackward,
   mluOpRoiPoolingForward |-> mluOpRoiPoolingForward,
   mluOpRoiPoolingBackward |-> mluOpRoiPoolingBackward,
   mluOpGetRoiAwarePool3dForwardWorkspaceSize |-> mluOpGetRoiAwarePool3dForwardWorkspaceSize,
   mluOpRoiAwarePool3dForward |-> mluOpRoiAwarePool3dForward,
   mluOpRoiAwarePool3dBackward |-> mluOpRoiAwarePool3dBackward,
   mluOpGetRoiawarePool3dForwardWorkspaceSize |-> mluOpGetRoiawarePool3dForwardWorkspaceSize,
   mluOpRoiawarePool3dForward |-> mluOpRoiawarePool3dForward,
   mluOpRoiawarePool3dBackward |-> mluOpRoiawarePool3dBackward,
   mluOpGetRoiPointPool3dWorkspaceSize |-> mluOpGetRoiPointPool3dWorkspaceSize,
   mluOpRoiPointPool3d |-> mluOpRoiPointPool3d]
=============================================================================

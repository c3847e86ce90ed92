------------------------------- MODULE BoxesHost -------------------------------
(*****************************************************************************)
(* The host code of the operators on boxes: overlaps, proposals, the three  *)
(* suppressions of overlapping boxes, prior_box and yolo_box.               *)
(*****************************************************************************)
EXTENDS HostCall

\* kernels/bbox_overlaps/bbox_overlaps.cpp
mluOpBboxOverlaps ==
  <<NotNull({"handle", "bbox1_desc", "bbox2_desc", "ious_desc"}),
    Check({"bbox1_desc", "bbox2_desc", "ious_desc"}), MayReturn, Refuse,
    NotNull({"bbox1", "bbox2", "ious"}), On({"bbox1", "bbox2", "ious"}),
    Work({"bbox1", "bbox2", "ious"}), End, Ok>>

\* kernels/box_iou_rotated/box_iou_rotated.cpp
mluOpBoxIouRotated ==
  <<NotNull({"handle", "box1_desc", "box2_desc", "ious_desc"}),
    Check({"box1_desc", "box2_desc", "ious_desc"}),
    MayReturn, Refuse,
    NotNull({"box1", "box2", "ious"}), On({"box1", "box2", "ious"}),
    Work({"box1", "box2", "ious"}), End, Ok>>

\* kernels/box_overlap_bev/box_overlap_bev.cpp
mluOpBoxOverlapBev ==
  <<NotNull({"handle", "boxes1_desc", "boxes2_desc", "overlaps_desc"}),
    Check({"boxes1_desc", "boxes2_desc", "overlaps_desc"}), MayReturn,
    NotNull({"boxes1", "boxes2", "overlaps"}), Refuse,
    On({"boxes1", "boxes2", "overlaps"}),
    Work({"boxes1", "boxes2", "overlaps"}), End, Ok>>

\* kernels/diff_iou_rotated_sort_vertices_forward/diff_iou_rotated_sort_vertices_forward.cpp
diffIouRotatedSortVerticesForwardParamCheck ==
  <<NotNull({"handle"}), Check({"handle"}),
    NotNull({"idx_desc", "mask_desc", "num_valid_desc", "vertices_desc"}),
    Check({"idx_desc", "mask_desc", "num_valid_desc", "vertices_desc"}),
    ReturnEmpty, Refuse,
    NotNull({"idx", "mask", "num_valid", "vertices"}), Ok>>

mluOpDiffIouRotatedSortVerticesForward ==
  <<Call(diffIouRotatedSortVerticesForwardParamCheck), ReturnIfEmpty,
    On({"idx", "mask", "num_valid", "vertices"}),
    Work({"idx", "mask", "num_valid", "vertices"}), End, Ok>>

\* kernels/generate_proposals_v2/generate_proposals_v2.cpp
mluOpGetGenerateProposalsV2WorkspaceSize ==
  <<NotNull({"handle", "scores_desc", "size"}),
    Check({"handle", "scores_desc"}),
    Maybe(<<CnnlAsk({"cnnl_handle", "origin_indices_desc", "sorted_index_desc",
                     "sorted_score_desc"})>>), Ok>>

mluOpGetGenerateProposalsV2WorkspaceSize_v2 ==
  <<NotNull({"handle", "scores_desc", "size"}),
    Check({"handle", "scores_desc"}),
    Maybe(<<CnnlAsk({"cnnl_handle", "origin_indices_desc", "sorted_index_desc",
                     "sorted_score_desc"})>>), Ok>>

mluOpGenerateProposalsV2 ==
  <<NotNull({"handle", "anchors_desc", "bbox_deltas_desc", "im_shape_desc",
             "rpn_roi_probs_desc", "rpn_rois_batch_size", "rpn_rois_desc",
             "rpn_rois_num_desc", "scores_desc", "variances_desc"}),
    Check({"anchors_desc", "bbox_deltas_desc", "im_shape_desc",
           "rpn_roi_probs_desc", "rpn_rois_desc", "rpn_rois_num_desc",
           "scores_desc", "variances_desc"}), MayReturn,
    NotNull({"anchors", "bbox_deltas", "im_shape", "rpn_roi_probs", "rpn_rois",
             "rpn_rois_batch_size", "rpn_rois_num", "scores", "variances"}),
    NotNullIf({"workspace"}), Refuse,
    On({"anchors", "bbox_deltas", "im_shape", "rpn_roi_probs", "rpn_rois",
        "rpn_rois_batch_size", "rpn_rois_num", "scores", "variances"}),
    Either(<<Get({"cnnl_handle", "origin_indices_desc", "sorted_index_desc",
                  "sorted_score_desc"}), Try,
             Run({"cnnl_handle", "origin_indices_desc", "sorted_index_desc",
                  "sorted_score_desc"}, {"scores", "workspace"}),
             Put({"cnnl_handle", "origin_indices_desc", "sorted_index_desc",
                  "sorted_score_desc"}),
             Work({"anchors", "bbox_deltas", "im_shape", "rpn_roi_probs",
                   "rpn_rois", "rpn_rois_batch_size", "rpn_rois_num",
                   "variances", "workspace"})>>,
        <<Work({"anchors", "bbox_deltas", "im_shape", "rpn_roi_probs",
                "rpn_rois", "rpn_rois_batch_size", "rpn_rois_num", "scores",
                "variances", "workspace"})>>), End, Ok>>

\* kernels/nms/nms.cpp
mluOpCreateNmsDescriptor ==
  <<NotNull({"desc"}), Try, Ok>>

mluOpDestroyNmsDescriptor ==
  <<NotNull({"desc"}), Try, Ok>>

mluOpSetNmsDescriptor ==
  <<NotNull({"nms_desc"}), Try, Ok>>

mluOpGetNmsWorkspaceSize ==
  <<NotNull({"handle", "boxes_desc", "workspace_size"}),
    Get({"cnnl_handle", "cnnl_boxes_desc"}), Optional({"confidence_desc"}),
    Either(<<Try, Put({"cnnl_boxes_desc"})>>,
           <<Get({"cnnl_confidence_desc"}), Try, Put({"cnnl_boxes_desc"}),
             Put({"cnnl_confidence_desc"})>>), Put({"cnnl_handle"}), Ok>>

mluOpNms ==
  <<NotNull({"handle", "boxes", "boxes_desc", "nms_desc", "output",
             "output_desc", "output_size"}),
    Get({"cnnl_boxes_desc", "cnnl_handle", "cnnl_output_desc"}),
    Optional({"confidence_desc"}),
    Either(<<Run({"cnnl_handle", "cnnl_boxes_desc", "cnnl_output_desc"},
                 {"boxes", "confidence", "output", "output_size", "workspace"}),
             Put({"cnnl_boxes_desc", "cnnl_output_desc"})>>,
           <<Get({"cnnl_confidence_desc"}),
             Run({"cnnl_handle", "cnnl_boxes_desc", "cnnl_output_desc",
                  "cnnl_confidence_desc"},
                 {"boxes", "confidence", "output", "output_size", "workspace"}),
             Put({"cnnl_boxes_desc", "cnnl_output_desc",
                  "cnnl_confidence_desc"})>>), Put({"cnnl_handle"}), Ok>>

\* kernels/nms_rotated/nms_rotated.cpp
mluOpGetNmsRotatedWorkspaceSize ==
  <<NotNull({"handle", "boxes_desc", "workspace_size"}), Ok>>

mluOpNmsRotated ==
  <<NotNull({"handle", "boxes_desc", "output_desc", "scores_desc"}),
    Check({"boxes_desc", "output_desc", "scores_desc"}), MayReturn,
    NotNull({"boxes", "output", "result_num", "scores"}),
    NotNullIf({"workspace"}), On({"boxes", "output", "result_num", "scores"}),
    Work({"boxes", "output", "result_num", "scores", "workspace"}), End, Ok>>

\* kernels/poly_nms/poly_nms.cpp
mluOpGetPolyNmsWorkspaceSize ==
  <<NotNull({"handle", "boxes_desc", "size"}), Check({"boxes_desc", "size"}),
    Ok>>

mluOpPolyNms ==
  <<NotNull({"handle", "boxes_desc", "output_desc", "output_size"}),
    Check({"boxes_desc", "output_desc"}),
    Maybe(<<Work({"output_size"}), Ok>>), NotNull({"boxes", "output"}), NotNullIf({"workspace"}),
    Refuse, On({"boxes", "output", "output_size"}),
    \* void functions: nothing tells that a launch failed
    CallDropped(<<Work({"boxes", "workspace"}), Ok>>),
    CallDropped(<<Work({"boxes", "workspace"}), Ok>>),
    CallDropped(<<Work({"output", "output_size", "workspace"}), Ok>>),
    End, Ok>>

\* kernels/prior_box/prior_box.cpp
mluOpPriorBoxParamCheck ==
  <<NotNull({"handle", "aspect_ratios_desc", "max_sizes_desc",
             "min_sizes_desc", "output_desc", "var_desc", "variances_desc"}),
    Check({"handle", "aspect_ratios_desc", "max_sizes_desc", "min_sizes_desc",
           "output_desc", "var_desc", "variances_desc"}), Ok>>

mluOpPriorBox ==
  <<Call(mluOpPriorBoxParamCheck),
    Check({"aspect_ratios_desc", "min_sizes_desc", "output_desc", "var_desc",
           "variances_desc"}), MayReturn,
    NotNull({"aspect_ratios", "min_sizes", "output", "var", "variances"}),
    NotNullIf({"max_sizes"}),
    On({"aspect_ratios", "max_sizes", "min_sizes", "output", "var",
        "variances"}),
    Work({"aspect_ratios", "max_sizes", "min_sizes", "output", "var",
          "variances"}), End, Ok>>

\* kernels/yolo_box/yolo_box.cpp
yoloBoxParamCheck ==
  <<NotNull({"handle", "anchors_desc", "boxes_desc", "img_size_desc",
             "scores_desc", "x_desc"}),
    Check({"handle", "anchors_desc", "boxes_desc", "img_size_desc",
           "scores_desc", "x_desc"}), ReturnEmpty,
    NotNull({"anchors", "boxes", "img_size", "scores", "x"}), Ok>>

mluOpYoloBox ==
  <<Call(yoloBoxParamCheck),
    Check({"anchors_desc", "boxes_desc", "img_size_desc", "scores_desc",
           "x_desc"}), ReturnIfEmpty,
    On({"anchors", "boxes", "img_size", "scores", "x"}), Fill({"boxes"}),
    Fill({"scores"}), Work({"anchors", "boxes", "img_size", "scores", "x"}),
    End, Ok>>

\* The operations of this module that mlu_op.h or kernels/ declare.
BoxesApi ==
  [mluOpBboxOverlaps |-> mluOpBboxOverlaps,
   mluOpBoxIouRotated |-> mluOpBoxIouRotated,
   mluOpBoxOverlapBev |-> mluOpBoxOverlapBev,
   mluOpDiffIouRotatedSortVerticesForward |-> mluOpDiffIouRotatedSortVerticesForward,
   mluOpGetGenerateProposalsV2WorkspaceSize |-> mluOpGetGenerateProposalsV2WorkspaceSize,
   mluOpGetGenerateProposalsV2WorkspaceSize_v2 |-> mluOpGetGenerateProposalsV2WorkspaceSize_v2,
   mluOpGenerateProposalsV2 |-> mluOpGenerateProposalsV2,
   mluOpCreateNmsDescriptor |-> mluOpCreateNmsDescriptor,
   mluOpDestroyNmsDescriptor |-> mluOpDestroyNmsDescriptor,
   mluOpSetNmsDescriptor |-> mluOpSetNmsDescriptor,
   mluOpGetNmsWorkspaceSize |-> mluOpGetNmsWorkspaceSize,
   mluOpNms |-> mluOpNms,
   mluOpGetNmsRotatedWorkspaceSize |-> mluOpGetNmsRotatedWorkspaceSize,
   mluOpNmsRotated |-> mluOpNmsRotated,
   mluOpGetPolyNmsWorkspaceSize |-> mluOpGetPolyNmsWorkspaceSize,
   mluOpPolyNms |-> mluOpPolyNms,
   mluOpPriorBox |-> mluOpPriorBox,
   mluOpYoloBox |-> mluOpYoloBox]
=============================================================================

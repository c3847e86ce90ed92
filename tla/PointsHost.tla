------------------------------- MODULE PointsHost -------------------------------
(*****************************************************************************)
(* The host code of the operators on point clouds.                          *)
(*****************************************************************************)
EXTENDS HostCall

\* kernels/ball_query/ball_query.cpp
mluOpBallQuery ==
  <<Refuse, NotNull({"handle", "idx_desc", "new_xyz_desc", "xyz_desc"}),
    Check({"handle", "idx_desc", "new_xyz_desc", "xyz_desc"}), MayReturn,
    NotNull({"idx", "new_xyz", "xyz"}), On({"idx", "new_xyz", "xyz"}),
    Work({"idx", "new_xyz", "xyz"}), End, Ok>>

\* kernels/dynamic_point_to_voxel/dynamic_point_to_voxel_forward/dynamic_point_to_voxel_forward.cpp
DynamicPointToVoxelForwardParamCheck ==
  <<NotNull({"handle"}), Check({"handle"}),
    NotNull({"coors_desc", "feats_desc", "point2voxel_map_desc",
             "voxel_coors_desc", "voxel_feats_desc", "voxel_num_desc",
             "voxel_points_count_desc"}),
    Check({"coors_desc", "feats_desc", "point2voxel_map_desc",
           "voxel_coors_desc", "voxel_feats_desc", "voxel_num_desc",
           "voxel_points_count_desc"}), ReturnEmpty, NotNullIf({"workspace"}),
    NotNull({"coors", "feats", "point2voxel_map", "voxel_coors", "voxel_feats",
             "voxel_num", "voxel_points_count"}), Ok>>

mluOpGetDynamicPointToVoxelForwardWorkspaceSize ==
  <<NotNull({"handle"}), Check({"handle"}),
    NotNull({"coors_desc", "feats_desc", "workspace_size"}),
    Get({"unique_desc"}), Try, Get({"cnnl_handle", "cnnl_input_desc"}), Try,
    Put({"cnnl_handle", "cnnl_input_desc", "unique_desc"}), Ok>>

mluOpDynamicPointToVoxelForward ==
  <<Call(DynamicPointToVoxelForwardParamCheck), ReturnIfEmpty,
    On({"coors", "feats", "point2voxel_map", "voxel_coors", "voxel_feats",
        "voxel_num", "voxel_points_count"}), Work({"coors"}),
    Get({"unique_desc"}), Try,
    Get({"cnnl_counts_desc", "cnnl_handle", "cnnl_indices_desc",
         "cnnl_input_desc", "cnnl_output_desc"}), Try,
    Run({"cnnl_counts_desc", "cnnl_handle", "cnnl_indices_desc",
         "cnnl_input_desc", "cnnl_output_desc", "unique_desc"},
        {"coors", "point2voxel_map", "voxel_num", "workspace"}),
    Put({"cnnl_counts_desc", "cnnl_handle", "cnnl_indices_desc",
         "cnnl_input_desc", "cnnl_output_desc", "unique_desc"}),
    Fill({"voxel_feats"}),
    Work({"feats", "point2voxel_map", "voxel_coors", "voxel_feats",
          "voxel_num", "voxel_points_count", "workspace"}), End, Ok>>

\* kernels/dynamic_point_to_voxel/dynamic_point_to_voxel_backward/dynamic_point_to_voxel_backward.cpp
DynamicPointToVoxelBackwardParamCheck ==
  <<NotNull({"handle"}), Check({"handle"}),
    NotNull({"feats_desc", "grad_feats_desc", "grad_voxel_feats_desc",
             "point2voxel_map_desc", "voxel_feats_desc", "voxel_num_desc",
             "voxel_points_count_desc"}),
    Check({"feats_desc", "grad_feats_desc", "grad_voxel_feats_desc",
           "point2voxel_map_desc", "voxel_feats_desc", "voxel_num_desc",
           "voxel_points_count_desc"}), ReturnEmpty,
    NotNullIf({"grad_voxel_feats"}), NotNull({"feats"}),
    NotNullIf({"voxel_feats"}), NotNull({"point2voxel_map"}),
    NotNullIf({"voxel_points_count"}), NotNull({"grad_feats", "voxel_num"}),
    NotNullIf({"workspace"}), Ok>>

mluOpDynamicPointToVoxelBackward ==
  <<Call(DynamicPointToVoxelBackwardParamCheck), ReturnIfEmpty,
    On({"feats", "grad_feats", "grad_voxel_feats", "point2voxel_map",
        "voxel_feats", "voxel_num", "voxel_points_count"}),
    Fill({"grad_feats"}),
    Maybe(<<Get({"indices_desc"}), Try, Fill({"workspace"}),
            Work({"feats", "point2voxel_map", "voxel_feats", "voxel_num",
                  "workspace"}), Get({"updates_desc"}), Try,
            Get({"output_desc"}), Try,
            Get({"cnnl_handle", "cnnl_indices_desc", "cnnl_output_desc",
                 "cnnl_updates_desc"}),
            Run({"cnnl_handle", "cnnl_indices_desc", "cnnl_output_desc",
                 "cnnl_updates_desc"},
                {"grad_feats", "grad_voxel_feats", "workspace"}),
            Put({"cnnl_handle", "cnnl_indices_desc", "cnnl_output_desc",
                 "cnnl_updates_desc", "indices_desc", "output_desc",
                 "updates_desc"})>>), End, Ok>>

mluOpGetDynamicPointToVoxelBackwardWorkspaceSize ==
  <<NotNull({"handle"}), Check({"handle"}),
    NotNull({"feats_desc", "grad_voxel_feats_desc", "point2voxel_map_desc",
             "voxel_feats_desc", "voxel_num_desc", "voxel_points_count_desc",
             "workspace_size"}), Ok>>

\* kernels/points_in_boxes/points_in_boxes.cpp
pointsInBoxesPreCheck ==
  <<Check({"boxes_desc", "points_desc", "points_indices_desc"}), Ok>>

mluOpPointsInBoxes ==
  <<NotNull({"handle", "boxes_desc", "points_desc", "points_indices_desc"}),
    Call(pointsInBoxesPreCheck), MayReturn,
    NotNull({"boxes", "points", "points_indices"}), Check({"handle"}),
    On({"boxes", "points", "points_indices"}),
    Work({"boxes", "points", "points_indices"}), End, Ok>>

\* kernels/three_interpolate/three_interpolate.cpp
threeInterpolateForwardParamCheck ==
  <<NotNull({"handle", "features_desc", "indices_desc", "output_desc",
             "weights_desc"}),
    Check({"features_desc", "indices_desc", "output_desc", "weights_desc"}),
    ReturnEmpty, NotNull({"features", "indices", "output", "weights"}), Ok>>

threeInterpolateBackwardParamCheck ==
  <<NotNull({"handle", "grad_features_desc", "grad_output_desc",
             "indices_desc", "weights_desc"}),
    Check({"grad_features_desc", "grad_output_desc", "indices_desc",
           "weights_desc"}), ReturnEmpty,
    NotNull({"grad_features", "grad_output", "indices", "weights"}), Ok>>

mluOpThreeInterpolateForward ==
  <<Call(threeInterpolateForwardParamCheck), ReturnIfEmpty,
    On({"features", "indices", "output", "weights"}),
    Work({"features", "indices", "output", "weights"}), End, Ok>>

mluOpThreeInterpolateBackward ==
  <<Call(threeInterpolateBackwardParamCheck), ReturnIfEmpty,
    On({"grad_features", "grad_output", "indices", "weights"}),
    Work({"grad_features", "grad_output", "indices", "weights"}), End, Ok>>

\* kernels/three_nn_forward/three_nn_forward.cpp
mluOpGetThreeNNForwardWorkspaceSize ==
  <<NotNull({"handle", "known_desc", "workspace_size"}),
    Check({"handle", "known_desc", "workspace_size"}),
    CnnlAsk({"_handle", "_known_desc", "_trans_desc"}), Ok>>

transposeTensor_three_nn_forward(input_desc, input, workspace_dst_desc, workspace_dst) ==
  <<Read({"handle", input_desc, workspace_dst_desc}),
    Get({"cnnl_handle", "cnnl_input_desc", "cnnl_trans_desc",
         "cnnl_workspace_dst_desc"}), Try,
    Run({"cnnl_handle", "cnnl_input_desc", "cnnl_trans_desc",
         "cnnl_workspace_dst_desc"},
        {input, "transpose_workspace", workspace_dst}),
    Put({"cnnl_handle", "cnnl_input_desc", "cnnl_trans_desc",
         "cnnl_workspace_dst_desc"}), Ok>>

threeNNParamCheck ==
  <<NotNull({"handle", "dist2_desc", "idx_desc", "known_desc",
             "unknown_desc"}),
    Check({"dist2_desc", "idx_desc", "known_desc", "unknown_desc"}), MayReturn,
    NotNullIf({"workspace"}), NotNull({"dist2", "idx", "known", "unknown"}),
    Ok>>

mluOpThreeNNForward ==
  <<Call(threeNNParamCheck), On({"dist2", "idx", "known", "unknown"}),
    Get({"known_desc_tmp"}), Try,
    Call(transposeTensor_three_nn_forward("known_desc", "known",
             "known_desc_tmp", "workspace")), Put({"known_desc_tmp"}),
    Work({"dist2", "idx", "unknown", "workspace"}), End, Ok>>

\* kernels/voxel_pooling_forward/voxel_pooling_forward.cpp
VoxelPoolingForwardParamCheck ==
  <<NotNull({"handle", "geom_xyz_desc", "input_features_desc",
             "output_features_desc", "pos_memo_desc"}),
    Check({"geom_xyz_desc", "input_features_desc", "output_features_desc",
           "pos_memo_desc"}),
    NotNull({"geom_xyz", "input_features", "output_features", "pos_memo"}),
    Check({"handle"}), Ok>>

\* mutant: fills the outputs of a call it then refuses
MutVoxelPoolingForward ==
  <<On({"geom_xyz", "input_features", "output_features", "pos_memo"}),
    Fill({"output_features"}), Fill({"pos_memo"}),
    Call(VoxelPoolingForwardParamCheck),
    Work({"geom_xyz", "input_features", "output_features", "pos_memo"}), End,
    Ok>>

mluOpVoxelPoolingForward ==
  <<Call(VoxelPoolingForwardParamCheck),
    On({"geom_xyz", "input_features", "output_features", "pos_memo"}),
    Fill({"output_features"}), Fill({"pos_memo"}),
    Work({"geom_xyz", "input_features", "output_features", "pos_memo"}), End,
    Ok>>

\* kernels/voxelization/voxelization.cpp
voxelizationParamCheck ==
  <<Check({"handle", "coors_desc", "coors_range_desc",
           "num_points_per_voxel_desc", "points_desc", "voxel_num_desc",
           "voxel_size_desc", "voxels_desc"}), ReturnEmpty, Ok>>

mluOpGetVoxelizationWorkspaceSize ==
  <<NotNull({"handle", "coors_desc", "coors_range_desc",
             "num_points_per_voxel_desc", "points_desc", "size",
             "voxel_num_desc", "voxel_size_desc", "voxels_desc"}),
    Call(voxelizationParamCheck), ReturnIfEmpty, Ok>>

mluOpVoxelization ==
  <<NotNull({"handle", "coors_desc", "coors_range_desc",
             "num_points_per_voxel_desc", "points_desc", "voxel_num_desc",
             "voxel_size_desc", "voxels_desc"}), Call(voxelizationParamCheck),
    NotNullIf({"workspace"}), ReturnIfEmpty,
    On({"coors", "coors_range", "num_points_per_voxel", "points", "voxel_num",
        "voxel_size", "voxels"}), Fill({"voxels"}), Fill({"coors"}),
    Fill({"num_points_per_voxel"}),
    Work({"coors_range", "points", "voxel_size", "workspace"}),
    Work({"workspace"}),
    Work({"num_points_per_voxel", "voxel_num", "workspace"}),
    Work({"coors", "points", "voxels", "workspace"}), End, Ok>>

\* The operations of this module that mlu_op.h or kernels/ declare.
PointsApi ==
  [mluOpBallQuery |-> mluOpBallQuery,
   mluOpGetDynamicPointToVoxelForwardWorkspaceSize |-> mluOpGetDynamicPointToVoxelForwardWorkspaceSize,
   mluOpDynamicPointToVoxelForward |-> mluOpDynamicPointToVoxelForward,
   mluOpDynamicPointToVoxelBackward |-> mluOpDynamicPointToVoxelBackward,
   mluOpGetDynamicPointToVoxelBackwardWorkspaceSize |-> mluOpGetDynamicPointToVoxelBackwardWorkspaceSize,
   mluOpPointsInBoxes |-> mluOpPointsInBoxes,
   mluOpThreeInterpolateForward |-> mluOpThreeInterpolateForward,
   mluOpThreeInterpolateBackward |-> mluOpThreeInterpolateBackward,
   mluOpGetThreeNNForwardWorkspaceSize |-> mluOpGetThreeNNForwardWorkspaceSize,
   mluOpThreeNNForward |-> mluOpThreeNNForward,
   mluOpVoxelPoolingForward |-> mluOpVoxelPoolingForward,
   mluOpGetVoxelizationWorkspaceSize |-> mluOpGetVoxelizationWorkspaceSize,
   mluOpVoxelization |-> mluOpVoxelization]
=============================================================================

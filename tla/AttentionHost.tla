----------------------------- MODULE AttentionHost -----------------------------
(*****************************************************************************)
(* The host code of the operators of attention, mixtures of experts, mutual *)
(* information and synchronised batch normalisation.                        *)
(*****************************************************************************)
EXTENDS HostCall

\* kernels/moe_dispatch/moe_dispatch_forward/moe_dispatch_forward.cpp
MoeDispatchForwardParamCheck ==
  <<NotNull({"handle"}), Check({"handle"}),
    NotNull({"dispatch_desc", "gates_desc", "indices_desc", "input_desc",
             "locations_desc"}),
    Check({"dispatch_desc", "gates_desc", "indices_desc", "input_desc",
           "locations_desc"}), ReturnEmpty,
    NotNull({"dispatch", "gates", "indices", "input", "locations"}), Ok>>

mluOpMoeDispatchForward ==
  <<Call(MoeDispatchForwardParamCheck), ReturnIfEmpty,
    On({"dispatch", "gates", "indices", "input", "locations"}),
    Work({"dispatch", "gates", "indices", "input", "locations"}), End, Ok>>

\* kernels/moe_dispatch/moe_dispatch_backward_data/moe_dispatch_backward_data.cpp
mluOpMoeDispatchBackwardData ==
  <<NotNull({"handle"}), Check({"handle"}),
    NotNull({"dispatch_desc", "gates_desc", "grad_input_desc", "indices_desc",
             "locations_desc"}),
    Check({"dispatch_desc", "gates_desc", "grad_input_desc", "indices_desc",
           "locations_desc"}),
    Either(<<Ok>>, <<NotNull({"grad_input"}), Fill({"grad_input"})>>),
    MayReturn,
    NotNull({"dispatch", "gates", "grad_input", "indices", "locations"}),
    On({"dispatch", "gates", "grad_input", "indices", "locations"}),
    Work({"dispatch", "gates", "grad_input", "indices", "locations"}), End,
    Ok>>

\* kernels/moe_dispatch/moe_dispatch_backward_gate/moe_dispatch_backward_gate.cpp
mluOpGetMoeDispatchBackwardGateWorkspaceSize ==
  <<NotNull({"handle"}), Check({"handle"}),
    NotNull({"input_desc", "workspace_size"}), Ok>>

moeDispatchBackwardGateParamCheck ==
  <<NotNull({"handle"}), Check({"handle"}),
    NotNull({"dispatch_desc", "grad_gates_desc", "indices_desc", "input_desc",
             "locations_desc"}),
    Check({"dispatch_desc", "grad_gates_desc", "indices_desc", "input_desc",
           "locations_desc"}), ReturnEmpty, NotNullIf({"workspace"}),
    NotNull({"dispatch", "grad_gates", "indices", "input", "locations"}), Ok>>

mluOpMoeDispatchBackwardGate ==
  <<Call(moeDispatchBackwardGateParamCheck),
    IfEmpty(<<Maybe(<<Fill({"grad_gates"})>>), Ok>>),
    On({"dispatch", "grad_gates", "indices", "input", "locations"}),
    Either(<<Work({"dispatch", "grad_gates", "indices", "input", "locations",
                   "workspace"})>>,
        <<Work({"dispatch", "grad_gates", "indices", "input", "locations"})>>),
    End, Ok>>

\* kernels/ms_deform_attn/ms_deform_attn_backward/ms_deform_attn_backward.cpp
msDeformAttnBackwardParamCheck ==
  <<NotNull({"handle", "attn_weight_desc", "grad_attn_weight_desc",
             "grad_output_desc", "grad_sampling_loc_desc", "grad_value_desc",
             "level_start_index_desc", "sampling_loc_desc",
             "spatial_shapes_desc", "value_desc"}),
    Check({"attn_weight_desc", "grad_attn_weight_desc", "grad_output_desc",
           "grad_sampling_loc_desc", "grad_value_desc",
           "level_start_index_desc", "sampling_loc_desc",
           "spatial_shapes_desc", "value_desc"}), ReturnEmpty,
    NotNull({"attn_weight", "grad_attn_weight", "grad_output",
             "grad_sampling_loc", "grad_value", "level_start_index",
             "sampling_loc", "spatial_shapes", "value"}), Ok>>

mluOpMsDeformAttnBackward ==
  <<CallOr(msDeformAttnBackwardParamCheck,
        <<On({"attn_weight", "grad_attn_weight", "grad_output",
              "grad_sampling_loc", "grad_value", "level_start_index",
              "sampling_loc", "spatial_shapes", "value"}), No>>),
    On({"attn_weight", "grad_attn_weight", "grad_output", "grad_sampling_loc",
        "grad_value", "level_start_index", "sampling_loc", "spatial_shapes",
        "value"}),
    IfEmpty(<<Choose({<<Fill({"grad_value"})>>,
                      <<Fill({"grad_sampling_loc"}),
                        Fill({"grad_attn_weight"})>>, <<>>}), End, Ok>>),
    Fill({"grad_value"}), Fill({"grad_sampling_loc"}),
    Fill({"grad_attn_weight"}),
    Maybe(<<Work({"attn_weight", "grad_attn_weight", "grad_output",
                   "grad_sampling_loc", "grad_value", "level_start_index",
                   "sampling_loc", "spatial_shapes", "value"})>>), End, Ok>>

\* kernels/mutual_information/mutual_information_forward/mutual_information_forward.cpp
mluOpGetMutualInformationForwardWorkspaceSize ==
  <<NotNull({"handle", "ans_desc", "p_desc", "px_desc", "py_desc",
             "workspace_size"}), Ok>>

checkTensorDim_mutual_information_forward ==
  <<Check({"px_desc", "py_desc"}), Optional({"opt_boundary_desc"}),
    Check({"ans_desc", "opt_boundary_desc", "p_desc"}), Ok>>

checkTensorShape_mutual_information_forward ==
  <<Check({"ans_desc", "p_desc", "px_desc", "py_desc"}),
    Optional({"opt_boundary_desc"}), Check({"opt_boundary_desc"}), Ok>>

checkTensorDatatype_mutual_information_forward ==
  <<Check({"px_desc", "py_desc"}), Optional({"opt_boundary_desc"}),
    Check({"ans_desc", "opt_boundary_desc", "p_desc"}), Ok>>

checkTensorScaleLimit_mutual_information_forward ==
  <<Optional({"opt_boundary_desc"}),
    Check({"opt_boundary_desc", "p_desc", "px_desc", "py_desc"}), Ok>>

checkTensorPtr_mutual_information_forward ==
  <<NotNullIf({"px"}), NotNullIf({"py"}), NotNull({"ans", "p"}),
    Optional({"opt_boundary", "opt_boundary_desc"}), Refuse, Ok>>

mutualInformationForwardParamCheck ==
  <<NotNull({"handle", "ans_desc", "p_desc", "px_desc", "py_desc"}),
    Check({"handle"}), Call(checkTensorDim_mutual_information_forward),
    Call(checkTensorShape_mutual_information_forward),
    Check({"ans_desc", "opt_boundary_desc", "p_desc", "px_desc", "py_desc"}),
    Call(checkTensorDatatype_mutual_information_forward),
    Call(checkTensorScaleLimit_mutual_information_forward), ReturnEmpty,
    NotNullIf({"workspace"}), Call(checkTensorPtr_mutual_information_forward),
    Ok>>

launchMutualInformationForward3PipelineKernel ==
  <<Read({"handle", "px_desc", "py_desc"}),
    Work({"ans", "opt_boundary", "p", "px", "py"}), Ok>>

launchMutualInformationForwardDefaultKernel ==
  <<Read({"handle", "px_desc", "py_desc"}),
    Repeat(<<Work({"ans", "opt_boundary", "p", "px", "py"})>>), Ok>>

mluOpMutualInformationForward ==
  <<Call(mutualInformationForwardParamCheck), ReturnIfEmpty,
    On({"ans", "opt_boundary", "p", "px", "py"}),
    Either(<<CallOr(launchMutualInformationForward3PipelineKernel, <<End, No>>)>>,
        <<CallOr(launchMutualInformationForwardDefaultKernel, <<End, No>>)>>), End,
    Ok>>

\* kernels/mutual_information/mutual_information_backward/mutual_information_backward.cpp
mluOpGetMutualInformationBackwardWorkspaceSize ==
  <<NotNull({"handle", "ans_grad_desc", "p_desc", "px_desc", "py_desc",
             "workspace_size"}), Ok>>

checkTensorDim_mutual_information_backward ==
  <<Check({"px_desc", "py_desc"}), Optional({"opt_boundary_desc"}),
    Check({"ans_grad_desc", "opt_boundary_desc", "p_desc", "px_grad_desc",
           "py_grad_desc"}), Ok>>

checkTensorShape_mutual_information_backward ==
  <<Check({"ans_grad_desc", "p_desc", "px_desc", "px_grad_desc", "py_desc",
           "py_grad_desc"}), Optional({"opt_boundary_desc"}),
    Check({"opt_boundary_desc"}), Ok>>

checkTensorDatatype_mutual_information_backward ==
  <<Check({"px_desc", "py_desc"}), Optional({"opt_boundary_desc"}),
    Check({"ans_grad_desc", "opt_boundary_desc", "p_desc", "px_grad_desc",
           "py_grad_desc"}), Ok>>

checkTensorScaleLimit_mutual_information_backward ==
  <<Optional({"opt_boundary_desc"}),
    Check({"opt_boundary_desc", "p_desc", "px_desc", "py_desc"}), Ok>>

checkTensorPtr_mutual_information_backward ==
  <<NotNullIf({"px", "px_grad"}), NotNullIf({"py", "py_grad"}),
    NotNull({"ans_grad", "p"}),
    Optional({"opt_boundary", "opt_boundary_desc"}), Refuse, Ok>>

mutualInformationBackwardParamCheck ==
  <<NotNull({"handle", "ans_grad_desc", "p_desc", "px_desc", "px_grad_desc",
             "py_desc", "py_grad_desc"}), Check({"handle"}),
    Call(checkTensorDim_mutual_information_backward),
    Call(checkTensorShape_mutual_information_backward),
    Check({"ans_grad_desc", "opt_boundary_desc", "p_desc", "px_desc",
           "px_grad_desc", "py_desc", "py_grad_desc"}),
    Call(checkTensorDatatype_mutual_information_backward),
    Call(checkTensorScaleLimit_mutual_information_backward), ReturnEmpty,
    NotNullIf({"workspace"}), Call(checkTensorPtr_mutual_information_backward),
    Ok>>

launchMutualInformationBackward3PipelineKernel ==
  <<Read({"handle", "px_desc", "py_desc"}),
    Work({"ans_grad", "opt_boundary", "p", "px", "px_grad", "py", "py_grad"}),
    Ok>>

launchMutualInformationBackwardDefaultKernel ==
  <<Read({"px_desc"}), Maybe(<<Read({"handle"}), Fill({"px_grad"})>>),
    Read({"py_desc"}), Maybe(<<Read({"handle"}), Fill({"py_grad"})>>),
    Read({"handle"}),
    Repeat(<<Work({"ans_grad", "opt_boundary", "p", "px", "px_grad", "py",
                   "py_grad", "workspace"})>>), Ok>>

mluOpMutualInformationBackward ==
  <<Call(mutualInformationBackwardParamCheck), ReturnIfEmpty,
    On({"ans_grad", "opt_boundary", "p", "px", "px_grad", "py", "py_grad"}),
    Either(<<CallOr(launchMutualInformationBackward3PipelineKernel, <<End, No>>)>>,
        <<CallOr(launchMutualInformationBackwardDefaultKernel, <<End, No>>)>>), End,
    Ok>>

\* mutant: the tensor descriptor is not destroyed
MutStatsWorkspaceSize ==
  <<NotNull({"handle", "x_desc"}), Get({"cnnl_handle", "cnnl_x_desc"}), Try,
    Put({"cnnl_handle"}), Ok>>

\* kernels/sync_batch_norm/sync_batchnorm_stats/sync_batchnorm_stats.cpp
mluOpGetSyncBatchNormStatsWorkspaceSize ==
  <<NotNull({"handle", "x_desc"}), CnnlAsk({"cnnl_handle", "cnnl_x_desc"}),
    Ok>>

mluOpSyncBatchNormStats ==
  <<Ok>>

mluOpSyncBatchNormStats_v2 ==
  <<NotNull({"handle", "invstd", "invstd_desc", "mean", "mean_desc", "x",
             "x_desc"}), NotNullIf({"workspace"}),
    Cnnl({"cnnl_handle", "cnnl_invstd_desc", "cnnl_mean_desc", "cnnl_x_desc"},
        {"invstd", "mean", "workspace", "x"}), Ok>>

\* kernels/sync_batch_norm/sync_batchnorm_gather_stats_with_counts/sync_batchnorm_gather_stats_with_counts.cpp
mluOpSyncBatchNormGatherStatsWithCounts ==
  <<NotNull({"handle", "count_all_desc", "invstd_all_desc", "invstd_desc",
             "mean_all_desc", "mean_desc"}), Refuse,
    NotNull({"invstd_all", "mean_all"}), Refuse,
    NotNull({"count_all", "invstd", "mean"}),
    Optional({"moving_var_desc", "movingcnnl_mean_desc"}),
    Cnnl({"cnnl_count_all_desc", "cnnl_handle", "cnnl_invstd_all_desc",
          "cnnl_invstd_desc", "cnnl_mean_all_desc", "cnnl_mean_desc",
          "cnnl_moving_var_desc", "cnnl_movingcnnl_mean_desc"},
        {"count_all", "invstd", "invstd_all", "mean", "mean_all",
         "moving_mean", "moving_var"}), Ok>>

\* kernels/sync_batch_norm/sync_batchnorm_elemt/sync_batchnorm_elemt.cpp
mluOpSyncBatchNormElemt ==
  <<NotNull({"handle", "invstd_desc", "mean_desc", "x_desc"}), Refuse,
    NotNull({"mean", "x", "y_desc"}), Refuse, NotNull({"invstd", "y"}),
    Optional({"bias_desc", "filter_desc"}),
    Cnnl({"cnnl_bias_desc", "cnnl_filter_desc", "cnnl_handle",
          "cnnl_invstd_desc", "cnnl_mean_desc", "cnnl_x_desc", "cnnl_y_desc"},
        {"bias", "filter", "invstd", "mean", "x", "y"}), Ok>>

\* kernels/sync_batch_norm/sync_batchnorm_backward_reduce/sync_batchnorm_backward_reduce.cpp
mluOpGetSyncBatchNormBackwardReduceWorkspaceSize ==
  <<NotNull({"handle", "desc_x"}), CnnlAsk({"cnnl_desc_x", "cnnl_handle"}),
    Ok>>

mluOpGetSyncBatchnormBackwardReduceWorkspaceSize ==
  <<Call(mluOpGetSyncBatchNormBackwardReduceWorkspaceSize), Ok>>

mluOpSyncBatchnormBackwardReduce ==
  <<No>>

mluOpSyncBatchNormBackwardReduce_v2 ==
  <<NotNull({"handle", "desc_dz", "desc_invstd", "desc_mean", "desc_x", "dz",
             "invstd", "mean", "x"}), NotNullIf({"workspace"}),
    Optional({"desc_dbias", "desc_dfilter", "desc_sum_dy", "desc_sum_dy_xmu"}),
    Cnnl({"cnnl_desc_dbias", "cnnl_desc_dfilter", "cnnl_desc_dz",
          "cnnl_desc_invstd", "cnnl_desc_mean", "cnnl_desc_sum_dy",
          "cnnl_desc_sum_dy_xmu", "cnnl_desc_x", "cnnl_handle"},
        {"dbias", "dfilter", "dz", "invstd", "mean", "sum_dy", "sum_dy_xmu",
         "workspace", "x"}), Ok>>

mluOpSyncBatchnormBackwardReduce_v2 ==
  <<Call(mluOpSyncBatchNormBackwardReduce_v2), Ok>>

\* kernels/sync_batch_norm/sync_batch_norm_backward_elemt/sync_batch_norm_backward_elemt.cpp
mluOpSyncBatchNormBackwardElemt ==
  <<NotNull({"handle", "diff_x", "diff_y", "diff_y_desc", "diffcnnl_x_desc",
             "invstd", "invstd_desc", "mean", "mean_desc", "mean_dy",
             "mean_dy_desc", "mean_dy_xmu", "mean_dy_xmu_desc", "x",
             "x_desc"}), Optional({"filter_desc"}),
    Cnnl({"cnnl_diff_y_desc", "cnnl_diffcnnl_x_desc", "cnnl_filter_desc",
          "cnnl_handle", "cnnl_invstd_desc", "cnnl_mean_desc",
          "cnnl_mean_dy_desc", "cnnl_mean_dy_xmu_desc", "cnnl_x_desc"},
        {"diff_x", "diff_y", "filter", "invstd", "mean", "mean_dy",
         "mean_dy_xmu", "x"}), Ok>>

\* kernels/sync_batch_norm/sync_batchnorm_backward_elemt_v2/sync_batchnorm_backward_elemt_v2.cpp
mluOpSyncBatchNormBackwardElemtV2 ==
  <<NotNull({"handle", "count", "count_desc", "diff_x", "diff_y",
             "diff_y_desc", "diffcnnl_x_desc", "invstd", "invstd_desc", "mean",
             "mean_desc", "sum_dy", "sum_dy_desc", "sum_dy_xmu",
             "sum_dy_xmu_desc", "x", "x_desc"}), Optional({"filter_desc"}),
    Cnnl({"cnnl_count_desc", "cnnl_diff_y_desc", "cnnl_diffcnnl_x_desc",
          "cnnl_filter_desc", "cnnl_handle", "cnnl_invstd_desc",
          "cnnl_mean_desc", "cnnl_sum_dy_desc", "cnnl_sum_dy_xmu_desc",
          "cnnl_x_desc"},
        {"count", "diff_x", "diff_y", "filter", "invstd", "mean", "sum_dy",
         "sum_dy_xmu", "x"}), Ok>>

\* The operations of this module that mlu_op.h or kernels/ declare.
AttentionApi ==
  [mluOpMoeDispatchForward |-> mluOpMoeDispatchForward,
   mluOpMoeDispatchBackwardData |-> mluOpMoeDispatchBackwardData,
   mluOpGetMoeDispatchBackwardGateWorkspaceSize |-> mluOpGetMoeDispatchBackwardGateWorkspaceSize,
   mluOpMoeDispatchBackwardGate |-> mluOpMoeDispatchBackwardGate,
   mluOpMsDeformAttnBackward |-> mluOpMsDeformAttnBackward,
   mluOpGetMutualInformationForwardWorkspaceSize |-> mluOpGetMutualInformationForwardWorkspaceSize,
   mluOpMutualInformationForward |-> mluOpMutualInformationForward,
   mluOpGetMutualInformationBackwardWorkspaceSize |-> mluOpGetMutualInformationBackwardWorkspaceSize,
   mluOpMutualInformationBackward |-> mluOpMutualInformationBackward,
   mluOpGetSyncBatchNormStatsWorkspaceSize |-> mluOpGetSyncBatchNormStatsWorkspaceSize,
   mluOpSyncBatchNormStats |-> mluOpSyncBatchNormStats,
   mluOpSyncBatchNormStats_v2 |-> mluOpSyncBatchNormStats_v2,
   mluOpSyncBatchNormGatherStatsWithCounts |-> mluOpSyncBatchNormGatherStatsWithCounts,
   mluOpSyncBatchNormElemt |-> mluOpSyncBatchNormElemt,
   mluOpGetSyncBatchNormBackwardReduceWorkspaceSize |-> mluOpGetSyncBatchNormBackwardReduceWorkspaceSize,
   mluOpGetSyncBatchnormBackwardReduceWorkspaceSize |-> mluOpGetSyncBatchnormBackwardReduceWorkspaceSize,
   mluOpSyncBatchnormBackwardReduce |-> mluOpSyncBatchnormBackwardReduce,
   mluOpSyncBatchNormBackwardReduce_v2 |-> mluOpSyncBatchNormBackwardReduce_v2,
   mluOpSyncBatchnormBackwardReduce_v2 |-> mluOpSyncBatchnormBackwardReduce_v2,
   mluOpSyncBatchNormBackwardElemt |-> mluOpSyncBatchNormBackwardElemt,
   mluOpSyncBatchNormBackwardElemtV2 |-> mluOpSyncBatchNormBackwardElemtV2]
=============================================================================

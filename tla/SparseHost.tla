------------------------------- MODULE SparseHost -------------------------------
(*****************************************************************************)
(* The host code of the sparse convolution.  Workspace queries and the calls *)
(* that compute share their code, under a flag.  Addresses inside the       *)
(* workspace are the workspace.                                             *)
(*****************************************************************************)
EXTENDS HostCall

\* kernels/sparse_conv/get_indice_pairs/get_indice_pairs_structs.cpp
mluOpCreateSparseConvolutionDescriptor ==
  <<NotNull({"desc"}), Try, Ok>>

mluOpSetSparseConvolutionDescriptor ==
  <<NotNull({"dilation", "filter_space", "input_space", "output_space", "pad",
             "sparse_conv_desc", "stride"}),
    Check({"dilation", "filter_space", "input_space", "output_space", "pad",
           "sparse_conv_desc", "stride"}), Ok>>

mluOpGetSparseConvolutionNumActOut ==
  <<NotNull({"desc", "num_act_out"}), Ok>>

mluOpDestroySparseConvolutionDescriptor ==
  <<NotNull({"desc"}), Ok>>

\* getIndiceMaskAll, getIndiceIndexIn, getIndiceIndexOut, getIndiceOutExpand,
\* getIndiceInExpand, getIndiceUnique and getGridOut, which differ in the size.
getSegmentWS ==
  <<Read({"indice_pairs_desc"}), Ok>>

getReduceOpWS ==
  <<Get({"reduce_in_desc", "reduce_out_desc"}), Try, Get({"reduce_desc"}), Try,
    Read({"handle"}),
    Get({"cnnl_handle", "cnnl_input_desc", "cnnl_output_desc"}), Try,
    Put({"cnnl_handle", "cnnl_input_desc", "cnnl_output_desc", "reduce_desc",
         "reduce_in_desc", "reduce_out_desc"}), Ok>>

\* mutant: the status of the query is dropped
MutGetUniqueOpWS ==
  <<Get({"input_unique_desc"}), Try, Get({"unique_desc"}), Try,
    Read({"handle"}), Get({"cnnl_handle", "cnnl_input_desc"}), Unchecked,
    Put({"cnnl_handle", "cnnl_input_desc", "input_unique_desc",
         "unique_desc"}), Ok>>

getUniqueOpWS ==
  <<Get({"input_unique_desc"}), Try, Get({"unique_desc"}), Try,
    Read({"handle"}), Get({"cnnl_handle", "cnnl_input_desc"}), Try,
    Put({"cnnl_handle", "cnnl_input_desc", "input_unique_desc",
         "unique_desc"}), Ok>>

getNormalGetIndicePairsWorkspaceSize ==
  <<Read({"indice_pairs_desc", "sparse_conv_desc"}), Call(getSegmentWS),
    Call(getReduceOpWS), Maybe(<<Call(getUniqueOpWS)>>), Ok>>

launchDefaultKernel1 ==
  <<Read({"handle", "sparse_conv_desc"}), Work({"indices", "workspace"}), Ok>>

launchSubmKernel1 ==
  <<Read({"handle", "sparse_conv_desc"}), Work({"indices", "workspace"}), Ok>>

launchSubmKernel2 ==
  <<Read({"handle"}), Work({"indices", "out_indices", "workspace"}), Ok>>

launchReduceOp ==
  <<Get({"reduce_in_desc", "reduce_out_desc"}), Try, Get({"reduce_desc"}), Try,
    Read({"handle"}),
    Get({"cnnl_handle", "cnnl_input_desc", "cnnl_output_desc"}),
    Run({"cnnl_handle", "cnnl_input_desc", "cnnl_output_desc", "reduce_desc"},
        {"indice_num", "workspace"}),
    Put({"cnnl_handle", "cnnl_input_desc", "cnnl_output_desc", "reduce_desc",
         "reduce_in_desc", "reduce_out_desc"}), Ok>>

launchUniqueOp ==
  <<Get({"unique_input_desc", "unique_output_desc"}), Try,
    Get({"unique_desc"}), Try, Read({"handle"}),
    Get({"cnnl_handle", "cnnl_input_desc", "cnnl_output_desc"}),
    Run({"cnnl_handle", "cnnl_input_desc", "cnnl_output_desc", "unique_desc"},
        {"workspace"}),
    Put({"cnnl_handle", "cnnl_input_desc", "cnnl_output_desc", "unique_desc"}),
    Unchecked,  \* cnrtQueueSync and cnrtMemcpy of num_act_out
    Put({"unique_input_desc", "unique_output_desc"}), Ok>>

launchDefaultKernel2 ==
  <<Read({"handle"}), Work({"workspace"}), Ok>>

launchBalanceKernel ==
  <<Read({"handle"}), Work({"workspace"}), Ok>>

\* mutant: the descriptor is destroyed before the call that needs it
MutLaunchFillOp(mluOp_fill_addr) ==
  <<Get({"fill_tensor_desc"}), Try, Read({"handle"}),
    Get({"cnnl_handle", "cnnl_output_desc"}), Put({"cnnl_output_desc"}),
    Run({"cnnl_handle", "cnnl_output_desc"}, {mluOp_fill_addr}),
    Put({"cnnl_handle", "fill_tensor_desc"}), Ok>>

launchFillOp(mluOp_fill_addr) ==
  <<Get({"fill_tensor_desc"}), Try, Read({"handle"}),
    Get({"cnnl_handle", "cnnl_output_desc"}),
    Run({"cnnl_handle", "cnnl_output_desc"}, {mluOp_fill_addr}),
    Put({"cnnl_handle", "cnnl_output_desc", "fill_tensor_desc"}), Ok>>

launchScatterNdOp ==
  <<Get({"scatter_indice_desc", "scatter_input_desc", "scatter_output_desc"}),
    Try, Read({"handle"}),
    Get({"cnnl_handle", "cnnl_indices_desc", "cnnl_input_desc",
         "cnnl_output_desc", "cnnl_updates_desc"}),
    Run({"cnnl_handle", "cnnl_indices_desc", "cnnl_input_desc",
         "cnnl_output_desc", "cnnl_updates_desc"},
        {"workspace"}),
    Put({"cnnl_handle", "cnnl_indices_desc", "cnnl_input_desc",
         "cnnl_output_desc", "cnnl_updates_desc", "scatter_indice_desc",
         "scatter_input_desc", "scatter_output_desc"}), Ok>>

launchGatherNdOp ==
  <<Get({"gather_indice_desc", "gather_input_desc", "gather_output_desc"}),
    Try, Read({"handle"}),
    Get({"cnnl_handle", "cnnl_indices_desc", "cnnl_output_desc",
         "cnnl_params_desc"}),
    Run({"cnnl_handle", "cnnl_indices_desc", "cnnl_output_desc",
         "cnnl_params_desc"},
        {"workspace"}),
    Put({"cnnl_handle", "cnnl_indices_desc", "cnnl_output_desc",
         "cnnl_params_desc", "gather_indice_desc", "gather_input_desc",
         "gather_output_desc"}), Ok>>

launchDefaultKernel3 ==
  <<Read({"handle"}), Work({"indice_pairs", "workspace"}), Ok>>

launchDefaultKernel4 ==
  <<Read({"handle", "sparse_conv_desc"}), Work({"out_indices", "workspace"}),
    Ok>>

NormalGetIndicePairsKernel ==
  <<Read({"indice_pairs_desc", "sparse_conv_desc"}), Call(getSegmentWS),
    Call(getReduceOpWS),
    Either(<<Call(launchSubmKernel1), Call(launchDefaultKernel2),
             Call(launchFillOp("workspace")), Call(launchScatterNdOp),
             Call(launchGatherNdOp), Call(launchSubmKernel2),
             Call(launchReduceOp), Call(launchFillOp("indice_pairs")),
             Call(launchDefaultKernel3)>>,
           <<Call(getUniqueOpWS), Call(launchDefaultKernel1),
             Call(launchReduceOp), Call(launchUniqueOp),
             Maybe(<<Call(launchFillOp("indice_pairs")),
                     Call(launchFillOp("indice_num")), Ok>>),
             Call(launchDefaultKernel2), Call(launchBalanceKernel),
             Call(launchFillOp("workspace")), Call(launchScatterNdOp),
             Call(launchGatherNdOp), Call(launchFillOp("indice_pairs")),
             Call(launchDefaultKernel3), Call(launchDefaultKernel4)>>), Ok>>

\* normalGetIndicePairs calls one of the two above, by is_get_workspace.
internalGetIndicePairs(is_get_workspace) ==
  <<NotNull({"handle", "indice_num_desc", "indice_pairs_desc", "indices_desc",
             "out_indices_desc", "sparse_conv_desc"}),
    Check({"handle", "indice_num_desc", "indice_pairs_desc", "indices_desc",
           "out_indices_desc", "sparse_conv_desc"}), MayReturn>>
  \o IF is_get_workspace
     THEN <<Call(getNormalGetIndicePairsWorkspaceSize), Ok>>
     ELSE <<NotNull({"indice_num", "indice_pairs", "indices", "out_indices"}),
            NotNullIf({"workspace"}),
            On({"indice_num", "indice_pairs", "indices", "out_indices"}),
            CallOr(NormalGetIndicePairsKernel, <<End, No>>), End, Ok>>

mluOpGetIndicePairs ==
  <<Call(internalGetIndicePairs(FALSE)), Ok>>

mluOpGetIndicePairsWorkspaceSize ==
  <<NotNull({"handle", "indice_num_desc", "indice_pairs_desc", "indices_desc",
             "out_indices_desc", "sparse_conv_desc", "workspace_size"}),
    MayReturn, Call(internalGetIndicePairs(TRUE)), Ok>>

\* kernels/sparse_conv/indice_convolution_forward/indice_convolution_forward.cpp
foolProof ==
  <<NotNull({"handle", "features_desc", "features_out_desc", "filters_desc",
             "indice_num", "indice_pairs_desc"}),
    Check({"handle", "features_desc", "features_out_desc", "filters_desc",
           "indice_num", "indice_pairs_desc"}), Ok>>

\* A loop over the filter that skips those with no active point.
mainIndiceConvolutionForward(is_workspace_compute) ==
  LET compute(p) == IF is_workspace_compute THEN <<>> ELSE p
  IN <<Read({"features_desc", "features_out_desc", "filters_desc",
             "indice_num", "indice_pairs_desc"}),
       Get({"active_indice_desc", "heuristic_result", "matmul_a_desc",
            "matmul_algo", "matmul_b_desc", "matmul_c_desc", "matmul_desc"}),
       Try,
       Maybe(<<Get({"trans_desc", "trans_in_desc", "trans_out_desc"}), Try,
               Read({"handle"}), CnnlAsk({"cnnl_handle", "cnnl_x_desc"})>>
             \o compute(<<Cnnl({"cnnl_handle", "cnnl_x_desc", "cnnl_y_desc"},
                               {"filters", "workspace"})>>)
             \o <<Put({"trans_desc", "trans_in_desc", "trans_out_desc"})>>)>>
     \o compute(<<Cnnl({"cnnl_handle", "cnnl_output_desc"},
                       {"features_out", "workspace"})>>)
     \o <<Repeat(<<Try, Read({"handle"}),
                   CnnlAsk({"cnnl_a_desc", "cnnl_b_desc", "cnnl_c_desc",
                            "cnnl_d_desc", "cnnl_handle"}), Try,
                   CnnlAsk({"cnnl_handle", "cnnl_input_descs",
                            "cnnl_output_desc"})>>
                 \o compute(<<Cnnl({"cnnl_handle", "cnnl_indices_desc",
                                    "cnnl_output_desc", "cnnl_params_desc"},
                                   {"features", "indice_pairs", "workspace"}),
                              Cnnl({"cnnl_a_desc", "cnnl_b_desc",
                                    "cnnl_c_desc", "cnnl_d_desc",
                                    "cnnl_handle"}, {"filters", "workspace"}),
                              Fill({"workspace"}),
                              Cnnl({"cnnl_handle", "cnnl_indices_desc",
                                    "cnnl_input_desc", "cnnl_output_desc",
                                    "cnnl_updates_desc"},
                                   {"indice_pairs", "workspace"}),
                              Cnnl({"cnnl_handle", "cnnl_input_descs",
                                    "cnnl_output_desc"},
                                   {"features_out", "workspace"})>>)),
          Put({"active_indice_desc", "heuristic_result", "matmul_a_desc",
               "matmul_algo", "matmul_b_desc", "matmul_c_desc",
               "matmul_desc"}), Ok>>

mluOpGetIndiceConvolutionForwardWorkspaceSize ==
  <<Call(foolProof), MayReturn, NotNull({"size"}),
    Call(mainIndiceConvolutionForward(TRUE)), Ok>>

mluOpIndiceConvolutionForward ==
  <<Call(foolProof), MayReturn,
    NotNull({"features", "features_out", "filters", "indice_pairs"}),
    NotNullIf({"workspace"}),
    On({"features", "features_out", "filters", "indice_pairs"}),
    Call(mainIndiceConvolutionForward(FALSE)), End, Ok>>

\* kernels/sparse_conv/indice_convolution_backward_data/indice_convolution_backward_data.cpp
foolCheckNoPtr ==
  <<NotNull({"handle", "filters_desc", "indice_pairs_desc", "input_grad_desc",
             "output_grad_desc"}),
    Check({"handle", "filters_desc", "indice_num", "indice_pairs_desc",
           "input_grad_desc", "output_grad_desc"}), ReturnEmpty, Ok>>

foolCheck ==
  <<Call(foolCheckNoPtr), ReturnIfEmpty,
    NotNull({"filters", "indice_pairs", "input_grad", "output_grad"}),
    NotNullIf({"workspace"}), Ok>>

mluOpGetIndiceConvolutionBackwardDataWorkspaceSize ==
  <<NotNull({"workspace_size"}), Call(foolCheckNoPtr), ReturnIfEmpty,
    Maybe(<<Get({"trans_desc"}), Try, Get({"cnnl_handle", "cnnl_x_desc"}), Try,
            Put({"cnnl_handle", "cnnl_x_desc", "trans_desc"})>>),
    Get({"sub_filters_desc"}), Try, Get({"cnnl_matmul_desc"}), Try,
    Get({"output_grad_condence_desc"}), Try, Get({"input_grad_condence_desc"}),
    Try,
    Get({"cnnl_handle", "cnnl_heuristic_result",
         "cnnl_input_grad_condence_desc", "cnnl_matmul_algo",
         "cnnl_output_grad_condence_desc", "cnnl_sub_filters_desc"}), Try,
    Put({"cnnl_handle", "cnnl_heuristic_result",
         "cnnl_input_grad_condence_desc", "cnnl_matmul_algo",
         "cnnl_matmul_desc", "cnnl_output_grad_condence_desc",
         "cnnl_sub_filters_desc", "input_grad_condence_desc",
         "output_grad_condence_desc", "sub_filters_desc"}),
    CnnlAsk({"cnnl_handle", "cnnl_input_descs", "cnnl_output_desc"}), Ok>>

mluOpIndiceConvolutionBackwardData ==
  <<Call(foolCheck), ReturnIfEmpty,
    On({"filters", "indice_pairs", "input_grad", "output_grad"}),
    Maybe(<<Get({"filter_transpose_desc", "trans_desc"}), Try,
            CnnlAsk({"cnnl_handle", "cnnl_x_desc"}),
            Get({"cnnl_handle", "cnnl_x_desc", "cnnl_y_desc"}),
            Run({"cnnl_handle", "cnnl_x_desc", "cnnl_y_desc", "trans_desc"},
                {"filters", "workspace"}),
            Put({"cnnl_handle", "cnnl_x_desc", "cnnl_y_desc",
                 "filter_transpose_desc", "trans_desc"})>>),
    Get({"sub_filters_desc"}), Try, Fill({"input_grad"}), Read({"indice_num"}),
    Repeat(<<Get({"gather_indices_desc"}), Try,
             Get({"output_grad_condence_desc"}), Try,
             Cnnl({"cnnl_handle", "cnnl_indices_desc", "cnnl_output_desc",
                   "cnnl_params_desc"},
                 {"indice_pairs", "output_grad", "workspace"}),
             Get({"matmul_desc"}), Try, Get({"input_grad_condence_desc"}), Try,
             Get({"cnnl_a_desc", "cnnl_b_desc", "cnnl_c_desc", "cnnl_d_desc",
                  "cnnl_handle", "heuristic_result", "matmul_algo"}), Try,
             Put({"cnnl_a_desc", "cnnl_b_desc", "cnnl_c_desc", "cnnl_d_desc",
                  "cnnl_handle"}), Try,
             Get({"cnnl_a_desc", "cnnl_b_desc", "cnnl_c_desc", "cnnl_d_desc",
                  "cnnl_handle"}),
             Run({"cnnl_a_desc", "cnnl_b_desc", "cnnl_c_desc", "cnnl_d_desc",
                  "cnnl_handle", "matmul_algo", "matmul_desc"},
                 {"filters", "workspace"}),
             Put({"cnnl_a_desc", "cnnl_b_desc", "cnnl_c_desc", "cnnl_d_desc",
                  "cnnl_handle", "heuristic_result", "matmul_algo",
                  "matmul_desc"}), Get({"cnnl_handle", "cnnl_output_desc"}),
             Run({"cnnl_handle", "cnnl_output_desc"}, {"workspace"}),
             Maybe(<<Run({"cnnl_handle", "cnnl_output_desc"},
                         {"workspace"})>>),
             Put({"cnnl_handle", "cnnl_output_desc"}),
             Cnnl({"cnnl_handle", "cnnl_indices_desc", "cnnl_input_desc",
                   "cnnl_output_desc", "cnnl_updates_desc"},
                 {"indice_pairs", "workspace"}),
             Get({"cnnl_handle", "cnnl_input_descs", "cnnl_output_desc"}), Try,
             Run({"cnnl_handle", "cnnl_input_descs", "cnnl_output_desc"},
                 {"input_grad", "workspace"}),
             Put({"cnnl_handle", "cnnl_input_descs", "cnnl_output_desc",
                  "gather_indices_desc", "input_grad_condence_desc",
                  "output_grad_condence_desc"})>>),
    Put({"sub_filters_desc"}), End, Ok>>

\* kernels/sparse_conv/indice_convolution_backward_filter/indice_convolution_backward_filter.cpp
setMatmulDescInfo ==
  <<Try, Ok>>

indiceConvDtypeVaild ==
  <<Check({"features_desc", "filters_grad_desc", "indice_pairs_desc",
           "output_grad_desc"}), Ok>>

baseParamCheck ==
  <<NotNull({"handle", "features_desc", "filters_grad_desc", "indice_num",
             "indice_pairs_desc", "output_grad_desc"}),
    Check({"handle", "features_desc", "filters_grad_desc", "indice_pairs_desc",
           "output_grad_desc"}), Call(indiceConvDtypeVaild), Refuse, Ok>>

\* filters_grad_need_trans is always false, so insertTranspose is never called.
internalIndiceConvBackwardFilter(is_get_workspace) ==
  LET compute(p) == IF is_get_workspace THEN <<>> ELSE p
  IN <<Read({"features_desc", "filters_grad_desc", "indice_num",
             "indice_pairs_desc", "output_grad_desc"}),
       Get({"active_indice_desc", "heuristic_result", "matmul_a_desc",
            "matmul_algo", "matmul_b_desc", "matmul_c_desc", "matmul_desc"}),
       Call(setMatmulDescInfo)>>
     \o compute(<<Read({"handle"}), Fill({"filters_grad"})>>)
     \o <<Repeat(<<Try, Read({"handle"}),
                   CnnlAsk({"cnnl_a_desc", "cnnl_b_desc", "cnnl_c_desc",
                            "cnnl_d_desc", "cnnl_handle"}), Try>>
                 \o compute(<<Cnnl({"cnnl_handle", "cnnl_indices_desc",
                                    "cnnl_output_desc", "cnnl_params_desc"},
                                   {"features", "indice_pairs", "workspace"}),
                              Cnnl({"cnnl_handle", "cnnl_indices_desc",
                                    "cnnl_output_desc", "cnnl_params_desc"},
                                   {"indice_pairs", "output_grad",
                                    "workspace"}),
                              Cnnl({"cnnl_a_desc", "cnnl_b_desc",
                                    "cnnl_c_desc", "cnnl_d_desc",
                                    "cnnl_handle"},
                                   {"filters_grad", "workspace"})>>)),
          Put({"active_indice_desc", "heuristic_result", "matmul_a_desc",
               "matmul_algo", "matmul_b_desc", "matmul_c_desc",
               "matmul_desc"}), Ok>>

mluOpGetIndiceConvolutionBackwardFilterWorkspaceSize ==
  <<NotNull({"size"}), Call(baseParamCheck), MayReturn,
    Call(internalIndiceConvBackwardFilter(TRUE)), Ok>>

mluOpIndiceConvolutionBackwardFilter ==
  <<Call(baseParamCheck), MayReturn,
    NotNull({"features", "filters_grad", "indice_pairs", "output_grad"}),
    NotNullIf({"workspace"}),
    On({"features", "filters_grad", "indice_pairs", "output_grad"}),
    Call(internalIndiceConvBackwardFilter(FALSE)), End, Ok>>

\* The operations of this module that mlu_op.h or kernels/ declare.
SparseApi ==
  [mluOpCreateSparseConvolutionDescriptor |-> mluOpCreateSparseConvolutionDescriptor,
   mluOpSetSparseConvolutionDescriptor |-> mluOpSetSparseConvolutionDescriptor,
   mluOpGetSparseConvolutionNumActOut |-> mluOpGetSparseConvolutionNumActOut,
   mluOpDestroySparseConvolutionDescriptor |-> mluOpDestroySparseConvolutionDescriptor,
   mluOpGetIndicePairs |-> mluOpGetIndicePairs,
   mluOpGetIndicePairsWorkspaceSize |-> mluOpGetIndicePairsWorkspaceSize,
   mluOpGetIndiceConvolutionForwardWorkspaceSize |-> mluOpGetIndiceConvolutionForwardWorkspaceSize,
   mluOpIndiceConvolutionForward |-> mluOpIndiceConvolutionForward,
   mluOpGetIndiceConvolutionBackwardDataWorkspaceSize |-> mluOpGetIndiceConvolutionBackwardDataWorkspaceSize,
   mluOpIndiceConvolutionBackwardData |-> mluOpIndiceConvolutionBackwardData,
   mluOpGetIndiceConvolutionBackwardFilterWorkspaceSize |-> mluOpGetIndiceConvolutionBackwardFilterWorkspaceSize,
   mluOpIndiceConvolutionBackwardFilter |-> mluOpIndiceConvolutionBackwardFilter]
=============================================================================

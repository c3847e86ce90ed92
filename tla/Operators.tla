------------------------------- MODULE Operators -------------------------------
(***************************************************************************)
(* One call of a public operator, made with the case generator on, running *)
(* the host code that the modules named ...Host write down step by step.   *)
(* The caller's arguments, the driver and CNNL are the environment: each   *)
(* test may go either way and each call may fail.                          *)
(***************************************************************************)
EXTENDS CoreHost, FFTHost, BoxesHost, RoiHost, ImageHost, PointsHost,
        AttentionHost, SparseHost, Naturals, FiniteSets, TLC

Api == CoreApi @@ ElementwiseApi @@ BoxesApi @@ RoiApi @@ ImageApi
       @@ PointsApi @@ AttentionApi @@ SparseApi @@ FFTApi

VARIABLES
  op,       \* the operation that was called
  code,     \* the functions it is in, innermost first: [rest, rescue]
  empty,    \* zero_element: a tensor has no element
  tested,   \* arguments compared with NULL
  held,     \* CNNL objects and descriptors created and not destroyed
  altered,  \* descriptors of the caller that hold another value than his
  case,     \* the test case: "unopened", "open" or "closed"
  dumped,   \* the tensors it describes
  worked,   \* device work was enqueued
  missed,   \* a call failed and its status was dropped
  outcome   \* "running", "success" or "error"

vars == <<op, code, empty, tested, held, altered, case, dumped, worked,
          missed, outcome>>

Init ==
  /\ op \in DOMAIN Api
  /\ code = <<[rest |-> Api[op], rescue |-> <<>>]>>
  /\ empty = FALSE /\ worked = FALSE /\ missed = FALSE
  /\ tested = {} /\ held = {} /\ altered = {} /\ dumped = {}
  /\ case = "unopened" /\ outcome = "running"

Now(kind) == code # <<>> /\ code[1].rest[1].do = kind
Head1     == code[1].rest[1]
After     == Tail(code[1].rest)

\* Go on in the innermost function with the steps s.
GoOn(s) ==
  code' = [code EXCEPT ![1].rest = s] /\ UNCHANGED outcome
Step1 == GoOn(After)

\* The innermost function returns an error; its callers return it too, up to
\* the first that has steps of its own for that failure.
Fail ==
  LET saved == {i \in 1 .. Len(code) : code[i].rescue # <<>>}
      i     == CHOOSE j \in saved : \A k \in saved : j <= k
  IN IF saved = {}
     THEN code' = <<>> /\ outcome' = "error"
     ELSE /\ code' = [SubSeq(code, i + 1, Len(code))
                        EXCEPT ![1].rest = code[i].rescue]
          /\ UNCHANGED outcome

-----------------------------------------------------------------------------
\* PARAM_CHECK(api, arg != NULL), and if (arg != NULL)
Test ==
  /\ Now("test") \/ Now("test if used") \/ Now("ask")
  /\ \/ tested' = tested \cup Head1.what /\ Step1
     \/ ~ Now("ask") /\ Fail /\ UNCHANGED tested
  /\ UNCHANGED <<op, empty, held, altered, case, dumped, worked, missed>>

\* the other tests of the arguments, and the reads of descriptors
Look ==
  /\ Now("check") \/ Now("read")
  /\ Step1 \/ (Now("check") /\ Fail)
  /\ UNCHANGED <<op, empty, tested, held, altered, case, dumped, worked,
                 missed>>

\* CHECK_RETURN, CALL_CNNL of a call that changes nothing modelled
Attempt ==
  /\ Now("try")
  /\ Step1 \/ Fail
  /\ UNCHANGED <<op, empty, tested, held, altered, case, dumped, worked,
                 missed>>

AttemptUnchecked ==
  /\ Now("unchecked") \/ Now("missed")
  /\ Step1
  /\ missed' \in IF Now("missed") THEN {TRUE} ELSE {missed, TRUE}
  /\ UNCHANGED <<op, empty, tested, held, altered, case, dumped, worked>>

\* cnnlCreate* and mluOpCreateTensorDescriptor, with the calls that fill in
\* what was created: one that fails leaves the objects of those before it.
Create ==
  /\ Now("get") \/ Now("take")
  /\ \/ held' = held \cup Head1.what /\ Step1
     \/ Now("get") /\ held' \in {held, held \cup Head1.what} /\ Fail
  /\ UNCHANGED <<op, empty, tested, altered, case, dumped, worked, missed>>

Destroy ==
  /\ Now("put") \/ Now("give")
  /\ \/ held' = held \ Head1.what /\ Step1
     \/ Now("put") /\ held' = held /\ Fail
  /\ UNCHANGED <<op, empty, tested, altered, case, dumped, worked, missed>>

\* Writes to a field of an object of the caller, and back; what the call
\* created is not his yet.
Change ==
  /\ Now("alter") \/ Now("restore")
  /\ altered' = IF Now("alter") THEN altered \cup (Head1.what \ held)
                                ELSE altered \ Head1.what
  /\ Step1
  /\ UNCHANGED <<op, empty, tested, held, case, dumped, worked, missed>>

\* a kernel launch, or a CNNL call that enqueues work
Launch ==
  /\ Now("work")
  /\ worked' = TRUE
  /\ Step1 \/ Fail
  /\ UNCHANGED <<op, empty, tested, held, altered, case, dumped, missed>>

\* GEN_CASE_START, GEN_CASE_DATA* and GEN_CASE_END
OpenCase ==
  /\ Now("on")
  /\ case' = "open" /\ dumped' = Head1.what
  /\ Step1
  /\ UNCHANGED <<op, empty, tested, held, altered, worked, missed>>

CloseCase ==
  /\ Now("end")
  /\ case' = "closed"
  /\ Step1
  /\ UNCHANGED <<op, empty, tested, held, altered, dumped, worked, missed>>

-----------------------------------------------------------------------------
Branch ==
  /\ Now("choose")
  /\ \E p \in Head1.of : GoOn(p \o After)
  /\ UNCHANGED <<op, empty, tested, held, altered, case, dumped, worked,
                 missed>>

MeetEmpty ==
  /\ Now("empty")
  /\ empty' = TRUE
  /\ Step1
  /\ UNCHANGED <<op, tested, held, altered, case, dumped, worked, missed>>

AskEmpty ==
  /\ Now("if empty")
  /\ \E p \in Head1.of : GoOn(IF empty THEN p \o After ELSE After)
  /\ UNCHANGED <<op, empty, tested, held, altered, case, dumped, worked,
                 missed>>

\* a caller that drops the status goes on where it was
Enter ==
  /\ Now("call") \/ Now("call dropped")
  /\ \E f \in Head1.of :
       code' = <<[rest   |-> f.body,
                  rescue |-> IF Now("call") THEN f.rescue
                                            ELSE <<Missed>> \o After]>>
               \o [code EXCEPT ![1].rest = After]
  /\ UNCHANGED <<op, empty, tested, held, altered, case, dumped, worked,
                 missed, outcome>>

Return ==
  /\ \/ Now("ok") /\ code' = Tail(code)
        /\ outcome' = IF Len(code) = 1 THEN "success" ELSE outcome
     \/ Now("no") /\ Fail
  /\ UNCHANGED <<op, empty, tested, held, altered, case, dumped, worked,
                 missed>>

Returned == code = <<>> /\ UNCHANGED vars

Next ==
  \/ Test \/ Look \/ Attempt \/ AttemptUnchecked \/ Create \/ Destroy
  \/ Change \/ Launch \/ OpenCase \/ CloseCase
  \/ Branch \/ MeetEmpty \/ AskEmpty \/ Enter \/ Return
  \/ Returned

Spec == Init /\ [][Next]_vars
-----------------------------------------------------------------------------
\* Names of addresses that the operator computes itself.
Scratch == {"workspace", "transpose_workspace"}

\* What an operation reads, or hands to a kernel or to the test case, without
\* a comparison with NULL before: the known exceptions to TestedBeforeUse.
Trusting ==
  [mluOpTensorStrideIn  |-> {"handle", "input_desc", "input", "output"},
   mluOpTensorStrideOut |-> {"handle", "input_desc", "input", "output"},
   mluOpContiguous      |-> {"handle", "input_desc"},
   mluOpAdamW           |-> {"adamw_desc", "paramh_or_step_desc"},
   mluOpSetAdamWDescAttr |-> {"adamw_desc"},
   mluOpLogspace        |-> {"res"},
   mluOpSqrtBackward    |-> {"diff_x", "diff_y", "y"},  \* of empty tensors
   mluOpThreeNNForward  |-> {"dist2", "idx", "known", "unknown"},  \* idem
   mluOpVoxelization    |-> {"coors", "coors_range", "num_points_per_voxel",
                             "points", "voxel_num", "voxel_size", "voxels"},
   mluOpMsDeformAttnBackward |->  \* the case of a call that was refused
     {"attn_weight", "grad_attn_weight", "grad_output", "grad_sampling_loc",
      "grad_value", "level_start_index", "sampling_loc", "spatial_shapes",
      "value"},
   mluOpRoiAwarePool3dForward |-> {"argmax_desc"},  \* read, then compared
   mluOpRoiawarePool3dForward |-> {"argmax_desc"},
   mluOpDeformRoiPoolForward  |-> {"offset_desc"},
   mluOpDeformRoiPoolBackward |-> {"offset_desc", "grad_offset_desc"},
   mluOpGetIndiceConvolutionBackwardDataWorkspaceSize |-> {"indice_num"},
   mluOpIndiceConvolutionBackwardData |-> {"indice_num"},
   mluOpSetTensorDescriptorDim    |-> {"desc", "dimSize"},
   mluOpSetTensorDescriptorDim_v2 |-> {"desc", "dimSize"},
   mluOpGetSeqDataDescriptor_v2   |-> {"dtype"},  \* else an optional result
   mluOpCreateTensorSetDescriptor |-> {"tensorSet", "tensorSetDimSize"},
   mluOpGetTensorSetDescriptor |-> {"dimSize", "tensorSet", "tensorSetDimNb"},
   mluOpInitTensorSetMemberDescriptor    |-> {"tensorIndex", "tensorSet"},
   mluOpInitTensorSetMemberDescriptor_v2 |-> {"tensorIndex", "tensorSet"},
   mluOpInitTensorSetMemberDescriptorPositionAndScale |->
     {"tensorIndex", "tensorSet"},
   mluOpGetTensorSetDescriptorSize |-> {"sizeInBytes"},
   mluOpGetTensorAndDataFromTensorSet |->
     {"dataAddrInDevice", "tensorDesc", "tensorIndex"},
   mluOpCreateFFTPlan |-> {"fft_plan"},
   mluOpExecFFT |-> {"input", "output"}]  \* in the case, tested after it

Known ==
  tested \cup IF op \in DOMAIN Trusting THEN Trusting[op] ELSE {}

\* What kernels/fft creates and never gives back (c2c_fft_host.cpp:2473,
\* fft_basic_ops.cpp:242 and 533, irfft_host.cpp:938).
Leaked == {"column_d_desc", "malloced", "transed_input_desc",
           "concat_output_desc"}

\* Operations whose purpose is to write to an object of the caller, and those
\* of them that have written when they refuse the call.
Writers == DOMAIN CoreApi \cup {"mluOpMakeFFTPlanMany",
                                "mluOpSetFFTReserveArea"}
PartialWriters ==
  {"mluOpUpdateContextInformation", "mluOpSetTensorDescriptor",
   "mluOpSetTensorDescriptor_v2", "mluOpSetTensorDescriptorEx",
   "mluOpSetTensorDescriptorEx_v2", "mluOpSetSeqDataDescriptor",
   "mluOpSetSeqDataDescriptor_v2", "mluOpInitTensorSetMemberDescriptor",
   "mluOpInitTensorSetMemberDescriptor_v2", "mluOpMakeFFTPlanMany",
   "mluOpSetFFTReserveArea",
   "mluOpExecFFT"}  \* between Resize and Resized of Bluestein's algorithm

\* Operations that drop the status of some call.
Forgiving ==
  {"mluOpContiguous", "mluOpGetIndicePairs", "mluOpSetGroupTensorDescriptors",
   "mluOpSetGroupTensorDescriptors_v2", "mluOpCreateFFTPlan",
   "mluOpMakeFFTPlanMany", "mluOpSetFFTReserveArea", "mluOpExecFFT",
   "mluOpDestroyFFTPlan", "mluOpPolyNms"}

(***************************************************************************)
(* A call that succeeds has destroyed every CNNL handle, descriptor and    *)
(* algorithm it created, whatever branch and however many turns of a loop  *)
(* it took: DEFINE_CREATE_AND_SET_CNNL_* and DESTROY_CNNL_* pair up across *)
(* the functions of an operator.  Leaked are the known exceptions, and the *)
(* objects of a call of kernels/fft that failed and was not noticed.       *)
(***************************************************************************)
SuccessReleases ==
  outcome = "success" /\ (op \in DOMAIN FFTApi => ~ missed)
    => held \subseteq Leaked

(***************************************************************************)
(* No object is destroyed or handed to CNNL when it does not exist, and    *)
(* none is created over one that still does (which would lose it).         *)
(***************************************************************************)
ObjectsAreHeld ==
  /\ Now("put") \/ Now("give") => Head1.what \subseteq held
  /\ Now("work") => Head1.by \subseteq held
  /\ Now("get") /\ ~ missed => Head1.what \cap held \subseteq Leaked

(***************************************************************************)
(* GEN_CASE_START and GEN_CASE_END alternate: an operator opens one case,  *)
(* closes only an open one, and never reports success with its case open   *)
(* (the stack of gen_case.cpp would count the next operator as nested).    *)
(***************************************************************************)
CaseInOrder ==
  /\ Now("on")  => case = "unopened"
  /\ Now("end") => case = "open"
  /\ outcome = "success" => case # "open"

(***************************************************************************)
(* Every tensor that device work touches inside a case was recorded by a   *)
(* GEN_CASE_DATA of that case, so the dump can replay the work.            *)
(***************************************************************************)
CaseDescribesWork ==
  Now("work") /\ case = "open" => Head1.what \subseteq dumped \cup Scratch

(***************************************************************************)
(* An argument is refused before anything was written to the device: a     *)
(* call that returns BAD_PARAM changed no tensor.  One operator fills      *)
(* grad_input first (moe_dispatch_backward_data.cpp:147-157).              *)
(***************************************************************************)
ChecksPrecedeWork ==
  (Now("check") \/ Now("test")) /\ worked
     => op = "mluOpMoeDispatchBackwardData"

(***************************************************************************)
(* What is dereferenced, written or given to a kernel of this library or   *)
(* to the test case was compared with NULL on every path that leads there; *)
(* what goes to CNNL is for CNNL to test.                                  *)
(***************************************************************************)
TestedBeforeUse ==
  /\ Now("check") \/ Now("read") \/ Now("alter")
       => Head1.what \subseteq Known \cup held
  /\ Now("on") => Head1.what \subseteq Known
  /\ Now("work") /\ Head1.by = {} => Head1.what \subseteq Known \cup Scratch

(***************************************************************************)
(* An operator gives the objects of its caller back as they were, on the   *)
(* error paths too (sqrt.cpp checks an int32 x_desc as a float one), and   *)
(* an operation that is to change one leaves it alone when it refuses the  *)
(* call; a NULL handle stops mluOpSqrt before it has written x_desc back.  *)
(***************************************************************************)
CallerKeepsDescriptors ==
  /\ outcome = "success" => altered = {} \/ op \in Writers
  /\ outcome = "error" =>
       \/ altered = {} \/ op \in PartialWriters
       \/ op = "mluOpSqrt" /\ "handle" \notin tested

(***************************************************************************)
(* "CHECK_RETURN: used in operators, to check the functions that return    *)
(* mluOpStatus_t" (docs/MLU-OPS-Foolproof-Guide-zh.md:73): success means   *)
(* that no call failed.  Forgiving are the operations that break the rule. *)
(***************************************************************************)
FailuresAreReported == outcome = "success" /\ missed => op \in Forgiving
=============================================================================

------------------------------- MODULE CoreHost -------------------------------
(***************************************************************************)
(* The host code of core/: the handle (context.cpp), the fields of tensor, *)
(* sequence-data and tensor-set descriptors (tensor.cpp), and their        *)
(* conversion to CNNL's (cnnl_helper.cpp).  Alter is a write to the fields *)
(* of an object that the caller holds.  The pool that descriptors come     *)
(* from is the business of DescriptorPool.                                 *)
(***************************************************************************)
EXTENDS HostCall

\* The setters and getters that test one object, then copy.
Setter(obj)       == <<NotNull({obj}), Alter({obj}), Ok>>
Getter(obj, outs) == <<NotNull({obj} \cup outs), Read({obj} \cup outs), Ok>>

-----------------------------------------------------------------------------
\* core/context.cpp: the versions of CNRT and of the driver
mluOpCheckDependency == <<MayReturn, Refuse, Refuse, Ok>>

\* context.h: each number is written as soon as the driver gives it
initJobNum(ctx) ==
  <<Try, Alter({ctx}), Try, Alter({ctx}), Try, Alter({ctx}),
    Try, Alter({ctx}), Try, Alter({ctx}), Try, Alter({ctx}), Ok>>

\* the context exists before the driver is asked about the device
mluOpCreate ==
  <<NotNull({"handle"}), Call(mluOpCheckDependency), Take({"ctx"}), Try,
    Alter({"ctx"}), Try, Call(initJobNum("ctx")), Alter({"ctx"}),
    Give({"ctx"}), Ok>>

mluOpUpdateContextInformation ==
  <<NotNull({"handle"}), Try, Alter({"handle"}), Try, Alter({"handle"}),
    Call(initJobNum("handle")), Ok>>

mluOpSetAtomicsMode == Setter("handle")
mluOpGetAtomicsMode == Getter("handle", {"atomics_mode"})
mluOpDestroy        == <<NotNull({"handle"}), Ok>>
mluOpSetQueue       == Setter("handle")
mluOpGetQueue       == Getter("handle", {"queue"})
mluOpGetDevice      == Getter("handle", {"device"})

mluOpSetQuantizeRoundMode ==
  <<NotNull({"handle"}), Refuse, Check({"handle"}), Alter({"handle"}), Ok>>

mluOpGetQuantizeRoundMode == Getter("handle", {"round_mode"})
mluOpGetReservedMemSize   == <<NotNull({"mem_size"}), Read({"mem_size"}), Ok>>

mluOpGetContextParam ==
  <<NotNull({"handle", "param"}), Refuse, Read({"handle", "param"}), Ok>>

-----------------------------------------------------------------------------
\* core/tensor.cpp: tensor descriptors
mluOpGetSizeOfDataType == <<NotNull({"size"}), Refuse, Read({"size"}), Ok>>

\* legal only in host pointer mode
mluOpSetTensorDescriptorZeroDim == <<Check({"desc"}), Alter({"desc"}), Ok>>

setTensorDescriptorDimBase == <<Alter({"desc"})>>

setTensorDescriptorDim ==
  <<Either(<<Call(mluOpSetTensorDescriptorZeroDim)>>,
           setTensorDescriptorDimBase \o <<Read({"dimSize"})>>),
    Alter({"desc"}), Ok>>
setTensorDescriptorDim_v2 ==
  setTensorDescriptorDimBase \o <<Read({"dimSize"}), Alter({"desc"}), Ok>>

\* type and layout are written before the sizes are tested
WrittenThen(sized) ==
  <<Refuse, Alter({"desc"}),
    Either(<<Call(mluOpSetTensorDescriptorZeroDim)>>, sized), Ok>>

setTensorDescriptor ==
  WrittenThen(<<Refuse, NotNull({"dimSize"}), Call(setTensorDescriptorDim)>>)
setTensorDescriptor_v2 ==
  WrittenThen(<<Refuse, NotNull({"dimSize"}),
                Call(setTensorDescriptorDim_v2)>>)
setTensorDescriptorEx ==
  WrittenThen(<<NotNull({"dimSize", "dimStride"}), Refuse>>
              \o setTensorDescriptorDimBase)
setTensorDescriptorEx_v2 ==
  WrittenThen(<<NotNull({"dimSize", "dimStride"})>>
              \o setTensorDescriptorDimBase)

resetTensorDescriptor            == <<Alter({"desc"}), Ok>>
setTensorDescriptorOnchipDataType == <<Alter({"desc"}), Ok>>
setTensorDescriptorPointerMode   == <<Refuse, Alter({"desc"}), Ok>>

getTensorDescriptorEx ==
  <<NotNull({"layout", "dtype", "dimNb", "dimSize", "dimStride"}),
    Read({"layout", "dtype", "dimNb", "dimSize", "dimStride"}), Ok>>
getTensorDescriptorEx_v2 == getTensorDescriptorEx

\* each result is optional
getTensorDescriptor    == <<Optional({"layout", "dtype", "dimNb", "dimSize"}),
                            Read({"desc"}), Ok>>
getTensorDescriptor_v2 == getTensorDescriptor

getTensorDescriptorOnchipDataType ==
  <<NotNull({"onchip_dtype"}), Read({"onchip_dtype"}), Ok>>
getTensorDescriptorPointerMode ==
  <<NotNull({"pointer_mode"}), Read({"pointer_mode"}), Ok>>

\* the public ones test the descriptor and pass the call on
OnDesc(p) == <<NotNull({"desc"}), Call(p), Ok>>

mluOpSetTensorDescriptor       == OnDesc(setTensorDescriptor)
mluOpSetTensorDescriptor_v2    == OnDesc(setTensorDescriptor_v2)
mluOpSetTensorDescriptorDim    == <<Call(setTensorDescriptorDim), Ok>>
mluOpSetTensorDescriptorDim_v2 == <<Call(setTensorDescriptorDim_v2), Ok>>
mluOpResetTensorDescriptor     == OnDesc(resetTensorDescriptor)
mluOpSetTensorDescriptorEx     == OnDesc(setTensorDescriptorEx)
mluOpSetTensorDescriptorEx_v2  == OnDesc(setTensorDescriptorEx_v2)
mluOpSetTensorDescriptorOnchipDataType ==
  OnDesc(setTensorDescriptorOnchipDataType)
mluOpSetTensorDescriptorPosition               == Setter("desc")
mluOpSetTensorDescriptorPositionAndScale       == Setter("desc")
mluOpSetTensorDescriptorPositionScaleAndOffset == Setter("desc")
mluOpSetTensorDescriptorPointerMode == OnDesc(setTensorDescriptorPointerMode)

mluOpGetTensorDescriptorEx    == OnDesc(getTensorDescriptorEx)
mluOpGetTensorDescriptorEx_v2 == OnDesc(getTensorDescriptorEx_v2)
mluOpGetTensorDescriptor      == OnDesc(getTensorDescriptor)
mluOpGetTensorDescriptor_v2   == OnDesc(getTensorDescriptor_v2)
mluOpGetTensorDescriptorOnchipDataType ==
  OnDesc(getTensorDescriptorOnchipDataType)
mluOpGetTensorDescriptorPosition         == Getter("desc", {"position"})
mluOpGetTensorDescriptorPositionAndScale ==
  Getter("desc", {"position", "scale"})
mluOpGetTensorDescriptorPositionScaleAndOffset ==
  Getter("desc", {"position", "scale", "offset"})
mluOpGetTensorDescriptorPointerMode ==
  <<NotNull({"desc", "pointer_mode"}), Read({"desc", "pointer_mode"}), Ok>>

\* a member that refuses its sizes is passed over
mluOpSetGroupTensorDescriptors ==
  <<NotNull({"group_desc", "group_layout", "group_dtype", "group_dimNb",
             "group_dimSize"}), Refuse,
    Repeat(<<CallDropped(mluOpSetTensorDescriptor)>>), Ok>>
mluOpSetGroupTensorDescriptors_v2 ==
  <<NotNull({"group_desc", "group_layout", "group_dtype", "group_dimNb",
             "group_dimSize"}), Refuse,
    Repeat(<<CallDropped(mluOpSetTensorDescriptor_v2)>>), Ok>>

-----------------------------------------------------------------------------
\* core/tensor.cpp: descriptors of sequence data
mluOpCreateSeqDataDescriptor ==
  <<NotNull({"seq_data_desc"}), Take({"seq"}), Give({"seq"}), Ok>>

mluOpSetSeqDataDescriptorBase ==
  <<NotNull({"seq_data_desc", "dimSize"}), Refuse, Alter({"seq_data_desc"}),
    Ok>>

\* the lists are emptied, and then filled until an element is refused
mluOpSetSeqDataDescriptor ==
  <<Call(mluOpSetSeqDataDescriptorBase), Alter({"seq_data_desc"}),
    Repeat(<<Check({"dimSize"}), Alter({"seq_data_desc"})>>),
    Optional({"seqLengthArray"}), Repeat(<<Refuse, Alter({"seq_data_desc"})>>),
    Ok>>
mluOpSetSeqDataDescriptor_v2 == mluOpSetSeqDataDescriptor

\* the results are optional, but the padding is copied by the type of *dtype
mluOpGetSeqDataDescriptor_v2 ==
  <<NotNull({"seq_data_desc"}), Read({"seq_data_desc"}),
    Optional({"layout", "dimNb", "dimSize", "seqLengthArraySize",
              "seqLengthArray"}),
    Maybe(<<Read({"dtype"})>>), Ok>>

mluOpSetSeqDataDescriptorPositionAndScale == Setter("seq_data_desc")
mluOpGetSeqDataDescriptorPositionAndScale ==
  Getter("seq_data_desc", {"position", "scale"})
mluOpSetSeqDataDescriptorOnchipDataType == Setter("seq_data_desc")
mluOpGetSeqDataDescriptorOnchipDataType ==
  Getter("seq_data_desc", {"onchip_dtype"})
mluOpDestroySeqDataDescriptor == <<NotNull({"seq_data_desc"}), Ok>>

-----------------------------------------------------------------------------
\* core/tensor.cpp: sets of tensors; a member is a descriptor of the set
mluOpCreateTensorSetDescriptor ==
  <<Take({"tss"}), Read({"tss", "tensorSetDimSize"}), Read({"tensorSet"}),
    Give({"tss"}), Ok>>
mluOpGetTensorSetDescriptor ==
  <<Read({"tensorSet", "tensorSetDimNb", "dimSize"}), Ok>>
mluOpDestroyTensorSetDescriptor == <<NotNull({"tensorSet"}), Ok>>

mluOpInitTensorSetMemberDescriptor ==
  <<Check({"tensorSet"}), Read({"tensorIndex"}),
    Call(mluOpSetTensorDescriptor), Ok>>
mluOpInitTensorSetMemberDescriptor_v2 ==
  <<Check({"tensorSet"}), Read({"tensorIndex"}),
    Call(mluOpSetTensorDescriptor_v2), Ok>>
mluOpInitTensorSetMemberDescriptorPositionAndScale ==
  <<Check({"tensorSet"}), Read({"tensorIndex"}),
    Call(mluOpSetTensorDescriptorPositionAndScale), Ok>>

mluOpGetTensorSetDescriptorSize ==
  <<NotNull({"tensorSet"}), Read({"tensorSet", "sizeInBytes"}), Ok>>
mluOpGetTensorAndDataFromTensorSet ==
  <<NotNull({"tensorSet"}), Check({"tensorSet"}),
    Read({"tensorIndex", "tensorDesc", "dataAddrInDevice"}), Ok>>

-----------------------------------------------------------------------------
\* core/cnnl_helper.cpp: what DEFINE_CREATE_AND_SET_CNNL_* call.  The arrays
\* of sizes are freed at the end only.
mluOpConvertDescriptor ==
  <<Optional({"desc"}), MayReturn, Call(mluOpGetTensorDescriptor),
    Call(mluOpGetTensorDescriptorOnchipDataType), Take({"dims", "strides"}),
    Call(mluOpGetTensorDescriptorEx), Try, Give({"dims", "strides"}), Ok>>
mluOpConvertDescriptor_v2 ==
  <<Optional({"desc"}), MayReturn, Call(mluOpGetTensorDescriptor),
    Call(mluOpGetTensorDescriptorOnchipDataType), Take({"dims", "strides"}),
    Call(mluOpGetTensorDescriptorEx_v2), Try, Give({"dims", "strides"}), Ok>>
mluOpConvertHandle == <<Call(mluOpGetQueue), Try, Ok>>

\* The operations of this module, mluOpCheckDependency among mluOpCreate's own.
CoreApi ==
  [mluOpCreate |-> mluOpCreate,
   mluOpUpdateContextInformation |-> mluOpUpdateContextInformation,
   mluOpSetAtomicsMode |-> mluOpSetAtomicsMode,
   mluOpGetAtomicsMode |-> mluOpGetAtomicsMode,
   mluOpDestroy |-> mluOpDestroy,
   mluOpSetQueue |-> mluOpSetQueue,
   mluOpGetQueue |-> mluOpGetQueue,
   mluOpGetDevice |-> mluOpGetDevice,
   mluOpSetQuantizeRoundMode |-> mluOpSetQuantizeRoundMode,
   mluOpGetQuantizeRoundMode |-> mluOpGetQuantizeRoundMode,
   mluOpGetReservedMemSize |-> mluOpGetReservedMemSize,
   mluOpGetContextParam |-> mluOpGetContextParam,
   mluOpGetSizeOfDataType |-> mluOpGetSizeOfDataType,
   mluOpSetTensorDescriptor |-> mluOpSetTensorDescriptor,
   mluOpSetTensorDescriptor_v2 |-> mluOpSetTensorDescriptor_v2,
   mluOpSetTensorDescriptorDim |-> mluOpSetTensorDescriptorDim,
   mluOpSetTensorDescriptorDim_v2 |-> mluOpSetTensorDescriptorDim_v2,
   mluOpResetTensorDescriptor |-> mluOpResetTensorDescriptor,
   mluOpSetTensorDescriptorEx |-> mluOpSetTensorDescriptorEx,
   mluOpSetTensorDescriptorEx_v2 |-> mluOpSetTensorDescriptorEx_v2,
   mluOpSetTensorDescriptorOnchipDataType |->
     mluOpSetTensorDescriptorOnchipDataType,
   mluOpSetTensorDescriptorPosition |-> mluOpSetTensorDescriptorPosition,
   mluOpSetTensorDescriptorPositionAndScale |->
     mluOpSetTensorDescriptorPositionAndScale,
   mluOpSetTensorDescriptorPositionScaleAndOffset |->
     mluOpSetTensorDescriptorPositionScaleAndOffset,
   mluOpSetTensorDescriptorPointerMode |->
     mluOpSetTensorDescriptorPointerMode,
   mluOpGetTensorDescriptorEx |-> mluOpGetTensorDescriptorEx,
   mluOpGetTensorDescriptorEx_v2 |-> mluOpGetTensorDescriptorEx_v2,
   mluOpGetTensorDescriptor |-> mluOpGetTensorDescriptor,
   mluOpGetTensorDescriptor_v2 |-> mluOpGetTensorDescriptor_v2,
   mluOpGetTensorDescriptorOnchipDataType |->
     mluOpGetTensorDescriptorOnchipDataType,
   mluOpGetTensorDescriptorPosition |-> mluOpGetTensorDescriptorPosition,
   mluOpGetTensorDescriptorPositionAndScale |->
     mluOpGetTensorDescriptorPositionAndScale,
   mluOpGetTensorDescriptorPositionScaleAndOffset |->
     mluOpGetTensorDescriptorPositionScaleAndOffset,
   mluOpGetTensorDescriptorPointerMode |->
     mluOpGetTensorDescriptorPointerMode,
   mluOpSetGroupTensorDescriptors |-> mluOpSetGroupTensorDescriptors,
   mluOpSetGroupTensorDescriptors_v2 |-> mluOpSetGroupTensorDescriptors_v2,
   mluOpCreateSeqDataDescriptor |-> mluOpCreateSeqDataDescriptor,
   mluOpSetSeqDataDescriptor |-> mluOpSetSeqDataDescriptor,
   mluOpSetSeqDataDescriptor_v2 |-> mluOpSetSeqDataDescriptor_v2,
   mluOpGetSeqDataDescriptor_v2 |-> mluOpGetSeqDataDescriptor_v2,
   mluOpSetSeqDataDescriptorPositionAndScale |->
     mluOpSetSeqDataDescriptorPositionAndScale,
   mluOpGetSeqDataDescriptorPositionAndScale |->
     mluOpGetSeqDataDescriptorPositionAndScale,
   mluOpSetSeqDataDescriptorOnchipDataType |->
     mluOpSetSeqDataDescriptorOnchipDataType,
   mluOpGetSeqDataDescriptorOnchipDataType |->
     mluOpGetSeqDataDescriptorOnchipDataType,
   mluOpDestroySeqDataDescriptor |-> mluOpDestroySeqDataDescriptor,
   mluOpCreateTensorSetDescriptor |-> mluOpCreateTensorSetDescriptor,
   mluOpGetTensorSetDescriptor |-> mluOpGetTensorSetDescriptor,
   mluOpDestroyTensorSetDescriptor |-> mluOpDestroyTensorSetDescriptor,
   mluOpInitTensorSetMemberDescriptor |->
     mluOpInitTensorSetMemberDescriptor,
   mluOpInitTensorSetMemberDescriptor_v2 |->
     mluOpInitTensorSetMemberDescriptor_v2,
   mluOpInitTensorSetMemberDescriptorPositionAndScale |->
     mluOpInitTensorSetMemberDescriptorPositionAndScale,
   mluOpGetTensorSetDescriptorSize |-> mluOpGetTensorSetDescriptorSize,
   mluOpGetTensorAndDataFromTensorSet |->
     mluOpGetTensorAndDataFromTensorSet,
   mluOpConvertDescriptor |-> mluOpConvertDescriptor,
   mluOpConvertDescriptor_v2 |-> mluOpConvertDescriptor_v2,
   mluOpConvertHandle |-> mluOpConvertHandle]
=============================================================================

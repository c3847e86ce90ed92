------------------------------- MODULE HostCall -------------------------------
(***************************************************************************)
(* What the host code of an operator is made of.  A function is written as *)
(* the sequence of the steps it takes, in their order: the macros of       *)
(* core/logging.h that test an argument and return, the CNNL objects of    *)
(* core/cnnl_helper.h that it creates and destroys, the device work that   *)
(* it enqueues, the test case that core/gen_case.h opens and closes, and   *)
(* the ways it returns.  Tensors, descriptors and objects are names; what  *)
(* a condition compares is left out, so every test may go either way.      *)
(***************************************************************************)
EXTENDS Sequences

Step(do, what, by, of) == [do |-> do, what |-> what, by |-> by, of |-> of]
Plain(do, what) == Step(do, what, {}, {})

(* Tests of the arguments: each may refuse the call and return.            *)
NotNull(args)   == Plain("test", args)          \* PARAM_CHECK(api, arg != NULL)
NotNullIf(args) == Plain("test if used", args)  \* the same, under a condition
Optional(args)  == Plain("ask", args)           \* if (arg != NULL): NULL is legal
Check(args)     == Plain("check", args)         \* a test that dereferences args
Refuse          == Check({})                    \* a test of values already read
Read(args)      == Plain("read", args)          \* dereferenced, nothing tested

(* Calls that may fail, and whose failure the function returns.            *)
Try            == Plain("try", {})
Unchecked      == Plain("unchecked", {})        \* one whose failure is dropped
Get(objs)      == Plain("get", objs)            \* create, and fill in, objects
Put(objs)      == Plain("put", objs)            \* destroy them
Take(objs)     == Plain("take", objs)           \* what new gives
Give(objs)     == Plain("give", objs)           \* to the caller, or to delete
Alter(args)    == Plain("alter", args)          \* write to a caller's descriptor
Restore(args)  == Plain("restore", args)        \* write back what it held
Work(tensors)  == Plain("work", tensors)        \* launch a kernel
Run(objs, tensors) == Step("work", tensors, objs, {})  \* the same through CNNL

(* GEN_CASE_START with the GEN_CASE_DATA of tensors, and GEN_CASE_END.     *)
On(tensors) == Plain("on", tensors)
End         == Plain("end", {})

Ok == Plain("ok", {})        \* return MLUOP_STATUS_SUCCESS
No == Plain("no", {})        \* return some other status

(* One of several sequences, or none; a loop body none, once or twice.     *)
Choose(alts) == Step("choose", {}, {}, alts)
Either(p, q) == Choose({p, q})
Maybe(p)     == Choose({<<>>, p})
Repeat(p)    == Choose({<<>>, p, p \o p})
Block(p)     == Choose({p})
MayReturn    == Maybe(<<Ok>>)

(* A parameter check that meets an empty tensor sets zero_element and      *)
(* returns SUCCESS; its caller looks at the flag.                          *)
ReturnEmpty   == Maybe(<<Plain("empty", {}), Ok>>)
IfEmpty(p)    == Step("if empty", {}, {}, {p})
ReturnIfEmpty == IfEmpty(<<Ok>>)

(* A call whose error the caller returns (CHECK_RETURN), one for which the *)
(* caller has steps of its own when it fails, and one whose status it does *)
(* not look at.                                                            *)
Call(p)         == Step("call", {}, {}, {[body |-> p, rescue |-> <<>>]})
CallOr(p, or)   == Step("call", {}, {}, {[body |-> p, rescue |-> or]})
CallDropped(p)  == Step("call dropped", {}, {}, {[body |-> p, rescue |-> <<>>]})
Missed          == Plain("missed", {})

(* DEFINE_CREATE_AND_SET_CNNL_*, a CNNL call, DESTROY_CNNL_*.              *)
Cnnl(objs, tensors) == Block(<<Get(objs), Run(objs, tensors), Put(objs)>>)
CnnlAsk(objs)       == Block(<<Get(objs), Try, Put(objs)>>)
Fill(tensors)       == Cnnl({"cnnl_handle", "cnnl_output_desc"}, tensors)
=============================================================================

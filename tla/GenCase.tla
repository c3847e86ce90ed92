------------------------------ MODULE GenCase ------------------------------
(***************************************************************************)
(* The gen_case debugging tool (src/core/gen_case.cpp): every operator     *)
(* calls MLUOP_GEN_CASE_ON_NEW, writes a file with what it was called with *)
(* if that says so, does its work, which may call other operators, and     *)
(* ends with GEN_CASE_END.  A stack of modes per thread keeps the operators*)
(* called by an operator silent.  mluOpSetGenCaseMode changes the mode of  *)
(* the process at any time, from any thread.                               *)
(***************************************************************************)
EXTENDS Integers, Sequences, FiniteSets

CONSTANTS
  Threads,      \* the threads that call operators
  EnvModes,     \* what MLUOP_GEN_CASE may hold
  Modes,        \* the modes given to mluOpSetGenCaseMode
  MayFail,      \* whether operators may return between their two calls
  MaxDepth,     \* bound: operators under way in a thread
  MaxStack      \* bound: the modes on a thread's stack and the slots it takes

ASSUME GenCaseAssumption ==
  /\ EnvModes \subseteq Nat
  /\ Modes \subseteq Int
  /\ MayFail \in BOOLEAN
  /\ MaxDepth \in Nat \ {0}
  /\ MaxStack \in Nat \ {0}

VARIABLES
  gen_case_mode,  \* gen_case_mode_
  dump_internal,  \* dump_internal_
  mode_stacks,    \* mode_stacks_: the stack of each thread that has one
  nodes,          \* nodes_: per thread, the slots taken (op_name not empty)
  frames,         \* the operators under way in each thread, outermost first
  wild,           \* memory was accessed that is not there
  disturbed,      \* history: since the last call of a thread that put its stack
                  \* right, an operator failed or the mode was set under it
  setUnder        \* history: the mode was set under an operator of the thread

vars == <<gen_case_mode, dump_internal, mode_stacks, nodes, frames, wild,
          disturbed, setUnder>>

(***************************************************************************)
(* An operator is about to test the mode ("on"), to push it ("push"), to   *)
(* write its file ("start"), in its work ("body"), or in GEN_CASE_END: to  *)
(* reset its slot ("reset"), test the mode ("restore") or pop it ("pop").  *)
(* asked says that the mode was on when it began, wrote that it wrote its  *)
(* file, node is the slot it took, or 0.                                   *)
(***************************************************************************)
Places == {"on", "push", "start", "body", "reset", "restore", "pop"}

Frame == [at : Places, asked : BOOLEAN, wrote : BOOLEAN, node : Nat]

NewFrame == [at |-> "on", asked |-> FALSE, wrote |-> FALSE, node |-> 0]

\* What find() on mode_stacks_ gives, and whether front() and back() exist.
HasStack(t) == t \in DOMAIN mode_stacks
IsEmpty(t) == HasStack(t) /\ mode_stacks[t] = <<>>
Back(t) == mode_stacks[t][Len(mode_stacks[t])]

Depth(t) == Len(frames[t])
Top(t) == frames[t][Depth(t)]
At(t, place) == ~wild /\ Depth(t) > 0 /\ Top(t).at = place

SetTop(t, f) == frames' = [frames EXCEPT ![t][Depth(t)] = f]
Leave(t) == frames' = [frames EXCEPT ![t] = SubSeq(@, 1, Depth(t) - 1)]

Init ==
  /\ gen_case_mode \in EnvModes
  /\ dump_internal \in BOOLEAN
  /\ mode_stacks = <<>>
  /\ nodes = [t \in Threads |-> {}]
  /\ frames = [t \in Threads |-> <<>>]
  /\ wild = FALSE
  /\ disturbed = [t \in Threads |-> FALSE]
  /\ setUnder = [t \in Threads |-> FALSE]

-----------------------------------------------------------------------------
\* The program calls an operator, or the work of an operator calls one.
Call(t) ==
  /\ ~wild
  /\ Depth(t) < MaxDepth
  /\ Depth(t) > 0 => Top(t).at = "body"
  /\ HasStack(t) => Len(mode_stacks[t]) < MaxStack
  /\ Cardinality(nodes[t]) < MaxStack
  /\ frames' = [frames EXCEPT ![t] = Append(@, NewFrame)]
  /\ UNCHANGED <<gen_case_mode, dump_internal, mode_stacks, nodes, wild,
                 disturbed, setUnder>>

\* genCaseModeGet(true), before its lock.
TestOn(t) ==
  /\ At(t, "on")
  /\ SetTop(t, IF gen_case_mode > 0
               THEN [Top(t) EXCEPT !.at = "push", !.asked = TRUE]
               ELSE [Top(t) EXCEPT !.at = "body"])
  /\ UNCHANGED <<gen_case_mode, dump_internal, mode_stacks, nodes, wild,
                 disturbed, setUnder>>

\* What the operators called by this one will find at the front.
InternalMode == IF dump_internal THEN gen_case_mode ELSE 0

\* A bug: the front keeps the mode, and internal operators are not silenced.
MutPushed(s) == Append(s, Head(s))

\* push_back(front()), then front() is what internal operators get.
Pushed(s) == <<InternalMode>> \o Tail(s) \o <<Head(s)>>

\* genCaseModeGet(true) under the lock: the stack of the thread is pushed, or
\* made at its first call; the mode of this operator is at its back.  front()
\* of an empty vector is no memory of its own.
Push(t) ==
  /\ At(t, "push")
  /\ LET stack == IF HasStack(t) THEN Pushed(mode_stacks[t])
                                 ELSE <<InternalMode, gen_case_mode>>
         on == stack[Len(stack)] > 0
     IN
     \/ /\ ~IsEmpty(t)
        /\ mode_stacks' = [u \in DOMAIN mode_stacks \cup {t} |->
                              IF u = t THEN stack ELSE mode_stacks[u]]
        /\ SetTop(t, [Top(t) EXCEPT !.at = IF on THEN "start" ELSE "body"])
        /\ UNCHANGED wild
     \/ /\ IsEmpty(t)
        /\ wild' = TRUE
        /\ UNCHANGED <<mode_stacks, frames>>
  /\ UNCHANGED <<gen_case_mode, dump_internal, nodes, disturbed, setUnder>>

\* The first slot whose op_name is empty, or one more.
FreeSlot(t) ==
  CHOOSE n \in 1..Cardinality(nodes[t]) + 1 :
    n \notin nodes[t] /\ \A m \in 1..n - 1 : m \in nodes[t]

\* A bug: the slot is taken without setting its op_name.
MutStart(t) ==
  /\ At(t, "start")
  /\ SetTop(t, [Top(t) EXCEPT !.at = "body", !.wrote = TRUE, !.node = FreeSlot(t)])
  /\ UNCHANGED <<gen_case_mode, dump_internal, mode_stacks, nodes, wild, disturbed, setUnder>>

\* GEN_CASE_START, the calls that fill the node, and serialize.
Start(t) ==
  /\ At(t, "start")
  /\ nodes' = [nodes EXCEPT ![t] = @ \cup {FreeSlot(t)}]
  /\ SetTop(t, [Top(t) EXCEPT !.at = "body", !.wrote = TRUE, !.node = FreeSlot(t)])
  /\ UNCHANGED <<gen_case_mode, dump_internal, mode_stacks, wild, disturbed, setUnder>>

\* A CHECK_RETURN, PARAM_CHECK or KERNEL_CHECK between the two calls returns
\* from the operator and leaves GEN_CASE_END out.
Fail(t) ==
  /\ MayFail
  /\ At(t, "body")
  /\ Leave(t)
  /\ disturbed' = [disturbed EXCEPT ![t] = @ \/ Top(t).asked]
  /\ UNCHANGED <<gen_case_mode, dump_internal, mode_stacks, nodes, wild, setUnder>>

\* GEN_CASE_END: the mode is tested without the lock ...
End(t) ==
  /\ At(t, "body")
  /\ SetTop(t, [Top(t) EXCEPT !.at = IF gen_case_mode > 0 THEN "reset" ELSE "restore"])
  /\ UNCHANGED <<gen_case_mode, dump_internal, mode_stacks, nodes, wild,
                 disturbed, setUnder>>

\* A bug: the slot reset is always the first.
MutUsed(t) == 1

\* The slot of nodes_vector that END resets: as many as are taken, counted.
Used(t) == Cardinality(nodes[t])

\* ... the thread's stack is looked up and its last slot reset, if its mode
\* was on: with no stack, or no slot, there is nothing there ...
Reset(t) ==
  /\ At(t, "reset")
  /\ IF ~HasStack(t) \/ IsEmpty(t)
     THEN /\ wild' = TRUE
          /\ UNCHANGED <<nodes, frames>>
     ELSE /\ SetTop(t, [Top(t) EXCEPT !.at = "restore"])
          /\ IF Back(t) > 0
             THEN /\ wild' = (Used(t) = 0)
                  /\ nodes' = [nodes EXCEPT ![t] = @ \ {Used(t)}]
             ELSE UNCHANGED <<nodes, wild>>
  /\ UNCHANGED <<gen_case_mode, dump_internal, mode_stacks, disturbed, setUnder>>

\* A bug: the back is popped and the front stays what it was.
MutRestored(s) == SubSeq(s, 1, Len(s) - 1)

\* front() = back(), then pop_back().
Restored(s) == SubSeq([s EXCEPT ![1] = s[Len(s)]], 1, Len(s) - 1)

\* ... genCaseModeRestore tests whether the mode is on still, before its lock ...
TestRestore(t) ==
  /\ At(t, "restore")
  /\ \/ gen_case_mode > 0 /\ SetTop(t, [Top(t) EXCEPT !.at = "pop"])
     \/ gen_case_mode <= 0 /\ Leave(t)
  /\ UNCHANGED <<gen_case_mode, dump_internal, mode_stacks, nodes, wild,
                 disturbed, setUnder>>

\* ... and pops the stack under it.
Restore(t) ==
  /\ At(t, "pop")
  /\ \/ /\ IsEmpty(t)
        /\ wild' = TRUE
        /\ UNCHANGED <<mode_stacks, frames>>
     \/ /\ HasStack(t) /\ ~IsEmpty(t)
        /\ mode_stacks' = [mode_stacks EXCEPT ![t] = Restored(@)]
        /\ Leave(t)
        /\ UNCHANGED wild
     \/ /\ ~HasStack(t)
        /\ Leave(t)
        /\ UNCHANGED <<mode_stacks, wild>>
  /\ UNCHANGED <<gen_case_mode, dump_internal, nodes, disturbed, setUnder>>

\* A bug: only the back of a stack gets the new mode.
MutOverwritten(s, mode) == [s EXCEPT ![Len(s)] = mode]

\* t is between its two calls in some operator, or in the calls.
InOperator(t) == \E k \in 1..Depth(t) : frames[t][k].at # "on"

\* Every mode on a stack is overwritten ...
Overwritten(s, mode) == [k \in 1..Len(s) |-> mode]

\* ... by mluOpSetGenCaseMode, which any thread of the program may call.  Its
\* test of the argument (mode < 0 && mode > 4) is never true.
SetMode(mode) ==
  /\ ~wild
  /\ gen_case_mode' = mode
  /\ mode_stacks' = [u \in DOMAIN mode_stacks |-> Overwritten(mode_stacks[u], mode)]
  /\ disturbed' = [u \in Threads |-> InOperator(u) \/ IsEmpty(u)]
  /\ setUnder' = [u \in Threads |-> setUnder[u] \/ InOperator(u)]
  /\ UNCHANGED <<dump_internal, nodes, frames, wild>>

Next ==
  \/ \E t \in Threads :
       \/ Call(t) \/ TestOn(t) \/ Push(t) \/ Start(t) \/ Fail(t)
       \/ End(t) \/ Reset(t) \/ TestRestore(t) \/ Restore(t)
  \/ \E mode \in Modes : SetMode(mode)

Spec == Init /\ [][Next]_vars

-----------------------------------------------------------------------------
\* "mode_stacks_ is used for eliminate internal prototxt" (gen_case.cpp:51):
\* in an operator called by an operator nothing is written, unless asked for.
InternalIsSilent ==
  \A t \in Threads :
    ~dump_internal /\ ~disturbed[t]
      => \A k \in 2..Depth(t) : ~frames[t][k].wrote

\* An operator the program calls with the mode on writes its file, however
\* many calls, nested or not, of this thread or others came before.
OutermostWrites ==
  \A t \in Threads :
    Depth(t) > 0 /\ frames[t][1].at = "body" /\ frames[t][1].asked /\ ~disturbed[t]
      => frames[t][1].wrote

\* GEN_CASE_END resets the slot of the operator that ends and no other, though
\* it finds it by counting (gen_case.cpp:388-398).
EndResetsOwnSlot ==
  \A t \in Threads :
    At(t, "reset") /\ ~disturbed[t] /\ ~setUnder[t] /\ Top(t).wrote
      => Used(t) = Top(t).node

\* Memory that is not there is touched only after the mode was set while an
\* operator was under way in the thread: failing operators alone never lead
\* there (gen_case.cpp:380-403).
WildNeedsSetUnder == wild => \E t \in Threads : setUnder[t]

\* "When mode is set to 1, the ... tool will generate operator information
\* files for all the operators that are called" (mlu_op.h:13199): for those the
\* program calls.
AllOperatorsWrite ==
  \A t \in Threads :
    Depth(t) > 0 /\ frames[t][1].at = "body" /\ frames[t][1].asked
      => frames[t][1].wrote
=============================================================================

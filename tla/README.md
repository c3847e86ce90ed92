# MLU-OPS in TLA+

TLA+ models of MLU-OPS, checked with TLC on small instances, and theorems about
them proved with TLAPS for all instances. Three kinds of models stand side by
side: of what *threads* share (the descriptor pool, gen_case, the publisher, the
test program's pool and scheduler), of what *one call* of an operator does on
every path through its host code, and of what an *FFT plan* does to memory.
Paths below are relative to the repository's `src/`, which `PROJECT.json` writes
out in full.

    tlc -workers 2 -config MCDescriptorPool.cfg DescriptorPool
    tlc -workers 2 -config MCOperators.cfg Operators
    tlc -workers 2 -config MCFFTPlans.cfg FFTPlans
    tlapm DescriptorPool_proofs.tla

## 1. The system

MLU-OPS is a library of operators for the Cambricon MLU with a C interface
(`mlu_op.h`). A program creates a handle and tensor descriptors, calls
operators, and destroys what it created. An operator (`kernels/`) checks its
arguments, describes the call for the debugging tool gen_case, and launches
device kernels or calls of CNNL, an external library. Around the operators
stands a small core (`core/`), and beside it a large test program
(`test/mlu_op_gtest/`).

| component | state | operations | who touches it | what makes it correct |
|---|---|---|---|---|
| descriptor pool, `core/tensor.cpp:200-243, 559-600, 816-850` | free list, extensions, spin lock | create, create group, destroy, destroy group | every thread, gen_case's nodes, FFT plans | a struct has one owner; the list never underflows; what is reused was destroyed; the lock is released |
| descriptor fields, `core/tensor.cpp` | dims, strides, type, quantisation | setters, getters, reset | the owner of the descriptor, some operators | a refused call changes nothing; an operator gives a descriptor back as it was |
| handle, `core/context.cpp` | device properties, queue, modes | create, update, get, set, destroy | one thread | a failing call changes nothing |
| operators, `kernels/*/*.cpp` | CNNL objects, the open case, device work | the exported functions | one thread each; they call one another | what is created is destroyed; checks come before work; a failure is reported; the case describes the work |
| FFT plans, `kernels/fft/` | factors, tables, buffers, flags | create, make, reserve, execute, destroy | one thread, the queue | stages stay inside the announced sizes, read what was written, deliver the scaled result |
| CNNL bridge, `core/cnnl_helper.*` | none of its own | conversions, macros that create and destroy | operators | creations and destructions pair up |
| gen_case, `core/gen_case.cpp/.h` | process mode, a stack of modes and a vector of nodes per thread | begin (`MLUOP_GEN_CASE_ON_NEW`), `GEN_CASE_*`, `GEN_CASE_END`, `mluOpSetGenCaseMode` | every operator, nested in one another | the operators the program calls write a file, those they call do not; the slot reset is one's own |
| publisher, `core/subscriber.hpp/.cpp` | two maps, rwlock, `delete_flag` | subscribe, unsubscribe, publish, destructor | kernel tracing, API tracing, tools | an unsubscribed handler is never in use; others are kept; a publish sees a map that stands still |
| thread pool, `test/.../thread_pool.*` | task queue, shutdown flag | enqueue, the worker's loop, destructor | the scheduler | no task lost, no worker asleep beside work, the destructor ends |
| scheduler, `test/.../gtest/mlu_op_gtest.cpp:147-426` | slots (executor, `in_used`, `been_chosen`), contexts, results | the master's loop, `setup`, `teardown` | the master and the workers of the pool | each case reported once; the run ends |
| kernel and API tracing, logging, types, tools | caches, tables | wraps, formatting | all | not modelled |
| hardware monitor, memory pools, parsers, executors, evaluator | counters, chunks | sampling, I/O, comparison | the test program | not modelled |

Interaction: an operator calls gen_case, other operators and CNNL; it creates and
destroys descriptors from the pool; kernel launches and API calls pass through
the tracing wraps to the publisher; the test program's master gives tasks to the
thread pool, whose workers create executors that call the operators. An FFT
plan's host calls only enqueue; the device works the queue off in order.

The hard behaviours are: a spin lock taken by hand; growth of a pool under group
calls; state per thread looked up by thread id and changed by other threads;
operators that return in the middle of what they must undo; callbacks under a
read lock; heap addresses as names; destruction of statics while threads run;
flags read without the mutex that guards them; exceptions in a worker; and, in
the FFT, some thirty combinations of type, rank, strategy and layout whose sizes,
addresses and kernels are computed by functions written apart. `PROJECT.json`
lists them one by one under `hazards`, with the properties that watch them.

## 2. The modules

| module | models | abstract counterpart |
|---|---|---|
| `DescriptorPool` | the pool of descriptors | `DescriptorAllocator`, refined |
| `ThreadPool` | the thread pool | |
| `TestScheduler` | `TestSuite::ThreadX`; INSTANCEs `ThreadPool` | `CaseRunner`, refined |
| `GenCase` | modes, stacks and slots of gen_case | |
| `PubSub` | the publisher | `EventRegistry`, refined |
| `HostCall` | the steps host code is made of | |
| `CoreHost` | handle, tensor, sequence and set descriptors, the CNNL bridge | |
| `ElementwiseHost`, `BoxesHost`, `RoiHost`, `ImageHost`, `PointsHost`, `AttentionHost`, `SparseHost`, `FFTHost` | the host code of the operators, by family | |
| `Operators` | one call of any exported operation, in its environment | |
| `FFTMemory` | regions, buffers and values; the stages all plans share | |
| `C2CFFT`, `RFFT`, `IRFFT` | sizes, tables and stages by type of transform | |
| `FFTPlans` | the life of a plan, and the device that runs its stages | |
| `*_proofs` | theorems | |
| `MCGenCase` | `GenCase` with symmetry of threads for TLC | |

Operators named `Mut...` and `BargeIn` are faulty versions of the definition that
follows them: what the code would be with a plausible mistake. No specification
uses them. Put in the place of the right definition, each makes one of the
properties fail, which shows that the property depends on that line of code.

### HostCall, the `...Host` modules and Operators

The host code of an operator is sequential and branches on values that the
properties do not tell apart; what they do tell apart is *what it does, in which
order, and what is left undone when it returns in the middle*. So each function
is written down as the sequence of its steps, in the order of the source:
`NotNull` and `Check` are the macros of `core/logging.h` that may return, `Get`
and `Put` the macros of `core/cnnl_helper.h` that create and destroy CNNL
objects, `Work` and `Run` a kernel launch and a call of CNNL, `On` and `End` the
case of `core/gen_case.h`, `Alter` and `Restore` writes to an object of the
caller, `Either` an `if` or `switch`, `Call` a call of another function, with
the steps its caller takes when it fails, and so on. Names of definitions are
those of the functions; a `...Host` module holds a family of operators, and its
last definition, `BoxesApi` or the like, maps the 193 exported operations to
their bodies. Where a function has the same steps for several arguments (a
workspace query, a setter of one field) they share a definition.

`Operators` runs one such body. Its actions are the kinds of steps: a test
passes or the function returns; a call succeeds or fails (a failure ends the
callers too, up to the first with steps of its own for it: `Fail`, `rescue`); a
choice takes any branch, so *every* path is explored, those that no argument
reaches included, which is sound for what the properties say: none holds on all
paths by ruling out one that the code can take. `held` are the CNNL objects
alive, `altered` the caller's descriptors that were written and not written
back, `case` and `dumped` the test case, `tested` the arguments compared with
NULL, `missed` that a status was dropped.

The exceptions are listed by operation and argument, in `Trusting`, `Leaked`,
`PartialWriters`, `Forgiving` and in two properties: each is a place where the
code departs from what it does everywhere else, and each is needed: without it
the run fails. They are the module's result as much as the properties are. To
name a few: `mluOpRoiAwarePool3dForward` reads `argmax_desc` before it tests it;
`mluOpMoeDispatchBackwardData` enqueues work before its last tests; the matmul
of `computeFFT2dMatMulColumn` leaks a descriptor on every call
(`c2c_fft_host.cpp:2473`); `mluOpSqrt` with a NULL handle returns with
`x_desc`'s type changed; `mluOpContiguous` drops the statuses of its calls,
and `mluOpPolyNms` cannot see one: the functions that launch its kernels are void.

### FFTMemory, C2CFFT, RFFT, IRFFT and FFTPlans

A host call of a plan enqueues *stages*: kernels, copies and CNNL calls, each a
set of regions it reads and a set it writes, with the value it expects or leaves
there. A region is a range of a space (the caller's input or output, the
workspace, the reserve area, the host, or `unset` for a pointer no code
assigned); sizes count real numbers. A value is a name (`x`, `y`, a table's
name, ...), the dimensions of one signal, and how often it was scaled, so what a
kernel computes is left out and what it depends on kept. `cells` is what memory
holds; a write erases what it overlaps.

`Forward` and `Backward` lay out buffers the way the `configure...Addrs`
functions add up offsets; the `Allocate...` operators are the functions that
announce the sizes; the two are translated separately, from separate sources,
which is what `WorkspaceHolds` compares. `exec...` are the sequences of stages,
with the copies of strided input, the padding, the transposes and the scaling
each path has.

`MakeFFTPlanMany` chooses the strategy: of a length other than 1 every strategy
that some factorisation, type or device leads to (`Ways1d`, `Ways2d`), for all
extents and layouts of input and output. In two dimensions the layout alone
decides, whatever the Bluestein flags. The choice does not test `ostride`
(`fft.cpp:2084-2096`) and the model has no output stride apart from the layout's:
in two dimensions `mluOpExecFFT` refuses tensors whose strides are not those of a
dense one (`fft.cpp:3162-3171`), so no plan with another stride is executed. A length stands for its kind; `L`, one
of the two factors of a length in the matrix path, is taken as the whole length,
and the workspace CNNL asks for is `CnnlSpace` throughout. The caller
synchronizes between calls and keeps to the rule for in-place transforms
(`InPlaceFits`), which the code only logs, and which a side that is not dense can
always meet by its distance; the plan is made once, with success: what is freed
of a plan whose making was refused depends on what `cnrtFreeHost` does with a
null pointer, which is not in the source. The tests of
arguments, the early return for an empty batch and what happens when a call
fails half-way are in `FFTHost`. The extent of the outermost output dimension is
taken to match (the code does not compare it, `fft.cpp:2591-2630`). The
half-precision plans of the many-distance strategy are left out.

### DescriptorPool

A struct is the number of its allocation, so `1..allocated` are all structs of
`headers`; `queue` is the deque. `Init` is the static `queue_array` after its
constructor. A call takes the lock (`Create`, `CreateGroup`, `Destroy`, all
through `Acquire`), then goes on in steps of its own: `Grow`, `Take` (front and,
for the single create only, placement new), `Pop`, or `Put` (destructor and
`push_front`), and `Return` (unlock). Keeping the steps apart is what makes the
lock matter: with `BargeIn` for `Acquire` the invariants fail. `content` says
what is in a struct's memory: `malloc`'s bytes, a constructed descriptor, one a
setter has written, or the memory of a destroyed one. Group destroys take any
set of descriptors, since the header allows a group to be destroyed one by one.
The destructor of the pool itself, at the exit of the process
(`tensor.cpp:217-221`), is left out: it frees all structs and nothing follows it.
Bounds: `MaxGroup`, `MaxLive` on what callers ask for; `FirstExtend` is 128 in
the code.

The contract (`DescriptorAllocator`) has no pool: a create call *finds*
descriptors that neither a caller nor another call has. The pool's `Take`,
`Return`, `Destroy` and `Put` are its four actions; growing and popping stutter.

### ThreadPool and TestScheduler

In `ThreadPool` what happens under `ctx->mtx` is one step, and the notifications,
which come after the lock is let go, are steps of their own, so a worker may get
in between. `cond.wait` may return for no reason (`SpuriousWake`).

`TestScheduler` INSTANCEs the pool and adds the master (`mpc`), the slots and the
workers' tasks. What is done under `Context::mtx` is one step where the lock is
let go at its end; `teardown`'s reset holds `mtx` over three steps, because the
master reads `in_used` *without* the lock while `reset()` clears the flags
(`ClearFlags`) and then drops the executor (`DropExe`). The catch block of
`setup` does the same two steps with no lock at all. `users[p]` are the executors
alive on the context of slot `p`: from `exe->init` to the destructor; between the
two steps of `reset()` a slot may have two, against the comment of
`mlu_op_gtest.cpp:232-235`. `DropExe` lets go of the slot's pointer; while a
teardown has a pointer of its own to the same executor (`Taken`), the executor
lives on. A null executor that is dereferenced ends the process
(`crashed`). `KernelDone` is the device. Left out: `Thread1`, the default queue,
the moment between a setup's publishing its executor and its letting go of its
own pointer (`mlu_op_gtest.cpp:353-354`), the exceptions of `teardown` (they lead to the same steps as its normal end) and
of the creation of an executor, and the contents of results.

`CaseRunner` is what a run promises: each case is reported once, and the run ends
when all are.

### GenCase

One action per call that changes state: `TestOn` and `Push` are
`genCaseModeGet(true)` before and under its lock; `Start` is `GEN_CASE_START`,
the filling of the node and `serialize`; `End`, `Reset`, `TestRestore` and
`Restore` are `GEN_CASE_END`, which tests the mode twice, each time before it
locks, and locks only to pop the stack: the mode may be set in between;
`Fail` is any check that returns from the operator in between. `frames` is the
call stack of operators of a thread. `front()` or `back()` of an empty vector and
`find()` of a missing key read memory that is not there: `wild`. `disturbed` and
`setUnder` are history: they say when an operator of the thread has failed, or
the mode been set under one, and are read by properties only. The model has the
macros that end with `GEN_CASE_END`; the older ones reset their node themselves.
`CaseInOrder` of `Operators` is the other half of its contract: what operators
owe to the stacks.

### PubSub

A subscription's name is the address of a heap byte, so addresses are a set from
which `Subscribe` takes any that no map or call points to: that is how `malloc`
may give an address again. A step under the write lock needs `Readers = {}`; a
publish tests `delete_flag` (`Publish`), takes the read lock (`Read`), and calls
its handlers one by one (`Visit`, `HandlerReturns`). The destructor unsubscribes
internal subscribers one by one (`ExitUnsubscribe`), and ends its loop when the
list is empty (`ExitSweeps`); `SaveInternal` may add to the list while it does,
since the two have no lock in common (what `emplace_back` does to the iterator
of that loop is not followed). `Destroy` needs no absence of readers: the destructor takes the *read* lock. After it any use is `dangling`,
and a publish that tested the flag before gets there (`Dangle`).
`Events` are the three the map is made with; for any other, `publish` inserts
with no lock held, which the model does not have.

`EventRegistry` is what tools may count on: no maps, addresses, lock or
destructor; a publish *owes* a call to each handler its event has when it begins,
makes them one after the other, and ends when it owes none; handlers come and go
only between publishes, and never come back. `Insert`, the two unsubscribes,
`Read`, `Visit`, `HandlerReturns` and `EndPublish` are its actions, the rest
stutters.

`MayRepeat` says whether a caller unsubscribes a subscriber it already has
unsubscribed. The library's interface does not forbid it, and then
`GoneIsSilent`, `MapsAgree` and `ImplementsRegistry` fail: the address may have
been given to another subscription, whose handler is erased, or, when its event
is another, whose key is erased from one map and its handler left in the other
(`subscriber.cpp:52-57` looks for nothing but the address). Set `MayRepeat = TRUE`
in `MCPubSub.cfg` to see the traces. The run and the theorems take it as FALSE.
`OthersAreKept` and `MapIsStill` are parts of what `ImplementsRegistry` says of
the maps; they are proved (`Kept`, `Stillness`) and not in the run.

## 3. The runs

| run | bounds | result |
|---|---|---|
| `pool` | 2 threads, groups of up to 3, 3 descriptors out at once, first extension 1 | 31,059 states, all properties hold |
| `pool_group` | 1 thread | a group create hands out raw memory |
| `thread_pool` | 3 workers, 2 tasks, queue of 3 | 2,096 states, hold |
| `scheduler` | 3 cases, of which 2 may throw, 2 workers, 3 slots | 74,126 states, hold |
| `scheduler_ends` | the first case may throw, 2 slots | the run does not end |
| `gen_case` | 2 threads, nesting of 2, stacks of 3 | 2.18 million states, hold |
| `gen_case_failing` | 1 thread, mode 1, no nesting | an operator writes no file |
| `pubsub` | 2 threads, 2 events, 2 addresses, 3 subscriptions | 74,391 states, hold |
| `operators` | 193 operations, one call each, all paths | 8,277 states, hold |
| `fft` | ranks 1 and 2, lengths 1 and 3, extents 1 to 4, a batch of 2 | 72,362 states, hold |
| `fft_pads` | the same | an input is not padded, or padded nowhere |
| `fft_workspace` | the same | a stage runs past the announced workspace |

What `operators` shows, for every exported operation: objects created are
destroyed, once, on every path that succeeds (`SuccessReleases`,
`ObjectsAreHeld`); cases open and close in order and describe what the device is
given (`CaseInOrder`, `CaseDescribesWork`); nothing is written to the device
before the last test that may refuse (`ChecksPrecedeWork`); no pointer is used
untested (`TestedBeforeUse`); a caller's objects are as they were
(`CallerKeepsDescriptors`); success means that no call failed
(`FailuresAreReported`). What a failing operator leaks is not checked: by the
macros' design nothing is destroyed on an error path (`cnnl_helper.h:73-112`,
and likewise `mluOpCreate`, `context.cpp:187`).

What `fft` shows: `WorkspaceHolds`, that each stage stays inside the sizes
announced and the caller's tensors; `ReadsWereWritten`, that what a stage reads
is there, unspoiled, when its turn comes; `ResultDelivered`, that the output
holds the transform of the fitted input, scaled once, in the caller's layout;
`InputKept`; and two properties of the tables on the host. They compare code
written apart: what the Make functions compute, by strategy (`ComputedTables`),
and what `mluOpDestroyFFTPlan` and the four functions below it free, by rank, type
and `prime` (`DestroyedTables`), so a table missed or freed too many in one branch
of either breaks one of the two. `FreesItsOwn`: no pointer is given to
`cnrtFreeHost` that nothing was allocated for. `TablesFreed`: a destroyed plan
leaves exactly the memory `Leaked` names. That is a defect of the code, against the
header's promise for `mluOpDestroyFFTPlan` (`mlu_op.h:14190-14191`, "Otherwise, the
memory leak may occur"), and needs no run of its own, as `Leaked` says all of it:
`mluOpCreateFFTPlan` allocates two arrays of factors, of which `factors_2d` is left
of every plan in one dimension, and both are left where `prime` is set or the
strategy is the many-distance one; of a Bluestein plan in one dimension all the
tables are left, as its `prime` is set.

Plans the code gets wrong otherwise are described one by one (`BluesteinPads`,
`NeverPads`, `PadsNowhere`, `NoRoomForCopy`) and left out of the first three
properties; `fft_pads` and `fft_workspace` show them against the header.

Why the bounds are enough. `pool`: with a first extension of 1 the pool grows by
the default and by a group's request, and shrinks to empty in between; two
threads suffice to contend, since a third could only wait on the same flag.
`thread_pool`: three workers allow one running, one waking and one asleep.
`scheduler`: slots are 1.5 per thread as in the code, so a slot can be given
away while both workers are busy, one of them with a slot that `reset()` has half
cleared; two cases throw so that the second throw can hit
a slot the first has freed. `gen_case`: the smallest nesting is two, and the
mode may be on, off and on again. `pubsub`: three subscriptions on two addresses
force a reuse. `operators` has no bound: bodies are finite, and a loop whose
turns do the same is written once or twice. `fft`: with lengths 1 and 3 and
extents 1 to 4 every comparison the code makes of a length, its half and an
extent goes all three ways; in two dimensions the two differ; a batch of 2 tells
one signal's offset from all; and sizes are linear or bilinear in the lengths
with the same terms on both sides, so a term that is missing on one shows at 3.

Deadlock is checked in `pool`, where a thread always can call, and in
`operators`, where a function that returns in no way would be stuck. The
other configurations turn the check off, because their systems stop: a pool that
was joined, a run that ended or crashed, a publisher or plan that is destroyed,
memory accessed that is not there.

The five findings (in `PROJECT.json`) quote what a header or an assertion of the
repository says. `scheduler_ends`: one case that throws in `setup` may take down
another. `fft_pads` and `fft_workspace`: kernels that read or write past what they were
given, for inputs the header describes.

`EndsOrStrands` is the positive side of `RunEnds`: the run ends unless the slot
of a case is lost or the process is gone. `CleanUntilThrow` says that neither
happens unless a setup throws, so the reads without mutex are harmless to the
bookkeeping.

**Fairness.** `DescriptorPool`: weak fairness of each thread's steps inside the
critical section, which need nobody else; nobody has to call.
`ThreadPool`, `TestScheduler`: weak fairness of the master, of each worker and of
the device, that is, threads are scheduled, mutexes are let go and had, kernels
end. None for `enqueue`, for throwing or for spurious wake-ups. No fairness makes
a *particular* worker take a task, so the first loop of `ThreadX`, which waits
until every worker has run `set_device`, is not shown to end; the liveness
properties begin after it. The other modules have safety properties only.

## 4. The proofs

Theorems hold for every value of the constants that meets the modules' named
assumptions; TLC evaluates those assumptions in every run.

* `DescriptorPool_proofs`. The inductive invariant says, beside typing, who is
  where: only the holder of the lock is outside `idle`; `hand` is empty outside
  the critical section; the elements of `queue` are distinct and apart from
  `live` and every hand, except the front between `Take` and `Pop`; a call that
  takes has enough before it; `extendNum` is at least the pool and one first
  extension. `NoDoubleHandOut` alone is not inductive, since it says nothing of who holds the lock,
  and a second thread between `Take` and `Pop` would break it. From the same
  invariant follow `NothingLost`, `FrontExists`, `NextExtendDoubles`,
  `FreeIsDestroyed`, and the refinement: each action is mapped to an action of
  `DescriptorAllocator` or a stutter. `ContractIsExclusive` shows that the
  contract itself means exclusive ownership.
* `ThreadPool_proofs`. Typing, `NoLostWakeup` and `JoinedIsDrained`. The latter needs
  that a worker leaves only when the queue is empty and the pool shut down, and
  that nothing is enqueued from then on.
* `PubSub_proofs`. The strengthening: a key on its way into the maps is in none
  and no other call's, every subscriber that someone is to unsubscribe is in the
  map, a handler's number is used once, and a running handler is in the map.
  `Silence`, `Kept`, `Agreement` and typing follow when `MayRepeat = FALSE`;
  `Stillness` (no map changes beneath a reader: a part of what `Refinement` says)
  holds for both values. `Refinement` adds that a publish forgets what
  it called when it ends (`CalledIsForgotten`): what a publish owes is what its
  event has and it has not called, and since a number is used once one handler
  leaves that set with each call and with each unsubscribe (`NamedWithout`).
  `PromiseIsSafe` shows what the promise alone gives tools.
* `FFTPlans_proofs`. `TablesFreed` and `FreesItsOwn` for any lengths, extents and
  batches. The invariant carries what `mluOpMakeFFTPlanMany` settles of strategy,
  `prime` and the Bluestein flags (`Suits1d`, `Suits2d`: for one, that a plan in
  two dimensions has one of the two strategies the destroy function tests), and
  that the tables alive are the factors and those its making computed, until they
  are destroyed. From this the lists of the destroy functions are compared with
  those of the Make functions branch by branch: what they free was allocated, and
  what was allocated and not freed is `Leaked` (`Freed`). The tables follow
  from five fields of the plan; an execution adds fields and changes none of the
  five (`Merge`, `SameDecision`).
  Over the lemmas of `FFTMemory_proofs` the same module proves `InputKept`, for any
  lengths, extents and batches, every type, rank and strategy. The strengthening
  is that, from the call of an execution in separate buffers on, the input is
  there and no kernel in the queue writes to it (`Harmless`). That a call
  enqueues only such kernels is shown branch by branch: a layout names what it
  lays out (`Lays`), the record of addresses a `configure...` function makes from
  layouts and the caller's pointers is apart from the input in every field but
  those that are the input (`Serves`), and no kernel writes through one of those.
  The last part needs the guards of the code: a copy or a pad is written only
  where its buffer is laid out, which in one dimension of a transform to real
  numbers rests on half of a length not exceeding it (`BelowIsLonger`: the copy is
  laid out by one comparison and written by another). It also needs what
  `mluOpMakeFFTPlanMany` settles (`IsTransform`): a length that is taken for a
  prime has a strategy of matrix products, and a row or a column has chirps only
  in a plan by Bluestein's algorithm. The loop over a batch is the one induction:
  over the naturals, as a set that has 0 and with each number the next
  (`Reached`, `HarmlessFlat`).
* `FFTBounds_proofs`. `WorkspaceHolds`, for any lengths, extents and batches and
  any sizes of CNNL's tables: what `mluOpAllocate...` announces suffices for what
  `configure...` lays out and every stage touches, in every combination of type,
  rank, strategy and layout but `Misplaced` and `NoRoomForCopy`, the plans with
  a finding or a hazard of their own. The inductive invariant (`BoundInv`): from the
  call that makes the plan on, its sizes are those announced (`IsMeasured`), and
  each kernel in the queue touches regions within their spaces only (`Safe`).
  `IsMeasured` is what the making settles and the sizes rest on: for one, that the
  internal workspace has room for two copies of a batch in one dimension, that
  only plans from complex to complex numbers are by Bluestein's algorithm, and that
  an input in the layout of the many-distance strategy has the extents of the
  transform (`MadeIsMeasured`; `CallKeepsMeasure` for later calls).
  An address has `Room` for a number of elements when that many fit before the
  end of its space; a unit `Takes` a region when it has room for the whole batch;
  one signal of a batch is then inside (`InsideSignal`), as the offset of the
  last one is a product that grows with its factors (`Signals`, `Grows`).
  The heart are the lemmas named `...Agree`: per type, rank and strategy, the sum
  of the buffers one function announces is at least the end of the last buffer
  another lays out, branch by branch of the conditions under which each is there
  (`Fill` says what a layout holds and how long it is). The two functions may
  test different things: for a transform to real numbers a copy is announced where
  extents differ from lengths and laid out by their comparison with half of
  a length (`LikeTheHalf` and `BelowDiffers` relate the two), and the one case in
  which they do not meet is `NoRoomForCopy`. The lemmas named `...TablesSafe` do the same for the reserve
  area, and those named `...Safe` go through the stages a branch enqueues.
* `TestScheduler_proofs`. All four safety properties of the scheduler and the
  refinement of `CaseRunner`, for any workers, slots and cases, whatever throws;
  the assumptions are that there are slots, numbered so that `find_if` has a
  first, a worker, a case, and room for a task in the queue.
  `TheSchedulerUsesThePool` shows that each step is, of the pool, a step of
  `ThreadPool`; so the pool's invariant is cited (`PoolProofs`) and not proved
  again. None of the properties is inductive. `JobOK` says of each task, queued
  or at a step of its lambda, what it may rely on in its slot, `Apart` what two
  tasks may not share (`JobsApart` is their conjunction over all pairs), and the
  rest who holds `mtx`, that a published executor is in one slot, who keeps an
  executor alive, and that each launched case is reported, has a task or a slot,
  or there is a slot that no task will free (`Dead`): then the loop cannot end,
  so a run that ends has lost nothing. The lemmas go by the four ways a step
  changes the tasks: one is added, one is taken by a worker, one gets on, none
  changes. TLC checked the invariant first, with 2 workers and 3 slots, and with
  3 workers where every setup may throw.
* `GenCase_proofs`. The four properties of `GenCase`, for any threads and any
  depth of calls. A thread changes its own stack, slots and frames only, so the
  invariant is a predicate on one thread's values. It says how many operators
  under way have pushed a mode and how many hold a slot (`Pushes`, `Holders`);
  what the stack is under that many pushes if none failed (`CleanStack`), and
  what is left of that when some did (`DirtyStack`); who may have written; and
  that slots are held in the order of the calls. `InternalIsSilent` alone says
  nothing of the modes on the stack, which decide what the next operator writes.
  The mode is set by any thread, which is why it is tied to the frames only as
  long as it was not set under one (`SawMode`). TLC checked it with three levels
  of calls and stacks of five.

Only model-checked: the liveness properties (`LockIsReleased`, `TasksAreRun`,
`ShutdownEnds`, `EndsOrStrands`), which are out of TLAPS's reach;
`ReadsWereWritten` and `ResultDelivered` of `FFTPlans`, which need the exact
region, not just a bound on it, of each stage, and the history of what was written
to it; and the properties of `Operators`,
which are about some 8,000 particular points of code and not about all values of
a parameter: there TLC's check is already complete. Every other safety property
of a run is proved, and so are the three refinements. No module uses a recursive
operator.

## 5. Plan

1. `DescriptorPool`, `ThreadPool`, `PubSub`, with proofs: done.
2. `TestScheduler`, `GenCase`, with proofs: done.
3. `HostCall`, `CoreHost`, the operators and `Operators`: done.
4. `FFTPlans` and what it is made of: done, with the proofs of `TablesFreed`,
   `FreesItsOwn`, `InputKept` and `WorkspaceHolds`. Open: that buffers laid out are disjoint, which
   `ReadsWereWritten` for all lengths would need first; a plan made again.
5. `HardwareMonitor`: the handshake, with the number of monitor threads awaited
   against the number started, and the notifications given without the mutex.
6. The kernel tracing wraps as callers of `PubSub`, with the map of names.

## 6. Not modelled, and limits

The kernels in BANG C (`.mlu` and the device headers, about half of the
repository's lines) compute in floating point on the device's memories and
clusters; of them the models keep which regions they read and write. Also left
out: the numerics of host code (factorisation, tables, the policies that choose
a kernel's type and dimensions), the public header beyond what it promises,
logging, type tables and conversions, file and network I/O, the contents of test
cases, the executors, the hardware monitor and the memory pools of the test
program.

Conditions in host code are choices in `Operators`, so a property that depends
on which of two branches *values* select is out of its reach; where the FFT's
properties do, `FFTPlans` keeps the values. Memory is sequentially consistent: the
races on plain `bool`s and maps appear as interleavings of their reads and
writes, not as torn or reordered accesses, and the races on the buckets of
`mode_stacks_` and `nodes_` not at all. `malloc` succeeds. What a group create's
unconstructed descriptor does to the first setter is not followed beyond the fact
that it is not constructed. One defect met while reading has no property of its
own: the range test of `genCaseModeSet` (`gen_case.cpp:157`) joins its bounds with
`&&`, so a mode out of range is kept.

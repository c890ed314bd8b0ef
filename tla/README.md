# Verification of the pyasc JIT

pyasc compiles Python functions decorated with `@asc.jit` to kernels for
Ascend NPUs and launches them.  This directory holds TLA+ models of that path,
from the call of a kernel through code generation, the passes, the compiler and
the cache to the launch and the copies back; the configurations that
model-check them with TLC; and proofs checked by TLAPS.

## The system

`kernel[core_num, stream](args)` goes through these parts.

| Part | Source | State | Operations |
| --- | --- | --- | --- |
| JIT function | `runtime/jit.py` | `kernel_cache` (dictionary), `launch_options` | `__getitem__`, `_run`, `_run_codegen`, `_cache_kernel` |
| File cache | `runtime/cache.py` | `<cache>/<key>/<name>` on disk, shared by processes | `get_file`, `put`, key functions |
| Function keys | `codegen/function.py`, `codegen/dependencies_finder.py` | cached hash of the function and its callees | `cache_key` |
| Code generation | `codegen/function_visitor.py`, `name_scope.py`, `specialization.py` | scopes, functions generated so far, their return types | `visit_*`, `call_jit_function`, `compute_inout` |
| Builder | `language/core/utils.py`, `language/fwk/tpipe.py` | one builder, module and TPipe per process, teardown callbacks | `GlobalBuilder`, `TPipeManager` |
| Kernel-side API | `language/basic`, `adv`, `core`, `fwk` | none (constants of masks on the builder) | one function per operation, most behind `OverloadDispatcher` |
| Compiler driver | `runtime/compiler.py` | options, pass manager, temporary files | `run_passes`, `run_compilation`, `_run_cmd` |
| IR passes | `lib/Dialect/Asc/Transforms` | the module being rewritten | InsertSync, EraseSync, VerifySync, MaterializeTensor, ... |
| Emitter | `lib/Target/AscendC` | none | one printer per operation |
| Launcher | `runtime/launcher.py`, `runtime/memory_handle.py` | arguments, device buffers of a run | `run`, `launch_kernel`, copies |
| Runtime interface | `lib/runtime/interface.py`, `state.py` | `device_id`, `streams`, `kernels`, `allocs`, `lib` | `malloc`, `free`, `free_mem`, `launch_kernel`, `synchronize`, `set_device`, `reset_device` |
| Native libraries | `lib/runtime/state.py`, `print_utils.py`, `lib/host/loader.py` | a library in the cache or in the package directory | `build`, `load_library` |
| Platform | `runtime/config.py` | backend, SoC version | `set_platform` |

How they interact: `_run` calls `_cache_kernel`, which answers from the
dictionary, from the file cache, or from code generation and the compiler,
and gives the kernel to the launcher.  Code generation calls the kernel-side
API, which adds operations at the one insertion point of the process's builder;
the passes rewrite that module; the compiler turns it into a binary.  The
launcher calls the runtime interface, one driver call at a time; the device
executes kernels at its own pace.  Processes meet in the cache directory and in
the package directory, and nowhere else.  Within a process, calls share the
dictionary, the builder and the runtime's state.

What is hard here:

- several processes between the system calls of `put` and `get_file`, with no
  lock, and a process that dies or raises in the middle;
- driver calls that fail between two others, with a kernel still executing;
- the device being asynchronous, and the choice of the stream waited for;
- operations of the runtime that begin by calling one another, and an exception
  that leaves them half way;
- aliased, overlapping and strided arrays as arguments;
- caches that forget a dependency: module-level variables, device functions
  generated once per name, masks kept across blocks, the host library's sources;
- names that blocks bind again and loops carry, and one insertion point for
  functions that are generated inside one another;
- signatures that are written down three times: declared, registered and in
  the implementation;
- compiler passes that move and insert synchronisation in nested regions.

What makes each part correct: the cache answers a call with the kernel of its
own text and specialisation, survives every death, and never keeps a call
waiting; a run returns the results of its own kernel, frees what it used and
never frees what a kernel still uses; a handle names memory of its own; the
process and the driver agree on devices and streams; the generated IR computes
what Python computes; a declared call arrives where it was meant; the passes
leave every tensor access ordered after the copy or vector operation that wrote it;
and what is launched is what was called, made of its own code.

## Modules

| Module | Models |
| --- | --- |
| `KernelService` | abstract: a store of kernels that answers calls |
| `KernelCache` | `jit.py` `_cache_kernel` over `cache.py` `FileCacheManager` |
| `JitCall` | `jit.py` `__getitem__`, `_run`, `_run_codegen`; `GlobalBuilder`, `TPipeManager` |
| `Codegen` | statements of `function_visitor.py` over `name_scope.py` and `ir_value.py` |
| `DeviceCalls` | calls, returns and regions of `function_visitor.py`; the mask cache of `select` |
| `Signatures`, `Overloads` | `OverloadDispatcher` and the binding of arguments |
| `ApiVector`, `ApiBasic`, `ApiAdv`, `ApiObjects`, `ParamStructs` | the signatures of the kernel-side API, as constants |
| `SyncPasses` | MaterializeTensor, InputOutputTensor, EraseSync, InsertSync, barrier canonicalisation |
| `VerifySync` | VerifySync |
| `SyncPipeline` | `SyncPasses` composed with `VerifySync` |
| `CompilerDriver` | `compiler.py` |
| `NativeBuild` | `state.py`, `print_utils.py`, `loader.py`: how native libraries are made and found |
| `DeviceState` | devices, streams and library of `interface.py`, `state.py`; `set_platform` |
| `DeviceMemory` | `malloc` and `free` of `interface.py`, with addresses |
| `KernelLaunch` | `launcher.py`, `memory_handle.py`, the driver calls of `interface.py` |
| `KernelCache_proofs`, `KernelLaunch_proofs`, `DeviceState_proofs` (with `DeviceMemory`), `NativeBuild_proofs`, `JitCall_proofs`, `DeviceCalls_proofs`, `CompilerDriver_proofs`, `SyncPipeline_proofs` (about `VerifySync`) | proofs about those modules |
| `MC...` | small instances for TLC |

Definitions marked `Slip:` are not part of the models.  Each one is a version
of the definition it precedes with a plausible mistake, and shows that some
property would notice that mistake.

### KernelCache

One program counter per process; each system call of the protocol is an
action, so anything can come between two of them.

| Code | Action |
| --- | --- |
| `kernel_cache.get(mem_cache_key)` | `Lookup` |
| `FileCacheManager.__init__`, `os.makedirs(cache_dir)` | `MakeKeyDir` |
| `get_file`, `os.path.exists` | `Check` |
| `open`, `pickle.load` | `Load` |
| `_run_codegen`, `_run_compiler` | `Build` |
| `put`: `os.makedirs(temp_dir)`, `open`, `write`, `os.replace`, `os.removedirs` | `MakeTempDir`, `OpenTemp`, `WriteTemp`, `Replace`, `Prune` |
| `kernel_cache[mem_cache_key] = kernel` | `StoreMem` |
| the launch | `Launch` |
| an exception in any of these | `Fail` |
| the process dies and another starts, perhaps with another text | `Restart` |

A kernel is abstracted to what it was built from: the text of the function
(with its callees and pyasc itself), the specialisation, and the value of a
module-level variable when its code was generated.  Hashes are taken to be
injective, so a key is the record of its factors.  `always_compile` is a
field of the options and so of the key.  A temporary directory has a fresh
UUID, so a process only needs to know the state of its own; those that were
abandoned are kept as the set `orphans` of keys, because they stop
`os.removedirs`.  POSIX rename is atomic.  Where a file is read with
`pickle.load` the model asks for a whole one; a torn one would raise.
`asc.ConstExpr` globals are hashed with the function, once, when its hash is
first computed; they are part of its text here.

`KernelService` says what this is for: a call is answered with a kernel of its
key, and unless compilation was forced only after the kernel was published.
The refinement maps the key of the call in progress to `want`, the kernel at
the launch to `got`, and the keys with a whole file to `published`.

### JitCall

What is around `_cache_kernel` in one process.  `Subscript` is `__getitem__`,
which stores the options in the function and hands out the same bound method
each time; `Call`, `Refuse`, `Lookup`, `Compile` and `Launch` are the steps of
`_run`; `SetBuilder`, `NoContext`, `Emit`, `MakePipe`, `VisitFails`, `Visited`
and `Teardown` those of `_run_codegen` with the builder, the module, the
callbacks and the TPipe it shares with every other call of the process.  A
module is the set of what was created in it, with the function whose body did.
The model has threads; the run has one, for the code has no lock and no document
says that kernels may be compiled by two.

### Codegen

The visitor as operators: `Visit` takes a statement and the visitor's state
(names, names bound again, operations so far, next handle) and returns the
state after it.  The action `Statement` visits one more statement of the
function, runs the IR it gave on the values of the handles, and executes the
statement itself as Python would.  Expressions are constants, names, a sum, a
comparison and the conditional expression; statements are assignments (to one
name or several), `if`, `for` over a range, `static_range` and `while`.
Integers known at compile time and IR values are told apart as in the code, and
`compute_inout`, `replace_uses_in_block` and `select` are modelled operand by
operand; `Verified` is the dominance check of the pass manager's verifier.

### DeviceCalls

The structure of a module rather than its values: functions, blocks, where each
operation was put, the stack of visitors and the dictionaries of return types,
which visitors share by reference unless they are empty.  A step is any
statement the visitor could meet: a region opened or closed, a call of a
function that is known or new, a return, a `select` with a mask list.  The
return that the visitor adds to a function without one is left out: it is the
last operation by construction.

### Overloads and the tables

A user's call is a declared form of a function with its arguments split between
positions and names, with any one optional parameter or all of them left out,
and any one parameter of another kind that its type admits; numbers stand at
either end of the documented range.  `Enter` binds the parameters the
implementation names, `Try` is a turn of the dispatcher's loop over the
registered signatures, `Build` makes operands of the values.  A value carries
the name of the parameter it was given for, which is how one that ends up
elsewhere is seen.

The tables hold, for each function, what is declared with `@overload`, the
parameters of the implementation, and the signatures registered with the
dispatcher; for structures also which parameters become operands.  Types are
sets of kinds of value.  Functions that share their signatures share an entry.

### SyncPasses, VerifySync and SyncPipeline

A kernel is a sequence of operations on local tensors, with at most one loop.
The first actions write it (`Access`, `OpenLoop`, `CloseLoop`, `OwnEnque`,
`OwnDeque`), the others are the passes in the compiler's order: `Materialize`
gives tensors that are copied to or from a queue and the others a buffer,
`Erase` is EraseSync, `EnqueueTensors`, `DequeueTensors` (one enque per step,
with the re-enque behind a loop) and `SyncScalars` are InsertSync, and
`CanonicalizeBarriers` the rewriting of barriers.  A value is a handle of a
tensor with a number, so the renaming of uses is kept.

`AccessesOrdered` takes every two accesses of a tensor, one of which writes it,
in the loop's iterations too, and asks for what makes the later one wait: a
deque or the next allocation, a barrier, or a flag.  InsertSync gives scalar
accesses flags towards vector operations only, and hands a tensor over where it
was written, not where it was read.  So `Missing` lists eight kinds of pairs that
stay unordered: between scalar accesses and copies a set before a copy of either
direction, a get before a copy in and a copy out before a set; and a copy out
before a copy in or a vector operation that writes, and a vector operation that
reads before a copy in or a vector operation that writes.  No document says that
these are ordered.  Without any one of the eight the property fails.

`VerifySync` walks over queue operations, one per step, with the pass's
tables: open allocations and enques per queue (`queBinds`; the code's list is in
the order of the walk, so the set of places says as much), and the enque each
deque got.
Where the pass dereferences a null operation the process may die.  What it
should warn of is defined apart from it (`Deserved`), with queues as first in,
first out.  `SyncPipeline` lets it walk over what the author wrote, or over
what the passes made of a kernel.

### CompilerDriver

One compilation: the check of the options, the passes (one step that fills in
the kernel type and whether the kernel prints, or raises), the translation with
the dump code, and the external commands one after the other, a compile command
that fails with its second attempt.  A file records the commands it was made
by, so that the binary can be compared with what the launcher is told of it.

### NativeBuild

Processes that need a library: looked for in the cache, or linked (the linker
opens its output and writes it in two steps), read, put and loaded.  Processes
die at any time, and the package or the toolkit is upgraded when nobody builds.
The key has the text of the toolkit's `version.cfg`; a toolkit without that file
(one not in `Versioned`) leaves no trace in it.

### DeviceState

Every operation of `interface.py` begins with `_lazy_init`, which calls such
operations; `todo` is the stack of calls in progress, and an action is what one
of them does between two calls.  The driver is modelled beside the process's
variables: devices that are open, with a stream, with memory.  Any driver call
may raise, and the exception leaves every call up to the handler of
`is_available`.

`create_stream` and `destroy_stream` are the library's and the programs'.  A
program's stream (`DriverCreateOwn`) is the driver's and not in `state.streams`,
and it may destroy any (`DriverDestroyAny`), the one `current_stream()` returned
included, whose address then stays in `state.streams`.  The driver uses addresses
again.  Who made what, and which of the library's streams a program destroyed,
is kept in the history variables `own` and `taken`, which no step depends on.

### DeviceMemory

The driver's blocks (address and size), `state.allocs` (`blockOf`, handle to
address), and
what was asked for.  The constant 512 and the rounding are those of the code.
The driver may place a block anywhere but over a live one, and never at 0.

### KernelLaunch

One host thread and a FIFO queue per stream.  `Run` begins with `pc = "register"`
and every driver call is an action: `Register`, `RegisterFunction` (with the
check of `core_num`), `Malloc`, `CopyIn`, `LaunchKernel`, `Synchronize`,
`CopyBack`, `Release`, `Unregister`, `FreeAll`.  `Fail` is the exception of
any of them; `CopyBackRaises` is the one that passes through the `finally`
clause of `launch_kernel`; `Refuse` is the driver with nothing left to give.
`Execute` is the device.

Host memory is an array of cells and a host array the sequence of cells of its
elements, which is enough to tell contiguous, overlapping and strided arrays
apart.  A cell holds what the caller put there or what the kernel wrote to an
element of an argument (those in `outs`; it reads the others).  `CopyIn` goes element by element, as `ravel` does;
`CopyBack` writes consecutive cells from the first element on, as a `memcpy`
to `array.ctypes.data` does.  A driver call that fails changes nothing.

Every argument is copied back in its turn, an input too.  `ResultsComeBack` says
what a program finds: the kernel's output in each cell, except in cells that an
argument after the last output covers and the kernel only reads (`Overwritten`),
as `f(x, x)` has it when the kernel writes to the first.  `OutputsComeBack` makes
no exception; it is what the documentation says, and it fails in three ways, with
`MCKernelLaunchAliased.cfg`, `MCKernelLaunchStream.cfg` and
`MCKernelLaunchStrided.cfg` (see the disagreements below).

Scalars, tensors that are on the device already, `DRY_RUN` and profiling are
left out.  The printing of the debug buffer in place of its copy is
represented by an argument whose copy has no effect and may raise.

## Runs

Some properties are conjunctions, so that a configuration names one thing: the
table gives their parts, which the module states one by one.

| Run | Shows | Bounds |
| --- | --- | --- |
| `kernel_cache` | a call is answered with its own kernel; files are whole; what was stored, seen or entered stays (`NothingIsLost` = `MemoryIsBacked`, `CheckedFileIsThere`, `KeyDirHeld`); a published kernel is not built again; the protocol implements `KernelService`; no call waits for another process | 2 processes, 2 texts, 1 value of the variable, 1 specialisation with and without `always_compile` |
| `kernel_cache_globals` | violation: a stale module-level variable | 1 process, 2 values |
| `kernel_launch` | results come back, but for cells that a later read-only argument covers too; no kernel loses its memory or binary; arguments own their buffers; a run that returns leaves nothing; every run ends | up to 2 arguments over 2 overlapping arrays in 3 cells, 3 buffers, 2 binaries, 1 stream |
| `device_memory` | alignment and no lost block (`HandlesMatchBlocks` = `HandleInsideBlock`, `EveryBlockKnown`); disjointness | addresses and sizes next to multiples of 512 |
| `device_state` | one device is open at most and the library's streams and programs' own are neither lost, mixed up nor used again (`StateAgrees` = `TypeOK`, `OneDeviceOpen`, `StreamsAreLive`); a process that used one device finds it open; every call ends | 2 devices, 2 memory handles, 2 addresses of streams, used again |
| `codegen` | the IR computes what Python computes; it is well formed (`WellFormed` = `TypeOK`, `VerifierAccepts`) | 2 statements of 161, 4 inputs, loops of at most 6 iterations |
| `overloads` | declared calls are accepted; values and defaults reach their parameter and operand (`ValuesArrive` = `TypeOK`, `GivenWhereMeant`, `DefaultAsDeclared`); nothing given is dropped; documented ranges fit | every form of every modelled function |
| `device_calls` | functions are generated once, their return last (`ModuleWellFormed` = `TypeOK`, `GeneratedOnce`, `ReturnsLast`); the insertion point follows the visitor; results have the declared types | a kernel and 2 functions, 1 list of constants, 2 types, 4 blocks, 4 operations, 1 mask |
| `jit_call` | a kernel is made of its own code and runs with its own options (`LaunchesAreRight` = `TypeOK`, `OwnCode`, `LaunchedAsAsked`); a call leaves nothing behind; every call ends | 1 thread, 2 kernels, 2 options, 3 calls, each handle called at once |
| `native_build` | whole libraries in the cache (`LibrariesAreWhole` = `TypeOK`, `CacheIsWhole`); nobody loads what an upgrade of the toolkit replaced, nor a runtime library of another package | 2 processes, a runtime library and the host library, 2 versions of package and toolkit, one of the toolkits without `version.cfg` |
| `compiler_driver` | the launcher is told what is in the binary (`BinaryAsTold` = `TypeOK`, `CoresMatch`, `DumpAgrees`); the binary is for the cores the kernel uses | all kernel types and none, levels 1 to 4 |
| `sync_pipeline` | the module the passes leave is valid (`ModuleIsValid` = `PipelineTypeOK`, `UsesDominated`); queues never block; dependent accesses are ordered, but for the pairs in `Missing`; VerifySync warns of what is wrong, and not of what InsertSync made | 3 or 4 operations, one loop, up to 2 automatic tensors, 1 queue of the author; 4 queue operations of the author on 2 queues |

Why these bounds are enough.

- *Cache.*  A key's directory is all that processes share, and every race is
  between one that writes and one that reads or writes.  Two texts let a wrong
  kernel be told from a right one.  No symmetry is used: `CallReturns` tells one
  process from the other.
- *Launch.*  Three buffers let a failed run leave one behind while a run with
  two arguments goes on; runs that need more meet the driver's limit, which is
  one of the cases wanted.  The third cell belongs to no array, so a copy that
  strays is seen.  Neither the fairness nor `RunEnds` names a buffer or a
  binary, which makes their symmetry sound for it as well.
- *Memory.*  The rounding sees a size or an address through its position
  relative to a multiple of 512; the instance has both sides of several.
- *Devices.*  The code keeps one device open and tells the current one from
  the others.  Two addresses let the library's stream and a program's exist at
  once, and the address of one that is gone be given to the other.
- *Code generation.*  A name is bound before a statement, in it, or both, and
  read in it or after it.  Two statements with a body of up to two, one of which
  may be a block itself, reach all combinations; the inputs take every branch
  and give loops with no iteration, one, and several.
- *Calls of device functions.*  Two functions, that may call each other in both
  orders, are the shortest chain in which a visitor generates a function inside
  another; four blocks give branches in loops in a function.
- *Kernel calls.*  Two functions let an operation of one turn up in the other;
  three calls let one fail, one succeed and one meet what both left.
- *Libraries.*  A race is between two that link, or one that links and one that
  reads.  Two versions tell before an upgrade from after it.
- *Passes.*  The passes look at a tensor's accesses in order, before, in and
  behind the loop; three operations place one in each, four give a write, a use
  and two neighbours.  Two tensors make the values handed from one to another.

Deadlock is checked but in `codegen`, `device_calls`, `jit_call`,
`compiler_driver` and `sync_pipeline`, where the modelled activity is one
compilation, one function or a bounded number of calls, and ends.

### Fairness

`kernel_cache` assumes weak fairness of the steps of a call, process by process:
the operating system runs every process, and system calls and the compiler end.
Nothing obliges a process to call, or a call to fail; a dead process is replaced
at once, in the middle of whatever others do.  `kernel_launch` assumes that the
host thread runs, that driver calls return, and that the device executes what
its streams hold.  `device_state` assumes that an operation that has begun goes
on.  `jit_call` assumes the same of each thread's call, and that a kernel's body,
which may emit any number of operations, ends.

### The violation run

`docs/architecture_introduction.md:91` lists global variables among the factors
of the cache, and the docstring at `codegen/dependencies_finder.py:24` says
that their values are checked at the launch.  They are recorded, but are in no
key and are not compared: after a module-level variable is assigned, a call is
answered with the kernel that was built with its old value.

## Disagreements met while modelling

The models follow the code, so where it departs from what a document, a comment
or a test says of it, the stated property fails on the model.  Each entry names
the module, and in which instance or with which property TLC shows it.  The runs
above use instances, or lists of known exceptions, apart from these.

- **`runtime/launcher.py:123`** (KernelLaunch; `OutputsComeBack` in `MCKernelLaunchAliased.cfg`).  launch_kernel gives every argument a buffer and copies every one back, in the order of the arguments, also those the kernel only reads. When an array that is an output is passed again (or overlaps one that is), and the kernel only reads it there, the later copy puts back what the array held before the run. docs/architecture_introduction.md:93 says 对于Kernel函数的输入输出位于Host侧的场景，运行模块会自动完成Host侧和Device侧之间的数据拷贝 (for inputs and outputs of a kernel that are on the host, the runtime copies the data between host and device automatically).
- **`runtime/launcher.py:117`** (KernelLaunch; `OutputsComeBack` in `MCKernelLaunchStream.cfg`).  launch_kernel launches on options.stream but calls rt.synchronize() without it, which waits for the current stream only. With another stream, which docs/architecture_introduction.md:116 offers as an option, the results are copied back, and the buffers freed, before the kernel has run. docs/architecture_introduction.md:93 says 对于Kernel函数的输入输出位于Host侧的场景，运行模块会自动完成Host侧和Device侧之间的数据拷贝 (for inputs and outputs of a kernel that are on the host, the runtime copies the data between host and device automatically).
- **`runtime/memory_handle.py:71`** (KernelLaunch; `OutputsComeBack` in `MCKernelLaunchStrided.cfg`).  copy_to_device flattens the array (ravel, in element order); copy_from_device copies nbytes to the array's first address as if its elements were consecutive. For a strided or transposed view the results land in the wrong elements and in the memory between them, also for an array the kernel only reads. docs/architecture_introduction.md:93 says 对于Kernel函数的输入输出位于Host侧的场景，运行模块会自动完成Host侧和Device侧之间的数据拷贝 (for inputs and outputs of a kernel that are on the host, the runtime copies the data between host and device automatically).
- **`lib/runtime/interface.py:179`** (DeviceState; `CalledOnOpenDevice` without its conjunct `Len(order) <= 1`).  The loop of reset_device reuses the parameter device_id, so the test at line 186 compares the current device with the last key of state.streams. After device 0, then 1, then 0, a reset of device 0 closes it and leaves state.device_id at 0: _lazy_init never sets it again and creates streams on the closed device. docs/python-api/lib/config.md:15 says of set_platform 设置运行时后端、SOC版本和设备ID (sets the backend, the SOC version and the device): the calls that follow it are to be made on that device.
- **`lib/runtime/interface.py:49`** (DeviceState; the invariant `BackendIsLoaded`).  use_model and use_npu only assign state.model, which load_lib reads once. After the first call of the runtime, set_platform changes nothing that is loaded. docs/python-api/lib/config.md:15 says of set_platform 设置运行时后端、SOC版本和设备ID (sets the runtime's backend, SOC version and device).
- **`codegen/function_visitor.py:702`** (Codegen; `Statements <- WhileStatements`).  visit_While evaluates the condition in the outer scope, so the before block tests the handles from before the loop and not its own arguments: the loop of docs/python_syntax_support.md:23 (while i < n: ans += i; i += 1), listed as supported, never ends once it is entered.
- **`codegen/function_visitor.py:235`** (Codegen; `Statements <- CopyStatements`).  replace_uses_in_block rewrites only the operations of the block; the values to yield are then taken from the scope. A name that was given another carried name's value (x, y = y, x + y) yields the handle from before the loop in each iteration. docs/python_syntax_support.md:36 lists the for loop that carries a name (for i in range(num): total += i) as supported syntax.
- **`codegen/function_visitor.py:230`** (Codegen; `Statements <- ConstantStatements`).  compute_inout makes the constants for the initial values inside the block, so the other branch yields (and a loop starts from) a value that is not defined there; the verifier of run_passes rejects the module. python/test/unit/codegen/test_function_visitor.py:61 expects ans = 0 followed by if a > b: ans += 1 to be compiled.
- **`language/basic/vec_cmpsel.py:55`** (Overloads; `Refused` without these forms).  compare is declared with is_set_mask in four of its forms (docs/python-api/language/generated/asc.language.basic.compare.md:5: is_set_mask: bool = True), and none of the registered signatures has it: the call raises No viable candidates. The same holds for compare_scalar, select, and whole_reduce_max and whole_reduce_min (there for order=None too).
- **`language/core/types.py:1105`** (Overloads; `Refused` without these forms).  from_ir calls cls(handle=handle) and an overload declares handle alone (language/core/types.py:1067, This contructor should not be called by user), but n_size, m_size, dst_stride and src_stride have no default, so Python raises TypeError. The same holds for DataCopyPadExtParams, Nd2NzParams, Nz2NdParamsFull, MrgSort4Info, FixpipeConfig, FixpipeParamsV220 and MrgSortSrcList.
- **`language/basic/block_sync.py:122`** (Overloads; `Misbound` without `sync_all`).  sync_all(False) is declared (docs/python-api/language/generated/asc.language.basic.sync_all.md:3: sync_all(is_aiv_only: bool = True)), but the first parameter of the function is gm_workspace: the flag is taken for a workspace, there is no ub_workspace, and the barrier is built with the default of is_aiv_only.
- **`language/core/types.py:855`** (Overloads; `Defaults` without `MmadParams`).  The flags of MmadParams default to None and not to the documented values (language/basic/utils.py:2596 says of cmatrixInitVal 默认值true, default true): one that is left out is not passed as its default, it removes the others (see the next entry).
- **`language/core/types.py:904`** (Overloads; `Ignoring` without `MmadParams`).  MmadParams keeps m, n and k only when one of two groups of flags is complete; otherwise the structure is built with no operand. language/basic/utils.py:2636 gives params = asc.MmadParams(4, 4, 4) as the example of mmad, which multiplies matrices of size 0.
- **`language/adv/matmul.py:837`** (Overloads; `Ignoring` without `get_mm_config`).  get_mm_config loops over [args, kwargs], so it tests whether the tuple and the dict are parameter objects and never looks at what is in them. language/adv/utils.py:1955 calls get_mm_config(shape_params, quant_params, batch_params, func_params, config_mode): all five are dropped.
- **`language/basic/vec_vconv.py:75`** (Overloads; `Narrow = {}`).  repeat_times becomes an int8 through get_i8(int8_t) (python/src/OpBuilder.cpp:515), which refuses 128 and more. language/basic/utils.py:241 states 取值范围[0,255] (range 0 to 255).
- **`codegen/function_visitor.py:91`** (DeviceCalls; the invariant `ReturnTypesKnown`).  FunctionVisitor.__init__ takes over the caller's visited_return_types only if it is not empty, and call_jit_function looks generated functions up in its own dictionary. When the first device function a kernel calls calls another one, the types of that other one go to a dictionary of its own, and a later call of it by the kernel raises KeyError (function_visitor.py:194). docs/python_syntax_support.md:324 says 支持核函数调用其他Device侧执行函数并获取其返回值 (a kernel may call other device functions and get their return values).
- **`codegen/function_visitor.py:193`** (DeviceCalls; `Specs = {a, b}` and the invariant `CalledAsGenerated`).  call_jit_function asks the module whether it has a function of the bare name and calls that one, whatever constants it was generated with: f(x, 2) after f(x, 1) runs the code for 1. docs/architecture_introduction.md:155 says of asc.ConstExpr parameters 会在最终翻译生成的Ascend C代码中生效 (they take effect in the Ascend C code that is generated).
- **`language/basic/vec_cmpsel.py:265`** (DeviceCalls; the invariant `MaskVisible`).  select keeps the IR constants of a mask list on the builder and uses them for every equal list later. Made in a branch (or in another function) they are not visible after it, and the module is invalid: the verifier that compiler.py:178 enables refuses it. docs/python_syntax_support.md:111 shows if/elif/else with statements in the branches and after them as supported, and basic/utils.py:6326 describes mask as an ordinary argument of each select.
- **`runtime/jit.py:51`** (JitCall; `MaxHandles = 2`).  kernel[...] stores the options in the JIT function and returns the same bound method each time; _run reads them when it launches (jit.py:212). k1 = kernel[1]; k2 = kernel[2]; k1() runs on 2 cores. docs/architecture_introduction.md:90 says 执行Kernel函数时通过中括号[]传入运行时配置 (the run-time configuration is passed through the brackets when the kernel is executed).
- **`runtime/jit.py:208`** (JitCall; the invariant `AcceptedOptionsWork`).  _run takes the fields of CodegenOptions and CompileOptions out of the decorator's options, not those of LaunchOptions: with @jit(core_num=8) the signature's bind gets an unexpected core_num and every call raises TypeError. The docstring at runtime/jit.py:223 says of the decorator's options 'see CodegenOptions, CompileOptions, LaunchOptions', and __init__ accepts them.
- **`lib/host/loader.py:26`** (NativeBuild; `CacheIsWhole` without its hypothesis).  Loader.build links to a fixed file in the package's directory and load_library then reads that file and puts it into the cache. While one process reads, another one, which looked into the cache before, may be linking to the same file: half a library gets into the cache, under the final name, and every later process finds it and fails to import it. runtime/cache.py:88 says of put 'Replace is guaranteed to be atomic on POSIX systems if it succeeds so filepath cannot see a partial write'.
- **`runtime/compiler.py:155`** (CompilerDriver; the invariant `RetryCounts`).  _run_cmd takes the second value of communicate() for the return code; with stderr=STDOUT it is always None, so a second attempt that succeeds still raises. python/test/unit/runtime/test_compiler.py:120 sets communicate to (b"output", 0) and :125 expects 3 commands, the failed one, the second attempt and the link after it.
- **`runtime/compiler.py:215`** (CompilerDriver; `OptLevels = {0, 1, 2, 3}` and the invariant `DocumentedLevels`).  _check_compile_options accepts the levels 1, 2 and 3 only, and __init__ raises for 0 (test_compiler.py expects that). docs/architecture_introduction.md:105 gives the range of opt_level as 0,1,2,3.
- **`lib/Dialect/Asc/Transforms/VerifySync.cpp:53`** (VerifySync; `walk = "crashed"`, reached by a tensor that is released twice while its queue holds something).  The search for the allocation of a released tensor casts every open operation of the queue to an allocation with dyn_cast and calls getTensor() on the result, which is null for an enque. When a tensor is released a second time while something is in the queue, the pass dereferences null instead of warning. test/Dialect/AscendC/Transforms/diagnostic/verify-sync.mlir:24 expects 'FreeTensor: tensor memory was freed before its last use' for a second release (there with nothing in the queue).
- **`lib/host/loader.py:63`** (NativeBuild; `LoadedIsOwn` without its hypothesis
  on `InPackage`).  The host library's key has the toolkit's version and not its
  sources: after an upgrade of the package the old library is found.
- **`language/adv`, `Matmul.iterate_batch` and `get_matmul_api_tiling`, and
  `MrgSortSrcList.from_ir`** (Overloads; their forms in `MCOverloads`).  Values
  are bound to other parameters than they were declared for, or defaults differ.

Read, but not modelled: `InitConstValueParams` (`language/core/types.py:266`)
given an IR value may reach a variable that was never assigned; `sync_all`
(`language/basic/block_sync.py`, lines 126 to 130) builds a barrier of the
vector cores when `is_aiv_only` is false, and the default one when it is true.

## Proofs

`KernelCache_proofs` proves, for any sets of processes, texts, values and
specialisations (assuming only that the sentinels are distinct from the values,
`SentinelAssumption`): type correctness, each safety property of the run
`kernel_cache`, `WarmNeverBuilds` included, and the refinement of
`KernelService`.

The invariants are not inductive one by one.  Their strengthening `IInv` adds
what each program counter implies: which local variables are set, that the
kernel a call holds has the call's key, that a temporary file is whole when it
is renamed, that files hold kernels of their own key, and that whoever has
seen or renamed a file, or remembers a kernel, can count on the file.  The
last is what keeps `os.removedirs` away from a directory in use: the file is
there before the temporary directory goes.  There is one
lemma per action; the refinement has one step simulation, in which `Replace`
publishes, the steps to `"return"` answer, and all others stutter.

`KernelLaunch_proofs` proves, for any sets of arrays, buffers, binaries and
streams and any bound on arguments (`LaunchAssumption`): type correctness,
`OwnBuffersHeld` and `NothingLeaks`.  The inductive invariant `IInv` adds how
far the handles have got at each step (`LocalInv`) and that `free_mem` empties
the dictionary of binaries before that of buffers (`FreedInv`): without the
first, a release could not be shown to have a handle, without the second, the
return to be clean.  A second invariant, `QInv`, adds that the current stream
is empty from the wait to the return; with it `KernelOnLiveMemory` is proved
for a program that uses no stream but the current one.  That hypothesis,
`Streams = {Current}`, stands in the theorem: nothing waits for a kernel on
another stream.

`WhatIsWrittenComesBack` proves `ResultsComeBack` under the same hypothesis and
`Consecutive`, that the elements of an array are one after the other in memory:
for strided arrays it fails (see `memory_handle.py:71` above).  The exception of
`Overwritten` cells is part of the property, so the theorem says nothing of
them; of any other cell it says that the last output that covers it decides, be it
shared by several outputs or by inputs before them.  The
invariant `DataInv` says what host cells and device buffers hold at each step.
A kernel that a failed run left in the queue knows none of the buffers of the
run that goes on (`Foreign`), or it could write to what was copied in; the
run's own kernel is the last (`Pending`), so that after the wait its results
are in the buffers (`Computed`); and a cell holds what the last argument copied
back so far had for it (`CopiedBack`).  The last is where arrays that overlap, or
are passed twice, are dealt with.

`DeviceState_proofs` proves `StateAgrees` and `CalledOnOpenDevice` for any
devices, handles and stream addresses (`DeviceAssumption`: 0 is one of the
devices, and the sentinel is no device or address).  Of streams it says that
the driver's are exactly those in `state.streams` that no program destroyed, and
those that programs made (`own`), and that none is both.  Every operation makes sure of the
library, the device and the stream by calls of its own, and what such a call
established is used when it is gone already.  The invariant therefore describes
the stack of calls in progress: which call may stand above which (`WellStacked`)
and what holds of devices and streams when a call is next, or next but one or
two (`AtTop`, `NearTop`).  A driver call may raise at any step; it empties the
stack, and what is to hold of the devices at any time (`Current`) does not
depend on it.

Its second part is about `DeviceMemory`: for all addresses and sizes it proves
type correctness, that handles are aligned, inside their blocks and disjoint,
and that `state.allocs` and the driver's blocks correspond one to one
(`HandlesMatchBlocks`).  The inductive invariant `MemoryInv` adds that the
driver's blocks do not overlap; the key step is that a new handle is not a live
one, since each live handle lies in a block apart from the new one.

`CompilerDriver_proofs` proves `BinaryAsTold` and `DerivedFits` for any set of
types a caller may ask for (`TypesAssumption`; `NoneAssumption` keeps the
sentinel apart).  The invariant follows the commands: at each stage it names
those still to run and the files that are there (`StagesOfBoth`, `StagesOfOne`),
so that what is linked is made of what the compile commands of the kernel's
type produced, however often they failed before.

`DeviceCalls_proofs` proves `ModuleWellFormed`, `InsertionFollows` and
`ResultsAsDeclared` for any functions, types and specialisations, calls in
cycles included, and any bounds (`SpecAssumption`: there is a specialisation).
Visitors work inside one another with one builder, and share dictionaries.
The invariant says where each visitor goes on when the one it called is done
(`Nested`), that no two of them work at the same function (`Apart`), that what
is recorded of a function, in a dictionary or by a call, is final, since its
visitor is done (`Recorded`), and that a visitor that has returned creates
nothing more in its function (`Returned`).

`NativeBuild_proofs` proves `LibrariesAreWhole` and `LoadedIsOwn` for any
processes, libraries and versions; `FileAssumption` keeps the sentinels apart
from libraries.  The invariant adds what each step holds: a process that loads
works for what is installed, since nothing is installed meanwhile; what it
linked in its own directory is whole when it reads it; what it read is for the
key it puts it under; and a file of the cache was made for its key (`MadeFor`),
which is what `version.cfg` says of the toolkit, if there is one, for all libraries
and the source for those of the runtime.  For a library in the package's directory it can only say that the
file is whole or torn: there another process may be writing.

`JitCall_proofs` proves `LaunchesAreRight` and `NothingLeft` for any functions,
options and number of calls, under two hypotheses that stand in the theorems:
`OneThread`, and `CallsAtOnce`, a handle `kernel[...]` is called before the next
one is asked for.  Neither can be left out, as the builder and the launch options are shared.
`NoneAssumption` keeps the sentinel apart.  The invariant adds that the module
being built holds operations of the called function alone (`Prepared`,
`KernelsOwn`), that the options in the function are still those asked for, and
that whatever exists between the first step of code generation and the last
has its callback (`TornDown`), without which the teardown could not be shown
to remove it.

`SyncPipeline_proofs` proves `WarningsAreRight` for any queues and kernels, those
the passes made as well as those an author wrote, and that the variables of
`VerifySync` have their types.  The property compares two ways of pairing: the
pass takes the first enque that is open when a deque comes, and finds what a
tensor was allocated as through the pairs it has made; the definition counts how
many tensors are in each queue at each place and pairs the enque and the deque of
one rank.  The invariant `IInv` holds until the walk crashes.  Of the pairs
(`Paired`) it says that a deque has one exactly if its queue was not empty there,
with an enque before it, of its queue and of its rank; further that the
enques that wait in a queue came after those that have left it (`InOrder`)
and are as many as the definition counts (`Counted`), that `queBinds` holds what
waits and what was allocated and not released (`Bound`), and that the warnings are
those due so far (`WarnedBy`).  The key step is that the first enque that waits has
the rank of the deque that comes (`FirstHasRank`): the pairs made so far are a
bijection between the deques and the enques before them.  The three recursive
functions look back from place to place.  That each of them is defined, agrees with
itself as the kernel grows, and that `Buffer` finds what `FindDef` finds, is
shown by contradiction from the least place where it would fail (`Least`).

Only model-checked: the liveness properties (`CallReturns`, `RunEnds` and their
like) and everything else about ENABLED, which are beyond TLAPS; and the
properties of `Codegen`, `Overloads` and `SyncPasses`.  `Codegen` compares two
evaluations that follow the shape of a program, by RECURSIVE operators.
`Overloads` is about the declared signatures, which are constants: there TLC
goes through all there are.  For `SyncPasses` the statements hold for kernels without `Abandoned`, `Split` and
`Carried` tensors only; that these exclusions are enough is known from the
instances checked, not from an argument that could be turned into an invariant,
and with `SyncPasses` the properties `ModuleIsValid` and `InsertedIsAccepted`
of the composition stay with TLC.

## Not modelled, and the plan

Left out of modules that exist:

- *KernelCache, JitCall.*  The walk of `dependencies_finder.py` that collects
  what enters a function's hash.  Threads: nothing in the code serialises them,
  and no document says that kernels may be called from several.
- *KernelLaunch.*  Scalars and how arguments are packed into 8-byte words,
  tensors that are on the device already, `DRY_RUN`, profiling.
- *NativeBuild.*  Nothing is installed while a library is being built, and
  `put` is one step, which is what `KernelCache` shows it to be for readers.
- *Codegen.*  Conditions wider than a comparison, `with` blocks, stores to
  subscripts and attributes, which do not bind names.
- *DeviceCalls.*  Values; they are in `Codegen`.
- *Overloads.*  `MatmulConfig` and `MatmulFuncParams`, `range` and
  `static_range` objects, the `aipp` types, enumerations, data types, fields of
  structures, the `utils.py` files, which hold documentation strings, and what
  an operation does on the device.
- *SyncPasses.*  Branches, nested loops, views of tensors, several allocations
  in one queue.  HoistUBAllocation, which moves buffers out of loops, changes
  nothing the properties see.  Pairs of accesses that the passes leave unordered
  are in the model, and listed in `Missing`.  Three classes of kernels are
  excluded from the properties, because the passes do not cope with them and no
  test or document has one: a write that nothing follows (`Abandoned`, its
  tensor is never released), a tensor of the function that a loop writes and
  uses and that is used behind the loop too (`Split`, the later use is renamed
  to a value of the loop), and one whose last access in the loop is a write
  (`Carried`, the next iteration reads without a hand-over).
- *VerifySync.*  Branches: it walks over a straight line of operations.
- *DeviceState.*  What a program that destroyed the library's stream may expect:
  its steps are modelled, but no document says what they ought to do, so
  `StreamsAreLive` only says that nothing else is lost.
- *CompilerDriver.*  Which passes run in which order (those of `SyncPasses`
  aside), the comparison of SoC versions, and the texts of flags.

Left out altogether: the Ascend C emitter (text), TableGen, the bindings and the
tools (generated code and glue), and the passes that do not touch
synchronisation.

Next, in this order:

1. `ArgumentWords`: the packing of scalars and handles against the layout a C
   structure has.
2. `Dependencies`: the walk that collects a function's hash, over call graphs
   with cycles and names that are assigned again.
3. `SyncPasses` with branches.
4. `KernelLaunch` with two host threads, should the code come to allow them.

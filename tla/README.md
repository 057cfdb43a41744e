# libnomp in TLA+

libnomp runs C loops on accelerators. A host program calls `nomp_init()`, maps
slices of its arrays with `nomp_update()`, has kernels built with `nomp_jit()`
and run with `nomp_run()`, and ends with `nomp_finalize()`. This directory
holds TLA+ specifications of that library, written from its source, the TLC
configurations that check them on small instances, and proofs that hold for all
instances.

The library is a sequential C program with global state. What makes it hard is
not threads but *long sequences of calls in which any call may stop halfway*:
every driver and Python call can fail, `nomp_check()` then returns at once, and
nothing is undone. Add state that is cached from one call to the next (grids,
reduction pointers, kernel ids, error ids), arithmetic in two units (bytes and
elements), a device that runs behind the host on CUDA and HIP, and a translator
that flattens C control flow into instructions under conditions.

## Inventory

| Part | State | Operations | Interacts with | Hard because |
|---|---|---|---|---|
| Memory registry, `src/nomp.c` 258-366, update functions of `backends/` | `mems`, `mems_n`, `mems_max`, device buffers, scratch buffer | `nomp_update` (ALLOC, TO, FROM, FREE), lookups | backend, `nomp_run`, `nomp_finalize` | overlapping slices, failing copies, two units, holes |
| Kernels, `src/nomp.c` 368-657, `src/symengine.c`, `src/loopy.c` | `progs`, integer map, grid, `eval_grid` | `nomp_jit`, `nomp_run`, `nomp_sync` | registry, backend, Python | cached grids, errors between steps, ids held by clients, clauses |
| Reductions, `src/reduction.c`, `python/reduction.py` | `reduction_ptr`, scratch buffer | host side fold | `nomp_run`, device queue | pending launches, stale pointer, scratch size |
| Error log, `src/log.c` 1-134 | `logs`, `logs_n` | `nomp_log_`, `nomp_get_err_no`, `nomp_get_err_str` | everything | ids outlive the table |
| Profiler, `src/log.c` 136-264 | `time_logs`, level | `nomp_profile` | `nomp_sync` | sentinel 0, unmatched toggles |
| Initialization and finalization, `src/nomp.c` 8-256 and 671-739 | `initialized`, context, annotate function, backend pointer | `nomp_init`, `nomp_finalize`, `nomp_finalize_excluding_interpreter` | everything | returns at every point, retries |
| Configuration, `src/nomp.c` 8-134, `src/aux.c` | none | command line, environment | initialization | precedence, truncated numbers |
| Python bridge, `src/loopy.c` | interpreter, strings, `sys.path` | one function for each Python call | kernels, initialization | errors leave references, `sys.path` outlives sessions |
| C to loopy, `python/loopy_api.py` | instructions, domains, predicates of one translation | translation of statements | kernels | predicates, loop bounds, jumps |

Correctness, part by part:

* **registry**: a buffer has one owner; copies stay in their slice and in their
  buffer; the device acts as one copy of the mapped bytes; memory is lost only
  where it is known to be;
* **kernels**: a launch has the grid of its own integers; an id names one
  kernel for as long as it is valid; programs are loaded once and unloaded once;
  what a kernel computes is what its C source means;
* **reductions**: the result written is that of this launch, and it is written
  to the variable of this call;
* **together**: offloading loops does not change what a program computes;
* **log and profiler**: an id finds its error; each name acts as one stopwatch;
* **lifecycle**: an initialized library has all it needs, one that is not has
  nothing to free, and each session has the levels and the annotation script its
  own command line and environment name; in an interpreter that was not used
  before, that script is one of this session's directories.

`PROJECT.json` lists the hazards line by line with the property that covers each.

## Modules

| Module | Models | Kind |
|---|---|---|
| `NompMem` | memory registry, both backends' update functions | specification |
| `DeviceMirror` | what `nomp_update()` promises: a copy of some bytes | abstract specification |
| `NompRun` | kernels, grids, reductions, the device's queue | specification |
| `Kernels` | what `nomp_jit()`, `nomp_run()` and `nomp_sync()` promise: tasks done in order, answers of one's own | abstract specification |
| `CKernel` | the C that kernels are written in, and what it means | definitions |
| `LoopyKernel` | loopy kernels, and what their code computes (external) | definitions |
| `CToLoopy` | `python/loopy_api.py`: the translation of one to the other | definitions |
| `NompJit` | one kernel from its source through `nomp_jit()` to its results | specification |
| `NompOffload` | a program that offloads: registry, launches, pending device work | composition |
| `HostProgram` | the same program in host memory | abstract specification |
| `NompLog` | errors and times | specification |
| `Stopwatches` | what `nomp_profile()` promises | abstract specification |
| `NompConfig` | command line, environment variables, numbers | definitions |
| `NompLifecycle` | initialization and finalization | specification |
| `NompMem_proofs`, `NompMemCopies_proofs`, `NompMemMirror_proofs` | theorems about `NompMem`: ownership, copies, the refinement of `DeviceMirror` | proofs |
| `NompOffload_proofs` | offloading is transparent | proofs |
| `NompRun_proofs`, `NompLog_proofs` | theorems about `NompRun` and `NompLog` | proofs |
| `NompLifecycle_proofs`, `NompSettings_proofs` | theorems about `NompLifecycle`: what is there, and with which settings | proofs |
| `MCNompMem`, `MCNompRun`, `MCNompJit`, `MCNompOffload`, `MCNompLog`, `MCNompLifecycle` | symmetry and constant definitions for TLC | model checking |

Operators named "Broken" in a comment are plausible bugs: each replaces a
definition of the specification to see that a property notices.

### NompMem and DeviceMirror

`mems` is a sequence in which `NULL` stands for a slot that was freed; `mems_n`
is its length. `dev` holds the contents of each live buffer, byte by byte,
because `nomp_get_index_if_mapped()` compares slices in bytes while
`NOMP_MEM_OFFSET(start - m->idx0, usize)` counts in elements of the *call*.
`nomp_update()` is split by outcome: `Map`, `MapWithoutMemory`, `MapWithoutCopy`
(the three ways a new slice can end), `Reallocate`, `CopyTo`, `CopyFrom`,
`Free` and `Refuse`. `KernelStore` is what a kernel may do to the buffer that
`nomp_run()` gives it. `nomp_finalize()` succeeds (`Finalize`), or stops at an
entry, at the scratch buffer or after both; libnomp then stays initialized and
may be used or finalized again.

`Misuse` lists what the client does that the library does not refuse but that a
careful program avoids: mixing element sizes on one array (`units`), mapping a
slice that overlaps a mapped one (`overlap`), ALLOC of what is mapped
(`resize`), FREE of a part (`subfree`). The rules are stated in `Careful`. The
ownership properties do not depend on them; what copies contain does.

Copies outside a buffer are refused, as OpenCL refuses them; on CUDA and HIP
they are undefined, and `CopiesFit` shows that a careful client makes none.
Empty slices are left out, since what the driver does with them differs.

### NompRun and Kernels

A program is `[site, bptr, map, grid, rptr]`: the site it was built for, its
handle, the last integers, the evaluated grid, `reduction_ptr`. A grid is the
assignment of integers it was computed from, `None` as allocated (all zero), or
`Reset` after an evaluation that failed; so two grids are equal exactly when
they must be. `nomp_run()` is split by the point it reaches: an unmapped array
(`RunUnmapped`), the evaluation (`RunWithoutGrid`), the launch
(`RunWithoutLaunch`), the synchronization before the fold (`RunLaunched`, which
is also the success of a kernel without reduction), the copy of the partial
results (`RunWithoutCopy`), success (`RunReduced`). `call` records what the
last call passed to `knl_run()`, the variable it was given for its result, and
which variable it wrote with the partial results of which launch.

Launches wait in `queue` until `DeviceFinishes`; OpenCL, which calls
`clFinish()` in each launch, is the special case in which the device finishes
at once. Which arrays and result variables are mapped changes by `MapOrUnmap`,
the view this module has of `NompMem`. A reduction whose result variable is
mapped puts its partial results into the buffer of that variable, and leaves
`reduction_ptr` alone; the host still folds what the scratch buffer holds, into
the variable of the last run that set `reduction_ptr`. The field `scratch` of a
launch and `ResultAfter` say so. If no run has set it the write goes through
`NULL`, which is undefined and left out.

`nomp_finalize()` succeeds (`Finalize`), or stops at a buffer, at any program,
or after all of them at the interpreter or the backend (`FinalizeStops`);
programs before the one it stops at are unloaded and their slots are `NULL`.
libnomp stays initialized, the client is `"stopped"` at every site, and may
call `nomp_finalize()` again.

`Kernels` says what a client relies on: a site has its kernel built once, the
device finishes the tasks it was given in the order of the calls, and a
reduction returns when nothing is left to do, with the result of its own task
in the variable it was called with. A call that fails does nothing, waits for
the device, or leaves its task to it. `KeepsPromises` takes what was asked for
from the integers of the call and what is done from the grid of the launch, so
that a launch with an old grid is another task than the client asked for; a fold
into a variable that is mapped answers nobody.

The client `"retry"` runs a kernel again after a call of it failed between
reading integers and evaluating the grid; without it the client gives up on
that site, and is free to retry everything else. The client forgets its ids
when it finalizes; an id that is kept longer names whatever is built next. A run
with an id that names no program is undefined in C (the code does not check it)
and is left out.

### CKernel, LoopyKernel, CToLoopy and NompJit

`NompRun` says which kernel and grid is launched; these four say what it
computes. `CMeaning` is the reference: a C function of loops, conditions,
conditional expressions, jumps, declarations and assignments run on a store.
`c_to_loopy` translates it as `map_compound_stmt()`, `map_for_stmt()`,
`map_if_stmt()`, `map_binary_operator()` and
`map_compound_assignment_operator()` of `python/loopy_api.py` do: a list of
instructions, each with the loops it is in and the conditions it is under, and
`Converts` says what the translator refuses. The variable of a condition is what
the code takes for it, the spelling of the first child of its left operand
(`CondName`). `LoopyKernel` is external: it says
what loopy does with such a list as far as libnomp depends on it. Its
assumptions are that loops are rebuilt around consecutive instructions in order
as written (the translator asks for `seq_dependencies`), that a
condition is evaluated before each instruction under it, and that iterations
of a loop dealt out to a grid, and groups of a reduction, run in any order; two
orders, up and down, stand for all.

`NompJit` has one action for each step of `nomp_jit()` in the order of the
code and one for each way it fails: translation, each kind of clause, the split
of a reduction into partial results, fixed parameters (whose error is ignored),
the source, the build and the grid. `Run` binds actuals to parameters by
position as `nomp_run()` does, runs the kernel and folds partial results as
`nomp_host_side_reduction()` does. A job is one call with its clauses and the
stores a careful client runs it on: parallel loops whose iterations are
independent, reductions that are the only statement using their variable, that
name it first and that fit the scratch buffer (`jit_operands` has one that names
it second). The variable of a reduction may hold anything before the call:
`nomp_host_side_reduction()` overwrites it (`src/reduction.c:11`), and
`tests/nomp-api-500-impl.h` passes an uninitialized one to `sum[0] += a[i]`. What
the C source means is therefore read with the neutral element in that variable
(`FromNeutral`), whatever the client left there. A session may call `nomp_jit()`
again after an error. The transform and annotate functions are those of
`tests/nomp_api_100.py` and `tests/sem.py`. A `reduce` or `annotate` clause that
is cut short hands `NULL` to `strncmp()` or `PyUnicode_FromString()`: undefined,
and left out (`WholeClause`); a `transform` clause that is cut short is refused.
Types, array declarations and unary operators are left out, as they do not
change control flow.

### HostProgram and NompOffload

`HostProgram` is what the client would have written without a device: loops
that add arrays, sums, and stores. `NompOffload` extends `NompMem` by the
launches that are pending, and by a client that knows of each byte whether the
host, the device or both have its value (`valid`), and makes no call that would
read or lose an old one. A launch takes its buffers when `nomp_run()` looks
arrays up and uses them later; the driver makes copies and releases wait for
launches and does not make allocations wait. `OffloadIsTransparent` is the
refinement: the memory of the program is, byte by byte, the host's or what the
device will have when the queue is done, and every step of the composition is a
statement of the program or changes nothing of it.

### NompLog and Stopwatches

`held` is the client's memory of the ids it was given. `time_logs` is a table
searched by name, with `last_tick = 0` for a timer that does not run; under the
assumption that the processor clock is positive when profiling begins it
implements one stopwatch for each name. Toggling off a timer that does not run,
and everything at level 0, changes nothing and is not a step.

### NompConfig and NompLifecycle

`NompConfig` is `nomp_set_configs()`: the scan in which an option takes the
next word whatever it is, the last of repeated options, environment variables
that win over the command line (there is none for the annotations script), and
`nomp_str_toui()`, which cuts what `strtol()` read to an `int` from
`-IntEnd` to `IntEnd - 1`. A word is a member of a finite set with the option and the number it is.

`NompLifecycle` has one action for each point at which `nomp_init()` and
`nomp_finalize()` return. `asked`, `stuck` and `slips` belong to the client:
the command line and environment of its last `nomp_init()`, whether its last
`nomp_finalize()` failed, and what it did that the documentation does not
provide for. `FreesNull` tells the backends apart: freeing the scratch buffer a
second time is harmless on CUDA and HIP, and undefined (left out) on OpenCL.
A backend of CUDA or HIP never fails to finalize; the model lets any.

`path` is `sys.path`, of which the directories of scripts are kept: each
`nomp_init()` appends the working directory and its scripts directory, and only
the end of the interpreter removes them. A directory that is listed already is
not added again, since the first one is found. `annotate` is the script of the
annotations and `origin` the directory it was found in (`FoundIn`).
`nomp_finalize_excluding_interpreter()` adds `"kept"` to `slips`, and a
`nomp_finalize()` that ends the interpreter removes it. Transform scripts are
found in the same path.

`SettingsAreOfThisSession` compares the settings with `Written` and `ReadsAs`,
which read an unambiguous command line from its end and do not share the scan.
It names three exceptions the code makes. A second `nomp_init()` in a session is
refused but resets the verbose level first (`InitAgain`). After a `nomp_init()`
that failed, its script annotates a session that names none; one that names a
script has its own. And an interpreter that was used before, by such a call
or by a session that kept it, still searches the directories of that time
first, so that only a new one has its script from this session's directories
for certain. `ScriptIsFromItsDirectory` asks for that of kept interpreters as
well, as the documentation does, and `life_kept` refutes it.

## Runs

| Run | Shows | Bounds, and why they are enough |
|---|---|---|
| `mem_careful` | types, copies in bounds, no call touches a byte outside its slice, refinement of `DeviceMirror` | 1 array of 2 two-byte elements, so that offsets in bytes and elements differ; 3 slots, 4 buffers (3 entries and scratch): slices that do not start at 0, holes, growth from 0, 1 and 2 slots; every call of `nomp_update()` may fail, and `nomp_finalize()` at any buffer or after. Several arrays: `mem_careless`, `offload` |
| `mem_careless` | ownership, capacity, losses and stable slots for a client that breaks every rule | 2 arrays, elements of 1 and 2 bytes, 3 buffers, 2 slots; `nomp_finalize()` may also fail once all buffers are gone, so that libnomp goes on without a scratch buffer |
| `run_careful` | grids, ids, ownership, reductions, stability, refinement of `Kernels` | 2 kernels (a size before its array, a reduction with a size), 2 integer values (interchangeable: only equality matters), 1 array and 2 result variables, each mapped or not, 2 handles, 2 pending launches; every call may fail, and `nomp_finalize()` at any buffer or program |
| `jit_kernels` | kernels mean what their C means; `nomp_jit()` returns | 42 jobs after the tests: nested loops, bounds of outer loops, conditions within conditions, jumps, declarations, transformed and annotated kernels, fixed parameters, 5 reductions of sums, differences and products into a variable that is 0 or 5 before, and 18 that are refused; 9 pairs of arrays of 3 elements, sizes 1 to 3 (reductions: 0 to 3), groups of 2: the last group is full or not |
| `offload` | offloading is transparent | 3 programs of 4 or 5 statements on 2 arrays of 2 elements of 2 bytes, 3 slots, 4 buffers, 2 pending launches: slices mapped, copied and freed in every order between launches |
| `log_book` | ids, tables, refinement of `Stopwatches` | 2 errors in up to 3 logs, 3 names (growth twice), clock to 3 |
| `life_sessions` | readiness, emptiness, settings, contexts | command lines and environments with repeated, unknown and cut options, numbers beyond the width of an `int` (4 bits), 2 scripts directories and the working directory with scripts of one name, 2 contexts (one lost, one in use), 1 slice and 1 kernel, any number of sessions |
| `run_retry` | violation: a retried run has an old grid | 1 kernel whose size precedes its array |
| `run_constant_loop` | violation: without integers the grid is never evaluated | 1 kernel without integers |
| `jit_control` | violation: a loop with `<=` loses its last iteration; a branch that changes its condition is followed by the other one | 1 kernel of 2 loops: the first is seen in array `a` of the counterexample, the second in `b` |
| `jit_operands` | violation: a loop with `i + 1 < n` runs once too often; `s[0] = a[i] + s[0]` writes partial results over `a` | 1 kernel: the first is seen in array `b` of the counterexample, the second in `a` |
| `life_kept` | violation: a kept interpreter has its script from the directory of an earlier session | 2 command lines with one script in two directories, 1 context |

The violations disagree with a comment, a page of the documentation or a check
of the translator that `PROJECT.json` quotes under `findings`.

Known and modelled, but not a run of its own: the buffer of a failed first copy
is lost, and so is the buffer ALLOC replaces (`OrphansOnlyFromNewBuffers` says
that nothing else is); freeing a part of a slice frees all of it (`subfree` in
`mem_careless`).

**Fairness.** `NompJit` assumes `WF_vars(JitStep)`: `nomp_jit()` is a sequence
of calls that return, so that a step that is possible is taken. Under it
`JitReturns` says that the clause loop comes to its end with the clause arrays of
the jobs, one of them with a `transform` clause that is cut short; arrays with a
`reduce` or `annotate` clause that is cut short are undefined in C and not among
them.
Calls of the client are not fair: it may stop. The other modules assume no
fairness, because each of their actions is a whole call that returns, and
what must eventually happen on the device is waited for inside the driver.

**Deadlock** is checked in every run.

## Proofs

TLAPS checks the theorems for all values of the constants, so for any number of
arrays, kernels, element sizes, buffers, failing calls and kinds of misuse. A
theorem about a client that keeps to a rule says so in its hypotheses; the same
rule is set by `Misuse` in the run that checks the property.

### The registry

`NompMem_proofs`. The inductive invariant `IInv` joins the type invariant,
`OwnedOnce`, `RegistryFits` and the fact that a library that is down owns
nothing; ownership alone is not inductive, because a new buffer is disjoint
from the registry only if the registry holds live buffers only, and a library
that is down must have no scratch buffer for `nomp_init()` to lose. From it follow
`Typing`, `Ownership`, `Capacity`, and the action properties `StableSlots` and
`BuffersAreNotLost`. The proof has one step for each action and one below it
for each conjunct the action disturbs.

`NompMemCopies_proofs`. `Copying` is a theorem about `CopiesFit` for a client
that uses one element size for each array and never allocates a mapped slice
again (`units` and `resize` are not in `Misuse`); overlaps and freed parts are
allowed. `CopiesFit` says nothing of buffers, so the invariant is `BuffersFit`:
the buffer of an entry has the size of its slice. Then what
`nomp_get_index_if_mapped()` compares in bytes bounds what `NOMP_MEM_OFFSET`
counts in elements. Each condition is needed: TLC finds a copy outside its
buffer as soon as either kind of misuse is added to `MemCareful.cfg` with
elements of 1 and 2 bytes.

`NompMemMirror_proofs`. `Implements` is the refinement of `DeviceMirror`, for a
client that does not overlap slices either. The mapping sends the registry to
the copies there are of each byte; the invariant `MInv` adds to `IInv` and
`BuffersFit` that slices of one array are disjoint, so that a byte has one
copy. A call is then a step of the abstract specification on the bytes of its
slice: `Reserve`, `ReserveAndSend`, `Send`, `Fetch` and `Drop` are proved one
by one, `KernelStore` for the entry that `nomp_run()` finds first, and a
call that fails halfway changes nothing the mapping sees. `Slices` is
`SliceOnly` for a client that also frees what it mapped and not a part of it
(`subfree`).

### The composition

`NompOffload_proofs`. `Transparent` is `OffloadSpec => OffloadIsTransparent`
for a careful client (none of the four kinds of misuse, as in the run), any
program, any contents of arrays, any number of pending launches and any driver
calls failing. The memory of the program is defined from what the
device *will* have when the queue is done, so the argument is about the future of
the device:

1. `AfterAll`, device memory after the launches, is a recursive function.
   What is known of it is proved by induction on the number of launches: one
   more launch comes last (`AfterAppend`), the first may be done already
   (`AfterFirst`), no launch changes which buffers there are and their sizes
   (`AfterFits`), and buffers that are allocated meanwhile do not disturb the
   launches (`AfterExtends`).
2. The invariant `OInv` says of each byte that wherever the client takes its
   value to be, on the host or on the device after its launches, there is the
   value that the program has (`Holds`), and that the buffers of each launch that
   is pending are there and large enough (`LaunchesFit`). The second is what the
   driver's waiting in copies and releases is for. `Pending` states both.
3. Each byte has one value, so that `Holds(m)` determines the memory
   (`Determined`). For each action it is enough to name the memory after it: the same for
   `nomp_update()`, `nomp_init()`, `nomp_finalize()` and the device, and that of
   the statement for `nomp_run()` and the host.

`NompMemMirror_proofs` supplies what a call does to the registry.

### Kernels

`NompRun_proofs`. `IInv` joins the type invariant, `ProgramsOwnedOnce`,
`ReductionsReachTheirCaller` and `IdsNameKernels`, which says of every id a
client holds what `IdsNameTheirKernel` says of those it uses: a build that fails
must not touch them either.
The part of reductions rests on `LastPartials`: whatever launches were pending,
the scratch buffer holds the partial results of the last reduction that used it
once all are done, and the fold waits for that. Ownership needs that a slot and
the program it held go together wherever `nomp_finalize()` stops (`SlotsFromOK`),
for then the next one finds each loaded program exactly once.

`Grids` is a theorem about `GridOfThisRun` under two conditions: the client does
not retry a run that failed before the evaluation, and each kernel has an
integer argument. Its invariant is that the grid of a program that may be run is
that of its integers, or that it has none yet and has read none. The runs `run_retry` and
`run_constant_loop` drop one condition each and find a launch with a wrong
grid, so that neither can be left out.

`Promises` is `Spec => KeepsPromises` under the first condition alone: a kernel
without integers never has a grid, so that each launch of it is refused, which
`Kernels` allows. Every action is mapped to the step of `Kernels` it is: a build
that succeeds to `Build`, a launch to `Start`, a completed reduction into a
variable that is not mapped to `Reduce`, a launch that is refused or whose
result is not promised to `Fail`, the device to `Finish`, the ways
`nomp_finalize()` returns to `End`, and all other calls to `Call`. Of the
invariants it needs that of the grids, for otherwise the device does another task
than it was asked for, `IdsNameTheirKernel`, so that the task is of the
caller's site, and `ReductionsReachTheirCaller`. With `"retry"` TLC finds a
launch that is not the task of its call.

### Errors and times

`NompLog_proofs`. Types, the ids and the tables of `NompLog`: an id is held
exactly for each index of the table, with the error at that index. The part of
the tables needs that a name has at most one entry, which `Create` preserves
because it looks first; the type of the total times needs that no timer was
started later than now (`StartedBefore`), since `ToggleOff` subtracts.
`Stopwatch` is the refinement of `Stopwatches`: because a name has one entry,
the entry found first is the stopwatch of its name, and a table that grows or is
finalized is a step, or a stutter, of all stopwatches.

### Sessions

`NompLifecycle_proofs`. `UpMeansReady` and `DownMeansEmpty` with `OneContext`:
without a failed `nomp_init()` there is no device context but that of the
session. That `nomp_finalize()` leaves none needs that there was no other.
`ContextsAreNotLost` follows step by step.

`NompSettings_proofs`. `Types`, and `Settings`: a library that is initialized
has the settings that its command line and environment name, as
`SettingsAreOfThisSession` says. The scan decides word by word, from the first,
whether a word is an option or the value of the one before;
the property reads the command line without a scan, last option first.
`ScanUnambiguous` proves, from a solution of the scan's equation, that on a
command line in which a value follows each option both find the same options; that
the last
of them is there to be found is the lemma that finite sets of numbers have a
greatest element; `Cut` is the arithmetic of an `int`. The invariant,
`SettingsAreRead`, says which values were read (`LevelsAreRead`, `ScriptIsRead`)
and which directories are searched (`DirsAreOfThisSession`): an interpreter that
is not there searches none, one that no failed call and no kept session left
is not there before `nomp_init()` succeeds, and the script that annotates was
found in a directory that is searched. `ScriptIsRead` also needs
`DownMeansEmpty`: without a failed call there is no script to be left over.

### What the proofs rest on, and what they leave

The proofs rest on the `ASSUME` of each module only, which TLC evaluates in
every run of it. `NompOffload` assumes that bytes are the integers from 0 to
`Base - 1` that wrap around, and that what uninitialized device memory holds is
a number.

Induction over naturals is proved where it is needed from the least element
of a set of naturals (`Induction`), so recursive functions over sequences are
within reach. Only model-checked are:

* `TypeOK` and `MeansWhatCMeans` of `NompJit`: programs and kernels are trees,
  their meaning and their translation are RECURSIVE operators, for which the
  prover has no induction;
* `JitReturns`, which is liveness under fairness;
* the refuted readings of `GridOfThisRun` (two), `MeansWhatCMeans` (four) and
  `ScriptIsFromItsDirectory`, which are false and are shown by their
  counterexamples.

## Not modelled

* `nomp_str_cat()`, `nomp_copy_env()` and other handling of strings and files;
  the cut of long configuration strings by `strncpy()`.
* Host allocation failing (the allocation macros abort), leaks of host memory
  and of Python references on error paths.
* Calls before `nomp_init()` other than `nomp_finalize()`: they call a NULL
  function pointer.
* The fold of a kernel whose result variable was mapped in all its runs, which
  writes through `NULL`; runs with an id that names no program; loops of more
  groups than the scratch buffer holds; kernels of more than 64 arguments;
  `reduce` and `annotate` clauses that are cut short: undefined in C or on some
  backends.
* Ids of errors and kernels that are kept over `nomp_finalize()`, and the growth
  of the registry, which never uses a slot again: `MaxMems` bounds it.
* Of `sys.path`, the directory of libnomp's own Python modules, which is taken to
  hold no script of a client, and what Python itself puts there.
* In `NompJit` and `NompOffload`, result variables that are mapped: `NompRun`
  shows what becomes of them.
* Queries of device properties, which only transform scripts read, and whether
  partial sums are precomputed in local memory, which loopy decides.
* Types of C expressions, unary operators, array declarations, and errors of
  the C parser.
* Output: messages, the table of times.

## Plan

1. Done: `NompMem`, `NompRun`, `NompLog`, `NompLifecycle` with the abstract
   specifications `DeviceMirror` and `Stopwatches`; the configuration; the
   translation of kernels with `NompJit`; the composition `NompOffload` with
   `HostProgram`.
2. Done: proofs of every invariant, action property and refinement of the five
   modules other than `NompJit`.
3. Done: the abstract specification `Kernels`, which `NompRun` implements, with
   its proof; result variables that are mapped; a `nomp_finalize()` that stops
   between programs.
4. Left: OpenCL programs and queues released by halves; a proof that `NompJit`
   keeps its types, which needs kernels that are not trees defined by recursion.

------------------------------ MODULE NompRun ------------------------------
(***************************************************************************)
(* Kernels of libnomp: nomp_jit() and nomp_run() of src/nomp.c, the grid   *)
(* sizes of src/symengine.c, the host side of reductions of                *)
(* src/reduction.c, and the launch functions of the backends.              *)
(*                                                                         *)
(* A kernel is built once for each call site, which keeps its id in a      *)
(* variable that is negative before.  A run of it processes its arguments  *)
(* in order, evaluates the grid if an integer argument changed, launches   *)
(* and, if one argument is a reduction, folds on the host the partial      *)
(* results the launch left in the scratch buffer.  Launches are            *)
(* asynchronous, as on CUDA and HIP; OpenCL waits for each of them.        *)
(***************************************************************************)
EXTENDS Integers, Sequences, FiniteSets

CONSTANTS
  Sites,     \* call sites: each has a kernel and a variable for its id
  Args,      \* of each site the kinds of its arguments: "int", "ptr", "red"
  Ints,      \* values of integer arguments
  Ptrs,      \* host arrays, which nomp_update() maps and unmaps
  Results,   \* host variables reductions write to, which may be mapped too
  Handles,   \* programs the driver can have loaded at once
  None,      \* nothing: no id, no value, no program, no grid
  Reset,     \* the grid an evaluation that failed leaves behind
  Misuse,    \* what the client does wrong: "retry"
  Faults,    \* what may fail: "jit", "grid", "launch", "sync", "copy", "finalize"
  MaxQueue   \* bound: launches that are pending

\* The arguments of a kernel by kind; at most one of them is a reduction.
Of(s, kind) == {i \in DOMAIN Args[s] : Args[s][i] = kind}

ASSUME NompRunAssumption ==
  /\ \A s \in Sites :
       /\ Args[s] \in Seq({"int", "ptr", "red"})
       /\ \A i, j \in Of(s, "red") : i = j
  /\ Ptrs \cap Results = {}
  /\ \A X \in {Ints, Results, Handles} : None \notin X
  /\ None \notin Nat
  /\ None # Reset
  /\ MaxQueue \in Nat

VARIABLES
  up,         \* libnomp is initialized
  progs,      \* the programs: kernel id is an index of it, from 0
  progs_max,  \* slots allocated for progs
  device,     \* programs loaded on the device
  queue,      \* launches the device has not finished
  scratch,    \* the launch whose partial results the scratch buffer holds
  mapped,     \* the host arrays and variables that are mapped
  ids,        \* the client's kernel ids, None for -1
  client,     \* the client at a site: "new", "ready", "failed" or "stopped"
  call        \* what this step did, if it is a call: see Call

library == <<up, progs, progs_max, device>>
vars == <<library, queue, scratch, mapped, ids, client, call>>

(***************************************************************************)
(* Launches.  A grid stands for the expressions of a kernel evaluated with *)
(* the integers of a run, a launch for what it computes.  A reduction puts *)
(* its partial results into the scratch buffer, or into the buffer of its  *)
(* result variable if that is mapped.                                      *)
(***************************************************************************)
IntMap(s) == [Of(s, "int") -> Ints \cup {None}]
Grid(s) == IntMap(s) \cup {None, Reset}
Launches ==
  UNION {[site : {s}, ints : [Of(s, "int") -> Ints], grid : Grid(s),
          scratch : BOOLEAN] : s \in Sites}

\* What a call passed to knl_run(), the variable it was given for its result
\* if it returned 0, and the variable it wrote with the partial results of
\* which launch.
Call(launch, arg, out, value) ==
  [launch |-> launch, arg |-> arg, out |-> out, value |-> value]

Idle == Call(None, None, None, None)

\* An actual for each argument: a value, an array, a variable.
Fits(kind, v) ==
  \/ kind = "int" /\ v \in Ints
  \/ kind = "ptr" /\ v \in Ptrs
  \/ kind = "red" /\ v \in Results

Actuals == [s \in Sites |->
              {a \in [DOMAIN Args[s] -> Ints \cup Ptrs \cup Results] :
                 \A i \in DOMAIN a : Fits(Args[s][i], a[i])}]

IntsOf(s, a) == [i \in Of(s, "int") |-> a[i]]

\* The variable a reduction is called with.
ResultArg(s, a) == a[CHOOSE i \in Of(s, "red") : TRUE]

\* The launch whose partial results are in scratch when those of q are done.
PartialsAfter(q) ==
  LET last == {i \in DOMAIN q : /\ q[i].scratch
                                /\ \A j \in DOMAIN q : q[j].scratch => j <= i}
  IN  IF last = {} THEN scratch ELSE q[CHOOSE i \in last : TRUE]

\* The client calls nothing but nomp_finalize() when that returned an error.
Serves == up /\ \A s \in Sites : client[s] # "stopped"

(***************************************************************************)
(* nomp_jit()                                                              *)
(***************************************************************************)
Fresh == Handles \ device

Slots == IF Len(progs) = progs_max THEN progs_max + progs_max \div 2 + 1
         ELSE progs_max

\* Broken: gives every argument a place among the integers.
NewProgOfAll(s, h) == [site |-> s, bptr |-> h,
                       map |-> [i \in DOMAIN Args[s] |-> None],
                       grid |-> None, rptr |-> None]

\* The program when it is registered.
NewProg(s, h) == [site |-> s, bptr |-> h,
                  map |-> [i \in Of(s, "int") |-> None],
                  grid |-> None, rptr |-> None]

Builds(s) ==
  /\ Serves
  /\ ids[s] = None
  /\ progs_max' = Slots
  /\ call' = Idle
  /\ UNCHANGED <<up, queue, scratch, mapped>>

Jit(s) ==
  /\ Builds(s)
  /\ \E h \in Fresh :
       /\ device' = device \cup {h}
       /\ progs' = Append(progs, NewProg(s, h))
  /\ ids' = [ids EXCEPT ![s] = Len(progs)]
  /\ client' = [client EXCEPT ![s] = "ready"]

\* Broken: the id is given before the kernel is built.
JitFailsWithId(s) ==
  /\ Builds(s)
  /\ "jit" \in Faults
  /\ ids' = [ids EXCEPT ![s] = Len(progs)]
  /\ UNCHANGED <<progs, device, client>>

\* The source, a clause or the build is refused.
JitFails(s) ==
  /\ Builds(s)
  /\ "jit" \in Faults
  /\ UNCHANGED <<progs, device, ids, client>>

\* Something fails after the program was loaded: progs_n is not advanced, and
\* the next nomp_jit() overwrites the only pointer to it.
JitLosesProgram(s) ==
  /\ Builds(s)
  /\ "jit" \in Faults
  /\ \E h \in Fresh : device' = device \cup {h}
  /\ UNCHANGED <<progs, ids, client>>

\* Broken: builds the kernel again.
JitAgainBuilding(s) ==
  /\ up
  /\ ids[s] # None /\ ids[s] + 1 \in DOMAIN progs
  /\ \E h \in Fresh :
       /\ device' = device \cup {h}
       /\ progs' = [progs EXCEPT ![ids[s] + 1] = NewProg(s, h)]
  /\ call' = Idle
  /\ UNCHANGED <<up, progs_max, queue, scratch, mapped, ids, client>>

\* An id that is not negative is taken for that of the kernel.
JitAgain(s) ==
  /\ up
  /\ ids[s] # None
  /\ client' = [client EXCEPT ![s] = IF @ = "new" THEN "ready" ELSE @]
  /\ call' = Idle
  /\ UNCHANGED <<library, queue, scratch, mapped, ids>>

(***************************************************************************)
(* nomp_run()                                                              *)
(***************************************************************************)
\* The client runs a kernel that nomp_jit() returned an id for.  A negative id
\* is refused; one that names no program is undefined, and left out.
Prog(s) == progs[ids[s] + 1]
NamesProgram(s) ==
  ids[s] # None /\ ids[s] + 1 \in DOMAIN progs /\ Prog(s) # None

Runs(s) ==
  /\ up
  /\ client[s] = "ready"
  /\ NamesProgram(s)

\* The arguments are processed in order, up to an array that is not mapped.
Processed(s, a) ==
  {i \in DOMAIN Args[s] : \A j \in Of(s, "ptr") : j <= i => a[j] \in mapped}

\* nomp_symengine_update() of the integers among them.
MapAfter(s, a) ==
  [i \in Of(s, "int") |-> IF i \in Processed(s, a) THEN a[i] ELSE Prog(s).map[i]]

\* Broken: only an integer that has no value yet counts.
NewInts(s, a) ==
  \E i \in Of(s, "int") : Prog(s).map[i] = None /\ MapAfter(s, a)[i] # None

\* eval_grid
IntsChanged(s, a) == \E i \in Of(s, "int") : MapAfter(s, a)[i] # Prog(s).map[i]

\* Broken: reduction_ptr is set only once.
FirstResult(s, a) ==
  IF Prog(s).rptr # None \/ Of(s, "red") \cap Processed(s, a) = {}
  THEN Prog(s).rptr ELSE ResultArg(s, a)

\* reduction_ptr, which a result variable that is mapped leaves alone.
ResultAfter(s, a) ==
  IF Of(s, "red") \cap Processed(s, a) = {} \/ ResultArg(s, a) \in mapped
  THEN Prog(s).rptr ELSE ResultArg(s, a)

\* The program after a run left it with a grid.
ProgWith(s, a, grid) ==
  [Prog(s) EXCEPT !.map = MapAfter(s, a), !.rptr = ResultAfter(s, a),
                  !.grid = grid]

ProgsWith(s, a, grid) == [progs EXCEPT ![ids[s] + 1] = ProgWith(s, a, grid)]

\* A careful client does not run a kernel again after an error that came
\* between reading its integers and evaluating its grid.
GivesUpOn(s) ==
  client' = IF "retry" \in Misuse THEN client
            ELSE [client EXCEPT ![s] = "failed"]

RunUnmapped(s, a) ==
  /\ Runs(s)
  /\ Processed(s, a) # DOMAIN Args[s]
  /\ progs' = ProgsWith(s, a, Prog(s).grid)
  /\ IF Of(s, "int") \cap Processed(s, a) = {} THEN UNCHANGED client
     ELSE GivesUpOn(s)
  /\ call' = Idle
  /\ UNCHANGED <<up, progs_max, device, queue, scratch, mapped, ids>>

RunWithoutGrid(s, a) ==
  /\ Runs(s)
  /\ Processed(s, a) = DOMAIN Args[s]
  /\ IntsChanged(s, a)
  /\ "grid" \in Faults
  /\ progs' = ProgsWith(s, a, Reset)
  /\ GivesUpOn(s)
  /\ call' = Idle
  /\ UNCHANGED <<up, progs_max, device, queue, scratch, mapped, ids>>

GridAfter(s, a) == IF IntsChanged(s, a) THEN MapAfter(s, a) ELSE Prog(s).grid

LaunchOf(s, a) ==
  [site |-> Prog(s).site, ints |-> IntsOf(s, a), grid |-> GridAfter(s, a),
   scratch |-> Of(s, "red") # {} /\ ResultArg(s, a) \notin mapped]

\* All arguments are there, and the grid, when knl_run() is called.
Launching(s, a) ==
  /\ Runs(s)
  /\ Processed(s, a) = DOMAIN Args[s]
  /\ progs' = ProgsWith(s, a, GridAfter(s, a))
  /\ UNCHANGED <<up, progs_max, device, mapped, ids, client>>

\* The driver refuses to launch, as it does when all grid sizes are zero.
RunWithoutLaunch(s, a) ==
  /\ Launching(s, a)
  /\ "launch" \in Faults \/ GridAfter(s, a) = None
  /\ call' = Call(LaunchOf(s, a), None, None, None)
  /\ UNCHANGED <<queue, scratch>>

\* The launch is made, and the run returns: for good, or because of an error
\* of the nomp_sync() that precedes the host side of a reduction.
RunLaunched(s, a) ==
  /\ Launching(s, a)
  /\ GridAfter(s, a) # None
  /\ Len(queue) < MaxQueue
  /\ Of(s, "red") = {} \/ "sync" \in Faults
  /\ queue' = Append(queue, LaunchOf(s, a))
  /\ call' = Call(LaunchOf(s, a), None, None, None)
  /\ UNCHANGED scratch

\* Broken: does not wait for the device.
ScratchUnsynced(s, a) == scratch

\* What nomp_host_side_reduction() finds in the scratch buffer.
ScratchSynced(s, a) == PartialsAfter(Append(queue, LaunchOf(s, a)))

\* The fold: through reduction_ptr, which is NULL until a run of the kernel has
\* set it; writing through that is undefined and left out.
RunReduced(s, a) ==
  /\ Launching(s, a)
  /\ GridAfter(s, a) # None
  /\ Of(s, "red") # {} /\ ResultAfter(s, a) # None
  /\ queue' = <<>>
  /\ scratch' = ScratchSynced(s, a)
  /\ call' = Call(LaunchOf(s, a), ResultArg(s, a), ResultAfter(s, a), scratch')

\* The copy of the partial results fails: the result is not written.
RunWithoutCopy(s, a) ==
  /\ Launching(s, a)
  /\ GridAfter(s, a) # None
  /\ Of(s, "red") # {} /\ "copy" \in Faults
  /\ queue' = <<>>
  /\ scratch' = ScratchSynced(s, a)
  /\ call' = Call(LaunchOf(s, a), None, None, None)

Run(s, a) ==
  \/ RunUnmapped(s, a) \/ RunWithoutGrid(s, a) \/ RunWithoutLaunch(s, a)
  \/ RunLaunched(s, a) \/ RunReduced(s, a) \/ RunWithoutCopy(s, a)

(***************************************************************************)
(* The device, and nomp_sync().                                            *)
(***************************************************************************)
DeviceFinishes ==
  /\ queue # <<>>
  /\ queue' = Tail(queue)
  /\ scratch' = PartialsAfter(<<Head(queue)>>)
  /\ call' = Idle
  /\ UNCHANGED <<library, mapped, ids, client>>

Sync ==
  /\ Serves
  /\ queue' = <<>>
  /\ scratch' = PartialsAfter(queue)
  /\ call' = Idle
  /\ UNCHANGED <<library, mapped, ids, client>>

(***************************************************************************)
(* What NompMem models in full: an array or a variable becomes mapped, or  *)
(* is no longer.                                                           *)
(***************************************************************************)
MapOrUnmap(p) ==
  /\ Serves
  /\ mapped' = IF p \in mapped THEN mapped \ {p} ELSE mapped \cup {p}
  /\ call' = Idle
  /\ UNCHANGED <<library, queue, scratch, ids, client>>

(***************************************************************************)
(* nomp_init() and nomp_finalize().                                        *)
(***************************************************************************)
Initialize ==
  /\ ~up
  /\ up' = TRUE
  /\ call' = Idle
  /\ UNCHANGED <<progs, progs_max, device, queue, scratch, mapped, ids, client>>

Loaded == {i \in DOMAIN progs : progs[i] # None}
Registered == {progs[i].bptr : i \in Loaded}

\* Broken: forgets the last program.
UnloadedButLast == {progs[i].bptr : i \in Loaded \ {Len(progs)}}

Unloaded == Registered

\* The client starts anew at every site, or can only finalize again.
Leaves(state) ==
  /\ ids' = [s \in Sites |-> None]
  /\ client' = [s \in Sites |-> state]
  /\ call' = Idle

\* Freeing device memory waits for the launches that are pending.
FreesMemory ==
  /\ mapped' = {}
  /\ queue' = <<>> /\ scratch' = None

UnloadsAll ==
  /\ device' = device \ Unloaded
  /\ progs' = <<>> /\ progs_max' = 0

Finalize ==
  /\ up
  /\ up' = FALSE
  /\ FreesMemory
  /\ UnloadsAll
  /\ Leaves("new")

\* Broken: keeps the slots of programs that were unloaded.
SlotsKept(n) == progs

\* The programs when those before slot n were unloaded.
SlotsFrom(n) == [i \in DOMAIN progs |-> IF i < n THEN None ELSE progs[i]]

\* nomp_finalize() returns an error: at a buffer, at the program in slot n, or
\* from the interpreter or the backend.  libnomp stays initialized, and what the
\* client may do is to call it again (not on OpenCL, where freeing the scratch
\* buffer twice is undefined).
FinalizeStopsAtMemory ==
  /\ mapped' \in SUBSET mapped
  /\ UNCHANGED <<progs, progs_max, device, queue, scratch>>

FinalizeStopsAtProgram(n) ==
  /\ progs[n] # None
  /\ FreesMemory
  /\ device' = device \ {progs[i].bptr : i \in {i \in Loaded : i < n}}
  /\ progs' = SlotsFrom(n)
  /\ UNCHANGED progs_max

FinalizeStops ==
  /\ up /\ "finalize" \in Faults
  /\ \/ FinalizeStopsAtMemory
     \/ \E n \in DOMAIN progs : FinalizeStopsAtProgram(n)
     \/ FreesMemory /\ UnloadsAll
  /\ Leaves("stopped")
  /\ UNCHANGED up

(***************************************************************************)
(* The specification.                                                      *)
(***************************************************************************)
Init ==
  /\ up = FALSE
  /\ progs = <<>> /\ progs_max = 0
  /\ device = {}
  /\ queue = <<>> /\ scratch = None
  /\ mapped = {}
  /\ ids = [s \in Sites |-> None]
  /\ client = [s \in Sites |-> "new"]
  /\ call = Idle

Next ==
  \/ Initialize \/ Finalize \/ FinalizeStops \/ Sync \/ DeviceFinishes
  \/ \E p \in Ptrs \cup Results : MapOrUnmap(p)
  \/ \E s \in Sites :
       \/ Jit(s) \/ JitFails(s) \/ JitLosesProgram(s) \/ JitAgain(s)
       \/ \E a \in Actuals[s] : Run(s, a)

Spec == Init /\ [][Next]_vars

(***************************************************************************)
(* Safety.                                                                 *)
(***************************************************************************)
Programs ==
  UNION {[site : {s}, bptr : Handles, map : IntMap(s), grid : Grid(s),
          rptr : Results \cup {None}] : s \in Sites}

ASSUME NoneAssumption == None \notin Programs \cup Launches

TypeOK ==
  /\ up \in BOOLEAN
  /\ progs \in Seq(Programs \cup {None})
  /\ progs_max \in Nat
  /\ device \subseteq Handles
  /\ queue \in Seq(Launches)
  /\ scratch \in Launches \cup {None}
  /\ mapped \subseteq Ptrs \cup Results
  /\ ids \in [Sites -> Nat \cup {None}]
  /\ client \in [Sites -> {"new", "ready", "failed", "stopped"}]
  /\ call \in [launch : Launches \cup {None}, arg : Results \cup {None},
               out : Results \cup {None}, value : Launches \cup {None}]

\* "These grid sizes will be evaluated each time the kernel is run", and
\* "re-evaluated if the input changes": what is launched has the grid of the
\* integers it was called with, whatever ran, failed or was retried before.
GridOfThisRun == call.launch # None => call.launch.grid = call.launch.ints

\* nomp_jit() gives "Id of the generated kernel": once it has returned 0 at a
\* site, the id kept there names the kernel of that site, not one of another
\* site or of an earlier session.
IdsNameTheirKernel ==
  \A s \in Sites : client[s] \in {"ready", "failed"} =>
    /\ NamesProgram(s)
    /\ Prog(s).site = s

\* A reduction writes the fold of the partial results of its own launch to the
\* variable of its own call, however many launches were pending and whatever
\* was mapped before, if that variable is not mapped; and a call that does not
\* complete a reduction writes to no variable.
ReductionsReachTheirCaller ==
  /\ call.arg = None <=> call.out = None
  /\ call.arg \notin mapped \cup {None} =>
       call.out = call.arg /\ call.value = call.launch

\* Each registered program is loaded, is registered once, and is inside what
\* was allocated: nomp_finalize() unloads each of them exactly once, however
\* often it had to be called.
ProgramsOwnedOnce ==
  /\ Registered \subseteq device
  /\ \A i, j \in Loaded : i # j => progs[i].bptr # progs[j].bptr
  /\ Len(progs) <= progs_max

\* A program is lost only by a nomp_jit() that fails after building it.
LosesOnlyFailedBuilds ==
  \/ device' \ Registered' \subseteq device \ Registered
  \/ \E s \in Sites : JitLosesProgram(s)

ProgramsLostOnlyByJit == [][LosesOnlyFailedBuilds]_vars

\* An id means the same kernel from nomp_jit() to nomp_finalize(), whichever
\* builds and runs, of this and of other sites, succeed or fail in between.
KeepsPrograms ==
  \A s \in Sites : ids[s] # None /\ ids'[s] # None =>
    /\ ids'[s] = ids[s]
    /\ NamesProgram(s)'
    /\ Prog(s)'.site = Prog(s).site
    /\ Prog(s)'.bptr = Prog(s).bptr

ProgramsStable == [][KeepsPrograms]_vars

\* nomp_jit() and nomp_run() do what they promise: see Kernels.  A launch is
\* asked to compute with the integers of the call and computes with its grid,
\* and a fold into a variable that is mapped answers nobody.
Tasks == UNION {[site : {s}, ints : [Of(s, "int") -> Ints]] : s \in Sites}
TaskOf(t) == [site |-> t.site, ints |-> t.grid]

Reducing == {s \in Sites : Of(s, "red") # {}}
Built == {s \in Sites : ids[s] # None}
Due == [i \in DOMAIN queue |-> TaskOf(queue[i])]
Answers == call.arg \notin mapped \cup {None}
Asked == IF call.launch = None THEN None
         ELSE [task |-> [site |-> call.launch.site, ints |-> call.launch.ints],
               to |-> IF Answers THEN call.arg ELSE None]
Reply == IF Answers THEN [task |-> TaskOf(call.value), to |-> call.out]
         ELSE None

Promised == INSTANCE Kernels
            WITH built <- Built, due <- Due, asked <- Asked, reply <- Reply
KeepsPromises == Promised!Spec
=============================================================================

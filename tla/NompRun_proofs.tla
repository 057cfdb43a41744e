--------------------------- MODULE NompRun_proofs ---------------------------
(***************************************************************************)
(* What holds of kernels for every set of call sites, arguments, values,   *)
(* failing calls and length of the queue.                                  *)
(***************************************************************************)
EXTENDS NompRun, SequenceTheorems, TLAPS

(***************************************************************************)
(* The inductive invariant.                                                *)
(***************************************************************************)
\* The id kept at site s names the program of that site.
NamesItsKernel(s) == NamesProgram(s) /\ Prog(s).site = s

\* Not only ids of kernels that were asked for again: all of them.
Used(s) == client[s] \in {"ready", "failed"} \/ ids[s] # None
IdsNameKernels == \A s \in Sites : Used(s) => NamesItsKernel(s)

IInv == TypeOK /\ IdsNameKernels /\ ProgramsOwnedOnce /\ ReductionsReachTheirCaller

\* What a program may look like.
IsProgram(p) ==
  /\ p.site \in Sites
  /\ p \in [site : {p.site}, bptr : Handles, map : IntMap(p.site), grid : Grid(p.site),
            rptr : Results \cup {None}]

(***************************************************************************)
(* Sets of programs, launches and actuals.                                 *)
(***************************************************************************)
LEMMA ProgramsAre ==
  ASSUME NEW p
  PROVE  p \in Programs <=> IsProgram(p)
<1>1. ASSUME p \in Programs PROVE IsProgram(p)
  <2>1. PICK s \in Sites : p \in [site : {s}, bptr : Handles, map : IntMap(s),
                                  grid : Grid(s), rptr : Results \cup {None}]
    BY <1>1 DEF Programs
  <2>2. p.site = s
    BY <2>1
  <2> QED BY <2>1, <2>2 DEF IsProgram
<1>2. ASSUME IsProgram(p) PROVE p \in Programs
  BY <1>2 DEF IsProgram, Programs
<1> QED BY <1>1, <1>2

\* Actuals have the kinds of the arguments they are for.
LEMMA ActualsAre ==
  ASSUME NEW s \in Sites, NEW a \in Actuals[s]
  PROVE  /\ \A i \in Of(s, "int") : a[i] \in Ints
         /\ \A i \in Of(s, "red") : a[i] \in Results
         /\ IntsOf(s, a) \in [Of(s, "int") -> Ints]
BY DEF Actuals, Fits, Of, IntsOf

\* A run leaves an integer map of its kernel: with its own integers if all
\* arguments were processed.
LEMMA MapAfterOK ==
  ASSUME NEW s \in Sites, NEW a \in Actuals[s], Prog(s).map \in IntMap(s)
  PROVE  /\ MapAfter(s, a) \in IntMap(s)
         /\ Processed(s, a) = DOMAIN Args[s] => MapAfter(s, a) = IntsOf(s, a)
         /\ ~IntsChanged(s, a) => MapAfter(s, a) = Prog(s).map
<1>1. \A i \in Of(s, "int") : a[i] \in Ints
  BY ActualsAre
<1>2. Of(s, "int") \subseteq DOMAIN Args[s]
  BY DEF Of
<1> QED BY <1>1, <1>2 DEF MapAfter, IntMap, IntsOf, IntsChanged

LEMMA ResultAfterOK ==
  ASSUME NEW s \in Sites, NEW a \in Actuals[s], Prog(s).rptr \in Results \cup {None}
  PROVE  /\ ResultAfter(s, a) \in Results \cup {None}
         /\ Of(s, "red") # {} => ResultArg(s, a) \in Results
         /\ Processed(s, a) = DOMAIN Args[s] /\ Of(s, "red") # {} /\ ResultArg(s, a) \notin mapped
              => ResultAfter(s, a) = ResultArg(s, a)
<1>1. \A i \in Of(s, "red") : a[i] \in Results
  BY ActualsAre
<1>2. Of(s, "red") \subseteq DOMAIN Args[s]
  BY DEF Of
<1>3. Of(s, "red") # {} => ResultArg(s, a) \in Results
  BY <1>1 DEF ResultArg
<1> QED BY <1>2, <1>3 DEF ResultAfter

\* The partial results are those of a launch, and of the last reduction.
LEMMA PartialsAfterOK ==
  ASSUME NEW q \in Seq(Launches), scratch \in Launches \cup {None}
  PROVE  PartialsAfter(q) \in Launches \cup {None}
BY DEF PartialsAfter

LEMMA LastPartials ==
  ASSUME NEW q \in Seq(Launches), NEW l \in Launches, l.scratch
  PROVE  PartialsAfter(Append(q, l)) = l
<1> DEFINE r == Append(q, l)
<1> DEFINE last == {i \in DOMAIN r : /\ r[i].scratch
                                     /\ \A j \in DOMAIN r : r[j].scratch => j <= i}
<1>1. DOMAIN r = 1 .. Len(q) + 1 /\ r[Len(q) + 1] = l /\ Len(q) \in Nat
  OBVIOUS
<1>2. Len(q) + 1 \in last
  BY <1>1
<1>3. \A i \in last : i = Len(q) + 1
  BY <1>1, <1>2
<1>4. (CHOOSE i \in last : TRUE) = Len(q) + 1
  BY <1>2, <1>3
<1> QED BY <1>1, <1>2, <1>4 DEF PartialsAfter

LEMMA LaunchOfOK ==
  ASSUME NEW s \in Sites, NEW a \in Actuals[s], Prog(s).map \in IntMap(s),
         Prog(s).grid \in Grid(s), Prog(s).site = s
  PROVE  /\ LaunchOf(s, a) \in Launches
         /\ GridAfter(s, a) \in Grid(s)
         /\ LaunchOf(s, a).site = s
         /\ LaunchOf(s, a).ints = IntsOf(s, a)
         /\ LaunchOf(s, a).grid = GridAfter(s, a)
         /\ LaunchOf(s, a).scratch <=> Of(s, "red") # {} /\ ResultArg(s, a) \notin mapped
<1>1. GridAfter(s, a) \in Grid(s)
  BY MapAfterOK DEF GridAfter, Grid
<1>2. IntsOf(s, a) \in [Of(s, "int") -> Ints]
  BY ActualsAre
<1>3. LaunchOf(s, a) \in [site : {s}, ints : [Of(s, "int") -> Ints], grid : Grid(s),
                         scratch : BOOLEAN]
  BY <1>1, <1>2 DEF LaunchOf
<1>4. LaunchOf(s, a) \in Launches
  BY <1>3 DEF Launches
<1> QED BY <1>1, <1>4 DEF LaunchOf

(***************************************************************************)
(* What keeps each part of the invariant.                                  *)
(***************************************************************************)
\* Slots as a step keeps them: the same programs, or none.
KeepsSlots ==
  /\ progs' \in Seq(Programs \cup {None})
  /\ Len(progs') = Len(progs) /\ DOMAIN progs' = DOMAIN progs
  /\ Loaded' = Loaded
  /\ \A i \in Loaded : progs'[i].site = progs[i].site /\ progs'[i].bptr = progs[i].bptr

\* The program of a kernel that is used has the integers and grid of its site.
LEMMA ProgOK ==
  ASSUME IInv, NEW s \in Sites, Used(s)
  PROVE  /\ ids[s] + 1 \in Loaded /\ ids[s] \in Nat /\ ids[s] # None
         /\ Prog(s) \in [site : {s}, bptr : Handles, map : IntMap(s), grid : Grid(s),
                        rptr : Results \cup {None}]
<1>1. NamesProgram(s) /\ Prog(s).site = s
  BY DEF IInv, IdsNameKernels, NamesItsKernel
<1>2. progs \in Seq(Programs \cup {None}) /\ ids[s] \in Nat \cup {None}
  BY DEF IInv, TypeOK
<1>3. Prog(s) \in Programs /\ ids[s] + 1 \in Loaded /\ ids[s] \in Nat /\ ids[s] # None
  BY <1>1, <1>2 DEF NamesProgram, Prog, Loaded
<1> QED BY <1>1, <1>3, ProgramsAre DEF IsProgram

\* progs as a run of the kernel at s leaves it.
LEMMA ProgsAfterRun ==
  ASSUME IInv, NEW s \in Sites, NEW a \in Actuals[s], Runs(s),
         NEW g \in Grid(s), progs' = ProgsWith(s, a, g)
  PROVE  /\ KeepsSlots
         /\ progs'[ids[s] + 1] = ProgWith(s, a, g)
         /\ \A i \in DOMAIN progs : i # ids[s] + 1 => progs'[i] = progs[i]
<1>1. progs \in Seq(Programs \cup {None}) /\ ids[s] + 1 \in Loaded /\ Loaded \subseteq DOMAIN progs
  BY ProgOK DEF IInv, TypeOK, Runs, Used, Loaded
<1>3. Prog(s) \in [site : {s}, bptr : Handles, map : IntMap(s), grid : Grid(s),
                   rptr : Results \cup {None}]
  BY ProgOK DEF Runs, Used
<1>4. MapAfter(s, a) \in IntMap(s) /\ ResultAfter(s, a) \in Results \cup {None}
  BY <1>3, MapAfterOK, ResultAfterOK
<1>5. /\ ProgWith(s, a, g) \in [site : {s}, bptr : Handles, map : IntMap(s), grid : Grid(s),
                                rptr : Results \cup {None}]
      /\ ProgWith(s, a, g).bptr = Prog(s).bptr
      /\ ProgWith(s, a, g).site = s
  BY <1>3, <1>4 DEF ProgWith
<1>6. ProgWith(s, a, g) \in Programs
  BY <1>5, ProgramsAre DEF IsProgram
<1>7. /\ progs' = [progs EXCEPT ![ids[s] + 1] = ProgWith(s, a, g)]
      /\ progs' \in Seq(Programs \cup {None})
      /\ Len(progs') = Len(progs)
      /\ DOMAIN progs' = DOMAIN progs
      /\ progs'[ids[s] + 1] = ProgWith(s, a, g)
      /\ \A i \in DOMAIN progs : i # ids[s] + 1 => progs'[i] = progs[i]
  BY <1>1, <1>6 DEF ProgsWith
<1>8. \A i \in Loaded : progs'[i].site = progs[i].site /\ progs'[i].bptr = progs[i].bptr
  BY <1>1, <1>3, <1>5, <1>7 DEF Prog
<1>9. progs'[ids[s] + 1] # None
  BY <1>6, <1>7, NoneAssumption
<1>10. Loaded' = Loaded
  BY <1>1, <1>7, <1>9 DEF Loaded
<1> QED BY <1>7, <1>8, <1>10 DEF KeepsSlots

\* Ids stay those of their kernels if programs keep their places and sites.
LEMMA IdsKept ==
  ASSUME IInv, UNCHANGED ids, KeepsSlots, \A s \in Sites : Used(s)' => Used(s)
  PROVE  IdsNameKernels'
<1> SUFFICES ASSUME NEW s \in Sites, Used(s) PROVE NamesItsKernel(s)'
  BY DEF IdsNameKernels
<1>1. ids[s] + 1 \in Loaded /\ Prog(s).site = s /\ ids[s] # None
  BY ProgOK DEF IInv, IdsNameKernels, NamesItsKernel
<1> QED BY <1>1 DEF KeepsSlots, NamesItsKernel, NamesProgram, Prog, Loaded

LEMMA SlotsUnchanged ==
  ASSUME IInv, UNCHANGED progs
  PROVE  KeepsSlots
BY DEF IInv, TypeOK, KeepsSlots, Loaded

LEMMA OwnershipKept ==
  ASSUME IInv, UNCHANGED <<device, progs_max>>, KeepsSlots
  PROVE  ProgramsOwnedOnce' /\ Registered' = Registered
<1>1. Registered' = Registered
  BY DEF KeepsSlots, Registered
<1> QED BY <1>1 DEF IInv, ProgramsOwnedOnce, KeepsSlots

(***************************************************************************)
(* Each action preserves it.                                               *)
(***************************************************************************)
\* The initial state satisfies the invariant.
LEMMA InitInv == Init => IInv
<1> SUFFICES ASSUME Init PROVE IInv
  OBVIOUS
<1>1. /\ progs \in Seq(Programs \cup {None}) /\ queue \in Seq(Launches)
      /\ Len(progs) = 0 /\ Loaded = {}
  BY DEF Init, Loaded
<1>2. TypeOK
  BY <1>1 DEF Init, TypeOK, Idle, Call
<1>3. IdsNameKernels
  BY DEF Init, IdsNameKernels, Used
<1>4. ProgramsOwnedOnce
  BY <1>1 DEF Init, ProgramsOwnedOnce, Registered
<1>5. ReductionsReachTheirCaller
  BY DEF Init, ReductionsReachTheirCaller, Idle, Call
<1> QED BY <1>2, <1>3, <1>4, <1>5 DEF IInv

\* What a call leaves that did not run a kernel.
LEMMA IdleCall ==
  ASSUME call' = Idle
  PROVE  /\ call' \in [launch : Launches \cup {None}, arg : Results \cup {None},
                        out : Results \cup {None}, value : Launches \cup {None}]
         /\ ReductionsReachTheirCaller'
BY DEF Idle, Call, ReductionsReachTheirCaller

LEMMA SlotsFit ==
  ASSUME TypeOK, Len(progs) <= progs_max
  PROVE  Slots \in Nat /\ progs_max <= Slots /\ Len(progs) + 1 <= Slots
<1>1. progs_max \in Nat /\ Len(progs) \in Nat /\ progs_max \div 2 \in Nat
  BY DEF TypeOK
<1> QED BY <1>1 DEF Slots

\* A new program is well typed, has a handle of its own, and comes last.
LEMMA JitInv ==
  ASSUME IInv, NEW s \in Sites, Jit(s)
  PROVE  IInv'
<1>1. PICK h \in Fresh : device' = device \cup {h} /\ progs' = Append(progs, NewProg(s, h))
  BY DEF Jit
<1>2. /\ progs_max' = Slots /\ call' = Idle
      /\ ids' = [ids EXCEPT ![s] = Len(progs)]
      /\ client' = [client EXCEPT ![s] = "ready"]
      /\ UNCHANGED <<up, queue, scratch, mapped>>
  BY DEF Jit, Builds
<1>3. NewProg(s, h) \in Programs /\ NewProg(s, h).site = s /\ NewProg(s, h).bptr = h
  <2>1. NewProg(s, h) \in [site : {s}, bptr : Handles, map : IntMap(s), grid : Grid(s),
                          rptr : Results \cup {None}]
    BY <1>1 DEF NewProg, Fresh, IntMap, Grid
  <2>2. NewProg(s, h).site = s /\ NewProg(s, h).bptr = h
    BY DEF NewProg
  <2> QED BY <2>1, <2>2, ProgramsAre DEF IsProgram
<1>4. progs \in Seq(Programs \cup {None})
  BY DEF IInv, TypeOK
<1>5. /\ progs' \in Seq(Programs \cup {None})
      /\ Len(progs') = Len(progs) + 1
      /\ DOMAIN progs' = DOMAIN progs \cup {Len(progs) + 1}
      /\ \A i \in DOMAIN progs : i # Len(progs) + 1 /\ progs'[i] = progs[i]
      /\ progs'[Len(progs) + 1] = NewProg(s, h)
  BY <1>1, <1>3, <1>4
<1>6. TypeOK'
  <2>1. Slots \in Nat
    BY SlotsFit DEF IInv, ProgramsOwnedOnce
  <2>2. call' \in [launch : Launches \cup {None}, arg : Results \cup {None},
                   out : Results \cup {None}, value : Launches \cup {None}]
    BY <1>2, IdleCall
  <2>3. device' \subseteq Handles
    BY <1>1 DEF Fresh, IInv, TypeOK
  <2>4. ids' \in [Sites -> Nat \cup {None}]
    BY <1>2, <1>4 DEF IInv, TypeOK
  <2> QED BY <1>2, <1>5, <2>1, <2>2, <2>3, <2>4 DEF IInv, TypeOK
<1>7. IdsNameKernels'
  <2>1. ids'[s] = Len(progs) /\ \A t \in Sites : t # s => ids'[t] = ids[t] /\ client'[t] = client[t]
    BY <1>2 DEF IInv, TypeOK
  <2>2. NamesItsKernel(s)'
    BY <1>3, <1>4, <1>5, <2>1, NoneAssumption, NompRunAssumption
       DEF NamesItsKernel, NamesProgram, Prog
  <2>3. ASSUME NEW t \in Sites, t # s, Used(t)'
        PROVE  NamesItsKernel(t)'
    <3>1. Used(t)
      BY <2>1, <2>3 DEF Used
    <3> QED BY <1>5, <2>1, <2>3, <3>1 DEF IInv, IdsNameKernels, NamesItsKernel, NamesProgram, Prog
  <2> QED BY <2>1, <2>2, <2>3 DEF IdsNameKernels
<1>8. ProgramsOwnedOnce'
  <2>1. h \notin device /\ Registered \subseteq device
    BY <1>1 DEF Fresh, IInv, ProgramsOwnedOnce
  <2>2. Loaded' = Loaded \cup {Len(progs) + 1} /\ \A i \in Loaded : progs'[i] = progs[i]
    BY <1>3, <1>5, NoneAssumption DEF Loaded
  <2>3. Registered' = Registered \cup {h} /\ \A i \in Loaded : progs[i].bptr \in Registered
    BY <1>3, <1>5, <2>2 DEF Registered
  <2>4. \A i, j \in Loaded' : i # j => progs'[i].bptr # progs'[j].bptr
    BY <1>3, <1>5, <2>1, <2>2, <2>3 DEF IInv, ProgramsOwnedOnce
  <2>5. Len(progs') <= progs_max'
    BY <1>2, <1>5, SlotsFit DEF IInv, ProgramsOwnedOnce
  <2> QED BY <1>1, <2>1, <2>3, <2>4, <2>5 DEF ProgramsOwnedOnce
<1>9. ReductionsReachTheirCaller'
  BY <1>2, IdleCall
<1> QED BY <1>6, <1>7, <1>8, <1>9 DEF IInv

\* A build that fails leaves the programs, and room for one more.
LEMMA FailedBuildInv ==
  ASSUME IInv, NEW s \in Sites, Builds(s), UNCHANGED <<progs, ids, client>>,
         device \subseteq device', device' \subseteq Handles
  PROVE  IInv'
<1>1. progs_max' = Slots /\ call' = Idle /\ UNCHANGED <<up, queue, scratch, mapped>>
  BY DEF Builds
<1>2. Slots \in Nat /\ Len(progs) <= Slots
  BY SlotsFit DEF IInv, ProgramsOwnedOnce, TypeOK
<1>3. TypeOK'
  BY <1>1, <1>2, IdleCall DEF IInv, TypeOK
<1>4. IdsNameKernels'
  BY IdsKept, SlotsUnchanged DEF Used
<1>5. ProgramsOwnedOnce'
  BY <1>1, <1>2 DEF IInv, ProgramsOwnedOnce, Registered, Loaded
<1> QED BY <1>1, <1>3, <1>4, <1>5, IdleCall DEF IInv

\* A call that built nothing: ids, programs and queue are as they were.
LEMMA QuietInv ==
  ASSUME IInv, UNCHANGED <<up, progs, progs_max, device, ids>>,
         queue' \in Seq(Launches), scratch' \in Launches \cup {None},
         mapped' \subseteq Ptrs \cup Results,
         client' \in [Sites -> {"new", "ready", "failed", "stopped"}],
         \A s \in Sites : Used(s)' => Used(s),
         call' = Idle \/ UNCHANGED <<call, mapped>>
  PROVE  IInv'
<1>1. TypeOK'
  BY IdleCall DEF IInv, TypeOK
<1>2. IdsNameKernels'
  BY IdsKept, SlotsUnchanged
<1>3. ProgramsOwnedOnce'
  BY OwnershipKept, SlotsUnchanged
<1>4. ReductionsReachTheirCaller'
  BY IdleCall DEF IInv, ReductionsReachTheirCaller
<1> QED BY <1>1, <1>2, <1>3, <1>4 DEF IInv

\* A run changes its own program only, and the site it gave up on.
LEMMA RunInv ==
  ASSUME IInv, NEW s \in Sites, NEW a \in Actuals[s], Runs(s),
         NEW g \in Grid(s), progs' = ProgsWith(s, a, g),
         UNCHANGED <<up, progs_max, device, mapped, ids>>,
         client' = client \/ client' = [client EXCEPT ![s] = "failed"],
         queue' \in Seq(Launches), scratch' \in Launches \cup {None},
         call' \in [launch : Launches \cup {None}, arg : Results \cup {None},
                   out : Results \cup {None}, value : Launches \cup {None}],
         ReductionsReachTheirCaller'
  PROVE  IInv'
<1>1. client' \in [Sites -> {"new", "ready", "failed", "stopped"}]
  BY DEF IInv, TypeOK
<1>2. KeepsSlots
  BY ProgsAfterRun
<1>3. TypeOK'
  BY <1>1, <1>2 DEF IInv, TypeOK, KeepsSlots
<1>4. \A t \in Sites : Used(t)' => Used(t)
  BY DEF IInv, TypeOK, Runs, Used
<1>5. IdsNameKernels' /\ ProgramsOwnedOnce'
  BY <1>2, <1>4, IdsKept, OwnershipKept
<1> QED BY <1>3, <1>5 DEF IInv

LEMMA RunActionInv ==
  ASSUME IInv, NEW s \in Sites, NEW a \in Actuals[s], Run(s, a)
  PROVE  IInv'
<1> USE DEF ReductionsReachTheirCaller, Call
<1>0. Runs(s)
  BY DEF Run, RunUnmapped, RunWithoutGrid, RunWithoutLaunch, RunLaunched, RunReduced,
         RunWithoutCopy, Launching
<1>1. /\ Prog(s).map \in IntMap(s) /\ Prog(s).grid \in Grid(s)
      /\ Prog(s).rptr \in Results \cup {None} /\ Prog(s).site = s
  BY <1>0, ProgOK DEF Runs, Used
<1>2. /\ LaunchOf(s, a) \in Launches /\ GridAfter(s, a) \in Grid(s)
      /\ Of(s, "red") # {} /\ ResultArg(s, a) \notin mapped => LaunchOf(s, a).scratch
  BY <1>1, LaunchOfOK
<1>3. /\ queue \in Seq(Launches) /\ scratch \in Launches \cup {None}
      /\ Append(queue, LaunchOf(s, a)) \in Seq(Launches) /\ <<>> \in Seq(Launches)
  BY <1>2 DEF IInv, TypeOK
<1>4. /\ ScratchSynced(s, a) \in Launches \cup {None}
      /\ Of(s, "red") # {} /\ ResultArg(s, a) \notin mapped
           => ScratchSynced(s, a) = LaunchOf(s, a)
  BY <1>2, <1>3, LastPartials, PartialsAfterOK DEF ScratchSynced
<1>5. CASE RunUnmapped(s, a)
  <2>1. client' = client \/ client' = [client EXCEPT ![s] = "failed"]
    BY <1>5 DEF RunUnmapped, GivesUpOn
  <2> QED BY <1>0, <1>1, <1>3, <1>5, <2>1, IdleCall, RunInv DEF RunUnmapped
<1>6. CASE RunWithoutGrid(s, a)
  <2>1. client' = client \/ client' = [client EXCEPT ![s] = "failed"]
    BY <1>6 DEF RunWithoutGrid, GivesUpOn
  <2>2. Reset \in Grid(s)
    BY DEF Grid
  <2> QED BY <1>0, <1>3, <1>6, <2>1, <2>2, IdleCall, RunInv DEF RunWithoutGrid
<1>7. CASE RunWithoutLaunch(s, a)
  BY <1>0, <1>2, <1>3, <1>7, RunInv DEF RunWithoutLaunch, Launching
<1>8. CASE RunLaunched(s, a)
  BY <1>0, <1>2, <1>3, <1>8, RunInv DEF RunLaunched, Launching
<1>9. CASE RunReduced(s, a)
  <2>1. /\ Of(s, "red") # {} /\ Processed(s, a) = DOMAIN Args[s]
        /\ ResultAfter(s, a) # None
        /\ call' = Call(LaunchOf(s, a), ResultArg(s, a), ResultAfter(s, a), scratch')
        /\ queue' = <<>> /\ scratch' = ScratchSynced(s, a)
        /\ mapped' = mapped
    BY <1>9 DEF RunReduced, Launching
  <2>2. /\ ResultArg(s, a) \in Results /\ ResultAfter(s, a) \in Results \cup {None}
        /\ ResultArg(s, a) \notin mapped => ResultAfter(s, a) = ResultArg(s, a)
    BY <1>1, <2>1, ResultAfterOK
  <2>3. ResultArg(s, a) # None
    BY <2>2, NompRunAssumption
  <2>4. ReductionsReachTheirCaller'
    BY <1>4, <2>1, <2>2, <2>3
  <2>5. call' \in [launch : Launches \cup {None}, arg : Results \cup {None},
                   out : Results \cup {None}, value : Launches \cup {None}]
    BY <1>2, <1>4, <2>1, <2>2
  <2> QED BY <1>0, <1>2, <1>3, <1>4, <1>9, <2>1, <2>4, <2>5, RunInv DEF RunReduced, Launching
<1>10. CASE RunWithoutCopy(s, a)
  BY <1>0, <1>2, <1>3, <1>4, <1>10, RunInv DEF RunWithoutCopy, Launching
<1> QED BY <1>5, <1>6, <1>7, <1>8, <1>9, <1>10 DEF Run

\* Slots before n are cleared, and their programs unloaded.
LEMMA SlotsFromOK ==
  ASSUME IInv, NEW n \in DOMAIN progs,
         progs' = SlotsFrom(n),
         device' = device \ {progs[i].bptr : i \in {i \in Loaded : i < n}}
  PROVE  /\ progs' \in Seq(Programs \cup {None}) /\ Len(progs') = Len(progs)
         /\ Loaded' = {i \in Loaded : ~ i < n}
         /\ \A i \in Loaded' : progs'[i] = progs[i]
         /\ Registered' \subseteq device' /\ device' \ Registered' \subseteq device \ Registered
<1>1. progs \in Seq(Programs \cup {None})
  BY DEF IInv, TypeOK
<1>2. /\ progs' \in Seq(Programs \cup {None}) /\ Len(progs') = Len(progs)
      /\ DOMAIN progs' = DOMAIN progs
      /\ \A i \in DOMAIN progs : progs'[i] = IF i < n THEN None ELSE progs[i]
  BY <1>1 DEF SlotsFrom
<1>3. /\ Loaded' = {i \in Loaded : ~ i < n} /\ Loaded' \subseteq Loaded
      /\ \A i \in Loaded' : progs'[i] = progs[i]
  BY <1>2 DEF Loaded
<1>4. \A i, j \in Loaded : i # j => progs[i].bptr # progs[j].bptr
  BY DEF IInv, ProgramsOwnedOnce
<1>5. Registered' \subseteq device'
  <2> SUFFICES ASSUME NEW i \in Loaded' PROVE progs[i].bptr \in device'
    BY <1>3 DEF Registered
  <2>1. i \in Loaded /\ ~ i < n
    BY <1>3
  <2>2. progs[i].bptr \in device
    BY <2>1 DEF IInv, ProgramsOwnedOnce, Registered
  <2> QED BY <1>4, <2>1, <2>2
<1>6. device' \ Registered' \subseteq device \ Registered
  <2> SUFFICES ASSUME NEW h \in device', h \in Registered PROVE h \in Registered'
    OBVIOUS
  <2>1. PICK i \in Loaded : h = progs[i].bptr
    BY DEF Registered
  <2>2. i \in Loaded'
    BY <1>3, <2>1
  <2> QED BY <1>3, <2>1, <2>2 DEF Registered
<1> QED BY <1>2, <1>3, <1>5, <1>6

\* All programs are unloaded, and no slot is left.
LEMMA UnloadsAllOK ==
  ASSUME IInv, UnloadsAll
  PROVE  /\ progs' \in Seq(Programs \cup {None}) /\ Len(progs') = 0 /\ progs_max' = 0
         /\ Loaded' = {} /\ Registered' = {} /\ device' = device \ Registered
<1>1. progs' = <<>> /\ progs_max' = 0 /\ device' = device \ Registered
  BY DEF UnloadsAll, Unloaded
<1>2. progs' \in Seq(Programs \cup {None}) /\ Len(progs') = 0 /\ Loaded' = {}
  BY <1>1 DEF Loaded
<1> QED BY <1>1, <1>2 DEF Registered

\* What nomp_finalize() leaves, wherever it stopped.
LEMMA LeavesInv ==
  ASSUME IInv, NEW state \in {"new", "stopped"}, Leaves(state),
         up' \in BOOLEAN, progs_max' \in Nat, progs' \in Seq(Programs \cup {None}),
         device' \subseteq Handles, mapped' \subseteq Ptrs \cup Results,
         queue' \in Seq(Launches), scratch' \in Launches \cup {None},
         ProgramsOwnedOnce'
  PROVE  IInv'
<1>1. /\ ids' = [s \in Sites |-> None] /\ client' = [s \in Sites |-> state]
      /\ call' = Idle
  BY DEF Leaves
<1>2. TypeOK'
  BY <1>1, IdleCall DEF TypeOK
<1>3. IdsNameKernels'
  BY <1>1 DEF IdsNameKernels, Used
<1> QED BY <1>1, <1>2, <1>3, IdleCall DEF IInv

LEMMA FinalizeInv ==
  ASSUME IInv, Finalize \/ FinalizeStops
  PROVE  IInv'
<1>0. /\ up \in BOOLEAN /\ progs_max \in Nat /\ device \subseteq Handles
      /\ progs \in Seq(Programs \cup {None}) /\ mapped \subseteq Ptrs \cup Results
      /\ queue \in Seq(Launches) /\ scratch \in Launches \cup {None}
      /\ <<>> \in Seq(Launches)
  BY DEF IInv, TypeOK
<1>1. ASSUME NEW state \in {"new", "stopped"}, Leaves(state), FreesMemory, UnloadsAll,
             up' \in BOOLEAN
      PROVE  IInv'
  <2>1. ProgramsOwnedOnce'
    BY <1>1, UnloadsAllOK DEF ProgramsOwnedOnce
  <2> QED BY <1>0, <1>1, <2>1, UnloadsAllOK, LeavesInv DEF FreesMemory
<1>2. CASE Finalize
  BY <1>1, <1>2 DEF Finalize
<1>3. ASSUME Leaves("stopped"), UNCHANGED up, FinalizeStopsAtMemory
      PROVE  IInv'
  <2>1. ProgramsOwnedOnce'
    BY <1>3, OwnershipKept, SlotsUnchanged DEF FinalizeStopsAtMemory
  <2> QED BY <1>0, <1>3, <2>1, LeavesInv DEF FinalizeStopsAtMemory
<1>4. ASSUME Leaves("stopped"), UNCHANGED up,
             NEW n \in DOMAIN progs, FinalizeStopsAtProgram(n)
      PROVE  IInv'
  <2>1. /\ progs' = SlotsFrom(n) /\ UNCHANGED progs_max
        /\ device' = device \ {progs[i].bptr : i \in {i \in Loaded : i < n}}
    BY <1>4 DEF FinalizeStopsAtProgram
  <2>2. ProgramsOwnedOnce'
    BY <2>1, SlotsFromOK DEF IInv, ProgramsOwnedOnce
  <2> QED BY <1>0, <1>4, <2>1, <2>2, SlotsFromOK, LeavesInv DEF FinalizeStopsAtProgram, FreesMemory
<1> QED BY <1>0, <1>1, <1>2, <1>3, <1>4 DEF FinalizeStops

\* The device finishes launches, and partial results are those of a launch.
LEMMA PartialsOfQueue ==
  ASSUME TypeOK
  PROVE  /\ PartialsAfter(queue) \in Launches \cup {None}
         /\ queue # <<>> => /\ PartialsAfter(<<Head(queue)>>) \in Launches \cup {None}
                            /\ Tail(queue) \in Seq(Launches)
         /\ <<>> \in Seq(Launches)
<1>1. queue \in Seq(Launches) /\ scratch \in Launches \cup {None}
  BY DEF TypeOK
<1>2. queue # <<>> => /\ Head(queue) \in Launches /\ Tail(queue) \in Seq(Launches)
                      /\ <<Head(queue)>> \in Seq(Launches)
  BY <1>1
<1>3. PartialsAfter(queue) \in Launches \cup {None}
  BY <1>1, PartialsAfterOK
<1>4. queue # <<>> => PartialsAfter(<<Head(queue)>>) \in Launches \cup {None}
  BY <1>1, <1>2, PartialsAfterOK
<1>5. <<>> \in Seq(Launches)
  OBVIOUS
<1> QED BY <1>2, <1>3, <1>4, <1>5

LEMMA NextInv == IInv /\ [Next]_vars => IInv'
<1> SUFFICES ASSUME IInv, [Next]_vars PROVE IInv'
  OBVIOUS
<1>0. /\ queue \in Seq(Launches) /\ scratch \in Launches \cup {None} /\ mapped \subseteq Ptrs \cup Results
      /\ client \in [Sites -> {"new", "ready", "failed", "stopped"}] /\ device \subseteq Handles
      /\ up \in BOOLEAN
  BY DEF IInv, TypeOK
<1>1. CASE UNCHANGED vars
  BY <1>0, <1>1, QuietInv DEF vars, library, Used
<1>2. CASE Initialize
  <2>1. TypeOK'
    BY <1>2, IdleCall DEF IInv, TypeOK, Initialize
  <2>2. IdsNameKernels' /\ ProgramsOwnedOnce'
    BY <1>2, IdsKept, OwnershipKept, SlotsUnchanged DEF Initialize, Used
  <2> QED BY <1>2, <2>1, <2>2, IdleCall DEF IInv, Initialize
<1>3. CASE Finalize \/ FinalizeStops
  BY <1>3, FinalizeInv
<1>4. CASE Sync
  BY <1>0, <1>4, QuietInv, PartialsOfQueue DEF Sync, library, IInv, Used
<1>5. CASE DeviceFinishes
  BY <1>0, <1>5, QuietInv, PartialsOfQueue DEF DeviceFinishes, library, IInv, Used
<1>6. ASSUME NEW p \in Ptrs \cup Results, MapOrUnmap(p) PROVE IInv'
  BY <1>0, <1>6, QuietInv DEF MapOrUnmap, library, Used
<1>7. ASSUME NEW s \in Sites, Jit(s) PROVE IInv'
  BY <1>7, JitInv
<1>8. ASSUME NEW s \in Sites, JitFails(s) PROVE IInv'
  BY <1>0, <1>8, FailedBuildInv DEF JitFails
<1>9. ASSUME NEW s \in Sites, JitLosesProgram(s) PROVE IInv'
  BY <1>0, <1>9, FailedBuildInv DEF JitLosesProgram, Fresh
<1>10. ASSUME NEW s \in Sites, JitAgain(s) PROVE IInv'
  <2>1. client' \in [Sites -> {"new", "ready", "failed", "stopped"}]
    BY <1>0, <1>10 DEF JitAgain
  <2>2. \A t \in Sites : Used(t)' => Used(t)
    BY <1>0, <1>10 DEF JitAgain, Used
  <2> QED BY <1>0, <1>10, <2>1, <2>2, QuietInv DEF JitAgain, library
<1>11. ASSUME NEW s \in Sites, NEW a \in Actuals[s], Run(s, a) PROVE IInv'
  BY <1>11, RunActionInv
<1> QED BY <1>1, <1>2, <1>3, <1>4, <1>5, <1>6, <1>7, <1>8, <1>9, <1>10, <1>11 DEF Next

(***************************************************************************)
(* The theorems.                                                           *)
(***************************************************************************)
\* Types, ids, the ownership of programs and the results of reductions hold
\* together, for every client, also one that retries, and whatever fails.
THEOREM Inductive == Spec => []IInv
BY InitInv, NextInv, PTL DEF Spec

\* Every reachable state is well typed.
THEOREM Typing == Spec => []TypeOK
<1>1. IInv => TypeOK
  BY DEF IInv
<1> QED BY <1>1, Inductive, PTL

\* nomp_jit() gives each site the id of its own kernel, for as long as it is
\* used.
THEOREM Ids == Spec => []IdsNameTheirKernel
<1>1. IInv => IdsNameTheirKernel
  BY DEF IInv, IdsNameKernels, NamesItsKernel, IdsNameTheirKernel, Used
<1> QED BY <1>1, Inductive, PTL

\* Programs are loaded, registered once, and inside what progs has room for.
THEOREM Ownership == Spec => []ProgramsOwnedOnce
<1>1. IInv => ProgramsOwnedOnce
  BY DEF IInv
<1> QED BY <1>1, Inductive, PTL

\* A reduction writes its own result to its own caller's variable, however many
\* launches were pending.
THEOREM Reductions == Spec => []ReductionsReachTheirCaller
<1>1. IInv => ReductionsReachTheirCaller
  BY DEF IInv
<1> QED BY <1>1, Inductive, PTL

(***************************************************************************)
(* Programs that are lost, and programs that are kept.                     *)
(***************************************************************************)
LEMMA ProgramsKept ==
  ASSUME IInv, KeepsSlots, UNCHANGED <<device, progs_max>>, UNCHANGED ids
  PROVE  LosesOnlyFailedBuilds /\ KeepsPrograms
<1>1. Registered' = Registered
  BY OwnershipKept
<1>2. ASSUME NEW s \in Sites, ids[s] # None
      PROVE  NamesProgram(s)' /\ Prog(s)'.site = Prog(s).site /\ Prog(s)'.bptr = Prog(s).bptr
  BY <1>2, ProgOK DEF Used, KeepsSlots, NamesProgram, Prog, Loaded
<1> QED BY <1>1, <1>2 DEF LosesOnlyFailedBuilds, KeepsPrograms

LEMMA NextKeeps ==
  ASSUME IInv, [Next]_vars
  PROVE  LosesOnlyFailedBuilds /\ KeepsPrograms
<1>1. ASSUME UNCHANGED <<progs, device, ids>> PROVE LosesOnlyFailedBuilds /\ KeepsPrograms
  <2>1. KeepsPrograms
    BY <1>1, ProgOK DEF KeepsPrograms, Used, NamesProgram, Prog, Loaded
  <2> QED BY <1>1, <2>1 DEF Registered, Loaded, LosesOnlyFailedBuilds
<1>2. CASE UNCHANGED vars \/ Initialize \/ Sync \/ DeviceFinishes
  BY <1>1, <1>2 DEF vars, library, Initialize, Sync, DeviceFinishes
<1>3. CASE Finalize \/ FinalizeStops
  <2>1. \A s \in Sites : ids'[s] = None
    BY <1>3 DEF Finalize, FinalizeStops, Leaves
  <2>2. KeepsPrograms
    BY <2>1 DEF KeepsPrograms
  <2>3. ASSUME UnloadsAll PROVE LosesOnlyFailedBuilds
    BY <2>3, UnloadsAllOK DEF LosesOnlyFailedBuilds
  <2>4. ASSUME NEW n \in DOMAIN progs, FinalizeStopsAtProgram(n) PROVE LosesOnlyFailedBuilds
    BY <2>4, SlotsFromOK DEF FinalizeStopsAtProgram, LosesOnlyFailedBuilds
  <2>5. ASSUME FinalizeStopsAtMemory PROVE LosesOnlyFailedBuilds
    BY <2>5 DEF FinalizeStopsAtMemory, LosesOnlyFailedBuilds, Registered, Loaded
  <2> QED BY <1>3, <2>2, <2>3, <2>4, <2>5 DEF Finalize, FinalizeStops
<1>4. ASSUME NEW p \in Ptrs \cup Results, MapOrUnmap(p)
      PROVE  LosesOnlyFailedBuilds /\ KeepsPrograms
  BY <1>1, <1>4 DEF MapOrUnmap, library
<1>5. ASSUME NEW s \in Sites, Jit(s) PROVE LosesOnlyFailedBuilds /\ KeepsPrograms
  <2>1. PICK h \in Fresh : device' = device \cup {h} /\ progs' = Append(progs, NewProg(s, h))
    BY <1>5 DEF Jit
  <2>2. progs \in Seq(Programs \cup {None}) /\ ids \in [Sites -> Nat \cup {None}]
    BY DEF IInv, TypeOK
  <2>3. /\ \A i \in DOMAIN progs : i \in DOMAIN progs' /\ progs'[i] = progs[i]
        /\ Len(progs) + 1 \in DOMAIN progs'
        /\ progs'[Len(progs) + 1] = NewProg(s, h)
    BY <2>1, <2>2
  <2>4. IInv'
    BY <1>5, JitInv
  <2>5. ids'[s] = Len(progs) /\ ids[s] = None /\ \A t \in Sites : t # s => ids'[t] = ids[t]
    BY <1>5, <2>2 DEF Jit, Builds
  <2>6. KeepsPrograms
    <3> SUFFICES ASSUME NEW t \in Sites, ids[t] # None
                 PROVE  /\ ids'[t] = ids[t] /\ NamesProgram(t)'
                        /\ Prog(t)'.site = Prog(t).site /\ Prog(t)'.bptr = Prog(t).bptr
      BY DEF KeepsPrograms
    <3>1. ids'[t] = ids[t] /\ ids[t] + 1 \in Loaded
      BY <2>5, ProgOK DEF Used
    <3> QED BY <2>3, <3>1 DEF NamesProgram, Prog, Loaded
  <2>7. Len(progs) + 1 \in Loaded'
    <3>1. ids[s]' + 1 \in Loaded'
      <4>1. (Used(s) /\ NamesItsKernel(s))'
        BY <2>4, <1>5, <2>2 DEF Used, IInv, IdsNameKernels, Jit, TypeOK
      <4> QED BY <4>1 DEF NamesItsKernel, NamesProgram, Prog, Loaded
    <3> QED BY <2>5, <3>1
  <2>8. Loaded \subseteq Loaded'
    BY <2>3 DEF Loaded
  <2>9. h \in Registered' /\ Registered \subseteq Registered'
    BY <2>3, <2>7, <2>8 DEF Registered, NewProg, Loaded
  <2> QED BY <2>1, <2>6, <2>9 DEF LosesOnlyFailedBuilds
<1>6. ASSUME NEW s \in Sites, JitFails(s) PROVE LosesOnlyFailedBuilds /\ KeepsPrograms
  BY <1>1, <1>6 DEF JitFails
<1>7. ASSUME NEW s \in Sites, JitLosesProgram(s) PROVE LosesOnlyFailedBuilds /\ KeepsPrograms
  <2>1. KeepsPrograms
    BY <1>7, ProgOK DEF JitLosesProgram, KeepsPrograms, Used, NamesProgram, Prog, Loaded
  <2> QED BY <1>7, <2>1 DEF LosesOnlyFailedBuilds
<1>8. ASSUME NEW s \in Sites, JitAgain(s) PROVE LosesOnlyFailedBuilds /\ KeepsPrograms
  BY <1>1, <1>8 DEF JitAgain, library
<1>9. ASSUME NEW s \in Sites, NEW a \in Actuals[s], Run(s, a)
      PROVE  LosesOnlyFailedBuilds /\ KeepsPrograms
  <2>1. Runs(s) /\ UNCHANGED <<device, progs_max, ids>>
    BY <1>9 DEF Run, RunUnmapped, RunWithoutGrid, RunWithoutLaunch, RunLaunched, RunReduced,
                RunWithoutCopy, Launching
  <2>2. PICK g \in Grid(s) : progs' = ProgsWith(s, a, g)
    <3>1. Prog(s).grid \in Grid(s) /\ GridAfter(s, a) \in Grid(s) /\ Reset \in Grid(s)
      BY <2>1, ProgOK, LaunchOfOK DEF Grid, Runs, Used
    <3> QED BY <1>9, <3>1 DEF Run, RunUnmapped, RunWithoutGrid, RunWithoutLaunch, RunLaunched,
                              RunReduced, RunWithoutCopy, Launching
  <2> QED BY <2>1, <2>2, ProgsAfterRun, ProgramsKept
<1> QED BY <1>2, <1>3, <1>4, <1>5, <1>6, <1>7, <1>8, <1>9 DEF Next

\* Only a nomp_jit() that fails after building a program loses it.
THEOREM ProgramsAreNotLost == Spec => ProgramsLostOnlyByJit
<1>1. IInv /\ [Next]_vars => [LosesOnlyFailedBuilds]_vars
  BY NextKeeps
<1> QED BY <1>1, Inductive, PTL DEF Spec, ProgramsLostOnlyByJit

\* An id means the same kernel until nomp_finalize().
THEOREM StablePrograms == Spec => ProgramsStable
<1>1. IInv /\ [Next]_vars => [KeepsPrograms]_vars
  BY NextKeeps
<1> QED BY <1>1, Inductive, PTL DEF Spec, ProgramsStable

(***************************************************************************)
(* Grids, of clients that do not retry a run that failed halfway.          *)
(***************************************************************************)
\* The grid of a program that may be run is that of its integers, or it has
\* none yet and its next run evaluates one.
GridsOfInts ==
  \A s \in Sites : Used(s) /\ client[s] # "failed" =>
    \/ Prog(s).grid = Prog(s).map
    \/ \A i \in Of(s, "int") : Prog(s).map[i] = None

\* Without integers none is ever evaluated.
ConstantGrids ==
  \A s \in Sites : Used(s) /\ client[s] # "failed" /\ Of(s, "int") = {} => Prog(s).grid = None

LaunchedGrid ==
  call.launch # None =>
    IF Of(call.launch.site, "int") = {} THEN call.launch.grid = None
    ELSE call.launch.grid = call.launch.ints

GInv == GridsOfInts /\ ConstantGrids /\ LaunchedGrid

\* Programs stay as they are, and no site is tried again.
LEMMA GridsKept ==
  ASSUME GInv, UNCHANGED <<progs, ids>>, call' \in {call, Idle},
         \A s \in Sites : (Used(s) /\ client[s] # "failed")' => Used(s) /\ client[s] # "failed"
  PROVE  GInv'
<1>1. GridsOfInts' /\ ConstantGrids'
  BY DEF GInv, GridsOfInts, ConstantGrids, Prog
<1>2. LaunchedGrid'
  BY DEF GInv, LaunchedGrid, Idle, Call
<1> QED BY <1>1, <1>2 DEF GInv

LEMMA JitGrids ==
  ASSUME IInv, GInv, NEW s \in Sites, Jit(s)
  PROVE  GInv'
<1>1. PICK h \in Fresh : progs' = Append(progs, NewProg(s, h))
  BY DEF Jit
<1>2. /\ progs \in Seq(Programs \cup {None}) /\ ids \in [Sites -> Nat \cup {None}]
      /\ client \in [Sites -> {"new", "ready", "failed", "stopped"}]
  BY DEF IInv, TypeOK
<1>3. /\ ids' = [ids EXCEPT ![s] = Len(progs)] /\ client' = [client EXCEPT ![s] = "ready"]
      /\ call' = Idle
  BY DEF Jit, Builds
<1>4. /\ \A i \in DOMAIN progs : progs'[i] = progs[i]
      /\ progs'[Len(progs) + 1] = NewProg(s, h)
  BY <1>1, <1>2
<1>5. ASSUME NEW t \in Sites, t # s, (Used(t) /\ client[t] # "failed")'
      PROVE  /\ (\/ Prog(t).grid = Prog(t).map
                 \/ \A i \in Of(t, "int") : Prog(t).map[i] = None)'
             /\ Of(t, "int") = {} => Prog(t)'.grid = None
  <2>1. ids'[t] = ids[t] /\ client'[t] = client[t]
    BY <1>2, <1>3, <1>5
  <2>2. Used(t) /\ client[t] # "failed"
    BY <1>5, <2>1 DEF Used
  <2>3. Prog(t)' = Prog(t)
    BY <1>4, <2>1, <2>2, ProgOK DEF Prog, Loaded
  <2> QED BY <2>2, <2>3 DEF GInv, GridsOfInts, ConstantGrids
<1>6. (\A i \in Of(s, "int") : Prog(s)'.map[i] = None) /\ Prog(s)'.grid = None
  BY <1>2, <1>3, <1>4 DEF Prog, NewProg
<1>7. GridsOfInts' /\ ConstantGrids'
  BY <1>5, <1>6 DEF GridsOfInts, ConstantGrids
<1> QED BY <1>3, <1>7 DEF GInv, LaunchedGrid, Idle, Call

\* What a run that goes on to a launch has evaluated.
LEMMA GridIsOfInts ==
  ASSUME IInv, GInv, NEW s \in Sites, NEW a \in Actuals[s], Runs(s),
         Processed(s, a) = DOMAIN Args[s]
  PROVE  /\ MapAfter(s, a) = IntsOf(s, a)
         /\ Of(s, "int") # {} => GridAfter(s, a) = MapAfter(s, a)
         /\ Of(s, "int") = {} => /\ MapAfter(s, a) = Prog(s).map
                                /\ GridAfter(s, a) = Prog(s).grid /\ GridAfter(s, a) = None
<1>1. Prog(s).map \in IntMap(s)
  BY ProgOK DEF Runs, Used
<1>2. MapAfter(s, a) = IntsOf(s, a) /\ (~IntsChanged(s, a) => MapAfter(s, a) = Prog(s).map)
  BY <1>1, MapAfterOK
<1>3. CASE Of(s, "int") = {}
  <2>1. ~IntsChanged(s, a)
    BY <1>3 DEF IntsChanged
  <2>2. Prog(s).grid = None
    BY <1>3 DEF GInv, ConstantGrids, Used, Runs
  <2> QED BY <1>2, <1>3, <2>1, <2>2 DEF GridAfter
<1>4. CASE Of(s, "int") # {} /\ IntsChanged(s, a)
  BY <1>2, <1>4 DEF GridAfter
<1>5. CASE Of(s, "int") # {} /\ ~IntsChanged(s, a)
  <2>1. \E i \in Of(s, "int") : IntsOf(s, a)[i] # None
    BY <1>5, ActualsAre, NompRunAssumption DEF IntsOf
  <2>2. Prog(s).grid = Prog(s).map
    BY <1>2, <1>5, <2>1 DEF GInv, GridsOfInts, Used, Runs
  <2> QED BY <1>2, <1>5, <2>2 DEF GridAfter
<1> QED BY <1>3, <1>4, <1>5

LEMMA RunGrids ==
  ASSUME IInv, GInv, NEW s \in Sites, NEW a \in Actuals[s], Run(s, a),
         "retry" \notin Misuse
  PROVE  GInv'
<1>1. Runs(s) /\ UNCHANGED ids
  BY DEF Run, RunUnmapped, RunWithoutGrid, RunWithoutLaunch, RunLaunched, RunReduced,
         RunWithoutCopy, Launching
<1>2. /\ progs \in Seq(Programs \cup {None}) /\ client \in [Sites -> {"new", "ready", "failed", "stopped"}]
      /\ Prog(s).map \in IntMap(s) /\ Prog(s).grid \in Grid(s)
      /\ GridAfter(s, a) \in Grid(s) /\ Prog(s).site = s
  BY <1>1, ProgOK, LaunchOfOK DEF IInv, TypeOK, Runs, Used
<1>3. ASSUME NEW g \in Grid(s), progs' = ProgsWith(s, a, g),
             client' = client \/ client' = [client EXCEPT ![s] = "failed"],
             client'[s] # "failed" =>
               \/ Of(s, "int") # {} /\ g = MapAfter(s, a)
               \/ MapAfter(s, a) = Prog(s).map /\ g = Prog(s).grid
      PROVE  GridsOfInts' /\ ConstantGrids'
  <2>1. ASSUME NEW t \in Sites, t # s, Used(t)', client'[t] # "failed"
        PROVE  /\ (\/ Prog(t).grid = Prog(t).map
                   \/ \A i \in Of(t, "int") : Prog(t).map[i] = None)'
               /\ Of(t, "int") = {} => Prog(t)'.grid = None
    <3>1. client'[t] = client[t]
      BY <1>2, <1>3, <2>1
    <3>2. Used(t) /\ client[t] # "failed"
      BY <1>1, <2>1, <3>1 DEF Used
    <3>3. NamesItsKernel(t) /\ NamesItsKernel(s)
      BY <1>1, <3>2 DEF IInv, IdsNameKernels, Used, Runs
    <3>4. ids[t] + 1 # ids[s] + 1 /\ ids[t] + 1 \in DOMAIN progs
      BY <2>1, <3>3 DEF NamesItsKernel, NamesProgram, Prog
    <3>5. Prog(t)' = Prog(t)
      BY <1>1, <1>3, <3>4, ProgsAfterRun DEF Prog
    <3> QED BY <3>2, <3>5 DEF GInv, GridsOfInts, ConstantGrids
  <2>2. ASSUME client'[s] # "failed"
        PROVE  /\ (\/ Prog(s).grid = Prog(s).map
                   \/ \A i \in Of(s, "int") : Prog(s).map[i] = None)'
               /\ Of(s, "int") = {} => Prog(s)'.grid = None
    <3>1. Prog(s)' = ProgWith(s, a, g)
      BY <1>1, <1>3, ProgsAfterRun DEF Prog
    <3>2. Prog(s) \in [site : {s}, bptr : Handles, map : IntMap(s), grid : Grid(s),
                      rptr : Results \cup {None}]
      BY <1>1, ProgOK DEF Runs, Used
    <3>3. ProgWith(s, a, g).map = MapAfter(s, a) /\ ProgWith(s, a, g).grid = g
      BY <3>2 DEF ProgWith
    <3>4. /\ \/ Prog(s).grid = Prog(s).map
             \/ \A i \in Of(s, "int") : Prog(s).map[i] = None
          /\ Of(s, "int") = {} => Prog(s).grid = None
      BY <1>1 DEF GInv, GridsOfInts, ConstantGrids, Used, Runs
    <3> QED BY <1>3, <2>2, <3>1, <3>3, <3>4
  <2> QED BY <2>1, <2>2 DEF GridsOfInts, ConstantGrids
<1>4. ASSUME Launching(s, a), call'.launch = LaunchOf(s, a)
      PROVE  GInv'
  <2>1. /\ MapAfter(s, a) = IntsOf(s, a)
        /\ Of(s, "int") # {} => GridAfter(s, a) = MapAfter(s, a)
        /\ Of(s, "int") = {} => /\ MapAfter(s, a) = Prog(s).map
                               /\ GridAfter(s, a) = Prog(s).grid /\ GridAfter(s, a) = None
    BY <1>1, <1>4, GridIsOfInts DEF Launching
  <2>2. GridsOfInts' /\ ConstantGrids'
    BY <1>2, <1>3, <1>4, <2>1 DEF Launching
  <2>3. /\ LaunchOf(s, a).ints = IntsOf(s, a) /\ LaunchOf(s, a).grid = GridAfter(s, a)
        /\ LaunchOf(s, a).site = s
    BY <1>2, LaunchOfOK DEF LaunchOf
  <2> QED BY <1>4, <2>1, <2>2, <2>3 DEF GInv, LaunchedGrid
<1>5. CASE RunUnmapped(s, a)
  <2>1. progs' = ProgsWith(s, a, Prog(s).grid) /\ call' = Idle
    BY <1>5 DEF RunUnmapped
  <2>2. CASE Of(s, "int") \cap Processed(s, a) = {}
    <3>1. MapAfter(s, a) = Prog(s).map
      BY <1>2, <2>2 DEF MapAfter, IntMap
    <3>2. UNCHANGED client
      BY <1>5, <2>2 DEF RunUnmapped
    <3> QED BY <1>2, <1>3, <2>1, <3>1, <3>2 DEF GInv, LaunchedGrid, Idle, Call
  <2>3. CASE Of(s, "int") \cap Processed(s, a) # {}
    <3>1. client' = [client EXCEPT ![s] = "failed"]
      BY <1>5, <2>3 DEF RunUnmapped, GivesUpOn
    <3> QED BY <1>2, <1>3, <2>1, <3>1 DEF GInv, LaunchedGrid, Idle, Call
  <2> QED BY <2>2, <2>3
<1>6. CASE RunWithoutGrid(s, a)
  <2>1. client' = [client EXCEPT ![s] = "failed"] /\ Reset \in Grid(s)
    BY <1>6 DEF RunWithoutGrid, GivesUpOn, Grid
  <2> QED BY <1>2, <1>3, <1>6, <2>1 DEF RunWithoutGrid, GInv, LaunchedGrid, Idle, Call
<1>7. CASE RunWithoutLaunch(s, a)
  BY <1>4, <1>7 DEF RunWithoutLaunch, Call
<1>8. CASE RunLaunched(s, a)
  BY <1>4, <1>8 DEF RunLaunched, Call
<1>9. CASE RunReduced(s, a)
  BY <1>4, <1>9 DEF RunReduced, Call
<1>10. CASE RunWithoutCopy(s, a)
  BY <1>4, <1>10 DEF RunWithoutCopy, Call
<1> QED BY <1>5, <1>6, <1>7, <1>8, <1>9, <1>10 DEF Run

LEMMA NextGrids ==
  ASSUME IInv, GInv, [Next]_vars, "retry" \notin Misuse
  PROVE  GInv'
<1>1. CASE UNCHANGED vars \/ Initialize \/ Sync \/ DeviceFinishes
  BY <1>1, GridsKept DEF vars, library, Initialize, Sync, DeviceFinishes, Used
<1>2. CASE Finalize \/ FinalizeStops
  BY <1>2 DEF Finalize, FinalizeStops, Leaves, GInv, GridsOfInts, ConstantGrids, Used, LaunchedGrid, Idle, Call
<1>3. ASSUME NEW p \in Ptrs \cup Results, MapOrUnmap(p) PROVE GInv'
  BY <1>3, GridsKept DEF MapOrUnmap, library, Used
<1>4. ASSUME NEW s \in Sites, Jit(s) PROVE GInv'
  BY <1>4, JitGrids
<1>5. ASSUME NEW s \in Sites, JitFails(s) \/ JitLosesProgram(s) PROVE GInv'
  BY <1>5, GridsKept DEF JitFails, JitLosesProgram, Builds, Used
<1>6. ASSUME NEW s \in Sites, JitAgain(s) PROVE GInv'
  <2>1. client \in [Sites -> {"new", "ready", "failed", "stopped"}]
    BY DEF IInv, TypeOK
  <2> QED BY <1>6, <2>1, GridsKept DEF JitAgain, library, Used
<1>7. ASSUME NEW s \in Sites, NEW a \in Actuals[s], Run(s, a) PROVE GInv'
  BY <1>7, RunGrids
<1> QED BY <1>1, <1>2, <1>3, <1>4, <1>5, <1>6, <1>7 DEF Next

\* Each launch has the grid of its own integers, if the client does not retry a
\* run that failed between reading them and evaluating the grid, and every kernel
\* has an integer argument.  The runs run_retry and run_constant_loop show that
\* neither condition can be left out.
THEOREM Grids ==
  ASSUME "retry" \notin Misuse, \A s \in Sites : Of(s, "int") # {}
  PROVE  Spec => []GridOfThisRun
<1>1. Init => GInv
  BY DEF Init, GInv, GridsOfInts, ConstantGrids, Used, LaunchedGrid, Idle, Call
<1>2. IInv /\ GInv /\ [Next]_vars => GInv'
  BY NextGrids
<1>3. IInv /\ GInv => GridOfThisRun
  <2> SUFFICES ASSUME IInv, LaunchedGrid, call.launch # None
               PROVE  call.launch.grid = call.launch.ints
    BY DEF GInv, GridOfThisRun
  <2>1. call.launch \in Launches
    BY DEF IInv, TypeOK
  <2>2. call.launch.site \in Sites
    BY <2>1 DEF Launches
  <2> QED BY <2>2 DEF LaunchedGrid
<1> QED BY <1>1, <1>2, <1>3, Inductive, PTL DEF Spec

(***************************************************************************)
(* The promises of Kernels, for the same clients.                          *)
(***************************************************************************)
\* Pending launches are tasks that are due.
LEMMA DueAre ==
  ASSUME TypeOK
  PROVE  /\ UNCHANGED queue => UNCHANGED Due
         /\ queue' = <<>> => Due' = <<>>
         /\ queue # <<>> /\ queue' = Tail(queue) => Due # <<>> /\ Due' = Tail(Due)
         /\ \A l \in Launches : queue' = Append(queue, l) => Due' = Append(Due, TaskOf(l))
<1>1. queue \in Seq(Launches) /\ DOMAIN queue = 1 .. Len(queue) /\ Len(queue) \in Nat
  BY DEF TypeOK
<1>2. UNCHANGED queue => UNCHANGED Due
  BY DEF Due
<1>3. queue' = <<>> => Due' = <<>>
  BY DEF Due
<1> DEFINE T == {TaskOf(l) : l \in Launches}
<1>4. Due \in Seq(T) /\ Len(Due) = Len(queue) /\ \A i \in 1 .. Len(queue) : Due[i] = TaskOf(queue[i])
  BY <1>1 DEF Due
<1> HIDE DEF T
<1>5. ASSUME queue # <<>>, queue' = Tail(queue) PROVE Due # <<>> /\ Due' = Tail(Due)
  <2>1. Len(queue) # 0 /\ Due # <<>>
    BY <1>1, <1>4, <1>5
  <2>2. /\ DOMAIN queue' = 1 .. Len(queue) - 1
        /\ \A i \in 1 .. Len(queue) - 1 : queue'[i] = queue[i + 1]
    BY <1>1, <1>5
  <2>3. Tail(Due) \in Seq(T) /\ Len(Tail(Due)) = Len(queue) - 1
    BY <1>1, <1>4, <2>1
  <2>4. \A i \in 1 .. Len(queue) - 1 : Tail(Due)[i] = TaskOf(queue'[i])
    BY <1>1, <1>4, <2>1, <2>2
  <2>5. Due' = [i \in 1 .. Len(queue) - 1 |-> TaskOf(queue'[i])]
    BY <2>2 DEF Due
  <2>6. Due' = [i \in 1 .. Len(queue) - 1 |-> Tail(Due)[i]]
    BY <2>4, <2>5
  <2>7. Due' \in Seq(T) /\ Len(Due') = Len(queue) - 1
    BY <1>1, <2>1, <2>3, <2>6
  <2> QED BY <2>1, <2>3, <2>6, <2>7, SeqEqual
<1>6. ASSUME NEW l \in Launches, queue' = Append(queue, l) PROVE Due' = Append(Due, TaskOf(l))
  <2>1. /\ DOMAIN queue' = 1 .. Len(queue) + 1
        /\ \A i \in 1 .. Len(queue) + 1 :
             queue'[i] = IF i = Len(queue) + 1 THEN l ELSE queue[i]
    BY <1>1, <1>6
  <2>2. TaskOf(l) \in T
    BY DEF T
  <2>3. Append(Due, TaskOf(l)) \in Seq(T) /\ Len(Append(Due, TaskOf(l))) = Len(queue) + 1
    BY <1>1, <1>4, <2>2
  <2>4. \A i \in 1 .. Len(queue) + 1 : Append(Due, TaskOf(l))[i] = TaskOf(queue'[i])
    BY <1>1, <1>4, <2>1, <2>2
  <2>5. Due' = [i \in 1 .. Len(queue) + 1 |-> TaskOf(queue'[i])]
    BY <2>1 DEF Due
  <2>6. Due' = [i \in 1 .. Len(queue) + 1 |-> Append(Due, TaskOf(l))[i]]
    BY <2>4, <2>5
  <2>7. Due' \in Seq(T) /\ Len(Due') = Len(queue) + 1
    BY <1>1, <2>3, <2>6
  <2> QED BY <2>3, <2>6, <2>7, SeqEqual
<1> QED BY <1>2, <1>3, <1>5, <1>6

LEMMA Silence == ASSUME call' = Idle PROVE Promised!Silent
BY DEF Promised!Silent, Asked, Reply, Answers, Idle, Call

\* A call that launches nothing and builds nothing.
LEMMA SilentCall ==
  ASSUME TypeOK, UNCHANGED ids, call' = Idle, UNCHANGED queue \/ queue' = <<>>
  PROVE  Promised!Call
<1>1. UNCHANGED Built
  BY DEF Built
<1>2. Due' \in {Due, <<>>}
  BY DueAre
<1> QED BY <1>1, <1>2, Silence DEF Promised!Call

\* What is launched is asked for at a site that has its kernel, and is that
\* task if there is a grid to launch.
LEMMA LaunchIsTask ==
  ASSUME IInv, GInv, NEW s \in Sites, NEW a \in Actuals[s], Launching(s, a)
  PROVE  LET l == LaunchOf(s, a)
             t == [site |-> s, ints |-> IntsOf(s, a)]
         IN  /\ l \in Launches /\ l.site = s /\ l.ints = IntsOf(s, a)
             /\ t \in Tasks /\ s \in Built
             /\ GridAfter(s, a) # None => TaskOf(l) = t
<1>1. Runs(s) /\ Processed(s, a) = DOMAIN Args[s]
  BY DEF Launching
<1>2. GridAfter(s, a) # None => GridAfter(s, a) = IntsOf(s, a)
  BY <1>1, GridIsOfInts
<1>3. /\ LaunchOf(s, a) \in Launches /\ LaunchOf(s, a).site = s
      /\ LaunchOf(s, a).ints = IntsOf(s, a) /\ LaunchOf(s, a).grid = GridAfter(s, a)
  BY <1>1, ProgOK, LaunchOfOK DEF Runs, Used
<1>4. IntsOf(s, a) \in [Of(s, "int") -> Ints]
  BY ActualsAre
<1>5. [site |-> s, ints |-> IntsOf(s, a)] \in Tasks
  BY <1>4 DEF Tasks
<1>6. s \in Built
  BY <1>1, ProgOK DEF Built, Runs, Used
<1> QED BY <1>2, <1>3, <1>5, <1>6 DEF TaskOf

LEMMA RunPromised ==
  ASSUME IInv, GInv, NEW s \in Sites, NEW a \in Actuals[s], Run(s, a)
  PROVE  Promised!Next
<1>0. TypeOK
  BY DEF IInv
<1>1. CASE RunUnmapped(s, a) \/ RunWithoutGrid(s, a)
  BY <1>0, <1>1, SilentCall DEF RunUnmapped, RunWithoutGrid, Idle, Call, Promised!Next
<1> DEFINE l == LaunchOf(s, a)
<1> DEFINE t == [site |-> s, ints |-> IntsOf(s, a)]
<1>2. ASSUME Launching(s, a), call'.launch = l
      PROVE  /\ t \in Tasks /\ t.site = s /\ t.site \in Built /\ l \in Launches
             /\ GridAfter(s, a) # None => TaskOf(l) = t
             /\ UNCHANGED Built
             /\ ~Answers' => Asked' = [task |-> t, to |-> None] /\ Reply' = None
             /\ Answers' => Asked' = [task |-> t, to |-> call'.arg]
  <2>1. /\ t \in Tasks /\ t.site = s /\ t.site \in Built /\ l \in Launches
        /\ t = [site |-> l.site, ints |-> l.ints]
        /\ GridAfter(s, a) # None => TaskOf(l) = t
    BY <1>2, LaunchIsTask
  <2>2. UNCHANGED Built
    BY <1>2 DEF Launching, Built
  <2>3. l # None
    BY <2>1, NoneAssumption
  <2> QED BY <1>2, <2>1, <2>2, <2>3 DEF Asked, Reply
<1>3. ASSUME Launching(s, a), call'.launch = l, ~Answers', UNCHANGED queue \/ queue' = <<>>
      PROVE  Promised!Next
  <2>1. Due' \in {Due, <<>>}
    BY <1>0, <1>3, DueAre
  <2>2. Promised!Fail(t)
    BY <1>2, <1>3, <2>1 DEF Promised!Fail, Promised!Asks
  <2> QED BY <1>2, <1>3, <2>2 DEF Promised!Next
<1>4. CASE RunWithoutLaunch(s, a) \/ RunWithoutCopy(s, a)
  BY <1>3, <1>4 DEF RunWithoutLaunch, RunWithoutCopy, Answers, Call
<1>5. CASE RunLaunched(s, a)
  <2>1. /\ Launching(s, a) /\ call'.launch = l /\ ~Answers'
        /\ queue' = Append(queue, l) /\ GridAfter(s, a) # None
    BY <1>5 DEF RunLaunched, Answers, Call
  <2>2. Due' = Append(Due, t)
    BY <1>0, <1>2, <2>1, DueAre
  <2>3. Promised!Start(t)
    BY <1>2, <2>1, <2>2 DEF Promised!Start, Promised!Asks
  <2> QED BY <1>2, <2>1, <2>3 DEF Promised!Next
<1>6. CASE RunReduced(s, a)
  <2> DEFINE r == ResultArg(s, a)
  <2>1. /\ queue' = <<>> /\ UNCHANGED mapped /\ Of(s, "red") # {} /\ Launching(s, a)
        /\ GridAfter(s, a) # None
        /\ call' = Call(l, r, ResultAfter(s, a), scratch')
    BY <1>6 DEF RunReduced, Launching
  <2>2. call'.launch = l /\ call'.arg = r
    BY <2>1 DEF Call
  <2>3. r \in Results /\ s \in Reducing
    BY <2>1, ProgOK, ResultAfterOK DEF Launching, Runs, Used, Reducing
  <2>4. CASE ~Answers'
    BY <1>3, <2>1, <2>2, <2>4
  <2>5. CASE Answers'
    <3>1. ReductionsReachTheirCaller'
      BY RunActionInv DEF IInv
    <3>2. call'.out = r /\ call'.value = l
      BY <2>2, <2>5, <3>1 DEF ReductionsReachTheirCaller, Answers
    <3>3. Reply' = [task |-> t, to |-> r]
      BY <1>2, <2>1, <2>2, <2>5, <3>2 DEF Reply
    <3>4. Due' = <<>>
      BY <1>0, <2>1, DueAre
    <3>5. Promised!Reduce(t, r)
      BY <1>2, <2>1, <2>2, <2>3, <2>5, <3>3, <3>4 DEF Promised!Reduce, Promised!Asks
    <3> QED BY <1>2, <2>1, <2>2, <2>3, <3>5 DEF Promised!Next
  <2> QED BY <2>4, <2>5
<1> QED BY <1>1, <1>4, <1>5, <1>6 DEF Run

LEMMA NextPromised ==
  ASSUME IInv, GInv, [Next]_vars
  PROVE  [Promised!Next]_(Promised!vars)
<1>0. TypeOK
  BY DEF IInv
<1>1. CASE UNCHANGED vars
  BY <1>1 DEF vars, library, Promised!vars, Built, Due, Asked, Reply, Answers
<1>2. CASE Initialize \/ Sync
  BY <1>0, <1>2, SilentCall DEF Initialize, Sync, library, Idle, Call, Promised!Next
<1>3. CASE DeviceFinishes
  <2>1. Due # <<>> /\ Due' = Tail(Due) /\ UNCHANGED Built /\ Promised!Silent
    BY <1>0, <1>3, DueAre, Silence DEF DeviceFinishes, Built
  <2> QED BY <2>1 DEF Promised!Next, Promised!Finish
<1>4. CASE Finalize \/ FinalizeStops
  <2>1. /\ \A s \in Sites : ids'[s] = None
        /\ call' = Idle /\ (UNCHANGED queue \/ queue' = <<>>)
    BY <1>4 DEF Finalize, FinalizeStops, FinalizeStopsAtMemory, FinalizeStopsAtProgram,
                FreesMemory, Leaves
  <2>2. Built' = {} /\ Due' \in {Due, <<>>} /\ Promised!Silent
    BY <1>0, <2>1, DueAre, Silence DEF Built
  <2> QED BY <2>2 DEF Promised!Next, Promised!End
<1>5. ASSUME NEW p \in Ptrs \cup Results, MapOrUnmap(p) PROVE Promised!Next
  BY <1>0, <1>5, SilentCall DEF MapOrUnmap, library, Idle, Call, Promised!Next
<1>6. ASSUME NEW s \in Sites, Jit(s) PROVE Promised!Next
  <2>1. /\ UNCHANGED queue /\ call' = Idle /\ ids[s] = None
        /\ ids' = [ids EXCEPT ![s] = Len(progs)]
    BY <1>6 DEF Jit, Builds
  <2>2. Len(progs) \in Nat /\ Len(progs) # None /\ ids \in [Sites -> Nat \cup {None}]
    BY NompRunAssumption DEF IInv, TypeOK
  <2>3. s \notin Built /\ Built' = Built \cup {s} /\ UNCHANGED Due /\ Promised!Silent
    BY <1>0, <2>1, <2>2, DueAre, Silence DEF Built
  <2> QED BY <2>3 DEF Promised!Next, Promised!Build
<1>7. ASSUME NEW s \in Sites, JitFails(s) \/ JitLosesProgram(s) \/ JitAgain(s)
      PROVE  Promised!Next
  BY <1>0, <1>7, SilentCall
     DEF JitFails, JitLosesProgram, JitAgain, Builds, library, Idle, Call, Promised!Next
<1>8. ASSUME NEW s \in Sites, NEW a \in Actuals[s], Run(s, a) PROVE Promised!Next
  BY <1>8, RunPromised
<1> QED BY <1>1, <1>2, <1>3, <1>4, <1>5, <1>6, <1>7, <1>8 DEF Next

\* nomp_jit(), nomp_run() and nomp_sync() do what Kernels promises -- each kernel
\* is built once, each task is done as asked and in the order of the calls, and
\* a result goes to the caller of its task -- to a client that does not retry a
\* run that failed halfway.
THEOREM Promises ==
  ASSUME "retry" \notin Misuse
  PROVE  Spec => KeepsPromises
<1>1. Init => GInv
  BY DEF Init, GInv, GridsOfInts, ConstantGrids, Used, LaunchedGrid, Idle, Call
<1>2. IInv /\ GInv /\ [Next]_vars => GInv'
  BY NextGrids
<1>3. Init => Promised!Init
  BY DEF Init, Promised!Init, Built, Due, Asked, Reply, Answers, Idle, Call
<1>4. IInv /\ GInv /\ [Next]_vars => [Promised!Next]_(Promised!vars)
  BY NextPromised
<1> QED BY <1>1, <1>2, <1>3, <1>4, Inductive, PTL DEF Spec, KeepsPromises, Promised!Spec
=============================================================================

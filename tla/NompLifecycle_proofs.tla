------------------------ MODULE NompLifecycle_proofs ------------------------
(***************************************************************************)
(* Proofs about NompLifecycle, for every set of command lines,             *)
(* environments and contexts, and every way the client misuses libnomp.    *)
(*                                                                         *)
(* What nomp_finalize() leaves depends on what nomp_init() found: that it  *)
(* leaves no device context needs that there was one, which is OneContext. *)
(***************************************************************************)
EXTENDS NompLifecycle, TLAPS

\* Without a nomp_init() that failed there is no context but that of the
\* session.
OneContext == initialized /\ "failed" \notin slips => contexts = {bptr}

IInv == UpMeansReady /\ DownMeansEmpty /\ OneContext

LEMMA InitInv == Init => IInv
BY DEF Init, IInv, UpMeansReady, DownMeansEmpty, OneContext

\* A call that fails acquires something at most, and is remembered.
LEMMA FailedInitInv ==
  ASSUME IInv, ~initialized, UNCHANGED <<initialized, mems, progs, stuck, scratch>>,
         "failed" \in slips'
  PROVE  IInv'
BY DEF IInv, UpMeansReady, DownMeansEmpty, OneContext

LEMMA TryToInitInv ==
  ASSUME IInv, NEW c \in InitCalls, TryToInit(c)
  PROVE  IInv'
<1>1. ASSUME InitRefuses(c) \/ InitWithoutPython(c) PROVE IInv'
  BY <1>1, FailedInitInv DEF InitRefuses, InitWithoutPython, Tries, Fails, device
<1>2. ASSUME InitWithoutScript(c) PROVE IInv'
  BY <1>2, FailedInitInv DEF InitWithoutScript, HasPython, Tries, Fails, device
<1>3. ASSUME InitWithoutBackend(c) \/ InitWithoutScratch(c) PROVE IInv'
  BY <1>3, FailedInitInv
  DEF InitWithoutBackend, InitWithoutScratch, HasBackend, HasScript, HasPython, Tries, Fails
<1>4. ASSUME Initialize(c) PROVE IInv'
  <2>1. ~initialized /\ initialized' /\ python' /\ strings' /\ context' /\ scratch' /\ slips' = slips
    BY <1>4 DEF Initialize, HasBackend, HasScript, HasPython, Tries
  <2>2. bptr' \in contexts' /\ (contexts = {} => contexts' = {bptr'})
    BY <1>4 DEF Initialize, HasBackend
  <2>3. QED
    BY <2>1, <2>2 DEF IInv, UpMeansReady, DownMeansEmpty, OneContext
<1>5. QED
  BY <1>1, <1>2, <1>3, <1>4 DEF TryToInit

\* What nomp_finalize() does before it is done is seen by no one but the client
\* whose call returns an error.
LEMMA StopsInv ==
  ASSUME IInv, initialized, UNCHANGED <<initialized, bptr, contexts>>, stuck',
         "failed" \in slips => "failed" \in slips'
  PROVE  IInv'
BY DEF IInv, UpMeansReady, DownMeansEmpty, OneContext

LEMMA TryToFinalizeInv ==
  ASSUME IInv, TryToFinalize
  PROVE  IInv'
<1>1. ASSUME FinalizeStopsAtMem \/ FinalizeStopsAtScratch \/ FinalizeStopsAtProg
      PROVE  IInv'
  BY <1>1, StopsInv
  DEF FinalizeStopsAtMem, FinalizeStopsAtScratch, FinalizeStopsAtProg, Stops, Finalizes
<1>2. ASSUME NEW withPython \in BOOLEAN, FinalizeStopsAtBackend(withPython)
      PROVE  IInv'
  BY <1>2, StopsInv DEF FinalizeStopsAtBackend, FreesAll, Finalizes
<1>3. ASSUME NEW withPython \in BOOLEAN, Finalize(withPython)
      PROVE  IInv'
  <2>1. "failed" \in slips' <=> "failed" \in slips
    BY <1>3 DEF Finalize, FreesAll
  <2>2. /\ initialized /\ ~initialized' /\ ~stuck'
        /\ mems' = 0 /\ progs' = 0 /\ ~scratch' /\ ~strings'
        /\ annotate' = None /\ ~context' /\ bptr' = None /\ contexts' = contexts \ {bptr}
    BY <1>3 DEF Finalize, FreesAll, Finalizes
  <2>3. QED
    BY <2>1, <2>2 DEF IInv, UpMeansReady, DownMeansEmpty, OneContext
<1>4. QED
  BY <1>1, <1>2, <1>3 DEF TryToFinalize

LEMMA NextInv ==
  ASSUME IInv, [Next]_vars
  PROVE  IInv'
<1>1. ASSUME InitAgain PROVE IInv'
  BY <1>1
  DEF InitAgain, interpreter, script, device, IInv, UpMeansReady, DownMeansEmpty, OneContext
<1>2. ASSUME Use PROVE IInv'
  BY <1>2 DEF Use, interpreter, script, device, IInv, UpMeansReady, DownMeansEmpty, OneContext
<1>3. ASSUME UNCHANGED vars PROVE IInv'
  BY <1>3 DEF vars, interpreter, script, device, IInv, UpMeansReady, DownMeansEmpty, OneContext
<1>4. QED
  BY <1>1, <1>2, <1>3, TryToInitInv, TryToFinalizeInv DEF Next

\* What is there while libnomp is up and while it is down, in every state.
THEOREM Inductive == Spec => []IInv
BY InitInv, NextInv, PTL DEF Spec

\* Everything the other functions rely on is there while libnomp is up, however
\* far the calls of nomp_init() before got.
THEOREM Readiness == Spec => []UpMeansReady
<1>1. IInv => UpMeansReady
  BY DEF IInv
<1>2. QED
  BY Inductive, <1>1, PTL

\* nomp_finalize() leaves nothing to free, but what failed calls of nomp_init()
\* acquired.
THEOREM Emptiness == Spec => []DownMeansEmpty
<1>1. IInv => DownMeansEmpty
  BY DEF IInv
<1>2. QED
  BY Inductive, <1>1, PTL

LEMMA NextKeepsContexts ==
  ASSUME IInv, [Next]_vars
  PROVE  LosesOnlyFailedInits
<1>1. ASSUME UNCHANGED <<bptr, contexts>> PROVE LosesOnlyFailedInits
  BY <1>1 DEF LosesOnlyFailedInits
<1>2. ASSUME InitAgain \/ Use \/ UNCHANGED vars PROVE LosesOnlyFailedInits
  BY <1>1, <1>2 DEF InitAgain, Use, vars, device
<1>3. ASSUME NEW c \in InitCalls, TryToInit(c) PROVE LosesOnlyFailedInits
  <2>1. ASSUME ~Initialize(c) PROVE LosesOnlyFailedInits
    BY <1>3, <2>1
    DEF TryToInit, InitRefuses, InitWithoutPython, InitWithoutScript, InitWithoutBackend,
        InitWithoutScratch, HasBackend, HasScript, HasPython, Tries, Fails,
        LosesOnlyFailedInits
  <2>2. ASSUME Initialize(c) PROVE LosesOnlyFailedInits
    <3>1. ~initialized /\ slips' = slips
      BY <2>2 DEF Initialize, HasBackend, HasScript, HasPython, Tries
    <3>2. contexts' \ {bptr'} \subseteq contexts
      BY <2>2 DEF Initialize, HasBackend
    <3>3. "failed" \in slips \/ contexts = {}
      BY <3>1 DEF IInv, DownMeansEmpty
    <3>4. QED
      BY <3>1, <3>2, <3>3 DEF LosesOnlyFailedInits
  <2>3. QED
    BY <2>1, <2>2
<1>4. ASSUME TryToFinalize PROVE LosesOnlyFailedInits
  <2>1. ASSUME NEW withPython \in BOOLEAN, Finalize(withPython)
        PROVE  LosesOnlyFailedInits
    BY <2>1 DEF Finalize, LosesOnlyFailedInits
  <2>2. QED
    BY <1>1, <1>4, <2>1
    DEF TryToFinalize, FinalizeStopsAtMem, FinalizeStopsAtScratch, FinalizeStopsAtProg,
        Stops, FinalizeStopsAtBackend
<1>5. QED
  BY <1>2, <1>3, <1>4 DEF Next

\* A device context is lost by a nomp_init() that fails, or that follows one
\* that did, and by nothing else.
THEOREM ContextsAreNotLost == Spec => ContextsLostOnlyByInit
<1>1. IInv /\ [Next]_vars => [LosesOnlyFailedInits]_vars
  BY NextKeepsContexts
<1>2. QED
  BY Inductive, <1>1, PTL DEF Spec, ContextsLostOnlyByInit
=============================================================================

------------------------------ MODULE Kernels ------------------------------
(***************************************************************************)
(* What nomp_jit(), nomp_run() and nomp_sync() promise: each call site has *)
(* its kernel built once, and the device does what it was asked to, each   *)
(* task as asked, in the order of the calls.  A run of a reduction returns *)
(* when nothing is left to do, with the result of its own task in the      *)
(* variable it was called with.  A call that fails does nothing, or waits  *)
(* for the device, or leaves its task to it.                               *)
(***************************************************************************)
EXTENDS Sequences

CONSTANTS
  Sites,     \* call sites
  Tasks,     \* a kernel with integers to run it with: [site, ints]
  Reducing,  \* the sites whose kernels are reductions
  Results,   \* variables of the host that results go to
  None       \* nothing asked, no variable, no reply

VARIABLES
  built,  \* the sites that have a kernel
  due,    \* tasks the device has not finished, in order
  asked,  \* the task this step asked for, and the variable for its result
  reply   \* the task whose result this step gave, and the variable it went to

vars == <<built, due, asked, reply>>

Asks(t, r) == [task |-> t, to |-> r]
Silent == asked' = None /\ reply' = None

Init == built = {} /\ due = <<>> /\ asked = None /\ reply = None

Build(s) ==
  /\ s \notin built
  /\ built' = built \cup {s}
  /\ Silent
  /\ UNCHANGED due

Start(t) ==
  /\ t.site \in built
  /\ due' = Append(due, t)
  /\ asked' = Asks(t, None) /\ reply' = None
  /\ UNCHANGED built

Reduce(t, r) ==
  /\ t.site \in built \cap Reducing
  /\ due' = <<>>
  /\ asked' = Asks(t, r) /\ reply' = Asks(t, r)
  /\ UNCHANGED built

\* A run that fails, or whose result is not promised to anyone.
Fail(t) ==
  /\ t.site \in built
  /\ due' \in {due, <<>>}
  /\ asked' = Asks(t, None) /\ reply' = None
  /\ UNCHANGED built

\* The device finishes its first task.
Finish ==
  /\ due # <<>>
  /\ due' = Tail(due)
  /\ Silent
  /\ UNCHANGED built

\* Any other call: it may wait for the device.
Call ==
  /\ due' \in {due, <<>>}
  /\ Silent
  /\ UNCHANGED built

\* nomp_finalize(): no kernel is left to be run.
End ==
  /\ built' = {}
  /\ due' \in {due, <<>>}
  /\ Silent

Next ==
  \/ Call \/ Finish \/ End
  \/ \E s \in Sites : Build(s)
  \/ \E t \in Tasks : Start(t) \/ Fail(t) \/ \E r \in Results : Reduce(t, r)

Spec == Init /\ [][Next]_vars
=============================================================================

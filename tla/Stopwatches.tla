---------------------------- MODULE Stopwatches ----------------------------
(***************************************************************************)
(* What nomp_profile() promises: one stopwatch for each name, which counts *)
(* the times it was started and then stopped, and adds up the time between *)
(* the last start and the stop that follows it.                            *)
(***************************************************************************)
EXTENDS Integers

CONSTANTS Names, Stopped

VARIABLES
  watch,  \* of each name: calls, total time, and the tick it was started at
  now     \* the processor clock

vars == <<watch, now>>

Zero == [calls |-> 0, total |-> 0, since |-> Stopped]

Init == watch = [n \in Names |-> Zero] /\ now \in Nat

Tick == now' = now + 1 /\ UNCHANGED watch

\* Starting a watch that runs starts it anew.
Start(n) == watch' = [watch EXCEPT ![n].since = now] /\ UNCHANGED now

Stop(n) ==
  /\ watch[n].since # Stopped
  /\ watch' = [watch EXCEPT ![n] = [calls |-> @.calls + 1,
                                    total |-> @.total + (now - @.since),
                                    since |-> Stopped]]
  /\ UNCHANGED now

ResetAll == watch' = [n \in Names |-> Zero] /\ UNCHANGED now

Next == Tick \/ ResetAll \/ \E n \in Names : Start(n) \/ Stop(n)

Spec == Init /\ [][Next]_vars
=============================================================================

---------------------------- MODULE DeviceMirror ----------------------------
(***************************************************************************)
(* What nomp_update() promises a careful client: some bytes of the host    *)
(* arrays have a copy on the device.  Mapping gives bytes a copy, an       *)
(* update moves a set of bytes one way between an array and its copy, and  *)
(* freeing takes copies away.  Nothing else is disturbed by any of these.  *)
(***************************************************************************)
EXTENDS Integers

CONSTANTS Ptrs, Extent, Values, Junk

VARIABLES
  host,   \* contents of the host arrays
  copies  \* of each byte, the copy the device has of it: {} or one value

vars == <<host, copies>>

Bytes == 0 .. Extent - 1

Init ==
  /\ host \in [Ptrs -> [Bytes -> Values]]
  /\ copies = [p \in Ptrs |-> [k \in Bytes |-> {}]]

\* The copies of the bytes B of array p become what new(k) says, or stay.
Become(p, B, new(_)) ==
  copies' = [copies EXCEPT ![p] =
               [k \in Bytes |-> IF k \in B THEN new(k) ELSE @[k]]]

Have(p, B) == \A k \in B : copies[p][k] # {}
HaveNone(p, B) == \A k \in B : copies[p][k] = {}

\* A copy of bytes of which there was none, with or without their values.
Reserve(p, B) ==
  /\ HaveNone(p, B)
  /\ Become(p, B, LAMBDA k : {Junk})
  /\ UNCHANGED host

ReserveAndSend(p, B) ==
  /\ HaveNone(p, B)
  /\ Become(p, B, LAMBDA k : {host[p][k]})
  /\ UNCHANGED host

Send(p, B) ==
  /\ Have(p, B)
  /\ Become(p, B, LAMBDA k : {host[p][k]})
  /\ UNCHANGED host

Fetch(p, B) ==
  /\ Have(p, B)
  /\ host' = [host EXCEPT ![p] =
                [k \in Bytes |-> IF k \in B THEN CHOOSE v \in copies[p][k] : TRUE
                                 ELSE @[k]]]
  /\ UNCHANGED copies

\* Copies of any arrays are dropped, as nomp_finalize() does; the others keep
\* their contents.
Drop(D) ==
  /\ copies' = [p \in Ptrs |-> [k \in Bytes |->
                  IF k \in D[p] THEN {} ELSE copies[p][k]]]
  /\ UNCHANGED host

\* A kernel computes, and the host.
KernelStore(p, B, v) ==
  /\ Have(p, B)
  /\ Become(p, B, LAMBDA k : {v})
  /\ UNCHANGED host

HostStore(p, B, v) ==
  /\ host' = [host EXCEPT ![p] = [k \in Bytes |-> IF k \in B THEN v ELSE @[k]]]
  /\ UNCHANGED copies

Next ==
  \/ \E p \in Ptrs, a, b \in Bytes :
       \/ Reserve(p, a .. b)
       \/ ReserveAndSend(p, a .. b)
       \/ Send(p, a .. b)
       \/ Fetch(p, a .. b)
       \/ \E v \in Values : KernelStore(p, a .. b, v) \/ HostStore(p, a .. b, v)
  \/ \E D \in [Ptrs -> SUBSET Bytes] : Drop(D)

Spec == Init /\ [][Next]_vars
=============================================================================

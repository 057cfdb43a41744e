----------------------------- MODULE HostProgram -----------------------------
(***************************************************************************)
(* The program a client of libnomp would have written without a device: a  *)
(* list of statements on arrays in one memory, each a loop that adds one   *)
(* array to another, a loop that sums one up, or a store.                  *)
(***************************************************************************)
EXTENDS Integers, Sequences

CONSTANTS
  Programs,  \* lists of statements: [op |-> "add", p, q, at |-> 0, n] adds the
             \* first n bytes of q to those of p, [op |-> "sum", q, n] sums the
             \* first n bytes of q up, [op |-> "store", p, at, n, v] writes v
  Memories,  \* contents of the arrays, byte by byte
  Base       \* bytes are integers from 0 to Base - 1 that wrap around

BytesOf(s) == s.at .. s.at + s.n - 1

VARIABLES
  memory,
  result,  \* of the last sum
  todo     \* statements that are left

vars == <<memory, result, todo>>

Plus(x, y) == (x + y) % Base

\* array after b was added to its first n bytes.
Added(array, b, n) ==
  [k \in DOMAIN array |-> IF k < n THEN Plus(array[k], b[k]) ELSE array[k]]

\* The sum of the first n bytes of array.  The bytes of an element are alike, so
\* that sums of bytes tell sums of elements apart.
Total(bytes, n) ==
  LET sum[m \in 0 .. n] == IF m = 0 THEN 0 ELSE Plus(sum[m - 1], bytes[m - 1])
  IN  sum[n]

SummedUp(array, n) == Total([k \in 0 .. n - 1 |-> array[k]], n)

Init ==
  /\ memory \in Memories
  /\ result = 0
  /\ todo \in Programs

Add(s) ==
  /\ s.op = "add"
  /\ memory' = [memory EXCEPT ![s.p] = Added(@, memory[s.q], s.n)]
  /\ UNCHANGED result

Sum(s) ==
  /\ s.op = "sum"
  /\ result' = SummedUp(memory[s.q], s.n)
  /\ UNCHANGED memory

Store(s) ==
  /\ s.op = "store"
  /\ memory' = [memory EXCEPT ![s.p] =
                   [k \in DOMAIN @ |-> IF k \in BytesOf(s) THEN s.v ELSE @[k]]]
  /\ UNCHANGED result

Next ==
  /\ todo # <<>>
  /\ todo' = Tail(todo)
  /\ Add(Head(todo)) \/ Sum(Head(todo)) \/ Store(Head(todo))

Spec == Init /\ [][Next]_vars
=============================================================================

----------------------------- MODULE NompOffload -----------------------------
(***************************************************************************)
(* A program that offloads its loops: the registry of NompMem, with the    *)
(* launches of nomp_run() that are pending on the device.                  *)
(*                                                                         *)
(* A launch is given buffers when nomp_run() looks its arrays up, and uses *)
(* them when the device comes to it; calls of nomp_update() come between.  *)
(* The driver makes copies and releases wait for earlier launches, as      *)
(* cudaMemcpy and cudaFree do, and does not make allocations wait.  OpenCL *)
(* waits in nomp_run() already, which is one of the orders here.           *)
(*                                                                         *)
(* The client is the code a compiler would emit: it knows of every byte    *)
(* whether the host, the device or both have its value, and makes no call  *)
(* that would read or lose one.                                            *)
(***************************************************************************)
EXTENDS NompMem

CONSTANTS
  Programs, \* lists of statements of HostProgram
  Memories, \* contents of the host arrays to begin with
  MaxQueue  \* bound: launches that are pending

VARIABLES
  todo,     \* statements of the program that are left
  result,   \* the host variable sums are written to, which is not mapped
  queue,    \* launches the device has not finished, in order
  valid     \* where each byte has its value: "host", "dev"

all == <<vars, todo, result, queue, valid>>

Base == Cardinality(Values)

Program == INSTANCE HostProgram WITH memory <- host

Now == Head(todo)

Statements ==
  [op : {"add"}, p : Ptrs, q : Ptrs, at : {0}, n : Nat]
    \cup [op : {"sum"}, q : Ptrs, n : Nat]
    \cup [op : {"store"}, p : Ptrs, at : Nat, n : Nat, v : Values]

ASSUME NompOffloadAssumption ==
  /\ Base \in Nat \ {0}
  /\ Values = 0 .. Base - 1
  /\ Junk \in Int
  /\ Memories \subseteq [Ptrs -> [0 .. Extent - 1 -> Values]]
  /\ Programs \subseteq Seq(Statements)
  /\ MaxQueue \in Nat

(***************************************************************************)
(* What the client knows of bytes B of array p.                            *)
(***************************************************************************)
Both == {"host", "dev"}
ValidAt(place, p, B) == \A k \in B : place \in valid[p][k]

ValidNow(p, B, places) ==
  valid' = [valid EXCEPT ![p] = [k \in DOMAIN @ |-> IF k \in B THEN places ELSE @[k]]]

Unmapped == [p \in Ptrs |-> [k \in 0 .. Extent - 1 |-> {"host"}]]

Sensible(c) ==
  /\ c.op \in {"TO", "FREE"} => ValidAt("host", c.hptr, Slice(c))
  /\ c.op = "FROM" => ValidAt("dev", c.hptr, Slice(c))

(***************************************************************************)
(* nomp_update().                                                          *)
(***************************************************************************)
\* Broken: buffers are released under the launches that use them, or copied
\* before these have run.
WaitsToCopy(c) == c.op \in {"TO", "FROM"}
WaitsToFree(c) == c.op = "FREE"

\* The host is blocked until the device has finished.
Waits(c) == c.op # "ALLOC"

Succeeds(c) ==
  \/ (Map(c) \/ CopyTo(c)) /\ c.op = "TO" /\ ValidNow(c.hptr, Slice(c), Both)
  \/ Map(c) /\ c.op = "ALLOC" /\ UNCHANGED valid
  \/ CopyFrom(c) /\ ValidNow(c.hptr, Slice(c), Both)
  \/ Free(c) /\ ValidNow(c.hptr, Slice(c), {"host"})

Errs(c) ==
  /\ MapWithoutMemory(c) \/ MapWithoutCopy(c) \/ Refuse(c)
  /\ UNCHANGED valid

Call(c) ==
  /\ Sensible(c)
  /\ Waits(c) => queue = <<>>
  /\ Succeeds(c) \/ Errs(c)
  /\ UNCHANGED <<todo, result, queue>>

(***************************************************************************)
(* nomp_run(): arrays are looked up, and the kernel is put in the queue.   *)
(***************************************************************************)
\* Broken: the last entry of an array.
LastOf(p, i) ==
  /\ i \in Mapped /\ mems[i].hptr = p
  /\ \A j \in Mapped : j > i => mems[j].hptr # p

\* nomp_get_memory_if_mapped()
LooksUp(p, i) == FirstOf(p, i)

\* The client knows that a kernel takes the first entry for the whole array.
Offloads(p, n) ==
  /\ ValidAt("dev", p, 0 .. n - 1)
  /\ \E i \in Mapped : FirstOf(p, i) /\ mems[i].idx0 = 0 /\ End(mems[i]) >= n

\* nomp_run() of a loop that adds one array to another.
RunAdd ==
  /\ up
  /\ todo # <<>> /\ Now.op = "add"
  /\ Len(queue) < MaxQueue
  /\ Offloads(Now.p, Now.n) /\ Offloads(Now.q, Now.n)
  /\ \E i, j \in Mapped :
       /\ LooksUp(Now.p, i) /\ LooksUp(Now.q, j)
       /\ queue' = Append(queue, [dst |-> mems[i].bptr, src |-> mems[j].bptr, n |-> Now.n])
  /\ ValidNow(Now.p, Program!BytesOf(Now), {"dev"})
  /\ todo' = Tail(todo)
  /\ UNCHANGED <<vars, result>>

\* Device memory after launch l; a launch whose buffers are gone does nothing.
Executed(memory, l) ==
  IF {l.dst, l.src} \subseteq DOMAIN memory
  THEN [memory EXCEPT ![l.dst] = Program!Added(@, memory[l.src], l.n)]
  ELSE memory

AfterEach(memory, launches) ==
  LET after[n \in 0 .. Len(launches)] ==
        IF n = 0 THEN memory ELSE Executed(after[n - 1], launches[n])
  IN  after

AfterAll(memory, launches) == AfterEach(memory, launches)[Len(launches)]

DeviceAfterQueue == AfterAll(dev, queue)

\* Broken: does not wait for the launches before it.
DeviceNow == dev

\* Device memory when nomp_host_side_reduction() reads the partial results.
DeviceSynced == DeviceAfterQueue

\* nomp_run() of a loop that sums an array up.
RunSum ==
  /\ up
  /\ todo # <<>> /\ Now.op = "sum"
  /\ Offloads(Now.q, Now.n)
  /\ \E j \in Mapped :
       /\ LooksUp(Now.q, j)
       /\ result' = Program!SummedUp(DeviceSynced[mems[j].bptr], Now.n)
  /\ dev' = DeviceAfterQueue
  /\ queue' = <<>>
  /\ todo' = Tail(todo)
  /\ UNCHANGED <<up, mems, mems_max, scratch, host, valid>>

DeviceFinishes ==
  /\ queue # <<>>
  /\ queue' = Tail(queue)
  /\ dev' = Executed(dev, Head(queue))
  /\ UNCHANGED <<up, mems, mems_max, scratch, host, todo, result, valid>>

(***************************************************************************)
(* The host, nomp_init() and nomp_finalize().                              *)
(***************************************************************************)
HostStores ==
  /\ todo # <<>> /\ Now.op = "store"
  /\ ValidAt("host", Now.p, Program!BytesOf(Now))
  /\ host' = [host EXCEPT ![Now.p] = [k \in DOMAIN @ |->
                 IF k \in Program!BytesOf(Now) THEN Now.v ELSE @[k]]]
  /\ ValidNow(Now.p, Program!BytesOf(Now), {"host"})
  /\ todo' = Tail(todo)
  /\ UNCHANGED <<up, mems, mems_max, dev, scratch, result, queue>>

Starts == Initialize /\ UNCHANGED <<todo, result, queue, valid>>

Finalizes ==
  \/ Finalize \/ FinalizeStopsAtScratch \/ FinalizeStopsAfterScratch
  \/ \E k \in 1 .. Len(mems) : FinalizeStopsAt(k)

\* Releasing memory waits for the launches.
Stops ==
  /\ queue = <<>>
  /\ \A p \in Ptrs : ValidAt("host", p, 0 .. Extent - 1)
  /\ Finalizes
  /\ valid' = Unmapped
  /\ UNCHANGED <<todo, result, queue>>

(***************************************************************************)
(* The specification.                                                      *)
(***************************************************************************)
OffloadInit ==
  /\ up = FALSE
  /\ mems = <<>> /\ mems_max = 0
  /\ dev = [b \in {} |-> <<>>]
  /\ scratch = NULL
  /\ host \in Memories
  /\ todo \in Programs
  /\ result = 0
  /\ queue = <<>>
  /\ valid = Unmapped

OffloadNext ==
  \/ Starts \/ Stops \/ RunAdd \/ RunSum \/ HostStores \/ DeviceFinishes
  \/ \E c \in Calls : Call(c)

OffloadSpec == OffloadInit /\ [][OffloadNext]_all

(***************************************************************************)
(* Properties.                                                             *)
(***************************************************************************)
\* The value each byte of array p has for the program: on the host, or what
\* the device will have when the launches that are pending are done.
ValuesOf(p, device) ==
  [k \in 0 .. Extent - 1 |->
     IF "host" \in valid[p][k] THEN host[p][k]
     ELSE LET i == CHOOSE i \in Mapped : mems[i].hptr = p /\ k \in Slice(mems[i])
          IN  device[mems[i].bptr][k - Start(mems[i])]]

Memory == LET device == DeviceAfterQueue IN [p \in Ptrs |-> ValuesOf(p, device)]

Offloaded == INSTANCE HostProgram WITH memory <- Memory

\* Offloading is transparent: with launches pending, slices mapped, copied and
\* freed in between, copies that fail and memory that is not there, the program
\* computes what it would have computed in host memory.
OffloadIsTransparent == Offloaded!Spec
=============================================================================

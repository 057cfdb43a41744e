------------------------------ MODULE NompMem ------------------------------
(***************************************************************************)
(* The device-memory registry of libnomp: nomp_update() of src/nomp.c, the *)
(* update function of the backend it calls, the scratch buffer nomp_init() *)
(* allocates, the buffer nomp_run() hands to a kernel, and the release of  *)
(* everything in nomp_finalize().                                          *)
(*                                                                         *)
(* A slice [idx0, idx1) of elements of usize bytes of a host array is      *)
(* mapped to a device buffer by an entry of `mems`.  Host arrays and       *)
(* device buffers are held byte by byte, because the registry compares     *)
(* slices in bytes but computes copy offsets in elements.                  *)
(*                                                                         *)
(* The client is the host program.  nomp_update() accepts calls that a     *)
(* careful program would not make; `Misuse` says which of them this client *)
(* makes, so that one specification serves careful and careless clients.   *)
(***************************************************************************)
EXTENDS Integers, Sequences, FiniteSets

CONSTANTS
  Ptrs,      \* host arrays, by the address of their first element
  Extent,    \* bytes of each host array
  USizes,    \* the element sizes clients use
  Values,    \* what a byte may hold
  Junk,      \* what a byte of fresh device memory holds
  NULL,      \* the NULL pointer: a freed slot of mems, no scratch buffer
  Bufs,      \* device buffers the driver can have allocated at once
  Misuse,    \* careless calls the client makes: see Careful
  Faults,    \* driver calls that may fail: "alloc", "copy", "free", "unload"
  MaxMems    \* bound: slots of mems a session may use

Ops == {"ALLOC", "TO", "FROM", "FREE"}

Byte == Values \cup {Junk}
Contents == UNION {[0 .. n - 1 -> Byte] : n \in 0 .. Extent}

Entry == [hptr : Ptrs, idx0 : 0 .. Extent, idx1 : 0 .. Extent,
          usize : USizes, bptr : Bufs]

ASSUME NompMemAssumption ==
  /\ Extent \in Nat
  /\ USizes \subseteq Nat \ {0}
  /\ NULL \notin Bufs
  /\ NULL \notin Entry
  /\ MaxMems \in Nat

VARIABLES
  up,        \* nomp_init() has succeeded and nomp_finalize() has not
  mems,      \* the registry: entries, and NULL where one was freed
  mems_max,  \* slots allocated for mems
  dev,       \* the device: contents of every allocated buffer
  scratch,   \* the buffer reductions write their partial results to
  host       \* contents of the host arrays

vars == <<up, mems, mems_max, dev, scratch, host>>

(***************************************************************************)
(* Calls of nomp_update().  Empty slices are left out: what an empty       *)
(* allocation or copy does is the driver's choice.                         *)
(***************************************************************************)
Start(s) == s.idx0 * s.usize
End(s) == s.idx1 * s.usize
NBytes(s) == (s.idx1 - s.idx0) * s.usize
Slice(s) == Start(s) .. End(s) - 1

Calls == {c \in [op : Ops, hptr : Ptrs, idx0 : 0 .. Extent,
                 idx1 : 0 .. Extent, usize : USizes] :
            /\ c.idx0 < c.idx1
            /\ End(c) <= Extent}

Mapped == {i \in 1 .. Len(mems) : mems[i] # NULL}

Contains(m, c) ==
  /\ m # NULL
  /\ m.hptr = c.hptr
  /\ Start(m) <= Start(c)
  /\ End(m) >= End(c)

\* nomp_get_index_if_mapped() returns i ...
Found(c, i) ==
  /\ i \in 1 .. Len(mems)
  /\ Contains(mems[i], c)
  /\ \A j \in 1 .. i - 1 : ~Contains(mems[j], c)

\* ... or mems_n.
NotFound(c) == \A i \in 1 .. Len(mems) : ~Contains(mems[i], c)

(***************************************************************************)
(* What a careful client never does, and the Misuse that lifts each rule.  *)
(***************************************************************************)
Careful(c) ==
  \* addresses one array with two element sizes
  /\ "units" \notin Misuse =>
       \A i \in Mapped : mems[i].hptr = c.hptr => mems[i].usize = c.usize
  \* maps a slice that overlaps a mapped one
  /\ "overlap" \notin Misuse => (NotFound(c) =>
       \A i \in Mapped :
         mems[i].hptr = c.hptr => Slice(mems[i]) \cap Slice(c) = {})
  \* allocates a slice that is already mapped
  /\ "resize" \notin Misuse => (c.op = "ALLOC" => NotFound(c))
  \* frees a part of what was mapped
  /\ "subfree" \notin Misuse => (c.op = "FREE" =>
       \A i \in Mapped : Found(c, i) => Slice(mems[i]) = Slice(c))

(***************************************************************************)
(* The driver.  Copies outside a buffer are refused, as OpenCL does.       *)
(***************************************************************************)
Fresh == Bufs \ DOMAIN dev

\* Broken: takes the end of the slice for its last byte.
AllocatedWithEnd(b, n) ==
  [x \in DOMAIN dev \cup {b} |->
     IF x = b THEN [k \in 0 .. n |-> Junk] ELSE dev[x]]

Allocated(b, n) ==
  [x \in DOMAIN dev \cup {b} |->
     IF x = b THEN [k \in 0 .. n - 1 |-> Junk] ELSE dev[x]]

Without(B) == [x \in DOMAIN dev \ B |-> dev[x]]

\* dst after n bytes of src, from `from` on, were copied to it at `at`.
Copied(dst, at, src, from, n) ==
  [k \in DOMAIN dst |->
     IF k \in at .. at + n - 1 THEN src[from + (k - at)] ELSE dst[k]]

\* Broken: the offset in the array, or none at all.
OffsetInArray(m, c) == c.idx0 * c.usize
NoOffset(m, c) == 0

\* NOMP_MEM_OFFSET(start - m->idx0, usize)
Offset(m, c) == (c.idx0 - m.idx0) * c.usize

InBounds(m, c) ==
  /\ Offset(m, c) >= 0
  /\ Offset(m, c) .. Offset(m, c) + NBytes(c) - 1 \subseteq DOMAIN dev[m.bptr]

(***************************************************************************)
(* nomp_update() on a slice that no entry contains.                        *)
(***************************************************************************)
EntryFor(c, b) == [hptr |-> c.hptr, idx0 |-> c.idx0, idx1 |-> c.idx1,
                   usize |-> c.usize, bptr |-> b]

\* Broken: does not grow from 0 or 1.
GrownByHalf == IF Len(mems) = mems_max THEN mems_max + mems_max \div 2
               ELSE mems_max

Grown == IF Len(mems) = mems_max THEN mems_max + mems_max \div 2 + 1
         ELSE mems_max

Maps(c) ==
  /\ up
  /\ Careful(c)
  /\ NotFound(c)
  /\ c.op \in {"ALLOC", "TO"}
  /\ Len(mems) < MaxMems
  /\ mems_max' = Grown
  /\ UNCHANGED <<up, scratch, host>>

Map(c) ==
  /\ Maps(c)
  /\ \E b \in Fresh :
       /\ mems' = Append(mems, EntryFor(c, b))
       /\ dev' = [Allocated(b, NBytes(c)) EXCEPT ![b] =
                    IF c.op = "TO"
                    THEN Copied(@, 0, host[c.hptr], Start(c), NBytes(c))
                    ELSE @]

\* The driver has no memory: only mems has grown.
MapWithoutMemory(c) ==
  /\ Maps(c)
  /\ "alloc" \in Faults \/ Fresh = {}
  /\ UNCHANGED <<mems, dev>>

\* The buffer was allocated and the copy failed: mems_n is not advanced, so
\* the entry and its buffer are forgotten.
MapWithoutCopy(c) ==
  /\ Maps(c)
  /\ "copy" \in Faults /\ c.op = "TO"
  /\ \E b \in Fresh : dev' = Allocated(b, NBytes(c))
  /\ UNCHANGED mems

(***************************************************************************)
(* nomp_update() on a slice that entry i contains.                         *)
(***************************************************************************)
Updates(c, op) == up /\ Careful(c) /\ c.op = op

\* NOMP_ALLOC replaces the buffer by one of the size of the slice asked for
\* and forgets the old one.
Reallocate(c) ==
  /\ Updates(c, "ALLOC")
  /\ \E i \in Mapped, b \in Fresh :
       /\ Found(c, i)
       /\ mems' = [mems EXCEPT ![i] = EntryFor(mems[i], b)]
       /\ dev' = Allocated(b, NBytes(c))
  /\ UNCHANGED <<up, mems_max, scratch, host>>

CopyTo(c) ==
  /\ Updates(c, "TO")
  /\ \E i \in Mapped :
       /\ Found(c, i)
       /\ InBounds(mems[i], c)
       /\ dev' = [dev EXCEPT ![mems[i].bptr] =
                    Copied(@, Offset(mems[i], c), host[c.hptr], Start(c),
                           NBytes(c))]
  /\ UNCHANGED <<up, mems, mems_max, scratch, host>>

CopyFrom(c) ==
  /\ Updates(c, "FROM")
  /\ \E i \in Mapped :
       /\ Found(c, i)
       /\ InBounds(mems[i], c)
       /\ host' = [host EXCEPT ![c.hptr] =
                     Copied(@, Start(c), dev[mems[i].bptr],
                            Offset(mems[i], c), NBytes(c))]
  /\ UNCHANGED <<up, mems, mems_max, dev, scratch>>

\* Broken: keeps the entry, or closes the gap.
CleanupKeepingEntry(i) == mems
CleanupCompacting(i) == SubSeq(mems, 1, i - 1) \o SubSeq(mems, i + 1, Len(mems))

\* "Device memory object was released": its slot becomes NULL and stays so.
Cleanup(i) == [mems EXCEPT ![i] = NULL]

\* Broken: forgets the buffer without freeing it.
FreeEntryOnly(c) ==
  /\ Updates(c, "FREE")
  /\ \E i \in Mapped : Found(c, i) /\ mems' = Cleanup(i)
  /\ UNCHANGED <<up, mems_max, dev, scratch, host>>

Free(c) ==
  /\ Updates(c, "FREE")
  /\ \E i \in Mapped :
       /\ Found(c, i)
       /\ dev' = Without({mems[i].bptr})
       /\ mems' = Cleanup(i)
  /\ UNCHANGED <<up, mems_max, scratch, host>>

\* Every other call returns an error and changes nothing: FROM and FREE of a
\* slice that is not mapped, a copy the driver finds out of bounds, a driver
\* call that fails.
Refuse(c) ==
  /\ up
  /\ Careful(c)
  /\ \/ NotFound(c) /\ c.op \in {"FROM", "FREE"}
     \/ \E i \in Mapped :
          /\ Found(c, i)
          /\ \/ c.op = "ALLOC" /\ ("alloc" \in Faults \/ Fresh = {})
             \/ c.op \in {"TO", "FROM"}
                  /\ ("copy" \in Faults \/ ~InBounds(mems[i], c))
             \/ c.op = "FREE" /\ "free" \in Faults
  /\ UNCHANGED vars

Update(c) ==
  \/ Map(c) \/ MapWithoutMemory(c) \/ MapWithoutCopy(c)
  \/ Reallocate(c) \/ CopyTo(c) \/ CopyFrom(c) \/ Free(c) \/ Refuse(c)

(***************************************************************************)
(* nomp_run(): the kernel gets the buffer of the first entry of the array, *)
(* wherever in the array it starts, and may write any element of it.       *)
(***************************************************************************)
FirstOf(p, i) ==
  /\ i \in Mapped /\ mems[i].hptr = p
  /\ \A j \in Mapped : j < i => mems[j].hptr # p

\* array after v was stored in element e, of u bytes.
Stored(array, e, u, v) ==
  [k \in DOMAIN array |-> IF k \in e * u .. e * u + u - 1 THEN v ELSE array[k]]

KernelStore(p, e, u, v) ==
  /\ up
  /\ \E i \in Mapped :
       /\ FirstOf(p, i)
       /\ e * u .. e * u + u - 1 \subseteq DOMAIN dev[mems[i].bptr]
       /\ dev' = [dev EXCEPT ![mems[i].bptr] = Stored(@, e, u, v)]
  /\ UNCHANGED <<up, mems, mems_max, scratch, host>>

HostStore(p, e, u, v) ==
  /\ e * u + u <= Extent
  /\ host' = [host EXCEPT ![p] = Stored(@, e, u, v)]
  /\ UNCHANGED <<up, mems, mems_max, dev, scratch>>

(***************************************************************************)
(* nomp_init() and nomp_finalize(), as far as they touch device memory.    *)
(* The contents of the scratch buffer are left to NompRun.                 *)
(***************************************************************************)
Initialize ==
  /\ ~up
  /\ up' = TRUE
  /\ \E b \in Fresh : scratch' = b /\ dev' = Allocated(b, 0)
  /\ UNCHANGED <<mems, mems_max, host>>

Owned == {mems[i].bptr : i \in Mapped} \cup ({scratch} \ {NULL})

\* A scratch buffer that is NULL because of an earlier nomp_finalize() is freed
\* again, which does nothing on CUDA and HIP, and which OpenCL does not survive.
FreesAll ==
  /\ up
  /\ dev' = Without(Owned)
  /\ mems' = <<>> /\ mems_max' = 0
  /\ scratch' = NULL
  /\ UNCHANGED host

Finalize == FreesAll /\ up' = FALSE

\* The driver refuses to free the buffer of entry k: the entries before it
\* are gone, the rest stays, and libnomp is still initialized.
FinalizeStopsAt(k) ==
  /\ up
  /\ "free" \in Faults
  /\ k \in Mapped
  /\ dev' = Without({mems[i].bptr : i \in {j \in Mapped : j < k}})
  /\ mems' = [i \in 1 .. Len(mems) |-> IF i < k THEN NULL ELSE mems[i]]
  /\ UNCHANGED <<up, mems_max, scratch, host>>

\* ... or the scratch buffer: the registry is already empty.
FinalizeStopsAtScratch ==
  /\ up
  /\ "free" \in Faults
  /\ scratch # NULL
  /\ dev' = Without(Owned \ {scratch})
  /\ mems' = <<>> /\ mems_max' = 0
  /\ UNCHANGED <<up, scratch, host>>

\* ... or what comes after them, a program, the interpreter or the backend:
\* libnomp goes on without a scratch buffer.
FinalizeStopsAfterScratch ==
  /\ FreesAll
  /\ "unload" \in Faults
  /\ UNCHANGED up

(***************************************************************************)
(* The specification.                                                      *)
(***************************************************************************)
Init ==
  /\ up = FALSE
  /\ mems = <<>> /\ mems_max = 0
  /\ dev = [b \in {} |-> <<>>]
  /\ scratch = NULL
  /\ \E v \in Values : host = [p \in Ptrs |-> [k \in 0 .. Extent - 1 |-> v]]

Next ==
  \/ Initialize
  \/ \E c \in Calls : Update(c)
  \/ \E p \in Ptrs, e \in 0 .. Extent - 1, u \in USizes, v \in Values :
       KernelStore(p, e, u, v) \/ HostStore(p, e, u, v)
  \/ Finalize
  \/ \E k \in 1 .. Len(mems) : FinalizeStopsAt(k)
  \/ FinalizeStopsAtScratch \/ FinalizeStopsAfterScratch

Spec == Init /\ [][Next]_vars

(***************************************************************************)
(* Safety.                                                                 *)
(***************************************************************************)
TypeOK ==
  /\ up \in BOOLEAN
  /\ mems \in Seq(Entry \cup {NULL})
  /\ mems_max \in Nat
  /\ DOMAIN dev \subseteq Bufs
  /\ \A b \in DOMAIN dev : dev[b] \in Contents
  /\ scratch \in Bufs \cup {NULL}
  /\ host \in [Ptrs -> [0 .. Extent - 1 -> Byte]]

\* No two owners share a buffer and no owner holds a freed one: each entry of
\* mems, and the scratch pointer, is the only way to a live buffer.  A second
\* owner would free the buffer twice in nomp_finalize().  Holds whatever the
\* client does and whichever driver calls fail.
OwnedOnce ==
  /\ Owned \subseteq DOMAIN dev
  /\ \A i, j \in Mapped : i # j => mems[i].bptr # mems[j].bptr
  /\ \A i \in Mapped : mems[i].bptr # scratch

\* nomp_update() never writes mems[mems_n] outside what was allocated for mems,
\* and a library that is down holds no registry and no scratch buffer.
RegistryFits ==
  /\ Len(mems) <= mems_max
  /\ scratch # NULL => up
  /\ ~up => mems = <<>> /\ mems_max = 0

\* A careful client is never refused a copy of a slice that is mapped: what
\* nomp_update() computes from elements stays in the buffer it finds by bytes.
CopiesFit ==
  \A c \in Calls, i \in Mapped : Careful(c) /\ Found(c, i) => InBounds(mems[i], c)

\* What the device has as copies of byte k of array p: nothing unless the byte
\* is mapped, and one value unless overlapping slices were mapped.
CopiesOf(p, k) ==
  {dev[mems[i].bptr][k - Start(mems[i])] :
     i \in {j \in Mapped : mems[j].hptr = p /\ k \in Slice(mems[j])}}

Copies == [p \in Ptrs |-> [k \in 0 .. Extent - 1 |-> CopiesOf(p, k)]]

\* The bytes a step changes on the host or on the device, or that it gives a
\* copy or takes it from.
Touched ==
  UNION {{p} \X {k \in 0 .. Extent - 1 : \/ host'[p][k] # host[p][k]
                                        \/ CopiesOf(p, k)' # CopiesOf(p, k)} :
           p \in Ptrs}

\* nomp_update(): "Operation op will be performed on the array slice
\* [start_index, end_index)" -- a call leaves every other byte, of this and of
\* every other array, on the host and on the device, as it was.
SliceOnly ==
  [][\A touched \in {Touched} : \A c \in Calls :
       touched \subseteq {c.hptr} \X Slice(c) \/ ~Update(c)]_vars

\* Buffers the registry has lost: nothing frees them any more.
Orphans == DOMAIN dev \ Owned

\* Device memory is lost only when a first copy fails, or when NOMP_ALLOC
\* replaces a buffer -- never by freeing, unmapping in any order or finalizing,
\* however often it had to be retried.
LosesOnlyNewBuffers ==
  \/ Orphans' \subseteq Orphans
  \/ \E c \in Calls : MapWithoutCopy(c) \/ Reallocate(c)

OrphansOnlyFromNewBuffers == [][LosesOnlyNewBuffers]_vars

\* Slots are stable while the library is up: an entry keeps its slice and its
\* slot until it is freed, a freed slot is never used again, and a slot that is
\* added takes the next index.
KeepsSlots ==
  up' /\ mems' # <<>> =>
    /\ Len(mems') \in {Len(mems), Len(mems) + 1}
    /\ \A i \in 1 .. Len(mems) : mems'[i] # NULL =>
         mems[i] # NULL /\ mems'[i] = EntryFor(mems[i], mems'[i].bptr)

SlotsStable == [][KeepsSlots]_vars

\* The registry and its buffers act as one copy of the mapped bytes.
Mirror == INSTANCE DeviceMirror WITH copies <- Copies
ImplementsMirror == Mirror!Spec
=============================================================================

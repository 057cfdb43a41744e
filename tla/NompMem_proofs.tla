--------------------------- MODULE NompMem_proofs ---------------------------
(***************************************************************************)
(* What holds of the registry for every set of arrays, extent, element     *)
(* sizes, client and driver: its types, the ownership of device buffers,   *)
(* the capacity of mems, and the stability of its slots.                   *)
(***************************************************************************)
EXTENDS NompMem, TLAPS

(***************************************************************************)
(* Slices and contents.                                                    *)
(***************************************************************************)

\* A call's slice lies in its array, and its size is what NOMP_MEM_BYTES says.
LEMMA SliceOfCall ==
  ASSUME NEW c \in Calls
  PROVE  /\ c.hptr \in Ptrs
         /\ Start(c) \in Nat /\ End(c) \in Nat /\ NBytes(c) \in Nat
         /\ NBytes(c) = End(c) - Start(c)
         /\ End(c) <= Extent
<1>1. /\ c.idx0 \in 0 .. Extent /\ c.idx1 \in 0 .. Extent /\ c.usize \in USizes
      /\ c.hptr \in Ptrs /\ c.idx0 < c.idx1 /\ End(c) <= Extent
  BY DEF Calls
<1>a. c.idx0 \in Nat /\ c.idx1 \in Nat
  BY <1>1, NompMemAssumption
<1>b. c.usize \in Nat
  BY <1>1, NompMemAssumption
<1>2. \A x, y, u \in Nat : x < y => /\ x * u \in Nat /\ y * u \in Nat
                                   /\ (y - x) * u = y * u - x * u
                                   /\ (y - x) * u \in Nat
  OBVIOUS
<1>3. /\ c.idx0 * c.usize \in Nat /\ c.idx1 * c.usize \in Nat
      /\ (c.idx1 - c.idx0) * c.usize = c.idx1 * c.usize - c.idx0 * c.usize
      /\ (c.idx1 - c.idx0) * c.usize \in Nat
  BY <1>1, <1>a, <1>b, <1>2
<1> QED
  BY <1>1, <1>3 DEF Start, End, NBytes

LEMMA ContentsOf ==
  ASSUME NEW n \in 0 .. Extent, NEW f \in [0 .. n - 1 -> Byte]
  PROVE  f \in Contents
BY DEF Contents

\* A copy keeps the size of its destination, and moves bytes only.
LEMMA CopiedContents ==
  ASSUME NEW D, NEW dst \in [D -> Byte], NEW E, NEW src \in [E -> Byte],
         NEW at \in Int, NEW from \in Int, NEW n \in Nat, D \subseteq Int,
         \A k \in D : k \in at .. at + n - 1 => from + (k - at) \in E
  PROVE  Copied(dst, at, src, from, n) \in [D -> Byte]
BY DEF Copied

\* Storing an element keeps the size of the array.
LEMMA StoredContents ==
  ASSUME NEW D, NEW f \in [D -> Byte], NEW e, NEW u, NEW v \in Values
  PROVE  Stored(f, e, u, v) \in [D -> Byte]
BY DEF Stored, Byte

LEMMA FreshContents ==
  ASSUME NEW n \in Nat
  PROVE  [k \in 0 .. n - 1 |-> Junk] \in [0 .. n - 1 -> Byte]
BY DEF Byte

\* A new buffer, and whatever is first copied to it, is well typed.
DevOK(d) == DOMAIN d \subseteq Bufs /\ \A b \in DOMAIN d : d[b] \in Contents

LEMMA AllocatedOK ==
  ASSUME DevOK(dev), NEW b \in Bufs, NEW n \in 0 .. Extent
  PROVE  /\ DevOK(Allocated(b, n))
         /\ DOMAIN Allocated(b, n) = DOMAIN dev \cup {b}
         /\ Allocated(b, n)[b] = [k \in 0 .. n - 1 |-> Junk]
<1>1. [k \in 0 .. n - 1 |-> Junk] \in Contents
  BY NompMemAssumption, FreshContents, ContentsOf
<1> QED
  BY <1>1 DEF DevOK, Allocated

LEMMA WithoutOK ==
  ASSUME DevOK(dev), NEW B
  PROVE  DevOK(Without(B)) /\ DOMAIN Without(B) = DOMAIN dev \ B
BY DEF DevOK, Without

LEMMA UpdatedOK ==
  ASSUME NEW d, DevOK(d), NEW b \in DOMAIN d, NEW f \in Contents
  PROVE  DevOK([d EXCEPT ![b] = f]) /\ DOMAIN [d EXCEPT ![b] = f] = DOMAIN d
BY DEF DevOK

LEMMA EntryType ==
  ASSUME NEW s, s.hptr \in Ptrs, s.idx0 \in 0 .. Extent, s.idx1 \in 0 .. Extent,
         s.usize \in USizes, NEW b \in Bufs
  PROVE  EntryFor(s, b) \in Entry
BY DEF EntryFor, Entry

(***************************************************************************)
(* The inductive invariant.  RegistryFits is part of it because a library  *)
(* that is down must have no entries for nomp_init() to keep OwnedOnce;    *)
(* the types are, because an entry is found by arithmetic on its fields.   *)
(***************************************************************************)
IInv == TypeOK /\ OwnedOnce /\ RegistryFits

LEMMA MappedEntry ==
  ASSUME TypeOK, NEW i \in Mapped
  PROVE  /\ i \in 1 .. Len(mems) /\ mems[i] \in Entry /\ mems[i] # NULL
         /\ mems[i].bptr \in Bufs
         /\ mems[i].hptr \in Ptrs /\ mems[i].usize \in USizes
         /\ mems[i].idx0 \in 0 .. Extent /\ mems[i].idx1 \in 0 .. Extent
<1>1. i \in 1 .. Len(mems) /\ mems[i] # NULL
  BY DEF Mapped
<1>2. mems[i] \in Entry
  BY <1>1 DEF TypeOK
<1> QED
  BY <1>1, <1>2 DEF Entry

\* Ownership, owner by owner.
LEMMA OwnersOf ==
  ASSUME TypeOK, OwnedOnce
  PROVE  /\ \A i \in Mapped : mems[i].bptr \in DOMAIN dev
         /\ scratch # NULL => scratch \in DOMAIN dev
         /\ \A i, j \in Mapped : i # j => mems[i].bptr # mems[j].bptr
         /\ \A i \in Mapped : mems[i].bptr # scratch
BY DEF OwnedOnce, Owned

LEMMA OwnedOnceNext ==
  ASSUME \A i \in Mapped' : mems'[i].bptr \in DOMAIN dev',
         scratch' # NULL => scratch' \in DOMAIN dev',
         \A i, j \in Mapped' : i # j => mems'[i].bptr # mems'[j].bptr,
         \A i \in Mapped' : mems'[i].bptr # scratch'
  PROVE  OwnedOnce'
BY DEF OwnedOnce, Owned

\* If no owner changes and no buffer goes, ownership stays.
LEMMA SameOwners ==
  ASSUME OwnedOnce, mems' = mems, scratch' = scratch, DOMAIN dev \subseteq DOMAIN dev'
  PROVE  OwnedOnce'
BY DEF OwnedOnce, Owned, Mapped

LEMMA InitIInv == Init => IInv
<1> SUFFICES ASSUME Init PROVE IInv
  OBVIOUS
<1>1. mems = <<>> /\ Len(mems) = 0 /\ Mapped = {}
  BY DEF Init, Mapped
<1>2. \A v \in Values : [p \in Ptrs |-> [k \in 0 .. Extent - 1 |-> v]]
                          \in [Ptrs -> [0 .. Extent - 1 -> Byte]]
  BY DEF Byte
<1>3. TypeOK
  <2>1. mems \in Seq(Entry \cup {NULL})
    BY <1>1
  <2>2. DOMAIN dev = {}
    BY DEF Init
  <2>3. host \in [Ptrs -> [0 .. Extent - 1 -> Byte]]
    BY <1>2 DEF Init
  <2> QED
    BY <2>1, <2>2, <2>3 DEF Init, TypeOK
<1>4. OwnedOnce
  BY <1>1 DEF Init, OwnedOnce, Owned
<1>5. RegistryFits
  BY <1>1 DEF Init, RegistryFits
<1> QED
  BY <1>3, <1>4, <1>5 DEF IInv

LEMMA GrownFits ==
  ASSUME mems_max \in Nat, Len(mems) \in Nat, Len(mems) <= mems_max
  PROVE  Grown \in Nat /\ Len(mems) + 1 <= Grown
<1>1. \A n \in Nat : n \div 2 \in Nat
  OBVIOUS
<1> QED
  BY <1>1 DEF Grown
(***************************************************************************)
(* nomp_update() on a slice that is not mapped.                            *)
(***************************************************************************)
LEMMA CallFields ==
  ASSUME NEW c \in Calls
  PROVE  /\ c.hptr \in Ptrs /\ c.usize \in USizes
         /\ c.idx0 \in 0 .. Extent /\ c.idx1 \in 0 .. Extent
         /\ NBytes(c) \in 0 .. Extent
<1>1. c.hptr \in Ptrs /\ c.usize \in USizes
       /\ c.idx0 \in 0 .. Extent /\ c.idx1 \in 0 .. Extent
  BY DEF Calls
<1>2. NBytes(c) \in 0 .. Extent
  BY SliceOfCall, NompMemAssumption
<1> QED
  BY <1>1, <1>2

LEMMA MapStep ==
  ASSUME IInv, NEW c \in Calls, Map(c)
  PROVE  IInv'
<1>1. PICK b \in Fresh :
        /\ mems' = Append(mems, EntryFor(c, b))
        /\ dev' = [Allocated(b, NBytes(c)) EXCEPT ![b] =
                     IF c.op = "TO"
                     THEN Copied(@, 0, host[c.hptr], Start(c), NBytes(c))
                     ELSE @]
  BY DEF Map
<1>2. up /\ up' = up /\ scratch' = scratch /\ host' = host /\ mems_max' = Grown
  BY DEF Map, Maps
<1>3. b \in Bufs /\ b \notin DOMAIN dev
  BY <1>1 DEF Fresh
<1>4. EntryFor(c, b) \in Entry /\ EntryFor(c, b).bptr = b
  BY <1>3, CallFields, EntryType DEF EntryFor
<1>5. DevOK(dev') /\ DOMAIN dev' = DOMAIN dev \cup {b}
  <2> DEFINE junk == [k \in 0 .. NBytes(c) - 1 |-> Junk]
             sent == Copied(junk, 0, host[c.hptr], Start(c), NBytes(c))
  <2>1. /\ DevOK(Allocated(b, NBytes(c)))
        /\ DOMAIN Allocated(b, NBytes(c)) = DOMAIN dev \cup {b}
        /\ Allocated(b, NBytes(c))[b] = junk
    BY <1>3, CallFields, AllocatedOK DEF IInv, TypeOK, DevOK
  <2>2. junk \in [0 .. NBytes(c) - 1 -> Byte]
    BY SliceOfCall, FreshContents
  <2>3. host[c.hptr] \in [0 .. Extent - 1 -> Byte]
    BY CallFields DEF IInv, TypeOK
  <2>4. \A k \in 0 .. NBytes(c) - 1 :
          k \in 0 .. 0 + NBytes(c) - 1 => Start(c) + (k - 0) \in 0 .. Extent - 1
    BY SliceOfCall, NompMemAssumption
  <2>5. sent \in [0 .. NBytes(c) - 1 -> Byte]
    <3> HIDE DEF junk
    <3> QED
      BY <2>2, <2>3, <2>4 DEF sent, Copied
  <2>6. junk \in Contents /\ sent \in Contents
    BY <2>2, <2>5, CallFields, ContentsOf
  <2>7. dev' = [Allocated(b, NBytes(c)) EXCEPT ![b] = IF c.op = "TO" THEN sent ELSE junk]
    BY <1>1, <2>1
  <2> HIDE DEF junk, sent
  <2> QED
    BY <2>1, <2>6, <2>7, UpdatedOK
<1>6. /\ mems' \in Seq(Entry \cup {NULL})
      /\ Len(mems') = Len(mems) + 1
      /\ mems'[Len(mems) + 1] = EntryFor(c, b)
      /\ \A i \in 1 .. Len(mems) : mems'[i] = mems[i]
  BY <1>1, <1>4 DEF IInv, TypeOK
<1>7. Mapped' = Mapped \cup {Len(mems) + 1}
  <2>1. EntryFor(c, b) # NULL
    BY <1>4, NompMemAssumption
  <2>2. Len(mems) \in Nat
    BY DEF IInv, TypeOK
  <2> QED
    BY <1>6, <2>1, <2>2 DEF Mapped
<1>8. TypeOK'
  <2>1. mems_max' \in Nat
    BY <1>2, GrownFits DEF IInv, TypeOK, RegistryFits
  <2> QED
    BY <1>2, <1>5, <1>6, <2>1 DEF IInv, TypeOK, DevOK
<1>9. OwnedOnce'
  <2>1. \A i \in Mapped : i \in 1 .. Len(mems) /\ mems'[i].bptr = mems[i].bptr
    BY <1>6 DEF Mapped
  <2>2. mems'[Len(mems) + 1].bptr = b
    BY <1>4, <1>6
  <2>3. Len(mems) + 1 \notin Mapped
    BY DEF Mapped, IInv, TypeOK
  <2>4. /\ \A i \in Mapped : mems[i].bptr \in DOMAIN dev
        /\ scratch # NULL => scratch \in DOMAIN dev
        /\ \A i, j \in Mapped : i # j => mems[i].bptr # mems[j].bptr
        /\ \A i \in Mapped : mems[i].bptr # scratch
    BY OwnersOf DEF IInv
  <2>5. b # scratch
    BY <1>3, <2>4, NompMemAssumption
  <2>6. \A i \in Mapped' : mems'[i].bptr \in DOMAIN dev'
    BY <1>5, <1>7, <2>1, <2>2, <2>4
  <2>7. \A i, j \in Mapped' : i # j => mems'[i].bptr # mems'[j].bptr
    BY <1>3, <1>7, <2>1, <2>2, <2>4
  <2>8. \A i \in Mapped' : mems'[i].bptr # scratch'
    BY <1>2, <1>7, <2>1, <2>2, <2>4, <2>5
  <2>9. scratch' # NULL => scratch' \in DOMAIN dev'
    BY <1>2, <1>5, <2>4
  <2> QED
    BY <2>6, <2>7, <2>8, <2>9, OwnedOnceNext
<1>10. RegistryFits'
  <2>1. Len(mems) + 1 <= mems_max'
    BY <1>2, GrownFits DEF IInv, TypeOK, RegistryFits
  <2> QED
    BY <1>2, <1>6, <2>1 DEF IInv, RegistryFits
<1> QED
  BY <1>8, <1>9, <1>10 DEF IInv
\* Only mems has grown, or a buffer that nobody owns is left on the device.
LEMMA FailedMapStep ==
  ASSUME IInv, NEW c \in Calls, MapWithoutMemory(c) \/ MapWithoutCopy(c)
  PROVE  IInv'
<1>1. /\ up' = up /\ scratch' = scratch /\ host' = host /\ mems' = mems
      /\ mems_max' = Grown /\ up
  BY DEF MapWithoutMemory, MapWithoutCopy, Maps
<1>2. DevOK(dev') /\ DOMAIN dev \subseteq DOMAIN dev'
  <2>1. DevOK(dev)
    BY DEF IInv, TypeOK, DevOK
  <2>2. CASE MapWithoutMemory(c)
    BY <2>1, <2>2 DEF MapWithoutMemory
  <2>3. CASE MapWithoutCopy(c)
    <3>1. PICK b \in Fresh : dev' = Allocated(b, NBytes(c))
      BY <2>3 DEF MapWithoutCopy
    <3> QED
      BY <2>1, <3>1, CallFields, AllocatedOK DEF Fresh
  <2> QED
    BY <2>2, <2>3
<1>3. mems_max' \in Nat /\ Len(mems) <= mems_max'
  BY <1>1, GrownFits DEF IInv, TypeOK, RegistryFits
<1>4. TypeOK'
  BY <1>1, <1>2, <1>3 DEF IInv, TypeOK, DevOK
<1>5. OwnedOnce'
  BY <1>1, <1>2, SameOwners DEF IInv
<1>6. RegistryFits'
  BY <1>1, <1>3 DEF IInv, RegistryFits
<1> QED
  BY <1>4, <1>5, <1>6 DEF IInv

(***************************************************************************)
(* nomp_update() on a slice that entry i contains.                         *)
(***************************************************************************)
\* A step that only changes the contents of buffers and arrays.
LEMMA ContentsStep ==
  ASSUME IInv, UNCHANGED <<up, mems, mems_max, scratch>>,
         DevOK(dev'), DOMAIN dev' = DOMAIN dev,
         host' \in [Ptrs -> [0 .. Extent - 1 -> Byte]]
  PROVE  IInv'
<1>1. TypeOK'
  BY DEF IInv, TypeOK, DevOK
<1>2. OwnedOnce'
  BY SameOwners DEF IInv
<1>3. RegistryFits'
  BY DEF IInv, RegistryFits
<1> QED
  BY <1>1, <1>2, <1>3 DEF IInv

LEMMA BufferOf ==
  ASSUME IInv, NEW i \in Mapped
  PROVE  /\ mems[i].bptr \in DOMAIN dev
         /\ \E n \in 0 .. Extent : dev[mems[i].bptr] \in [0 .. n - 1 -> Byte]
<1>1. mems[i].bptr \in DOMAIN dev
  BY OwnersOf DEF IInv
<1>2. dev[mems[i].bptr] \in Contents
  BY <1>1 DEF IInv, TypeOK
<1> QED
  BY <1>1, <1>2 DEF Contents

LEMMA OffsetType ==
  ASSUME TypeOK, NEW c \in Calls, NEW i \in Mapped
  PROVE  Offset(mems[i], c) \in Int
<1>1. c.idx0 \in Nat /\ mems[i].idx0 \in Nat
  BY CallFields, MappedEntry, NompMemAssumption
<1>2. c.usize \in Nat
  BY CallFields, NompMemAssumption
<1>3. \A x, y, u \in Nat : (x - y) * u \in Int
  OBVIOUS
<1> QED
  BY <1>1, <1>2, <1>3 DEF Offset

LEMMA CopyToStep ==
  ASSUME IInv, NEW c \in Calls, CopyTo(c)
  PROVE  IInv'
<1>1. PICK i \in Mapped :
        /\ InBounds(mems[i], c)
        /\ dev' = [dev EXCEPT ![mems[i].bptr] =
                     Copied(@, Offset(mems[i], c), host[c.hptr], Start(c), NBytes(c))]
  BY DEF CopyTo
<1> DEFINE at == Offset(mems[i], c)
           old == dev[mems[i].bptr]
           new == Copied(old, at, host[c.hptr], Start(c), NBytes(c))
<1>2. PICK n \in 0 .. Extent : old \in [0 .. n - 1 -> Byte]
  BY BufferOf
<1>3. new \in [0 .. n - 1 -> Byte]
  <2>1. host[c.hptr] \in [0 .. Extent - 1 -> Byte]
    BY CallFields DEF IInv, TypeOK
  <2>2. at \in Int
    BY OffsetType DEF IInv
  <2>3. \A k \in 0 .. n - 1 :
          k \in at .. at + NBytes(c) - 1 => Start(c) + (k - at) \in 0 .. Extent - 1
    <3> HIDE DEF at
    <3> QED
      BY <2>2, SliceOfCall, NompMemAssumption
  <2> HIDE DEF at, old
  <2> QED
    BY <1>2, <2>1, <2>3 DEF new, Copied
<1>4. new \in Contents
  <2> HIDE DEF new
  <2> QED
    BY <1>3, ContentsOf
<1>5. DevOK(dev') /\ DOMAIN dev' = DOMAIN dev
  <2>1. mems[i].bptr \in DOMAIN dev /\ DevOK(dev)
    BY BufferOf DEF IInv, TypeOK, DevOK
  <2>2. dev' = [dev EXCEPT ![mems[i].bptr] = new]
    BY <1>1
  <2> HIDE DEF new
  <2> QED
    BY <1>4, <2>1, <2>2, UpdatedOK
<1>6. UNCHANGED <<up, mems, mems_max, scratch, host>>
  BY DEF CopyTo
<1>7. host' \in [Ptrs -> [0 .. Extent - 1 -> Byte]]
  BY <1>6 DEF IInv, TypeOK
<1> QED
  BY <1>5, <1>6, <1>7, ContentsStep

LEMMA CopyFromStep ==
  ASSUME IInv, NEW c \in Calls, CopyFrom(c)
  PROVE  IInv'
<1>1. PICK i \in Mapped :
        /\ InBounds(mems[i], c)
        /\ host' = [host EXCEPT ![c.hptr] =
                      Copied(@, Start(c), dev[mems[i].bptr],
                             Offset(mems[i], c), NBytes(c))]
  BY DEF CopyFrom
<1> DEFINE at == Offset(mems[i], c)
           buf == dev[mems[i].bptr]
           new == Copied(host[c.hptr], Start(c), buf, at, NBytes(c))
<1>2. PICK n \in 0 .. Extent : buf \in [0 .. n - 1 -> Byte]
  BY BufferOf
<1>3. new \in [0 .. Extent - 1 -> Byte]
  <2>1. host[c.hptr] \in [0 .. Extent - 1 -> Byte]
    BY CallFields DEF IInv, TypeOK
  <2>2. at \in Int
    BY OffsetType DEF IInv
  <2>3. at .. at + NBytes(c) - 1 \subseteq 0 .. n - 1
    BY <1>1, <1>2 DEF InBounds
  <2>4. \A k \in 0 .. Extent - 1 :
          k \in Start(c) .. Start(c) + NBytes(c) - 1 => at + (k - Start(c)) \in 0 .. n - 1
    <3> HIDE DEF at
    <3> QED
      BY <2>2, <2>3, SliceOfCall, NompMemAssumption
  <2> HIDE DEF at, buf
  <2> QED
    BY <1>2, <2>1, <2>4 DEF new, Copied
<1>4. UNCHANGED <<up, mems, mems_max, scratch, dev>>
  BY DEF CopyFrom
<1>5. host' \in [Ptrs -> [0 .. Extent - 1 -> Byte]]
  <2>1. host' = [host EXCEPT ![c.hptr] = new]
    BY <1>1
  <2>2. c.hptr \in Ptrs
    BY CallFields
  <2> HIDE DEF new
  <2> QED
    BY <1>3, <2>1, <2>2 DEF IInv, TypeOK
<1>6. DevOK(dev') /\ DOMAIN dev' = DOMAIN dev
  BY <1>4 DEF IInv, TypeOK, DevOK
<1> QED
  BY <1>4, <1>5, <1>6, ContentsStep
LEMMA ReallocateStep ==
  ASSUME IInv, NEW c \in Calls, Reallocate(c)
  PROVE  IInv'
<1>1. PICK i \in Mapped, b \in Fresh :
        /\ mems' = [mems EXCEPT ![i] = EntryFor(mems[i], b)]
        /\ dev' = Allocated(b, NBytes(c))
  BY DEF Reallocate
<1>2. UNCHANGED <<up, mems_max, scratch, host>>
  BY DEF Reallocate
<1>3. b \in Bufs /\ b \notin DOMAIN dev
  BY DEF Fresh
<1>4. EntryFor(mems[i], b) \in Entry /\ EntryFor(mems[i], b).bptr = b
  BY <1>3, MappedEntry, EntryType DEF IInv, EntryFor
<1>5. DevOK(dev') /\ DOMAIN dev' = DOMAIN dev \cup {b}
  BY <1>1, <1>3, CallFields, AllocatedOK DEF IInv, TypeOK, DevOK
<1>6. /\ i \in 1 .. Len(mems)
      /\ mems' \in Seq(Entry \cup {NULL})
      /\ Len(mems') = Len(mems)
      /\ mems'[i] = EntryFor(mems[i], b)
      /\ \A j \in 1 .. Len(mems) : j # i => mems'[j] = mems[j]
  BY <1>1, <1>4 DEF IInv, TypeOK, Mapped
<1>7. Mapped' = Mapped
  <2>1. EntryFor(mems[i], b) # NULL
    BY <1>4, NompMemAssumption
  <2> QED
    BY <1>6, <2>1 DEF Mapped
<1>8. TypeOK'
  BY <1>2, <1>5, <1>6 DEF IInv, TypeOK, DevOK
<1>9. OwnedOnce'
  <2>1. \A j \in Mapped : j # i => mems'[j].bptr = mems[j].bptr
    BY <1>6 DEF Mapped
  <2>2. mems'[i].bptr = b
    BY <1>4, <1>6
  <2>3. /\ \A j \in Mapped : mems[j].bptr \in DOMAIN dev
        /\ scratch # NULL => scratch \in DOMAIN dev
        /\ \A j, k \in Mapped : j # k => mems[j].bptr # mems[k].bptr
        /\ \A j \in Mapped : mems[j].bptr # scratch
    BY OwnersOf DEF IInv
  <2>4. b # scratch
    BY <1>3, <2>3, NompMemAssumption
  <2>5. \A j \in Mapped' : mems'[j].bptr \in DOMAIN dev'
    BY <1>5, <1>7, <2>1, <2>2, <2>3
  <2>6. \A j, k \in Mapped' : j # k => mems'[j].bptr # mems'[k].bptr
    BY <1>3, <1>7, <2>1, <2>2, <2>3
  <2>7. \A j \in Mapped' : mems'[j].bptr # scratch'
    BY <1>2, <1>7, <2>1, <2>2, <2>3, <2>4
  <2>8. scratch' # NULL => scratch' \in DOMAIN dev'
    BY <1>2, <1>5, <2>3
  <2> QED
    BY <2>5, <2>6, <2>7, <2>8, OwnedOnceNext
<1>10. RegistryFits'
  BY <1>2, <1>6 DEF IInv, RegistryFits
<1> QED
  BY <1>8, <1>9, <1>10 DEF IInv

\* A step after which the entries of S are gone and the other owners are as
\* before: NOMP_FREE and a stopped nomp_finalize().
LEMMA ReleaseStep ==
  ASSUME IInv, NEW S \in SUBSET Mapped,
         UNCHANGED <<up, scratch, host, mems_max>>,
         mems' \in Seq(Entry \cup {NULL}), Len(mems') = Len(mems),
         \A i \in 1 .. Len(mems) : mems'[i] = IF i \in S THEN NULL ELSE mems[i],
         dev' = Without({mems[i].bptr : i \in S}), up
  PROVE  IInv'
<1>1. Mapped' = Mapped \ S
  BY DEF Mapped
<1>2. /\ \A i \in Mapped : mems[i].bptr \in DOMAIN dev
      /\ scratch # NULL => scratch \in DOMAIN dev
      /\ \A i, j \in Mapped : i # j => mems[i].bptr # mems[j].bptr
      /\ \A i \in Mapped : mems[i].bptr # scratch
  BY OwnersOf DEF IInv
<1>3. DevOK(dev') /\ DOMAIN dev' = DOMAIN dev \ {mems[i].bptr : i \in S}
  <2>1. DevOK(dev)
    BY DEF IInv, TypeOK, DevOK
  <2> QED
    BY <2>1, WithoutOK
<1>4. \A i \in Mapped \ S : mems'[i] = mems[i]
  BY DEF Mapped
<1>5. TypeOK'
  BY <1>3 DEF IInv, TypeOK, DevOK
<1>6. OwnedOnce'
  <2>1. \A i \in Mapped' : mems'[i].bptr \in DOMAIN dev'
    BY <1>1, <1>2, <1>3, <1>4
  <2>2. \A i, j \in Mapped' : i # j => mems'[i].bptr # mems'[j].bptr
    BY <1>1, <1>2, <1>4
  <2>3. \A i \in Mapped' : mems'[i].bptr # scratch'
    BY <1>1, <1>2, <1>4
  <2>4. scratch' # NULL => scratch' \in DOMAIN dev'
    BY <1>2, <1>3
  <2> QED
    BY <2>1, <2>2, <2>3, <2>4, OwnedOnceNext
<1>7. RegistryFits'
  BY DEF IInv, RegistryFits
<1> QED
  BY <1>5, <1>6, <1>7 DEF IInv

LEMMA FreeStep ==
  ASSUME IInv, NEW c \in Calls, Free(c)
  PROVE  IInv'
<1>1. PICK i \in Mapped : dev' = Without({mems[i].bptr}) /\ mems' = Cleanup(i)
  BY DEF Free
<1>2. UNCHANGED <<up, mems_max, scratch, host>> /\ up
  BY DEF Free, Updates
<1>3. /\ mems' \in Seq(Entry \cup {NULL}) /\ Len(mems') = Len(mems)
      /\ \A j \in 1 .. Len(mems) : mems'[j] = IF j \in {i} THEN NULL ELSE mems[j]
  BY <1>1 DEF Cleanup, IInv, TypeOK, Mapped
<1>4. dev' = Without({mems[j].bptr : j \in {i}})
  <2>1. {mems[j].bptr : j \in {i}} = {mems[i].bptr}
    OBVIOUS
  <2> QED
    BY <1>1, <2>1
<1> QED
  BY <1>2, <1>3, <1>4, ReleaseStep

LEMMA UpdateStep ==
  ASSUME IInv, NEW c \in Calls, Update(c)
  PROVE  IInv'
<1>1. CASE Map(c)
  BY <1>1, MapStep
<1>2. CASE MapWithoutMemory(c) \/ MapWithoutCopy(c)
  BY <1>2, FailedMapStep
<1>3. CASE Reallocate(c)
  BY <1>3, ReallocateStep
<1>4. CASE CopyTo(c)
  BY <1>4, CopyToStep
<1>5. CASE CopyFrom(c)
  BY <1>5, CopyFromStep
<1>6. CASE Free(c)
  BY <1>6, FreeStep
<1>7. CASE Refuse(c)
  <2>1. UNCHANGED vars
    BY <1>7 DEF Refuse
  <2> QED
    BY <2>1 DEF vars, IInv, TypeOK, OwnedOnce, RegistryFits, Owned, Mapped
<1> QED
  BY <1>1, <1>2, <1>3, <1>4, <1>5, <1>6, <1>7 DEF Update

(***************************************************************************)
(* Kernels, the host, and the two ends of a session.                       *)
(***************************************************************************)
LEMMA StoreStep ==
  ASSUME IInv, NEW p \in Ptrs, NEW e, NEW u, NEW v \in Values,
         KernelStore(p, e, u, v) \/ HostStore(p, e, u, v)
  PROVE  IInv'
<1>1. CASE KernelStore(p, e, u, v)
  <2>1. PICK i \in Mapped :
          dev' = [dev EXCEPT ![mems[i].bptr] = Stored(@, e, u, v)]
    BY <1>1 DEF KernelStore
  <2>2. UNCHANGED <<up, mems, mems_max, scratch, host>>
    BY <1>1 DEF KernelStore
  <2>3. PICK n \in 0 .. Extent : dev[mems[i].bptr] \in [0 .. n - 1 -> Byte]
    BY BufferOf
  <2>4. Stored(dev[mems[i].bptr], e, u, v) \in Contents
    BY <2>3, StoredContents, ContentsOf
  <2>5. mems[i].bptr \in DOMAIN dev /\ DevOK(dev)
    BY BufferOf DEF IInv, TypeOK, DevOK
  <2>6. dev' = [dev EXCEPT ![mems[i].bptr] = Stored(dev[mems[i].bptr], e, u, v)]
    BY <2>1
  <2>7. DevOK(dev') /\ DOMAIN dev' = DOMAIN dev
    BY <2>4, <2>5, <2>6, UpdatedOK
  <2>8. host' \in [Ptrs -> [0 .. Extent - 1 -> Byte]]
    BY <2>2 DEF IInv, TypeOK
  <2> QED
    BY <2>2, <2>7, <2>8, ContentsStep
<1>2. CASE HostStore(p, e, u, v)
  <2>1. /\ UNCHANGED <<up, mems, mems_max, dev, scratch>>
        /\ host' = [host EXCEPT ![p] = Stored(@, e, u, v)]
    BY <1>2 DEF HostStore
  <2>2. host \in [Ptrs -> [0 .. Extent - 1 -> Byte]]
    BY DEF IInv, TypeOK
  <2>3. Stored(host[p], e, u, v) \in [0 .. Extent - 1 -> Byte]
    BY <2>2, StoredContents
  <2>4. host' \in [Ptrs -> [0 .. Extent - 1 -> Byte]]
    BY <2>1, <2>2, <2>3
  <2>5. DevOK(dev') /\ DOMAIN dev' = DOMAIN dev
    BY <2>1 DEF IInv, TypeOK, DevOK
  <2> QED
    BY <2>1, <2>4, <2>5, ContentsStep
<1> QED
  BY <1>1, <1>2

LEMMA InitializeStep ==
  ASSUME IInv, Initialize
  PROVE  IInv'
<1>1. PICK b \in Fresh : scratch' = b /\ dev' = Allocated(b, 0)
  BY DEF Initialize
<1>2. up' = TRUE /\ UNCHANGED <<mems, mems_max, host>> /\ ~up
  BY DEF Initialize
<1>3. b \in Bufs /\ b # NULL
  BY NompMemAssumption DEF Fresh
<1>4. mems = <<>> /\ mems_max = 0
  BY <1>2 DEF IInv, RegistryFits
<1>5. Mapped' = {}
  BY <1>2, <1>4 DEF Mapped
<1>6. DevOK(dev') /\ DOMAIN dev' = DOMAIN dev \cup {b}
  <2>1. 0 \in 0 .. Extent
    BY NompMemAssumption
  <2> QED
    BY <1>1, <1>3, <2>1, AllocatedOK DEF IInv, TypeOK, DevOK
<1>7. TypeOK'
  BY <1>1, <1>2, <1>3, <1>6 DEF IInv, TypeOK, DevOK
<1>8. OwnedOnce'
  BY <1>1, <1>5, <1>6, OwnedOnceNext
<1>9. RegistryFits'
  BY <1>1, <1>2, <1>3 DEF IInv, RegistryFits
<1> QED
  BY <1>7, <1>8, <1>9 DEF IInv

LEMMA FinalizeStep ==
  ASSUME IInv,
         Finalize \/ FinalizeStopsAtScratch \/ FinalizeStopsAfterScratch
  PROVE  IInv'
<1>1. /\ mems' = <<>> /\ mems_max' = 0 /\ host' = host
      /\ \E B : dev' = Without(B)
  BY DEF Finalize, FinalizeStopsAtScratch, FinalizeStopsAfterScratch, FreesAll
<1>2. Mapped' = {}
  BY <1>1 DEF Mapped
<1>3. DevOK(dev')
  <2>1. DevOK(dev)
    BY DEF IInv, TypeOK, DevOK
  <2> QED
    BY <1>1, <2>1, WithoutOK
<1>4. /\ up' \in BOOLEAN /\ scratch' \in Bufs \cup {NULL}
      /\ scratch' # NULL => up'
      /\ scratch' # NULL => scratch' \in DOMAIN dev'
  <2>1. CASE Finalize \/ FinalizeStopsAfterScratch
    BY <2>1 DEF Finalize, FinalizeStopsAfterScratch, FreesAll, IInv, TypeOK
  <2>2. CASE FinalizeStopsAtScratch
    <3>1. up' = up /\ scratch' = scratch /\ dev' = Without(Owned \ {scratch})
      BY <2>2 DEF FinalizeStopsAtScratch
    <3>2. DOMAIN dev' = DOMAIN dev \ (Owned \ {scratch})
      BY <3>1 DEF Without
    <3>3. scratch # NULL => scratch \in DOMAIN dev
      BY OwnersOf DEF IInv
    <3> QED
      BY <3>1, <3>2, <3>3 DEF IInv, TypeOK, RegistryFits
  <2> QED
    BY <2>1, <2>2
<1>5. mems' \in Seq(Entry \cup {NULL}) /\ Len(mems') = 0
  BY <1>1
<1>6. TypeOK'
  BY <1>1, <1>3, <1>4, <1>5 DEF IInv, TypeOK, DevOK
<1>7. OwnedOnce'
  BY <1>2, <1>4, OwnedOnceNext
<1>8. RegistryFits'
  BY <1>1, <1>4, <1>5 DEF RegistryFits
<1> QED
  BY <1>6, <1>7, <1>8 DEF IInv

LEMMA FinalizeStopsStep ==
  ASSUME IInv, NEW k \in 1 .. Len(mems), FinalizeStopsAt(k)
  PROVE  IInv'
<1> DEFINE S == {j \in Mapped : j < k}
<1>1. /\ UNCHANGED <<up, mems_max, scratch, host>> /\ up
      /\ dev' = Without({mems[i].bptr : i \in S})
      /\ mems' = [i \in 1 .. Len(mems) |-> IF i < k THEN NULL ELSE mems[i]]
  BY DEF FinalizeStopsAt
<1>2. /\ mems \in Seq(Entry \cup {NULL}) /\ Len(mems) \in Nat
      /\ \A i \in 1 .. Len(mems) : mems[i] \in Entry \cup {NULL}
  BY DEF IInv, TypeOK
<1>3. mems' \in Seq(Entry \cup {NULL}) /\ Len(mems') = Len(mems)
  BY <1>1, <1>2
<1>4. \A i \in 1 .. Len(mems) : mems'[i] = IF i \in S THEN NULL ELSE mems[i]
  BY <1>1 DEF Mapped
<1> HIDE DEF S
<1>5. S \in SUBSET Mapped
  BY DEF S
<1> QED
  BY <1>1, <1>3, <1>4, <1>5, ReleaseStep

LEMMA NextIInv ==
  ASSUME IInv, [Next]_vars
  PROVE  IInv'
<1>1. CASE Initialize
  BY <1>1, InitializeStep
<1>2. CASE \E c \in Calls : Update(c)
  BY <1>2, UpdateStep
<1>3. CASE \E p \in Ptrs, e \in 0 .. Extent - 1, u \in USizes, v \in Values :
             KernelStore(p, e, u, v) \/ HostStore(p, e, u, v)
  BY <1>3, StoreStep
<1>4. CASE Finalize \/ FinalizeStopsAtScratch \/ FinalizeStopsAfterScratch
  BY <1>4, FinalizeStep
<1>5. CASE \E k \in 1 .. Len(mems) : FinalizeStopsAt(k)
  BY <1>5, FinalizeStopsStep
<1>6. CASE UNCHANGED vars
  BY <1>6 DEF vars, IInv, TypeOK, OwnedOnce, RegistryFits, Owned, Mapped
<1> QED
  BY <1>1, <1>2, <1>3, <1>4, <1>5, <1>6 DEF Next

(***************************************************************************)
(* The theorems.                                                           *)
(***************************************************************************)
\* The inductive invariant holds of every behaviour.
THEOREM Inductive == Spec => []IInv
<1>1. Init => IInv
  BY InitIInv
<1>2. IInv /\ [Next]_vars => IInv'
  BY NextIInv
<1> QED
  BY <1>1, <1>2, PTL DEF Spec

\* The registry, the device and the host arrays keep their types.
THEOREM Typing == Spec => []TypeOK
<1>1. IInv => TypeOK
  BY DEF IInv
<1> QED
  BY <1>1, Inductive, PTL

\* nomp_update() and nomp_finalize() never give a buffer two owners and never
\* keep a buffer that was freed, whatever the client does and the driver fails.
THEOREM Ownership == Spec => []OwnedOnce
<1>1. IInv => OwnedOnce
  BY DEF IInv
<1> QED
  BY <1>1, Inductive, PTL

\* mems is always large enough for the next entry to be written, and a library
\* that is down holds no entry and no scratch buffer.
THEOREM Capacity == Spec => []RegistryFits
<1>1. IInv => RegistryFits
  BY DEF IInv
<1> QED
  BY <1>1, Inductive, PTL
(***************************************************************************)
(* Slots of the registry.                                                  *)
(***************************************************************************)
LEMMA KeptEntry ==
  ASSUME TypeOK, NEW i \in 1 .. Len(mems), mems[i] # NULL
  PROVE  mems[i] = EntryFor(mems[i], mems[i].bptr)
<1>1. mems[i] \in Entry
  BY DEF TypeOK
<1> QED
  BY <1>1 DEF Entry, EntryFor

LEMMA SameSlots ==
  ASSUME TypeOK, mems' = mems
  PROVE  KeepsSlots
BY KeptEntry DEF KeepsSlots

LEMMA UpdateKeepsSlots ==
  ASSUME IInv, NEW c \in Calls, Update(c)
  PROVE  KeepsSlots
<1>1. CASE Map(c)
  <2>1. PICK b \in Fresh : mems' = Append(mems, EntryFor(c, b))
    BY <1>1 DEF Map
  <2>2. /\ Len(mems') = Len(mems) + 1
        /\ \A i \in 1 .. Len(mems) : mems'[i] = mems[i]
    BY <2>1 DEF IInv, TypeOK
  <2> QED
    BY <2>2, KeptEntry DEF KeepsSlots, IInv
<1>2. CASE Reallocate(c)
  <2>1. PICK i \in Mapped, b \in Fresh : mems' = [mems EXCEPT ![i] = EntryFor(mems[i], b)]
    BY <1>2 DEF Reallocate
  <2>2. /\ i \in 1 .. Len(mems) /\ mems[i] # NULL
        /\ Len(mems') = Len(mems)
        /\ mems'[i] = EntryFor(mems[i], b)
        /\ \A j \in 1 .. Len(mems) : j # i => mems'[j] = mems[j]
    BY <2>1 DEF IInv, TypeOK, Mapped
  <2>3. mems'[i] = EntryFor(mems[i], mems'[i].bptr)
    BY <2>2 DEF EntryFor
  <2> QED
    BY <2>2, <2>3, KeptEntry DEF KeepsSlots, IInv
<1>3. CASE Free(c)
  <2>1. PICK i \in Mapped : mems' = [mems EXCEPT ![i] = NULL]
    BY <1>3 DEF Free, Cleanup
  <2>2. /\ Len(mems') = Len(mems)
        /\ \A j \in 1 .. Len(mems) : mems'[j] # NULL => mems'[j] = mems[j]
    BY <2>1 DEF IInv, TypeOK, Mapped
  <2> QED
    BY <2>2, KeptEntry DEF KeepsSlots, IInv
<1>4. CASE MapWithoutMemory(c) \/ MapWithoutCopy(c) \/ CopyTo(c) \/ CopyFrom(c)
             \/ Refuse(c)
  <2>1. mems' = mems
    BY <1>4 DEF MapWithoutMemory, MapWithoutCopy, CopyTo, CopyFrom, Refuse, vars
  <2> QED
    BY <2>1, SameSlots DEF IInv
<1> QED
  BY <1>1, <1>2, <1>3, <1>4 DEF Update

LEMMA NextKeepsSlots ==
  ASSUME IInv, Next
  PROVE  KeepsSlots
<1>1. CASE Initialize
  BY <1>1, SameSlots DEF Initialize, IInv
<1>2. CASE \E c \in Calls : Update(c)
  BY <1>2, UpdateKeepsSlots
<1>3. CASE \E p \in Ptrs, e \in 0 .. Extent - 1, u \in USizes, v \in Values :
             KernelStore(p, e, u, v) \/ HostStore(p, e, u, v)
  <2>1. mems' = mems
    BY <1>3 DEF KernelStore, HostStore
  <2> QED
    BY <2>1, SameSlots DEF IInv
<1>4. CASE Finalize \/ FinalizeStopsAtScratch \/ FinalizeStopsAfterScratch
  BY <1>4 DEF Finalize, FinalizeStopsAtScratch, FinalizeStopsAfterScratch,
              FreesAll, KeepsSlots
<1>5. CASE \E k \in 1 .. Len(mems) : FinalizeStopsAt(k)
  <2>1. PICK k \in 1 .. Len(mems) :
          mems' = [i \in 1 .. Len(mems) |-> IF i < k THEN NULL ELSE mems[i]]
    BY <1>5 DEF FinalizeStopsAt
  <2>2. /\ Len(mems') = Len(mems)
        /\ \A j \in 1 .. Len(mems) : mems'[j] # NULL => mems'[j] = mems[j]
    BY <2>1 DEF IInv, TypeOK
  <2> QED
    BY <2>2, KeptEntry DEF KeepsSlots, IInv
<1> QED
  BY <1>1, <1>2, <1>3, <1>4, <1>5 DEF Next

\* An index nomp_update() computed stays good for the life of its entry: no
\* step moves an entry, fills a freed slot, or changes the slice of one.
THEOREM StableSlots == Spec => SlotsStable
<1>1. IInv /\ [Next]_vars => [KeepsSlots]_vars
  BY NextKeepsSlots
<1> QED
  BY <1>1, Inductive, PTL DEF Spec, SlotsStable
(***************************************************************************)
(* Buffers nobody owns.                                                    *)
(***************************************************************************)
LEMMA SameOrphans ==
  ASSUME DOMAIN dev' = DOMAIN dev, mems' = mems, scratch' = scratch
  PROVE  LosesOnlyNewBuffers
BY DEF LosesOnlyNewBuffers, Orphans, Owned, Mapped

LEMMA NewOwner ==
  ASSUME NEW b, DOMAIN dev' = DOMAIN dev \cup {b}, Owned \cup {b} \subseteq Owned'
  PROVE  LosesOnlyNewBuffers
BY DEF LosesOnlyNewBuffers, Orphans

\* Buffers go together with the entries that owned them.
LEMMA ReleasedOwners ==
  ASSUME NEW S \in SUBSET Mapped, scratch' = scratch,
         \A i \in Mapped \ S : i \in Mapped' /\ mems'[i] = mems[i],
         dev' = Without({mems[i].bptr : i \in S})
  PROVE  LosesOnlyNewBuffers
<1>1. DOMAIN dev' = DOMAIN dev \ {mems[i].bptr : i \in S}
  BY DEF Without
<1>2. Owned \ {mems[i].bptr : i \in S} \subseteq Owned'
  BY DEF Owned
<1> QED
  BY <1>1, <1>2 DEF LosesOnlyNewBuffers, Orphans

LEMMA UpdateOrphans ==
  ASSUME IInv, NEW c \in Calls, Update(c)
  PROVE  LosesOnlyNewBuffers
<1>1. CASE Map(c)
  <2>1. PICK b \in Fresh :
          /\ mems' = Append(mems, EntryFor(c, b))
          /\ DOMAIN dev' = DOMAIN Allocated(b, NBytes(c))
    BY <1>1 DEF Map
  <2>2. DOMAIN dev' = DOMAIN dev \cup {b}
    BY <2>1 DEF Allocated
  <2>3. EntryFor(c, b) # NULL /\ EntryFor(c, b).bptr = b
    BY CallFields, EntryType, NompMemAssumption DEF Fresh, EntryFor
  <2>4. /\ Len(mems') = Len(mems) + 1 /\ Len(mems) \in Nat
        /\ mems'[Len(mems) + 1] = EntryFor(c, b)
        /\ \A i \in 1 .. Len(mems) : mems'[i] = mems[i]
    BY <2>1 DEF IInv, TypeOK
  <2>5. /\ Len(mems) + 1 \in Mapped' /\ mems'[Len(mems) + 1].bptr = b
        /\ \A i \in Mapped : i \in Mapped' /\ mems'[i] = mems[i]
    BY <2>3, <2>4 DEF Mapped
  <2>6. scratch' = scratch
    BY <1>1 DEF Map, Maps
  <2>7. b \in Owned' /\ Owned \subseteq Owned'
    BY <2>5, <2>6 DEF Owned
  <2> QED
    BY <2>2, <2>7, NewOwner
<1>2. CASE MapWithoutCopy(c) \/ Reallocate(c)
  BY <1>2 DEF LosesOnlyNewBuffers
<1>3. CASE MapWithoutMemory(c) \/ CopyTo(c) \/ CopyFrom(c) \/ Refuse(c)
  <2>1. DOMAIN dev' = DOMAIN dev /\ mems' = mems /\ scratch' = scratch
    BY <1>3 DEF MapWithoutMemory, Maps, CopyTo, CopyFrom, Refuse, vars
  <2> QED
    BY <2>1, SameOrphans
<1>4. CASE Free(c)
  <2>1. PICK i \in Mapped : dev' = Without({mems[i].bptr}) /\ mems' = Cleanup(i)
    BY <1>4 DEF Free
  <2>2. \A j \in Mapped \ {i} : j \in Mapped' /\ mems'[j] = mems[j]
    BY <2>1 DEF Cleanup, Mapped, IInv, TypeOK
  <2>3. {mems[j].bptr : j \in {i}} = {mems[i].bptr}
    OBVIOUS
  <2>4. scratch' = scratch
    BY <1>4 DEF Free
  <2> QED
    BY <2>1, <2>2, <2>3, <2>4, ReleasedOwners
<1> QED
  BY <1>1, <1>2, <1>3, <1>4 DEF Update

LEMMA NextOrphans ==
  ASSUME IInv, Next
  PROVE  LosesOnlyNewBuffers
<1>1. CASE Initialize
  <2>1. PICK b \in Fresh : scratch' = b /\ dev' = Allocated(b, 0)
    BY <1>1 DEF Initialize
  <2>2. mems' = mems /\ scratch = NULL
    BY <1>1 DEF Initialize, IInv, RegistryFits
  <2>3. DOMAIN dev' = DOMAIN dev \cup {b} /\ b # NULL
    BY <2>1, NompMemAssumption DEF Allocated, Fresh
  <2>4. Owned \cup {b} \subseteq Owned'
    BY <2>1, <2>2, <2>3 DEF Owned, Mapped
  <2> QED
    BY <2>3, <2>4, NewOwner
<1>2. CASE \E c \in Calls : Update(c)
  BY <1>2, UpdateOrphans
<1>3. CASE \E p \in Ptrs, e \in 0 .. Extent - 1, u \in USizes, v \in Values :
             KernelStore(p, e, u, v) \/ HostStore(p, e, u, v)
  <2>1. DOMAIN dev' = DOMAIN dev /\ mems' = mems /\ scratch' = scratch
    BY <1>3 DEF KernelStore, HostStore
  <2> QED
    BY <2>1, SameOrphans
<1>4. CASE Finalize \/ FinalizeStopsAtScratch \/ FinalizeStopsAfterScratch
  <2>1. Mapped' = {}
    BY <1>4 DEF Finalize, FinalizeStopsAtScratch, FinalizeStopsAfterScratch,
                FreesAll, Mapped
  <2>2. CASE Finalize \/ FinalizeStopsAfterScratch
    BY <2>1, <2>2 DEF Finalize, FinalizeStopsAfterScratch, FreesAll, Without,
                      LosesOnlyNewBuffers, Orphans, Owned
  <2>3. CASE FinalizeStopsAtScratch
    <3>1. DOMAIN dev' = DOMAIN dev \ (Owned \ {scratch}) /\ scratch' = scratch
      BY <2>3 DEF FinalizeStopsAtScratch, Without
    <3>2. Owned' = {scratch} \ {NULL}
      BY <2>1, <3>1 DEF Owned
    <3>3. scratch # NULL
      BY <2>3 DEF FinalizeStopsAtScratch
    <3> QED
      BY <3>1, <3>2, <3>3 DEF LosesOnlyNewBuffers, Orphans
  <2> QED
    BY <1>4, <2>2, <2>3
<1>5. CASE \E k \in 1 .. Len(mems) : FinalizeStopsAt(k)
  <2>1. PICK k \in 1 .. Len(mems) : FinalizeStopsAt(k)
    BY <1>5
  <2> DEFINE S == {j \in Mapped : j < k}
  <2>2. /\ dev' = Without({mems[i].bptr : i \in S}) /\ scratch' = scratch
        /\ mems' = [i \in 1 .. Len(mems) |-> IF i < k THEN NULL ELSE mems[i]]
    BY <2>1 DEF FinalizeStopsAt
  <2>3. \A i \in Mapped \ S : i \in Mapped' /\ mems'[i] = mems[i]
    <3>1. \A i \in Mapped \ S : i \in 1 .. Len(mems) /\ ~(i < k) /\ mems[i] # NULL
      BY DEF Mapped
    <3>2. Len(mems') = Len(mems)
      BY <2>2 DEF IInv, TypeOK
    <3> QED
      BY <2>2, <3>1, <3>2 DEF Mapped
  <2>4. S \in SUBSET Mapped
    OBVIOUS
  <2> HIDE DEF S
  <2> QED
    BY <2>2, <2>3, <2>4, ReleasedOwners
<1> QED
  BY <1>1, <1>2, <1>3, <1>4, <1>5 DEF Next

\* Device memory is lost to nomp_finalize() only by a first copy that fails or
\* by NOMP_ALLOC on a mapped slice.
THEOREM BuffersAreNotLost == Spec => OrphansOnlyFromNewBuffers
<1>1. IInv /\ [Next]_vars => [LosesOnlyNewBuffers]_vars
  BY NextOrphans
<1> QED
  BY <1>1, Inductive, PTL DEF Spec, OrphansOnlyFromNewBuffers
=============================================================================

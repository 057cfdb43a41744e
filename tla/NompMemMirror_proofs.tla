------------------------ MODULE NompMemMirror_proofs ------------------------
(***************************************************************************)
(* The registry and its buffers act as one copy of the mapped bytes, for   *)
(* every set of arrays, extent, element sizes and driver.  The client uses *)
(* one element size for an array, overlaps no slices and allocates no      *)
(* slice twice; it may free a part of a slice, which frees all of it.      *)
(***************************************************************************)
EXTENDS NompMemCopies_proofs

Bytes == 0 .. Extent - 1

\* Slices stay in their arrays, and those of one array are disjoint: what
\* nomp_update() finds by bytes is the only copy of these bytes.
SlicesApart ==
  /\ \A i \in Mapped : End(mems[i]) <= Extent
  /\ \A i, j \in Mapped :
       i # j /\ mems[i].hptr = mems[j].hptr => Slice(mems[i]) \cap Slice(mems[j]) = {}

MInv == IInv /\ BuffersFit /\ SlicesApart

\* The entries that hold a copy of byte k of array p.
Holders(p, k) == {i \in Mapped : mems[i].hptr = p /\ k \in Slice(mems[i])}

\* The copy entry i has of byte k of its array.
CopyIn(i, k) == dev[mems[i].bptr][k - Start(mems[i])]

LEMMA CopiesOfHolders ==
  ASSUME NEW p, NEW k
  PROVE  CopiesOf(p, k) = {CopyIn(i, k) : i \in Holders(p, k)}
BY DEF CopiesOf, CopyIn, Holders

\* A mapped byte has one copy.
LEMMA OneHolder ==
  ASSUME SlicesApart, NEW p, NEW k, NEW i \in Holders(p, k)
  PROVE  Holders(p, k) = {i} /\ CopiesOf(p, k) = {CopyIn(i, k)}
<1>1. Holders(p, k) = {i}
  BY DEF Holders, SlicesApart
<1> QED BY <1>1, CopiesOfHolders

\* A step that leaves the holders of a byte and its copies alone.
LEMMA SameCopies ==
  ASSUME NEW p, NEW k, Holders(p, k)' = Holders(p, k),
         \A i \in Holders(p, k) : CopyIn(i, k)' = CopyIn(i, k)
  PROVE  CopiesOf(p, k)' = CopiesOf(p, k)
<1>1. CopiesOf(p, k)' = {CopyIn(i, k)' : i \in Holders(p, k)'}
  BY DEF CopiesOf, CopyIn, Holders
<1> QED BY <1>1, CopiesOfHolders

\* What the steps of DeviceMirror say of a slice, byte by byte.
Turned(p, B, f) ==
  \A q \in Ptrs, k \in Bytes :
    CopiesOf(q, k)' = IF q = p /\ k \in B THEN {f[k]} ELSE CopiesOf(q, k)

\* Copies that change for the bytes B of array p become what f says.
LEMMA Became ==
  ASSUME NEW p \in Ptrs, NEW B, NEW f,
         Turned(p, B, f)
  PROVE  Copies' = [Copies EXCEPT ![p] =
                      [k \in Bytes |-> IF k \in B THEN {f[k]} ELSE @[k]]]
BY DEF Turned, Copies, Bytes

LEMMA Reserves ==
  ASSUME NEW p \in Ptrs, NEW B \in SUBSET Bytes, UNCHANGED host,
         \A k \in B : CopiesOf(p, k) = {},
         Turned(p, B, [k \in Bytes |-> Junk])
  PROVE  Mirror!Reserve(p, B)
<1> DEFINE f == [k \in Bytes |-> Junk]
<1>1. Turned(p, B, f)
  OBVIOUS
<1> HIDE DEF f
<1>2. Copies' = [Copies EXCEPT ![p] = [k \in Bytes |-> IF k \in B THEN {f[k]} ELSE @[k]]]
  BY <1>1, Became
<1>3. \A k \in B : Copies[p][k] = {}
  BY DEF Copies, Bytes
<1> QED BY <1>2, <1>3
        DEF f, Mirror!Reserve, Mirror!HaveNone, Mirror!Become, Mirror!Bytes, Bytes

LEMMA ReservesAndSends ==
  ASSUME NEW p \in Ptrs, NEW B \in SUBSET Bytes, UNCHANGED host,
         \A k \in B : CopiesOf(p, k) = {},
         Turned(p, B, host[p])
  PROVE  Mirror!ReserveAndSend(p, B)
<1> DEFINE f == host[p]
<1>1. Turned(p, B, f)
  OBVIOUS
<1> HIDE DEF f
<1>2. Copies' = [Copies EXCEPT ![p] = [k \in Bytes |-> IF k \in B THEN {f[k]} ELSE @[k]]]
  BY <1>1, Became
<1>3. \A k \in B : Copies[p][k] = {}
  BY DEF Copies, Bytes
<1> QED BY <1>2, <1>3
        DEF f, Mirror!ReserveAndSend, Mirror!HaveNone, Mirror!Become, Mirror!Bytes, Bytes

LEMMA Sends ==
  ASSUME NEW p \in Ptrs, NEW B \in SUBSET Bytes, UNCHANGED host,
         \A k \in B : CopiesOf(p, k) # {},
         Turned(p, B, host[p])
  PROVE  Mirror!Send(p, B)
<1> DEFINE f == host[p]
<1>1. Turned(p, B, f)
  OBVIOUS
<1> HIDE DEF f
<1>2. Copies' = [Copies EXCEPT ![p] = [k \in Bytes |-> IF k \in B THEN {f[k]} ELSE @[k]]]
  BY <1>1, Became
<1>3. \A k \in B : Copies[p][k] # {}
  BY DEF Copies, Bytes
<1> QED BY <1>2, <1>3
        DEF f, Mirror!Send, Mirror!Have, Mirror!Become, Mirror!Bytes, Bytes

LEMMA Stores ==
  ASSUME NEW p \in Ptrs, NEW B \in SUBSET Bytes, NEW v, UNCHANGED host,
         \A k \in B : CopiesOf(p, k) # {},
         Turned(p, B, [k \in Bytes |-> v])
  PROVE  Mirror!KernelStore(p, B, v)
<1> DEFINE f == [k \in Bytes |-> v]
<1>1. Turned(p, B, f)
  OBVIOUS
<1> HIDE DEF f
<1>2. Copies' = [Copies EXCEPT ![p] = [k \in Bytes |-> IF k \in B THEN {f[k]} ELSE @[k]]]
  BY <1>1, Became
<1>3. \A k \in B : Copies[p][k] # {}
  BY DEF Copies, Bytes
<1> QED BY <1>2, <1>3
        DEF f, Mirror!KernelStore, Mirror!Have, Mirror!Become, Mirror!Bytes, Bytes

\* Copies of the bytes D are dropped, and no others.
LEMMA Drops ==
  ASSUME NEW D \in [Ptrs -> SUBSET Bytes], UNCHANGED host,
         \A q \in Ptrs, k \in Bytes :
           CopiesOf(q, k)' = IF k \in D[q] THEN {} ELSE CopiesOf(q, k)
  PROVE  Mirror!Drop(D)
BY DEF Mirror!Drop, Mirror!Bytes, Copies, Bytes

(***************************************************************************)
(* Slices and copies.                                                      *)
(***************************************************************************)
LEMMA SliceOfEntry ==
  ASSUME TypeOK, NEW i \in Mapped
  PROVE  /\ Start(mems[i]) \in Nat /\ End(mems[i]) \in Nat
         /\ NBytes(mems[i]) = End(mems[i]) - Start(mems[i])
<1>1. mems[i].idx0 \in Nat /\ mems[i].idx1 \in Nat /\ mems[i].usize \in Nat
  <2>1. mems[i].idx0 \in Nat /\ mems[i].idx1 \in Nat
    BY MappedEntry, NompMemAssumption
  <2>2. mems[i].usize \in Nat
    BY MappedEntry, NompMemAssumption
  <2> QED BY <2>1, <2>2
<1>2. \A x, y, u \in Nat : (x - y) * u = x * u - y * u /\ x * u \in Nat
  OBVIOUS
<1> QED BY <1>1, <1>2 DEF NBytes, Start, End

\* A call names at least one byte, and bytes of its array only.
LEMMA BytesOfCall ==
  ASSUME NEW c \in Calls
  PROVE  /\ Start(c) \in Bytes /\ End(c) - 1 \in Bytes
         /\ Slice(c) \in SUBSET Bytes
         /\ Slice(c) = Start(c) .. End(c) - 1
         /\ NBytes(c) = End(c) - Start(c)
         /\ Start(c) \in Nat /\ End(c) \in Nat /\ Start(c) < End(c)
         /\ c.hptr \in Ptrs
<1>1. /\ c.idx0 \in Nat /\ c.idx1 \in Nat /\ c.usize \in Nat /\ c.usize # 0
      /\ c.idx0 < c.idx1
  <2>1. c.idx0 \in Nat /\ c.idx1 \in Nat /\ c.idx0 < c.idx1
    BY CallFields, NompMemAssumption DEF Calls
  <2>2. c.usize \in Nat /\ c.usize # 0
    BY CallFields, NompMemAssumption
  <2> QED BY <2>1, <2>2
<1>2. Start(c) < End(c)
  <2>1. \A x, y, u \in Nat : x < y /\ u # 0 => x * u < y * u
    OBVIOUS
  <2> QED BY <1>1, <2>1 DEF Start, End
<1>3. /\ Start(c) \in Nat /\ End(c) \in Nat /\ End(c) <= Extent /\ c.hptr \in Ptrs
      /\ NBytes(c) = End(c) - Start(c)
  BY SliceOfCall
<1> QED BY <1>2, <1>3, NompMemAssumption DEF Slice, Bytes

\* The copy an entry has of a byte lies in its buffer.
LEMMA PlaceOfCopy ==
  ASSUME IInv, BuffersFit, NEW p, NEW k, NEW i \in Holders(p, k)
  PROVE  /\ i \in Mapped /\ mems[i].bptr \in DOMAIN dev
         /\ Start(mems[i]) \in Nat
         /\ k \in Int /\ k - Start(mems[i]) \in DOMAIN dev[mems[i].bptr]
<1>1. i \in Mapped /\ k \in Start(mems[i]) .. End(mems[i]) - 1
  BY DEF Holders, Slice
<1>2. DOMAIN dev[mems[i].bptr] = 0 .. End(mems[i]) - Start(mems[i]) - 1
  BY <1>1, SliceOfEntry DEF IInv, BuffersFit, BufferFits
<1> QED BY <1>1, <1>2, SliceOfEntry, BufferOf DEF IInv

\* nomp_update() that maps a slice: its bytes get a copy, and had none.
LEMMA MapMirror ==
  ASSUME MInv, NEW c \in Calls, Map(c), "overlap" \notin Misuse
  PROVE  /\ SlicesApart'
         /\ \A k \in Slice(c) : CopiesOf(c.hptr, k) = {}
         /\ Turned(c.hptr, Slice(c), IF c.op = "TO" THEN host[c.hptr]
                                     ELSE [k \in Bytes |-> Junk])
<1> USE DEF MInv
<1>1. PICK b \in Fresh :
        /\ mems' = Append(mems, EntryFor(c, b))
        /\ dev' = [Allocated(b, NBytes(c)) EXCEPT ![b] =
                     IF c.op = "TO"
                     THEN Copied(@, 0, host[c.hptr], Start(c), NBytes(c))
                     ELSE @]
  BY DEF Map
<1>0. PICK last : last = Len(mems) + 1
  OBVIOUS
<1> DEFINE m == EntryFor(c, b)
<1>2. /\ last \in Nat /\ last \notin Mapped
      /\ Len(mems') = last /\ mems'[last] = m /\ m # NULL
      /\ \A i \in 1 .. Len(mems) : mems'[i] = mems[i]
  <2>1. m \in Entry
    BY CallFields, EntryType DEF Fresh
  <2> QED BY <1>0, <1>1, <2>1, NompMemAssumption DEF IInv, TypeOK, Mapped
<1>3. Mapped' = Mapped \cup {last} /\ \A i \in Mapped : mems'[i] = mems[i]
  BY <1>0, <1>2 DEF Mapped
<1>4. /\ m.hptr = c.hptr /\ m.bptr = b
      /\ Start(m) = Start(c) /\ End(m) = End(c) /\ Slice(m) = Slice(c)
  BY DEF EntryFor, Start, End, Slice
<1> HIDE DEF m
<1>5. \A i \in Mapped : mems[i].hptr = c.hptr => Slice(mems[i]) \cap Slice(c) = {}
  BY DEF Map, Maps, Careful
<1>6. SlicesApart'
  <2>1. End(m) <= Extent
    BY <1>4, SliceOfCall
  <2>2. \A i \in Mapped' : End(mems'[i]) <= Extent
    BY <1>2, <1>3, <2>1 DEF SlicesApart
  <2>3. \A i, j \in Mapped' : i # j /\ mems'[i].hptr = mems'[j].hptr =>
          Slice(mems'[i]) \cap Slice(mems'[j]) = {}
    <3> SUFFICES ASSUME NEW i \in Mapped', NEW j \in Mapped', i # j,
                        mems'[i].hptr = mems'[j].hptr
                 PROVE  Slice(mems'[i]) \cap Slice(mems'[j]) = {}
      OBVIOUS
    <3>1. CASE i \in Mapped /\ j \in Mapped
      BY <1>3, <3>1 DEF SlicesApart
    <3>2. CASE i = last
      BY <1>2, <1>3, <1>4, <1>5, <3>2
    <3>3. CASE j = last
      BY <1>2, <1>3, <1>4, <1>5, <3>3
    <3> QED BY <1>3, <3>1, <3>2, <3>3
  <2> QED BY <2>2, <2>3 DEF SlicesApart, Start, End, Slice
<1>7. \A q, k : Holders(q, k)' = Holders(q, k) \cup
                  {i \in {last} : q = c.hptr /\ k \in Slice(c)}
  <2>1. \A q, k : Holders(q, k)' =
          {i \in Mapped' : mems'[i].hptr = q /\ k \in Slice(mems'[i])}
    BY DEF Holders, Slice, Start, End
  <2> QED BY <1>2, <1>3, <1>4, <2>1 DEF Holders
<1>8. \A x \in DOMAIN dev : dev'[x] = dev[x]
  BY <1>1 DEF Allocated, Fresh
<1>9. ASSUME NEW q, NEW k, NEW i \in Holders(q, k) PROVE CopyIn(i, k)' = CopyIn(i, k)
  BY <1>3, <1>8, PlaceOfCopy DEF CopyIn, Start
<1>10. \A k \in Slice(c) : Holders(c.hptr, k) = {} /\ CopiesOf(c.hptr, k) = {}
  BY <1>5, CopiesOfHolders DEF Holders
<1>11. ASSUME NEW k \in Slice(c)
       PROVE  CopyIn(last, k)' = IF c.op = "TO" THEN host[c.hptr][k] ELSE Junk
  <2> DEFINE new == [x \in 0 .. NBytes(c) - 1 |-> Junk]
             sent == Copied(new, 0, host[c.hptr], Start(c), NBytes(c))
             at == k - Start(c)
  <2>1. b \in DOMAIN Allocated(b, NBytes(c)) /\ Allocated(b, NBytes(c))[b] = new
    BY DEF Allocated
  <2>2. dev'[b] = IF c.op = "TO" THEN sent ELSE new
    BY <1>1, <2>1
  <2>3. at \in 0 .. NBytes(c) - 1 /\ Start(c) + (at - 0) = k
    BY BytesOfCall
  <2>4. CopyIn(last, k)' = dev'[b][at]
    BY <1>2, <1>4 DEF CopyIn, Start
  <2>5. new[at] = Junk
    BY <2>3
  <2>6. sent[at] = host[c.hptr][k]
    <3>1. NBytes(c) \in Nat /\ 0 + NBytes(c) - 1 = NBytes(c) - 1
      BY BytesOfCall
    <3> HIDE DEF at
    <3> QED BY <2>3, <3>1 DEF Copied
  <2> HIDE DEF new, sent, at
  <2> QED BY <2>2, <2>4, <2>5, <2>6
<1>12. ASSUME NEW q \in Ptrs, NEW k \in Bytes
       PROVE  CopiesOf(q, k)' =
                IF q = c.hptr /\ k \in Slice(c)
                THEN {IF c.op = "TO" THEN host[c.hptr][k] ELSE Junk}
                ELSE CopiesOf(q, k)
  <2>1. CASE q = c.hptr /\ k \in Slice(c)
    <3>1. Holders(q, k)' = {last}
      BY <1>7, <1>10, <2>1
    <3>2. CopiesOf(q, k)' = {CopyIn(i, k)' : i \in Holders(q, k)'}
      BY DEF CopiesOf, CopyIn, Holders
    <3>3. CopiesOf(q, k)' = {CopyIn(last, k)'}
      BY <3>1, <3>2
    <3> QED BY <1>11, <2>1, <3>3
  <2>2. CASE ~(q = c.hptr /\ k \in Slice(c))
    <3>1. Holders(q, k)' = Holders(q, k)
      BY <1>7, <2>2
    <3>2. CopiesOf(q, k)' = CopiesOf(q, k)
      BY <1>9, <3>1, SameCopies
    <3> QED BY <2>2, <3>2
  <2> QED BY <2>1, <2>2
<1>13. \A k \in Slice(c) : [x \in Bytes |-> Junk][k] = Junk
  BY BytesOfCall
<1> QED BY <1>6, <1>10, <1>12, <1>13 DEF Turned

\* The buffer of entry i gets new values f[k] for the bytes B of its slice.
Rewrites(i, B, f) ==
  /\ mems' = mems
  /\ \A j \in Mapped : j # i => dev'[mems[j].bptr] = dev[mems[j].bptr]
  /\ \A k \in Slice(mems[i]) :
       dev'[mems[i].bptr][k - Start(mems[i])] =
         IF k \in B THEN f[k] ELSE dev[mems[i].bptr][k - Start(mems[i])]

LEMMA RewritesMirror ==
  ASSUME MInv, NEW i \in Mapped, NEW B \in SUBSET Slice(mems[i]), NEW f, Rewrites(i, B, f)
  PROVE  /\ \A k \in B : CopiesOf(mems[i].hptr, k) # {}
         /\ Turned(mems[i].hptr, B, f)
         /\ SlicesApart'
<1> USE DEF MInv
<1>0. PICK p : p = mems[i].hptr
  OBVIOUS
<1>1. \A q, k : Holders(q, k)' = Holders(q, k)
  BY DEF Rewrites, Holders, Mapped, Slice, Start, End
<1>2. \A k \in B : i \in Holders(p, k)
  BY <1>0 DEF Holders
<1>3. ASSUME NEW k \in Slice(mems[i])
      PROVE  CopyIn(i, k)' = IF k \in B THEN f[k] ELSE CopyIn(i, k)
  BY DEF Rewrites, CopyIn, Start
<1>4. ASSUME NEW q, NEW k, NEW j \in Holders(q, k), j # i
      PROVE  CopyIn(j, k)' = CopyIn(j, k)
  BY <1>4 DEF Rewrites, CopyIn, Start, Holders
<1>5. \A k \in B : CopiesOf(p, k) # {}
  BY <1>2, OneHolder
<1>6. ASSUME NEW q \in Ptrs, NEW k \in Bytes
      PROVE  CopiesOf(q, k)' = IF q = p /\ k \in B THEN {f[k]} ELSE CopiesOf(q, k)
  <2>1. CASE q = p /\ k \in B
    <3>1. Holders(q, k)' = {i}
      BY <1>1, <1>2, <2>1, OneHolder
    <3>2. CopiesOf(q, k)' = {CopyIn(j, k)' : j \in Holders(q, k)'}
      BY DEF CopiesOf, CopyIn, Holders
    <3>3. CopiesOf(q, k)' = {CopyIn(i, k)'}
      BY <3>1, <3>2
    <3> QED BY <1>3, <2>1, <3>3
  <2>2. CASE ~(q = p /\ k \in B)
    <3>1. ASSUME NEW j \in Holders(q, k) PROVE CopyIn(j, k)' = CopyIn(j, k)
      <4>1. CASE j = i
        BY <1>0, <1>3, <2>2, <4>1 DEF Holders
      <4> QED BY <1>4, <4>1
    <3> QED BY <1>1, <2>2, <3>1, SameCopies
  <2> QED BY <2>1, <2>2
<1>7. SlicesApart'
  BY DEF Rewrites, SlicesApart, Mapped, Slice, Start, End
<1> QED BY <1>0, <1>5, <1>6, <1>7 DEF Turned

\* Where nomp_update() copies to and from: counted in bytes from the beginning
\* of the slice that was mapped.
LEMMA PlaceOfCall ==
  ASSUME MInv, NEW c \in Calls, NEW i \in Mapped, Found(c, i), Careful(c),
         "units" \notin Misuse
  PROVE  /\ Offset(mems[i], c) = Start(c) - Start(mems[i])
         /\ Slice(c) \in SUBSET Slice(mems[i])
         /\ mems[i].hptr = c.hptr
<1> USE DEF MInv
<1>1. mems[i].hptr = c.hptr /\ mems[i].usize = c.usize
  BY DEF Found, Contains, Careful
<1>2. Start(mems[i]) <= Start(c) /\ End(mems[i]) >= End(c)
  BY DEF Found, Contains
<1>3. Slice(c) \in SUBSET Slice(mems[i])
  BY <1>2, BytesOfCall, SliceOfEntry DEF Slice, IInv
<1>4. Offset(mems[i], c) = Start(c) - Start(mems[i])
  <2>1. c.idx0 \in Nat /\ mems[i].idx0 \in Nat
    BY CallFields, MappedEntry, NompMemAssumption DEF IInv
  <2>2. c.usize \in Nat
    BY CallFields, NompMemAssumption
  <2>3. \A x, y, u \in Nat : (x - y) * u = x * u - y * u
    OBVIOUS
  <2> QED BY <1>1, <2>1, <2>2, <2>3 DEF Offset, Start
<1> QED BY <1>1, <1>3, <1>4

LEMMA CopyToMirror ==
  ASSUME MInv, NEW c \in Calls, CopyTo(c), "units" \notin Misuse
  PROVE  /\ \A k \in Slice(c) : CopiesOf(c.hptr, k) # {}
         /\ Turned(c.hptr, Slice(c), host[c.hptr])
         /\ SlicesApart'
<1> USE DEF MInv
<1>1. PICK i \in Mapped :
        /\ Found(c, i)
        /\ dev' = [dev EXCEPT ![mems[i].bptr] =
                     Copied(@, Offset(mems[i], c), host[c.hptr], Start(c), NBytes(c))]
  BY DEF CopyTo
<1>2. Careful(c) /\ mems' = mems
  BY DEF CopyTo, Updates
<1>3. /\ Offset(mems[i], c) = Start(c) - Start(mems[i])
      /\ Slice(c) \in SUBSET Slice(mems[i]) /\ mems[i].hptr = c.hptr
  BY <1>1, <1>2, PlaceOfCall
<1> DEFINE old == dev[mems[i].bptr]
           new == Copied(old, Offset(mems[i], c), host[c.hptr], Start(c), NBytes(c))
<1>4. ASSUME NEW k \in Slice(mems[i])
      PROVE  new[k - Start(mems[i])] =
               IF k \in Slice(c) THEN host[c.hptr][k] ELSE old[k - Start(mems[i])]
  <2> DEFINE at == k - Start(mems[i])
  <2>1. i \in Holders(mems[i].hptr, k)
    BY DEF Holders
  <2>2. at \in DOMAIN old /\ k \in Int /\ Start(mems[i]) \in Nat
    BY <2>1, PlaceOfCopy
  <2>3. at \in Offset(mems[i], c) .. Offset(mems[i], c) + NBytes(c) - 1 <=> k \in Slice(c)
    BY <1>3, <2>2, BytesOfCall
  <2>4. Start(c) + (at - Offset(mems[i], c)) = k
    BY <1>3, <2>2, BytesOfCall
  <2> HIDE DEF at, old
  <2>5. new[at] = IF k \in Slice(c) THEN host[c.hptr][k] ELSE old[at]
    BY <2>2, <2>3, <2>4 DEF Copied
  <2> QED BY <2>5 DEF at
<1>5. /\ dev'[mems[i].bptr] = new
      /\ \A j \in Mapped : j # i => dev'[mems[j].bptr] = dev[mems[j].bptr]
  BY <1>1, OwnersOf DEF IInv
<1> HIDE DEF new
<1>6. Rewrites(i, Slice(c), host[c.hptr])
  BY <1>2, <1>4, <1>5 DEF Rewrites
<1> QED BY <1>3, <1>6, RewritesMirror

\* A kernel stores an element of the slice it was given.
StoresSlice(p, x, y, v) ==
  /\ x .. y \in SUBSET Bytes
  /\ \A k \in x .. y : CopiesOf(p, k) # {}
  /\ Turned(p, x .. y, [k \in Bytes |-> v])
  /\ SlicesApart'

LEMMA KernelMirror ==
  ASSUME MInv, NEW p \in Ptrs, NEW e \in Nat, NEW u \in USizes, NEW v \in Values,
         KernelStore(p, e, u, v)
  PROVE  \E x, y \in Bytes : StoresSlice(p, x, y, v)
<1> USE DEF MInv
<1>1. PICK i \in Mapped :
        /\ mems[i].hptr = p
        /\ e * u .. e * u + u - 1 \subseteq DOMAIN dev[mems[i].bptr]
        /\ dev' = [dev EXCEPT ![mems[i].bptr] = Stored(@, e, u, v)]
  BY DEF KernelStore, FirstOf
<1> DEFINE old == dev[mems[i].bptr]
           new == Stored(old, e, u, v)
<1>2. u \in Nat /\ u # 0
  BY NompMemAssumption
<1>3. PICK n \in Nat : n = e * u
  BY <1>2
<1>4. PICK s \in Nat : s = Start(mems[i])
  BY SliceOfEntry DEF IInv
<1>5. /\ End(mems[i]) \in Nat /\ End(mems[i]) <= Extent
      /\ DOMAIN old = 0 .. End(mems[i]) - s - 1
      /\ Slice(mems[i]) = s .. End(mems[i]) - 1
  BY <1>4, SliceOfEntry DEF IInv, SlicesApart, BuffersFit, BufferFits, Slice
<1> DEFINE x == s + n
           y == s + n + u - 1
<1>6. x \in Bytes /\ y \in Bytes /\ x .. y \in SUBSET Slice(mems[i])
  <2>1. n + u - 1 \in n .. n + u - 1
    BY <1>2
  <2>2. n .. n + u - 1 \subseteq DOMAIN old
    BY <1>1, <1>3
  <2>3. n + u - 1 <= End(mems[i]) - s - 1
    BY <1>2, <1>5, <2>1, <2>2
  <2> QED BY <1>2, <1>5, <2>3, NompMemAssumption DEF Bytes
<1>7. ASSUME NEW k \in Slice(mems[i])
      PROVE  new[k - s] = IF k \in x .. y THEN [b \in Bytes |-> v][k] ELSE old[k - s]
  <2>1. k - s \in DOMAIN old /\ k \in Bytes
    BY <1>5, NompMemAssumption DEF Bytes
  <2>2. k - s \in n .. n + u - 1 <=> k \in x .. y
    BY <1>2, <2>1 DEF Bytes
  <2>3. [b \in Bytes |-> v][k] = v
    BY <2>1
  <2> HIDE DEF old, x, y
  <2>4. new[k - s] = IF k \in x .. y THEN v ELSE old[k - s]
    BY <1>3, <2>1, <2>2 DEF Stored
  <2> QED BY <2>3, <2>4
<1>8. /\ dev'[mems[i].bptr] = new
      /\ \A j \in Mapped : j # i => dev'[mems[j].bptr] = dev[mems[j].bptr]
  BY <1>1, OwnersOf DEF IInv
<1> HIDE DEF new, x, y
<1>9. UNCHANGED mems
  BY DEF KernelStore
<1>10. Rewrites(i, x .. y, [k \in Bytes |-> v])
  BY <1>4, <1>7, <1>8, <1>9 DEF Rewrites
<1>11. Slice(mems[i]) \in SUBSET Bytes
  BY <1>5, NompMemAssumption DEF Bytes
<1>12. StoresSlice(p, x, y, v)
  BY <1>1, <1>6, <1>10, <1>11, RewritesMirror DEF StoresSlice
<1> QED BY <1>6, <1>12

\* Neither the registry nor its buffers change.
LEMMA KeptMirror ==
  ASSUME MInv, mems' = mems, \A i \in Mapped : dev'[mems[i].bptr] = dev[mems[i].bptr]
  PROVE  /\ \A q, k : CopiesOf(q, k)' = CopiesOf(q, k)
         /\ Copies' = Copies
         /\ SlicesApart'
<1>1. ASSUME NEW q, NEW k PROVE CopiesOf(q, k)' = CopiesOf(q, k)
  <2>1. Holders(q, k)' = Holders(q, k)
    BY DEF Holders, Mapped, Slice, Start, End
  <2>2. \A i \in Holders(q, k) : CopyIn(i, k)' = CopyIn(i, k)
    BY DEF Holders, CopyIn, Start
  <2> QED BY <2>1, <2>2, SameCopies
<1>2. SlicesApart'
  BY DEF MInv, SlicesApart, Mapped, Slice, Start, End
<1> QED BY <1>1, <1>2 DEF Copies

LEMMA CopyFromMirror ==
  ASSUME MInv, NEW c \in Calls, CopyFrom(c), "units" \notin Misuse
  PROVE  /\ Mirror!Fetch(c.hptr, Slice(c))
         /\ \A q \in Ptrs, k \in Bytes :
              host'[q][k] # host[q][k] => q = c.hptr /\ k \in Slice(c)
<1> USE DEF MInv
<1>1. PICK i \in Mapped :
        /\ Found(c, i)
        /\ host' = [host EXCEPT ![c.hptr] =
                      Copied(@, Start(c), dev[mems[i].bptr], Offset(mems[i], c), NBytes(c))]
  BY DEF CopyFrom
<1>2. Careful(c) /\ mems' = mems /\ dev' = dev
  BY DEF CopyFrom, Updates
<1>3. /\ Offset(mems[i], c) = Start(c) - Start(mems[i])
      /\ Slice(c) \in SUBSET Slice(mems[i]) /\ mems[i].hptr = c.hptr
  BY <1>1, <1>2, PlaceOfCall
<1>4. Copies' = Copies
  BY <1>2, KeptMirror
<1>5. \A k \in Slice(c) : Copies[c.hptr][k] = {CopyIn(i, k)}
  <2>1. \A k \in Slice(c) : i \in Holders(c.hptr, k)
    BY <1>3 DEF Holders
  <2>2. \A k \in Slice(c) : CopiesOf(c.hptr, k) = {CopyIn(i, k)}
    BY <2>1, OneHolder
  <2> QED BY <2>2, BytesOfCall DEF Copies, Bytes
<1> DEFINE old == host[c.hptr]
           new == Copied(old, Start(c), dev[mems[i].bptr], Offset(mems[i], c), NBytes(c))
<1>6. /\ host \in [Ptrs -> [Bytes -> Byte]] /\ DOMAIN old = Bytes /\ c.hptr \in Ptrs
  BY BytesOfCall DEF IInv, TypeOK, Bytes
<1>7. new = [k \in Bytes |-> IF k \in Slice(c) THEN CopyIn(i, k) ELSE old[k]]
  <2>1. ASSUME NEW k \in Bytes
        PROVE  /\ k \in Start(c) .. Start(c) + NBytes(c) - 1 <=> k \in Slice(c)
               /\ Offset(mems[i], c) + (k - Start(c)) = k - Start(mems[i])
    <3>1. k \in Int /\ Start(mems[i]) \in Nat
      BY SliceOfEntry, NompMemAssumption DEF Bytes, IInv
    <3> QED BY <1>3, <3>1, BytesOfCall
  <2> HIDE DEF old
  <2> QED BY <1>6, <2>1 DEF Copied, CopyIn
<1>8. host' = [host EXCEPT ![c.hptr] = new]
  BY <1>1
<1> HIDE DEF new
<1>9. host' = [host EXCEPT ![c.hptr] =
                 [k \in Bytes |-> IF k \in Slice(c) THEN CHOOSE v \in Copies[c.hptr][k] : TRUE
                                  ELSE @[k]]]
  <2>1. \A k \in Slice(c) : (CHOOSE v \in Copies[c.hptr][k] : TRUE) = CopyIn(i, k)
    BY <1>5
  <2>2. new = [k \in Bytes |-> IF k \in Slice(c) THEN CHOOSE v \in Copies[c.hptr][k] : TRUE
                               ELSE old[k]]
    BY <1>7, <2>1
  <2> QED BY <1>8, <2>2
<1>10. \A q \in Ptrs, k \in Bytes :
         host'[q][k] # host[q][k] => q = c.hptr /\ k \in Slice(c)
  BY <1>6, <1>7, <1>8
<1> QED BY <1>4, <1>5, <1>9, <1>10
        DEF Mirror!Fetch, Mirror!Have, Mirror!Bytes, Bytes

\* The entries S are gone, the others and their buffers stay.
LEMMA ReleaseMirror ==
  ASSUME MInv, NEW S \in SUBSET Mapped, Mapped' = Mapped \ S, UNCHANGED host,
         \A i \in Mapped \ S : mems'[i] = mems[i] /\ dev'[mems[i].bptr] = dev[mems[i].bptr]
  PROVE  /\ \E D \in [Ptrs -> SUBSET Bytes] : Mirror!Drop(D)
         /\ SlicesApart'
         /\ \A q, k : CopiesOf(q, k)' # CopiesOf(q, k) =>
              \E i \in S : q = mems[i].hptr /\ k \in Slice(mems[i])
<1> USE DEF MInv
<1> DEFINE D == [q \in Ptrs |-> {k \in Bytes : S \cap Holders(q, k) # {}}]
<1>1. \A q, k : Holders(q, k)' = Holders(q, k) \ S
  BY DEF Holders, Slice, Start, End
<1>2. ASSUME NEW q, NEW k, S \cap Holders(q, k) = {}
      PROVE  CopiesOf(q, k)' = CopiesOf(q, k)
  <2>1. Holders(q, k)' = Holders(q, k)
    BY <1>1, <1>2
  <2>2. \A i \in Holders(q, k) : CopyIn(i, k)' = CopyIn(i, k)
    BY <1>2 DEF CopyIn, Start, Holders
  <2> QED BY <2>1, <2>2, SameCopies
<1>3. ASSUME NEW q, NEW k, S \cap Holders(q, k) # {}
      PROVE  CopiesOf(q, k)' = {}
  <2>1. Holders(q, k)' = {}
    BY <1>1, <1>3, OneHolder
  <2>2. CopiesOf(q, k)' = {CopyIn(i, k)' : i \in Holders(q, k)'}
    BY DEF CopiesOf, CopyIn, Holders
  <2> QED BY <2>1, <2>2
<1>4. Mirror!Drop(D)
  <2>1. \A q \in Ptrs, k \in Bytes :
          CopiesOf(q, k)' = IF k \in D[q] THEN {} ELSE CopiesOf(q, k)
    BY <1>2, <1>3
  <2>2. D \in [Ptrs -> SUBSET Bytes]
    OBVIOUS
  <2> HIDE DEF D
  <2> QED BY <2>1, <2>2, Drops
<1>5. D \in [Ptrs -> SUBSET Bytes]
  OBVIOUS
<1>6. SlicesApart'
  BY DEF SlicesApart, Slice, Start, End
<1>7. \A q, k : CopiesOf(q, k)' # CopiesOf(q, k) =>
        \E i \in S : q = mems[i].hptr /\ k \in Slice(mems[i])
  BY <1>2 DEF Holders
<1> HIDE DEF D
<1> QED BY <1>4, <1>5, <1>6, <1>7

(***************************************************************************)
(* Each step is a step of the mirror, or leaves it alone.                  *)
(***************************************************************************)
LEMMA FreeMirror ==
  ASSUME MInv, NEW c \in Calls, Free(c)
  PROVE  /\ \E D \in [Ptrs -> SUBSET Bytes] : Mirror!Drop(D)
         /\ SlicesApart'
         /\ \E i \in Mapped :
              /\ Found(c, i)
              /\ \A q, k : CopiesOf(q, k)' # CopiesOf(q, k) =>
                   q = mems[i].hptr /\ k \in Slice(mems[i])
<1> USE DEF MInv
<1>1. PICK i \in Mapped :
        Found(c, i) /\ dev' = Without({mems[i].bptr}) /\ mems' = Cleanup(i)
  BY DEF Free
<1> DEFINE S == {i}
<1>2. Mapped' = Mapped \ S /\ \A j \in Mapped \ S : mems'[j] = mems[j]
  BY <1>1 DEF Cleanup, Mapped, IInv, TypeOK
<1>3. \A j \in Mapped \ S : dev'[mems[j].bptr] = dev[mems[j].bptr]
  BY <1>1, OwnersOf DEF IInv, Without
<1>4. UNCHANGED host /\ S \in SUBSET Mapped
  BY DEF Free
<1>5. /\ \E D \in [Ptrs -> SUBSET Bytes] : Mirror!Drop(D)
      /\ SlicesApart'
      /\ \A q, k : CopiesOf(q, k)' # CopiesOf(q, k) =>
           \E j \in S : q = mems[j].hptr /\ k \in Slice(mems[j])
  <2> HIDE DEF S
  <2> QED BY <1>2, <1>3, <1>4, ReleaseMirror
<1> QED BY <1>1, <1>5

\* Every other call: nothing that is mapped changes.
LEMMA FailedCallMirror ==
  ASSUME MInv, NEW c \in Calls, MapWithoutMemory(c) \/ MapWithoutCopy(c) \/ Refuse(c)
  PROVE  /\ \A q, k : CopiesOf(q, k)' = CopiesOf(q, k)
         /\ Copies' = Copies /\ host' = host
         /\ SlicesApart'
<1>1. mems' = mems /\ host' = host
  BY DEF MapWithoutMemory, MapWithoutCopy, Refuse, Maps, vars
<1>2. \A i \in Mapped : dev'[mems[i].bptr] = dev[mems[i].bptr]
  <2>1. \A i \in Mapped : mems[i].bptr \in DOMAIN dev
    BY OwnersOf DEF MInv, IInv
  <2>2. CASE MapWithoutMemory(c) \/ Refuse(c)
    BY <2>2 DEF MapWithoutMemory, Refuse, vars
  <2>3. CASE MapWithoutCopy(c)
    BY <2>1, <2>3 DEF MapWithoutCopy, Allocated, Fresh
  <2> QED BY <2>2, <2>3
<1> QED BY <1>1, <1>2, KeptMirror

\* NOMP_ALLOC of a slice that is mapped is not done by this client.
LEMMA NeverReallocates ==
  ASSUME NEW c \in Calls, Reallocate(c), "resize" \notin Misuse
  PROVE  FALSE
<1>1. c.op = "ALLOC" /\ Careful(c) /\ \E i \in Mapped : Found(c, i)
  BY DEF Reallocate, Updates
<1> QED BY <1>1 DEF Careful, NotFound, Found

LEMMA UpdateMirror ==
  ASSUME MInv, NEW c \in Calls, Update(c),
         "units" \notin Misuse, "overlap" \notin Misuse, "resize" \notin Misuse
  PROVE  SlicesApart' /\ [Mirror!Next]_Mirror!vars
<1> DEFINE p == c.hptr
           x == Start(c)
           y == End(c) - 1
<1>1. /\ p \in Ptrs /\ x \in Bytes /\ y \in Bytes
      /\ Slice(c) = x .. y /\ x .. y \in SUBSET Bytes
  BY BytesOfCall
<1> HIDE DEF x, y
<1>2. CASE Map(c)
  <2>1. UNCHANGED host
    BY <1>2 DEF Map, Maps
  <2>2. CASE c.op = "TO"
    <3>1. Turned(p, x .. y, host[p]) /\ \A k \in x .. y : CopiesOf(p, k) = {}
      BY <1>1, <1>2, <2>2, MapMirror
    <3>2. Mirror!ReserveAndSend(p, x .. y)
      BY <1>1, <2>1, <3>1, ReservesAndSends
    <3> QED BY <1>1, <1>2, <3>2, MapMirror DEF Mirror!Next, Mirror!Bytes, Bytes
  <2>3. CASE c.op # "TO"
    <3>1. /\ Turned(p, x .. y, [k \in Bytes |-> Junk])
          /\ \A k \in x .. y : CopiesOf(p, k) = {}
      BY <1>1, <1>2, <2>3, MapMirror
    <3>2. Mirror!Reserve(p, x .. y)
      BY <1>1, <2>1, <3>1, Reserves
    <3> QED BY <1>1, <1>2, <3>2, MapMirror DEF Mirror!Next, Mirror!Bytes, Bytes
  <2> QED BY <2>2, <2>3
<1>3. CASE MapWithoutMemory(c) \/ MapWithoutCopy(c) \/ Refuse(c)
  BY <1>3, FailedCallMirror DEF Mirror!vars
<1>4. CASE CopyTo(c)
  <2>1. /\ Turned(p, x .. y, host[p]) /\ \A k \in x .. y : CopiesOf(p, k) # {}
        /\ SlicesApart'
    BY <1>1, <1>4, CopyToMirror
  <2>2. UNCHANGED host
    BY <1>4 DEF CopyTo
  <2>3. Mirror!Send(p, x .. y)
    BY <1>1, <2>1, <2>2, Sends
  <2> QED BY <1>1, <2>1, <2>3 DEF Mirror!Next, Mirror!Bytes, Bytes
<1>5. CASE CopyFrom(c)
  <2>1. Mirror!Fetch(p, x .. y)
    BY <1>1, <1>5, CopyFromMirror
  <2>2. SlicesApart'
    BY <1>5, KeptMirror DEF CopyFrom
  <2> QED BY <1>1, <2>1, <2>2 DEF Mirror!Next, Mirror!Bytes, Bytes
<1>6. CASE Free(c)
  BY <1>6, FreeMirror DEF Mirror!Next, Mirror!Bytes, Bytes
<1>7. CASE Reallocate(c)
  BY <1>7, NeverReallocates
<1> QED BY <1>2, <1>3, <1>4, <1>5, <1>6, <1>7 DEF Update

LEMMA StoreMirror ==
  ASSUME MInv, NEW p \in Ptrs, NEW e \in 0 .. Extent - 1, NEW u \in USizes, NEW v \in Values,
         KernelStore(p, e, u, v) \/ HostStore(p, e, u, v)
  PROVE  SlicesApart' /\ Mirror!Next
<1>0. e \in Nat /\ u \in Nat /\ u # 0
  BY NompMemAssumption
<1>1. CASE KernelStore(p, e, u, v)
  <2>1. PICK x, y \in Bytes : StoresSlice(p, x, y, v)
    BY <1>0, <1>1, KernelMirror
  <2>2. UNCHANGED host
    BY <1>1 DEF KernelStore
  <2>3. Mirror!KernelStore(p, x .. y, v)
    BY <2>1, <2>2, Stores DEF StoresSlice
  <2> QED BY <2>1, <2>3 DEF StoresSlice, Mirror!Next, Mirror!Bytes, Bytes
<1>2. CASE HostStore(p, e, u, v)
  <2>1. PICK n \in Nat : n = e * u
    BY <1>0
  <2>2. n \in Bytes /\ n + u - 1 \in Bytes
    BY <1>0, <1>2, <2>1, NompMemAssumption DEF HostStore, Bytes
  <2>3. DOMAIN host[p] = Bytes
    BY DEF MInv, IInv, TypeOK, Bytes
  <2>4. UNCHANGED <<mems, dev>> /\ host' = [host EXCEPT ![p] = Stored(@, e, u, v)]
    BY <1>2 DEF HostStore
  <2>5. Copies' = Copies /\ SlicesApart'
    BY <2>4, KeptMirror
  <2>6. Stored(host[p], e, u, v) =
          [k \in Bytes |-> IF k \in n .. n + u - 1 THEN v ELSE host[p][k]]
    BY <2>1, <2>3 DEF Stored
  <2>7. Mirror!HostStore(p, n .. n + u - 1, v)
    BY <2>4, <2>5, <2>6 DEF Mirror!HostStore, Mirror!Bytes, Bytes
  <2> QED BY <2>2, <2>5, <2>7 DEF Mirror!Next, Mirror!Bytes, Bytes
<1> QED BY <1>1, <1>2

LEMMA FinalizeMirror ==
  ASSUME MInv, \/ Finalize \/ FinalizeStopsAtScratch \/ FinalizeStopsAfterScratch
               \/ \E k \in 1 .. Len(mems) : FinalizeStopsAt(k)
  PROVE  SlicesApart' /\ Mirror!Next
<1> USE DEF MInv
<1>1. CASE Finalize \/ FinalizeStopsAtScratch \/ FinalizeStopsAfterScratch
  <2>1. mems' = <<>> /\ UNCHANGED host
    BY <1>1 DEF Finalize, FinalizeStopsAtScratch, FinalizeStopsAfterScratch, FreesAll
  <2>2. Mapped' = Mapped \ Mapped
    BY <2>1 DEF Mapped
  <2>3. SlicesApart' /\ \E D \in [Ptrs -> SUBSET Bytes] : Mirror!Drop(D)
    BY <2>1, <2>2, ReleaseMirror
  <2> QED BY <2>3 DEF Mirror!Next, Mirror!Bytes, Bytes
<1>2. ASSUME NEW k \in 1 .. Len(mems), FinalizeStopsAt(k)
      PROVE  SlicesApart' /\ Mirror!Next
  <2> DEFINE S == {j \in Mapped : j < k}
  <2>1. /\ UNCHANGED host
        /\ dev' = Without({mems[i].bptr : i \in S})
        /\ mems' = [i \in 1 .. Len(mems) |-> IF i < k THEN NULL ELSE mems[i]]
    BY <1>2 DEF FinalizeStopsAt
  <2>2. Mapped' = Mapped \ S /\ \A j \in Mapped \ S : mems'[j] = mems[j]
    <3>1. Len(mems) \in Nat /\ Len(mems') = Len(mems)
      BY <2>1 DEF IInv, TypeOK
    <3> QED BY <2>1, <3>1 DEF Mapped
  <2>3. S \in SUBSET Mapped
    OBVIOUS
  <2> HIDE DEF S
  <2>4. \A j \in Mapped \ S : dev'[mems[j].bptr] = dev[mems[j].bptr]
    BY <2>1, <2>3, OwnersOf DEF IInv, Without
  <2>5. SlicesApart' /\ \E D \in [Ptrs -> SUBSET Bytes] : Mirror!Drop(D)
    BY <2>1, <2>2, <2>3, <2>4, ReleaseMirror
  <2> QED BY <2>5 DEF Mirror!Next, Mirror!Bytes, Bytes
<1> QED BY <1>1, <1>2

LEMMA NextMirror ==
  ASSUME MInv, [Next]_vars,
         "units" \notin Misuse, "overlap" \notin Misuse, "resize" \notin Misuse
  PROVE  MInv' /\ [Mirror!Next]_Mirror!vars
<1>1. IInv' /\ BuffersFit'
  BY NextIInv, NextFits DEF MInv
<1>2. CASE Initialize
  <2>1. mems = <<>> /\ mems' = mems /\ host' = host
    BY <1>2 DEF Initialize, MInv, IInv, RegistryFits
  <2>2. SlicesApart' /\ Copies' = Copies
    BY <2>1, KeptMirror DEF Mapped
  <2> QED BY <1>1, <2>1, <2>2 DEF Mirror!vars, MInv
<1>3. CASE \E c \in Calls : Update(c)
  BY <1>1, <1>3, UpdateMirror DEF MInv
<1>4. CASE \E p \in Ptrs, e \in 0 .. Extent - 1, u \in USizes, v \in Values :
             KernelStore(p, e, u, v) \/ HostStore(p, e, u, v)
  BY <1>1, <1>4, StoreMirror DEF MInv
<1>5. CASE \/ Finalize \/ FinalizeStopsAtScratch \/ FinalizeStopsAfterScratch
           \/ \E k \in 1 .. Len(mems) : FinalizeStopsAt(k)
  BY <1>1, <1>5, FinalizeMirror DEF MInv
<1>6. CASE UNCHANGED vars
  BY <1>1, <1>6, KeptMirror DEF MInv, Mirror!vars, vars
<1> QED BY <1>2, <1>3, <1>4, <1>5, <1>6 DEF Next

\* What the registry keeps of a careful client's slices and their copies.
THEOREM Mirroring ==
  ASSUME "units" \notin Misuse, "overlap" \notin Misuse, "resize" \notin Misuse
  PROVE  Spec => []MInv
<1>1. Init => MInv
  <2> SUFFICES ASSUME Init PROVE BuffersFit /\ SlicesApart
    BY InitIInv DEF MInv
  <2> QED BY DEF Init, BuffersFit, SlicesApart, Mapped
<1>2. MInv /\ [Next]_vars => MInv'
  BY NextMirror
<1> QED BY <1>1, <1>2, PTL DEF Spec

\* The registry and its buffers act as one copy of the mapped bytes: mapping
\* gives bytes a copy, an update moves bytes one way, freeing takes copies away,
\* and a call that fails does nothing of these by halves.
THEOREM Implements ==
  ASSUME "units" \notin Misuse, "overlap" \notin Misuse, "resize" \notin Misuse
  PROVE  Spec => ImplementsMirror
<1>1. Init => Mirror!Init
  <2> SUFFICES ASSUME Init PROVE Mirror!Init
    OBVIOUS
  <2>1. \A p, k : CopiesOf(p, k) = {}
    BY DEF Init, CopiesOf, Mapped
  <2>2. Copies = [p \in Ptrs |-> [k \in Bytes |-> {}]]
    BY <2>1 DEF Copies, Bytes
  <2> QED BY <2>2 DEF Init, Mirror!Init, Mirror!Bytes, Bytes
<1>2. MInv /\ [Next]_vars => [Mirror!Next]_Mirror!vars
  BY NextMirror
<1> QED BY <1>1, <1>2, Mirroring, PTL DEF Spec, ImplementsMirror, Mirror!Spec

\* A call changes bytes of its slice only.
LEMMA UpdateTouches ==
  ASSUME MInv, NEW c \in Calls, Update(c), "units" \notin Misuse,
         "overlap" \notin Misuse, "resize" \notin Misuse, "subfree" \notin Misuse,
         NEW q \in Ptrs, NEW k \in Bytes,
         host'[q][k] # host[q][k] \/ CopiesOf(q, k)' # CopiesOf(q, k)
  PROVE  q = c.hptr /\ k \in Slice(c)
<1>1. CASE Map(c)
  BY <1>1, MapMirror DEF Turned, Map, Maps
<1>2. CASE MapWithoutMemory(c) \/ MapWithoutCopy(c) \/ Refuse(c)
  BY <1>2, FailedCallMirror
<1>3. CASE CopyTo(c)
  BY <1>3, CopyToMirror DEF Turned, CopyTo
<1>4. CASE CopyFrom(c)
  <2>1. CopiesOf(q, k)' = CopiesOf(q, k)
    BY <1>4, KeptMirror DEF CopyFrom
  <2> QED BY <1>4, <2>1, CopyFromMirror
<1>5. CASE Free(c)
  <2>1. PICK i \in Mapped :
          /\ Found(c, i)
          /\ \A r, b : CopiesOf(r, b)' # CopiesOf(r, b) =>
               r = mems[i].hptr /\ b \in Slice(mems[i])
    BY <1>5, FreeMirror
  <2>2. Slice(mems[i]) = Slice(c) /\ mems[i].hptr = c.hptr /\ UNCHANGED host
    BY <1>5, <2>1 DEF Free, Updates, Careful, Found, Contains
  <2> QED BY <2>1, <2>2
<1>6. CASE Reallocate(c)
  BY <1>6, NeverReallocates
<1> QED BY <1>1, <1>2, <1>3, <1>4, <1>5, <1>6 DEF Update

\* A call of nomp_update() disturbs no byte outside the slice it names, of this
\* and of every other array, on the host and on the device.
THEOREM Slices ==
  ASSUME "units" \notin Misuse, "overlap" \notin Misuse, "resize" \notin Misuse,
         "subfree" \notin Misuse
  PROVE  Spec => SliceOnly
<1> DEFINE Only == \A touched \in {Touched} : \A c \in Calls :
                     touched \subseteq {c.hptr} \X Slice(c) \/ ~Update(c)
<1>1. MInv /\ [Next]_vars => [Only]_vars
  <2> SUFFICES ASSUME MInv, NEW c \in Calls, Update(c)
               PROVE  Touched \subseteq {c.hptr} \X Slice(c)
    OBVIOUS
  <2> SUFFICES ASSUME NEW q \in Ptrs, NEW k \in Bytes,
                      host'[q][k] # host[q][k] \/ CopiesOf(q, k)' # CopiesOf(q, k)
               PROVE  q = c.hptr /\ k \in Slice(c)
    BY DEF Touched, Bytes
  <2> QED BY UpdateTouches
<1> QED BY <1>1, Mirroring, PTL DEF Spec, SliceOnly
=============================================================================

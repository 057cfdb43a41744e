------------------------ MODULE NompMemCopies_proofs ------------------------
(***************************************************************************)
(* Copies stay in their buffers, for every set of arrays, extent, element  *)
(* sizes and driver, and for a client that uses one element size for an    *)
(* array and allocates no slice twice.  It may overlap slices, and free    *)
(* parts of them.                                                          *)
(***************************************************************************)
EXTENDS NompMem_proofs

\* The buffer of entry i has the size of its slice: what nomp_update() makes
\* true when it maps the slice, and nothing but ALLOC on a mapped slice breaks.
BufferFits(i) == DOMAIN dev[mems[i].bptr] = 0 .. NBytes(mems[i]) - 1

BuffersFit == \A i \in Mapped : BufferFits(i)

\* Entries that stay keep buffers that fit, if no buffer changes its size.
LEMMA KeptBuffers ==
  ASSUME BuffersFit,
         \A i \in Mapped' : /\ i \in Mapped /\ mems'[i] = mems[i]
                            /\ DOMAIN dev'[mems[i].bptr] = DOMAIN dev[mems[i].bptr]
  PROVE  BuffersFit'
BY DEF BuffersFit, BufferFits, NBytes

\* A buffer that is allocated, whoever owns it, is none of those of the registry.
LEMMA AllocationKeepsBuffers ==
  ASSUME IInv, BuffersFit, NEW b \in Fresh, NEW n, dev' = Allocated(b, n), mems' = mems
  PROVE  BuffersFit'
<1>1. \A i \in Mapped : mems[i].bptr \in DOMAIN dev /\ mems[i].bptr # b
  BY OwnersOf DEF IInv, Fresh
<1>2. \A i \in Mapped : dev'[mems[i].bptr] = dev[mems[i].bptr]
  BY <1>1 DEF Allocated
<1>3. QED
  BY <1>2, KeptBuffers DEF Mapped

\* Nor does the contents of a buffer, or of an array, say how large it is.
LEMMA ContentsKeepBuffers ==
  ASSUME IInv, BuffersFit, NEW b, NEW f, DOMAIN f = DOMAIN dev[b],
         dev' = [dev EXCEPT ![b] = f], mems' = mems
  PROVE  BuffersFit'
<1>1. \A i \in Mapped : mems[i].bptr \in DOMAIN dev
  BY OwnersOf DEF IInv
<1>2. \A i \in Mapped : DOMAIN dev'[mems[i].bptr] = DOMAIN dev[mems[i].bptr]
  BY <1>1
<1>3. QED
  BY <1>2, KeptBuffers DEF Mapped

\* Buffers that are freed were those of the entries that are gone.
LEMMA ReleaseKeepsBuffers ==
  ASSUME IInv, BuffersFit, NEW S \in SUBSET Mapped,
         dev' = Without({mems[i].bptr : i \in S}),
         \A i \in Mapped' : i \in Mapped \ S /\ mems'[i] = mems[i]
  PROVE  BuffersFit'
<1>1. \A i \in Mapped \ S : /\ mems[i].bptr \in DOMAIN dev
                            /\ mems[i].bptr \notin {mems[j].bptr : j \in S}
  BY OwnersOf DEF IInv
<1>2. \A i \in Mapped' : DOMAIN dev'[mems[i].bptr] = DOMAIN dev[mems[i].bptr]
  BY <1>1 DEF Without
<1>3. QED
  BY <1>2, KeptBuffers

\* Map() allocates what the entry needs.
LEMMA MapFits ==
  ASSUME IInv, BuffersFit, NEW c \in Calls, Map(c)
  PROVE  BuffersFit'
<1>1. PICK b \in Fresh :
        /\ mems' = Append(mems, EntryFor(c, b))
        /\ dev' = [Allocated(b, NBytes(c)) EXCEPT ![b] =
                     IF c.op = "TO"
                     THEN Copied(@, 0, host[c.hptr], Start(c), NBytes(c))
                     ELSE @]
  BY DEF Map
<1>2. /\ Len(mems) \in Nat /\ Len(mems') = Len(mems) + 1
      /\ mems'[Len(mems) + 1] = EntryFor(c, b)
      /\ \A i \in 1 .. Len(mems) : mems'[i] = mems[i]
  BY <1>1 DEF IInv, TypeOK
<1>3. DOMAIN dev'[b] = 0 .. NBytes(c) - 1
  <2>1. Allocated(b, NBytes(c))[b] = [k \in 0 .. NBytes(c) - 1 |-> Junk]
        /\ b \in DOMAIN Allocated(b, NBytes(c))
    BY DEF Allocated
  <2>2. QED
    BY <1>1, <2>1 DEF Copied
<1>4. \A x \in DOMAIN dev : dev'[x] = dev[x]
  BY <1>1 DEF Allocated, Fresh
<1>5. ASSUME NEW i \in Mapped' PROVE BufferFits(i)'
  <2>1. CASE i = Len(mems) + 1
    <3>1. mems'[i].bptr = b /\ NBytes(mems'[i]) = NBytes(c)
      BY <1>2, <2>1 DEF EntryFor, NBytes
    <3>2. QED
      BY <1>3, <3>1 DEF BufferFits, NBytes
  <2>2. CASE i # Len(mems) + 1
    <3>1. i \in Mapped /\ mems'[i] = mems[i]
      BY <1>2, <2>2 DEF Mapped
    <3>2. mems[i].bptr \in DOMAIN dev
      BY <3>1, OwnersOf DEF IInv
    <3>3. QED
      BY <1>4, <3>1, <3>2 DEF BuffersFit, BufferFits, NBytes
  <2>3. QED
    BY <2>1, <2>2
<1>6. QED
  BY <1>5 DEF BuffersFit

LEMMA UpdateFits ==
  ASSUME IInv, BuffersFit, NEW c \in Calls, Update(c), "resize" \notin Misuse
  PROVE  BuffersFit'
<1>1. CASE Map(c)
  BY <1>1, MapFits
<1>2. CASE MapWithoutMemory(c) \/ CopyFrom(c) \/ Refuse(c)
  BY <1>2, KeptBuffers DEF MapWithoutMemory, CopyFrom, Refuse, vars, Mapped
<1>3. CASE MapWithoutCopy(c)
  BY <1>3, AllocationKeepsBuffers DEF MapWithoutCopy
<1>4. CASE Reallocate(c)
  \* is not done by this client
  <2>1. c.op = "ALLOC" /\ Careful(c) /\ \E i \in Mapped : Found(c, i)
    BY <1>4 DEF Reallocate, Updates
  <2>2. QED
    BY <2>1 DEF Careful, NotFound, Found
<1>5. CASE CopyTo(c)
  <2>1. PICK i \in Mapped :
          dev' = [dev EXCEPT ![mems[i].bptr] =
                    Copied(@, Offset(mems[i], c), host[c.hptr], Start(c), NBytes(c))]
    BY <1>5 DEF CopyTo
  <2> DEFINE f == Copied(dev[mems[i].bptr], Offset(mems[i], c), host[c.hptr], Start(c),
                         NBytes(c))
  <2>2. DOMAIN f = DOMAIN dev[mems[i].bptr]
    BY DEF Copied
  <2>3. dev' = [dev EXCEPT ![mems[i].bptr] = f] /\ mems' = mems
    BY <1>5, <2>1 DEF CopyTo
  <2> HIDE DEF f
  <2>4. QED
    BY <2>2, <2>3, ContentsKeepBuffers
<1>6. CASE Free(c)
  <2>1. PICK i \in Mapped : dev' = Without({mems[i].bptr}) /\ mems' = Cleanup(i)
    BY <1>6 DEF Free
  <2>2. \A j \in Mapped' : j \in Mapped \ {i} /\ mems'[j] = mems[j]
    BY <2>1 DEF Cleanup, Mapped, IInv, TypeOK
  <2>3. {mems[j].bptr : j \in {i}} = {mems[i].bptr}
    OBVIOUS
  <2>4. QED
    BY <2>1, <2>2, <2>3, ReleaseKeepsBuffers
<1>7. QED
  BY <1>1, <1>2, <1>3, <1>4, <1>5, <1>6 DEF Update

LEMMA NextFits ==
  ASSUME IInv, BuffersFit, [Next]_vars, "resize" \notin Misuse
  PROVE  BuffersFit'
<1>1. CASE Initialize
  BY <1>1, AllocationKeepsBuffers DEF Initialize
<1>2. CASE \E c \in Calls : Update(c)
  BY <1>2, UpdateFits
<1>3. ASSUME NEW p \in Ptrs, NEW e \in 0 .. Extent - 1, NEW u \in USizes, NEW v \in Values,
             KernelStore(p, e, u, v)
      PROVE  BuffersFit'
  <2>1. PICK i \in Mapped : dev' = [dev EXCEPT ![mems[i].bptr] = Stored(@, e, u, v)]
    BY <1>3 DEF KernelStore
  <2>2. DOMAIN Stored(dev[mems[i].bptr], e, u, v) = DOMAIN dev[mems[i].bptr]
    BY DEF Stored
  <2>3. mems' = mems
    BY <1>3 DEF KernelStore
  <2>4. QED
    BY <2>1, <2>2, <2>3, ContentsKeepBuffers
<1>4. ASSUME NEW p \in Ptrs, NEW e \in 0 .. Extent - 1, NEW u \in USizes, NEW v \in Values,
             HostStore(p, e, u, v)
      PROVE  BuffersFit'
  BY <1>4, KeptBuffers DEF HostStore, Mapped
<1>5. CASE Finalize \/ FinalizeStopsAtScratch \/ FinalizeStopsAfterScratch
  <2>1. mems' = <<>>
    BY <1>5 DEF Finalize, FinalizeStopsAtScratch, FinalizeStopsAfterScratch, FreesAll
  <2>2. QED
    BY <2>1 DEF BuffersFit, Mapped
<1>6. ASSUME NEW k \in 1 .. Len(mems), FinalizeStopsAt(k) PROVE BuffersFit'
  <2> DEFINE S == {j \in Mapped : j < k}
  <2>1. /\ dev' = Without({mems[i].bptr : i \in S})
        /\ mems' = [i \in 1 .. Len(mems) |-> IF i < k THEN NULL ELSE mems[i]]
    BY <1>6 DEF FinalizeStopsAt
  <2>2. \A i \in Mapped' : i \in Mapped \ S /\ mems'[i] = mems[i]
    <3>1. Len(mems) \in Nat /\ Len(mems') = Len(mems)
      BY <2>1 DEF IInv, TypeOK
    <3>2. QED
      BY <2>1, <3>1 DEF Mapped
  <2>3. S \in SUBSET Mapped
    OBVIOUS
  <2> HIDE DEF S
  <2>4. QED
    BY <2>1, <2>2, <2>3, ReleaseKeepsBuffers
<1>7. CASE UNCHANGED vars
  BY <1>7, KeptBuffers DEF vars, Mapped
<1>8. QED
  BY <1>1, <1>2, <1>3, <1>4, <1>5, <1>6, <1>7 DEF Next

\* A slice that is contained in bytes is contained in elements of one size.
LEMMA ContainedFits ==
  ASSUME IInv, BuffersFit, NEW c \in Calls, NEW i \in Mapped, Found(c, i),
         mems[i].usize = c.usize
  PROVE  InBounds(mems[i], c)
<1>1. /\ c.idx0 \in Nat /\ c.idx1 \in Nat /\ c.usize \in Nat
      /\ mems[i].idx0 \in Nat /\ mems[i].idx1 \in Nat
  <2>1. TypeOK
    BY DEF IInv
  <2>2. c.idx0 \in Nat /\ c.idx1 \in Nat
    BY CallFields, NompMemAssumption
  <2>3. mems[i].idx0 \in Nat /\ mems[i].idx1 \in Nat
    BY <2>1, MappedEntry, NompMemAssumption
  <2>4. c.usize \in Nat
    BY CallFields, NompMemAssumption
  <2>5. QED
    BY <2>2, <2>3, <2>4
<1>2. \A x, y, u \in Nat : (x - y) * u = x * u - y * u /\ x * u \in Nat
  OBVIOUS
<1>3. /\ Offset(mems[i], c) = Start(c) - Start(mems[i])
      /\ NBytes(c) = End(c) - Start(c)
      /\ NBytes(mems[i]) = End(mems[i]) - Start(mems[i])
      /\ {Start(c), End(c), Start(mems[i]), End(mems[i])} \subseteq Nat
  BY <1>1, <1>2 DEF Offset, NBytes, Start, End
<1>4. Start(mems[i]) <= Start(c) /\ End(c) <= End(mems[i])
  BY <1>3 DEF Found, Contains
<1>5. /\ Offset(mems[i], c) \in Nat
      /\ Offset(mems[i], c) + NBytes(c) <= NBytes(mems[i])
      /\ NBytes(c) \in Int /\ NBytes(mems[i]) \in Int
  BY <1>3, <1>4
<1>6. DOMAIN dev[mems[i].bptr] = 0 .. NBytes(mems[i]) - 1
  BY DEF BuffersFit, BufferFits
<1>7. QED
  BY <1>5, <1>6 DEF InBounds

\* A client that uses one element size for each array and allocates no slice
\* twice is never refused a copy: each is in the buffer that was found for it.
\* Neither condition can be dropped: offsets are counted in elements of the
\* call, and ALLOC of a part leaves an entry with a smaller buffer.
THEOREM Copying ==
  ASSUME "units" \notin Misuse, "resize" \notin Misuse
  PROVE  Spec => []CopiesFit
<1>1. Init => BuffersFit
  BY DEF Init, BuffersFit, Mapped
<1>2. IInv /\ BuffersFit /\ [Next]_vars => BuffersFit'
  BY NextFits
<1>3. IInv /\ BuffersFit => CopiesFit
  <2> SUFFICES ASSUME IInv, BuffersFit, NEW c \in Calls, NEW i \in Mapped,
                      Careful(c), Found(c, i)
               PROVE  InBounds(mems[i], c)
    BY DEF CopiesFit
  <2>1. mems[i].usize = c.usize
    BY DEF Careful, Found, Contains
  <2>2. QED
    BY <2>1, ContainedFits
<1>4. QED
  BY <1>1, <1>2, <1>3, Inductive, PTL DEF Spec
=============================================================================

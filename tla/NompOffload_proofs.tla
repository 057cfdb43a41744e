------------------------- MODULE NompOffload_proofs -------------------------
(***************************************************************************)
(* Offloading is transparent, for every program, every contents of the     *)
(* arrays, every number of launches that are pending, and a driver that    *)
(* refuses memory and copies when it likes.                                *)
(*                                                                         *)
(* The argument is about one byte at a time: it has a value for the        *)
(* program, and wherever the client believes that value to be, on the host *)
(* or in the copy the device will have after its launches, there it is.    *)
(* Device memory after the launches is computed recursively; what is to be *)
(* known of it is proved by induction, which here is a lemma about sets of *)
(* naturals.                                                               *)
(***************************************************************************)
EXTENDS NompOffload, NompMemMirror_proofs, WellFoundedInduction

(***************************************************************************)
(* Induction.                                                              *)
(***************************************************************************)
Less == {ss \in Nat \X Nat : ss[1] < ss[2]}

LEMMA Induction ==
  ASSUME NEW T, 0 \in T, \A n \in Nat : n \in T => n + 1 \in T
  PROVE  Nat \subseteq T
<1> DEFINE U == Nat \ T
<1>1. SUFFICES ASSUME U # {} PROVE FALSE
  OBVIOUS
<1>2. IsWellFoundedOn(Less, Nat)
  BY NatLessThanWellFounded DEF OpToRel, Less
<1>3. PICK n \in U : \A m \in U : <<m, n>> \notin Less
  BY <1>1, <1>2, WFMin
<1>4. n \in Nat /\ \A m \in U : ~(m < n)
  BY <1>3 DEF Less
<1>5. n - 1 \in Nat /\ (n - 1) + 1 = n /\ n - 1 < n
  BY <1>3, <1>4
<1>6. n - 1 \in T
  BY <1>4, <1>5
<1>7. QED
  BY <1>3, <1>5, <1>6

(***************************************************************************)
(* Device memory after each launch.                                        *)
(***************************************************************************)
Launch == [dst : Bufs, src : Bufs, n : Nat]

\* t is device memory d after each of the launches q.
IsTrace(t, d, q) ==
  t = [n \in 0 .. Len(q) |-> IF n = 0 THEN d ELSE Executed(t[n - 1], q[n])]

LEMMA TraceSteps ==
  ASSUME NEW d, NEW q \in Seq(Launch), NEW t, IsTrace(t, d, q)
  PROVE  /\ DOMAIN t = 0 .. Len(q) /\ t[0] = d
         /\ \A n \in Nat : n < Len(q) => t[n + 1] = Executed(t[n], q[n + 1])
<1>1. Len(q) \in Nat
  OBVIOUS
<1>2. PICK u : u = t
  OBVIOUS
<1>3. t = [n \in 0 .. Len(q) |-> IF n = 0 THEN d ELSE Executed(u[n - 1], q[n])]
  BY <1>2 DEF IsTrace
<1>4. ASSUME NEW n \in Nat, n < Len(q)
      PROVE  t[n + 1] = Executed(t[n], q[n + 1])
  <2>1. n + 1 \in 0 .. Len(q) /\ n + 1 # 0 /\ (n + 1) - 1 = n
    BY <1>1, <1>4
  <2>2. QED
    BY <1>2, <1>3, <2>1
<1>5. t[0] = d /\ DOMAIN t = 0 .. Len(q)
  <2>1. 0 \in 0 .. Len(q)
    BY <1>1
  <2>2. QED
    BY <1>3, <2>1
<1>6. QED
  BY <1>4, <1>5

LEMMA TraceUnique ==
  ASSUME NEW d, NEW q \in Seq(Launch), NEW t, IsTrace(t, d, q), NEW u, IsTrace(u, d, q)
  PROVE  t = u
<1> DEFINE T == {n \in Nat : n <= Len(q) => t[n] = u[n]}
<1>1. Len(q) \in Nat
  OBVIOUS
<1>2. 0 \in T
  <2>1. t[0] = d /\ u[0] = d
    BY TraceSteps
  <2>2. QED
    BY <2>1
<1>3. ASSUME NEW n \in Nat, n \in T PROVE n + 1 \in T
  <2>1. n + 1 <= Len(q) => n < Len(q) /\ n <= Len(q)
    BY <1>1
  <2>2. n < Len(q) => t[n + 1] = Executed(t[n], q[n + 1]) /\ u[n + 1] = Executed(u[n], q[n + 1])
    BY TraceSteps
  <2>3. QED
    BY <1>3, <2>1, <2>2
<1>4. Nat \subseteq T
  <2> HIDE DEF T
  <2>1. QED
    BY <1>2, <1>3, Induction
<1>5. \A n \in 0 .. Len(q) : t[n] = u[n]
  BY <1>1, <1>4
<1>6. t = [n \in 0 .. Len(q) |-> t[n]] /\ u = [n \in 0 .. Len(q) |-> u[n]]
  BY DEF IsTrace
<1>7. QED
  BY <1>5, <1>6

LEMMA TraceExists ==
  ASSUME NEW d, NEW q \in Seq(Launch)
  PROVE  \E t : IsTrace(t, d, q)
<1> DEFINE Up(n, t) == t = [k \in 0 .. n |-> IF k = 0 THEN d ELSE Executed(t[k - 1], q[k])]
           T == {n \in Nat : \E t : Up(n, t)}
<1>1. 0 \in T
  <2> DEFINE t == [k \in 0 .. 0 |-> d]
  <2>1. Up(0, t)
    OBVIOUS
  <2>2. QED
    BY <2>1
<1>2. ASSUME NEW n \in Nat, n \in T PROVE n + 1 \in T
  <2>1. PICK t : Up(n, t)
    BY <1>2
  <2> DEFINE u == [k \in 0 .. n + 1 |-> IF k = n + 1 THEN Executed(t[n], q[n + 1]) ELSE t[k]]
  <2>2. \A k \in 0 .. n : u[k] = t[k]
    OBVIOUS
  <2>3. ASSUME NEW k \in 0 .. n + 1
        PROVE  u[k] = IF k = 0 THEN d ELSE Executed(u[k - 1], q[k])
    <3>1. CASE k = n + 1
      <4>1. k # 0 /\ k - 1 = n /\ n \in 0 .. n
        BY <3>1
      <4>2. u[k] = Executed(t[n], q[k]) /\ u[n] = t[n]
        BY <2>2, <3>1, <4>1
      <4>3. QED
        BY <4>1, <4>2
    <3>2. CASE k # n + 1
      <4>1. k \in 0 .. n /\ (k # 0 => k - 1 \in 0 .. n)
        BY <3>2
      <4>2. t[k] = IF k = 0 THEN d ELSE Executed(t[k - 1], q[k])
        BY <2>1, <4>1
      <4> HIDE DEF u
      <4>3. QED
        BY <2>2, <4>1, <4>2
    <3>3. QED
      BY <3>1, <3>2
  <2>4. Up(n + 1, u)
    <3>1. u = [k \in 0 .. n + 1 |-> u[k]]
      OBVIOUS
    <3> HIDE DEF u
    <3>2. QED
      BY <2>3, <3>1
  <2> HIDE DEF Up, u
  <2>5. QED
    BY <2>4
<1>3. Len(q) \in T
  <2> HIDE DEF T
  <2>1. QED
    BY <1>1, <1>2, Induction
<1>4. QED
  BY <1>3 DEF IsTrace

LEMMA AfterEachTrace ==
  ASSUME NEW d, NEW q \in Seq(Launch)
  PROVE  IsTrace(AfterEach(d, q), d, q)
<1>1. AfterEach(d, q) = CHOOSE t : IsTrace(t, d, q)
  BY DEF AfterEach, IsTrace
<1>2. QED
  BY <1>1, TraceExists

\* Device memory after no launch, after one more, and with the first of them
\* already done.
LEMMA AfterNone ==
  ASSUME NEW d
  PROVE  AfterAll(d, <<>>) = d
<1>1. <<>> \in Seq(Launch) /\ Len(<<>>) = 0
  OBVIOUS
<1>2. PICK q : q = <<>>
  OBVIOUS
<1>3. PICK t : t = AfterEach(d, q)
  OBVIOUS
<1>4. t[0] = d
  BY <1>1, <1>2, <1>3, AfterEachTrace, TraceSteps
<1>5. QED
  BY <1>1, <1>2, <1>3, <1>4 DEF AfterAll

LEMMA AfterAppend ==
  ASSUME NEW d, NEW q \in Seq(Launch), NEW l \in Launch
  PROVE  AfterAll(d, Append(q, l)) = Executed(AfterAll(d, q), l)
<1>1. PICK r : r = Append(q, l)
  OBVIOUS
<1>2. /\ r \in Seq(Launch) /\ Len(q) \in Nat /\ Len(r) = Len(q) + 1
      /\ \A n \in 1 .. Len(q) : r[n] = q[n]
      /\ r[Len(r)] = l
  BY <1>1
<1>3. PICK t : t = AfterEach(d, q)
  OBVIOUS
<1>4. IsTrace(t, d, q)
  BY <1>3, AfterEachTrace
<1> DEFINE u == [n \in 0 .. Len(r) |-> IF n = Len(r) THEN Executed(t[Len(q)], l) ELSE t[n]]
<1>5. ASSUME NEW n \in 0 .. Len(r)
      PROVE  u[n] = IF n = 0 THEN d ELSE Executed(u[n - 1], r[n])
  <2>1. CASE n = Len(r)
    <3>1. n # 0 /\ n - 1 = Len(q) /\ n - 1 \in 0 .. Len(r) /\ n - 1 # Len(r)
      BY <1>2, <2>1
    <3>2. u[n - 1] = t[Len(q)] /\ u[n] = Executed(t[Len(q)], l)
      BY <2>1, <3>1
    <3> HIDE DEF u
    <3>3. QED
      BY <1>2, <2>1, <3>1, <3>2
  <2>2. CASE n = 0 /\ n # Len(r)
    <3>1. t[0] = d
      BY <1>4, TraceSteps
    <3>2. QED
      BY <2>2, <3>1
  <2>3. CASE n # 0 /\ n # Len(r)
    <3>1. /\ n - 1 \in Nat /\ n - 1 < Len(q) /\ (n - 1) + 1 = n /\ n \in 1 .. Len(q)
          /\ n - 1 \in 0 .. Len(r) /\ n - 1 # Len(r)
      BY <1>2, <2>3
    <3>2. t[n] = Executed(t[n - 1], q[n])
      <4>1. PICK m \in Nat : m = n - 1
        BY <3>1
      <4>2. m + 1 = n /\ m < Len(q)
        BY <3>1, <4>1
      <4>3. t[m + 1] = Executed(t[m], q[m + 1])
        BY <1>4, <4>2, TraceSteps
      <4>4. QED
        BY <4>1, <4>2, <4>3
    <3>3. u[n] = t[n] /\ u[n - 1] = t[n - 1] /\ r[n] = q[n]
      BY <1>2, <2>3, <3>1
    <3> HIDE DEF u
    <3>4. QED
      BY <2>3, <3>2, <3>3
  <2>4. QED
    BY <2>1, <2>2, <2>3
<1>6. u = [n \in 0 .. Len(r) |-> u[n]]
  OBVIOUS
<1>7. Len(r) \in 0 .. Len(r) /\ u[Len(r)] = Executed(t[Len(q)], l)
  BY <1>2
<1> HIDE DEF u
<1>8. IsTrace(u, d, r)
  BY <1>5, <1>6 DEF IsTrace
<1>9. u = AfterEach(d, r)
  BY <1>2, <1>8, AfterEachTrace, TraceUnique
<1>10. QED
  BY <1>1, <1>3, <1>7, <1>9 DEF AfterAll

LEMMA AfterFirst ==
  ASSUME NEW d, NEW q \in Seq(Launch), q # <<>>
  PROVE  AfterAll(Executed(d, Head(q)), Tail(q)) = AfterAll(d, q)
<1>1. PICK r : r = Tail(q)
  OBVIOUS
<1>2. /\ r \in Seq(Launch) /\ Len(r) \in Nat /\ Len(q) = Len(r) + 1
      /\ \A n \in 1 .. Len(r) : r[n] = q[n + 1]
      /\ Head(q) = q[1]
  BY <1>1
<1>3. PICK t : t = AfterEach(d, q)
  OBVIOUS
<1>4. IsTrace(t, d, q)
  BY <1>3, AfterEachTrace
<1>5. PICK e : e = Executed(d, Head(q))
  OBVIOUS
<1> DEFINE u == [n \in 0 .. Len(r) |-> t[n + 1]]
<1>6. ASSUME NEW n \in 0 .. Len(r)
      PROVE  u[n] = IF n = 0 THEN e ELSE Executed(u[n - 1], r[n])
  <2>1. n \in Nat /\ n < Len(q)
    BY <1>2
  <2>2. t[n + 1] = Executed(t[n], q[n + 1])
    BY <1>4, <2>1, TraceSteps
  <2>3. CASE n = 0
    <3>1. t[0] = d
      BY <1>4, TraceSteps
    <3>2. QED
      BY <1>2, <1>5, <2>2, <2>3, <3>1
  <2>4. CASE n # 0
    <3>1. n - 1 \in 0 .. Len(r) /\ (n - 1) + 1 = n /\ n \in 1 .. Len(r)
      BY <2>1, <2>4
    <3>2. u[n] = t[n + 1] /\ u[n - 1] = t[n] /\ r[n] = q[n + 1]
      BY <1>2, <3>1
    <3> HIDE DEF u
    <3>3. QED
      BY <2>2, <2>4, <3>2
  <2>5. QED
    BY <2>3, <2>4
<1>7. u = [n \in 0 .. Len(r) |-> u[n]]
  OBVIOUS
<1>8. u[Len(r)] = t[Len(q)]
  BY <1>2
<1> HIDE DEF u
<1>9. IsTrace(u, e, r)
  BY <1>6, <1>7 DEF IsTrace
<1>10. u = AfterEach(e, r)
  BY <1>2, <1>9, AfterEachTrace, TraceUnique
<1>11. QED
  BY <1>1, <1>3, <1>5, <1>8, <1>10 DEF AfterAll

(***************************************************************************)
(* What launches leave alone: which buffers there are, and their sizes.    *)
(***************************************************************************)
LaunchFits(d, l) ==
  /\ l \in Launch
  /\ l.dst \in DOMAIN d /\ l.src \in DOMAIN d
  /\ 0 .. l.n - 1 \subseteq DOMAIN d[l.src]

LaunchesFit(d, q) ==
  /\ q \in Seq(Launch)
  /\ \A n \in 1 .. Len(q) : LaunchFits(d, q[n])

SameShape(d, e) ==
  /\ DevOK(e) /\ DOMAIN e = DOMAIN d
  /\ \A b \in DOMAIN d : DOMAIN e[b] = DOMAIN d[b]

LEMMA AddedContents ==
  ASSUME NEW f \in Contents, NEW g \in Contents, NEW n \in Nat, 0 .. n - 1 \subseteq DOMAIN g
  PROVE  /\ Program!Added(f, g, n) \in Contents
         /\ DOMAIN Program!Added(f, g, n) = DOMAIN f
<1>1. PICK x \in 0 .. Extent : f \in [0 .. x - 1 -> Byte]
  BY DEF Contents
<1>2. \A k \in DOMAIN g : g[k] \in Byte
  BY DEF Contents
<1>3. \A y \in Byte : y \in Int
  BY NompOffloadAssumption DEF Byte
<1>4. \A y, z \in Int : Program!Plus(y, z) \in Byte
  BY NompOffloadAssumption DEF Program!Plus, Byte
<1>5. ASSUME NEW k \in 0 .. x - 1
      PROVE  (IF k < n THEN Program!Plus(f[k], g[k]) ELSE f[k]) \in Byte
  <2>1. f[k] \in Byte
    BY <1>1
  <2>2. CASE k < n
    <3>1. k \in 0 .. n - 1
      BY <2>2
    <3>2. g[k] \in Byte
      BY <1>2, <3>1
    <3>3. QED
      BY <1>3, <1>4, <2>1, <2>2, <3>2
  <2>3. QED
    BY <2>1, <2>2
<1>6. DOMAIN f = 0 .. x - 1
  BY <1>1
<1>7. Program!Added(f, g, n) \in [0 .. x - 1 -> Byte]
  BY <1>5, <1>6 DEF Program!Added
<1>8. QED
  BY <1>6, <1>7, ContentsOf

LEMMA ExecutedFits ==
  ASSUME NEW d, DevOK(d), NEW l, LaunchFits(d, l)
  PROVE  /\ Executed(d, l) = [d EXCEPT ![l.dst] = Program!Added(d[l.dst], d[l.src], l.n)]
         /\ SameShape(d, Executed(d, l))
<1>1. l.dst \in DOMAIN d /\ l.src \in DOMAIN d /\ l.n \in Nat /\ 0 .. l.n - 1 \subseteq DOMAIN d[l.src]
  BY DEF LaunchFits, Launch
<1>2. d[l.dst] \in Contents /\ d[l.src] \in Contents
  BY <1>1 DEF DevOK
<1>3. PICK f : f = Program!Added(d[l.dst], d[l.src], l.n)
  OBVIOUS
<1>4. f \in Contents /\ DOMAIN f = DOMAIN d[l.dst]
  BY <1>1, <1>2, <1>3, AddedContents
<1>5. Executed(d, l) = [d EXCEPT ![l.dst] = f]
  BY <1>1, <1>3 DEF Executed
<1>6. SameShape(d, [d EXCEPT ![l.dst] = f])
  BY <1>1, <1>4, UpdatedOK DEF SameShape
<1>7. QED
  BY <1>3, <1>5, <1>6

LEMMA SameShapeFits ==
  ASSUME NEW d, NEW e, SameShape(d, e), NEW l, LaunchFits(d, l)
  PROVE  LaunchFits(e, l)
BY DEF SameShape, LaunchFits

LEMMA AfterFits ==
  ASSUME NEW d, DevOK(d), NEW q, LaunchesFit(d, q)
  PROVE  SameShape(d, AfterAll(d, q))
<1>1. PICK t : t = AfterEach(d, q)
  OBVIOUS
<1>2. q \in Seq(Launch) /\ Len(q) \in Nat /\ IsTrace(t, d, q)
  BY <1>1, AfterEachTrace DEF LaunchesFit
<1> DEFINE T == {n \in Nat : n <= Len(q) => SameShape(d, t[n])}
<1>3. 0 \in T
  <2>1. t[0] = d
    BY <1>2, TraceSteps
  <2>2. QED
    BY <2>1 DEF SameShape
<1>4. ASSUME NEW n \in Nat, n \in T PROVE n + 1 \in T
  <2>1. SUFFICES ASSUME n + 1 <= Len(q) PROVE SameShape(d, t[n + 1])
    OBVIOUS
  <2>2. n < Len(q) /\ n <= Len(q) /\ n + 1 \in 1 .. Len(q)
    BY <1>2, <2>1
  <2>3. t[n + 1] = Executed(t[n], q[n + 1])
    BY <1>2, <2>2, TraceSteps
  <2>4. SameShape(d, t[n])
    BY <1>4, <2>2
  <2>5. LaunchFits(t[n], q[n + 1]) /\ DevOK(t[n])
    BY <2>2, <2>4, SameShapeFits DEF LaunchesFit, SameShape
  <2>6. SameShape(t[n], t[n + 1])
    BY <2>3, <2>5, ExecutedFits
  <2>7. QED
    BY <2>4, <2>6 DEF SameShape
<1>5. Nat \subseteq T
  <2> HIDE DEF T
  <2>1. QED
    BY <1>3, <1>4, Induction
<1>6. QED
  BY <1>1, <1>2, <1>5 DEF AfterAll

\* Memory that is allocated while launches are pending does not disturb them.
Extends(d, e) ==
  /\ DevOK(e) /\ DOMAIN d \subseteq DOMAIN e
  /\ \A b \in DOMAIN d : e[b] = d[b]

LEMMA ExtendsFits ==
  ASSUME NEW d, NEW e, Extends(d, e), NEW q, LaunchesFit(d, q)
  PROVE  LaunchesFit(e, q)
BY DEF Extends, LaunchesFit, LaunchFits

LEMMA ExecutedExtends ==
  ASSUME NEW d, DevOK(d), NEW e, Extends(d, e), NEW l, LaunchFits(d, l)
  PROVE  Extends(Executed(d, l), Executed(e, l))
<1>1. /\ l.dst \in DOMAIN d /\ l.src \in DOMAIN d /\ DevOK(e)
      /\ DOMAIN d \subseteq DOMAIN e /\ e[l.dst] = d[l.dst] /\ e[l.src] = d[l.src]
  BY DEF LaunchFits, Extends
<1>2. LaunchFits(e, l)
  BY <1>1 DEF LaunchFits
<1>3. PICK f : f = Program!Added(d[l.dst], d[l.src], l.n)
  OBVIOUS
<1>4. Executed(d, l) = [d EXCEPT ![l.dst] = f] /\ SameShape(d, Executed(d, l))
  BY <1>3, ExecutedFits
<1>5. Executed(e, l) = [e EXCEPT ![l.dst] = f] /\ SameShape(e, Executed(e, l))
  BY <1>1, <1>2, <1>3, ExecutedFits
<1>6. QED
  BY <1>1, <1>4, <1>5 DEF Extends, SameShape

LEMMA AfterExtends ==
  ASSUME NEW d, DevOK(d), NEW e, Extends(d, e), NEW q, LaunchesFit(d, q)
  PROVE  Extends(AfterAll(d, q), AfterAll(e, q))
<1>1. PICK t : t = AfterEach(d, q)
  OBVIOUS
<1>2. PICK u : u = AfterEach(e, q)
  OBVIOUS
<1>3. q \in Seq(Launch) /\ Len(q) \in Nat /\ IsTrace(t, d, q) /\ IsTrace(u, e, q)
  BY <1>1, <1>2, AfterEachTrace DEF LaunchesFit
<1> DEFINE T == {n \in Nat : n <= Len(q) => SameShape(d, t[n]) /\ Extends(t[n], u[n])}
<1>4. 0 \in T
  <2>1. t[0] = d /\ u[0] = e
    BY <1>3, TraceSteps
  <2>2. QED
    BY <2>1 DEF SameShape
<1>5. ASSUME NEW n \in Nat, n \in T PROVE n + 1 \in T
  <2>1. SUFFICES ASSUME n + 1 <= Len(q)
                 PROVE  SameShape(d, t[n + 1]) /\ Extends(t[n + 1], u[n + 1])
    OBVIOUS
  <2>2. n < Len(q) /\ n <= Len(q) /\ n + 1 \in 1 .. Len(q)
    BY <1>3, <2>1
  <2>3. /\ t[n + 1] = Executed(t[n], q[n + 1])
        /\ u[n + 1] = Executed(u[n], q[n + 1])
    BY <1>3, <2>2, TraceSteps
  <2>4. SameShape(d, t[n]) /\ Extends(t[n], u[n])
    BY <1>5, <2>2
  <2>5. LaunchFits(t[n], q[n + 1]) /\ DevOK(t[n])
    BY <2>2, <2>4, SameShapeFits DEF LaunchesFit, SameShape
  <2>6. SameShape(t[n], t[n + 1]) /\ Extends(t[n + 1], u[n + 1])
    BY <2>3, <2>4, <2>5, ExecutedFits, ExecutedExtends
  <2>7. QED
    BY <2>4, <2>6 DEF SameShape
<1>6. Nat \subseteq T
  <2> HIDE DEF T
  <2>1. QED
    BY <1>4, <1>5, Induction
<1>7. QED
  BY <1>1, <1>2, <1>3, <1>6 DEF AfterAll

(***************************************************************************)
(* The value of a byte, and where it is.                                   *)
(***************************************************************************)
Places == {{"host"}, {"dev"}, Both}

\* The copy entry i will have of byte k of its array, and all there will be.
CopyAfter(i, k) == DeviceAfterQueue[mems[i].bptr][k - Start(mems[i])]
CopiesAfter(p, k) == {CopyAfter(i, k) : i \in Holders(p, k)}

\* Wherever the client takes the value of a byte to be, there is what m has.
ByteHolds(m, p, k) ==
  /\ "host" \in valid[p][k] => host[p][k] = m[p][k]
  /\ "dev" \in valid[p][k] => CopiesAfter(p, k) = {m[p][k]}

Holds(m) ==
  /\ valid \in [Ptrs -> [Bytes -> Places]]
  /\ \A p \in Ptrs, k \in Bytes : ByteHolds(m, p, k)

IsMemory(m) == m = [p \in Ptrs |-> [k \in Bytes |-> m[p][k]]]

\* What the client takes the values to be determines the memory of the program.
Determination == \A m : SlicesApart /\ Holds(m) /\ IsMemory(m) => Memory = m

LEMMA Determined == Determination
<1>1. SUFFICES ASSUME NEW m, SlicesApart, Holds(m), IsMemory(m)
               PROVE  Memory = m
  BY DEF Determination
<1>2. PICK d : d = DeviceAfterQueue
  OBVIOUS
<1>3. ASSUME NEW p \in Ptrs, NEW k \in Bytes
      PROVE  ValuesOf(p, d)[k] = m[p][k]
  <2>1. ByteHolds(m, p, k) /\ valid[p][k] \in Places
    BY <1>1 DEF Holds
  <2>2. CASE "host" \in valid[p][k]
    BY <2>1, <2>2 DEF ByteHolds, ValuesOf, Bytes
  <2>3. CASE "host" \notin valid[p][k]
    <3>1. CopiesAfter(p, k) = {m[p][k]}
      BY <2>1, <2>3 DEF ByteHolds, Places, Both
    <3> DEFINE i == CHOOSE i \in Mapped : mems[i].hptr = p /\ k \in Slice(mems[i])
    <3>2. i \in Holders(p, k)
      BY <3>1 DEF CopiesAfter, Holders
    <3>3. ValuesOf(p, d)[k] = d[mems[i].bptr][k - Start(mems[i])]
      BY <2>3 DEF ValuesOf, Bytes
    <3> HIDE DEF i
    <3>4. d[mems[i].bptr][k - Start(mems[i])] \in CopiesAfter(p, k)
      BY <1>2, <3>2 DEF CopiesAfter, CopyAfter
    <3>5. QED
      BY <3>1, <3>3, <3>4
  <2>4. QED
    BY <2>2, <2>3
<1>4. \A p \in Ptrs : ValuesOf(p, d) = [k \in Bytes |-> m[p][k]]
  <2>1. ASSUME NEW p \in Ptrs
        PROVE  ValuesOf(p, d) = [k \in Bytes |-> ValuesOf(p, d)[k]]
    BY DEF ValuesOf, Bytes
  <2>2. QED
    BY <1>3, <2>1
<1>5. Memory = [p \in Ptrs |-> ValuesOf(p, d)]
  BY <1>2 DEF Memory
<1>6. QED
  BY <1>1, <1>4, <1>5 DEF IsMemory

LEMMA DeterminedNext == Determination'
BY Determined, PTL

LEMMA MemoryIsMemory == IsMemory(Memory)
<1>1. PICK d : d = DeviceAfterQueue
  OBVIOUS
<1>2. Memory = [p \in Ptrs |-> [k \in Bytes |-> ValuesOf(p, d)[k]]]
  BY <1>1 DEF Memory, ValuesOf, Bytes
<1>3. QED
  BY <1>2 DEF IsMemory

\* After a step that leaves everywhere what m has, m is the memory.
LEMMA Becomes ==
  ASSUME NEW m, IsMemory(m), SlicesApart', Holds(m)'
  PROVE  Memory' = m /\ Holds(Memory)'
<1>1. Memory' = m
  BY DeterminedNext DEF Determination, IsMemory
<1>2. QED
  BY <1>1 DEF Holds, ByteHolds

(***************************************************************************)
(* The inductive invariant.                                                *)
(***************************************************************************)
OInv ==
  /\ MInv
  /\ Holds(Memory)
  /\ LaunchesFit(dev, queue)
  /\ ~up => queue = <<>>
  /\ todo \in Seq(Statements)

LEMMA DevTyped ==
  ASSUME IInv
  PROVE  DevOK(dev)
BY DEF IInv, TypeOK, DevOK

LEMMA DevTypedNext ==
  ASSUME IInv'
  PROVE  DevOK(dev')
BY DEF IInv, TypeOK, DevOK

\* Launches change what buffers hold, not which there are.
LEMMA ShapeAfterQueue ==
  ASSUME IInv, LaunchesFit(dev, queue)
  PROVE  SameShape(dev, DeviceAfterQueue)
BY DevTyped, AfterFits DEF DeviceAfterQueue

\* While no launch is pending, the copies are those of the registry.
Idle == queue = <<>> => DeviceAfterQueue = dev /\ \A p, k : CopiesAfter(p, k) = CopiesOf(p, k)

LEMMA IdleCopies == Idle
<1>1. SUFFICES ASSUME queue = <<>> PROVE DeviceAfterQueue = dev /\ \A p, k : CopiesAfter(p, k) = CopiesOf(p, k)
  BY DEF Idle
<1>2. DeviceAfterQueue = dev
  BY <1>1, AfterNone DEF DeviceAfterQueue
<1>3. QED
  BY <1>2, CopiesOfHolders DEF CopiesAfter, CopyAfter, CopyIn

LEMMA IdleCopiesNext == Idle'
BY IdleCopies, PTL

\* An entry that stays still holds what it held.
LEMMA StillHeld ==
  ASSUME SlicesApart', NEW p, NEW k, NEW v, NEW i \in Holders(p, k),
         i \in Mapped', mems'[i] = mems[i], CopyAfter(i, k)' = v
  PROVE  CopiesAfter(p, k)' = {v}
<1>1. Holders(p, k)' = {j \in Mapped' : mems'[j].hptr = p /\ k \in Slice(mems'[j])}
  BY DEF Holders, Slice, Start, End
<1>2. i \in Holders(p, k)'
  BY <1>1 DEF Holders
<1>3. \A j \in Holders(p, k)' : j = i
  <2>1. SUFFICES ASSUME NEW j \in Mapped', mems'[j].hptr = p, k \in Slice(mems'[j]), j # i
                 PROVE  FALSE
    BY <1>1
  <2>2. mems'[i].hptr = p /\ k \in Slice(mems'[i])
    BY <1>1, <1>2
  <2>3. \A x, y \in Mapped' : x # y /\ mems'[x].hptr = mems'[y].hptr =>
          Slice(mems'[x]) \cap Slice(mems'[y]) = {}
    BY DEF SlicesApart, Slice, Start, End
  <2>4. QED
    BY <2>1, <2>2, <2>3
<1>4. CopiesAfter(p, k)' = {CopyAfter(j, k)' : j \in Holders(p, k)'}
  BY DEF CopiesAfter, CopyAfter, Holders
<1>5. QED
  BY <1>2, <1>3, <1>4

\* A byte that has its value on the device has one entry, whose buffer is there
\* after the launches.
LEMMA HolderOf ==
  ASSUME MInv, LaunchesFit(dev, queue), NEW m, NEW p \in Ptrs, NEW k \in Bytes,
         ByteHolds(m, p, k), "dev" \in valid[p][k]
  PROVE  \E i \in Holders(p, k) :
           /\ CopyAfter(i, k) = m[p][k]
           /\ mems[i].bptr \in DOMAIN dev
           /\ k - Start(mems[i]) \in DOMAIN DeviceAfterQueue[mems[i].bptr]
<1>1. CopiesAfter(p, k) = {m[p][k]}
  BY DEF ByteHolds
<1>2. PICK i \in Holders(p, k) : CopyAfter(i, k) = m[p][k]
  BY <1>1 DEF CopiesAfter
<1>3. mems[i].bptr \in DOMAIN dev /\ k - Start(mems[i]) \in DOMAIN dev[mems[i].bptr]
  BY PlaceOfCopy DEF MInv
<1>4. SameShape(dev, DeviceAfterQueue)
  BY ShapeAfterQueue DEF MInv
<1>5. QED
  BY <1>2, <1>3, <1>4 DEF SameShape

\* Entries may come and buffers be allocated: what the client knows of stays.
LEMMA Untouched ==
  ASSUME OInv, SlicesApart', UNCHANGED <<host, valid>>,
         \A i \in Mapped : i \in Mapped' /\ mems'[i] = mems[i],
         \A b \in DOMAIN dev : DeviceAfterQueue'[b] = DeviceAfterQueue[b]
  PROVE  Memory' = Memory /\ Holds(Memory)'
<1>1. PICK m : m = Memory
  OBVIOUS
<1>2. IsMemory(m) /\ Holds(m)
  BY <1>1, MemoryIsMemory DEF OInv
<1>3. ASSUME NEW p \in Ptrs, NEW k \in Bytes
      PROVE  ByteHolds(m, p, k)'
  <2>1. ByteHolds(m, p, k)
    BY <1>2 DEF Holds
  <2>2. ASSUME "dev" \in valid[p][k] PROVE CopiesAfter(p, k)' = {m[p][k]}
    <3>1. PICK i \in Holders(p, k) : CopyAfter(i, k) = m[p][k] /\ mems[i].bptr \in DOMAIN dev
      BY <2>1, <2>2, HolderOf DEF OInv
    <3>2. i \in Mapped' /\ mems'[i] = mems[i]
      BY DEF Holders
    <3>3. CopyAfter(i, k)' = m[p][k]
      BY <3>1, <3>2 DEF CopyAfter, Start
    <3>4. QED
      BY <3>2, <3>3, StillHeld
  <2>3. QED
    BY <2>1, <2>2 DEF ByteHolds
<1>4. Holds(m)'
  BY <1>2, <1>3 DEF Holds
<1>5. QED
  BY <1>1, <1>2, <1>4, Becomes

\* Memory is allocated, at most, however many launches are pending.
LEMMA Allocates ==
  ASSUME OInv, MInv', UNCHANGED <<host, valid, queue>>,
         \A i \in Mapped : i \in Mapped' /\ mems'[i] = mems[i],
         DOMAIN dev \subseteq DOMAIN dev', \A b \in DOMAIN dev : dev'[b] = dev[b]
  PROVE  Memory' = Memory /\ Holds(Memory)' /\ LaunchesFit(dev', queue)
<1>1. DevOK(dev) /\ DevOK(dev') /\ LaunchesFit(dev, queue)
  BY DevTyped, DevTypedNext DEF OInv, MInv
<1>2. Extends(dev, dev')
  BY <1>1 DEF Extends
<1>3. Extends(AfterAll(dev, queue), AfterAll(dev', queue)) /\ LaunchesFit(dev', queue)
  BY <1>1, <1>2, AfterExtends, ExtendsFits
<1>4. DeviceAfterQueue' = AfterAll(dev', queue)
  BY DEF DeviceAfterQueue
<1>5. DOMAIN DeviceAfterQueue = DOMAIN dev
  BY <1>1, ShapeAfterQueue DEF SameShape, OInv, MInv
<1>6. \A b \in DOMAIN dev : DeviceAfterQueue'[b] = DeviceAfterQueue[b]
  BY <1>3, <1>4, <1>5 DEF Extends, DeviceAfterQueue
<1>7. SlicesApart'
  BY DEF MInv
<1>8. QED
  BY <1>3, <1>6, <1>7, Untouched

(***************************************************************************)
(* nomp_update()                                                           *)
(***************************************************************************)
\* The client of this program makes no call that a careful one would not.
IsCareful == /\ "units" \notin Misuse /\ "overlap" \notin Misuse
             /\ "resize" \notin Misuse /\ "subfree" \notin Misuse

\* What the client notes about bytes B of array p.
LEMMA Notes ==
  ASSUME Holds(Memory), NEW p \in Ptrs, NEW B, NEW places \in Places, ValidNow(p, B, places)
  PROVE  /\ valid' \in [Ptrs -> [Bytes -> Places]]
         /\ \A q \in Ptrs, k \in Bytes :
              valid'[q][k] = IF q = p /\ k \in B THEN places ELSE valid[q][k]
<1>1. valid \in [Ptrs -> [Bytes -> Places]]
  BY DEF Holds
<1>2. PICK f : f = [k \in Bytes |-> IF k \in B THEN places ELSE valid[p][k]]
  OBVIOUS
<1>3. valid' = [valid EXCEPT ![p] = f]
  BY <1>1, <1>2 DEF ValidNow
<1>4. f \in [Bytes -> Places]
  BY <1>1, <1>2
<1>5. QED
  BY <1>1, <1>2, <1>3, <1>4

\* A call that waits for the launches: what it does to each byte, and what the
\* client notes, fit together.
LEMMA Waited ==
  ASSUME OInv, SlicesApart', queue = <<>>, queue' = queue,
         NEW p \in Ptrs, NEW B, NEW places \in Places, ValidNow(p, B, places),
         NEW m, m = Memory,
         \A q \in Ptrs, k \in Bytes :
           IF q = p /\ k \in B
           THEN /\ "host" \in places => host'[q][k] = m[q][k]
                /\ "dev" \in places => CopiesOf(q, k)' = {m[q][k]}
           ELSE host'[q][k] = host[q][k] /\ CopiesOf(q, k)' = CopiesOf(q, k)
  PROVE  Memory' = Memory /\ Holds(Memory)'
<1>1. IsMemory(m) /\ Holds(m)
  BY MemoryIsMemory DEF OInv
<1>2. valid' \in [Ptrs -> [Bytes -> Places]]
  BY Notes DEF OInv
<1>3. ASSUME NEW q \in Ptrs, NEW k \in Bytes
      PROVE  ByteHolds(m, q, k)'
  <2>1. valid'[q][k] = IF q = p /\ k \in B THEN places ELSE valid[q][k]
    BY Notes DEF OInv
  <2>2. CopiesAfter(q, k) = CopiesOf(q, k) /\ CopiesAfter(q, k)' = CopiesOf(q, k)'
    BY IdleCopies, IdleCopiesNext DEF Idle
  <2>3. ByteHolds(m, q, k)
    BY <1>1 DEF Holds
  <2>4. CASE q = p /\ k \in B
    BY <2>1, <2>2, <2>4 DEF ByteHolds
  <2>5. CASE ~(q = p /\ k \in B)
    BY <2>1, <2>2, <2>3, <2>5 DEF ByteHolds
  <2>6. QED
    BY <2>4, <2>5
<1>4. Holds(m)'
  BY <1>2, <1>3 DEF Holds
<1>5. QED
  BY <1>1, <1>4, Becomes

\* What the client can tell of the bytes of a slice before a call.
LEMMA SlicePlaces ==
  ASSUME OInv, queue = <<>>, NEW p \in Ptrs, NEW k \in Bytes
  PROVE  /\ "host" \in valid[p][k] => host[p][k] = Memory[p][k]
         /\ "dev" \in valid[p][k] => CopiesOf(p, k) = {Memory[p][k]}
<1>1. ByteHolds(Memory, p, k)
  BY DEF OInv, Holds
<1>2. CopiesAfter(p, k) = CopiesOf(p, k)
  BY IdleCopies DEF Idle
<1>3. QED
  BY <1>1, <1>2 DEF ByteHolds

LEMMA SendCall ==
  ASSUME OInv, IsCareful, NEW c \in Calls, Map(c) \/ CopyTo(c), c.op = "TO",
         Sensible(c), queue = <<>>, queue' = queue, ValidNow(c.hptr, Slice(c), Both)
  PROVE  Memory' = Memory /\ Holds(Memory)'
<1>1. SlicesApart' /\ Turned(c.hptr, Slice(c), host[c.hptr])
  BY MapMirror, CopyToMirror DEF OInv, IsCareful
<1>2. UNCHANGED host
  BY DEF Map, Maps, CopyTo
<1>3. \A k \in Slice(c) : host[c.hptr][k] = Memory[c.hptr][k]
  BY SlicePlaces, BytesOfCall DEF Sensible, ValidAt
<1>4. PICK m : m = Memory
  OBVIOUS
<1>5. \A q \in Ptrs, k \in Bytes :
        IF q = c.hptr /\ k \in Slice(c)
        THEN host'[q][k] = m[q][k] /\ CopiesOf(q, k)' = {m[q][k]}
        ELSE host'[q][k] = host[q][k] /\ CopiesOf(q, k)' = CopiesOf(q, k)
  BY <1>1, <1>2, <1>3, <1>4 DEF Turned
<1>6. Both \in Places /\ c.hptr \in Ptrs
  BY BytesOfCall DEF Places
<1>7. QED
  BY <1>1, <1>4, <1>5, <1>6, Waited

LEMMA FetchCall ==
  ASSUME OInv, IsCareful, NEW c \in Calls, CopyFrom(c),
         Sensible(c), queue = <<>>, queue' = queue, ValidNow(c.hptr, Slice(c), Both)
  PROVE  Memory' = Memory /\ Holds(Memory)'
<1>1. Mirror!Fetch(c.hptr, Slice(c))
  BY CopyFromMirror DEF OInv, IsCareful
<1>2. SlicesApart' /\ \A q, k : CopiesOf(q, k)' = CopiesOf(q, k)
  BY KeptMirror DEF OInv, CopyFrom
<1>3. \A k \in Slice(c) : CopiesOf(c.hptr, k) = {Memory[c.hptr][k]}
  BY SlicePlaces, BytesOfCall DEF Sensible, ValidAt, CopyFrom, Updates
<1>4. PICK m : m = Memory
  OBVIOUS
<1>5. \A k \in Slice(c) : host'[c.hptr][k] = m[c.hptr][k]
  <2>1. SUFFICES ASSUME NEW k \in Slice(c) PROVE host'[c.hptr][k] = m[c.hptr][k]
    OBVIOUS
  <2>2. k \in Bytes /\ c.hptr \in Ptrs
    BY BytesOfCall
  <2>3. host'[c.hptr][k] = CHOOSE v \in Copies[c.hptr][k] : TRUE
    BY <1>1, <2>2 DEF Mirror!Fetch, Mirror!Bytes, Bytes, OInv, MInv, IInv, TypeOK
  <2>4. Copies[c.hptr][k] = {m[c.hptr][k]}
    BY <1>3, <1>4, <2>2 DEF Copies, Bytes
  <2>5. QED
    BY <2>3, <2>4
<1>6. \A q \in Ptrs, k \in Bytes :
        IF q = c.hptr /\ k \in Slice(c)
        THEN host'[q][k] = m[q][k] /\ CopiesOf(q, k)' = {m[q][k]}
        ELSE host'[q][k] = host[q][k] /\ CopiesOf(q, k)' = CopiesOf(q, k)
  BY <1>2, <1>3, <1>4, <1>5, CopyFromMirror DEF OInv, IsCareful
<1>7. Both \in Places /\ c.hptr \in Ptrs
  BY BytesOfCall DEF Places
<1>8. QED
  BY <1>2, <1>4, <1>6, <1>7, Waited

LEMMA FreeCall ==
  ASSUME OInv, IsCareful, NEW c \in Calls, Free(c),
         Sensible(c), queue = <<>>, queue' = queue, ValidNow(c.hptr, Slice(c), {"host"})
  PROVE  Memory' = Memory /\ Holds(Memory)'
<1>1. PICK i \in Mapped :
        /\ Found(c, i)
        /\ \A q, k : CopiesOf(q, k)' # CopiesOf(q, k) =>
             q = mems[i].hptr /\ k \in Slice(mems[i])
  BY FreeMirror DEF OInv
<1>2. SlicesApart'
  BY FreeMirror DEF OInv
<1>3. UNCHANGED host /\ c.op = "FREE" /\ Careful(c)
  BY DEF Free, Updates
<1>4. mems[i].hptr = c.hptr /\ Slice(mems[i]) = Slice(c)
  BY <1>1, <1>3 DEF Found, Contains, Careful, IsCareful
<1>5. \A k \in Slice(c) : host[c.hptr][k] = Memory[c.hptr][k]
  BY <1>3, SlicePlaces, BytesOfCall DEF Sensible, ValidAt
<1>6. PICK m : m = Memory
  OBVIOUS
<1>7. \A q \in Ptrs, k \in Bytes :
        IF q = c.hptr /\ k \in Slice(c) THEN host'[q][k] = m[q][k]
        ELSE host'[q][k] = host[q][k] /\ CopiesOf(q, k)' = CopiesOf(q, k)
  BY <1>1, <1>3, <1>4, <1>5, <1>6
<1>8. {"host"} \in Places /\ c.hptr \in Ptrs
  BY BytesOfCall DEF Places
<1>9. QED
  BY <1>2, <1>6, <1>7, <1>8, Waited

LEMMA GrowingCall ==
  ASSUME OInv, MInv', NEW c \in Calls,
         \/ Map(c) /\ c.op = "ALLOC"
         \/ MapWithoutMemory(c) \/ MapWithoutCopy(c) \/ Refuse(c),
         UNCHANGED <<queue, valid>>
  PROVE  Memory' = Memory /\ Holds(Memory)' /\ LaunchesFit(dev', queue)
<1>1. UNCHANGED host
  BY DEF Map, Maps, MapWithoutMemory, MapWithoutCopy, Refuse, vars
<1>2. DOMAIN dev \subseteq DOMAIN dev' /\ \A b \in DOMAIN dev : dev'[b] = dev[b]
  BY DEF Map, MapWithoutMemory, MapWithoutCopy, Refuse, vars, Allocated, Fresh
<1>3. \A i \in Mapped : i \in Mapped' /\ mems'[i] = mems[i]
  <2>1. CASE mems' = mems
    BY <2>1 DEF Mapped
  <2>2. CASE mems' # mems
    <3>1. Map(c)
      BY <2>2 DEF MapWithoutMemory, MapWithoutCopy, Refuse, vars
    <3>2. PICK e : mems' = Append(mems, e)
      BY <3>1 DEF Map
    <3>3. mems \in Seq(Entry \cup {NULL})
      BY DEF OInv, MInv, IInv, TypeOK
    <3>4. Len(mems') = Len(mems) + 1 /\ Len(mems) \in Nat
          /\ \A i \in 1 .. Len(mems) : mems'[i] = mems[i]
      BY <3>2, <3>3
    <3>5. QED
      BY <3>4 DEF Mapped
  <2>3. QED
    BY <2>1, <2>2
<1>4. QED
  BY <1>1, <1>2, <1>3, Allocates

\* Every call of nomp_update() leaves the program's memory as it is.
LEMMA CallKeeps ==
  ASSUME OInv, IsCareful, NEW c \in Calls, Call(c)
  PROVE  OInv' /\ Memory' = Memory
<1>1. Update(c) /\ UNCHANGED <<todo, result, queue>> /\ up' = up
  BY DEF Call, Succeeds, Errs, Update, Map, Maps, MapWithoutMemory, MapWithoutCopy, CopyTo,
         CopyFrom, Free, Refuse, vars
<1>2. MInv'
  BY <1>1, NextMirror DEF OInv, IsCareful, Next
<1>3. Sensible(c) /\ (c.op # "ALLOC" => queue = <<>>)
  BY DEF Call, Waits
<1>4. CASE c.op # "ALLOC" /\ Succeeds(c)
  <2>1. queue = <<>> /\ queue' = queue
    BY <1>1, <1>3, <1>4
  <2>2. Memory' = Memory /\ Holds(Memory)'
    BY <1>3, <1>4, <2>1, SendCall, FetchCall, FreeCall DEF Succeeds
  <2>3. LaunchesFit(dev', queue)
    BY <2>1 DEF LaunchesFit
  <2>4. QED
    BY <1>1, <1>2, <2>2, <2>3 DEF OInv
<1>5. CASE c.op = "ALLOC" \/ Errs(c)
  <2>1. \/ Map(c) /\ c.op = "ALLOC"
        \/ MapWithoutMemory(c) \/ MapWithoutCopy(c) \/ Refuse(c)
    BY <1>5 DEF Call, Succeeds, Errs, CopyTo, CopyFrom, Free, Updates
  <2>2. UNCHANGED valid
    BY <1>5 DEF Call, Succeeds, Errs, CopyTo, CopyFrom, Free, Updates
  <2>3. Memory' = Memory /\ Holds(Memory)' /\ LaunchesFit(dev', queue)
    BY <1>1, <1>2, <2>1, <2>2, GrowingCall
  <2>4. QED
    BY <1>1, <1>2, <2>3 DEF OInv
<1>6. QED
  BY <1>4, <1>5 DEF Call

(***************************************************************************)
(* nomp_run()                                                              *)
(***************************************************************************)
LEMMA FirstIsOne ==
  ASSUME NEW p, NEW i, NEW j, FirstOf(p, i), FirstOf(p, j)
  PROVE  i = j
<1>1. i \in Int /\ j \in Int
  BY DEF FirstOf, Mapped
<1>2. QED
  BY <1>1 DEF FirstOf

\* The buffer a kernel is given has the elements it is going to use, and will
\* have their values when its turn comes.
LEMMA Array ==
  ASSUME OInv, NEW p \in Ptrs, NEW n \in Nat, Offloads(p, n), NEW i, FirstOf(p, i)
  PROVE  /\ i \in Mapped /\ mems[i].hptr = p /\ Start(mems[i]) = 0
         /\ mems[i].bptr \in DOMAIN dev /\ mems[i].bptr \in Bufs
         /\ 0 .. n - 1 \subseteq DOMAIN dev[mems[i].bptr]
         /\ 0 .. n - 1 \subseteq Bytes
         /\ \A k \in 0 .. n - 1 : DeviceAfterQueue[mems[i].bptr][k] = Memory[p][k]
<1> USE DEF OInv, MInv, IInv
<1>1. i \in Mapped /\ mems[i].hptr = p /\ mems[i].idx0 = 0 /\ End(mems[i]) >= n
  BY FirstIsOne DEF Offloads, FirstOf
<1>2. mems[i].bptr \in DOMAIN dev /\ mems[i].bptr \in Bufs
  BY <1>1, OwnersOf, MappedEntry
<1>3. Start(mems[i]) = 0
  <2>1. mems[i].usize \in Nat
    BY <1>1, MappedEntry, NompMemAssumption
  <2>2. QED
    BY <1>1, <2>1 DEF Start
<1>4. End(mems[i]) \in Nat /\ NBytes(mems[i]) = End(mems[i]) /\ End(mems[i]) <= Extent
  BY <1>1, <1>3, SliceOfEntry DEF SlicesApart
<1>5. 0 .. n - 1 \subseteq DOMAIN dev[mems[i].bptr] /\ 0 .. n - 1 \subseteq Bytes
  <2>1. DOMAIN dev[mems[i].bptr] = 0 .. NBytes(mems[i]) - 1
    BY <1>1 DEF BuffersFit, BufferFits
  <2>2. 0 .. n - 1 \subseteq 0 .. End(mems[i]) - 1 /\ 0 .. n - 1 \subseteq 0 .. Extent - 1
    BY <1>1, <1>4, NompMemAssumption
  <2>3. QED
    BY <1>4, <2>1, <2>2 DEF Bytes
<1>6. ASSUME NEW k \in 0 .. n - 1
      PROVE  DeviceAfterQueue[mems[i].bptr][k] = Memory[p][k]
  <2>1. k \in Bytes /\ "dev" \in valid[p][k]
    BY <1>5 DEF Offloads, ValidAt
  <2>2. CopiesAfter(p, k) = {Memory[p][k]}
    BY <2>1 DEF Holds, ByteHolds
  <2>3. i \in Holders(p, k)
    BY <1>1, <1>3, <1>4 DEF Holders, Slice
  <2>4. CopyAfter(i, k) = Memory[p][k]
    BY <2>2, <2>3 DEF CopiesAfter
  <2>5. k - Start(mems[i]) = k
    BY <1>3
  <2>6. QED
    BY <2>4, <2>5 DEF CopyAfter
<1>7. QED
  BY <1>1, <1>2, <1>3, <1>5, <1>6

LEMMA Listed ==
  ASSUME todo \in Seq(Statements), todo # <<>>
  PROVE  Now \in Statements /\ Tail(todo) \in Seq(Statements)
BY DEF Now

LEMMA AddStatement ==
  ASSUME NEW s \in Statements, s.op = "add"
  PROVE  s.p \in Ptrs /\ s.q \in Ptrs /\ s.n \in Nat /\ s.at = 0
BY DEF Statements

LEMMA SumStatement ==
  ASSUME NEW s \in Statements, s.op = "sum"
  PROVE  s.q \in Ptrs /\ s.n \in Nat
BY DEF Statements

LEMMA StoreStatement ==
  ASSUME NEW s \in Statements, s.op = "store"
  PROVE  s.p \in Ptrs /\ s.at \in Nat /\ s.n \in Nat /\ s.v \in Values
BY DEF Statements

\* Both say what an addition is.
LEMMA SameAdded ==
  ASSUME NEW f, NEW g, NEW n
  PROVE  Program!Added(f, g, n) = Offloaded!Added(f, g, n)
BY DEF Program!Added, Offloaded!Added, Program!Plus, Offloaded!Plus

LEMMA AddKeeps ==
  ASSUME OInv, IsCareful, RunAdd
  PROVE  OInv' /\ Offloaded!Next
<1>1. PICK s \in Statements : s = Now /\ s.op = "add"
  BY Listed DEF OInv, RunAdd
<1>2. s.p \in Ptrs /\ s.q \in Ptrs /\ s.n \in Nat /\ s.at = 0
  BY <1>1, AddStatement
<1>3. PICK i, j \in Mapped :
        /\ FirstOf(s.p, i) /\ FirstOf(s.q, j)
        /\ queue' = Append(queue, [dst |-> mems[i].bptr, src |-> mems[j].bptr, n |-> s.n])
  BY <1>1 DEF RunAdd, LooksUp
<1>4. Offloads(s.p, s.n) /\ Offloads(s.q, s.n) /\ todo # <<>> /\ up
  BY <1>1 DEF RunAdd
<1>5. UNCHANGED <<vars, result>> /\ todo' = Tail(todo)
  BY DEF RunAdd
<1>6. ValidNow(s.p, 0 .. s.n - 1, {"dev"})
  <2>1. Program!BytesOf(s) = 0 .. s.n - 1
    BY <1>2 DEF Program!BytesOf
  <2>2. QED
    BY <1>1, <2>1 DEF RunAdd
<1>7. PICK l \in Launch : l = [dst |-> mems[i].bptr, src |-> mems[j].bptr, n |-> s.n]
  BY <1>2, <1>3, <1>4, Array DEF Launch
<1>8. MInv' /\ SlicesApart'
  BY <1>5, NextMirror DEF OInv, IsCareful, MInv
<1>9. LaunchFits(dev, l)
  BY <1>2, <1>3, <1>4, <1>7, Array DEF LaunchFits
<1>10. LaunchesFit(dev', queue')
  <2>1. dev' = dev /\ queue' = Append(queue, l) /\ LaunchesFit(dev, queue)
    BY <1>3, <1>5, <1>7 DEF OInv, vars
  <2>2. PICK r : r = Append(queue, l)
    OBVIOUS
  <2>3. /\ r \in Seq(Launch) /\ Len(queue) \in Nat /\ Len(r) = Len(queue) + 1
        /\ \A n \in 1 .. Len(queue) : r[n] = queue[n]
        /\ r[Len(queue) + 1] = l
    BY <2>1, <2>2 DEF LaunchesFit
  <2>4. \A n \in 1 .. Len(r) : LaunchFits(dev, r[n])
    BY <1>9, <2>1, <2>3 DEF LaunchesFit
  <2>5. QED
    BY <2>1, <2>2, <2>3, <2>4 DEF LaunchesFit
\* What the device will have in the end.
<1>11. PICK d : d = DeviceAfterQueue
  OBVIOUS
<1>12. SameShape(dev, d) /\ DevOK(d)
  BY <1>11, ShapeAfterQueue DEF OInv, MInv, SameShape
<1>13. DeviceAfterQueue' = [d EXCEPT ![l.dst] = Program!Added(d[l.dst], d[l.src], s.n)]
  <2>1. LaunchFits(d, l)
    BY <1>9, <1>12, SameShapeFits
  <2>2. AfterAll(dev, Append(queue, l)) = Executed(d, l)
    BY <1>11, AfterAppend DEF DeviceAfterQueue, OInv, LaunchesFit
  <2>3. DeviceAfterQueue' = Executed(d, l)
    BY <1>3, <1>5, <1>7, <2>2 DEF DeviceAfterQueue, vars
  <2>4. l.n = s.n
    BY <1>7
  <2>5. QED
    BY <1>12, <2>1, <2>3, <2>4, ExecutedFits
<1>14. /\ l.dst = mems[i].bptr /\ l.src = mems[j].bptr
       /\ l.dst \in DOMAIN d /\ 0 .. s.n - 1 \subseteq DOMAIN d[l.dst]
       /\ mems[i].hptr = s.p /\ Start(mems[i]) = 0
       /\ \A k \in 0 .. s.n - 1 : d[l.dst][k] = Memory[s.p][k] /\ d[l.src][k] = Memory[s.q][k]
  BY <1>2, <1>3, <1>4, <1>7, <1>11, <1>12, Array DEF SameShape
\* What the program has.
<1>15. PICK m : m = Memory
  OBVIOUS
<1>16. IsMemory(m) /\ Holds(m)
  BY <1>15, MemoryIsMemory DEF OInv
<1>17. PICK w : w = [m EXCEPT ![s.p] = Program!Added(m[s.p], m[s.q], s.n)]
  OBVIOUS
<1>18. /\ IsMemory(w)
       /\ \A r \in Ptrs, k \in Bytes :
            w[r][k] = IF r = s.p /\ k \in 0 .. s.n - 1
                      THEN Program!Plus(m[s.p][k], m[s.q][k]) ELSE m[r][k]
  <2>1. DOMAIN m[s.p] = Bytes /\ DOMAIN m = Ptrs
    BY <1>2, <1>16 DEF IsMemory
  <2>2. PICK f : f = Program!Added(m[s.p], m[s.q], s.n)
    OBVIOUS
  <2>3. f = [k \in Bytes |-> f[k]]
    BY <2>1, <2>2 DEF Program!Added
  <2>4. \A k \in Bytes : f[k] = IF k \in 0 .. s.n - 1
                                THEN Program!Plus(m[s.p][k], m[s.q][k]) ELSE m[s.p][k]
    BY <1>2, <2>1, <2>2 DEF Program!Added, Bytes
  <2>5. w = [m EXCEPT ![s.p] = f]
    BY <1>17, <2>2
  <2>6. \A r \in Ptrs : w[r] = IF r = s.p THEN f ELSE m[r]
    BY <2>1, <2>5
  <2>7. DOMAIN w = Ptrs /\ w = [r \in Ptrs |-> w[r]]
    BY <2>1, <2>5
  <2>8. \A r \in Ptrs : m[r] = [k \in Bytes |-> m[r][k]]
    BY <1>16 DEF IsMemory
  <2>9. \A r \in Ptrs : w[r] = [k \in Bytes |-> w[r][k]]
    BY <2>3, <2>6, <2>8
  <2>10. IsMemory(w)
    BY <2>7, <2>9 DEF IsMemory
  <2>11. QED
    BY <2>4, <2>6, <2>10
\* Byte by byte.
<1>19. ASSUME NEW r \in Ptrs, NEW k \in Bytes
       PROVE  ByteHolds(w, r, k)'
  <2>1. valid'[r][k] = IF r = s.p /\ k \in 0 .. s.n - 1 THEN {"dev"} ELSE valid[r][k]
    BY <1>2, <1>6, Notes DEF OInv, Places
  <2>2. ByteHolds(m, r, k) /\ UNCHANGED <<mems, host>>
    BY <1>5, <1>16 DEF Holds, vars
  <2>3. CASE r = s.p /\ k \in 0 .. s.n - 1
    <3>1. i \in Holders(r, k)
      <4>1. End(mems[i]) >= s.n
        BY <1>3, <1>4, FirstIsOne DEF Offloads
      <4>2. End(mems[i]) \in Nat
        BY <1>3, SliceOfEntry DEF OInv, MInv, IInv
      <4>3. mems[i].hptr = r /\ k \in Slice(mems[i])
        BY <1>2, <1>14, <2>3, <4>1, <4>2 DEF Slice
      <4>4. QED
        BY <1>3, <4>3 DEF Holders
    <3>2. DeviceAfterQueue'[l.dst][k] = Program!Plus(d[l.dst][k], d[l.src][k])
      <4>1. k \in DOMAIN d[l.dst] /\ k < s.n
        BY <1>2, <1>14, <2>3
      <4>2. DeviceAfterQueue'[l.dst] = Program!Added(d[l.dst], d[l.src], s.n)
        BY <1>13, <1>14
      <4>3. QED
        BY <4>1, <4>2 DEF Program!Added
    <3>3. k - Start(mems[i]) = k
      BY <1>14, <2>3
    <3>4. CopyAfter(i, k)' = Program!Plus(m[s.p][k], m[s.q][k])
      BY <1>14, <1>15, <2>2, <2>3, <3>2, <3>3 DEF CopyAfter, Start
    <3>5. CopiesAfter(r, k)' = {w[r][k]}
      <4>1. i \in Mapped' /\ mems'[i] = mems[i]
        BY <1>3, <2>2 DEF Mapped
      <4>2. w[r][k] = Program!Plus(m[s.p][k], m[s.q][k])
        BY <1>18, <2>3
      <4>3. QED
        BY <1>8, <3>1, <3>4, <4>1, <4>2, StillHeld
    <3>6. QED
      BY <2>1, <2>3, <3>5 DEF ByteHolds
  <2>4. CASE ~(r = s.p /\ k \in 0 .. s.n - 1)
    <3>1. w[r][k] = m[r][k] /\ valid'[r][k] = valid[r][k]
      BY <1>18, <2>1, <2>4
    <3>2. ASSUME "dev" \in valid[r][k] PROVE CopiesAfter(r, k)' = {m[r][k]}
      <4>1. PICK h \in Holders(r, k) :
              /\ CopyAfter(h, k) = m[r][k]
              /\ mems[h].bptr \in DOMAIN dev
              /\ k - Start(mems[h]) \in DOMAIN DeviceAfterQueue[mems[h].bptr]
        BY <2>2, <3>2, HolderOf DEF OInv
      <4>2. h \in Mapped /\ mems[h].hptr = r
        BY DEF Holders
      <4>3. d[mems[h].bptr][k - Start(mems[h])] = m[r][k]
        BY <1>11, <4>1 DEF CopyAfter
      <4>4. DeviceAfterQueue'[mems[h].bptr][k - Start(mems[h])] = m[r][k]
        <5>1. CASE mems[h].bptr # l.dst
          BY <1>13, <4>3, <5>1
        <5>2. CASE mems[h].bptr = l.dst
          <6>1. h = i
            BY <1>3, <1>14, <4>2, <5>2, OwnersOf DEF OInv, MInv, IInv
          <6>2. r = s.p /\ k - Start(mems[h]) = k /\ ~(k < s.n)
            BY <1>2, <1>14, <2>4, <4>2, <6>1 DEF Bytes
          <6>3. DeviceAfterQueue'[l.dst] = Program!Added(d[l.dst], d[l.src], s.n)
            BY <1>13, <1>14
          <6>4. k \in DOMAIN d[l.dst]
            BY <1>11, <4>1, <5>2, <6>2
          <6>5. DeviceAfterQueue'[l.dst][k] = d[l.dst][k]
            BY <6>2, <6>3, <6>4 DEF Program!Added
          <6>6. QED
            BY <4>3, <5>2, <6>2, <6>5
        <5>3. QED
          BY <5>1, <5>2
      <4>5. CopyAfter(h, k)' = m[r][k]
        BY <2>2, <4>4 DEF CopyAfter, Start
      <4>6. h \in Mapped' /\ mems'[h] = mems[h]
        BY <2>2, <4>2 DEF Mapped
      <4>7. QED
        BY <1>8, <4>5, <4>6, StillHeld
    <3>3. QED
      BY <2>2, <3>1, <3>2 DEF ByteHolds
  <2>5. QED
    BY <2>3, <2>4
<1>20. Holds(w)'
  <2>1. valid' \in [Ptrs -> [Bytes -> Places]]
    BY <1>2, <1>6, Notes DEF OInv, Places
  <2>2. QED
    BY <1>19, <2>1 DEF Holds
<1>21. Memory' = w /\ Holds(Memory)'
  BY <1>8, <1>18, <1>20, Becomes
<1>22. OInv'
  <2>1. up' = up /\ todo' \in Seq(Statements)
    BY <1>4, <1>5, Listed DEF OInv, vars
  <2>2. QED
    BY <1>4, <1>8, <1>10, <1>21, <2>1 DEF OInv
<1>23. Offloaded!Next
  <2>1. Memory' = [Memory EXCEPT ![s.p] = Offloaded!Added(@, Memory[s.q], s.n)]
    BY <1>15, <1>17, <1>21, SameAdded
  <2>2. QED
    BY <1>1, <1>4, <1>5, <2>1 DEF Offloaded!Next, Offloaded!Add, Now
<1>24. QED
  BY <1>22, <1>23

\* Buffers that keep their sizes keep the registry as it is.
LEMMA Reshapes ==
  ASSUME MInv, UNCHANGED <<up, mems, mems_max, scratch>>, SameShape(dev, dev'),
         host' \in [Ptrs -> [Bytes -> Byte]]
  PROVE  MInv'
<1>1. IInv'
  BY ContentsStep DEF MInv, SameShape, Bytes
<1>2. BuffersFit'
  <2>1. \A i \in Mapped : mems[i].bptr \in DOMAIN dev
    BY OwnersOf DEF MInv, IInv
  <2>2. \A i \in Mapped' : i \in Mapped /\ mems'[i] = mems[i]
                           /\ DOMAIN dev'[mems[i].bptr] = DOMAIN dev[mems[i].bptr]
    BY <2>1 DEF Mapped, SameShape
  <2>3. QED
    BY <2>2, KeptBuffers DEF MInv
<1>3. SlicesApart'
  BY DEF MInv, SlicesApart, Mapped, Slice, Start, End
<1>4. QED
  BY <1>1, <1>2, <1>3 DEF MInv

\* The device does what was pending: the memory of the program stays.
LEMMA DeviceKeeps ==
  ASSUME OInv, UNCHANGED <<up, mems, mems_max, scratch, host, valid>>,
         SameShape(dev, dev'), LaunchesFit(dev', queue'), queue = <<>> => queue' = <<>>,
         DeviceAfterQueue' = DeviceAfterQueue, todo' \in Seq(Statements)
  PROVE  OInv' /\ Memory' = Memory
<1>1. host' \in [Ptrs -> [Bytes -> Byte]]
  BY DEF OInv, MInv, IInv, TypeOK, Bytes
<1>2. MInv' /\ SlicesApart'
  BY <1>1, Reshapes DEF OInv, MInv
<1>3. \A i \in Mapped : i \in Mapped' /\ mems'[i] = mems[i]
  BY DEF Mapped
<1>4. Memory' = Memory /\ Holds(Memory)'
  BY <1>2, <1>3, Untouched
<1>5. QED
  BY <1>2, <1>4 DEF OInv

LEMMA DeviceFinishesKeeps ==
  ASSUME OInv, DeviceFinishes
  PROVE  OInv' /\ UNCHANGED Offloaded!vars
<1>1. /\ queue # <<>> /\ queue \in Seq(Launch) /\ Len(queue) \in Nat
      /\ \A n \in 1 .. Len(queue) : LaunchFits(dev, queue[n])
      /\ queue' = Tail(queue) /\ dev' = Executed(dev, Head(queue))
      /\ UNCHANGED <<up, mems, mems_max, scratch, host, todo, result, valid>>
  BY DEF DeviceFinishes, OInv, LaunchesFit
<1>2. Head(queue) = queue[1] /\ 1 \in 1 .. Len(queue)
  BY <1>1
<1>3. SameShape(dev, dev')
  BY <1>1, <1>2, DevTyped, ExecutedFits DEF OInv, MInv
<1>4. LaunchesFit(dev', queue')
  <2>1. PICK r : r = Tail(queue)
    OBVIOUS
  <2>2. /\ r \in Seq(Launch) /\ Len(r) \in Nat /\ Len(queue) = Len(r) + 1
        /\ \A n \in 1 .. Len(r) : r[n] = queue[n + 1]
    BY <1>1, <2>1
  <2>3. \A n \in 1 .. Len(r) : LaunchFits(dev, r[n])
    BY <1>1, <2>2
  <2>4. \A n \in 1 .. Len(r) : LaunchFits(dev', r[n])
    BY <1>3, <2>3, SameShapeFits
  <2>5. QED
    BY <1>1, <2>1, <2>2, <2>4 DEF LaunchesFit
<1>5. AfterAll(Executed(dev, Head(queue)), Tail(queue)) = AfterAll(dev, queue)
  BY <1>1, AfterFirst
<1>6. DeviceAfterQueue' = DeviceAfterQueue
  BY <1>1, <1>5 DEF DeviceAfterQueue
<1>7. QED
  BY <1>1, <1>3, <1>4, <1>6, DeviceKeeps DEF OInv, Offloaded!vars

\* Both say what a sum is.
LEMMA SameTotal ==
  ASSUME NEW f, NEW n
  PROVE  Program!Total(f, n) = Offloaded!Total(f, n)
BY DEF Program!Total, Offloaded!Total, Program!Plus, Offloaded!Plus

LEMMA SumKeeps ==
  ASSUME OInv, RunSum
  PROVE  OInv' /\ Offloaded!Next
<1>1. PICK s \in Statements : s = Now /\ s.op = "sum"
  BY Listed DEF OInv, RunSum
<1>2. s.q \in Ptrs /\ s.n \in Nat
  BY <1>1, SumStatement
<1>3. PICK j \in Mapped :
        /\ FirstOf(s.q, j)
        /\ result' = Program!SummedUp(DeviceAfterQueue[mems[j].bptr], s.n)
  BY <1>1 DEF RunSum, LooksUp, DeviceSynced
<1>4. /\ Offloads(s.q, s.n) /\ todo # <<>> /\ todo' = Tail(todo)
      /\ dev' = DeviceAfterQueue /\ queue' = <<>>
      /\ UNCHANGED <<up, mems, mems_max, scratch, host, valid>>
  BY <1>1 DEF RunSum
<1>5. SameShape(dev, dev')
  BY <1>4, ShapeAfterQueue DEF OInv, MInv
<1>6. DeviceAfterQueue' = DeviceAfterQueue
  BY <1>4, IdleCopiesNext DEF Idle
<1>7. LaunchesFit(dev', queue')
  BY <1>4 DEF LaunchesFit
<1>8. todo' \in Seq(Statements)
  BY <1>4, Listed DEF OInv
<1>9. OInv' /\ Memory' = Memory
  BY <1>4, <1>5, <1>6, <1>7, <1>8, DeviceKeeps
<1>10. result' = Offloaded!SummedUp(Memory[s.q], s.n)
  <2>1. PICK f : f = DeviceAfterQueue[mems[j].bptr]
    OBVIOUS
  <2>2. \A k \in 0 .. s.n - 1 : f[k] = Memory[s.q][k]
    BY <1>2, <1>3, <1>4, <2>1, Array
  <2>3. [k \in 0 .. s.n - 1 |-> f[k]] = [k \in 0 .. s.n - 1 |-> Memory[s.q][k]]
    BY <2>2
  <2>4. Program!SummedUp(f, s.n) = Program!Total([k \in 0 .. s.n - 1 |-> Memory[s.q][k]], s.n)
    BY <2>3 DEF Program!SummedUp
  <2>5. QED
    BY <1>3, <2>1, <2>4, SameTotal DEF Offloaded!SummedUp
<1>11. QED
  BY <1>1, <1>4, <1>9, <1>10 DEF Offloaded!Next, Offloaded!Sum, Now

(***************************************************************************)
(* The host.                                                               *)
(***************************************************************************)
LEMMA StoreKeeps ==
  ASSUME OInv, HostStores
  PROVE  OInv' /\ Offloaded!Next
<1>1. PICK s \in Statements : s = Now /\ s.op = "store"
  BY Listed DEF OInv, HostStores
<1>2. s.p \in Ptrs /\ s.at \in Nat /\ s.n \in Nat /\ s.v \in Values
  BY <1>1, StoreStatement
<1>3. PICK B : B = Program!BytesOf(s)
  OBVIOUS
<1>4. /\ todo # <<>> /\ todo' = Tail(todo)
      /\ UNCHANGED <<up, mems, mems_max, dev, scratch, result, queue>>
      /\ ValidNow(s.p, B, {"host"})
      /\ host' = [host EXCEPT ![s.p] = [k \in DOMAIN @ |-> IF k \in B THEN s.v ELSE @[k]]]
  BY <1>1, <1>3 DEF HostStores
<1>5. /\ host' \in [Ptrs -> [Bytes -> Byte]]
      /\ \A r \in Ptrs, k \in Bytes :
           host'[r][k] = IF r = s.p /\ k \in B THEN s.v ELSE host[r][k]
  <2>1. host \in [Ptrs -> [Bytes -> Byte]]
    BY DEF OInv, MInv, IInv, TypeOK, Bytes
  <2>2. PICK f : f = [k \in Bytes |-> IF k \in B THEN s.v ELSE host[s.p][k]]
    OBVIOUS
  <2>3. host' = [host EXCEPT ![s.p] = f]
    BY <1>2, <1>4, <2>1, <2>2
  <2>4. f \in [Bytes -> Byte]
    BY <1>2, <2>1, <2>2 DEF Byte
  <2>5. QED
    BY <1>2, <2>1, <2>2, <2>3, <2>4
<1>6. MInv' /\ SlicesApart'
  <2>1. SameShape(dev, dev')
    BY <1>4, DevTyped DEF SameShape, OInv, MInv
  <2>2. QED
    BY <1>4, <1>5, <2>1, Reshapes DEF OInv, MInv
<1>7. DeviceAfterQueue' = DeviceAfterQueue
  BY <1>4 DEF DeviceAfterQueue
<1>8. PICK m : m = Memory
  OBVIOUS
<1>9. IsMemory(m) /\ Holds(m)
  BY <1>8, MemoryIsMemory DEF OInv
<1>10. PICK w : w = [m EXCEPT ![s.p] = [k \in DOMAIN @ |-> IF k \in B THEN s.v ELSE @[k]]]
  OBVIOUS
<1>11. /\ IsMemory(w)
       /\ \A r \in Ptrs, k \in Bytes :
            w[r][k] = IF r = s.p /\ k \in B THEN s.v ELSE m[r][k]
  <2>1. DOMAIN m = Ptrs /\ DOMAIN m[s.p] = Bytes
    BY <1>2, <1>9 DEF IsMemory
  <2>2. PICK f : f = [k \in Bytes |-> IF k \in B THEN s.v ELSE m[s.p][k]]
    OBVIOUS
  <2>3. w = [m EXCEPT ![s.p] = f]
    BY <1>2, <1>10, <2>1, <2>2
  <2>4. \A r \in Ptrs : w[r] = IF r = s.p THEN f ELSE m[r]
    BY <2>1, <2>3
  <2>5. DOMAIN w = Ptrs /\ w = [r \in Ptrs |-> w[r]]
    BY <2>1, <2>3
  <2>6. \A r \in Ptrs : m[r] = [k \in Bytes |-> m[r][k]]
    BY <1>9 DEF IsMemory
  <2>7. \A r \in Ptrs : w[r] = [k \in Bytes |-> w[r][k]]
    BY <2>2, <2>4, <2>6
  <2>8. IsMemory(w)
    BY <2>5, <2>7 DEF IsMemory
  <2>9. QED
    BY <2>2, <2>4, <2>8
<1>12. ASSUME NEW r \in Ptrs, NEW k \in Bytes
       PROVE  ByteHolds(w, r, k)'
  <2>1. valid'[r][k] = IF r = s.p /\ k \in B THEN {"host"} ELSE valid[r][k]
    BY <1>2, <1>4, Notes DEF OInv, Places
  <2>2. ByteHolds(m, r, k)
    BY <1>9 DEF Holds
  <2>3. CASE r = s.p /\ k \in B
    BY <1>5, <1>11, <2>1, <2>3 DEF ByteHolds
  <2>4. CASE ~(r = s.p /\ k \in B)
    <3>1. host'[r][k] = host[r][k] /\ w[r][k] = m[r][k] /\ valid'[r][k] = valid[r][k]
      BY <1>5, <1>11, <2>1, <2>4
    <3>2. CopiesAfter(r, k)' = CopiesAfter(r, k)
      BY <1>4, <1>7 DEF CopiesAfter, CopyAfter, Holders, Mapped, Slice, Start, End
    <3>3. QED
      BY <2>2, <3>1, <3>2 DEF ByteHolds
  <2>5. QED
    BY <2>3, <2>4
<1>13. Holds(w)'
  <2>1. valid' \in [Ptrs -> [Bytes -> Places]]
    BY <1>2, <1>4, Notes DEF OInv, Places
  <2>2. QED
    BY <1>12, <2>1 DEF Holds
<1>14. Memory' = w /\ Holds(Memory)'
  BY <1>6, <1>11, <1>13, Becomes
<1>15. OInv'
  <2>1. todo' \in Seq(Statements)
    BY <1>4, Listed DEF OInv
  <2>2. LaunchesFit(dev', queue')
    BY <1>4 DEF OInv
  <2>3. QED
    BY <1>4, <1>6, <1>14, <2>1, <2>2 DEF OInv
<1>16. Offloaded!Next
  <2>1. Offloaded!BytesOf(s) = B
    BY <1>3 DEF Offloaded!BytesOf, Program!BytesOf
  <2>2. Memory' = [Memory EXCEPT ![s.p] =
          [k \in DOMAIN @ |-> IF k \in Offloaded!BytesOf(s) THEN s.v ELSE @[k]]]
    BY <1>8, <1>10, <1>14, <2>1
  <2>3. QED
    BY <1>1, <1>4, <2>2 DEF Offloaded!Next, Offloaded!Store, Now
<1>17. QED
  BY <1>15, <1>16

(***************************************************************************)
(* nomp_init() and nomp_finalize()                                         *)
(***************************************************************************)
LEMMA StartKeeps ==
  ASSUME OInv, IsCareful, Starts
  PROVE  OInv' /\ UNCHANGED Offloaded!vars
<1>1. Initialize /\ UNCHANGED <<todo, result, queue, valid>>
  BY DEF Starts
<1>2. MInv'
  BY <1>1, NextMirror DEF Next, OInv, IsCareful
<1>3. UNCHANGED <<host, mems>> /\ up' = TRUE
  BY <1>1 DEF Initialize
<1>4. DOMAIN dev \subseteq DOMAIN dev' /\ \A b \in DOMAIN dev : dev'[b] = dev[b]
  BY <1>1 DEF Initialize, Allocated, Fresh
<1>5. \A i \in Mapped : i \in Mapped' /\ mems'[i] = mems[i]
  BY <1>3 DEF Mapped
<1>6. Memory' = Memory /\ Holds(Memory)' /\ LaunchesFit(dev', queue)
  BY <1>1, <1>2, <1>3, <1>4, <1>5, Allocates
<1>7. QED
  BY <1>1, <1>2, <1>3, <1>6 DEF OInv, Offloaded!vars

LEMMA StopKeeps ==
  ASSUME OInv, IsCareful, Stops
  PROVE  OInv' /\ UNCHANGED Offloaded!vars
<1>1. /\ queue = <<>> /\ valid' = Unmapped /\ UNCHANGED <<todo, result, queue>>
      /\ Finalizes
  BY DEF Stops
<1>2. MInv' /\ SlicesApart'
  BY <1>1, NextMirror DEF Finalizes, Next, OInv, IsCareful, MInv
<1>3. UNCHANGED host
  BY <1>1 DEF Finalizes, Finalize, FinalizeStopsAt, FinalizeStopsAtScratch,
              FinalizeStopsAfterScratch, FreesAll
<1>4. PICK m : m = Memory
  OBVIOUS
<1>5. IsMemory(m) /\ Holds(m)
  BY <1>4, MemoryIsMemory DEF OInv
<1>6. valid' = [p \in Ptrs |-> [k \in Bytes |-> {"host"}]]
  BY <1>1 DEF Unmapped, Bytes
<1>7. ASSUME NEW p \in Ptrs, NEW k \in Bytes
      PROVE  ByteHolds(m, p, k)'
  <2>1. "host" \in valid[p][k]
    BY DEF Stops, ValidAt, Bytes
  <2>2. host[p][k] = m[p][k]
    BY <1>5, <2>1 DEF Holds, ByteHolds
  <2>3. valid'[p][k] = {"host"}
    BY <1>6
  <2>4. QED
    BY <1>3, <2>2, <2>3 DEF ByteHolds
<1>8. Holds(m)'
  <2>1. valid' \in [Ptrs -> [Bytes -> Places]]
    BY <1>6 DEF Places
  <2>2. QED
    BY <1>7, <2>1 DEF Holds
<1>9. Memory' = Memory /\ Holds(Memory)'
  BY <1>2, <1>4, <1>5, <1>8, Becomes
<1>10. LaunchesFit(dev', queue')
  BY <1>1 DEF LaunchesFit
<1>11. QED
  BY <1>1, <1>2, <1>9, <1>10 DEF OInv, Offloaded!vars

(***************************************************************************)
(* The specification.                                                      *)
(***************************************************************************)
LEMMA InitKeeps ==
  ASSUME OffloadInit
  PROVE  OInv /\ Offloaded!Init
<1>1. /\ up = FALSE /\ mems = <<>> /\ mems_max = 0 /\ dev = [b \in {} |-> <<>>]
      /\ scratch = NULL /\ host \in Memories /\ todo \in Programs /\ result = 0
      /\ queue = <<>> /\ valid = Unmapped
  BY DEF OffloadInit
<1>2. Mapped = {}
  BY <1>1 DEF Mapped
<1>3. host \in [Ptrs -> [Bytes -> Values]]
  BY <1>1, NompOffloadAssumption DEF Bytes
<1>4. IInv
  <2>1. TypeOK
    <3>1. mems \in Seq(Entry \cup {NULL})
      BY <1>1
    <3>2. DOMAIN dev = {}
      BY <1>1
    <3>3. host \in [Ptrs -> [0 .. Extent - 1 -> Byte]]
      BY <1>3 DEF Byte, Bytes
    <3>4. QED
      BY <1>1, <3>1, <3>2, <3>3 DEF TypeOK
  <2>2. QED
    BY <1>1, <1>2, <2>1 DEF IInv, OwnedOnce, Owned, RegistryFits
<1>5. MInv /\ SlicesApart
  BY <1>2, <1>4 DEF MInv, BuffersFit, SlicesApart
<1>6. IsMemory(host)
  BY <1>3 DEF IsMemory
<1>7. valid = [p \in Ptrs |-> [k \in Bytes |-> {"host"}]]
  BY <1>1 DEF Unmapped, Bytes
<1>8. Holds(host)
  BY <1>7 DEF Holds, ByteHolds, Places
<1>9. Memory = host
  BY <1>5, <1>6, <1>8, Determined DEF Determination
<1>10. LaunchesFit(dev, queue)
  BY <1>1 DEF LaunchesFit
<1>11. OInv
  BY <1>1, <1>5, <1>8, <1>9, <1>10, NompOffloadAssumption DEF OInv
<1>12. QED
  BY <1>1, <1>9, <1>11 DEF Offloaded!Init

LEMMA NextKeeps ==
  ASSUME OInv, [OffloadNext]_all, IsCareful
  PROVE  OInv' /\ [Offloaded!Next]_Offloaded!vars
<1>1. CASE Starts
  BY <1>1, StartKeeps
<1>2. CASE Stops
  BY <1>2, StopKeeps
<1>3. CASE RunAdd
  BY <1>3, AddKeeps
<1>4. CASE RunSum
  BY <1>4, SumKeeps
<1>5. CASE HostStores
  BY <1>5, StoreKeeps
<1>6. CASE DeviceFinishes
  BY <1>6, DeviceFinishesKeeps
<1>7. ASSUME NEW c \in Calls, Call(c)
      PROVE  OInv' /\ UNCHANGED Offloaded!vars
  <2>1. OInv' /\ Memory' = Memory
    BY <1>7, CallKeeps
  <2>2. UNCHANGED <<todo, result>>
    BY <1>7 DEF Call
  <2>3. QED
    BY <2>1, <2>2 DEF Offloaded!vars
<1>8. CASE UNCHANGED all
  <2>1. UNCHANGED <<up, mems, mems_max, scratch, host, dev, todo, result, queue, valid>>
    BY <1>8 DEF all, vars
  <2>2. SameShape(dev, dev')
    BY <2>1, DevTyped DEF SameShape, OInv, MInv
  <2>3. DeviceAfterQueue' = DeviceAfterQueue
    BY <2>1 DEF DeviceAfterQueue
  <2>4. OInv' /\ Memory' = Memory
    BY <2>1, <2>2, <2>3, DeviceKeeps DEF OInv
  <2>5. QED
    BY <2>1, <2>4 DEF Offloaded!vars
<1>9. QED
  BY <1>1, <1>2, <1>3, <1>4, <1>5, <1>6, <1>7, <1>8 DEF OffloadNext

\* What the client takes to be the value of a byte, on the host or after the
\* launches that are pending, is one value wherever it is, and the launches
\* that are pending find their buffers when their turn comes: every buffer that
\* nomp_run() gave a kernel is still there, and as large.
THEOREM Pending ==
  ASSUME "units" \notin Misuse, "overlap" \notin Misuse, "resize" \notin Misuse,
         "subfree" \notin Misuse
  PROVE  OffloadSpec => []OInv
<1>1. OffloadInit => OInv
  BY InitKeeps
<1>2. OInv /\ [OffloadNext]_all => OInv'
  BY NextKeeps DEF IsCareful
<1>3. QED
  BY <1>1, <1>2, PTL DEF OffloadSpec

\* Offloading is transparent: with any number of launches pending, slices
\* mapped, copied and freed with nomp_update() in between, copies that fail and
\* memory that is not there, a program computes what it would have computed in
\* host memory, statement by statement.
THEOREM Transparent ==
  ASSUME "units" \notin Misuse, "overlap" \notin Misuse, "resize" \notin Misuse,
         "subfree" \notin Misuse
  PROVE  OffloadSpec => OffloadIsTransparent
<1>1. OffloadInit => OInv /\ Offloaded!Init
  BY InitKeeps
<1>2. OInv /\ [OffloadNext]_all => OInv' /\ [Offloaded!Next]_Offloaded!vars
  BY NextKeeps DEF IsCareful
<1>3. QED
  BY <1>1, <1>2, PTL DEF OffloadSpec, OffloadIsTransparent, Offloaded!Spec
=============================================================================

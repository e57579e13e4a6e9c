---------------------------- MODULE GarrayProofs ----------------------------
(***************************************************************************)
(* What next_cap_mark and each function on a block return, for every table *)
(* of marks and every set of values.  An array is sound when its parts     *)
(* have their types and its elements are inside its block.                 *)
(***************************************************************************)
EXTENDS Garray, WellFoundedInduction, TLAPS

-----------------------------------------------------------------------------
(***************************************************************************)
(* Least numbers, and functions that are recursive in a number: the step G *)
(* of such a function is a function itself, for each number.               *)
(***************************************************************************)
\* A set of natural numbers that is not empty has a least element.
LEMMA LeastElement ==
  ASSUME NEW S \in SUBSET Nat, S # {}
  PROVE  \E m \in S : \A k \in S : m <= k
<1>1. PICK m \in S : \A k \in S : ~ (<<k, m>> \in OpToRel(<, Nat))
  BY NatLessThanWellFounded, WFMin
<1>2. ASSUME NEW k \in S PROVE m <= k
  <2>1. ~ (k < m)
    BY <1>1 DEF OpToRel
  <2> QED  BY <2>1
<1> QED  BY <1>2

\* f begins with f0 and goes on to n by G.
GoesBy(f, S, f0, G, n) ==
    /\ f \in [0..n -> S]
    /\ f[0] = f0
    /\ \A k \in 1..n : f[k] = G[k][f[k - 1]]

LEMMA GoesByExists ==
  ASSUME NEW S, NEW f0 \in S, NEW N \in Nat, NEW G \in [1..N -> [S -> S]]
  PROVE  \E f : GoesBy(f, S, f0, G, N)
<1> DEFINE Bad == {n \in 0..N : ~ \E f : GoesBy(f, S, f0, G, n)}
<1>1. CASE Bad = {}
  <2>1. N \in 0..N
    OBVIOUS
  <2> QED  BY <1>1, <2>1
<1>2. CASE Bad # {}
  <2>1. PICK m \in Bad : \A k \in Bad : m <= k
    <3>1. Bad \in SUBSET Nat
      OBVIOUS
    <3> HIDE DEF Bad
    <3> QED  BY <1>2, <3>1, LeastElement
  <2>2. CASE m = 0
    <3> DEFINE f == [k \in 0..0 |-> f0]
    <3>1. GoesBy(f, S, f0, G, 0)
      BY DEF GoesBy
    <3> QED  BY <2>1, <2>2, <3>1
  <2>3. CASE m # 0
    <3>1. m \in 1..N /\ m - 1 \in 0..N /\ m - 1 \notin Bad
      BY <2>1, <2>3
    <3>2. PICK f : GoesBy(f, S, f0, G, m - 1)
      BY <3>1
    <3> DEFINE v == G[m][f[m - 1]]
               h == [k \in 0..m |-> IF k = m THEN v ELSE f[k]]
    <3>3. f[m - 1] \in S /\ v \in S
      BY <3>1, <3>2 DEF GoesBy
    <3>4. h \in [0..m -> S] /\ h[0] = f0 /\ h[m] = v
          /\ \A k \in 0..(m - 1) : h[k] = f[k]
      <4> HIDE DEF v
      <4> QED  BY <3>1, <3>2, <3>3 DEF GoesBy
    <3>5. ASSUME NEW k \in 1..m PROVE h[k] = G[k][h[k - 1]]
      <4>1. h[k - 1] = f[k - 1]
        BY <3>1, <3>4
      <4>2. CASE k = m
        BY <3>4, <4>1, <4>2
      <4>3. CASE k # m
        <5>1. k \in 1..(m - 1) /\ k \in 0..(m - 1)
          BY <3>1, <4>3
        <5> QED  BY <3>2, <3>4, <4>1, <5>1 DEF GoesBy
      <4> QED  BY <4>2, <4>3
    <3>6. GoesBy(h, S, f0, G, m)
      BY <3>4, <3>5 DEF GoesBy
    <3> QED  BY <2>1, <3>6
  <2> QED  BY <2>2, <2>3
<1> QED  BY <1>1, <1>2

\* What an equation says of a function that begins with f0 and takes its steps
\* by G as long as it stays in S.
StepsBy(f, S, f0, G, n) ==
    /\ f[0] = f0
    /\ \A k \in 1..n : f[k - 1] \in S => f[k] = G[k][f[k - 1]]

\* There is no other.
LEMMA GoesByUnique ==
  ASSUME NEW S, NEW f0 \in S, NEW N \in Nat, NEW G \in [1..N -> [S -> S]],
         NEW h, GoesBy(h, S, f0, G, N),
         NEW f, StepsBy(f, S, f0, G, N)
  PROVE  \A n \in 0..N : f[n] = h[n]
<1> DEFINE Bad == {n \in 0..N : f[n] # h[n]}
<1> SUFFICES ASSUME Bad # {} PROVE FALSE
  OBVIOUS
<1>1. PICK m \in Bad : \A k \in Bad : m <= k
  <2>1. Bad \in SUBSET Nat
    OBVIOUS
  <2> HIDE DEF Bad
  <2> QED  BY <2>1, LeastElement
<1>2. m # 0
  BY <1>1 DEF GoesBy, StepsBy
<1>3. m \in 1..N /\ m - 1 \in 0..N /\ f[m - 1] = h[m - 1]
  BY <1>1, <1>2
<1>4. h[m - 1] \in S
  BY <1>3 DEF GoesBy
<1>5. f[m] = G[m][f[m - 1]]
  BY <1>3, <1>4 DEF StepsBy
<1>6. h[m] = G[m][h[m - 1]]
  BY <1>3 DEF GoesBy
<1> QED  BY <1>1, <1>3, <1>5, <1>6

-----------------------------------------------------------------------------
(***************************************************************************)
(* next_cap_mark.                                                          *)
(***************************************************************************)

\* The marks are natural numbers.
LEMMA MarksNat == Marks \subseteq Nat
BY CapacityMarkAssumption DEF Marks

\* next_cap_mark returns a mark that suffices when no smaller one does.
LEMMA NextCapMarkLeast ==
  ASSUME NEW n \in Nat, NEW m \in Marks, m >= n,
         \A k \in Marks : k >= n => m <= k
  PROVE  NextCapMark(n) = m
<1>1. \A x, y \in Marks :
        /\ x >= n /\ \A k \in Marks : k >= n => x <= k
        /\ y >= n /\ \A k \in Marks : k >= n => y <= k
        => x = y
  BY MarksNat
<1> QED  BY <1>1 DEF NextCapMark

\* It computes 1.5 * (n - 1) when no mark suffices.
LEMMA NextCapMarkPast ==
  ASSUME NEW n \in Nat, \A m \in Marks : m < n
  PROVE  NextCapMark(n) = PastTable(n)
<1>1. ~ \E m \in Marks : m >= n
  BY MarksNat
<1> QED  BY <1>1 DEF NextCapMark

\* The room next_cap_mark returns is never less than what it was asked for,
\* on the table, between two marks and past its end.
THEOREM NextCapMarkEnough ==
  ASSUME NEW n \in Nat
  PROVE  /\ NextCapMark(n) \in Nat
         /\ NextCapMark(n) >= n
<1>1. CASE \E m \in Marks : m >= n
  <2> DEFINE S == {m \in Marks : m >= n}
  <2>1. S \in SUBSET Nat /\ S # {}
    BY <1>1, MarksNat
  <2>2. PICK m \in S : \A k \in S : m <= k
    BY <2>1, LeastElement
  <2>3. NextCapMark(n) = m
    BY <2>2, NextCapMarkLeast
  <2> QED  BY <2>2, <2>3, MarksNat
<1>2. CASE \A m \in Marks : m < n
  <2>1. CapacityMark[Len(CapacityMark)] \in Marks
    BY CapacityMarkAssumption DEF Marks
  <2>2. n >= 3
    BY <1>2, <2>1, CapacityMarkAssumption, MarksNat
  <2>3. PastTable(n) \in Nat /\ PastTable(n) >= n
    BY <2>2 DEF PastTable
  <2> QED  BY <1>2, <2>3, NextCapMarkPast
<1> QED  BY <1>1, <1>2, MarksNat

-----------------------------------------------------------------------------
(***************************************************************************)
(* Sound arrays.                                                           *)
(***************************************************************************)
Sound(g) == IsArray(g) /\ ElementsInBlock(g)

\* The parts of a sound array.
LEMMA PartsOfSound ==
  ASSUME NEW g, Sound(g)
  PROVE  /\ g.kind \in Kind /\ g.elements \in {"NULL", "block"}
         /\ g.extent \in Nat /\ g.size \in Nat /\ g.capacity \in Nat
         /\ g.slot \in [0..(g.extent - 1) -> Slot]
         /\ g.size <= g.extent
         /\ g.capacity > 0 => g.extent = g.capacity
         /\ g.elements = "NULL" => g.extent = 0
BY DEF Sound, IsArray, ElementsInBlock

\* An array put together from its parts has these parts.
LEMMA ArrayFields ==
  ASSUME NEW k, NEW e, NEW x, NEW s, NEW c, NEW f, NEW a,
         a = Array(k, e, x, s, c, f)
  PROVE  /\ a.kind = k /\ a.elements = e /\ a.extent = x /\ a.size = s
         /\ a.capacity = c /\ a.slot = f
         /\ a = Array(a.kind, a.elements, a.extent, a.size, a.capacity, a.slot)
BY DEF Array

\* carray_etype_ctor leaves an empty array without a block.
LEMMA EtypeCtorSound ==
  ASSUME NEW k \in Kind
  PROVE  LET g == EtypeCtor(k)
         IN  /\ Sound(g) /\ g.kind = k /\ g.elements = "NULL"
             /\ g.extent = 0 /\ g.size = 0 /\ g.capacity = 0
<1> SUFFICES ASSUME NEW g, g = EtypeCtor(k)
             PROVE  /\ Sound(g) /\ g.kind = k /\ g.elements = "NULL"
                    /\ g.extent = 0 /\ g.size = 0 /\ g.capacity = 0
  OBVIOUS
<1>1. g = Array(k, "NULL", 0, 0, 0, NoSlots)
  BY DEF EtypeCtor
<1>2. NoSlots \in [0..(0 - 1) -> Slot]
  BY DEF NoSlots
<1>3. /\ g.kind = k /\ g.elements = "NULL" /\ g.extent = 0 /\ g.size = 0
      /\ g.capacity = 0 /\ g.slot = NoSlots
      /\ g = Array(g.kind, g.elements, g.extent, g.size, g.capacity, g.slot)
  BY <1>1, ArrayFields
<1> QED  BY <1>2, <1>3 DEF Sound, IsArray, ElementsInBlock

\* pca_alloc after it gives exactly n elements, and no capacity.
LEMMA PcaAllocSound ==
  ASSUME NEW k \in Kind, NEW n \in Nat
  PROVE  LET g == PcaAlloc(EtypeCtor(k), n)
         IN  /\ Sound(g) /\ g.kind = k /\ g.size = n /\ g.extent = n
             /\ g.capacity = 0
<1> DEFINE f == [i \in 0..(n - 1) |-> Garbage]
<1>1. CASE n = 0
  BY <1>1, EtypeCtorSound DEF PcaAlloc
<1>2. CASE n > 0
  <2>1. f \in [0..(n - 1) -> Slot]
    BY DEF Slot
  <2> SUFFICES ASSUME NEW g, g = PcaAlloc(EtypeCtor(k), n)
               PROVE  /\ Sound(g) /\ g.kind = k /\ g.size = n /\ g.extent = n
                      /\ g.capacity = 0
    OBVIOUS
  <2>2. g = Array(k, "block", n, n, 0, f)
    BY <1>2, EtypeCtorSound DEF PcaAlloc
  <2> HIDE DEF f
  <2> QED  BY <2>1, <2>2, ArrayFields DEF Sound, IsArray, ElementsInBlock
<1> QED  BY <1>1, <1>2

\* pca_reserve never takes an element out of the block, and gives room for
\* what was asked.
LEMMA PcaReserveSound ==
  ASSUME NEW g, Sound(g), NEW n \in Nat
  PROVE  LET h == PcaReserve(g, n)
         IN  /\ Sound(h) /\ h.kind = g.kind /\ h.size = g.size
             /\ h.extent >= n
<1> SUFFICES ASSUME NEW h, h = PcaReserve(g, n)
             PROVE  /\ Sound(h) /\ h.kind = g.kind /\ h.size = g.size
                    /\ h.extent >= n
  OBVIOUS
<1> DEFINE m == AtLeast(n, g.size)
           kept == IF g.capacity = 0 THEN 0 ELSE g.extent
           f == [i \in 0..(m - 1) |-> IF i < kept THEN g.slot[i] ELSE Garbage]
<1>1. m \in Nat /\ m >= n /\ m >= g.size /\ g.size \in Nat
  BY DEF AtLeast, Sound, IsArray
<1>2. CASE m = 0 /\ g.capacity > 0 /\ g.elements = "block"
  <2>1. h = Array(g.kind, "NULL", 0, g.size, 0, NoSlots)
    BY <1>2 DEF PcaReserve
  <2>2. NoSlots \in [0..(0 - 1) -> Slot] /\ g.size = 0 /\ n = 0
    BY <1>1, <1>2 DEF NoSlots
  <2>3. g.kind \in Kind
    BY PartsOfSound
  <2>4. /\ h.kind = g.kind /\ h.elements = "NULL" /\ h.extent = 0
        /\ h.size = g.size /\ h.capacity = 0 /\ h.slot = NoSlots
        /\ h = Array(h.kind, h.elements, h.extent, h.size, h.capacity, h.slot)
    BY <2>1, ArrayFields
  <2>5. Sound(h)
    <3>1. h.slot \in [0..(h.extent - 1) -> Slot]
      BY <2>2, <2>4
    <3>2. h.size = 0 /\ h.kind \in Kind
      BY <2>2, <2>3, <2>4
    <3> QED  BY <2>4, <3>1, <3>2 DEF Sound, IsArray, ElementsInBlock
  <2> QED  BY <2>2, <2>4, <2>5
<1>3. CASE ~ (m = 0 /\ g.capacity > 0 /\ g.elements = "block")
  <2>1. h = Array(g.kind, "block", m, g.size, m, f)
    BY <1>3 DEF PcaReserve
  <2>2. f \in [0..(m - 1) -> Slot]
    <3>1. ASSUME NEW i \in 0..(m - 1), i < kept PROVE g.slot[i] \in Slot
      BY <1>1, <3>1 DEF Sound, IsArray
    <3>2. Garbage \in Slot
      BY DEF Slot
    <3> QED  BY <3>1, <3>2
  <2>3. g.kind \in Kind
    BY PartsOfSound
  <2> HIDE DEF f, m
  <2>4. /\ h.kind = g.kind /\ h.elements = "block" /\ h.extent = m
        /\ h.size = g.size /\ h.capacity = m /\ h.slot = f
        /\ h = Array(h.kind, h.elements, h.extent, h.size, h.capacity, h.slot)
    BY <2>1, ArrayFields
  <2>5. Sound(h)
    BY <1>1, <2>2, <2>3, <2>4 DEF Sound, IsArray, ElementsInBlock
  <2> QED  BY <1>1, <2>4, <2>5
<1> QED  BY <1>2, <1>3

\* init_elems and dtor_elems stay inside the block.
LEMMA InitElemsSound ==
  ASSUME NEW g, Sound(g), NEW from \in Int, NEW to \in Int
  PROVE  LET h == InitElems(g, from, to)
         IN  /\ Sound(h) /\ h.kind = g.kind /\ h.size = g.size
             /\ h.extent = g.extent /\ h.capacity = g.capacity
<1> SUFFICES ASSUME NEW h, h = InitElems(g, from, to)
             PROVE  /\ Sound(h) /\ h.kind = g.kind /\ h.size = g.size
                    /\ h.extent = g.extent /\ h.capacity = g.capacity
  OBVIOUS
<1>1. Blanked(g, from, to) \in [0..(g.extent - 1) -> Slot]
  BY PartsOfSound DEF Blanked, Slot
<1>2. h = Array(g.kind, g.elements, g.extent, g.size, g.capacity,
              Blanked(g, from, to))
  BY DEF InitElems
<1>3. /\ h.kind = g.kind /\ h.elements = g.elements /\ h.extent = g.extent
      /\ h.size = g.size /\ h.capacity = g.capacity /\ h.slot = Blanked(g, from, to)
      /\ h = Array(h.kind, h.elements, h.extent, h.size, h.capacity, h.slot)
  BY <1>2, ArrayFields
<1> QED  BY <1>1, <1>3, PartsOfSound DEF Sound, IsArray, ElementsInBlock

\* A size may be set up to the extent of the block.
LEMMA WithSizeSound ==
  ASSUME NEW g, Sound(g), NEW n \in Nat, n <= g.extent
  PROVE  LET h == WithSize(g, n)
         IN  /\ Sound(h) /\ h.kind = g.kind /\ h.size = n
             /\ h.extent = g.extent /\ h.capacity = g.capacity
             /\ h.slot = g.slot
<1> SUFFICES ASSUME NEW h, h = WithSize(g, n)
             PROVE  /\ Sound(h) /\ h.kind = g.kind /\ h.size = n
                    /\ h.extent = g.extent /\ h.capacity = g.capacity
                    /\ h.slot = g.slot
  OBVIOUS
<1>2. h = Array(g.kind, g.elements, g.extent, n, g.capacity,
              g.slot)
  BY DEF WithSize
<1>3. /\ h.kind = g.kind /\ h.elements = g.elements /\ h.extent = g.extent
      /\ h.size = n /\ h.capacity = g.capacity /\ h.slot = g.slot
      /\ h = Array(h.kind, h.elements, h.extent, h.size, h.capacity, h.slot)
  BY <1>2, ArrayFields
<1> QED  BY <1>3, PartsOfSound DEF Sound, IsArray, ElementsInBlock

\* set_zval replaces one element of the block.
LEMMA WrittenSound ==
  ASSUME NEW g, Sound(g), NEW i \in Nat, i < g.extent, NEW v \in Value
  PROVE  LET h == Written(g, i, v)
         IN  /\ Sound(h) /\ h.kind = g.kind /\ h.size = g.size
             /\ h.extent = g.extent /\ h.capacity = g.capacity
<1> SUFFICES ASSUME NEW h, h = Written(g, i, v)
             PROVE  /\ Sound(h) /\ h.kind = g.kind /\ h.size = g.size
                    /\ h.extent = g.extent /\ h.capacity = g.capacity
  OBVIOUS
<1>1. [g.slot EXCEPT ![i] = v] \in [0..(g.extent - 1) -> Slot]
  BY PartsOfSound DEF Slot
<1>2. h = Array(g.kind, g.elements, g.extent, g.size, g.capacity,
              [g.slot EXCEPT ![i] = v])
  BY DEF Written
<1>3. /\ h.kind = g.kind /\ h.elements = g.elements /\ h.extent = g.extent
      /\ h.size = g.size /\ h.capacity = g.capacity /\ h.slot = [g.slot EXCEPT ![i] = v]
      /\ h = Array(h.kind, h.elements, h.extent, h.size, h.capacity, h.slot)
  BY <1>2, ArrayFields
<1> QED  BY <1>1, <1>3, PartsOfSound DEF Sound, IsArray, ElementsInBlock

\* copy_elems fills a block of to - from elements from inside the other block.
LEMMA CopyElemsSound ==
  ASSUME NEW g, Sound(g), NEW b, Sound(b), NEW from \in Nat, NEW to \in Nat,
         from + g.extent <= b.extent
  PROVE  LET h == CopyElems(g, b, from, to)
         IN  /\ Sound(h) /\ h.kind = g.kind /\ h.size = g.size
             /\ h.extent = g.extent
<1> SUFFICES ASSUME NEW h, h = CopyElems(g, b, from, to)
             PROVE  /\ Sound(h) /\ h.kind = g.kind /\ h.size = g.size
                    /\ h.extent = g.extent
  OBVIOUS
<1>1. [i \in 0..(g.extent - 1) |-> b.slot[from + i]]
        \in [0..(g.extent - 1) -> Slot]
  <2>1. /\ g.extent \in Nat /\ b.extent \in Nat
        /\ b.slot \in [0..(b.extent - 1) -> Slot]
    BY PartsOfSound
  <2>2. ASSUME NEW i \in 0..(g.extent - 1)
        PROVE  b.slot[from + i] \in Slot
    <3>1. from + i \in 0..(b.extent - 1)
      BY <2>1
    <3> QED  BY <2>1, <3>1
  <2> QED  BY <2>2
<1>2. h = Array(g.kind, g.elements, g.extent, g.size, g.capacity,
              [i \in 0..(g.extent - 1) |-> b.slot[from + i]])
  BY DEF CopyElems
<1>3. /\ h.kind = g.kind /\ h.elements = g.elements /\ h.extent = g.extent
      /\ h.size = g.size /\ h.capacity = g.capacity /\ h.slot = [i \in 0..(g.extent - 1) |-> b.slot[from + i]]
      /\ h = Array(h.kind, h.elements, h.extent, h.size, h.capacity, h.slot)
  BY <1>2, ArrayFields
<1> QED  BY <1>1, <1>3, PartsOfSound DEF Sound, IsArray, ElementsInBlock

\* gen_resize, growing: there is room for n elements in the block.
LEMMA GrownSound ==
  ASSUME NEW g, Sound(g), NEW n \in Nat, n > g.size
  PROVE  Sound(Grown(g, n)) /\ Grown(g, n).kind = g.kind /\ Grown(g, n).size = n
<1> DEFINE h == IF n > g.capacity THEN PcaReserve(g, NextCapMark(n)) ELSE g
           j == IF Ctdt(g) THEN InitElems(h, g.size, n) ELSE h
<1>1. g.size \in Nat /\ g.capacity \in Nat
  BY DEF Sound, IsArray
<1>2. Sound(h) /\ h.kind = g.kind /\ h.extent >= n
  <2>1. CASE n > g.capacity
    <3>1. NextCapMark(n) \in Nat /\ NextCapMark(n) >= n
      BY NextCapMarkEnough
    <3>2. LET r == PcaReserve(g, NextCapMark(n))
          IN  Sound(r) /\ r.kind = g.kind /\ r.extent >= NextCapMark(n)
      BY <3>1, PcaReserveSound
    <3>3. h = PcaReserve(g, NextCapMark(n)) /\ h.extent \in Nat
      BY <2>1, <3>2 DEF Sound, IsArray
    <3> HIDE DEF h
    <3> QED  BY <3>1, <3>2, <3>3
  <2>2. CASE ~ (n > g.capacity)
    BY <1>1, <2>2 DEF Sound, ElementsInBlock
  <2> QED  BY <2>1, <2>2
<1>3. Sound(j) /\ j.kind = g.kind /\ j.extent >= n
  <2> HIDE DEF h
  <2> QED  BY <1>1, <1>2, InitElemsSound
<1>4. Grown(g, n) = WithSize(j, n)
  BY DEF Grown
<1>5. j.extent \in Nat
  BY <1>3 DEF Sound, IsArray
<1> HIDE DEF j
<1> QED  BY <1>3, <1>4, <1>5, WithSizeSound

\* gen_resize to 0: a mixed array is empty, a packed one keeps its size.
LEMMA EmptiedSound ==
  ASSUME NEW g, Sound(g)
  PROVE  /\ Sound(Emptied(g)) /\ Emptied(g).kind = g.kind
         /\ Emptied(g).size = IF Ctdt(g) THEN 0 ELSE g.size
<1> DEFINE h == IF Ctdt(g) THEN WithSize(InitElems(g, 0, g.size), 0) ELSE g
<1>1. Sound(h) /\ h.kind = g.kind /\ h.size = IF Ctdt(g) THEN 0 ELSE g.size
  <2>1. g.size \in Int /\ g.extent \in Nat
    BY DEF Sound, IsArray
  <2>2. LET i == InitElems(g, 0, g.size)
        IN  Sound(i) /\ i.kind = g.kind /\ i.extent = g.extent
    BY <2>1, InitElemsSound
  <2> QED  BY <2>1, <2>2, WithSizeSound
<1>2. Emptied(g) = PcaReserve(h, 0)
  BY DEF Emptied
<1> HIDE DEF h
<1> QED  BY <1>1, <1>2, PcaReserveSound

\* gen_resize, shrinking.
LEMMA ShrunkSound ==
  ASSUME NEW g, Sound(g), NEW n \in Nat, n < g.size
  PROVE  Sound(Shrunk(g, n)) /\ Shrunk(g, n).kind = g.kind /\ Shrunk(g, n).size = n
<1> DEFINE h == IF Ctdt(g) THEN InitElems(g, n, g.size) ELSE g
<1>1. g.size \in Int /\ n <= g.extent
  BY DEF Sound, IsArray, ElementsInBlock
<1>2. Sound(h) /\ h.kind = g.kind /\ h.extent = g.extent
  BY <1>1, InitElemsSound
<1>3. Shrunk(g, n) = WithSize(h, n)
  BY DEF Shrunk
<1> HIDE DEF h
<1> QED  BY <1>1, <1>2, <1>3, WithSizeSound

\* gen_resize keeps an array sound whatever size is asked for, and gives it
\* that size unless a packed array is to become empty.
THEOREM GenResizeSound ==
  ASSUME NEW g, Sound(g), NEW n \in Nat
  PROVE  /\ Sound(GenResize(g, n))
         /\ GenResize(g, n).kind = g.kind
         /\ n > 0 \/ Ctdt(g) => GenResize(g, n).size = n
<1>1. g.size \in Nat
  BY DEF Sound, IsArray
<1>2. CASE n = g.size
  BY <1>2 DEF GenResize
<1>3. CASE n > g.size
  BY <1>1, <1>3, GrownSound DEF GenResize
<1>4. CASE n < g.size /\ n = 0
  BY <1>1, <1>4, EmptiedSound DEF GenResize
<1>5. CASE n < g.size /\ n > 0
  BY <1>1, <1>5, ShrunkSound DEF GenResize
<1> QED  BY <1>1, <1>2, <1>3, <1>4, <1>5

\* clone and sub make a sound array of their own.
LEMMA CopyCtorSound ==
  ASSUME NEW g, Sound(g), NEW from \in Nat, from <= g.size
  PROVE  /\ Sound(CopyCtor(g, from)) /\ CopyCtor(g, from).kind = g.kind
         /\ CopyCtor(g, from).size = g.size - from
<1> DEFINE n == g.size - from
           h == PcaAlloc(EtypeCtor(g.kind), n)
<1>1. n \in Nat /\ g.size \in Nat /\ g.kind \in Kind /\ g.extent \in Nat
      /\ g.size <= g.extent
  BY DEF Sound, IsArray, ElementsInBlock
<1>2. Sound(h) /\ h.kind = g.kind /\ h.size = n /\ h.extent = n
  BY <1>1, PcaAllocSound
<1>3. CASE n > 0
  <2>1. CopyCtor(g, from) = CopyElems(h, g, from, g.size)
    BY <1>3 DEF CopyCtor
  <2> HIDE DEF h
  <2>2. from + h.extent <= g.extent
    BY <1>1, <1>2
  <2>3. LET c == CopyElems(h, g, from, g.size)
        IN  Sound(c) /\ c.kind = h.kind /\ c.size = h.size
    BY <1>1, <1>2, <2>2, CopyElemsSound
  <2> QED  BY <1>2, <2>1, <2>3
<1>4. CASE ~ (n > 0)
  <2>1. CopyCtor(g, from) = h
    BY <1>4 DEF CopyCtor
  <2> HIDE DEF h
  <2> QED  BY <1>2, <2>1
<1> QED  BY <1>1, <1>3, <1>4

-----------------------------------------------------------------------------
(***************************************************************************)
(* What becomes of the elements.  Operations that make or move room write  *)
(* no value of their own into a block, and up to a size they may keep what *)
(* is there or lose it.                                                    *)
(***************************************************************************)
NothingNew(g, h) ==
    \A i \in DOMAIN h.slot :
        h.slot[i] \in Value => i \in DOMAIN g.slot /\ h.slot[i] = g.slot[i]

Keeps(g, h, n) == \A i \in 0..(n - 1) : h.slot[i] = g.slot[i]

Loses(h, n) == \A i \in 0..(n - 1) : h.slot[i] = Garbage

\* pca_reserve keeps all elements, but those of a block that it did not make.
LEMMA PcaReserveElements ==
  ASSUME NEW g, Sound(g), NEW n \in Nat
  PROVE  LET h == PcaReserve(g, n)
         IN  /\ NothingNew(g, h)
             /\ h.capacity = h.extent
             /\ IF g.capacity > 0 THEN Keeps(g, h, g.size)
                                  ELSE Loses(h, g.size)
<1> SUFFICES ASSUME NEW h, h = PcaReserve(g, n)
             PROVE  /\ NothingNew(g, h)
                    /\ h.capacity = h.extent
                    /\ IF g.capacity > 0 THEN Keeps(g, h, g.size)
                                         ELSE Loses(h, g.size)
  OBVIOUS
<1> DEFINE m == AtLeast(n, g.size)
           kept == IF g.capacity = 0 THEN 0 ELSE g.extent
           f == [i \in 0..(m - 1) |-> IF i < kept THEN g.slot[i] ELSE Garbage]
<1>1. /\ m \in Nat /\ m >= g.size /\ g.size \in Nat /\ g.extent \in Nat
      /\ g.capacity \in Nat /\ g.size <= g.extent
      /\ DOMAIN g.slot = 0..(g.extent - 1)
  BY PartsOfSound DEF AtLeast
<1>2. CASE m = 0 /\ g.capacity > 0 /\ g.elements = "block"
  <2>1. h = Array(g.kind, "NULL", 0, g.size, 0, NoSlots)
    BY <1>2 DEF PcaReserve
  <2>2. h.capacity = 0 /\ h.extent = 0 /\ h.slot = NoSlots /\ g.size = 0
    BY <1>1, <1>2, <2>1, ArrayFields
  <2> QED  BY <2>2 DEF NothingNew, Keeps, Loses, NoSlots
<1>3. CASE ~ (m = 0 /\ g.capacity > 0 /\ g.elements = "block")
  <2>1. h = Array(g.kind, "block", m, g.size, m, f)
    BY <1>3 DEF PcaReserve
  <2>2. h.capacity = m /\ h.extent = m /\ h.slot = f
    <3> HIDE DEF m, f
    <3> QED  BY <2>1, ArrayFields
  <2>3. \A i \in 0..(m - 1) : f[i] = IF i < kept THEN g.slot[i] ELSE Garbage
    OBVIOUS
  <2>4. DOMAIN f = 0..(m - 1) /\ kept \in Nat /\ kept <= g.extent
    BY <1>1
  <2>5. g.capacity > 0 => kept >= g.size
    BY <1>1
  <2>6. ~ (g.capacity > 0) => kept = 0
    BY <1>1
  <2> HIDE DEF f, m, kept
  <2>7. NothingNew(g, h)
    BY <1>1, <2>2, <2>3, <2>4, SlotAssumption DEF NothingNew
  <2>8. ASSUME NEW i \in 0..(g.size - 1)
        PROVE  h.slot[i] = IF i < kept THEN g.slot[i] ELSE Garbage
    BY <1>1, <2>2, <2>3
  <2> QED  BY <1>1, <2>2, <2>4, <2>5, <2>6, <2>7, <2>8 DEF Keeps, Loses
<1> QED  BY <1>2, <1>3

\* init_elems and dtor_elems leave nothing in the elements from .. to - 1, and
\* every other element alone.
LEMMA InitElemsElements ==
  ASSUME NEW g, Sound(g), NEW from \in Int, NEW to \in Int
  PROVE  LET h == InitElems(g, from, to)
         IN  /\ NothingNew(g, h)
             /\ \A i \in DOMAIN h.slot :
                   h.slot[i] = IF from <= i /\ i < to THEN Blank ELSE g.slot[i]
<1> SUFFICES ASSUME NEW h, h = InitElems(g, from, to)
             PROVE  /\ NothingNew(g, h)
                    /\ \A i \in DOMAIN h.slot :
                         h.slot[i] = IF from <= i /\ i < to THEN Blank
                                                            ELSE g.slot[i]
  OBVIOUS
<1>1. h.slot = Blanked(g, from, to)
  BY ArrayFields DEF InitElems
<1>2. DOMAIN h.slot = DOMAIN g.slot
  BY <1>1, PartsOfSound DEF Blanked
<1>3. \A i \in DOMAIN h.slot :
        h.slot[i] = IF from <= i /\ i < to THEN Blank ELSE g.slot[i]
  BY <1>1 DEF Blanked
<1> QED  BY <1>2, <1>3, SlotAssumption DEF NothingNew

\* No value is left in the elements from .. to - 1.
Cleared(h, from, to) ==
    \A i \in DOMAIN h.slot : from <= i /\ i < to => h.slot[i] \notin Value

LEMMA NothingNewTwice ==
  ASSUME NEW f, NEW g, NEW h, NothingNew(f, g), NothingNew(g, h)
  PROVE  NothingNew(f, h)
BY DEF NothingNew

\* Growing keeps what there is when there is a capacity, and loses it when
\* there is none; new elements of a mixed array are null.
LEMMA GrownElements ==
  ASSUME NEW g, Sound(g), NEW n \in Nat, n > g.size
  PROVE  LET h == Grown(g, n)
         IN  /\ NothingNew(g, h)
             /\ h.capacity > 0
             /\ IF g.capacity > 0 THEN Keeps(g, h, g.size)
                                  ELSE Loses(h, g.size)
             /\ Ctdt(g) => \A i \in g.size..(n - 1) : h.slot[i] = Blank
<1> DEFINE r == IF n > g.capacity THEN PcaReserve(g, NextCapMark(n)) ELSE g
           j == IF Ctdt(g) THEN InitElems(r, g.size, n) ELSE r
<1>1. g.size \in Nat /\ g.capacity \in Nat /\ g.extent \in Nat
  BY PartsOfSound
<1>2. /\ Sound(r) /\ r.extent >= n /\ r.capacity > 0 /\ NothingNew(g, r)
      /\ IF g.capacity > 0 THEN Keeps(g, r, g.size) ELSE Loses(r, g.size)
  <2>1. CASE n > g.capacity
    <3>1. NextCapMark(n) \in Nat /\ NextCapMark(n) >= n
      BY NextCapMarkEnough
    <3>2. r = PcaReserve(g, NextCapMark(n))
      BY <2>1
    <3> HIDE DEF r
    <3>3. Sound(r) /\ r.extent >= NextCapMark(n)
      BY <3>1, <3>2, PcaReserveSound
    <3>4. r.extent \in Nat
      BY <3>3, PartsOfSound
    <3> QED  BY <1>1, <3>1, <3>2, <3>3, <3>4, PcaReserveElements
  <2>2. CASE ~ (n > g.capacity)
    <3>1. r = g /\ g.capacity > 0
      BY <1>1, <2>2
    <3>2. g.extent >= n
      BY <1>1, <2>2, <3>1, PartsOfSound
    <3> QED  BY <3>1, <3>2 DEF NothingNew, Keeps
  <2> QED  BY <2>1, <2>2
<1>3. DOMAIN r.slot = 0..(r.extent - 1) /\ r.extent \in Nat
  BY <1>2, PartsOfSound
<1>4. /\ NothingNew(g, j) /\ j.capacity > 0 /\ Sound(j) /\ j.extent >= n
      /\ IF g.capacity > 0 THEN Keeps(g, j, g.size) ELSE Loses(j, g.size)
      /\ Ctdt(g) => \A i \in g.size..(n - 1) : j.slot[i] = Blank
  <2>1. CASE Ctdt(g)
    <3>1. j = InitElems(r, g.size, n)
      BY <2>1
    <3> HIDE DEF j, r
    <3>2. /\ Sound(j) /\ j.extent = r.extent /\ j.capacity = r.capacity
          /\ NothingNew(r, j)
          /\ \A i \in DOMAIN j.slot :
               j.slot[i] = IF g.size <= i /\ i < n THEN Blank ELSE r.slot[i]
      BY <1>1, <1>2, <3>1, InitElemsSound, InitElemsElements
    <3>3. DOMAIN j.slot = 0..(r.extent - 1)
      BY <3>2, PartsOfSound
    <3>4. NothingNew(g, j)
      BY <1>2, <3>2, NothingNewTwice
    <3>5. ASSUME NEW i \in 0..(g.size - 1) PROVE j.slot[i] = r.slot[i]
      <4>1. i \in DOMAIN j.slot
        BY <1>1, <1>2, <1>3, <3>3
      <4>2. ~ (g.size <= i)
        BY <1>1
      <4> QED  BY <3>2, <4>1, <4>2
    <3>6. \A i \in g.size..(n - 1) : j.slot[i] = Blank
      BY <1>1, <1>2, <1>3, <3>2, <3>3
    <3> QED  BY <1>2, <3>2, <3>4, <3>5, <3>6 DEF Keeps, Loses
  <2>2. CASE ~ Ctdt(g)
    BY <1>2, <2>2
  <2> QED  BY <2>1, <2>2
<1>5. Grown(g, n) = WithSize(j, n)
  BY DEF Grown
<1>6. j.extent \in Nat
  BY <1>4, PartsOfSound
<1> HIDE DEF j, r
<1>7. LET h == Grown(g, n)
      IN  h.slot = j.slot /\ h.capacity = j.capacity
  BY <1>4, <1>5, <1>6, WithSizeSound
<1> QED  BY <1>4, <1>7 DEF NothingNew, Keeps, Loses

\* Resizing to 0 clears a mixed array.  A packed one keeps its size, and its
\* elements as pca_reserve does.
LEMMA EmptiedElements ==
  ASSUME NEW g, Sound(g)
  PROVE  LET h == Emptied(g)
         IN  /\ NothingNew(g, h)
             /\ h.capacity = h.extent
             /\ Ctdt(g) => Cleared(h, 0, g.size)
             /\ ~ Ctdt(g) => IF g.capacity > 0 THEN Keeps(g, h, g.size)
                                               ELSE Loses(h, g.size)
<1> DEFINE i == InitElems(g, 0, g.size)
           r == IF Ctdt(g) THEN WithSize(i, 0) ELSE g
<1>1. g.size \in Nat /\ g.extent \in Nat
  BY PartsOfSound
<1>2. Emptied(g) = PcaReserve(r, 0)
  BY DEF Emptied
<1>3. CASE Ctdt(g)
  <2>1. /\ Sound(i) /\ NothingNew(g, i)
        /\ \A k \in DOMAIN i.slot :
              i.slot[k] = IF 0 <= k /\ k < g.size THEN Blank ELSE g.slot[k]
    BY <1>1, InitElemsSound, InitElemsElements
  <2>2. Cleared(i, 0, g.size)
    BY <2>1, SlotAssumption DEF Cleared
  <2> HIDE DEF i
  <2>3. 0 <= i.extent
    BY <2>1, PartsOfSound
  <2>4. Sound(r) /\ r.slot = i.slot
    BY <1>3, <2>1, <2>3, WithSizeSound
  <2> HIDE DEF r
  <2>5. /\ NothingNew(r, Emptied(g))
        /\ Emptied(g).capacity = Emptied(g).extent
    BY <1>2, <2>4, PcaReserveElements
  <2> QED  BY <1>3, <2>1, <2>2, <2>4, <2>5 DEF NothingNew, Cleared
<1>4. CASE ~ Ctdt(g)
  BY <1>2, <1>4, PcaReserveElements
<1> QED  BY <1>3, <1>4

\* Shrinking keeps what is left, and clears what is cut off a mixed array.
LEMMA ShrunkElements ==
  ASSUME NEW g, Sound(g), NEW n \in Nat, n < g.size
  PROVE  LET h == Shrunk(g, n)
         IN  /\ NothingNew(g, h)
             /\ h.capacity = g.capacity
             /\ Keeps(g, h, n)
             /\ Ctdt(g) => Cleared(h, n, g.size)
<1> DEFINE i == InitElems(g, n, g.size)
           r == IF Ctdt(g) THEN i ELSE g
<1>1. g.size \in Nat /\ g.extent \in Nat /\ g.size <= g.extent
  BY PartsOfSound
<1>2. /\ Sound(i) /\ NothingNew(g, i) /\ i.extent = g.extent
      /\ i.capacity = g.capacity
      /\ \A k \in DOMAIN i.slot :
            i.slot[k] = IF n <= k /\ k < g.size THEN Blank ELSE g.slot[k]
  BY <1>1, InitElemsSound, InitElemsElements
<1>3. Shrunk(g, n) = WithSize(r, n)
  BY DEF Shrunk
<1> HIDE DEF i
<1>4. Cleared(i, n, g.size)
  BY <1>2, SlotAssumption DEF Cleared
<1>5. Keeps(g, i, n)
  <2>1. DOMAIN i.slot = 0..(g.extent - 1)
    BY <1>2, PartsOfSound
  <2> QED  BY <1>1, <1>2, <2>1 DEF Keeps
<1>6. /\ Sound(r) /\ NothingNew(g, r) /\ Keeps(g, r, n) /\ r.extent = g.extent
      /\ r.capacity = g.capacity
      /\ Ctdt(g) => Cleared(r, n, g.size)
  BY <1>2, <1>4, <1>5 DEF NothingNew, Keeps
<1> HIDE DEF r
<1>7. PICK h : /\ h = Shrunk(g, n)
               /\ h.slot = r.slot /\ h.capacity = r.capacity
  BY <1>1, <1>3, <1>6, WithSizeSound
<1>8. NothingNew(g, h) /\ Keeps(g, h, n)
  BY <1>6, <1>7 DEF NothingNew, Keeps
<1>9. ASSUME Ctdt(g) PROVE Cleared(h, n, g.size)
  BY <1>6, <1>7, <1>9 DEF Cleared
<1> QED  BY <1>6, <1>7, <1>8, <1>9

\* No branch of gen_resize writes a value, and what it cuts off a mixed array
\* is gone from its block.
THEOREM GenResizeElements ==
  ASSUME NEW g, Sound(g), NEW n \in Nat
  PROVE  LET h == GenResize(g, n)
         IN  /\ NothingNew(g, h)
             /\ Ctdt(g) => Cleared(h, n, g.size)
<1>1. g.size \in Nat /\ DOMAIN g.slot = 0..(g.extent - 1) /\ g.extent \in Nat
  BY PartsOfSound
<1>2. CASE n = g.size
  BY <1>1, <1>2 DEF GenResize, NothingNew, Cleared
<1>3. CASE n > g.size
  <2>1. GenResize(g, n) = Grown(g, n)
    BY <1>1, <1>3 DEF GenResize
  <2>2. DOMAIN Grown(g, n).slot \subseteq Int
    BY <1>3, GrownSound, PartsOfSound
  <2> QED  BY <1>1, <1>3, <2>1, <2>2, GrownElements DEF Cleared
<1>4. CASE n < g.size /\ n = 0
  <2>1. GenResize(g, n) = Emptied(g)
    BY <1>1, <1>4 DEF GenResize
  <2> QED  BY <1>4, <2>1, EmptiedElements
<1>5. CASE n < g.size /\ n > 0
  <2>1. GenResize(g, n) = Shrunk(g, n)
    BY <1>1, <1>5 DEF GenResize
  <2> QED  BY <1>5, <2>1, ShrunkElements
<1> QED  BY <1>1, <1>2, <1>3, <1>4, <1>5

\* When there is a capacity, no branch of gen_resize disturbs an element that
\* is there before and after.
THEOREM GenResizeKeeps ==
  ASSUME NEW g, Sound(g), g.capacity > 0, NEW n \in Nat,
         NEW i \in 0..(g.size - 1), i < GenResize(g, n).size
  PROVE  GenResize(g, n).slot[i] = g.slot[i]
<1>1. g.size \in Nat
  BY PartsOfSound
<1>2. CASE n = g.size
  BY <1>1, <1>2 DEF GenResize
<1>3. CASE n > g.size
  <2>1. GenResize(g, n) = Grown(g, n)
    BY <1>1, <1>3 DEF GenResize
  <2> QED  BY <1>3, <2>1, GrownElements DEF Keeps
<1>4. CASE n < g.size /\ n = 0
  <2>1. GenResize(g, n) = Emptied(g)
    BY <1>1, <1>4 DEF GenResize
  <2>2. CASE Ctdt(g)
    BY <1>1, <2>1, <2>2, EmptiedSound
  <2>3. CASE ~ Ctdt(g)
    BY <2>1, <2>3, EmptiedElements DEF Keeps
  <2> QED  BY <2>2, <2>3
<1>5. CASE n < g.size /\ n > 0
  <2>1. GenResize(g, n) = Shrunk(g, n)
    BY <1>1, <1>5 DEF GenResize
  <2>2. i \in 0..(n - 1)
    BY <1>1, <1>5, <2>1, ShrunkSound
  <2> QED  BY <1>5, <2>1, <2>2, ShrunkElements DEF Keeps
<1> QED  BY <1>1, <1>2, <1>3, <1>4, <1>5

\* The elements of a clone or sub array are those of the other array from
\* "from" on, in a block of exactly their number.
LEMMA CopyCtorElements ==
  ASSUME NEW g, Sound(g), NEW from \in Nat, from <= g.size
  PROVE  LET h == CopyCtor(g, from)
         IN  /\ h.capacity = 0
             /\ h.extent = g.size - from
             /\ \A i \in 0..(h.extent - 1) : h.slot[i] = g.slot[from + i]
<1> DEFINE n == g.size - from
           a == PcaAlloc(EtypeCtor(g.kind), n)
<1>1. n \in Nat /\ g.size \in Nat /\ g.kind \in Kind /\ g.extent \in Nat
      /\ g.size <= g.extent
  BY PartsOfSound
<1>2. Sound(a) /\ a.size = n /\ a.extent = n /\ a.capacity = 0
  BY <1>1, PcaAllocSound
<1>3. CASE n > 0
  <2> SUFFICES ASSUME NEW h, h = CopyCtor(g, from)
               PROVE  /\ h.capacity = 0
                      /\ h.extent = g.size - from
                      /\ \A i \in 0..(h.extent - 1) :
                            h.slot[i] = g.slot[from + i]
    OBVIOUS
  <2> DEFINE f == [i \in 0..(a.extent - 1) |-> g.slot[from + i]]
  <2>1. h = Array(a.kind, a.elements, a.extent, a.size, a.capacity, f)
    BY <1>3 DEF CopyCtor, CopyElems
  <2>2. \A i \in 0..(a.extent - 1) : f[i] = g.slot[from + i]
    OBVIOUS
  <2> HIDE DEF f, a
  <2>3. h.capacity = a.capacity /\ h.extent = a.extent /\ h.slot = f
    BY <2>1, ArrayFields
  <2> QED  BY <1>2, <2>2, <2>3
<1>4. CASE ~ (n > 0)
  <2>1. CopyCtor(g, from) = a
    BY <1>4 DEF CopyCtor
  <2> HIDE DEF a
  <2> QED  BY <1>1, <1>2, <1>4, <2>1
<1> QED  BY <1>1, <1>3, <1>4

=============================================================================

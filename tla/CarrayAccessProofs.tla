-------------------------- MODULE CarrayAccessProofs --------------------------
(***************************************************************************)
(* What was written to an element is what reading it gives, for every      *)
(* width of a byte, every growth table and every script.                   *)
(***************************************************************************)
EXTENDS CarrayAccess, GarrayProofs, TLAPS

-----------------------------------------------------------------------------
(***************************************************************************)
(* The element types.                                                      *)
(***************************************************************************)

\* A number that fits is its own remainder, a negative one from the other end.
LEMMA Remainder ==
  ASSUME NEW m \in Nat \ {0}, NEW n \in Int
  PROVE  /\ 0 <= n /\ n < m => n % m = n
         /\ - m <= n /\ n < 0 => n % m = n + m
  OBVIOUS

LEMMA TypeCases ==
  ASSUME NEW t \in LongType
  PROVE  /\ t \in SignedLong \/ t \in {"uint8", "uint16", "uint32"}
         /\ t \in SignedLong => t = "int64" \/ HasRange(t)
         /\ t \notin SignedLong => HasRange(t)
         /\ t # "float" /\ t # "mixed" /\ ZvalType(t) = "LONG"
  BY DEF LongType, SignedLong, HasRange, ZvalType

\* A whole number that its type accepts comes back from its bytes unchanged,
\* where the compiler's char is signed (set_zval, then get_zval).
THEOREM StoredComesBack ==
  ASSUME CharSigned, NEW t \in LongType, NEW z, IsValue(z), SetError(t, z) = "OK"
  PROVE  Stored(t, z) \in Int /\ Loaded(t, Stored(t, z)) = z
<1> DEFINE h == Half(t)
<1>1. h \in Nat \ {0} /\ Whole(t) = 2 * h
  BY HalfAssumption DEF Whole
<1>2. z.is = "LONG" /\ z.n \in Int
  BY TypeCases DEF SetError, IsValue
<1>3. CASE t \in SignedLong
  <2>1. - h <= z.n /\ z.n < h
    <3>1. CASE t = "int64"
      BY <3>1, <1>2 DEF IsValue
    <3>2. CASE t # "int64"
      <4>1. CastMin(t) = - h /\ CastMax(t) = h - 1
        BY <3>2, <1>3 DEF CastMin, CastMax, SignedLong
      <4>2. ~ (z.n < CastMin(t) \/ z.n > CastMax(t))
        BY <3>2, <1>2, <1>3, TypeCases DEF SetError
      <4> QED  BY <4>1, <4>2, <1>1, <1>2
    <3> QED  BY <3>1, <3>2
  <2>2. z.n % (2 * h) = IF z.n >= 0 THEN z.n ELSE z.n + 2 * h
    BY <2>1, <1>1, <1>2, Remainder
  <2>3. Stored(t, z) = IF z.n >= 0 THEN z.n ELSE z.n + 2 * h
    BY <2>2, <1>1 DEF Stored
  <2> DEFINE c == Stored(t, z)
  <2>4. c \in Int /\ (IF c >= h THEN c - 2 * h ELSE c) = z.n
    BY <2>1, <2>3, <1>1, <1>2
  <2>5. Loaded(t, c) = [is |-> "LONG", n |-> IF c >= h THEN c - 2 * h ELSE c]
    BY <1>1, <1>3 DEF Loaded
  <2>6. z = [is |-> "LONG", n |-> z.n]
    BY <1>2 DEF IsValue
  <2> HIDE DEF c
  <2>7. Loaded(t, c) = z
    BY <2>4, <2>5, <2>6
  <2> QED  BY <2>4, <2>7 DEF c
<1>4. CASE t \notin SignedLong
  <2>1. 0 <= z.n /\ z.n < 2 * h
    <3>1. CastMin(t) = 0 /\ CastMax(t) = 2 * h - 1
      BY <1>1, <1>4 DEF CastMin, CastMax, SignedLong, LongType
    <3>2. ~ (z.n < CastMin(t) \/ z.n > CastMax(t))
      BY <1>2, <1>4, TypeCases DEF SetError
    <3> QED  BY <3>1, <3>2, <1>1, <1>2
  <2>2. z.n % (2 * h) = z.n
    BY <2>1, <1>1, <1>2, Remainder
  <2>3. Stored(t, z) = z.n
    BY <2>2, <1>1 DEF Stored
  <2>4. z = [is |-> "LONG", n |-> z.n]
    BY <1>2 DEF IsValue
  <2> QED  BY <2>3, <2>4, <1>2, <1>4 DEF Loaded
<1> QED  BY <1>3, <1>4

\* signedType answers whether some number below zero is accepted: the bits of
\* the types agree with their ranges, if the compiler's char is signed.
THEOREM SignedTakesNegatives ==
  ASSUME CharSigned, NEW t \in LongType
  PROVE  signedType(t) <=> \E n \in Int : n < 0 /\ SetError(t, Long(n)) = "OK"
<1>1. signedType(t) <=> t \in SignedLong
  <2>1. CASE t \in SignedLong
    <3>1. etype(t) \in {2, 4, 8, 16}
      BY <2>1 DEF SignedLong, etype
    <3> QED  BY <2>1, <3>1 DEF signedType
  <2>2. CASE t \notin SignedLong
    <3>1. etype(t) \in {3, 5, 9}
      BY <2>2 DEF LongType, etype
    <3> QED  BY <2>2, <3>1 DEF signedType
  <2> QED  BY <2>1, <2>2
<1>2. CASE t \in SignedLong
  <2>1. t # "int64" => CastMin(t) = - Half(t) /\ CastMax(t) = Half(t) - 1
    BY <1>2 DEF CastMin, CastMax, SignedLong
  <2>2. Half(t) \in Nat \ {0}
    BY HalfAssumption
  <2>3. SetError(t, Long(-1)) = "OK"
    BY <1>2, <2>1, <2>2, TypeCases DEF SetError, HasRange, Long
  <2> QED  BY <1>1, <1>2, <2>3
<1>3. CASE t \notin SignedLong
  <2>1. CastMin(t) = 0
    BY <1>3 DEF CastMin, LongType, SignedLong
  <2>2. ASSUME NEW n \in Int, n < 0
        PROVE  SetError(t, Long(n)) # "OK"
    BY <1>3, <2>1, <2>2, TypeCases DEF SetError, Long
  <2> QED  BY <1>1, <1>3, <2>2
<1> QED  BY <1>2, <1>3

\* What an accepted value of any type is stored as reads as the value, or as a
\* float next to it, and is a cell that was written.
LEMMA AcceptedGives ==
  ASSUME CharSigned, NEW t \in Type, NEW z, IsValue(z), SetError(t, z) = "OK"
  PROVE  /\ Gives(t, Loaded(t, Stored(t, z)), z)
         /\ Stored(t, z) \notin {Blank, Garbage}
<1>1. \A c \in {Blank, Garbage} : c \notin Int
  BY AccessAssumption
<1>2. CASE t \in LongType
  <2>1. t # "float"
    BY <1>2, TypeCases
  <2> QED  BY <1>1, <1>2, <2>1, StoredComesBack DEF Gives
<1>3. CASE t \in RealType
  <2>1. t \notin LongType /\ t # "mixed"
    BY <1>3 DEF RealType, LongType, SignedLong
  <2>2. z.is = "DOUBLE"
    BY <1>3, <2>1 DEF SetError, ZvalType
  <2>3. z.n \in Int /\ z = [is |-> "DOUBLE", n |-> z.n]
    BY <2>2 DEF IsValue
  <2>4. Loaded(t, Stored(t, z)) = [is |-> "DOUBLE", n |-> Stored(t, z)]
    BY <1>3, <2>1 DEF Loaded
  <2>5. CASE t = "float"
    <3>1. Stored(t, z) = IF z.n % 4 = 3 THEN z.n + 1 ELSE z.n - (z.n % 2)
      BY <2>1, <2>5 DEF Stored
    <3> DEFINE c == Stored(t, z)
    <3>2. c \in Int /\ c - z.n \in -1..1 /\ c % 2 = 0
      BY <2>3, <3>1
    <3> HIDE DEF c
    <3>3. Gives(t, [is |-> "DOUBLE", n |-> c], z)
      BY <2>2, <2>5, <3>2 DEF Gives
    <3> QED  BY <1>1, <2>4, <3>2, <3>3 DEF c
  <2>6. CASE t = "double"
    <3>1. Stored(t, z) = z.n
      BY <2>1, <2>6 DEF Stored
    <3> QED  BY <1>1, <2>3, <2>4, <2>6, <3>1 DEF Gives
  <2> QED  BY <1>3, <2>5, <2>6 DEF RealType
<1>4. CASE t = "mixed"
  <2>1. Stored(t, z) = z /\ Loaded(t, z) = z
    BY <1>4 DEF Stored, Loaded, LongType, RealType, SignedLong
  <2> QED  BY <1>4, <2>1 DEF Gives, IsValue
<1> QED  BY <1>2, <1>3, <1>4 DEF Type

-----------------------------------------------------------------------------
(***************************************************************************)
(* The block.  Unlike that of Garray it may hold any cells: nothing below  *)
(* depends on what they are.  An array without a capacity has no elements. *)
(***************************************************************************)
Solid(g) ==
    /\ g.kind \in Kind
    /\ g.extent \in Nat /\ g.size \in Nat /\ g.capacity \in Nat
    /\ g.slot = [i \in 0..(g.extent - 1) |-> g.slot[i]]
    /\ g.size <= g.extent
    /\ g.capacity > 0 => g.extent = g.capacity
    /\ g.capacity = 0 => g.size = 0

LEMMA Fields ==
  ASSUME NEW k, NEW e, NEW x, NEW s, NEW c, NEW f, NEW a,
         a = Array(k, e, x, s, c, f)
  PROVE  /\ a.kind = k /\ a.elements = e /\ a.extent = x /\ a.size = s
         /\ a.capacity = c /\ a.slot = f
BY DEF Array

\* The block h that pca_reserve makes of g, for n elements.
Reserved(g, n, h) ==
    /\ Solid(h) /\ h.kind = g.kind /\ h.size = g.size /\ h.extent >= n
    /\ h.capacity = h.extent
    /\ \A i \in 0..(g.size - 1) : h.slot[i] = g.slot[i]


LEMMA ReserveKeeps ==
  ASSUME NEW g, Solid(g), NEW n \in Nat, NEW h, h = PcaReserve(g, n)
  PROVE  Reserved(g, n, h)
<1> DEFINE m == AtLeast(n, g.size)
           kept == IF g.capacity = 0 THEN 0 ELSE g.extent
           f == [i \in 0..(m - 1) |-> IF i < kept THEN g.slot[i] ELSE Garbage]
<1>1. m \in Nat /\ m >= n /\ m >= g.size
  BY DEF AtLeast, Solid
<1>2. kept \in Nat /\ g.size <= kept
  BY DEF Solid
<1>3. CASE m = 0 /\ g.capacity > 0 /\ g.elements = "block"
  <2>1. h = Array(g.kind, "NULL", 0, g.size, 0, NoSlots)
    BY <1>3 DEF PcaReserve
  <2>2. NoSlots = [i \in 0..(0 - 1) |-> NoSlots[i]]
    BY DEF NoSlots
  <2>3. /\ h.kind = g.kind /\ h.extent = 0 /\ h.size = g.size
        /\ h.capacity = 0 /\ h.slot = NoSlots
    BY <2>1, Fields
  <2>4. g.size = 0 /\ n = 0
    BY <1>1, <1>3 DEF Solid
  <2> QED  BY <2>2, <2>3, <2>4 DEF Solid, Reserved
<1>4. CASE ~ (m = 0 /\ g.capacity > 0 /\ g.elements = "block")
  <2>1. h = Array(g.kind, "block", m, g.size, m, f)
    BY <1>4 DEF PcaReserve
  <2>2. /\ h.kind = g.kind /\ h.extent = m /\ h.size = g.size
        /\ h.capacity = m /\ h.slot = f
    BY <2>1, Fields
  <2>3. f = [i \in 0..(m - 1) |-> f[i]]
    OBVIOUS
  <2>4. \A i \in 0..(g.size - 1) : f[i] = g.slot[i]
    BY <1>1, <1>2 DEF Solid
  <2> HIDE DEF f, m
  <2>5. h.slot = [i \in 0..(h.extent - 1) |-> h.slot[i]]
    BY <2>2, <2>3
  <2>6. g.kind \in Kind /\ g.size \in Nat
    BY DEF Solid
  <2>7. Solid(h)
    BY <1>1, <2>2, <2>5, <2>6 DEF Solid
  <2> QED  BY <1>1, <2>2, <2>4, <2>7 DEF Reserved
<1> QED  BY <1>3, <1>4

LEMMA InitKeeps ==
  ASSUME NEW g, Solid(g), NEW from \in Int, NEW to \in Int,
         NEW h, h = InitElems(g, from, to)
  PROVE  /\ Solid(h) /\ h.kind = g.kind /\ h.size = g.size
         /\ h.extent = g.extent /\ h.capacity = g.capacity
         /\ \A i \in 0..(g.extent - 1) :
               h.slot[i] = IF from <= i /\ i < to THEN Blank ELSE g.slot[i]
<1> DEFINE f == Blanked(g, from, to)
<1>1. /\ h.kind = g.kind /\ h.extent = g.extent /\ h.size = g.size
      /\ h.capacity = g.capacity /\ h.slot = f
  BY Fields DEF InitElems
<1>2. f = [i \in 0..(g.extent - 1) |->
            IF from <= i /\ i < to THEN Blank ELSE g.slot[i]]
  BY DEF Blanked
<1>3. f = [i \in 0..(g.extent - 1) |-> f[i]]
  BY <1>2
<1>4. \A i \in 0..(g.extent - 1) :
         f[i] = IF from <= i /\ i < to THEN Blank ELSE g.slot[i]
  BY <1>2
<1> HIDE DEF f
<1> QED  BY <1>1, <1>3, <1>4 DEF Solid

\* Any size within the block will do, if there is a capacity or no element.
LEMMA SizeKeeps ==
  ASSUME NEW g, Solid(g), NEW n \in Nat, n <= g.extent, g.capacity = 0 => n = 0,
         NEW h, h = WithSize(g, n)
  PROVE  /\ Solid(h) /\ h.kind = g.kind /\ h.size = n /\ h.slot = g.slot
         /\ h.extent = g.extent /\ h.capacity = g.capacity
<1>1. /\ h.kind = g.kind /\ h.extent = g.extent /\ h.size = n
      /\ h.capacity = g.capacity /\ h.slot = g.slot
  BY Fields DEF WithSize
<1> QED  BY <1>1 DEF Solid

LEMMA WriteKeeps ==
  ASSUME NEW g, Solid(g), NEW i \in 0..(g.size - 1), NEW c,
         NEW h, h = Written(g, i, c)
  PROVE  /\ Solid(h) /\ h.kind = g.kind /\ h.size = g.size
         /\ h.slot[i] = c
         /\ \A j \in 0..(g.size - 1) : j # i => h.slot[j] = g.slot[j]
<1> DEFINE f == [g.slot EXCEPT ![i] = c]
<1>1. /\ h.kind = g.kind /\ h.extent = g.extent /\ h.size = g.size
      /\ h.capacity = g.capacity /\ h.slot = f
  BY Fields DEF Written
<1>2. i \in 0..(g.extent - 1) /\ g.slot = [j \in 0..(g.extent - 1) |-> g.slot[j]]
  BY DEF Solid
<1>3. f = [j \in 0..(g.extent - 1) |-> f[j]] /\ f[i] = c
  BY <1>2
<1>4. \A j \in 0..(g.size - 1) : j # i => f[j] = g.slot[j]
  BY <1>2 DEF Solid
<1> HIDE DEF f
<1> QED  BY <1>1, <1>3, <1>4 DEF Solid

-----------------------------------------------------------------------------
(***************************************************************************)
(* gen_resize keeps the elements that stay, and makes new ones null in a   *)
(* mixed array.                                                            *)
(***************************************************************************)
KeepsItems(g, h) ==
    /\ Solid(h)
    /\ h.kind = g.kind
    /\ \A i \in 0..(h.size - 1) :
          /\ i < g.size => h.slot[i] = g.slot[i]
          /\ i >= g.size /\ Ctdt(g) => h.slot[i] = Blank

LEMMA GrownKeeps ==
  ASSUME NEW g, Solid(g), NEW n \in Nat, n > g.size
  PROVE  KeepsItems(g, Grown(g, n)) /\ Grown(g, n).size = n
<1> DEFINE h == IF n > g.capacity THEN PcaReserve(g, NextCapMark(n)) ELSE g
           k == IF Ctdt(g) THEN InitElems(h, g.size, n) ELSE h
<1>1. g.size \in Nat /\ g.capacity \in Nat /\ g.size <= g.extent
  BY DEF Solid
<1>2. /\ Solid(h) /\ h.kind = g.kind /\ h.extent >= n
      /\ h.capacity # 0
      /\ \A i \in 0..(g.size - 1) : h.slot[i] = g.slot[i]
  <2>1. CASE n > g.capacity
    <3>1. NextCapMark(n) \in Nat /\ NextCapMark(n) >= n
      BY <1>1, NextCapMarkEnough
    <3>2. h = PcaReserve(g, NextCapMark(n))
      BY <2>1
    <3> HIDE DEF h
    <3>3. /\ Solid(h) /\ h.kind = g.kind /\ h.extent >= NextCapMark(n)
          /\ h.capacity = h.extent
          /\ \A i \in 0..(g.size - 1) : h.slot[i] = g.slot[i]
      <4>1. Reserved(g, NextCapMark(n), h)
        BY <3>1, <3>2, ReserveKeeps
      <4> QED  BY <4>1 DEF Reserved
    <3>4. h.extent \in Nat
      BY <3>3 DEF Solid
    <3> QED  BY <3>1, <3>3, <3>4, <1>1
  <2>2. CASE ~ (n > g.capacity)
    <3>1. h = g
      BY <2>2
    <3> HIDE DEF h
    <3>2. n <= g.extent /\ g.extent \in Nat /\ g.capacity # 0
      BY <2>2, <1>1 DEF Solid
    <3> QED  BY <3>1, <3>2
  <2> QED  BY <2>1, <2>2
<1> HIDE DEF h
<1>3. /\ Solid(k) /\ k.kind = g.kind /\ k.extent >= n /\ k.capacity # 0
      /\ \A i \in 0..(n - 1) :
            /\ i < g.size => k.slot[i] = g.slot[i]
            /\ i >= g.size /\ Ctdt(g) => k.slot[i] = Blank
  <2>1. CASE Ctdt(g)
    <3>1. k = InitElems(h, g.size, n)
      BY <2>1
    <3> HIDE DEF k
    <3>2. /\ Solid(k) /\ k.kind = h.kind /\ k.extent = h.extent
          /\ k.capacity = h.capacity
          /\ \A i \in 0..(h.extent - 1) :
                k.slot[i] = IF g.size <= i /\ i < n THEN Blank ELSE h.slot[i]
      <4>1. Solid(h) /\ g.size \in Int /\ n \in Int
        BY <1>1, <1>2
      <4> QED  BY <3>1, <4>1, InitKeeps
    <3>3. h.extent \in Nat
      BY <1>2 DEF Solid
    <3> QED  BY <1>1, <1>2, <3>2, <3>3
  <2>2. CASE ~ Ctdt(g)
    <3>1. k = h
      BY <2>2
    <3> HIDE DEF k
    <3> QED  BY <2>2, <3>1, <1>1, <1>2
  <2> QED  BY <2>1, <2>2
<1>4. Grown(g, n) = WithSize(k, n)
  BY DEF Grown, h
<1> HIDE DEF k
<1>5. /\ Solid(Grown(g, n)) /\ Grown(g, n).kind = k.kind
      /\ Grown(g, n).size = n /\ Grown(g, n).slot = k.slot
  BY <1>3, <1>4, SizeKeeps
<1> QED  BY <1>3, <1>5 DEF KeepsItems

LEMMA EmptiedKeeps ==
  ASSUME NEW g, Solid(g)
  PROVE  /\ KeepsItems(g, Emptied(g))
         /\ Emptied(g).size = IF Ctdt(g) THEN 0 ELSE g.size
<1> DEFINE h == IF Ctdt(g) THEN WithSize(InitElems(g, 0, g.size), 0) ELSE g
<1>1. g.size \in Nat /\ g.extent \in Nat
  BY DEF Solid
<1>2. /\ Solid(h) /\ h.kind = g.kind
      /\ h.size = IF Ctdt(g) THEN 0 ELSE g.size
      /\ ~ Ctdt(g) => h = g
  <2>1. CASE Ctdt(g)
    <3> DEFINE k == InitElems(g, 0, g.size)
    <3>1. Solid(k) /\ k.kind = g.kind /\ k.extent = g.extent
      BY <1>1, InitKeeps
    <3>2. h = WithSize(k, 0)
      BY <2>1
    <3> HIDE DEF h, k
    <3>3. Solid(h) /\ h.kind = k.kind /\ h.size = 0
      BY <1>1, <3>1, <3>2, SizeKeeps
    <3> QED  BY <2>1, <3>1, <3>3
  <2>2. CASE ~ Ctdt(g)
    BY <2>2
  <2> QED  BY <2>1, <2>2
<1>3. Emptied(g) = PcaReserve(h, 0)
  BY DEF Emptied
<1> HIDE DEF h
<1>4. /\ Solid(Emptied(g)) /\ Emptied(g).kind = h.kind
      /\ Emptied(g).size = h.size
      /\ \A i \in 0..(h.size - 1) : Emptied(g).slot[i] = h.slot[i]
  BY <1>2, <1>3, ReserveKeeps DEF Reserved
<1> QED  BY <1>1, <1>2, <1>4 DEF KeepsItems

LEMMA ShrunkKeeps ==
  ASSUME NEW g, Solid(g), NEW n \in Nat, n > 0, n < g.size
  PROVE  KeepsItems(g, Shrunk(g, n)) /\ Shrunk(g, n).size = n
<1> DEFINE h == IF Ctdt(g) THEN InitElems(g, n, g.size) ELSE g
<1>1. /\ g.size \in Nat /\ g.extent \in Nat /\ g.size <= g.extent
      /\ g.capacity # 0
  BY DEF Solid
<1>2. /\ Solid(h) /\ h.kind = g.kind /\ h.extent = g.extent
      /\ h.capacity = g.capacity
      /\ \A i \in 0..(n - 1) : h.slot[i] = g.slot[i]
  <2>1. CASE Ctdt(g)
    <3>1. h = InitElems(g, n, g.size)
      BY <2>1
    <3> HIDE DEF h
    <3>2. /\ Solid(h) /\ h.kind = g.kind /\ h.extent = g.extent
          /\ h.capacity = g.capacity
          /\ \A i \in 0..(g.extent - 1) :
                h.slot[i] = IF n <= i /\ i < g.size THEN Blank ELSE g.slot[i]
      BY <1>1, <3>1, InitKeeps
    <3> QED  BY <1>1, <3>2
  <2>2. CASE ~ Ctdt(g)
    <3>1. h = g
      BY <2>2
    <3> HIDE DEF h
    <3> QED  BY <3>1
  <2> QED  BY <2>1, <2>2
<1>3. Shrunk(g, n) = WithSize(h, n)
  BY DEF Shrunk
<1> HIDE DEF h
<1>4. /\ Solid(Shrunk(g, n)) /\ Shrunk(g, n).kind = h.kind
      /\ Shrunk(g, n).size = n /\ Shrunk(g, n).slot = h.slot
  BY <1>1, <1>2, <1>3, SizeKeeps
<1> QED  BY <1>1, <1>2, <1>4 DEF KeepsItems

LEMMA ResizeKeeps ==
  ASSUME NEW g, Solid(g), NEW n \in Nat
  PROVE  /\ KeepsItems(g, GenResize(g, n))
         /\ GenResize(g, n).size = IF n = 0 /\ ~ Ctdt(g) THEN g.size ELSE n
<1>1. g.size \in Nat
  BY DEF Solid
<1>2. CASE n = g.size
  <2>1. GenResize(g, n) = g
    BY <1>2 DEF GenResize
  <2> QED  BY <1>1, <1>2, <2>1 DEF KeepsItems
<1>3. CASE n > g.size
  <2>1. GenResize(g, n) = Grown(g, n)
    BY <1>1, <1>3 DEF GenResize
  <2> QED  BY <1>1, <1>3, <2>1, GrownKeeps
<1>4. CASE n < g.size /\ n = 0
  <2>1. GenResize(g, n) = Emptied(g)
    BY <1>1, <1>4 DEF GenResize
  <2> QED  BY <1>4, <2>1, EmptiedKeeps
<1>5. CASE n < g.size /\ n > 0
  <2>1. GenResize(g, n) = Shrunk(g, n)
    BY <1>1, <1>5 DEF GenResize
  <2> QED  BY <1>5, <2>1, ShrunkKeeps
<1> QED  BY <1>1, <1>2, <1>3, <1>4, <1>5

-----------------------------------------------------------------------------
(***************************************************************************)
(* What the elements read as.                                              *)
(***************************************************************************)
CellReads(t, c) ==
    IF c = Garbage THEN Unknown ELSE IF c = Blank THEN Initial(t) ELSE Loaded(t, c)

LEMMA ElementReads ==
  ASSUME NEW t, NEW g, Solid(g), NEW i \in 0..(g.size - 1)
  PROVE  Element(t, g, i) = CellReads(t, g.slot[i])
<1>1. i \in 0..(g.extent - 1) /\ g.slot = [j \in 0..(g.extent - 1) |-> g.slot[j]]
  BY DEF Solid
<1>2. i \in DOMAIN g.slot
  BY <1>1
<1> QED  BY <1>2 DEF Element, CellReads

\* A list of the length of the array.
IsList(l, g) == l = [i \in 0..(g.size - 1) |-> l[i]]

\* Writing a cell that reads as the value, and noting the value.
LEMMA AgreeWritten ==
  ASSUME NEW t, NEW g, Solid(g), NEW l, IsList(l, g), Agree(t, g, l),
         NEW i \in 0..(g.size - 1), NEW c, NEW v, Gives(t, CellReads(t, c), v),
         NEW h, h = Written(g, i, c), NEW m, m = Noted(l, i, v)
  PROVE  /\ Solid(h) /\ h.kind = g.kind /\ h.size = g.size
         /\ IsList(m, h) /\ Agree(t, h, m)
<1>1. /\ Solid(h) /\ h.kind = g.kind /\ h.size = g.size /\ h.slot[i] = c
      /\ \A j \in 0..(g.size - 1) : j # i => h.slot[j] = g.slot[j]
  BY WriteKeeps
<1>2. /\ m = [j \in 0..(g.size - 1) |-> m[j]] /\ m[i] = v
      /\ \A j \in 0..(g.size - 1) : j # i => m[j] = l[j]
  BY DEF IsList, Noted
<1>3. ASSUME NEW j \in 0..(g.size - 1), m[j] # Unknown
      PROVE  Gives(t, Element(t, h, j), m[j])
  <2>1. Element(t, h, j) = CellReads(t, h.slot[j])
    BY <1>1, ElementReads
  <2>2. CASE j = i
    BY <1>1, <1>2, <2>1, <2>2
  <2>3. CASE j # i
    <3>1. Element(t, h, j) = Element(t, g, j) /\ m[j] = l[j]
      BY <1>1, <1>2, <2>1, <2>3, ElementReads
    <3> QED  BY <1>3, <3>1 DEF Agree
  <2> QED  BY <2>2, <2>3
<1> QED  BY <1>1, <1>2, <1>3 DEF IsList, Agree

\* Resizing: what stays agrees, what is new is null or not known.
LEMMA AgreeResized ==
  ASSUME NEW t, Solid(arr), Agree(t, arr, list), NEW h, KeepsItems(arr, h),
         NEW fresh,
         fresh = Unknown \/ (Ctdt(arr) /\ t # "float" /\ fresh = Initial(t)),
         NEW m, m = ListOf(h.size, fresh)
  PROVE  IsList(m, h) /\ Agree(t, h, m)
<1>1. Solid(h) /\ arr.size \in Nat
  BY DEF KeepsItems, Solid
<1>2. /\ m = [i \in 0..(h.size - 1) |-> m[i]]
      /\ \A i \in 0..(h.size - 1) : m[i] = IF i < arr.size THEN list[i] ELSE fresh
  BY DEF ListOf
<1>3. ASSUME NEW i \in 0..(h.size - 1), m[i] # Unknown
      PROVE  Gives(t, Element(t, h, i), m[i])
  <2>1. Element(t, h, i) = CellReads(t, h.slot[i])
    BY <1>1, ElementReads
  <2>2. CASE i < arr.size
    <3>1. i \in 0..(arr.size - 1) /\ h.slot[i] = arr.slot[i] /\ m[i] = list[i]
      BY <1>1, <1>2, <2>2 DEF KeepsItems
    <3>2. Element(t, h, i) = Element(t, arr, i)
      BY <2>1, <3>1, ElementReads
    <3> QED  BY <1>3, <3>1, <3>2 DEF Agree
  <2>3. CASE ~ (i < arr.size)
    <3>1. m[i] = fresh
      BY <1>2, <2>3
    <3>2. Ctdt(arr) /\ t # "float" /\ fresh = Initial(t)
      BY <1>3, <3>1
    <3>3. h.slot[i] = Blank
      BY <1>1, <2>3, <3>2 DEF KeepsItems
    <3>4. Blank # Garbage
      BY SlotAssumption
    <3> QED  BY <2>1, <3>1, <3>2, <3>3, <3>4 DEF CellReads, Gives
  <2> QED  BY <2>2, <2>3
<1> QED  BY <1>2, <1>3 DEF IsList, Agree

-----------------------------------------------------------------------------
(***************************************************************************)
(* The invariant.  A destructor that runs leaves a mixed array and the     *)
(* element it was called for; the value on its way into an element is one  *)
(* that a script has.                                                      *)
(***************************************************************************)
CallInv ==
    /\ call = [op |-> call.op, off |-> call.off, val |-> call.val, at |-> call.at]
    /\ call.off.n \in Int
    /\ call.op \in {"write", "append"} => call.val \in Passed(type)

ArrayInv ==
    /\ type \in Type
    /\ Solid(arr)
    /\ Ctdt(arr) <=> type = "mixed"

PendingInv ==
    /\ pending = [at |-> pending.at, val |-> pending.val, stale |-> pending.stale]
    /\ ~ broken /\ pending # NoPending =>
          /\ type = "mixed"
          /\ pending.at \in 0..(arr.size - 1)
          /\ pending.val \in Passed("mixed") \cup {Initial("mixed")}

Inv ==
    /\ CallInv
    /\ ArrayInv
    /\ IsList(list, arr)
    /\ PendingInv
    /\ ReadsBack

\* An access that only reads, and everything that an iterator does.
LEMMA Quiet ==
  ASSUME Inv, ~ broken, UNCHANGED <<arr, type, list, pending>>, CallInv'
  PROVE  Inv'
BY DEF Inv, ArrayInv, IsList, PendingInv, ReadsBack

LEMMA IndexInside ==
  ASSUME Inv, InRange(Index)
  PROVE  Index \in 0..(arr.size - 1)
<1>1. Index \in Int
  BY DEF Inv, CallInv, Index, ToLong
<1>2. arr.size \in Nat
  BY DEF Inv, ArrayInv, Solid
<1> QED  BY <1>1, <1>2 DEF InRange

LEMMA NoCallInv ==
  ASSUME call' = NoCall
  PROVE  CallInv'
BY DEF CallInv, NoCall, Void, Special

\* A value goes into an element.
LEMMA ElementWritten ==
  ASSUME Inv, ~ broken, NEW i \in 0..(arr.size - 1), NEW c, NEW v,
         Gives(type, CellReads(type, c), v),
         arr' = Written(arr, i, c), list' = Noted(list, i, v),
         type' = type, CallInv',
         pending' = pending \/ pending' = NoPending
  PROVE  Inv'
<1>1. /\ Solid(arr') /\ arr'.kind = arr.kind /\ arr'.size = arr.size
      /\ IsList(list', arr') /\ Agree(type, arr', list')
  BY AgreeWritten DEF Inv, ArrayInv, ReadsBack
<1>2. ArrayInv'
  BY <1>1 DEF Inv, ArrayInv, Ctdt
<1>3. PendingInv'
  BY <1>1 DEF Inv, PendingInv, NoPending
<1> QED  BY <1>1, <1>2, <1>3 DEF Inv, ReadsBack, IsList

\* The values that go into the elements of a mixed array read as themselves.
LEMMA MixedReads ==
  ASSUME NEW v \in Passed("mixed") \cup {Initial("mixed")}
  PROVE  /\ Gives("mixed", CellReads("mixed", v), v)
         /\ Gives("mixed", CellReads("mixed", Blank), Initial("mixed"))
<1>1. v # Blank /\ v # Garbage
  BY AccessAssumption DEF IsValue, Type
<1>2. Loaded("mixed", v) = v
  BY DEF Loaded, LongType, SignedLong, RealType
<1>3. Blank # Garbage
  BY SlotAssumption
<1> QED  BY <1>1, <1>2, <1>3 DEF Gives, CellReads

\* A value released and another in its place: both, or the first and the
\* destructor.
LEMMA Replaced ==
  ASSUME Inv, ~ broken, type = "mixed", NEW i \in 0..(arr.size - 1),
         NEW c, NEW v \in Passed("mixed") \cup {Initial("mixed")},
         Gives(type, CellReads(type, c), v), Replace(i, c, v), type' = type
  PROVE  Inv'
<1>1. CASE /\ pending' = [at |-> i, val |-> v, stale |-> FALSE]
           /\ call' = NoCall
           /\ UNCHANGED <<arr, list, broken, answer>>
  <2>1. CallInv'
    BY <1>1, NoCallInv
  <2>2. PendingInv'
    BY <1>1 DEF PendingInv
  <2>3. ArrayInv' /\ IsList(list, arr)' /\ ReadsBack'
    BY <1>1 DEF Inv, ArrayInv, IsList, ReadsBack
  <2> QED  BY <2>1, <2>2, <2>3 DEF Inv
<1>2. CASE /\ Answered(Void)
           /\ arr' = Written(arr, i, c)
           /\ list' = Noted(list, i, v)
           /\ UNCHANGED pending
  <2>1. CallInv'
    BY <1>2, NoCallInv DEF Answered
  <2>2. arr' = Written(arr, i, c) /\ list' = Noted(list, i, v) /\ pending' = pending
    BY <1>2
  <2> QED  BY <2>1, <2>2, ElementWritten
<1> QED  BY <1>1, <1>2 DEF Replace

LEMMA WriteInv ==
  ASSUME Inv, ~ broken, CharSigned, WriteDimension
  PROVE  Inv'
<1>1. type' = type
  BY DEF WriteDimension
<1>2. CASE ~ InRange(Index) \/ SetError(type, call.val) # "OK"
  <2>1. call' = NoCall /\ UNCHANGED <<arr, type, list, pending>>
    BY <1>2 DEF WriteDimension, Answered
  <2> QED  BY <2>1, NoCallInv, Quiet
<1>3. CASE InRange(Index) /\ SetError(type, call.val) = "OK"
  <2>1. call.val \in Passed(type)
    BY DEF Inv, CallInv, WriteDimension, InHandler
  <2>2. type \in Type
    BY DEF Inv, ArrayInv
  <2>3. Index \in 0..(arr.size - 1)
    BY <1>3, IndexInside
  <2>4. CASE type = "mixed"
    <3>1. Replace(Index, call.val, call.val)
      BY <1>3, <2>4 DEF WriteDimension
    <3>2. Gives("mixed", CellReads("mixed", call.val), call.val)
      BY <2>1, <2>4, MixedReads
    <3> QED  BY <1>1, <2>1, <2>3, <2>4, <3>1, <3>2, Replaced
  <2>5. CASE type # "mixed"
    <3> DEFINE c == Stored(type, call.val)
    <3>1. /\ call' = NoCall
          /\ arr' = Written(arr, Index, c)
          /\ list' = Noted(list, Index, call.val)
          /\ pending' = pending
      BY <1>3, <2>5 DEF WriteDimension, Answered
    <3>2. IsValue(call.val)
      BY <2>1, <2>2, AccessAssumption
    <3>3. Gives(type, CellReads(type, c), call.val)
      BY <1>3, <2>2, <3>2, AcceptedGives DEF CellReads
    <3> HIDE DEF c
    <3> QED  BY <1>1, <2>3, <3>1, <3>3, NoCallInv, ElementWritten
  <2> QED  BY <2>4, <2>5
<1> QED  BY <1>2, <1>3

LEMMA UnsetInv ==
  ASSUME Inv, ~ broken, UnsetDimension
  PROVE  Inv'
<1>1. type' = type
  BY DEF UnsetDimension
<1>2. CASE InRange(Index) /\ type = "mixed"
  <2>1. Replace(Index, Blank, Initial("mixed"))
    BY <1>2 DEF UnsetDimension
  <2>2. Gives("mixed", CellReads("mixed", Blank), Initial("mixed"))
    BY MixedReads
  <2> QED  BY <1>1, <1>2, <2>1, <2>2, IndexInside, Replaced
<1>3. CASE ~ (InRange(Index) /\ type = "mixed")
  <2>1. call' = NoCall /\ UNCHANGED <<arr, type, list, pending>>
    BY <1>3 DEF UnsetDimension, Answered
  <2> QED  BY <2>1, NoCallInv, Quiet
<1> QED  BY <1>2, <1>3

\* The element that the destructor was called for is still there, unless the
\* block moved.
LEMMA DestructorInv ==
  ASSUME Inv, ~ broken, DestructorEnds
  PROVE  Inv'
<1>1. type' = type /\ CallInv' /\ pending' = NoPending
  BY NoCallInv DEF DestructorEnds
<1>2. CASE pending.stale
  <2>1. broken' = TRUE /\ UNCHANGED <<arr, list>>
    BY <1>2 DEF DestructorEnds
  <2>2. ArrayInv' /\ IsList(list, arr)'
    BY <1>1, <2>1 DEF Inv, ArrayInv, IsList
  <2>3. PendingInv' /\ ReadsBack'
    BY <1>1, <2>1 DEF PendingInv, NoPending, ReadsBack
  <2> QED  BY <1>1, <2>2, <2>3 DEF Inv
<1>3. CASE ~ pending.stale
  <2>1. /\ type = "mixed"
        /\ pending.at \in 0..(arr.size - 1)
        /\ pending.val \in Passed("mixed") \cup {Initial("mixed")}
    BY DEF DestructorEnds, Inv, PendingInv
  <2>2. Gives(type, CellReads(type, pending.val), pending.val)
    BY <2>1, MixedReads
  <2>3. /\ arr' = Written(arr, pending.at, pending.val)
        /\ list' = Noted(list, pending.at, pending.val)
    BY <1>3 DEF DestructorEnds
  <2> QED  BY <1>1, <2>1, <2>2, <2>3, ElementWritten
<1> QED  BY <1>2, <1>3

-----------------------------------------------------------------------------
(***************************************************************************)
(* Growing and shrinking.                                                  *)
(***************************************************************************)

\* What Moves leaves of a pending assignment.
LEMMA MovesKeeps ==
  ASSUME Inv, ~ broken, NEW g, NEW q, q = Moves(g)
  PROVE  /\ q = [at |-> q.at, val |-> q.val, stale |-> q.stale]
         /\ q.at = pending.at /\ q.val = pending.val
         /\ q # NoPending =>
               /\ pending # NoPending
               /\ type = "mixed"
               /\ pending.at \in 0..(arr.size - 1)
               /\ pending.val \in Passed("mixed") \cup {Initial("mixed")}
<1>1. pending = [at |-> pending.at, val |-> pending.val, stale |-> pending.stale]
  BY DEF Inv, PendingInv
<1>2. /\ q = [at |-> q.at, val |-> q.val, stale |-> q.stale]
      /\ q.at = pending.at /\ q.val = pending.val
  BY <1>1 DEF Moves
<1>3. ASSUME pending = NoPending PROVE q = NoPending
  <2>1. q = [pending EXCEPT !.stale = @ \/ FALSE]
    BY <1>3 DEF Moves
  <2>2. q.stale = FALSE /\ q.at = NoPending.at /\ q.val = NoPending.val
    BY <1>2, <1>3, <2>1 DEF NoPending
  <2> QED  BY <1>2, <2>2 DEF NoPending
<1> QED  BY <1>2, <1>3 DEF Inv, PendingInv

\* The last element of a longer list is noted, or was put there at once.
LEMMA LastNoted ==
  ASSUME NEW n \in Nat, n = arr.size, NEW v
  PROVE  ListOf(n + 1, v) = Noted(ListOf(n + 1, Unknown), n, v)
<1> DEFINE f == [i \in 0..n |-> IF i < n THEN list[i] ELSE v]
           g == [i \in 0..n |-> IF i < n THEN list[i] ELSE Unknown]
<1>1. ListOf(n + 1, v) = f /\ ListOf(n + 1, Unknown) = g
  BY DEF ListOf
<1>2. \A i \in 0..n : f[i] = IF i = n THEN v ELSE g[i]
  OBVIOUS
<1>3. f = [i \in 0..n |-> f[i]] /\ g = [i \in 0..n |-> g[i]]
  OBVIOUS
<1> HIDE DEF f, g
<1>4. f = [g EXCEPT ![n] = v]
  BY <1>2, <1>3
<1> QED  BY <1>1, <1>4 DEF Noted

LEMMA AppendInv ==
  ASSUME Inv, ~ broken, CharSigned, WriteAppended
  PROVE  Inv'
<1> DEFINE n == arr.size
           h == GenResize(arr, n + 1)
           m == ListOf(h.size, Unknown)
           c == Stored(type, call.val)
<1>1. type \in Type /\ Solid(arr) /\ n \in Nat /\ (Ctdt(arr) <=> type = "mixed")
  BY DEF Inv, ArrayInv, Solid
<1>2. call.val \in Passed(type) /\ IsValue(call.val)
  BY <1>1, AccessAssumption DEF Inv, CallInv, WriteAppended, InHandler
<1>3. CallInv' /\ type' = type /\ broken' = broken /\ pending' = Moves(h)
  BY NoCallInv DEF WriteAppended, Answered
<1>4. KeepsItems(arr, h) /\ h.size = n + 1
  BY <1>1, ResizeKeeps
<1>5. Agree(type, arr, list)
  BY DEF Inv, ReadsBack
<1>6. CASE SetError(type, call.val) = "OK"
  <2>1. arr' = Written(h, n, c) /\ list' = ListOf(h.size, call.val)
    BY <1>6 DEF WriteAppended
  <2>2. list' = Noted(m, n, call.val)
    BY <1>1, <1>4, <2>1, LastNoted
  <2>3. Gives(type, CellReads(type, c), call.val)
    BY <1>1, <1>2, <1>6, AcceptedGives DEF CellReads
  <2> HIDE DEF h, m, c
  <2>4. IsList(m, h) /\ Agree(type, h, m)
    BY <1>1, <1>4, <1>5, AgreeResized DEF m
  <2>5. Solid(h) /\ h.kind = arr.kind /\ n \in 0..(h.size - 1)
    BY <1>1, <1>4 DEF KeepsItems
  <2>6. /\ Solid(arr') /\ arr'.kind = h.kind /\ arr'.size = h.size
        /\ IsList(list', arr') /\ Agree(type, arr', list')
    BY <2>1, <2>2, <2>3, <2>4, <2>5, AgreeWritten
  <2>7. ArrayInv'
    BY <1>1, <1>3, <2>5, <2>6 DEF ArrayInv, Ctdt
  <2>8. PendingInv'
    BY <1>1, <1>3, <1>4, <2>6, MovesKeeps DEF PendingInv
  <2> QED  BY <1>3, <2>6, <2>7, <2>8 DEF Inv, ReadsBack, IsList
<1>7. CASE SetError(type, call.val) # "OK"
  <2>1. arr' = h /\ list' = m
    BY <1>7 DEF WriteAppended
  <2> HIDE DEF h, m, c
  <2>2. IsList(m, h) /\ Agree(type, h, m)
    BY <1>1, <1>4, <1>5, AgreeResized DEF m
  <2>3. ArrayInv'
    BY <1>1, <1>3, <1>4, <2>1 DEF KeepsItems, ArrayInv, Ctdt
  <2>4. PendingInv'
    BY <1>1, <1>3, <1>4, <2>1, MovesKeeps DEF PendingInv
  <2> QED  BY <1>3, <2>1, <2>2, <2>3, <2>4 DEF Inv, ReadsBack, IsList
<1> QED  BY <1>6, <1>7

LEMMA ResizeInv ==
  ASSUME Inv, ~ broken, NEW n \in Nat, Resize(n)
  PROVE  Inv'
<1> DEFINE h == GenResize(arr, n)
           fresh == IF Ctdt(arr) THEN Initial(type) ELSE Unknown
<1>1. Solid(arr) /\ arr.size \in Nat /\ (Ctdt(arr) <=> type = "mixed")
      /\ type \in Type
  BY DEF Inv, ArrayInv, Solid
<1>2. /\ CallInv' /\ type' = type /\ arr' = h /\ list' = ListOf(h.size, fresh)
      /\ pending' = Moves(h)
      /\ broken' = \E i \in h.size..(arr.size - 1) : Ctdt(arr) /\ Again(i)
  <2>1. call' = NoCall
    BY DEF Resize
  <2> QED  BY <2>1, NoCallInv DEF Resize
<1>3. KeepsItems(arr, h) /\ h.size \in Nat
  BY <1>1, ResizeKeeps
<1>4. Agree(type, arr, list)
  BY DEF Inv, ReadsBack
<1>5. fresh = Unknown \/ (Ctdt(arr) /\ type # "float" /\ fresh = Initial(type))
  BY <1>1
<1> HIDE DEF h, fresh
<1>6. IsList(list', h) /\ Agree(type, h, list')
  BY <1>1, <1>2, <1>3, <1>4, <1>5, AgreeResized
<1>7. ArrayInv'
  BY <1>1, <1>2, <1>3 DEF KeepsItems, ArrayInv, Ctdt
<1>8. PendingInv'
  <2>1. ASSUME ~ broken', pending' # NoPending
        PROVE  pending.at \in 0..(h.size - 1)
    <3>1. /\ pending # NoPending /\ type = "mixed"
          /\ pending.at \in 0..(arr.size - 1)
      BY <1>2, <2>1, MovesKeeps
    <3>2. ~ (pending.at \in h.size..(arr.size - 1))
      BY <1>1, <1>2, <2>1, <3>1 DEF Again
    <3> QED  BY <1>1, <1>3, <3>1, <3>2
  <2> QED  BY <1>2, <2>1, MovesKeeps DEF PendingInv
<1> QED  BY <1>2, <1>6, <1>7, <1>8 DEF Inv, ReadsBack, IsList

-----------------------------------------------------------------------------
(***************************************************************************)
(* The steps that leave the elements alone.                                *)
(***************************************************************************)
LEMMA AskInv ==
  ASSUME Inv, ~ broken, Asking
  PROVE  Inv'
<1>1. UNCHANGED <<arr, type, list, pending>>
  BY DEF Asking, Ask
<1>2. CallInv'
  <2>1. Void.n \in Int
    BY DEF Void, Special
  <2>2. \A off \in Offsets : off.n \in Int
    BY AccessAssumption
  <2>3. ASSUME NEW off, off.n \in Int, NEW op, NEW val, Ask(op, off, val),
               op \in {"write", "append"} => val \in Passed(type)
        PROVE  CallInv'
    BY <2>3 DEF Ask, CallInv
  <2>4. CASE \E op \in {"read", "isread", "isset", "unset"}, off \in Offsets :
               Ask(op, off, Void)
    <3>1. PICK op \in {"read", "isread", "isset", "unset"}, off \in Offsets :
             Ask(op, off, Void)
      BY <2>4
    <3> QED  BY <2>2, <2>3, <3>1
  <2>5. CASE \E off \in Offsets, val \in Passed(type) : Ask("write", off, val)
    BY <2>2, <2>3, <2>5
  <2>6. CASE \E val \in Passed(type) : Ask("append", Void, val)
    BY <2>1, <2>3, <2>6
  <2>7. CASE Ask("count", Void, Void)
    BY <2>1, <2>3, <2>7
  <2> QED  BY <2>4, <2>5, <2>6, <2>7 DEF Asking
<1> QED  BY <1>1, <1>2, Quiet

LEMMA DispatchInv ==
  ASSUME Inv, ~ broken, ToMethod \/ OwnMethod \/ ParentMethod
  PROVE  Inv'
<1>1. UNCHANGED <<arr, type, list, pending>>
  BY DEF ToMethod, OwnMethod, ParentMethod
<1>2. CallInv'
  <2>1. CASE ToMethod
    <3>1. Special("NULL").n \in Int
      BY DEF Special
    <3>2. CASE call.op = "append"
      <4>1. call' = [op |-> "write", off |-> Special("NULL"), val |-> call.val,
                     at |-> "method"]
        BY <2>1, <3>2 DEF ToMethod, Inv, CallInv
      <4> QED  BY <1>1, <3>1, <3>2, <4>1 DEF Inv, CallInv
    <3>3. CASE call.op # "append"
      BY <1>1, <2>1, <3>3 DEF ToMethod, Inv, CallInv
    <3> QED  BY <3>2, <3>3
  <2>2. CASE call' = NoCall
    BY <2>2, NoCallInv
  <2>3. CASE OwnMethod /\ call' # NoCall
    BY <1>1, <2>3 DEF OwnMethod, Answered, Inv, CallInv
  <2>4. CASE ParentMethod /\ call' # NoCall
    BY <1>1, <2>4 DEF ParentMethod, Answered, Inv, CallInv
  <2> QED  BY <2>1, <2>2, <2>3, <2>4
<1> QED  BY <1>1, <1>2, Quiet

LEMMA HandlerInv ==
  ASSUME Inv, ~ broken,
         ReadDimension \/ IsReadDimension \/ HasDimension \/ CountElements
  PROVE  Inv'
<1>1. UNCHANGED <<arr, type, list, pending>>
  BY DEF ReadDimension, IsReadDimension, HasDimension, CountElements
<1>2. CallInv'
  <2>1. CASE call' = NoCall
    BY <2>1, NoCallInv
  <2>2. CASE call' # NoCall
    BY <2>2 DEF Inv, ReadDimension, IsReadDimension, HasDimension,
                CountElements, Answered, CallInv
  <2> QED  BY <2>1, <2>2
<1> QED  BY <1>1, <1>2, Quiet

LEMMA IteratorInv ==
  ASSUME Inv, ~ broken,
         \/ ToArray \/ GetIterator \/ ItValid \/ ItNext \/ ItRewind
         \/ ItCurrent \/ ItKey
  PROVE  Inv'
<1>1. UNCHANGED <<arr, type, list, pending>> /\ call' = call
  BY DEF ToArray, GetIterator, ItValid, ItNext, ItRewind, ItCurrent, ItKey,
         Iterator
<1> QED  BY <1>1, Quiet DEF Inv, CallInv

-----------------------------------------------------------------------------
LEMMA InitInv == Init => Inv
<1> SUFFICES ASSUME Init PROVE Inv
  OBVIOUS
<1> DEFINE k == IF type = "mixed" THEN "mixed" ELSE "packed"
           e == EtypeCtor(k)
           fresh == IF type = "mixed" THEN Initial(type) ELSE Unknown
<1>1. PICK n \in 0..MaxSize :
         /\ arr = GenResize(e, n)
         /\ list = [i \in 0..(n - 1) |-> fresh]
  BY DEF Init
<1>2. n \in Nat /\ type \in Type
  BY AccessAssumption DEF Init
<1>3. Solid(e) /\ e.kind = k /\ e.size = 0
  <2>1. /\ e.kind = k /\ e.extent = 0 /\ e.size = 0 /\ e.capacity = 0
        /\ e.slot = NoSlots
    BY Fields DEF EtypeCtor
  <2>2. NoSlots = [i \in 0..(0 - 1) |-> NoSlots[i]]
    BY DEF NoSlots
  <2>3. k \in Kind
    BY DEF Kind
  <2> QED  BY <2>1, <2>2, <2>3 DEF Solid
<1>4. Ctdt(e) <=> type = "mixed"
  BY <1>3 DEF Ctdt
<1> HIDE DEF e
<1>5. KeepsItems(e, arr) /\ arr.size = n
  <2>1. /\ KeepsItems(e, GenResize(e, n))
        /\ GenResize(e, n).size = IF n = 0 /\ ~ Ctdt(e) THEN e.size ELSE n
    BY <1>2, <1>3, ResizeKeeps
  <2> QED  BY <1>1, <1>3, <2>1
<1>6. ArrayInv
  BY <1>2, <1>3, <1>4, <1>5 DEF ArrayInv, KeepsItems, Ctdt
<1>7. list = [i \in 0..(n - 1) |-> list[i]] /\ \A i \in 0..(n - 1) : list[i] = fresh
  BY <1>1
<1> HIDE DEF fresh
<1>8. IsList(list, arr)
  BY <1>5, <1>7 DEF IsList
<1>9. Agree(type, arr, list)
  <2>1. SUFFICES ASSUME NEW i \in 0..(n - 1), list[i] # Unknown
                 PROVE  Gives(type, Element(type, arr, i), list[i])
    BY <1>5 DEF Agree
  <2>2. type = "mixed" /\ list[i] = Initial("mixed")
    BY <1>7, <2>1 DEF fresh
  <2>3. Element(type, arr, i) = CellReads(type, arr.slot[i])
    BY <1>5, <1>6, ElementReads DEF ArrayInv
  <2>4. arr.slot[i] = Blank
    BY <1>2, <1>3, <1>4, <1>5, <2>2 DEF KeepsItems
  <2> QED  BY <2>2, <2>3, <2>4, MixedReads
<1>10. CallInv /\ PendingInv
  BY DEF Init, CallInv, NoCall, Void, Special, PendingInv, NoPending
<1> QED  BY <1>6, <1>8, <1>9, <1>10 DEF Inv, ReadsBack

LEMMA NextInv ==
  ASSUME CharSigned, Inv, [Next]_vars
  PROVE  Inv'
<1>1. CASE Next
  <2>1. ~ broken
    BY <1>1 DEF Next
  <2>2. CASE Asking
    BY <2>1, <2>2, AskInv
  <2>3. CASE Answering
    <3>1. CASE ToMethod \/ OwnMethod \/ ParentMethod
      BY <2>1, <3>1, DispatchInv
    <3>2. CASE ReadDimension \/ IsReadDimension \/ HasDimension \/ CountElements
      BY <2>1, <3>2, HandlerInv
    <3>3. CASE WriteDimension
      BY <2>1, <3>3, WriteInv
    <3>4. CASE UnsetDimension
      BY <2>1, <3>4, UnsetInv
    <3>5. CASE WriteAppended
      BY <2>1, <3>5, AppendInv
    <3> QED  BY <2>3, <3>1, <3>2, <3>3, <3>4, <3>5 DEF Answering
  <2>4. CASE DestructorEnds
    BY <2>1, <2>4, DestructorInv
  <2>5. CASE \E n \in 0..MaxSize : Resize(n)
    <3>1. PICK n \in Nat : Resize(n)
      BY <2>5, AccessAssumption
    <3> QED  BY <2>1, <3>1, ResizeInv
  <2>6. CASE \/ ToArray \/ GetIterator \/ ItValid \/ ItNext \/ ItRewind
             \/ ItCurrent \/ ItKey
    BY <2>1, <2>6, IteratorInv
  <2> QED  BY <1>1, <2>2, <2>3, <2>4, <2>5, <2>6 DEF Next
<1>2. CASE UNCHANGED vars
  BY <1>2 DEF vars, Inv, CallInv, ArrayInv, IsList, PendingInv, ReadsBack
<1> QED  BY <1>1, <1>2

\* Every element of every array reads as what was last written to it, whatever
\* the script and its destructors do that is not undefined, where the
\* compiler's char is signed (the handlers of phiz_carray.c).
THEOREM AccessReads ==
  ASSUME CharSigned
  PROVE  Spec => []ReadsBack
<1>1. Inv => ReadsBack
  BY DEF Inv
<1>2. Inv /\ [Next]_vars => Inv'
  BY NextInv
<1> QED  BY <1>1, <1>2, InitInv, PTL DEF Spec

-----------------------------------------------------------------------------
(***************************************************************************)
(* The iterator: what shortens the array between valid() and the next      *)
(* fetch is resize alone, and the answer counts while it leaves the        *)
(* element in.                                                             *)
(***************************************************************************)
ItInv ==
    /\ it \in [there : BOOLEAN, current : Nat, checked : BOOLEAN]
    /\ it.checked => it.current < arr.size

LEMMA WrittenSize == \A g, i, v : Written(g, i, v).size = g.size
  BY Fields DEF Written

\* What an access and the end of a destructor do to the size.
LEMMA NeverShorter ==
  ASSUME Inv, Answering \/ DestructorEnds
  PROVE  it' = it /\ arr'.size \in Nat /\ arr'.size >= arr.size
<1>1. Solid(arr) /\ arr.size \in Nat
  BY DEF Inv, ArrayInv, Solid
<1>2. CASE \/ ToMethod \/ OwnMethod \/ ParentMethod
           \/ ReadDimension \/ IsReadDimension \/ HasDimension \/ CountElements
  <2>1. arr' = arr /\ it' = it
    BY <1>2 DEF ToMethod, OwnMethod, ParentMethod, ReadDimension,
                IsReadDimension, HasDimension, CountElements
  <2> QED  BY <1>1, <2>1
<1>3. CASE WriteDimension \/ UnsetDimension \/ DestructorEnds
  <2>1. it' = it
    BY <1>3 DEF WriteDimension, UnsetDimension, DestructorEnds
  <2>2. arr' = arr \/ \E i, v : arr' = Written(arr, i, v)
    BY <1>3, Zenon DEF WriteDimension, UnsetDimension, DestructorEnds, Replace
  <2> QED  BY <1>1, <2>1, <2>2, WrittenSize
<1>4. CASE WriteAppended
  <2> DEFINE h == GenResize(arr, arr.size + 1)
  <2>1. it' = it /\ (arr' = h \/ \E i, v : arr' = Written(h, i, v))
    BY <1>4, Zenon DEF WriteAppended
  <2>2. h.size = arr.size + 1
    BY <1>1, ResizeKeeps
  <2> HIDE DEF h
  <2> QED  BY <1>1, <2>1, <2>2, WrittenSize
<1> QED  BY <1>2, <1>3, <1>4 DEF Answering

LEMMA ItInvStep ==
  ASSUME Inv, ItInv, [Next]_vars
  PROVE  ItInv'
<1>1. arr.size \in Nat
  BY DEF Inv, ArrayInv, Solid
<1>2. CASE Answering \/ DestructorEnds
  <2>1. it' = it /\ arr'.size \in Nat /\ arr'.size >= arr.size
    BY <1>2, NeverShorter
  <2> QED  BY <1>1, <2>1 DEF ItInv
<1>3. CASE \E n \in 0..MaxSize : Resize(n)
  <2>1. PICK n \in Nat : Resize(n)
    BY <1>3
  <2>2. /\ it' = [it EXCEPT !.checked = @ /\ it.current < n]
        /\ arr' = GenResize(arr, n)
    BY <2>1 DEF Resize
  <2>3. Solid(arr)
    BY DEF Inv, ArrayInv
  <2>4. n > 0 => arr'.size = n
    BY <2>2, <2>3, ResizeKeeps
  <2>5. /\ it' \in [there : BOOLEAN, current : Nat, checked : BOOLEAN]
        /\ it'.current = it.current
        /\ it'.checked => it.current < n
    BY <2>2 DEF ItInv
  <2>6. it.current \in Nat
    BY DEF ItInv
  <2> QED  BY <2>4, <2>5, <2>6 DEF ItInv
<1>4. CASE Asking \/ ToArray \/ UNCHANGED vars
  <2>1. arr' = arr /\ it' = it
    BY <1>4 DEF Asking, Ask, ToArray, vars
  <2> QED  BY <2>1 DEF ItInv
<1>5. CASE GetIterator \/ ItNext \/ ItRewind
  <2>1. CASE GetIterator
    <3>1. it' = [there |-> TRUE, current |-> 0, checked |-> FALSE]
      BY <2>1 DEF GetIterator, Iterator
    <3> QED  BY <3>1 DEF ItInv
  <2>2. CASE ItNext
    <3>1. PICK n \in Nat : n = it.current + 1
      BY DEF ItInv
    <3>2. it' = [it EXCEPT !.current = n, !.checked = FALSE]
      BY <2>2, <3>1 DEF ItNext, Iterator
    <3> QED  BY <3>2 DEF ItInv
  <2>3. CASE ItRewind
    <3>1. it' = [it EXCEPT !.current = 0, !.checked = FALSE]
      BY <2>3 DEF ItRewind, Iterator
    <3> QED  BY <3>1 DEF ItInv
  <2> QED  BY <1>5, <2>1, <2>2, <2>3
<1>6. CASE ItValid
  <2>1. arr' = arr /\ it' = [it EXCEPT !.checked = Valid]
    BY <1>6 DEF ItValid, Iterator
  <2> QED  BY <2>1 DEF ItInv, Valid
<1>7. CASE ItCurrent \/ ItKey
  <2>1. arr' = arr /\ it' = it
    BY <1>7 DEF ItCurrent, ItKey, Iterator
  <2> QED  BY <2>1 DEF ItInv
<1> QED  BY <1>2, <1>3, <1>4, <1>5, <1>6, <1>7 DEF Next

\* A fetch after the iterator has said that it is valid is of an element, and
\* gives the value that was last written to it.
LEMMA FetchReads ==
  ASSUME Inv, ItInv, ~ broken, ItCurrent, it.checked
  PROVE  /\ ~ broken'
         /\ list[it.current] # Unknown => Gives(type, answer', list[it.current])
<1>1. Solid(arr) /\ it.current \in 0..(arr.size - 1)
  BY DEF Inv, ArrayInv, Solid, ItInv
<1>2. it.current \in DOMAIN arr.slot
  <2>1. it.current \in 0..(arr.extent - 1)
    BY <1>1 DEF Solid
  <2> QED  BY <1>1, <2>1 DEF Solid
<1>3. answer' = Element(type, arr, it.current) /\ ~ broken'
  BY <1>2 DEF ItCurrent, Iterator
<1> QED  BY <1>1, <1>3 DEF Inv, ReadsBack, Agree

\* Whoever asks an iterator from getIterator whether it is valid before each
\* fetch reads elements, and what was written to them, though current() itself
\* checks nothing (its check is commented out); whatever is pushed, assigned
\* and destroyed between the question and the fetch, and however often the array
\* is resized, as long as no resize cuts the iterator's element off.
THEOREM CheckedFetchReads ==
  ASSUME CharSigned
  PROVE  Spec => CheckedFetch
<1>1. Init => ItInv
  BY DEF Init, ItInv, NoIterator
<1>2. Inv /\ ItInv /\ [Next]_vars => Inv' /\ ItInv'
  BY NextInv, ItInvStep
<1>3. Inv /\ ItInv /\ [Next]_vars =>
        [(ItCurrent /\ it.checked) =>
          /\ ~ broken'
          /\ list[it.current] # Unknown => Gives(type, answer', list[it.current])]_vars
  BY FetchReads DEF Next
<1> QED  BY <1>1, <1>2, <1>3, InitInv, PTL DEF Spec, CheckedFetch
=============================================================================

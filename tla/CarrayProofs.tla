---------------------------- MODULE CarrayProofs ----------------------------
(***************************************************************************)
(* Theorems about Carray for every number of objects and values, every     *)
(* table of marks and every bound: its types, its elements inside their    *)
(* blocks, its reference counts, the elements that growth keeps, and that  *)
(* it implements the abstract lists.                                       *)
(***************************************************************************)
EXTENDS CarrayList, GarrayProofs, FiniteSetTheorems

Inv == TypeOK /\ SizeWithinBlock

\* What the invariant says of the variable arr, and of the others.
ArraysSound ==
    /\ arr = [o \in Obj |-> arr[o]]
    /\ \A o \in Obj : Sound(arr[o]) \/ arr[o] = Gone

CountsOK ==
    /\ rc \in [Value -> Int]
    /\ user \in [Value -> Nat]
    /\ ub \in BOOLEAN

\* No array has the kind of an object that does not exist.
LEMMA LiveSound ==
  ASSUME Inv, NEW o \in Obj
  PROVE  /\ Live(o) <=> Sound(arr[o])
         /\ ~ Live(o) <=> arr[o] = Gone
<1>1. Gone.kind = "gone" /\ "gone" \notin Kind
  BY ArrayFields DEF Gone, EtypeCtor, Kind
<1>2. IsArray(arr[o]) => arr[o].kind \in Kind
  BY DEF IsArray
<1> QED  BY <1>1, <1>2 DEF Inv, TypeOK, SizeWithinBlock, Live, Sound

LEMMA InvParts == Inv <=> ArraysSound /\ CountsOK
<1>1. Gone.kind = "gone" /\ "gone" \notin Kind
  BY ArrayFields DEF Gone, EtypeCtor, Kind
<1>2. \A o \in Obj : IsArray(arr[o]) => arr[o].kind \in Kind
  BY DEF IsArray
<1> QED  BY <1>1, <1>2
         DEF Inv, TypeOK, SizeWithinBlock, ArraysSound, CountsOK, Live, Sound

\* A step that makes one object sound, or removes it, keeps all sound.
LEMMA OneArray ==
  ASSUME ArraysSound, NEW o \in Obj, NEW g, Sound(g) \/ g = Gone,
         arr' = [arr EXCEPT ![o] = g]
  PROVE  ArraysSound'
<1>1. \A b \in Obj : arr'[b] = IF b = o THEN g ELSE arr[b]
  BY DEF ArraysSound
<1>2. arr' = [b \in Obj |-> arr'[b]]
  BY DEF ArraysSound
<1>3. Gone' = Gone
  BY DEF Gone, EtypeCtor, Array
<1>4. \A b \in Obj : Sound(arr'[b]) \/ arr'[b] = Gone
  BY <1>1 DEF ArraysSound
<1> QED  BY <1>2, <1>3, <1>4 DEF ArraysSound, Sound

\* The number of elements that are v is a natural number.
LEMMA OccursNat ==
  ASSUME NEW g, NEW from \in Int, NEW to \in Int, NEW v
  PROVE  Occurs(g, from, to, v) \in Nat
<1> DEFINE S == {i \in from..(to - 1) : g.slot[i] = v}
<1>1. IsFiniteSet(from..(to - 1))
  BY FS_Interval
<1>2. IsFiniteSet(S)
  BY <1>1, FS_Subset
<1> QED  BY <1>2, FS_CardinalityType DEF Occurs

LEMMA ReleasesCounts ==
  ASSUME CountsOK, NEW g, NEW from \in Int, NEW to \in Int,
         Releases(g, from, to), UNCHANGED user
  PROVE  CountsOK'
<1>1. rc' \in [Value -> Int]
  BY OccursNat DEF CountsOK, Releases
<1>2. ub' \in BOOLEAN
  BY DEF CountsOK, Releases, HasGarbage
<1> QED  BY <1>1, <1>2 DEF CountsOK

LEMMA RetainsCounts ==
  ASSUME CountsOK, NEW g, NEW from \in Int, NEW to \in Int,
         Retains(g, from, to)
  PROVE  rc' \in [Value -> Int] /\ ub' \in BOOLEAN
<1>1. rc' \in [Value -> Int]
  BY OccursNat DEF CountsOK, Retains
<1>2. ub' \in BOOLEAN
  BY DEF CountsOK, Retains, HasGarbage
<1> QED  BY <1>1, <1>2

-----------------------------------------------------------------------------
LEMMA InvInit == Init => Inv
<1> SUFFICES ASSUME Init PROVE ArraysSound /\ CountsOK
  BY InvParts
<1>1. ArraysSound
  BY DEF Init, ArraysSound
<1>2. rc \in [Value -> Int] /\ user \in [Value -> Nat]
  BY DEF Init
<1>3. ub \in BOOLEAN
  BY DEF Init
<1> QED  BY <1>1, <1>2, <1>3 DEF CountsOK

LEMMA InvStep == Inv /\ [Next]_vars => Inv'
<1>a. (ArraysSound /\ CountsOK)' => Inv'
  BY InvParts, PTL
<1> SUFFICES ASSUME Inv, ArraysSound, CountsOK, [Next]_vars
             PROVE  ArraysSound' /\ CountsOK'
  BY <1>a, InvParts
<1>0. \A o \in Obj : Live(o) => /\ Sound(arr[o])
                                /\ arr[o].size \in Nat
                                /\ arr[o].size <= arr[o].extent
                                /\ arr[o].extent \in Nat
  BY LiveSound, PartsOfSound
<1>1. ASSUME NEW o \in Obj, NEW k \in Kinds, NEW n \in CtorSizes,
             Construct(o, k, n)
      PROVE  ArraysSound' /\ CountsOK'
  <2>1. n \in Nat /\ k \in Kind
    BY CarrayAssumption
  <2>2. Sound(InitElems(PcaAlloc(EtypeCtor(k), n), 0, n))
    BY <2>1, PcaAllocSound, InitElemsSound
  <2>3. ArraysSound'
    BY <1>1, <2>2, OneArray DEF Construct
  <2>4. CountsOK'
    BY <1>1 DEF Construct, CountsOK
  <2> QED  BY <2>3, <2>4
<1>2. ASSUME NEW o \in Obj, NEW n \in 0..MaxSize, Resize(o, n)
      PROVE  ArraysSound' /\ CountsOK'
  <2>1. n \in Nat /\ Live(o) /\ arr[o].size \in Nat /\ Sound(arr[o])
    BY <1>0, <1>2, CarrayAssumption DEF Resize
  <2>2. Sound(GenResize(arr[o], n))
    BY <2>1, GenResizeSound
  <2>3. ArraysSound'
    BY <1>2, <2>2, OneArray DEF Resize
  <2>4. CountsOK'
    <3>1. CASE n < arr[o].size
      BY <1>2, <2>1, <3>1, ReleasesCounts DEF Resize
    <3>2. CASE ~ (n < arr[o].size)
      BY <1>2, <3>2 DEF Resize, CountsOK
    <3> QED  BY <3>1, <3>2
  <2> QED  BY <2>3, <2>4
<1>3. ASSUME NEW o \in Obj, NEW n \in 0..MaxReserve, Reserve(o, n)
      PROVE  ArraysSound' /\ CountsOK'
  <2>1. n \in Nat /\ Sound(arr[o])
    BY <1>0, <1>3, CarrayAssumption DEF Reserve
  <2>2. Sound(PcaReserve(arr[o], n))
    BY <2>1, PcaReserveSound
  <2>3. ArraysSound'
    BY <1>3, <2>2, OneArray DEF Reserve
  <2>4. CountsOK'
    BY <1>3 DEF Reserve, CountsOK
  <2> QED  BY <2>3, <2>4
<1>4. ASSUME NEW o \in Obj, NEW v \in Value, Push(o, v)
      PROVE  ArraysSound' /\ CountsOK'
  <2> DEFINE i == arr[o].size
             g == GenResize(arr[o], i + 1)
  <2>1. i \in Nat /\ Sound(arr[o])
    BY <1>0, <1>4 DEF Push
  <2>2. Sound(g) /\ g.size = i + 1
    <3> HIDE DEF i
    <3>1. i + 1 \in Nat /\ i + 1 > 0
      BY <2>1
    <3> QED  BY <2>1, <3>1, GenResizeSound
  <2>3. i < g.extent
    <3> HIDE DEF i, g
    <3> QED  BY <2>1, <2>2, PartsOfSound
  <2>4. Sound(Written(g, i, v))
    <3> HIDE DEF i, g
    <3> QED  BY <2>1, <2>2, <2>3, WrittenSound
  <2>5. \/ arr' = [arr EXCEPT ![o] = Written(g, i, v)]
        \/ arr' = [arr EXCEPT ![o] = g]
    BY <1>4 DEF Push
  <2>6. ArraysSound'
    <3> HIDE DEF i, g
    <3> QED  BY <2>2, <2>4, <2>5, OneArray
  <2>7. CountsOK'
    BY <1>4 DEF Push, CountsOK
  <2> QED  BY <2>6, <2>7
<1>5. ASSUME NEW o \in Obj, NEW i \in Index(o), NEW v \in Value,
             SetElement(o, i, v)
      PROVE  ArraysSound' /\ CountsOK'
  <2>1. Live(o) /\ i \in Nat /\ i < arr[o].extent /\ Sound(arr[o])
    BY <1>0, <1>5 DEF SetElement, Index
  <2>2. Sound(Written(arr[o], i, v))
    BY <2>1, WrittenSound
  <2>3. ArraysSound'
    BY <1>5, <2>2, OneArray DEF SetElement
  <2>4. rc' \in [Value -> Int]
    <3>1. \A w \in Value : Occurs(arr[o], i, i + 1, w) \in Nat
      BY <2>1, OccursNat
    <3> QED  BY <1>5, <3>1 DEF SetElement, CountsOK
  <2>5. ub' \in BOOLEAN
    BY <1>5 DEF SetElement, CountsOK, HasGarbage
  <2>6. user' = user
    BY <1>5 DEF SetElement
  <2> QED  BY <2>3, <2>4, <2>5, <2>6 DEF CountsOK
<1>6. ASSUME NEW o \in Obj, NEW i \in Index(o), ReadElement(o, i)
      PROVE  ArraysSound' /\ CountsOK'
  <2>1. i \in Nat
    BY <1>0, <1>6 DEF ReadElement, Index
  <2>2. ArraysSound'
    BY <1>6 DEF ReadElement, ArraysSound, Sound, Gone
  <2>3. rc' \in [Value -> Int] /\ ub' \in BOOLEAN
    BY <1>6, <2>1, RetainsCounts DEF ReadElement
  <2>4. user' \in [Value -> Nat]
    BY <1>6, <2>1, OccursNat DEF ReadElement, CountsOK
  <2> QED  BY <2>2, <2>3, <2>4 DEF CountsOK
<1>7. ASSUME NEW o \in Obj, NEW i \in Index(o), UnsetElement(o, i)
      PROVE  ArraysSound' /\ CountsOK'
  <2>1. i \in Int /\ Sound(arr[o])
    BY <1>0, <1>7 DEF UnsetElement, Index
  <2>2. Sound(InitElems(arr[o], i, i + 1))
    BY <2>1, InitElemsSound
  <2>3. ArraysSound'
    BY <1>7, <2>2, OneArray DEF UnsetElement
  <2>4. CountsOK'
    BY <1>7, <2>1, ReleasesCounts DEF UnsetElement
  <2> QED  BY <2>3, <2>4
<1>8. ASSUME NEW o \in Obj, NEW b \in Obj, NEW from \in 0..MaxSize,
             Sub(o, b, from)
      PROVE  ArraysSound' /\ CountsOK'
  <2>1. from \in Nat /\ Sound(arr[o]) /\ arr[o].size \in Nat
    BY <1>0, <1>8, CarrayAssumption DEF Sub
  <2> DEFINE g == IF from < arr[o].size THEN CopyCtor(arr[o], from)
                                        ELSE EtypeCtor(arr[o].kind)
  <2>2. Sound(g)
    <3>1. CASE from < arr[o].size
      BY <2>1, <3>1, CopyCtorSound
    <3>2. CASE ~ (from < arr[o].size)
      BY <2>1, <3>2, EtypeCtorSound, PartsOfSound
    <3> QED  BY <3>1, <3>2
  <2>3. ArraysSound'
    <3>1. arr' = [arr EXCEPT ![b] = g]
      BY <1>8 DEF Sub
    <3> HIDE DEF g
    <3> QED  BY <2>2, <3>1, OneArray
  <2>4. CountsOK'
    BY <1>8, <2>1, RetainsCounts DEF Sub, CountsOK
  <2> QED  BY <2>3, <2>4
<1>9. ASSUME NEW o \in Obj, NEW b \in Obj, Clone(o, b)
      PROVE  ArraysSound' /\ CountsOK'
  <2>1. Sound(arr[o]) /\ arr[o].size \in Nat
    BY <1>0, <1>9 DEF Clone
  <2>2. Sound(CopyCtor(arr[o], 0))
    BY <2>1, CopyCtorSound
  <2>3. ArraysSound'
    BY <1>9, <2>2, OneArray DEF Clone
  <2>4. CountsOK'
    BY <1>9, <2>1, RetainsCounts DEF Clone, CountsOK
  <2> QED  BY <2>3, <2>4
<1>10. ASSUME NEW o \in Obj, FreeStorage(o)
       PROVE  ArraysSound' /\ CountsOK'
  BY <1>10, OneArray DEF FreeStorage, CountsOK
<1>11. ASSUME NEW v \in Value, NewValue(v) \/ ForgetValue(v)
       PROVE  ArraysSound' /\ CountsOK'
  <2>1. ArraysSound'
    BY <1>11 DEF NewValue, ForgetValue, ArraysSound, Sound, Gone
  <2>2. CountsOK'
    BY <1>11 DEF NewValue, ForgetValue, CountsOK
  <2> QED  BY <2>1, <2>2
<1>12. CASE UNCHANGED vars
  BY <1>12 DEF vars, ArraysSound, CountsOK, Sound, Gone
<1> QED
  BY <1>1, <1>2, <1>3, <1>4, <1>5, <1>6, <1>7, <1>8, <1>9, <1>10, <1>11, <1>12
     DEF Next

-----------------------------------------------------------------------------
\* Whatever a script does, an object is gone or a well-formed array.
THEOREM TypeCorrect == Spec => []TypeOK
<1>1. Inv => TypeOK
  BY DEF Inv
<1> QED  BY InvInit, InvStep, <1>1, PTL DEF Spec

\* Every index that passes the bounds checks is inside the allocated block.
THEOREM ElementsSafe == Spec => []SizeWithinBlock
<1>1. Inv => SizeWithinBlock
  BY DEF Inv
<1> QED  BY InvInit, InvStep, <1>1, PTL DEF Spec

-----------------------------------------------------------------------------
(***************************************************************************)
(* The references.  Every step changes at most one array, so that what all *)
(* arrays hold of a value changes by what that one gains or loses.         *)
(***************************************************************************)

\* The elements of one array that hold a reference on v.
HeldBy(g, v) ==
    IF Ctdt(g) THEN {i \in DOMAIN g.slot : g.slot[i] = v} ELSE {}

\* The invariant behind RefsCovered.  It does not need ub.
Covered ==
    \A v \in Value : /\ IsFiniteSet(HeldIn(v))
                     /\ rc[v] >= user[v] + Cardinality(HeldIn(v))

LEMMA HeldByFinite ==
  ASSUME NEW g, Sound(g) \/ g = Gone, NEW v
  PROVE  IsFiniteSet(HeldBy(g, v)) /\ Cardinality(HeldBy(g, v)) \in Nat
<1>1. CASE Sound(g)
  <2>1. DOMAIN g.slot = 0..(g.extent - 1) /\ g.extent \in Nat
    BY <1>1, PartsOfSound
  <2>2. IsFiniteSet(0..(g.extent - 1))
    BY <2>1, FS_Interval
  <2>3. HeldBy(g, v) \subseteq 0..(g.extent - 1)
    BY <2>1 DEF HeldBy
  <2> QED  BY <2>2, <2>3, FS_Subset, FS_CardinalityType
<1>2. CASE g = Gone
  <2>1. HeldBy(g, v) = {}
    BY <1>2, ArrayFields DEF Gone, EtypeCtor, Ctdt, HeldBy
  <2> QED  BY <2>1, FS_EmptySet
<1> QED  BY <1>1, <1>2

\* HeldIn pairs each object with the elements of its array.
LEMMA HeldInPairs ==
  ASSUME NEW v, NEW p
  PROVE  p \in HeldIn(v) <=> \E o \in Obj : \E i \in HeldBy(arr[o], v) :
                                p = <<o, i>>
<1>1. \A o \in Obj : Ctdt(arr[o]) => Live(o)
  BY DEF Ctdt, Live, Kind
<1> QED  BY <1>1 DEF HeldIn, HeldBy

\* Pairing a set with one thing does not change how many there are.
LEMMA TaggedSet ==
  ASSUME NEW o, NEW S, IsFiniteSet(S)
  PROVE  IsFiniteSet({o} \X S) /\ Cardinality({o} \X S) = Cardinality(S)
<1>1. IsFiniteSet({o}) /\ Cardinality({o}) = 1
  BY FS_Singleton
<1>2. Cardinality(S) \in Nat
  BY FS_CardinalityType
<1>3. Cardinality({o} \X S) = 1 * Cardinality(S) /\ IsFiniteSet({o} \X S)
  BY <1>1, FS_Product
<1> QED  BY <1>2, <1>3

\* Two sets that share nothing are counted one after the other.
LEMMA DisjointSets ==
  ASSUME NEW S, IsFiniteSet(S), NEW T, IsFiniteSet(T), S \cap T = {}
  PROVE  /\ IsFiniteSet(S \cup T)
         /\ Cardinality(S) \in Nat /\ Cardinality(T) \in Nat
         /\ Cardinality(S \cup T) = Cardinality(S) + Cardinality(T)
<1>1. Cardinality(S \cap T) = 0
  BY FS_EmptySet
<1>2. Cardinality(S) \in Nat /\ Cardinality(T) \in Nat
  BY FS_CardinalityType
<1>3. /\ IsFiniteSet(S \cup T)
      /\ Cardinality(S \cup T)
           = Cardinality(S) + Cardinality(T) - Cardinality(S \cap T)
  BY FS_Union
<1> QED  BY <1>1, <1>2, <1>3

\* What is held of v changes by what the one array that changes holds of it.
LEMMA OneArrayHeld ==
  ASSUME ArraysSound, NEW o \in Obj, NEW g, Sound(g) \/ g = Gone,
         arr' = [arr EXCEPT ![o] = g], NEW v, IsFiniteSet(HeldIn(v))
  PROVE  /\ IsFiniteSet(HeldIn(v)')
         /\ Cardinality(HeldIn(v)) \in Nat
         /\ Cardinality(HeldIn(v)') + Cardinality(HeldBy(arr[o], v))
              = Cardinality(HeldIn(v)) + Cardinality(HeldBy(g, v))
<1> DEFINE old == {o} \X HeldBy(arr[o], v)
           new == {o} \X HeldBy(g, v)
           rest == HeldIn(v) \ old
<1>1. \A b \in Obj : arr'[b] = IF b = o THEN g ELSE arr[b]
  BY DEF ArraysSound
<1>2. Sound(arr[o]) \/ arr[o] = Gone
  BY DEF ArraysSound
<1>3. /\ IsFiniteSet(HeldBy(arr[o], v)) /\ Cardinality(HeldBy(arr[o], v)) \in Nat
      /\ IsFiniteSet(HeldBy(g, v)) /\ Cardinality(HeldBy(g, v)) \in Nat
  BY <1>2, HeldByFinite
<1>4. /\ IsFiniteSet(old) /\ Cardinality(old) = Cardinality(HeldBy(arr[o], v))
      /\ IsFiniteSet(new) /\ Cardinality(new) = Cardinality(HeldBy(g, v))
  BY <1>3, TaggedSet
<1>5. \A p : p \in HeldIn(v)' <=> \E b \in Obj :
                \E i \in HeldBy(IF b = o THEN g ELSE arr[b], v) : p = <<b, i>>
  <2>1. \A b \in Obj : Ctdt(arr'[b]) => Live(b)'
    BY DEF Ctdt, Live, Kind
  <2>2. \A p : p \in HeldIn(v)' <=> \E b \in Obj :
                 \E i \in HeldBy(arr'[b], v) : p = <<b, i>>
    BY <2>1 DEF HeldIn, HeldBy
  <2> QED  BY <1>1, <2>2
<1>6. HeldIn(v) = rest \cup old /\ rest \cap old = {}
  <2>1. old \subseteq HeldIn(v)
    BY HeldInPairs
  <2> QED  BY <2>1
<1>7. HeldIn(v)' = rest \cup new /\ rest \cap new = {}
  <2>1. \A p : p \in rest <=> \E b \in Obj \ {o} :
                \E i \in HeldBy(arr[b], v) : p = <<b, i>>
    BY HeldInPairs
  <2>2. \A p : p \in new <=> \E i \in HeldBy(g, v) : p = <<o, i>>
    OBVIOUS
  <2> HIDE DEF rest, new
  <2>3. ASSUME NEW p PROVE p \in HeldIn(v)' <=> p \in rest \cup new
    BY <1>5, <2>1, <2>2
  <2>4. ASSUME NEW p, p \in rest, p \in new PROVE FALSE
    BY <2>1, <2>2, <2>4
  <2> QED  BY <2>3, <2>4
<1>8. IsFiniteSet(rest) /\ Cardinality(rest) \in Nat
  BY FS_Subset, FS_CardinalityType
<1> HIDE DEF rest, old, new
<1>9. /\ IsFiniteSet(rest \cup old) /\ IsFiniteSet(rest \cup new)
      /\ Cardinality(rest \cup old) = Cardinality(rest) + Cardinality(old)
      /\ Cardinality(rest \cup new) = Cardinality(rest) + Cardinality(new)
  BY <1>4, <1>6, <1>7, <1>8, DisjointSets
<1> QED  BY <1>3, <1>4, <1>6, <1>7, <1>8, <1>9

\* An array that gets no new value holds no more of any.
LEMMA FewerHeld ==
  ASSUME NEW g, Sound(g), NEW h, Sound(h), h.kind = g.kind, NothingNew(g, h),
         NEW v \in Value
  PROVE  Cardinality(HeldBy(h, v)) <= Cardinality(HeldBy(g, v))
<1>1. HeldBy(h, v) \subseteq HeldBy(g, v)
  BY DEF HeldBy, NothingNew, Ctdt
<1> QED  BY <1>1, HeldByFinite, FS_Subset

\* And less by what it was cleared of.
LEMMA ClearedHeld ==
  ASSUME NEW g, Sound(g), Ctdt(g), NEW h, Sound(h), h.kind = g.kind,
         NothingNew(g, h), NEW from \in Nat, Cleared(h, from, g.size),
         NEW v \in Value
  PROVE  Cardinality(HeldBy(h, v)) + Occurs(g, from, g.size, v)
           <= Cardinality(HeldBy(g, v))
<1> DEFINE S == {i \in from..(g.size - 1) : g.slot[i] = v}
<1>1. /\ DOMAIN g.slot = 0..(g.extent - 1) /\ g.extent \in Nat
      /\ g.size \in Nat /\ g.size <= g.extent
      /\ DOMAIN h.slot = 0..(h.extent - 1)
  BY PartsOfSound
<1>2. S \subseteq HeldBy(g, v)
  BY <1>1 DEF HeldBy
<1>3. HeldBy(h, v) \subseteq HeldBy(g, v)
  BY DEF HeldBy, NothingNew, Ctdt
<1>4. HeldBy(h, v) \cap S = {}
  BY <1>1 DEF HeldBy, Cleared
<1>5. IsFiniteSet(HeldBy(g, v)) /\ IsFiniteSet(HeldBy(h, v)) /\ IsFiniteSet(S)
  BY <1>2, HeldByFinite, FS_Subset
<1>6. /\ Cardinality(HeldBy(h, v) \cup S)
           = Cardinality(HeldBy(h, v)) + Cardinality(S)
  BY <1>4, <1>5, DisjointSets
<1>7. Cardinality(HeldBy(h, v) \cup S) <= Cardinality(HeldBy(g, v))
  <2>1. HeldBy(h, v) \cup S \in SUBSET HeldBy(g, v)
    BY <1>2, <1>3
  <2> HIDE DEF S
  <2> QED  BY <1>5, <2>1, FS_Subset
<1> QED  BY <1>6, <1>7 DEF Occurs

LEMMA OccursOne ==
  ASSUME NEW g, NEW i \in Int, NEW v
  PROVE  Occurs(g, i, i + 1, v) = IF g.slot[i] = v THEN 1 ELSE 0
<1> DEFINE S == {j \in i..((i + 1) - 1) : g.slot[j] = v}
<1>1. S = IF g.slot[i] = v THEN {i} ELSE {}
  OBVIOUS
<1>2. Cardinality({i}) = 1 /\ Cardinality({}) = 0
  BY FS_Singleton, FS_EmptySet
<1>3. Occurs(g, i, i + 1, v) = Cardinality(S)
  BY DEF Occurs
<1> HIDE DEF S
<1> QED  BY <1>1, <1>2, <1>3

\* Writing w over an element gives up what was there.
LEMMA WrittenHeld ==
  ASSUME NEW g, Sound(g), Ctdt(g), NEW i \in Nat, i < g.extent,
         NEW w \in Value, NEW v \in Value
  PROVE  Cardinality(HeldBy(Written(g, i, w), v)) + Occurs(g, i, i + 1, v)
           = Cardinality(HeldBy(g, v)) + (IF v = w THEN 1 ELSE 0)
<1> DEFINE h == Written(g, i, w)
<1>1. /\ DOMAIN g.slot = 0..(g.extent - 1) /\ g.extent \in Nat
  BY PartsOfSound
<1>2. h.kind = g.kind /\ h.slot = [g.slot EXCEPT ![i] = w]
  BY ArrayFields DEF Written
<1> HIDE DEF h
<1>3. HeldBy(h, v) = IF v = w THEN HeldBy(g, v) \cup {i} ELSE HeldBy(g, v) \ {i}
  BY <1>1, <1>2 DEF HeldBy, Ctdt
<1>4. i \in HeldBy(g, v) <=> g.slot[i] = v
  BY <1>1 DEF HeldBy
<1>5. IsFiniteSet(HeldBy(g, v)) /\ Cardinality(HeldBy(g, v)) \in Nat
  BY HeldByFinite
<1>6. Cardinality(HeldBy(g, v) \cup {i})
        = Cardinality(HeldBy(g, v)) + (IF g.slot[i] = v THEN 0 ELSE 1)
  <2>1. Cardinality(HeldBy(g, v) \cup {i})
          = IF i \in HeldBy(g, v) THEN Cardinality(HeldBy(g, v))
                                  ELSE Cardinality(HeldBy(g, v)) + 1
    BY <1>5, FS_AddElement
  <2> QED  BY <1>4, <1>5, <2>1
<1>7. Cardinality(HeldBy(g, v) \ {i})
        = Cardinality(HeldBy(g, v)) - (IF g.slot[i] = v THEN 1 ELSE 0)
  <2>1. Cardinality(HeldBy(g, v) \ {i})
          = IF i \in HeldBy(g, v) THEN Cardinality(HeldBy(g, v)) - 1
                                  ELSE Cardinality(HeldBy(g, v))
    BY <1>5, FS_RemoveElement
  <2> QED  BY <1>4, <1>5, <2>1
<1>8. Cardinality(HeldBy(h, v)) + Occurs(g, i, i + 1, v)
        = Cardinality(HeldBy(g, v)) + (IF v = w THEN 1 ELSE 0)
  BY <1>3, <1>5, <1>6, <1>7, OccursOne
<1> QED  BY <1>8 DEF h

\* A copy holds no more than what was counted for it.
LEMMA CopyHeld ==
  ASSUME NEW g, Sound(g), Ctdt(g), NEW from \in Nat, from <= g.size,
         NEW v \in Value
  PROVE  Cardinality(HeldBy(CopyCtor(g, from), v)) <= Occurs(g, from, g.size, v)
<1> DEFINE h == CopyCtor(g, from)
           S == {i \in from..(g.size - 1) : g.slot[i] = v}
           f == [i \in HeldBy(h, v) |-> from + i]
<1>1. g.size \in Nat
  BY PartsOfSound
<1>2. /\ Sound(h) /\ h.extent = g.size - from
      /\ \A i \in 0..(h.extent - 1) : h.slot[i] = g.slot[from + i]
  BY CopyCtorSound, CopyCtorElements
<1>3. DOMAIN h.slot = 0..(h.extent - 1)
  BY <1>2, PartsOfSound
<1> HIDE DEF h
<1>4. \A i \in HeldBy(h, v) : i \in 0..(h.extent - 1) /\ h.slot[i] = v
  BY <1>3 DEF HeldBy
<1>5. f \in [HeldBy(h, v) -> S]
  BY <1>1, <1>2, <1>4
<1>6. f \in Injection(HeldBy(h, v), S)
  <2>1. \A i, j \in HeldBy(h, v) : f[i] = f[j] => i = j
    BY <1>1, <1>2, <1>4
  <2> HIDE DEF f, S
  <2> QED  BY <1>5, <2>1 DEF Injection, IsInjective
<1>7. IsFiniteSet(S)
  <2> DEFINE R == from..(g.size - 1)
  <2>1. S \in SUBSET R
    OBVIOUS
  <2>2. from \in Int /\ g.size - 1 \in Int
    BY <1>1
  <2>3. IsFiniteSet(R)
    BY <2>2, FS_Interval
  <2> HIDE DEF S, R
  <2> QED  BY <2>1, <2>3, FS_Subset
<1>8. Cardinality(HeldBy(h, v)) <= Cardinality(S)
  <2> HIDE DEF f, S
  <2> QED  BY <1>6, <1>7, FS_Injection
<1> QED  BY <1>8 DEF h, Occurs

\* A step is right about v when what the array that changes holds of it more,
\* or less, is matched by the references that are not the script's.
LEMMA CoveredWhen ==
  ASSUME ArraysSound, CountsOK, Covered, NEW o \in Obj,
         NEW g, Sound(g) \/ g = Gone,
         arr' = [arr EXCEPT ![o] = g], NEW v \in Value,
         rc'[v] \in Int, user'[v] \in Nat,
         (rc'[v] - user'[v]) - (rc[v] - user[v])
            >= Cardinality(HeldBy(g, v)) - Cardinality(HeldBy(arr[o], v))
  PROVE  IsFiniteSet(HeldIn(v)') /\ rc'[v] >= user'[v] + Cardinality(HeldIn(v)')
<1>1. Sound(arr[o]) \/ arr[o] = Gone
  BY DEF ArraysSound
<1>2. IsFiniteSet(HeldIn(v)) /\ rc[v] >= user[v] + Cardinality(HeldIn(v))
  BY DEF Covered
<1>3. rc[v] \in Int /\ user[v] \in Nat
  BY DEF CountsOK
<1>4. Cardinality(HeldBy(g, v)) \in Nat /\ Cardinality(HeldBy(arr[o], v)) \in Nat
  BY <1>1, HeldByFinite
<1>5. /\ IsFiniteSet(HeldIn(v)') /\ Cardinality(HeldIn(v)) \in Nat
      /\ Cardinality(HeldIn(v)') + Cardinality(HeldBy(arr[o], v))
           = Cardinality(HeldIn(v)) + Cardinality(HeldBy(g, v))
  BY <1>2, OneArrayHeld
<1>6. Cardinality(HeldIn(v)') \in Nat
  BY <1>5, FS_CardinalityType
<1> QED  BY <1>2, <1>3, <1>4, <1>5, <1>6

\* Numbers hold no references, and neither does an object that is gone.
LEMMA NoneHeld ==
  ASSUME NEW g, ~ Ctdt(g), NEW v
  PROVE  Cardinality(HeldBy(g, v)) = 0
BY FS_EmptySet DEF HeldBy

LEMMA CoveredStep == Inv /\ Covered /\ [Next]_vars => Covered'
<1> SUFFICES ASSUME ArraysSound, CountsOK, Covered, [Next]_vars, NEW v \in Value,
                    Inv, CountsOK'
             PROVE  /\ IsFiniteSet(HeldIn(v)')
                    /\ rc'[v] >= user'[v] + Cardinality(HeldIn(v)')
  <2>1. Inv /\ [Next]_vars => CountsOK'
    <3>1. Inv' => CountsOK'
      BY InvParts, PTL
    <3> QED  BY <3>1, InvStep
  <2> QED  BY <2>1, InvParts DEF Covered
<1>0. \A o \in Obj : Live(o) => /\ Sound(arr[o])
                                /\ arr[o].size \in Nat
                                /\ arr[o].size <= arr[o].extent
                                /\ arr[o].extent \in Nat
  BY LiveSound, PartsOfSound
<1>a. /\ rc[v] \in Int /\ user[v] \in Nat
      /\ rc'[v] \in Int /\ user'[v] \in Nat
  BY DEF CountsOK
<1>b. \A o \in Obj : Cardinality(HeldBy(arr[o], v)) \in Nat
  BY HeldByFinite DEF ArraysSound
<1>c. \A g : ~ Ctdt(g) => Cardinality(HeldBy(g, v)) = 0
  BY NoneHeld
<1>d. ASSUME arr' = arr, NEW d \in Nat, user'[v] = user[v] + d,
             rc'[v] = rc[v] + d
      PROVE  /\ IsFiniteSet(HeldIn(v)')
             /\ rc'[v] >= user'[v] + Cardinality(HeldIn(v)')
  <2>1. HeldIn(v)' = HeldIn(v)
    BY <1>d DEF HeldIn, Live, Ctdt
  <2>2. /\ IsFiniteSet(HeldIn(v)) /\ Cardinality(HeldIn(v)) \in Nat
        /\ rc[v] >= user[v] + Cardinality(HeldIn(v))
    BY FS_CardinalityType DEF Covered
  <2> QED  BY <1>a, <1>d, <2>1, <2>2
<1>1. ASSUME NEW o \in Obj, NEW k \in Kinds, NEW n \in CtorSizes,
             Construct(o, k, n)
      PROVE  /\ IsFiniteSet(HeldIn(v)')
             /\ rc'[v] >= user'[v] + Cardinality(HeldIn(v)')
  <2> DEFINE e == PcaAlloc(EtypeCtor(k), n)
             g == InitElems(e, 0, n)
  <2>1. n \in Nat /\ k \in Kind
    BY CarrayAssumption
  <2>2. Sound(e) /\ e.extent = n /\ DOMAIN e.slot = 0..(n - 1)
    BY <2>1, PcaAllocSound, PartsOfSound
  <2> HIDE DEF e
  <2>a. Sound(g) /\ g.extent = n
    BY <2>1, <2>2, InitElemsSound
  <2>b. \A i \in DOMAIN g.slot :
           g.slot[i] = IF 0 <= i /\ i < n THEN Blank ELSE e.slot[i]
    BY <2>1, <2>2, InitElemsElements
  <2>3. /\ Sound(g) /\ g.extent = n
        /\ \A i \in DOMAIN g.slot :
             g.slot[i] = IF 0 <= i /\ i < n THEN Blank ELSE e.slot[i]
    BY <2>a, <2>b
  <2> HIDE DEF g
  <2>4. DOMAIN g.slot = 0..(n - 1)
    BY <2>3, PartsOfSound
  <2>5. \A i \in DOMAIN g.slot : g.slot[i] # v
    BY <2>1, <2>3, <2>4, SlotAssumption
  <2>6. HeldBy(g, v) = {}
    BY <2>5 DEF HeldBy
  <2>7. Cardinality(HeldBy(g, v)) = 0
    BY <2>6, FS_EmptySet
  <2>8. arr' = [arr EXCEPT ![o] = g] /\ rc' = rc /\ user' = user
    BY <1>1 DEF Construct, g, e
  <2>9. (rc'[v] - user'[v]) - (rc[v] - user[v])
            >= Cardinality(HeldBy(g, v)) - Cardinality(HeldBy(arr[o], v))
    BY <1>a, <1>b, <2>7, <2>8
  <2> QED  BY <1>a, <2>3, <2>8, <2>9, CoveredWhen
<1>2. ASSUME NEW o \in Obj, NEW n \in 0..MaxSize, Resize(o, n)
      PROVE  /\ IsFiniteSet(HeldIn(v)')
             /\ rc'[v] >= user'[v] + Cardinality(HeldIn(v)')
  <2> DEFINE g == GenResize(arr[o], n)
  <2>1. n \in Nat /\ Live(o) /\ arr[o].size \in Nat /\ Sound(arr[o])
    BY <1>0, <1>2, CarrayAssumption DEF Resize
  <2>2. /\ Sound(g) /\ g.kind = arr[o].kind /\ NothingNew(arr[o], g)
        /\ Ctdt(arr[o]) => Cleared(g, n, arr[o].size)
    BY <2>1, GenResizeSound, GenResizeElements
  <2>3. arr' = [arr EXCEPT ![o] = g] /\ user' = user
    BY <1>2 DEF Resize
  <2> HIDE DEF g
  <2>4. CASE n < arr[o].size /\ Ctdt(arr[o])
    <3>1. Occurs(arr[o], n, arr[o].size, v) \in Nat
      BY <2>1, OccursNat
    <3>2. rc'[v] = rc[v] - Occurs(arr[o], n, arr[o].size, v)
      BY <1>2, <2>4 DEF Resize, Releases
    <3>3. Cardinality(HeldBy(g, v)) + Occurs(arr[o], n, arr[o].size, v)
            <= Cardinality(HeldBy(arr[o], v))
      BY <2>1, <2>2, <2>4, ClearedHeld
    <3>4. Cardinality(HeldBy(g, v)) \in Nat
      BY <2>2, HeldByFinite
    <3>5. (rc'[v] - user'[v]) - (rc[v] - user[v])
                >= Cardinality(HeldBy(g, v)) - Cardinality(HeldBy(arr[o], v))
      BY <1>a, <1>b, <2>3, <3>1, <3>2, <3>3, <3>4
    <3> QED  BY <1>a, <2>2, <2>3, <3>5, CoveredWhen
  <2>5. CASE ~ (n < arr[o].size /\ Ctdt(arr[o]))
    <3>1. rc' = rc
      BY <1>2, <2>5 DEF Resize, Releases
    <3>2. Cardinality(HeldBy(g, v)) \in Nat
      BY <2>2, HeldByFinite
    <3>3. (rc'[v] - user'[v]) - (rc[v] - user[v])
                >= Cardinality(HeldBy(g, v)) - Cardinality(HeldBy(arr[o], v))
      BY <1>a, <1>b, <2>1, <2>2, <2>3, <3>1, <3>2, FewerHeld
    <3> QED  BY <1>a, <2>2, <2>3, <3>3, CoveredWhen
  <2> QED  BY <2>4, <2>5
<1>3. ASSUME NEW o \in Obj, NEW n \in 0..MaxReserve, Reserve(o, n)
      PROVE  /\ IsFiniteSet(HeldIn(v)')
             /\ rc'[v] >= user'[v] + Cardinality(HeldIn(v)')
  <2> DEFINE g == PcaReserve(arr[o], n)
  <2>1. n \in Nat /\ Live(o) /\ Sound(arr[o])
    BY <1>0, <1>3, CarrayAssumption DEF Reserve
  <2>2. Sound(g) /\ g.kind = arr[o].kind /\ NothingNew(arr[o], g)
    BY <2>1, PcaReserveSound, PcaReserveElements
  <2>3. arr' = [arr EXCEPT ![o] = g] /\ user' = user /\ rc' = rc
    BY <1>3 DEF Reserve
  <2> HIDE DEF g
  <2>4. Cardinality(HeldBy(g, v)) \in Nat
    BY <2>2, HeldByFinite
  <2>5. (rc'[v] - user'[v]) - (rc[v] - user[v])
            >= Cardinality(HeldBy(g, v)) - Cardinality(HeldBy(arr[o], v))
    BY <1>a, <1>b, <2>1, <2>2, <2>3, <2>4, FewerHeld
  <2> QED  BY <1>a, <2>2, <2>3, <2>5, CoveredWhen
<1>4. ASSUME NEW o \in Obj, NEW w \in Value, Push(o, w)
      PROVE  /\ IsFiniteSet(HeldIn(v)')
             /\ rc'[v] >= user'[v] + Cardinality(HeldIn(v)')
  <2> DEFINE i == arr[o].size
             h == GenResize(arr[o], i + 1)
             g == IF Ctdt(h) \/ w \in Storable THEN Written(h, i, w) ELSE h
  <2>1. i \in Nat /\ Sound(arr[o])
    BY <1>0, <1>4 DEF Push
  <2>2. /\ Sound(h) /\ h.size = i + 1 /\ h.kind = arr[o].kind
        /\ NothingNew(arr[o], h)
    <3> HIDE DEF i
    <3>1. i + 1 \in Nat /\ i + 1 > 0
      BY <2>1
    <3> QED  BY <2>1, <3>1, GenResizeSound, GenResizeElements
  <2>3. i < h.extent
    <3> HIDE DEF i, h
    <3> QED  BY <2>1, <2>2, PartsOfSound
  <2>4. arr' = [arr EXCEPT ![o] = g] /\ user' = user
        /\ rc'[v] = rc[v] + (IF Ctdt(arr[o]) /\ v = w THEN 1 ELSE 0)
    <3>1. user' = user
          /\ rc' = IF Ctdt(arr[o]) THEN [rc EXCEPT ![w] = @ + 1] ELSE rc
      BY <1>4 DEF Push
    <3>2. rc'[v] = rc[v] + (IF Ctdt(arr[o]) /\ v = w THEN 1 ELSE 0)
      BY <1>a, <3>1 DEF CountsOK
    <3>3. arr' = [arr EXCEPT ![o] = g]
      BY <1>4 DEF Push
    <3> QED  BY <3>1, <3>2, <3>3
  <2> HIDE DEF i, h
  <2>5. Sound(g) /\ g.kind = h.kind
    BY <2>1, <2>2, <2>3, WrittenSound
  <2>6. /\ Cardinality(HeldBy(g, v)) \in Nat /\ Cardinality(HeldBy(h, v)) \in Nat
        /\ Cardinality(HeldBy(h, v)) <= Cardinality(HeldBy(arr[o], v))
    BY <2>1, <2>2, <2>5, HeldByFinite, FewerHeld
  <2>7. Cardinality(HeldBy(g, v)) <= Cardinality(HeldBy(h, v))
                                      + (IF Ctdt(arr[o]) /\ v = w THEN 1 ELSE 0)
    <3>1. CASE Ctdt(arr[o])
      <4>1. Ctdt(h) /\ g = Written(h, i, w)
        BY <2>2, <3>1 DEF Ctdt
      <4>2. Cardinality(HeldBy(g, v)) + Occurs(h, i, i + 1, v)
              = Cardinality(HeldBy(h, v)) + (IF v = w THEN 1 ELSE 0)
        BY <2>1, <2>2, <2>3, <4>1, WrittenHeld
      <4>3. Occurs(h, i, i + 1, v) \in Nat
        BY <2>1, OccursNat
      <4> QED  BY <2>6, <3>1, <4>2, <4>3
    <3>2. CASE ~ Ctdt(arr[o])
      <4>1. ~ Ctdt(g)
        BY <2>2, <2>5, <3>2 DEF Ctdt
      <4> QED  BY <1>c, <2>6, <3>2, <4>1
    <3> QED  BY <3>1, <3>2
  <2> HIDE DEF g
  <2>8. (rc'[v] - user'[v]) - (rc[v] - user[v])
           >= Cardinality(HeldBy(g, v)) - Cardinality(HeldBy(arr[o], v))
    BY <1>a, <1>b, <2>4, <2>6, <2>7
  <2> QED  BY <1>a, <2>4, <2>5, <2>8, CoveredWhen
<1>5. ASSUME NEW o \in Obj, NEW i \in Index(o), NEW w \in Value,
             SetElement(o, i, w)
      PROVE  /\ IsFiniteSet(HeldIn(v)')
             /\ rc'[v] >= user'[v] + Cardinality(HeldIn(v)')
  <2> DEFINE g == Written(arr[o], i, w)
  <2>1. Live(o) /\ i \in Nat /\ i < arr[o].extent /\ Sound(arr[o])
    BY <1>0, <1>5 DEF SetElement, Index
  <2>2. Sound(g) /\ g.kind = arr[o].kind
    BY <2>1, WrittenSound
  <2>3. arr' = [arr EXCEPT ![o] = g] /\ user' = user
    BY <1>5 DEF SetElement
  <2>4. Cardinality(HeldBy(g, v)) \in Nat
    BY <2>2, HeldByFinite
  <2>5. (rc'[v] - user'[v]) - (rc[v] - user[v])
           >= Cardinality(HeldBy(g, v)) - Cardinality(HeldBy(arr[o], v))
    <3>1. CASE Ctdt(arr[o])
      <4>1. rc'[v] = (rc[v] - Occurs(arr[o], i, i + 1, v))
                        + (IF v = w THEN 1 ELSE 0)
        BY <1>5, <3>1 DEF SetElement
      <4>2. Occurs(arr[o], i, i + 1, v) \in Nat
        BY <2>1, OccursNat
      <4>3. Cardinality(HeldBy(g, v)) + Occurs(arr[o], i, i + 1, v)
              = Cardinality(HeldBy(arr[o], v)) + (IF v = w THEN 1 ELSE 0)
        BY <2>1, <3>1, WrittenHeld
      <4> HIDE DEF g
      <4> QED  BY <1>a, <1>b, <2>3, <2>4, <4>1, <4>2, <4>3
    <3>2. CASE ~ Ctdt(arr[o])
      <4>1. ~ Ctdt(g) /\ rc' = rc
        BY <1>5, <2>2, <3>2 DEF SetElement, Ctdt
      <4> HIDE DEF g
      <4> QED  BY <1>a, <1>b, <1>c, <2>3, <4>1
    <3> QED  BY <3>1, <3>2
  <2> HIDE DEF g
  <2> QED  BY <1>a, <2>2, <2>3, <2>5, CoveredWhen
<1>6. ASSUME NEW o \in Obj, NEW i \in Index(o), ReadElement(o, i)
      PROVE  /\ IsFiniteSet(HeldIn(v)')
             /\ rc'[v] >= user'[v] + Cardinality(HeldIn(v)')
  <2> DEFINE d == Occurs(arr[o], i, i + 1, v)
  <2>1. i \in Nat
    BY <1>0, <1>6 DEF ReadElement, Index
  <2>2. d \in Nat
    BY <2>1, OccursNat
  <2>3. arr' = arr /\ user'[v] = user[v] + d /\ rc'[v] = rc[v] + d
    BY <1>6 DEF ReadElement, Retains
  <2> HIDE DEF d
  <2> QED  BY <1>d, <2>2, <2>3
<1>7. ASSUME NEW o \in Obj, NEW i \in Index(o), UnsetElement(o, i)
      PROVE  /\ IsFiniteSet(HeldIn(v)')
             /\ rc'[v] >= user'[v] + Cardinality(HeldIn(v)')
  <2> DEFINE g == InitElems(arr[o], i, i + 1)
  <2>1. i \in Nat /\ Sound(arr[o]) /\ Ctdt(arr[o]) /\ i < arr[o].extent
    BY <1>0, <1>7 DEF UnsetElement, Index
  <2>2. /\ Sound(g) /\ g.kind = arr[o].kind /\ g.extent = arr[o].extent
        /\ \A j \in DOMAIN g.slot :
             g.slot[j] = IF i <= j /\ j < i + 1 THEN Blank ELSE arr[o].slot[j]
    BY <2>1, InitElemsSound, InitElemsElements
  <2>3. /\ arr' = [arr EXCEPT ![o] = g] /\ user' = user
        /\ rc'[v] = rc[v] - Occurs(arr[o], i, i + 1, v)
    BY <1>7, <2>1 DEF UnsetElement, Releases
  <2> HIDE DEF g
  <2>4. /\ DOMAIN g.slot = DOMAIN arr[o].slot
        /\ DOMAIN g.slot = 0..(arr[o].extent - 1) /\ arr[o].extent \in Nat
    BY <2>1, <2>2, PartsOfSound
  <2>5. HeldBy(g, v) = HeldBy(arr[o], v) \ {i}
    <3>1. \A j \in DOMAIN g.slot :
            g.slot[j] = v <=> j # i /\ arr[o].slot[j] = v
      BY <2>1, <2>2, <2>4, SlotAssumption
    <3>2. Ctdt(g)
      BY <2>1, <2>2 DEF Ctdt
    <3> QED  BY <2>1, <2>4, <3>1, <3>2 DEF HeldBy
  <2>6. i \in HeldBy(arr[o], v) <=> arr[o].slot[i] = v
    BY <2>1, <2>4 DEF HeldBy
  <2>7. Cardinality(HeldBy(g, v)) = IF i \in HeldBy(arr[o], v)
                                      THEN Cardinality(HeldBy(arr[o], v)) - 1
                                      ELSE Cardinality(HeldBy(arr[o], v))
    <3>1. IsFiniteSet(HeldBy(arr[o], v))
      BY <2>1, HeldByFinite
    <3>2. Cardinality(HeldBy(arr[o], v) \ {i})
            = IF i \in HeldBy(arr[o], v)
                THEN Cardinality(HeldBy(arr[o], v)) - 1
                ELSE Cardinality(HeldBy(arr[o], v))
      BY <3>1, FS_RemoveElement
    <3> QED  BY <2>5, <3>2
  <2>8. (rc'[v] - user'[v]) - (rc[v] - user[v])
           >= Cardinality(HeldBy(g, v)) - Cardinality(HeldBy(arr[o], v))
    BY <1>a, <1>b, <2>1, <2>3, <2>6, <2>7, OccursOne
  <2> QED  BY <1>a, <2>2, <2>3, <2>8, CoveredWhen
<1>8. ASSUME NEW o \in Obj, NEW b \in Obj, NEW from \in Nat, Live(o), ~ Live(b),
             NEW g, arr' = [arr EXCEPT ![b] = g], user' = user,
             from <= arr[o].size => g = CopyCtor(arr[o], from),
             ~ (from <= arr[o].size) => g = EtypeCtor(arr[o].kind),
             Retains(arr[o], from, arr[o].size)
      PROVE  /\ IsFiniteSet(HeldIn(v)')
             /\ rc'[v] >= user'[v] + Cardinality(HeldIn(v)')
  <2>1. Sound(arr[o]) /\ arr[o].size \in Nat /\ arr[o].kind \in Kind
    BY <1>0, <1>8, PartsOfSound
  <2>2. Sound(g) /\ g.kind = arr[o].kind
    BY <1>8, <2>1, CopyCtorSound, EtypeCtorSound
  <2>3. Occurs(arr[o], from, arr[o].size, v) \in Nat
    BY <2>1, OccursNat
  <2>4. rc'[v] = IF Ctdt(arr[o]) THEN rc[v] + Occurs(arr[o], from, arr[o].size, v)
                                 ELSE rc[v]
    BY <1>8 DEF Retains
  <2>5. Cardinality(HeldBy(g, v)) \in Nat
    BY <2>2, HeldByFinite
  <2>6. Cardinality(HeldBy(g, v)) <= rc'[v] - rc[v]
    <3>1. CASE Ctdt(arr[o]) /\ from <= arr[o].size
      BY <1>a, <1>8, <2>1, <2>3, <2>4, <3>1, CopyHeld
    <3>2. CASE Ctdt(arr[o]) /\ ~ (from <= arr[o].size)
      <4>1. g.extent = 0
        BY <1>8, <2>1, <3>2, EtypeCtorSound
      <4>2. DOMAIN g.slot = {}
        BY <2>2, <4>1, PartsOfSound
      <4>3. HeldBy(g, v) = {}
        BY <4>2 DEF HeldBy
      <4> QED  BY <1>a, <2>3, <2>4, <3>2, <4>3, FS_EmptySet
    <3>3. CASE ~ Ctdt(arr[o])
      BY <1>a, <1>c, <2>2, <2>4, <3>3 DEF Ctdt
    <3> QED  BY <3>1, <3>2, <3>3
  <2>7. (rc'[v] - user'[v]) - (rc[v] - user[v])
           >= Cardinality(HeldBy(g, v)) - Cardinality(HeldBy(arr[b], v))
    BY <1>a, <1>b, <1>8, <2>5, <2>6
  <2> QED  BY <1>a, <1>8, <2>2, <2>7, CoveredWhen
<1>9. ASSUME NEW o \in Obj, NEW b \in Obj,
             Clone(o, b) \/ \E from \in 0..MaxSize : Sub(o, b, from)
      PROVE  /\ IsFiniteSet(HeldIn(v)')
             /\ rc'[v] >= user'[v] + Cardinality(HeldIn(v)')
  <2>1. CASE Clone(o, b)
    <3> DEFINE g == CopyCtor(arr[o], 0)
    <3>1. /\ Live(o) /\ ~ Live(b) /\ arr' = [arr EXCEPT ![b] = g]
          /\ user' = user /\ Retains(arr[o], 0, arr[o].size)
      BY <2>1 DEF Clone
    <3>2. 0 <= arr[o].size
      BY <1>0, <3>1
    <3> HIDE DEF g
    <3>3. g = CopyCtor(arr[o], 0)
      BY DEF g
    <3> QED  BY <1>8, <3>1, <3>2, <3>3
  <2>2. ASSUME NEW from \in 0..MaxSize, Sub(o, b, from)
        PROVE  /\ IsFiniteSet(HeldIn(v)')
             /\ rc'[v] >= user'[v] + Cardinality(HeldIn(v)')
    <3> DEFINE g == IF from < arr[o].size THEN CopyCtor(arr[o], from)
                                          ELSE EtypeCtor(arr[o].kind)
    <3>1. /\ Live(o) /\ ~ Live(b) /\ arr' = [arr EXCEPT ![b] = g]
          /\ user' = user /\ Retains(arr[o], from, arr[o].size)
      BY <2>2 DEF Sub
    <3>2. from \in Nat /\ arr[o].size \in Nat
      BY <1>0, <3>1, CarrayAssumption
    <3>3. CopyCtor(arr[o], arr[o].size) = EtypeCtor(arr[o].kind)
      BY <3>2 DEF CopyCtor, PcaAlloc
    <3>4. /\ from <= arr[o].size => g = CopyCtor(arr[o], from)
          /\ ~ (from <= arr[o].size) => g = EtypeCtor(arr[o].kind)
      BY <3>2, <3>3
    <3> HIDE DEF g
    <3> QED  BY <1>8, <3>1, <3>2, <3>4
  <2> QED  BY <1>9, <2>1, <2>2
<1>10. ASSUME NEW o \in Obj, FreeStorage(o)
       PROVE  /\ IsFiniteSet(HeldIn(v)')
              /\ rc'[v] >= user'[v] + Cardinality(HeldIn(v)')
  <2>1. arr' = [arr EXCEPT ![o] = Gone] /\ user' = user /\ rc' = rc
    BY <1>10 DEF FreeStorage
  <2>2. ~ Ctdt(Gone)
    BY ArrayFields DEF Gone, EtypeCtor, Ctdt
  <2>3. (rc'[v] - user'[v]) - (rc[v] - user[v])
           >= Cardinality(HeldBy(Gone, v)) - Cardinality(HeldBy(arr[o], v))
    BY <1>a, <1>b, <1>c, <2>1, <2>2
  <2> QED  BY <1>a, <2>1, <2>3, CoveredWhen
<1>11. ASSUME NEW w \in Value, NewValue(w)
       PROVE  /\ IsFiniteSet(HeldIn(v)')
              /\ rc'[v] >= user'[v] + Cardinality(HeldIn(v)')
  <2> DEFINE d == IF v = w THEN 1 ELSE 0
  <2>1. d \in Nat /\ user'[v] = user[v] + d /\ rc'[v] = rc[v] + d /\ arr' = arr
    BY <1>11 DEF NewValue, CountsOK
  <2> QED  BY <1>d, <2>1
<1>12. ASSUME NEW w \in Value, ForgetValue(w)
       PROVE  /\ IsFiniteSet(HeldIn(v)')
              /\ rc'[v] >= user'[v] + Cardinality(HeldIn(v)')
  <2>1. HeldIn(v)' = HeldIn(v)
    BY <1>12 DEF ForgetValue, HeldIn, Live, Ctdt
  <2>2. /\ IsFiniteSet(HeldIn(v)) /\ Cardinality(HeldIn(v)) \in Nat
        /\ rc[v] >= user[v] + Cardinality(HeldIn(v))
    BY FS_CardinalityType DEF Covered
  <2>3. rc'[v] - user'[v] = rc[v] - user[v]
    BY <1>12 DEF ForgetValue, CountsOK
  <2> QED  BY <1>a, <2>1, <2>2, <2>3
<1>13. CASE UNCHANGED vars
  BY <1>13, <1>a, <1>d DEF vars
<1> QED
  BY <1>1, <1>2, <1>3, <1>4, <1>5, <1>6, <1>7, <1>9, <1>10, <1>11, <1>12,
     <1>13 DEF Next

LEMMA CoveredInit == Init => Covered
<1> SUFFICES ASSUME Init, NEW v \in Value
             PROVE  /\ IsFiniteSet(HeldIn(v))
                    /\ rc[v] >= user[v] + Cardinality(HeldIn(v))
  BY DEF Covered
<1>1. \A o \in Obj : ~ Ctdt(arr[o])
  BY ArrayFields DEF Init, Gone, EtypeCtor, Ctdt
<1>2. HeldIn(v) = {}
  BY <1>1 DEF HeldIn
<1> QED  BY <1>2, FS_EmptySet DEF Init

\* No reference is released twice: a value has at least as many references as
\* variables and elements hold it, whatever methods are called in whatever
\* order, on any number of arrays that share values.
THEOREM ReferencesCovered == Spec => []RefsCovered
<1>1. Covered => RefsCovered
  BY DEF Covered, RefsCovered
<1> QED  BY InvInit, InvStep, CoveredInit, CoveredStep, <1>1, PTL DEF Spec

-----------------------------------------------------------------------------
(***************************************************************************)
(* The elements.                                                           *)
(***************************************************************************)

\* What KeepsElements asks of an array before and after a step.
Kept(g, h) ==
    /\ Cardinality(Rewritten(g, h)) <= 1
    /\ g.size # h.size => Rewritten(g, h) = {}

LEMMA KeptWhenSame ==
  ASSUME NEW g, Sound(g), NEW h,
         \A i \in 0..(g.size - 1) : i < h.size => h.slot[i] = g.slot[i]
  PROVE  Kept(g, h)
<1>1. DOMAIN g.slot = 0..(g.extent - 1) /\ g.size \in Nat /\ g.extent \in Nat
  BY PartsOfSound
<1>2. Rewritten(g, h) = {}
  BY <1>1 DEF Rewritten
<1> QED  BY <1>2, FS_EmptySet DEF Kept

LEMMA KeptWhenOne ==
  ASSUME NEW g, NEW h, h.size = g.size, NEW i,
         \A j \in DOMAIN g.slot \cap DOMAIN h.slot :
            j # i => h.slot[j] = g.slot[j]
  PROVE  Kept(g, h)
<1>1. Rewritten(g, h) \subseteq {i}
  BY DEF Rewritten
<1>2. IsFiniteSet({i}) /\ Cardinality({i}) = 1
  BY FS_Singleton
<1>3. Cardinality(Rewritten(g, h)) <= 1
  BY <1>1, <1>2, FS_Subset
<1> QED  BY <1>3 DEF Kept

\* No action disturbs the elements of an array that had a capacity.
LEMMA KeepsStep ==
  ASSUME Inv, [Next]_vars, NEW o \in Obj,
         Live(o), arr[o].capacity > 0, arr'[o].capacity > 0
  PROVE  Kept(arr[o], arr'[o])
<1>0. /\ Sound(arr[o]) /\ arr[o].size \in Nat /\ arr[o].extent \in Nat
      /\ arr[o].size <= arr[o].extent
      /\ DOMAIN arr[o].slot = 0..(arr[o].extent - 1)
  BY LiveSound, PartsOfSound
<1>a. ASSUME NEW b \in Obj, NEW g, arr' = [arr EXCEPT ![b] = g]
      PROVE  arr'[o] = IF o = b THEN g ELSE arr[o]
  BY <1>a DEF Inv, TypeOK
<1>b. ASSUME arr'[o] = arr[o]
      PROVE  Kept(arr[o], arr'[o])
  BY <1>0, <1>b, KeptWhenSame
<1>1. ASSUME NEW b \in Obj, NEW k \in Kinds, NEW n \in CtorSizes,
             Construct(b, k, n)
      PROVE  Kept(arr[o], arr'[o])
  <2> DEFINE e == PcaAlloc(EtypeCtor(k), n)
             g == InitElems(e, 0, n)
  <2>1. n \in Nat /\ k \in Kind
    BY CarrayAssumption
  <2>2. Sound(e) /\ e.capacity = 0
    BY <2>1, PcaAllocSound
  <2>3. g.capacity = 0
    BY <2>1, <2>2, InitElemsSound
  <2>4. arr'[o] = IF o = b THEN g ELSE arr[o]
    BY <1>1, <1>a DEF Construct
  <2> HIDE DEF e, g
  <2> QED  BY <1>b, <2>3, <2>4
<1>2. ASSUME NEW b \in Obj, NEW n \in 0..MaxSize, Resize(b, n)
      PROVE  Kept(arr[o], arr'[o])
  <2>1. n \in Nat
    BY CarrayAssumption
  <2>2. arr'[o] = IF o = b THEN GenResize(arr[o], n) ELSE arr[o]
    BY <1>2, <1>a DEF Resize
  <2> QED  BY <1>0, <1>b, <2>1, <2>2, GenResizeKeeps, KeptWhenSame
<1>3. ASSUME NEW b \in Obj, NEW n \in 0..MaxReserve, Reserve(b, n)
      PROVE  Kept(arr[o], arr'[o])
  <2>1. n \in Nat
    BY CarrayAssumption
  <2>2. arr'[o] = IF o = b THEN PcaReserve(arr[o], n) ELSE arr[o]
    BY <1>3, <1>a DEF Reserve
  <2>3. Keeps(arr[o], PcaReserve(arr[o], n), arr[o].size)
    BY <1>0, <2>1, PcaReserveElements
  <2> QED  BY <1>0, <1>b, <2>2, <2>3, KeptWhenSame DEF Keeps
<1>4. ASSUME NEW b \in Obj, NEW w \in Value, Push(b, w)
      PROVE  Kept(arr[o], arr'[o])
  <2> DEFINE i == arr[o].size
             h == GenResize(arr[o], i + 1)
             g == IF Ctdt(h) \/ w \in Storable THEN Written(h, i, w) ELSE h
  <2>1. CASE b # o
    <3>1. arr'[o] = arr[o]
      BY <1>4, <2>1 DEF Push, Inv, TypeOK
    <3> QED  BY <1>b, <3>1
  <2>2. CASE b = o
    <3>1. arr'[o] = g
      BY <1>4, <2>2 DEF Push, Inv, TypeOK
    <3>2. i + 1 \in Nat /\ i + 1 > 0
      BY <1>0
    <3>3. /\ Sound(h) /\ h.size = i + 1
          /\ \A j \in 0..(i - 1) : j < h.size => h.slot[j] = arr[o].slot[j]
      <4> HIDE DEF i
      <4>1. h.size = i + 1 /\ Sound(h)
        BY <1>0, <3>2, GenResizeSound
      <4>2. ASSUME NEW j \in 0..(arr[o].size - 1), j < h.size
            PROVE  h.slot[j] = arr[o].slot[j]
        BY <1>0, <3>2, <4>2, GenResizeKeeps
      <4> QED  BY <4>1, <4>2 DEF i
    <3> HIDE DEF h
    <3>4. Written(h, i, w).slot = [h.slot EXCEPT ![i] = w]
      BY ArrayFields DEF Written
    <3>5. DOMAIN h.slot = 0..(h.extent - 1) /\ h.extent \in Nat
          /\ h.size <= h.extent
      BY <3>3, PartsOfSound
    <3>6. ASSUME NEW j \in 0..(i - 1) PROVE g.slot[j] = arr[o].slot[j]
      <4>1. j \in DOMAIN h.slot /\ j # i /\ h.slot[j] = arr[o].slot[j]
        BY <1>0, <3>3, <3>5
      <4> QED  BY <3>4, <4>1
    <3> QED  BY <1>0, <3>1, <3>6, KeptWhenSame
  <2> QED  BY <2>1, <2>2
<1>5. ASSUME NEW b \in Obj, NEW i \in Index(b), NEW w \in Value,
             SetElement(b, i, w)
      PROVE  Kept(arr[o], arr'[o])
  <2>1. arr'[o] = IF o = b THEN Written(arr[o], i, w) ELSE arr[o]
    BY <1>5, <1>a DEF SetElement
  <2>2. LET g == Written(arr[o], i, w)
        IN  g.slot = [arr[o].slot EXCEPT ![i] = w] /\ g.size = arr[o].size
    BY ArrayFields DEF Written
  <2> QED  BY <1>b, <2>1, <2>2, KeptWhenOne
<1>6. ASSUME NEW b \in Obj, NEW i \in Index(b), ReadElement(b, i)
      PROVE  Kept(arr[o], arr'[o])
  BY <1>6, <1>b DEF ReadElement
<1>7. ASSUME NEW b \in Obj, NEW i \in Index(b), UnsetElement(b, i)
      PROVE  Kept(arr[o], arr'[o])
  <2>1. arr'[o] = IF o = b THEN InitElems(arr[o], i, i + 1) ELSE arr[o]
    BY <1>7, <1>a DEF UnsetElement
  <2>2. CASE o = b
    <3>1. i \in Nat
      BY <1>0, <1>7, <2>2 DEF Index
    <3> DEFINE g == InitElems(arr[o], i, i + 1)
    <3>2. /\ g.size = arr[o].size /\ Sound(g) /\ g.extent = arr[o].extent
          /\ \A j \in DOMAIN g.slot :
               g.slot[j] = IF i <= j /\ j < i + 1 THEN Blank
                                                  ELSE arr[o].slot[j]
      BY <1>0, <3>1, InitElemsSound, InitElemsElements
    <3> HIDE DEF g
    <3>3. DOMAIN g.slot \subseteq Int
      BY <3>2, PartsOfSound
    <3>4. \A j \in DOMAIN g.slot : j # i => g.slot[j] = arr[o].slot[j]
      BY <3>1, <3>2, <3>3
    <3> QED  BY <2>1, <2>2, <3>2, <3>4, KeptWhenOne DEF g
  <2> QED  BY <1>b, <2>1, <2>2
<1>8. ASSUME NEW c \in Obj, NEW b \in Obj,
             Clone(c, b) \/ \E from \in 0..MaxSize : Sub(c, b, from)
      PROVE  Kept(arr[o], arr'[o])
  <2>1. b # o
    BY <1>8 DEF Clone, Sub
  <2>2. arr'[o] = arr[o]
    BY <1>8, <2>1 DEF Clone, Sub, Inv, TypeOK
  <2> QED  BY <1>b, <2>2
<1>9. ASSUME NEW b \in Obj, FreeStorage(b)
      PROVE  Kept(arr[o], arr'[o])
  <2>1. arr'[o] = IF o = b THEN Gone ELSE arr[o]
    BY <1>9, <1>a DEF FreeStorage
  <2>2. Gone.capacity = 0
    BY ArrayFields DEF Gone, EtypeCtor
  <2> QED  BY <1>b, <2>1, <2>2
<1>10. ASSUME NEW w \in Value, NewValue(w) \/ ForgetValue(w)
       PROVE  Kept(arr[o], arr'[o])
  BY <1>10, <1>b DEF NewValue, ForgetValue
<1>11. CASE UNCHANGED vars
  BY <1>11, <1>b DEF vars
<1> QED
  BY <1>1, <1>2, <1>3, <1>4, <1>5, <1>6, <1>7, <1>8, <1>9, <1>10, <1>11
     DEF Next

\* Growth, shrinking and the reuse of spare room never disturb an element of
\* an array whose block pca_reserve made.
THEOREM ElementsKept == Spec => KeepsElements
<1>1. Inv /\ [Next]_vars
        => [\A o \in Obj :
              Live(o) /\ arr[o].capacity > 0 /\ arr'[o].capacity > 0
              => /\ Cardinality(Rewritten(arr[o], arr'[o])) <= 1
                 /\ arr[o].size # arr'[o].size
                      => Rewritten(arr[o], arr'[o]) = {}]_vars
  BY KeepsStep DEF Kept
<1> QED  BY InvInit, InvStep, <1>1, PTL DEF Spec, KeepsElements

-----------------------------------------------------------------------------
(***************************************************************************)
(* The refinement: each action is one of the abstract lists, or none.      *)
(***************************************************************************)

\* The parts of the list that an array stands for.
LEMMA ListParts ==
  ASSUME NEW g, Sound(g)
  PROVE  LET a == AsList(g)
         IN  /\ a = L!List(g.kind, g.capacity = 0 /\ g.size > 0, g.size, a.item)
             /\ a.kind = g.kind /\ a.len = g.size
             /\ a.fixed = (g.capacity = 0 /\ g.size > 0)
             /\ a.item \in [0..(g.size - 1) -> Slot]
             /\ \A i \in 0..(g.size - 1) : a.item[i] = g.slot[i]
<1>1. [i \in 0..(g.size - 1) |-> g.slot[i]] \in [0..(g.size - 1) -> Slot]
  BY PartsOfSound
<1> QED  BY <1>1 DEF AsList, L!List

LEMMA GoneList == AsList(Gone) = L!Gone
<1>1. /\ Gone.kind = "gone" /\ Gone.size = 0 /\ Gone.capacity = 0
  BY ArrayFields DEF Gone, EtypeCtor
<1>2. [i \in 0..(0 - 1) |-> Gone.slot[i]] = [i \in {} |-> Garbage]
  OBVIOUS
<1> QED  BY <1>1, <1>2 DEF AsList, L!Gone, L!Fresh, L!List

LEMMA ListsRead ==
  ASSUME Inv, NEW o \in Obj, Live(o)
  PROVE  Lists[o] = AsList(arr[o]) /\ L!Live(o)
<1>1. Sound(arr[o])
  BY LiveSound
<1>2. Lists[o] = AsList(arr[o])
  BY DEF Lists
<1>3. AsList(arr[o]).kind = arr[o].kind /\ arr[o].kind # "gone"
  BY <1>1, ListParts, PartsOfSound DEF Kind
<1> QED  BY <1>2, <1>3 DEF L!Live

\* When one array changes, one list does.
LEMMA OneList ==
  ASSUME Inv, NEW o \in Obj, NEW g, arr' = [arr EXCEPT ![o] = g]
  PROVE  /\ Lists' = [Lists EXCEPT ![o] = AsList(g)]
         /\ L!Len1(o) = AsList(g).len /\ L!Items1(o) = AsList(g).item
<1>1. \A b \in Obj : arr'[b] = IF b = o THEN g ELSE arr[b]
  BY DEF Inv, TypeOK
<1>2. Lists' = [b \in Obj |-> AsList(arr'[b])]
  BY DEF Lists
<1>3. Lists' = [Lists EXCEPT ![o] = AsList(g)]
  <2>1. ASSUME NEW b \in Obj
        PROVE  AsList(arr'[b]) = IF b = o THEN AsList(g) ELSE AsList(arr[b])
    BY <1>1
  <2>2. Lists = [b \in Obj |-> AsList(arr[b])]
    BY DEF Lists
  <2> QED  BY <1>2, <2>1, <2>2
<1>4. Lists'[o] = AsList(g)
  BY <1>1, <1>2
<1> QED  BY <1>3, <1>4 DEF L!Len1, L!Items1

\* An array that moves to another block with its elements is the same list.
LEMMA SameList ==
  ASSUME NEW g, Sound(g), NEW h, Sound(h), h.kind = g.kind, h.size = g.size,
         Keeps(g, h, g.size),
         h.capacity = 0 /\ h.size > 0 <=> g.capacity = 0 /\ g.size > 0
  PROVE  AsList(h) = AsList(g)
<1>1. [i \in 0..(h.size - 1) |-> h.slot[i]] = [i \in 0..(g.size - 1) |-> g.slot[i]]
  BY DEF Keeps
<1> QED  BY <1>1 DEF AsList

\* Room for a fixed list: it loses what it holds.
LEMMA RoomForFixed ==
  ASSUME Inv, NEW o \in Obj, Live(o), arr[o].capacity = 0, arr[o].size > 0,
         NEW h, Sound(h), h.kind = arr[o].kind, h.size >= arr[o].size,
         h.capacity > 0, Loses(h, arr[o].size), arr' = [arr EXCEPT ![o] = h]
  PROVE  L!Next
<1> DEFINE a == AsList(arr[o])
           b == AsList(h)
<1>1. Sound(arr[o]) /\ arr[o].size \in Nat /\ h.size \in Nat
  BY LiveSound, PartsOfSound
<1>2. /\ Lists[o] = a /\ L!Live(o)
      /\ a.kind = arr[o].kind /\ a.len = arr[o].size /\ a.fixed = TRUE
  BY <1>1, ListsRead, ListParts
<1>3. /\ b = L!List(h.kind, FALSE, h.size, b.item) /\ b.len = h.size
      /\ b.item \in [0..(h.size - 1) -> Slot]
      /\ \A i \in 0..(h.size - 1) : b.item[i] = h.slot[i]
  <2>1. (h.capacity = 0 /\ h.size > 0) = FALSE
    OBVIOUS
  <2> QED  BY <2>1, ListParts
<1>4. /\ Lists' = [Lists EXCEPT ![o] = b]
      /\ L!Len1(o) = b.len /\ L!Items1(o) = b.item
  BY OneList
<1>5. \A i \in 0..(a.len - 1) : b.item[i] = Garbage
  <2>1. ASSUME NEW i \in 0..(arr[o].size - 1)
        PROVE  b.item[i] = Garbage
    <3>1. h.slot[i] = Garbage
      BY DEF Loses
    <3>2. i \in 0..(h.size - 1)
      BY <1>1
    <3> QED  BY <1>3, <3>1, <3>2
  <2> QED  BY <1>2, <2>1
<1> HIDE DEF a, b
<1>6. L!Forget(o, b.len, b.item)
  BY <1>1, <1>2, <1>3, <1>4, <1>5 DEF L!Forget, L!Slot, Slot
<1> QED  BY <1>4, <1>6 DEF L!Next

\* Room for any other list, which gets longer.
LEMMA RoomForMore ==
  ASSUME Inv, NEW o \in Obj, Live(o), arr[o].capacity > 0 \/ arr[o].size = 0,
         NEW h, Sound(h), h.kind = arr[o].kind, h.size > arr[o].size,
         h.capacity > 0, Keeps(arr[o], h, arr[o].size),
         Ctdt(arr[o]) => \A i \in arr[o].size..(h.size - 1) : h.slot[i] = Blank,
         arr' = [arr EXCEPT ![o] = h]
  PROVE  L!Next
<1> DEFINE a == AsList(arr[o])
           b == AsList(h)
<1>1. /\ Sound(arr[o]) /\ arr[o].size \in Nat /\ h.size \in Nat
      /\ arr[o].kind \in Kind /\ arr[o].capacity \in Nat
  BY LiveSound, PartsOfSound
<1>2. /\ Lists[o] = a /\ L!Live(o)
      /\ a.kind = arr[o].kind /\ a.len = arr[o].size /\ a.fixed = FALSE
      /\ \A i \in 0..(arr[o].size - 1) : a.item[i] = arr[o].slot[i]
  <2>1. (arr[o].capacity = 0 /\ arr[o].size > 0) = FALSE
    BY <1>1
  <2> QED  BY <1>1, <2>1, ListsRead, ListParts
<1>3. /\ b = L!List(h.kind, FALSE, h.size, b.item) /\ b.len = h.size
      /\ b.item \in [0..(h.size - 1) -> Slot]
      /\ \A i \in 0..(h.size - 1) : b.item[i] = h.slot[i]
  <2>1. (h.capacity = 0 /\ h.size > 0) = FALSE
    OBVIOUS
  <2> QED  BY <2>1, ListParts
<1>4. /\ Lists' = [Lists EXCEPT ![o] = b]
      /\ L!Len1(o) = b.len /\ L!Items1(o) = b.item
  BY OneList
<1>5. ASSUME NEW i \in 0..(b.len - 1)
      PROVE  \/ i < a.len /\ b.item[i] = a.item[i]
             \/ i >= a.len /\ a.kind = "packed"
             \/ i >= a.len /\ b.item[i] = Blank
  <2>1. CASE i < a.len
    BY <1>1, <1>2, <1>3, <2>1 DEF Keeps
  <2>2. CASE i >= a.len /\ Ctdt(arr[o])
    BY <1>1, <1>2, <1>3, <2>2
  <2>3. CASE i >= a.len /\ ~ Ctdt(arr[o])
    BY <1>1, <1>2, <2>3 DEF Ctdt, Kind
  <2>4. i < a.len \/ i >= a.len
    BY <1>1, <1>2, <1>3
  <2> QED  BY <2>1, <2>2, <2>3, <2>4
<1> HIDE DEF a, b
<1>6. L!Extend(o, b.len, b.item)
  BY <1>1, <1>2, <1>3, <1>4, <1>5 DEF L!Extend, L!Slot, Slot
<1> QED  BY <1>4, <1>6 DEF L!Next

\* resize
LEMMA ResizeImplements ==
  ASSUME Inv, NEW o \in Obj, NEW n \in Nat, Resize(o, n)
  PROVE  L!Next \/ Lists' = Lists
<1> DEFINE g == arr[o]
           h == GenResize(g, n)
<1>1. /\ Live(o) /\ Sound(g) /\ g.size \in Nat /\ g.capacity \in Nat
      /\ g.kind \in Kind /\ g.extent \in Nat /\ arr' = [arr EXCEPT ![o] = h]
  BY LiveSound, PartsOfSound DEF Resize
<1>2. Sound(h) /\ h.kind = g.kind
  BY <1>1, GenResizeSound
<1>3. CASE n = g.size
  <2>1. arr' = arr
    BY <1>1, <1>3 DEF GenResize, Inv, TypeOK
  <2> QED  BY <2>1 DEF Lists
<1>4. CASE n > g.size
  <2>1. h = Grown(g, n)
    BY <1>1, <1>4 DEF GenResize
  <2> HIDE DEF h
  <2>2. /\ h.size = n /\ h.capacity > 0
        /\ IF g.capacity > 0 THEN Keeps(g, h, g.size) ELSE Loses(h, g.size)
        /\ Ctdt(g) => \A i \in g.size..(n - 1) : h.slot[i] = Blank
    BY <1>1, <1>4, <2>1, GrownSound, GrownElements
  <2>3. CASE g.capacity = 0 /\ g.size > 0
    <3>1. Loses(h, g.size) /\ h.size >= g.size
      BY <1>1, <1>4, <2>2, <2>3
    <3> QED  BY <1>1, <1>2, <2>2, <2>3, <3>1, RoomForFixed
  <2>4. CASE ~ (g.capacity = 0 /\ g.size > 0)
    <3>1. Keeps(g, h, g.size) /\ (g.capacity > 0 \/ g.size = 0)
      BY <1>1, <2>2, <2>4 DEF Keeps
    <3> QED  BY <1>1, <1>2, <1>4, <2>2, <3>1, RoomForMore
  <2> QED  BY <2>3, <2>4
<1>5. CASE n < g.size /\ n = 0 /\ ~ Ctdt(g)
  <2>1. h = Emptied(g)
    BY <1>1, <1>5 DEF GenResize
  <2> HIDE DEF h
  <2>2. /\ h.size = g.size /\ h.capacity > 0
        /\ IF g.capacity > 0 THEN Keeps(g, h, g.size) ELSE Loses(h, g.size)
    <3>1. /\ h.size = g.size /\ h.capacity = h.extent
          /\ IF g.capacity > 0 THEN Keeps(g, h, g.size) ELSE Loses(h, g.size)
      BY <1>1, <1>5, <2>1, EmptiedSound, EmptiedElements
    <3>2. h.size <= h.extent /\ h.extent \in Nat
      BY <1>2, PartsOfSound
    <3> QED  BY <1>1, <1>5, <3>1, <3>2
  <2>3. CASE g.capacity = 0
    <3>1. Loses(h, g.size) /\ h.size >= g.size /\ g.size > 0
      BY <1>1, <1>5, <2>2, <2>3
    <3> QED  BY <1>1, <1>2, <2>2, <2>3, <3>1, RoomForFixed
  <2>4. CASE g.capacity > 0
    <3>1. AsList(h) = AsList(g)
      BY <1>1, <1>2, <2>2, <2>4, SameList
    <3>2. Lists' = [Lists EXCEPT ![o] = Lists[o]]
      <4>1. Lists' = [Lists EXCEPT ![o] = AsList(h)]
        BY <1>1, OneList
      <4>2. Lists[o] = AsList(g)
        BY <1>1, ListsRead
      <4> QED  BY <3>1, <4>1, <4>2
    <3> QED  BY <3>2 DEF Lists
  <2> QED  BY <1>1, <2>3, <2>4
<1>6. CASE n < g.size /\ (n > 0 \/ Ctdt(g))
  <2>1. /\ h.size = n /\ Keeps(g, h, n)
        /\ (h.capacity = 0 /\ n > 0) = (g.capacity = 0 /\ n > 0)
    <3>1. CASE n > 0
      <4>1. h = Shrunk(g, n)
        BY <1>1, <1>6, <3>1 DEF GenResize
      <4> HIDE DEF h
      <4> QED  BY <1>1, <1>6, <4>1, ShrunkSound, ShrunkElements
    <3>2. CASE n = 0
      BY <1>1, <1>6, <3>2, GenResizeSound DEF Keeps
    <3> QED  BY <3>1, <3>2
  <2> HIDE DEF h
  <2> DEFINE a == AsList(g)
             b == AsList(h)
  <2>2. /\ Lists[o] = a /\ L!Live(o)
        /\ a.kind = g.kind /\ a.len = g.size
        /\ a.fixed = (g.capacity = 0 /\ g.size > 0)
        /\ \A i \in 0..(g.size - 1) : a.item[i] = g.slot[i]
    BY <1>1, ListsRead, ListParts
  <2>3. /\ Lists' = [Lists EXCEPT ![o] = b] /\ L!Len1(o) = b.len
    BY <1>1, OneList
  <2>4. /\ b = L!List(h.kind, h.capacity = 0 /\ h.size > 0, h.size, b.item)
        /\ b.len = n /\ b.item \in [0..(n - 1) -> Slot]
        /\ \A i \in 0..(n - 1) : b.item[i] = h.slot[i]
    BY <1>2, <2>1, ListParts
  <2> HIDE DEF a, b
  <2>5. b.item = [i \in 0..(n - 1) |-> a.item[i]]
    <3>1. \A i \in 0..(n - 1) : b.item[i] = a.item[i]
      BY <1>1, <1>6, <2>1, <2>2, <2>4 DEF Keeps
    <3> QED  BY <2>4, <3>1
  <2>6. (h.capacity = 0 /\ h.size > 0) = (a.fixed /\ n > 0)
    <3>1. (h.capacity = 0 /\ h.size > 0) = (g.capacity = 0 /\ n > 0)
      BY <2>1
    <3>2. CASE n > 0
      <4>1. g.size > 0
        BY <1>1, <1>6
      <4>2. a.fixed = (g.capacity = 0)
        BY <2>2, <4>1
      <4> QED  BY <3>1, <3>2, <4>2
    <3>3. CASE ~ (n > 0)
      <4>1. (g.capacity = 0 /\ n > 0) = FALSE /\ (a.fixed /\ n > 0) = FALSE
        BY <3>3
      <4> QED  BY <3>1, <4>1
    <3> QED  BY <3>2, <3>3
  <2>7. b = L!List(a.kind, a.fixed /\ n > 0, n, [i \in 0..(n - 1) |-> a.item[i]])
    BY <1>2, <2>1, <2>2, <2>4, <2>5, <2>6
  <2>8. n = 0 => a.kind = "mixed"
    BY <1>6, <2>2 DEF Ctdt
  <2>9. L!Truncate(o, n)
    BY <1>6, <2>2, <2>3, <2>7, <2>8 DEF L!Truncate
  <2> QED  BY <2>3, <2>4, <2>9 DEF L!Next
<1> QED  BY <1>1, <1>3, <1>4, <1>5, <1>6

\* The constructor makes a fixed list of null or zero elements.
LEMMA ConstructImplements ==
  ASSUME Inv, NEW o \in Obj, NEW k \in Kind, NEW n \in Nat, Construct(o, k, n)
  PROVE  L!Next
<1> DEFINE p == PcaAlloc(EtypeCtor(k), n)
           h == InitElems(p, 0, n)
           b == AsList(h)
<1>1. Sound(p) /\ p.kind = k /\ p.size = n /\ p.extent = n /\ p.capacity = 0
  BY PcaAllocSound
<1>2. arr' = [arr EXCEPT ![o] = h]
  BY DEF Construct
<1> HIDE DEF p
<1>3. /\ Sound(h) /\ h.kind = k /\ h.size = n /\ h.extent = n
      /\ h.capacity = 0
      /\ \A i \in DOMAIN h.slot :
            h.slot[i] = IF 0 <= i /\ i < n THEN Blank ELSE p.slot[i]
  BY <1>1, InitElemsSound, InitElemsElements
<1> HIDE DEF h
<1>4. ASSUME NEW i \in 0..(n - 1) PROVE h.slot[i] = Blank
  <2>1. i \in DOMAIN h.slot
    BY <1>3, PartsOfSound
  <2> QED  BY <1>3, <2>1
<1>5. [i \in 0..(n - 1) |-> h.slot[i]] = [i \in 0..(n - 1) |-> Blank]
  BY <1>4
<1>6. b = L!Fresh(k, n, [i \in 0..(n - 1) |-> Blank])
  <2>1. (h.capacity = 0 /\ h.size > 0) = (n > 0)
    BY <1>3
  <2> QED  BY <1>3, <1>5, <2>1 DEF AsList, L!Fresh, L!List
<1>7. Lists' = [Lists EXCEPT ![o] = b] /\ L!Len1(o) = n
  <2>1. b.len = n
    BY <1>3, ListParts
  <2> HIDE DEF b
  <2> QED  BY <1>2, <2>1, OneList DEF b
<1> HIDE DEF b
<1>8. L!Make(o, k, n)
  BY <1>6, <1>7 DEF L!Make
<1> QED  BY <1>7, <1>8 DEF L!Next, Kind

\* reserve makes room: nothing to see, or the loss of a fixed list.
LEMMA ReserveImplements ==
  ASSUME Inv, NEW o \in Obj, NEW n \in Nat, Reserve(o, n)
  PROVE  L!Next \/ Lists' = Lists
<1> DEFINE g == arr[o]
           h == PcaReserve(g, n)
<1>1. /\ Live(o) /\ Sound(g) /\ g.size \in Nat /\ g.capacity \in Nat
      /\ arr' = [arr EXCEPT ![o] = h]
  BY LiveSound, PartsOfSound DEF Reserve
<1>2. /\ Sound(h) /\ h.kind = g.kind /\ h.size = g.size
      /\ h.capacity = h.extent
      /\ IF g.capacity > 0 THEN Keeps(g, h, g.size) ELSE Loses(h, g.size)
  BY <1>1, PcaReserveSound, PcaReserveElements
<1> HIDE DEF h
<1>3. g.size > 0 => h.capacity > 0
  BY <1>1, <1>2, PartsOfSound
<1>4. CASE g.capacity = 0 /\ g.size > 0
  <2>1. Loses(h, g.size) /\ h.size >= g.size
    BY <1>1, <1>2, <1>4
  <2> QED  BY <1>1, <1>2, <1>3, <1>4, <2>1, RoomForFixed
<1>5. CASE ~ (g.capacity = 0 /\ g.size > 0)
  <2>1. Keeps(g, h, g.size)
    BY <1>1, <1>2, <1>5 DEF Keeps
  <2>2. ~ (h.capacity = 0 /\ h.size > 0)
    BY <1>2, <1>3
  <2>3. AsList(h) = AsList(g)
    BY <1>1, <1>2, <1>5, <2>1, <2>2, SameList
  <2>4. Lists' = [Lists EXCEPT ![o] = Lists[o]]
    <3>1. Lists' = [Lists EXCEPT ![o] = AsList(h)]
      BY <1>1, OneList
    <3>2. Lists[o] = AsList(g)
      BY <1>1, ListsRead
    <3> QED  BY <2>3, <3>1, <3>2
  <2> QED  BY <2>4 DEF Lists
<1> QED  BY <1>4, <1>5

\* One element is written, and the array stays where it is.
LEMMA OneReplaced ==
  ASSUME Inv, NEW o \in Obj, Live(o), NEW h, Sound(h),
         h.kind = arr[o].kind, h.size = arr[o].size,
         h.capacity = arr[o].capacity,
         NEW i \in 0..(arr[o].size - 1), NEW v \in Value \cup {Blank},
         \A j \in 0..(arr[o].size - 1) :
            h.slot[j] = IF j = i THEN v ELSE arr[o].slot[j],
         arr' = [arr EXCEPT ![o] = h]
  PROVE  L!Next
<1> DEFINE g == arr[o]
           a == AsList(g)
           b == AsList(h)
<1>1. Sound(g)
  BY LiveSound
<1>2. /\ Lists[o] = a /\ L!Live(o) /\ a.len = g.size
      /\ a = L!List(g.kind, g.capacity = 0 /\ g.size > 0, g.size, a.item)
      /\ a.item = [j \in 0..(g.size - 1) |-> g.slot[j]]
  BY <1>1, ListsRead, ListParts DEF AsList
<1>3. /\ b = L!List(g.kind, g.capacity = 0 /\ g.size > 0, g.size, b.item)
      /\ b.item = [j \in 0..(g.size - 1) |-> h.slot[j]]
  BY ListParts DEF AsList
<1> HIDE DEF a, b
<1>4. b.item = [a.item EXCEPT ![i] = v]
  <2>1. [a.item EXCEPT ![i] = v]
          = [j \in 0..(g.size - 1) |-> IF j = i THEN v ELSE g.slot[j]]
    BY <1>2
  <2>2. b.item = [j \in 0..(g.size - 1) |-> IF j = i THEN v ELSE g.slot[j]]
    BY <1>3
  <2> QED  BY <2>1, <2>2
<1>5. b = [a EXCEPT !.item[i] = v]
  BY <1>2, <1>3, <1>4 DEF L!List
<1>6. Lists' = [Lists EXCEPT ![o] = b]
  BY OneList DEF b
<1>7. L!Replace(o, i, v)
  BY <1>2, <1>5, <1>6 DEF L!Replace, Lists
<1> QED  BY <1>2, <1>7 DEF L!Next

\* b becomes a list of what o has from a position on.
LEMMA TailCopied ==
  ASSUME Inv, NEW o \in Obj, Live(o), NEW b \in Obj, ~ Live(b),
         NEW from \in Nat, from <= arr[o].size,
         arr' = [arr EXCEPT ![b] = CopyCtor(arr[o], from)]
  PROVE  L!Next
<1> DEFINE g == arr[o]
           n == g.size - from
           h == CopyCtor(g, from)
           a == AsList(g)
           c == AsList(h)
<1>1. Sound(g) /\ g.size \in Nat /\ n \in Nat
  BY LiveSound, PartsOfSound
<1>2. /\ Lists[o] = a /\ L!Live(o) /\ a.len = g.size /\ a.kind = g.kind
      /\ \A i \in 0..(g.size - 1) : a.item[i] = g.slot[i]
  BY <1>1, ListsRead, ListParts
<1>3. /\ Sound(h) /\ h.kind = g.kind /\ h.size = n /\ h.capacity = 0
      /\ h.extent = n
      /\ \A i \in 0..(h.extent - 1) : h.slot[i] = g.slot[from + i]
  BY <1>1, CopyCtorSound, CopyCtorElements
<1>4. Lists' = [Lists EXCEPT ![b] = c] /\ L!Len1(b) = c.len /\ c.len = n
  <2>1. c.len = n
    BY <1>3, ListParts
  <2> HIDE DEF c, h
  <2> QED  BY <2>1, OneList DEF c, h
<1>5. ~ L!Live(b)
  <2>1. Lists[b] = AsList(Gone)
    BY LiveSound DEF Lists
  <2> QED  BY <2>1, GoneList DEF L!Live, L!Gone, L!Fresh, L!List
<1> HIDE DEF h, a
<1>6. ASSUME NEW i \in 0..(n - 1)
      PROVE  h.slot[i] = a.item[from + i]
  <2>1. from + i \in 0..(g.size - 1)
    BY <1>1
  <2> QED  BY <1>2, <1>3, <2>1
<1>7. [i \in 0..(n - 1) |-> h.slot[i]] = [i \in 0..(n - 1) |-> a.item[from + i]]
  BY <1>6
<1>8. c = L!Fresh(a.kind, n, [i \in 0..(n - 1) |-> a.item[from + i]])
  <2>1. (h.capacity = 0 /\ h.size > 0) = (n > 0)
    BY <1>3
  <2> QED  BY <1>2, <1>3, <1>7, <2>1 DEF AsList, L!Fresh, L!List
<1> HIDE DEF c
<1>9. a.len - n = from
  BY <1>1, <1>2
<1>10. L!CopyTail(o, b, a.len - n)
  <2>1. from \in 0..a.len
    BY <1>1, <1>2
  <2> QED  BY <1>2, <1>4, <1>5, <1>8, <1>9, <2>1 DEF L!CopyTail
<1> QED  BY <1>2, <1>4, <1>10 DEF L!Next

\* Appending, for each of the ways it can go: the list is fixed and loses its
\* elements, the value is refused after the array has grown, or it is written.
LEMMA PushImplements ==
  ASSUME Inv, NEW o \in Obj, NEW v \in Value, Push(o, v)
  PROVE  L!Next
<1> DEFINE g == arr[o]
           n == g.size + 1
           h == GenResize(g, n)
           k == Written(h, g.size, v)
<1>1. /\ Live(o) /\ Sound(g) /\ g.size \in Nat /\ g.capacity \in Nat
      /\ n \in Nat /\ n > g.size
  BY LiveSound, PartsOfSound DEF Push
<1>2. h = Grown(g, n)
  BY <1>1 DEF GenResize
<1>3. /\ Ctdt(h) \/ v \in Storable => arr' = [arr EXCEPT ![o] = k]
      /\ ~ (Ctdt(h) \/ v \in Storable) => arr' = [arr EXCEPT ![o] = h]
  BY DEF Push
<1> HIDE DEF h
<1>4. /\ Sound(h) /\ h.kind = g.kind /\ h.size = n /\ h.capacity > 0
      /\ IF g.capacity > 0 THEN Keeps(g, h, g.size) ELSE Loses(h, g.size)
      /\ Ctdt(g) => \A i \in g.size..(n - 1) : h.slot[i] = Blank
  BY <1>1, <1>2, GrownSound, GrownElements
<1>5. DOMAIN h.slot = 0..(h.extent - 1) /\ h.extent \in Nat /\ g.size < h.extent
  BY <1>1, <1>4, PartsOfSound
<1>6. /\ Sound(k) /\ k.kind = g.kind /\ k.size = n /\ k.capacity > 0
      /\ k.slot = [h.slot EXCEPT ![g.size] = v]
  <2>1. k.slot = [h.slot EXCEPT ![g.size] = v]
    BY ArrayFields DEF Written
  <2> QED  BY <1>1, <1>4, <1>5, <2>1, WrittenSound
<1>7. k.slot[g.size] = v /\ \A i \in 0..(g.size - 1) : k.slot[i] = h.slot[i]
  BY <1>1, <1>5, <1>6
<1> HIDE DEF k
<1>8. PICK r : /\ arr' = [arr EXCEPT ![o] = r]
               /\ r = k \/ (r = h /\ ~ Ctdt(h))
  BY <1>3
<1>9. /\ Sound(r) /\ r.kind = g.kind /\ r.size = n /\ r.capacity > 0
      /\ \A i \in 0..(g.size - 1) : r.slot[i] = h.slot[i]
  BY <1>4, <1>6, <1>7, <1>8
<1>10. CASE g.capacity = 0 /\ g.size > 0
  <2>1. Loses(r, g.size)
    BY <1>4, <1>9, <1>10 DEF Loses
  <2>2. r.size >= g.size
    BY <1>1, <1>9
  <2> QED  BY <1>1, <1>8, <1>9, <1>10, <2>1, <2>2, RoomForFixed
<1>11. CASE ~ (g.capacity = 0 /\ g.size > 0) /\ r # k
  <2>1. Keeps(g, r, g.size)
    BY <1>1, <1>4, <1>9, <1>11 DEF Keeps
  <2>2. ~ Ctdt(g)
    BY <1>4, <1>8, <1>11 DEF Ctdt
  <2>3. r.size > g.size /\ (g.capacity > 0 \/ g.size = 0)
    BY <1>1, <1>9, <1>11
  <2> QED  BY <1>1, <1>8, <1>9, <2>1, <2>2, <2>3, RoomForMore
<1>12. CASE ~ (g.capacity = 0 /\ g.size > 0) /\ r = k
  <2> DEFINE a == AsList(g)
             b == AsList(k)
  <2>1. /\ Lists[o] = a /\ L!Live(o)
        /\ a.kind = g.kind /\ a.len = g.size /\ a.fixed = FALSE
        /\ \A i \in 0..(g.size - 1) : a.item[i] = g.slot[i]
    <3>1. (g.capacity = 0 /\ g.size > 0) = FALSE
      BY <1>12
    <3> QED  BY <1>1, <3>1, ListsRead, ListParts
  <2>2. /\ b = L!List(g.kind, FALSE, n, b.item)
        /\ b.item \in [0..(n - 1) -> Slot]
        /\ \A i \in 0..(n - 1) : b.item[i] = k.slot[i]
    <3>1. (k.capacity = 0 /\ k.size > 0) = FALSE
      BY <1>6
    <3>2. /\ b = L!List(k.kind, FALSE, k.size, b.item)
          /\ b.item \in [0..(k.size - 1) -> Slot]
          /\ \A i \in 0..(k.size - 1) : b.item[i] = k.slot[i]
      BY <1>6, <3>1, ListParts
    <3> HIDE DEF b, n
    <3> QED  BY <1>6, <3>2
  <2>3. Lists' = [Lists EXCEPT ![o] = b]
    BY <1>8, <1>12, OneList
  <2> HIDE DEF a, b
  <2>4. ASSUME NEW i \in 0..g.size
        PROVE  b.item[i] = IF i = g.size THEN v ELSE a.item[i]
    <3>1. CASE i = g.size
      BY <1>1, <1>7, <2>2, <3>1
    <3>2. CASE i # g.size
      <4>1. i \in 0..(g.size - 1) /\ i \in 0..(n - 1)
        BY <1>1, <3>2
      <4>2. h.slot[i] = g.slot[i]
        BY <1>1, <1>4, <1>12, <4>1 DEF Keeps
      <4> QED  BY <1>7, <2>1, <2>2, <3>2, <4>1, <4>2
    <3> QED  BY <3>1, <3>2
  <2>5. b.item = [i \in 0..g.size |-> IF i = g.size THEN v ELSE a.item[i]]
    <3>1. 0..(n - 1) = 0..g.size
      BY <1>1
    <3> QED  BY <2>2, <2>4, <3>1
  <2>6. b = L!List(a.kind, FALSE, a.len + 1,
                   [i \in 0..a.len |-> IF i = a.len THEN v ELSE a.item[i]])
    BY <2>1, <2>2, <2>5
  <2>7. L!Append(o, v)
    BY <2>1, <2>3, <2>6 DEF L!Append
  <2> QED  BY <2>7 DEF L!Next
<1> QED  BY <1>10, <1>11, <1>12

LEMMA SetImplements ==
  ASSUME Inv, NEW o \in Obj, NEW i \in Index(o), NEW v \in Value,
         SetElement(o, i, v)
  PROVE  L!Next
<1> DEFINE g == arr[o]
           h == Written(g, i, v)
<1>1. /\ Live(o) /\ Sound(g) /\ i \in 0..(g.size - 1) /\ g.size \in Nat
      /\ g.extent \in Nat /\ g.size <= g.extent
      /\ DOMAIN g.slot = 0..(g.extent - 1) /\ arr' = [arr EXCEPT ![o] = h]
  BY LiveSound, PartsOfSound DEF SetElement, Index
<1>2. h.slot = [g.slot EXCEPT ![i] = v]
  BY ArrayFields DEF Written
<1>3. /\ Sound(h) /\ h.kind = g.kind /\ h.size = g.size
      /\ h.capacity = g.capacity
  BY <1>1, WrittenSound
<1> HIDE DEF h
<1>4. \A j \in 0..(g.size - 1) : h.slot[j] = IF j = i THEN v ELSE g.slot[j]
  BY <1>1, <1>2
<1> QED  BY <1>1, <1>3, <1>4, OneReplaced

LEMMA UnsetImplements ==
  ASSUME Inv, NEW o \in Obj, NEW i \in Index(o), UnsetElement(o, i)
  PROVE  L!Next
<1> DEFINE g == arr[o]
           h == InitElems(g, i, i + 1)
<1>1. /\ Live(o) /\ Sound(g) /\ i \in 0..(g.size - 1) /\ g.size \in Nat
      /\ g.extent \in Nat /\ g.size <= g.extent
      /\ arr' = [arr EXCEPT ![o] = h]
  BY LiveSound, PartsOfSound DEF UnsetElement, Index
<1>2. /\ Sound(h) /\ h.kind = g.kind /\ h.size = g.size
      /\ h.extent = g.extent /\ h.capacity = g.capacity
      /\ \A j \in DOMAIN h.slot :
            h.slot[j] = IF i <= j /\ j < i + 1 THEN Blank ELSE g.slot[j]
  <2>1. i \in Int /\ i + 1 \in Int
    BY <1>1
  <2>2. /\ Sound(h) /\ h.kind = g.kind /\ h.size = g.size
        /\ h.extent = g.extent /\ h.capacity = g.capacity
    BY <1>1, <2>1, InitElemsSound
  <2>3. \A j \in DOMAIN h.slot :
          h.slot[j] = IF i <= j /\ j < i + 1 THEN Blank ELSE g.slot[j]
    BY <1>1, <2>1, InitElemsElements
  <2> QED  BY <2>2, <2>3
<1> HIDE DEF h
<1>3. ASSUME NEW j \in 0..(g.size - 1)
      PROVE  h.slot[j] = IF j = i THEN Blank ELSE g.slot[j]
  <2>1. j \in DOMAIN h.slot
    BY <1>1, <1>2, PartsOfSound
  <2>2. i <= j /\ j < i + 1 <=> j = i
    BY <1>1
  <2> QED  BY <1>2, <2>1, <2>2
<1> QED  BY <1>1, <1>2, <1>3, OneReplaced

\* sub of a position beyond the end copies an empty tail.
LEMMA SubImplements ==
  ASSUME Inv, NEW o \in Obj, NEW b \in Obj, NEW from \in Nat, Sub(o, b, from)
  PROVE  L!Next
<1> DEFINE g == arr[o]
<1>1. Live(o) /\ ~ Live(b) /\ Sound(g) /\ g.size \in Nat
  BY LiveSound, PartsOfSound DEF Sub
<1>2. CASE from < g.size
  <2>1. arr' = [arr EXCEPT ![b] = CopyCtor(g, from)]
    BY <1>2 DEF Sub
  <2>2. from <= g.size
    BY <1>1, <1>2
  <2> QED  BY <1>1, <2>1, <2>2, TailCopied
<1>3. CASE ~ (from < g.size)
  <2>1. CopyCtor(g, g.size) = EtypeCtor(g.kind)
    BY <1>1 DEF CopyCtor, PcaAlloc
  <2>2. arr' = [arr EXCEPT ![b] = CopyCtor(g, g.size)]
    BY <1>3, <2>1 DEF Sub
  <2>3. g.size <= g.size
    BY <1>1
  <2> QED  BY <1>1, <2>2, <2>3, TailCopied
<1> QED  BY <1>2, <1>3

LEMMA ImplementsInit == Init => L!Init
BY GoneList DEF Init, L!Init, Lists

LEMMA ImplementsStep ==
  ASSUME Inv, [Next]_vars
  PROVE  [L!Next]_Lists
<1>1. ASSUME NEW o \in Obj, NEW k \in Kinds, NEW n \in CtorSizes,
             Construct(o, k, n)
      PROVE  L!Next
  BY <1>1, CarrayAssumption, ConstructImplements
<1>2. ASSUME NEW o \in Obj, NEW n \in 0..MaxSize, Resize(o, n)
      PROVE  L!Next \/ Lists' = Lists
  BY <1>2, ResizeImplements
<1>3. ASSUME NEW o \in Obj, NEW n \in 0..MaxReserve, Reserve(o, n)
      PROVE  L!Next \/ Lists' = Lists
  BY <1>3, ReserveImplements
<1>4. ASSUME NEW o \in Obj, NEW v \in Value, Push(o, v)
      PROVE  L!Next
  BY <1>4, PushImplements
<1>5. ASSUME NEW o \in Obj, NEW i \in Index(o), NEW v \in Value,
             SetElement(o, i, v)
      PROVE  L!Next
  BY <1>5, SetImplements
<1>6. ASSUME NEW o \in Obj, NEW i \in Index(o), ReadElement(o, i)
      PROVE  Lists' = Lists
  BY <1>6 DEF ReadElement, Lists
<1>7. ASSUME NEW o \in Obj, NEW i \in Index(o), UnsetElement(o, i)
      PROVE  L!Next
  BY <1>7, UnsetImplements
<1>8. ASSUME NEW o \in Obj, NEW b \in Obj, NEW from \in 0..MaxSize,
             Sub(o, b, from)
      PROVE  L!Next
  BY <1>8, SubImplements
<1>9. ASSUME NEW o \in Obj, NEW b \in Obj, Clone(o, b)
      PROVE  L!Next
  <2>1. 0 \in Nat /\ 0 <= arr[o].size
    BY <1>9, LiveSound, PartsOfSound DEF Clone
  <2> QED  BY <1>9, <2>1, TailCopied DEF Clone
<1>10. ASSUME NEW o \in Obj, FreeStorage(o)
       PROVE  L!Next
  <2>1. Live(o) /\ arr' = [arr EXCEPT ![o] = Gone]
    BY <1>10 DEF FreeStorage
  <2>2. Lists' = [Lists EXCEPT ![o] = AsList(Gone)]
    BY <2>1, OneList
  <2>3. L!Discard(o)
    BY <2>1, <2>2, ListsRead, GoneList DEF L!Discard
  <2> QED  BY <2>3 DEF L!Next
<1>11. ASSUME NEW v \in Value, NewValue(v) \/ ForgetValue(v)
       PROVE  Lists' = Lists
  BY <1>11 DEF NewValue, ForgetValue, Lists
<1>12. CASE UNCHANGED vars
  BY <1>12 DEF vars, Lists
<1> QED
  BY <1>1, <1>2, <1>3, <1>4, <1>5, <1>6, <1>7, <1>8, <1>9, <1>10, <1>11, <1>12
     DEF Next

\* Every behaviour of the C code is one of the abstract lists.
THEOREM ListsImplemented == Spec => ImplementsList
<1>1. Init => L!Init
  BY ImplementsInit
<1>2. Inv /\ [Next]_vars => [L!Next]_Lists
  BY ImplementsStep
<1> QED  BY InvInit, InvStep, <1>1, <1>2, PTL DEF Spec, ImplementsList, L!Spec

=============================================================================

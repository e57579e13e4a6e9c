------------------------ MODULE CarrayForeachProofs ------------------------
(***************************************************************************)
(* foreach over an array that is resized meanwhile: for every number of    *)
(* loops, every size and every table of marks.                             *)
(*                                                                         *)
(* The references to the object are the loops that run and the script's    *)
(* variable, so the block lives as long as a loop is inside it; and no     *)
(* index below that of a running loop is still to be visited.              *)
(***************************************************************************)
EXTENDS CarrayForeach, GarrayProofs, FiniteSetTheorems

Runners == {l \in Loop : Running(l)}

\* Who holds the object.
References ==
    /\ IsFiniteSet(Runners)
    /\ refcount = Cardinality(Runners) + (IF var THEN 1 ELSE 0)

\* The block is there for whoever holds it.
BlockHeld == refcount = 0 => arr.elements = "NULL"

\* Where a loop is: what it has not seen of the array is still before it.
OnTheWay(l) ==
    /\ Running(l) => stable[l] \subseteq 0..(arr.size - 1)
    /\ pc[l] = "first" => current[l] = 0
    /\ pc[l] = "body" => \A i \in stable[l] : i <= current[l] => i \in seen[l]
    /\ pc[l] = "done" => stable[l] \subseteq seen[l]

Inv ==
    /\ TypeOK
    /\ ElementsInBlock(arr)
    /\ References
    /\ BlockHeld
    /\ \A l \in Loop : OnTheWay(l)

-----------------------------------------------------------------------------
(***************************************************************************)
(* The references.                                                         *)
(***************************************************************************)

\* Nobody holds the object just when the count is 0.
LEMMA HoldersCounted ==
  ASSUME Inv
  PROVE  /\ Cardinality(Runners) \in Nat
         /\ Sound(arr)
         /\ \A l \in Loop : Running(l) => refcount > 0
         /\ var => refcount > 0
         /\ refcount = 0 <=> (~ var /\ \A l \in Loop : ~ Running(l))
<1>1. IsFiniteSet(Runners) /\ Cardinality(Runners) \in Nat
  BY FS_CardinalityType DEF Inv, References
<1>2. Cardinality(Runners) = 0 <=> Runners = {}
  BY <1>1, FS_EmptySet
<1>3. refcount = Cardinality(Runners) + (IF var THEN 1 ELSE 0)
  BY DEF Inv, References
<1>4. Sound(arr)
  BY DEF Inv, TypeOK, Sound
<1> QED  BY <1>1, <1>2, <1>3, <1>4 DEF Runners

\* A loop that begins is one more, one that ends one less.
LEMMA OneMoreRunner ==
  ASSUME Inv, NEW l \in Loop, ~ Running(l), pc' = [pc EXCEPT ![l] = "first"]
  PROVE  /\ IsFiniteSet(Runners')
         /\ Cardinality(Runners') = Cardinality(Runners) + 1
<1>1. Runners' = Runners \cup {l} /\ l \notin Runners
  BY DEF Inv, TypeOK, Runners, Running
<1>2. IsFiniteSet(Runners)
  BY DEF Inv, References
<1> QED  BY <1>1, <1>2, FS_AddElement

LEMMA OneRunnerLess ==
  ASSUME Inv, NEW l \in Loop, Running(l), NEW s \in {"idle", "done"},
         pc' = [pc EXCEPT ![l] = s]
  PROVE  /\ IsFiniteSet(Runners')
         /\ Cardinality(Runners') = Cardinality(Runners) - 1
<1>1. Runners' = Runners \ {l} /\ l \in Runners
  BY DEF Inv, TypeOK, Runners, Running
<1>2. IsFiniteSet(Runners)
  BY DEF Inv, References
<1> QED  BY <1>1, <1>2, FS_RemoveElement

\* Letting go of a reference that somebody held.
LEMMA Dropped ==
  ASSUME Inv, refcount > 0, DropReference
  PROVE  /\ refcount' \in Nat
         /\ Sound(arr')
         /\ BlockHeld'
         /\ refcount > 1 => arr' = arr
<1>1. refcount \in Nat /\ Sound(arr) /\ arr.kind \in Kind
  BY HoldersCounted, PartsOfSound DEF Inv, TypeOK
<1>2. CASE refcount = 1
  <2>1. arr' = EtypeCtor(arr.kind) /\ refcount' = 0
    BY <1>2 DEF DropReference, PcaFree
  <2>2. Sound(arr') /\ arr'.elements = "NULL"
    BY <1>1, <2>1, EtypeCtorSound
  <2> QED  BY <1>2, <2>1, <2>2 DEF BlockHeld
<1>3. CASE refcount # 1
  BY <1>1, <1>3 DEF DropReference, BlockHeld, Inv
<1> QED  BY <1>2, <1>3

\* The array is still there for whoever else holds it.
LEMMA OthersHold ==
  ASSUME Inv, NEW m \in Loop, Running(m),
         \/ var /\ DropReference
         \/ /\ DropReference
            /\ \E l \in Loop \ {m} : Running(l)
  PROVE  refcount > 1 /\ arr' = arr
<1>1. refcount = Cardinality(Runners) + (IF var THEN 1 ELSE 0)
  BY DEF Inv, References
<1>2. Cardinality(Runners) \in Nat /\ IsFiniteSet(Runners) /\ refcount > 0
  BY HoldersCounted DEF Inv, References
<1>3. refcount > 1
  <2>1. Cardinality(Runners \ {m}) = Cardinality(Runners) - 1
        /\ IsFiniteSet(Runners \ {m})
    BY <1>2, FS_RemoveElement DEF Runners
  <2>2. Cardinality(Runners \ {m}) \in Nat
    BY <2>1, FS_CardinalityType
  <2>3. CASE var
    BY <1>1, <1>2, <2>1, <2>2, <2>3
  <2>4. CASE \E l \in Loop \ {m} : Running(l)
    <3>1. Runners \ {m} # {}
      BY <2>4 DEF Runners
    <3>2. Cardinality(Runners \ {m}) # 0
      BY <2>1, <3>1, FS_EmptySet
    <3> QED  BY <1>1, <1>2, <2>1, <2>2, <3>2
  <2> QED  BY <2>3, <2>4
<1> QED  BY <1>2, <1>3, Dropped

-----------------------------------------------------------------------------
(***************************************************************************)
(* The steps.                                                              *)
(***************************************************************************)

LEMMA InvInit == Init => Inv
<1> SUFFICES ASSUME Init PROVE Inv
  OBVIOUS
<1>1. Sound(arr)
  <2>1. PICK k \in Kind, n \in 0..MaxSize :
          arr = InitElems(PcaAlloc(EtypeCtor(k), n), 0, n)
    BY DEF Init
  <2>2. n \in Nat
    BY MaxSizeAssumption
  <2>3. Sound(PcaAlloc(EtypeCtor(k), n))
    BY <2>2, PcaAllocSound
  <2> QED  BY <2>1, <2>2, <2>3, InitElemsSound
<1>2. Runners = {}
  BY DEF Init, Runners, Running
<1>3. References
  BY <1>2, FS_EmptySet DEF Init, References
<1>4. BlockHeld /\ TypeOK
  BY <1>1 DEF Init, BlockHeld, TypeOK, Sound
<1>5. \A l \in Loop : OnTheWay(l)
  BY DEF Init, OnTheWay, Running
<1> QED  BY <1>1, <1>3, <1>4, <1>5 DEF Inv, Sound

LEMMA ResetKeeps ==
  ASSUME Inv, NEW l \in Loop, FeReset(l)
  PROVE  Inv'
<1>1. /\ Sound(arr) /\ arr' = arr /\ var' = var /\ var /\ ~ Running(l)
      /\ refcount > 0 /\ arr.size \in Nat /\ refcount \in Nat
  BY HoldersCounted, PartsOfSound DEF FeReset, Inv, TypeOK
<1>2. TypeOK'
  <2>1. 0..(arr.size - 1) \in SUBSET Nat
    BY <1>1
  <2>2. IsArray(arr') /\ refcount' \in Nat /\ var' \in BOOLEAN
    BY <1>1 DEF FeReset, Inv, TypeOK
  <2>3. pc' \in [Loop -> {"idle", "first", "body", "done"}]
    BY DEF FeReset, Inv, TypeOK
  <2>4. /\ current' \in [Loop -> Nat] /\ seen' \in [Loop -> SUBSET Nat]
        /\ stable' \in [Loop -> SUBSET Nat]
    BY <2>1 DEF FeReset, Inv, TypeOK
  <2> QED  BY <2>2, <2>3, <2>4 DEF TypeOK
<1>3. References'
  <2>1. CASE arr.size > 0
    <3>1. pc' = [pc EXCEPT ![l] = "first"] /\ refcount' = refcount + 1
      BY <2>1 DEF FeReset
    <3>2. Cardinality(Runners) \in Nat
      BY HoldersCounted
    <3>3. Cardinality(Runners') = Cardinality(Runners) + 1 /\ IsFiniteSet(Runners')
      BY <1>1, <3>1, OneMoreRunner
    <3> QED  BY <1>1, <3>1, <3>2, <3>3 DEF Inv, References
  <2>2. CASE ~ (arr.size > 0)
    <3>1. pc' = [pc EXCEPT ![l] = "done"] /\ refcount' = refcount
      BY <2>2 DEF FeReset
    <3>2. Runners' = Runners
      BY <1>1, <3>1 DEF Inv, TypeOK, Runners, Running
    <3> QED  BY <1>1, <3>1, <3>2 DEF Inv, References
  <2> QED  BY <2>1, <2>2
<1>4. BlockHeld'
  BY <1>1 DEF FeReset, BlockHeld
<1>5. ASSUME NEW m \in Loop PROVE OnTheWay(m)'
  <2>1. CASE m = l
    BY <1>1, <2>1 DEF FeReset, Inv, TypeOK, OnTheWay, Running
  <2>2. CASE m # l
    BY <1>1, <2>2 DEF FeReset, Inv, TypeOK, OnTheWay, Running
  <2> QED  BY <2>1, <2>2
<1>6. ElementsInBlock(arr)'
  BY <1>1 DEF Inv
<1> QED  BY <1>2, <1>3, <1>4, <1>5, <1>6 DEF Inv

LEMMA FetchKeeps ==
  ASSUME Inv, NEW l \in Loop, FeFetch(l)
  PROVE  Inv'
<1>1. Moved(l) \in Nat
  BY DEF Inv, TypeOK, Moved
<1>2. TypeOK'
  BY <1>1 DEF FeFetch, Inv, TypeOK
<1>3. References' /\ BlockHeld' /\ ElementsInBlock(arr)'
  <2>1. Runners' = Runners
    BY DEF FeFetch, Inv, TypeOK, Runners, Running
  <2> QED  BY <2>1 DEF FeFetch, Inv, References, BlockHeld
<1>4. ASSUME NEW m \in Loop PROVE OnTheWay(m)'
  <2>1. CASE m = l
    <3>1. /\ pc'[l] = "body" /\ current'[l] = Moved(l)
          /\ seen'[l] = seen[l] \cup {Moved(l)} /\ stable'[l] = stable[l]
          /\ arr' = arr /\ Running(l)
      BY DEF FeFetch, Inv, TypeOK
    <3>2. stable[l] \subseteq Nat /\ stable[l] \subseteq 0..(arr.size - 1)
          /\ current[l] \in Nat
      BY <3>1 DEF Inv, TypeOK, OnTheWay
    <3>3. ASSUME NEW i \in stable[l], i <= Moved(l), i # Moved(l)
          PROVE  i \in seen[l]
      <4>1. i \in Nat
        BY <3>2
      <4>2. pc[l] # "first"
        BY <3>2, <3>3, <4>1 DEF Inv, OnTheWay, Moved
      <4>3. i <= current[l] /\ pc[l] = "body"
        BY <3>1, <3>2, <3>3, <4>1, <4>2 DEF Moved, Running
      <4> QED  BY <4>3 DEF Inv, OnTheWay
    <3> QED  BY <2>1, <3>1, <3>2, <3>3 DEF OnTheWay, Running
  <2>2. CASE m # l
    BY <2>2 DEF FeFetch, Inv, TypeOK, OnTheWay, Running
  <2> QED  BY <2>1, <2>2
<1> QED  BY <1>2, <1>3, <1>4 DEF Inv

\* What a loop has not seen when it ends is not in the array.
LEMMA EndHasSeen ==
  ASSUME Inv, NEW l \in Loop, Running(l), ~ Valid(Moved(l)),
         NEW i \in stable[l]
  PROVE  i \in seen[l]
<1>1. i \in 0..(arr.size - 1) /\ current[l] \in Nat
  BY DEF Inv, TypeOK, OnTheWay
<1>2. arr.size \in Nat
  BY HoldersCounted, PartsOfSound
<1>3. pc[l] # "first"
  BY <1>1, <1>2 DEF Inv, OnTheWay, Valid, Moved
<1>4. pc[l] = "body" /\ i <= current[l]
  BY <1>1, <1>2, <1>3 DEF Running, Valid, Moved
<1> QED  BY <1>4 DEF Inv, OnTheWay

LEMMA LeaveKeeps ==
  ASSUME Inv, NEW l \in Loop, FeEnd(l) \/ FeFree(l)
  PROVE  Inv'
<1>1. /\ Running(l) /\ refcount > 0 /\ DropReference
      /\ var' = var /\ seen' = seen /\ stable' = stable
  BY HoldersCounted DEF FeEnd, FeFree, Running
<1>2. PICK s \in {"idle", "done"} : pc' = [pc EXCEPT ![l] = s]
  BY DEF FeEnd, FeFree
<1>3. /\ refcount' \in Nat /\ Sound(arr') /\ BlockHeld'
  BY <1>1, Dropped
<1>4. TypeOK' /\ ElementsInBlock(arr)'
  <2>1. Moved(l) \in Nat
    BY DEF Inv, TypeOK, Moved
  <2>2. current' \in [Loop -> Nat]
    BY <2>1 DEF FeEnd, FeFree, Inv, TypeOK
  <2>3. pc' \in [Loop -> {"idle", "first", "body", "done"}]
    BY <1>2 DEF Inv, TypeOK
  <2> QED  BY <1>1, <1>3, <2>2, <2>3 DEF Inv, TypeOK, Sound
<1>5. References'
  <2>1. Cardinality(Runners') = Cardinality(Runners) - 1 /\ IsFiniteSet(Runners')
    BY <1>1, <1>2, OneRunnerLess
  <2>2. refcount' = refcount - 1 /\ Cardinality(Runners) \in Nat
    BY <1>1, HoldersCounted DEF DropReference
  <2> QED  BY <1>1, <2>1, <2>2 DEF Inv, References
<1>6. ASSUME NEW m \in Loop PROVE OnTheWay(m)'
  <2>1. CASE m = l
    <3>1. pc'[l] = s
      BY <1>2 DEF Inv, TypeOK
    <3>2. s = "done" => FeEnd(l)
      BY <1>2, <3>1 DEF FeFree, Inv, TypeOK
    <3>3. s = "done" => stable[l] \subseteq seen[l]
      BY <1>1, <3>2, EndHasSeen DEF FeEnd
    <3> QED  BY <1>1, <2>1, <3>1, <3>3 DEF OnTheWay, Running
  <2>2. CASE m # l
    <3>1. pc'[m] = pc[m] /\ current'[m] = current[m]
      BY <1>2, <2>2 DEF FeEnd, FeFree, Inv, TypeOK
    <3>2. Running(m) => arr' = arr
      BY <1>1, <2>2, OthersHold
    <3> QED  BY <1>1, <3>1, <3>2 DEF Inv, OnTheWay, Running
  <2> QED  BY <2>1, <2>2
<1> QED  BY <1>3, <1>4, <1>5, <1>6 DEF Inv

LEMMA BodyKeeps ==
  ASSUME Inv, NEW g, Sound(g), Body(g)
  PROVE  Inv'
<1>1. /\ var /\ arr' = g
      /\ stable' = [l \in Loop |-> stable[l] \cap 0..(g.size - 1)]
      /\ UNCHANGED <<refcount, var, pc, current, seen>>
  BY DEF Body
<1>2. refcount > 0
  BY <1>1, HoldersCounted
<1>3. TypeOK' /\ ElementsInBlock(arr)'
  BY <1>1 DEF Inv, TypeOK, Sound
<1>4. References' /\ BlockHeld'
  BY <1>1, <1>2 DEF Inv, References, BlockHeld, Runners, Running
<1>5. ASSUME NEW m \in Loop PROVE OnTheWay(m)'
  BY <1>1 DEF Inv, OnTheWay, Running
<1> QED  BY <1>3, <1>4, <1>5 DEF Inv

LEMMA UnsetVarKeeps ==
  ASSUME Inv, UnsetVar
  PROVE  Inv'
<1>1. /\ var /\ var' = FALSE /\ refcount > 0 /\ DropReference
      /\ UNCHANGED <<pc, current, seen, stable>>
  BY HoldersCounted DEF UnsetVar
<1>2. /\ refcount' \in Nat /\ Sound(arr') /\ BlockHeld'
  BY <1>1, Dropped
<1>3. TypeOK' /\ ElementsInBlock(arr)'
  BY <1>1, <1>2 DEF Inv, TypeOK, Sound
<1>4. References'
  <2>1. Runners' = Runners /\ refcount' = refcount - 1
    BY <1>1 DEF Runners, Running, DropReference
  <2>2. Cardinality(Runners) \in Nat
    BY HoldersCounted
  <2> QED  BY <1>1, <2>1, <2>2 DEF Inv, References
<1>5. ASSUME NEW m \in Loop PROVE OnTheWay(m)'
  <2>1. Running(m) => arr' = arr
    BY <1>1, OthersHold
  <2> QED  BY <1>1, <2>1 DEF Inv, OnTheWay, Running
<1> QED  BY <1>2, <1>3, <1>4, <1>5 DEF Inv

LEMMA InvStep == Inv /\ [Next]_vars => Inv'
<1> SUFFICES ASSUME Inv, [Next]_vars PROVE Inv'
  OBVIOUS
<1>0. Sound(arr) /\ arr.size \in Nat /\ arr.kind \in Kind
  BY HoldersCounted, PartsOfSound
<1>1. ASSUME NEW l \in Loop, FeReset(l) PROVE Inv'
  BY <1>1, ResetKeeps
<1>2. ASSUME NEW l \in Loop, FeFetch(l) PROVE Inv'
  BY <1>2, FetchKeeps
<1>3. ASSUME NEW l \in Loop, FeEnd(l) \/ FeFree(l) PROVE Inv'
  BY <1>3, LeaveKeeps
<1>4. ASSUME NEW v \in Value, Push(v) PROVE Inv'
  <2> DEFINE i == arr.size
             g == GenResize(arr, i + 1)
  <2>1. i + 1 \in Nat /\ i + 1 > 0
    BY <1>0
  <2>2. Sound(g) /\ g.size = i + 1
    BY <1>0, <2>1, GenResizeSound
  <2>3. i < g.extent
    <3> HIDE DEF g
    <3> QED  BY <1>0, <2>2, PartsOfSound
  <2>4. Body(Written(g, i, v))
    BY <1>4 DEF Push
  <2> HIDE DEF g
  <2>5. Sound(Written(g, i, v))
    BY <1>0, <2>2, <2>3, WrittenSound
  <2> QED  BY <2>4, <2>5, BodyKeeps
<1>5. ASSUME NEW n \in 0..MaxSize, Resize(n) PROVE Inv'
  BY <1>0, <1>5, GenResizeSound, BodyKeeps DEF Resize
<1>6. ASSUME NEW n \in 0..MaxSize, Reserve(n) PROVE Inv'
  BY <1>0, <1>6, PcaReserveSound, BodyKeeps DEF Reserve
<1>7. CASE UnsetVar
  BY <1>7, UnsetVarKeeps
<1>8. CASE UNCHANGED vars
  BY <1>8 DEF vars, Inv, TypeOK, References, BlockHeld, OnTheWay, Runners,
              Running
<1> QED  BY <1>1, <1>2, <1>3, <1>4, <1>5, <1>6, <1>7, <1>8 DEF Next

-----------------------------------------------------------------------------
(***************************************************************************)
(* The properties.                                                         *)
(***************************************************************************)

\* The variables of the loops and the array keep their types.
THEOREM ForeachTypes == Spec => []TypeOK
<1>1. Inv => TypeOK
  BY DEF Inv
<1> QED  BY InvInit, InvStep, <1>1, PTL DEF Spec

\* The block is there as long as a loop is inside it, and is given back with
\* the last reference.
THEOREM IteratedIsHeld == Spec => []HeldWhileIterated
<1>1. Inv => HeldWhileIterated
  <2> SUFFICES ASSUME Inv PROVE HeldWhileIterated
    OBVIOUS
  <2>1. refcount = 0 <=> (~ var /\ \A l \in Loop : ~ Running(l))
    BY HoldersCounted
  <2> QED  BY <2>1 DEF Inv, BlockHeld, HeldWhileIterated
<1> QED  BY InvInit, InvStep, <1>1, PTL DEF Spec

\* A loop that has run to its end was given every index that was in the array
\* all along.
THEOREM StableVisited == Spec => []VisitsStable
<1>1. Inv => VisitsStable
  BY DEF Inv, OnTheWay, VisitsStable
<1> QED  BY InvInit, InvStep, <1>1, PTL DEF Spec

\* An element handed to a body is inside the block of a live object.
THEOREM FetchesInside == Spec => FetchInsideBlock
<1> DEFINE Fetches ==
      \A l \in Loop : seen'[l] # seen[l] =>
          \A i \in seen'[l] \ seen[l] : refcount > 0 /\ i \in DOMAIN arr.slot
<1>1. Inv /\ [Next]_vars => [Fetches]_vars
  <2> SUFFICES ASSUME Inv, [Next]_vars, NEW l \in Loop,
                      NEW i \in seen'[l] \ seen[l]
               PROVE  refcount > 0 /\ i \in DOMAIN arr.slot
    BY DEF Fetches
  <2>1. PICK m \in Loop : FeReset(m) \/ FeFetch(m)
    BY DEF Next, FeEnd, FeFree, Push, Resize, Reserve, Body, UnsetVar, vars
  <2>2. ~ FeReset(m)
    BY DEF FeReset, Inv, TypeOK
  <2>3. /\ Running(l) /\ i = Moved(l) /\ Valid(Moved(l))
    BY <2>1, <2>2 DEF FeFetch, Inv, TypeOK
  <2>4. refcount > 0 /\ Sound(arr)
    BY <2>3, HoldersCounted
  <2>5. i \in Nat
    BY <2>3 DEF Inv, TypeOK, Moved
  <2>6. i \in DOMAIN arr.slot
    BY <2>3, <2>4, <2>5, PartsOfSound DEF Valid
  <2> QED  BY <2>4, <2>6
<1> QED  BY InvInit, InvStep, <1>1, PTL DEF Spec, FetchInsideBlock

=============================================================================

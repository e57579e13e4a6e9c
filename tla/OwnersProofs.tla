---------------------------- MODULE OwnersProofs ----------------------------
(***************************************************************************)
(* Who holds what around Cregx and Csu8, for every number of strings,      *)
(* arrays, objects and iterators, and every width of a counter.            *)
(*                                                                         *)
(* The invariant says what the counts are: of captures exactly, as long as *)
(* captures() was called at most once for them; of strings at least, with  *)
(* one more for an iterator whose object has another string by now.        *)
(***************************************************************************)
EXTENDS Owners, FiniteSetTheorems, TLAPS

HeapOK(h) ==
    /\ h = [live |-> h.live, count |-> h.count, broken |-> h.broken]
    /\ h.live \subseteq Val
    /\ h.count \in [Val -> 0..(Wide - 1)]
    /\ h.broken \in BOOLEAN

Types ==
    /\ TypeOK
    /\ HeapOK(heap)
    /\ \A o \in Re : cregx[o].live \/ cregx[o].subpats = Null
    /\ \A i \in It : iter[i] = NoIter \/ iter[i].over \in U8

\* How many objects have the captures a: no two share them.
OneOwner ==
    \A o, b \in Re :
        cregx[o].subpats \in Arr /\ cregx[b].subpats = cregx[o].subpats => b = o

Owned(a) == IF \E o \in Re : cregx[o].subpats = a THEN 1 ELSE 0

\* The reference that is kept for the first captures() is gone once it has
\* been called, and what further calls hand out is not counted.
CapturesCounted(a) ==
    /\ taken[a] <= 1 /\ a \notin heap.live => user[a] = 0 /\ Owned(a) = 0
    /\ taken[a] <= 1 /\ a \in heap.live =>
         /\ heap.count[a] = user[a] + Owned(a) + (1 - taken[a])
         /\ heap.count[a] <= MaxRefs
    /\ a \in heap.live /\ a \notin parted =>
         /\ heap.count[a] \in 1..MaxRefs
         /\ taken[a] = 2 => heap.count[a] < user[a] + Owned(a)

Targets(s) == {o \in U8 : target[o] = s}
TargetsFinite == \A s \in Str : IsFiniteSet(Targets(s))

\* A string whose object was given another one has kept its reference, which
\* is what an iterator still reads it by.
Overwritten(s) == \E i \in It : iter[i].text = s /\ target[iter[i].over] # s

TextCounted(s) ==
    /\ s \notin heap.live =>
         /\ user[s] = 0 /\ Targets(s) = {}
         /\ \A i \in It : iter[i].text # s
    /\ s \in heap.live =>
         /\ heap.count[s] <= MaxRefs
         /\ heap.count[s] >= user[s] + Cardinality(Targets(s))
         /\ Overwritten(s) =>
              heap.count[s] > user[s] + Cardinality(Targets(s))

TextsCounted ==
    ~ heap.broken => \A s \in Str \ (given \cup loaned) : TextCounted(s)

Readers(o) == {i \in It : iter[i].over = o}

ObjectsCounted ==
    \A o \in U8 :
        /\ IsFiniteSet(Readers(o))
        /\ refs[o] = Cardinality(Readers(o)) + (IF o \in named THEN 1 ELSE 0)

Inv ==
    /\ Types
    /\ OneOwner
    /\ \A a \in Arr : CapturesCounted(a)
    /\ TargetsFinite
    /\ TextsCounted
    /\ ObjectsCounted

-----------------------------------------------------------------------------
(***************************************************************************)
(* What each macro of the engine does to a heap.                           *)
(***************************************************************************)
LEMMA Kinds ==
    /\ Str \subseteq Val /\ Arr \subseteq Val /\ Str \cap Arr = {}
    /\ Literal \notin Val /\ Null \notin Val /\ Undef \notin Val
    /\ \A s \in Text : s \in Str \/ s = Literal
    /\ Wide \in Nat /\ Wide > 2 /\ MaxUser \in Nat /\ MaxUser > 0
    /\ MaxRefs \in Nat /\ MaxRefs >= 2 /\ MaxRefs < Wide
  BY ZvalAssumption DEF Val, Text

\* A heap is put together from its parts.
Heap(l, c, b) == [live |-> l, count |-> c, broken |-> b]

LEMMA HeapFields ==
  ASSUME NEW l, NEW c, NEW b, NEW h, h = Heap(l, c, b)
  PROVE  /\ h.live = l /\ h.count = c /\ h.broken = b
         /\ h = Heap(h.live, h.count, h.broken)
  BY DEF Heap

LEMMA HeapMade ==
  ASSUME NEW l \in SUBSET Val, NEW c \in [Val -> 0..(Wide - 1)],
         NEW b \in BOOLEAN, NEW h, h = Heap(l, c, b)
  PROVE  HeapOK(h)
  BY DEF Heap, HeapOK

LEMMA HeapTypes ==
  ASSUME NEW h, HeapOK(h)
  PROVE  /\ h.live \subseteq Val /\ h.count \in [Val -> 0..(Wide - 1)]
         /\ h.broken \in BOOLEAN
  BY DEF HeapOK

LEMMA HeapParts ==
  ASSUME NEW h, HeapOK(h), NEW x
  PROVE  /\ [h EXCEPT !.live = x] = Heap(x, h.count, h.broken)
         /\ [h EXCEPT !.count = x] = Heap(h.live, x, h.broken)
         /\ [h EXCEPT !.broken = x] = Heap(h.live, h.count, x)
  BY DEF Heap, HeapOK

\* Neither reading changes a count.
LEMMA TouchHeap ==
  ASSUME NEW h, HeapOK(h), NEW v
  PROVE  /\ HeapOK(Touch(h, v))
         /\ Touch(h, v).live = h.live /\ Touch(h, v).count = h.count
         /\ Touch(h, v).broken <=> h.broken \/ (v \in Val /\ v \notin h.live)
<1> DEFINE b == h.broken \/ (v \in Val /\ v \notin h.live)
<1>1. b \in BOOLEAN
  OBVIOUS
<1>2. Touch(h, v) = [h EXCEPT !.broken = b]
  BY DEF Touch
<1> HIDE DEF b
<1>3. Touch(h, v) = Heap(h.live, h.count, b)
  BY <1>2, HeapParts
<1>4. Touch(h, v).broken = b
  BY <1>3, HeapFields
<1>5. HeapOK(Touch(h, v)) /\ Touch(h, v).live = h.live
      /\ Touch(h, v).count = h.count
  BY <1>1, <1>3, HeapFields, HeapMade, HeapTypes
<1> QED  BY <1>4, <1>5, Zenon DEF b

LEMMA TouchTextHeap ==
  ASSUME NEW h, HeapOK(h), NEW v
  PROVE  /\ HeapOK(TouchText(h, v))
         /\ TouchText(h, v).live = h.live /\ TouchText(h, v).count = h.count
         /\ TouchText(h, v).broken <=>
              h.broken \/ v \notin Text \/ (v \in Val /\ v \notin h.live)
<1> DEFINE t == Touch(h, v)
           b == t.broken \/ v \notin Text
<1>0. HeapOK(t) /\ t.live = h.live /\ t.count = h.count
      /\ (t.broken <=> h.broken \/ (v \in Val /\ v \notin h.live))
  BY TouchHeap
<1>1. b \in BOOLEAN
  OBVIOUS
<1>2. TouchText(h, v) = [t EXCEPT !.broken = b]
  BY DEF TouchText
<1> HIDE DEF b, t
<1>3. TouchText(h, v) = Heap(t.live, t.count, b)
  BY <1>0, <1>2, HeapParts
<1>4. TouchText(h, v).broken = b
  BY <1>3, HeapFields
<1>5. HeapOK(TouchText(h, v)) /\ TouchText(h, v).live = h.live
      /\ TouchText(h, v).count = h.count
  BY <1>0, <1>1, <1>3, HeapFields, HeapMade, HeapTypes
<1>6. b <=> t.broken \/ v \notin Text
  BY DEF b
<1> QED  BY <1>0, <1>4, <1>5, <1>6, Zenon

\* One count goes up or down, and nothing else.
Counting(h, h2, v, n) ==
    /\ HeapOK(h2)
    /\ h2.count[v] = n
    /\ \A w \in Val \ {v} : h2.count[w] = h.count[w]
    /\ h2.broken <=> h.broken \/ v \notin h.live

LEMMA AddRefHeap ==
  ASSUME NEW h, HeapOK(h), NEW v \in Val
  PROVE  /\ Counting(h, AddRef(h, v), v, (h.count[v] + 1) % Wide)
         /\ AddRef(h, v).live = h.live
<1> DEFINE t == Touch(h, v)
           n == (h.count[v] + 1) % Wide
           c == [h.count EXCEPT ![v] = n]
<1>1. n \in 0..(Wide - 1)
  BY Kinds DEF HeapOK
<1>2. HeapOK(t) /\ t.count = h.count /\ t.live = h.live
      /\ (t.broken <=> h.broken \/ v \notin h.live)
  BY TouchHeap
<1>3. AddRef(h, v) = [t EXCEPT !.count = [t.count EXCEPT ![v] = n]]
  BY <1>2 DEF AddRef
<1>4. /\ c \in [Val -> 0..(Wide - 1)] /\ c[v] = n
      /\ \A w \in Val \ {v} : c[w] = h.count[w]
  <2>1. h.count \in [Val -> 0..(Wide - 1)]
    BY DEF HeapOK
  <2> HIDE DEF n
  <2> QED  BY <1>1, <2>1
<1> HIDE DEF t, n, c
<1>a. AddRef(h, v) = [t EXCEPT !.count = c]
  BY <1>2, <1>3, Zenon DEF c
<1>b. [t EXCEPT !.count = c] = Heap(t.live, c, t.broken)
  BY <1>2, HeapParts
<1>5. AddRef(h, v) = Heap(h.live, c, t.broken)
  BY <1>2, <1>a, <1>b
<1>6. t.broken \in BOOLEAN /\ h.live \subseteq Val
  BY <1>2, HeapTypes
<1> QED  BY <1>2, <1>4, <1>5, <1>6, HeapFields, HeapMade DEF Counting, n

LEMMA DelRefHeap ==
  ASSUME NEW h, HeapOK(h), NEW v \in Val
  PROVE  /\ Counting(h, DelRef(h, v), v, (h.count[v] + Wide - 1) % Wide)
         /\ DelRef(h, v).live = h.live
<1> DEFINE t == Touch(h, v)
           n == (h.count[v] + Wide - 1) % Wide
           c == [h.count EXCEPT ![v] = n]
<1>1. n \in 0..(Wide - 1)
  BY Kinds DEF HeapOK
<1>2. HeapOK(t) /\ t.count = h.count /\ t.live = h.live
      /\ (t.broken <=> h.broken \/ v \notin h.live)
  BY TouchHeap
<1>3. DelRef(h, v) = [t EXCEPT !.count = [t.count EXCEPT ![v] = n]]
  BY <1>2 DEF DelRef
<1>4. /\ c \in [Val -> 0..(Wide - 1)] /\ c[v] = n
      /\ \A w \in Val \ {v} : c[w] = h.count[w]
  <2>1. h.count \in [Val -> 0..(Wide - 1)]
    BY DEF HeapOK
  <2> HIDE DEF n
  <2> QED  BY <1>1, <2>1
<1> HIDE DEF t, n, c
<1>a. DelRef(h, v) = [t EXCEPT !.count = c]
  BY <1>2, <1>3, Zenon DEF c
<1>b. [t EXCEPT !.count = c] = Heap(t.live, c, t.broken)
  BY <1>2, HeapParts
<1>5. DelRef(h, v) = Heap(h.live, c, t.broken)
  BY <1>2, <1>a, <1>b
<1>6. t.broken \in BOOLEAN /\ h.live \subseteq Val
  BY <1>2, HeapTypes
<1> QED  BY <1>2, <1>4, <1>5, <1>6, HeapFields, HeapMade DEF Counting, n

\* The counter of a value that is held goes down by one.
LEMMA OneLess ==
  ASSUME NEW c \in 0..(Wide - 1), c > 0
  PROVE  (c + Wide - 1) % Wide = c - 1
<1>1. Wide \in Nat /\ Wide > 2
  BY Kinds
<1>2. c + Wide - 1 = (c - 1) + Wide /\ c - 1 \in 0..(Wide - 1)
  BY <1>1
<1> QED  BY <1>1, <1>2

LEMMA OneMore ==
  ASSUME NEW c \in 0..(Wide - 1), c < MaxRefs
  PROVE  (c + 1) % Wide = c + 1
  BY Kinds

LEMMA PtrDtorHeap ==
  ASSUME NEW h, HeapOK(h), NEW v \in Val
  PROVE  LET n == (h.count[v] + Wide - 1) % Wide
         IN  /\ Counting(h, PtrDtor(h, v), v, n)
             /\ PtrDtor(h, v).live = IF n = 0 THEN h.live \ {v} ELSE h.live
<1> DEFINE n == (h.count[v] + Wide - 1) % Wide
           d == DelRef(h, v)
<1>1. Counting(h, d, v, n) /\ d.live = h.live
  BY DelRefHeap
<1>2. PtrDtor(h, v) = IF d.count[v] = 0 THEN [d EXCEPT !.live = @ \ {v}] ELSE d
  BY DEF PtrDtor
<1>3. d.count[v] = n
  BY <1>1 DEF Counting
<1> HIDE DEF d, n
<1> QED  BY <1>1, <1>2, <1>3 DEF Counting, HeapOK, n

LEMMA AllocateHeap ==
  ASSUME NEW h, HeapOK(h), NEW v \in Val
  PROVE  LET h2 == Allocate(h, v)
         IN  /\ HeapOK(h2)
             /\ h2.live = h.live \cup {v}
             /\ h2.count[v] = 1
             /\ \A w \in Val \ {v} : h2.count[w] = h.count[w]
             /\ h2.broken = h.broken
<1> DEFINE l == h.live \cup {v}
           c == [h.count EXCEPT ![v] = 1]
<1>1. /\ l \subseteq Val /\ c \in [Val -> 0..(Wide - 1)] /\ c[v] = 1
      /\ \A w \in Val \ {v} : c[w] = h.count[w]
  <2>1. 1 \in 0..(Wide - 1)
    BY Kinds
  <2>2. h.live \subseteq Val /\ h.count \in [Val -> 0..(Wide - 1)]
    BY HeapTypes
  <2> QED  BY <2>1, <2>2
<1>2. Allocate(h, v) = [[h EXCEPT !.live = l] EXCEPT !.count = c]
  BY DEF Allocate, HeapOK
<1> HIDE DEF l, c
<1>3. Allocate(h, v) = Heap(l, c, h.broken)
  <2> DEFINE g == [h EXCEPT !.live = l]
  <2>1. g = Heap(l, h.count, h.broken)
    BY HeapParts, Zenon
  <2> HIDE DEF g
  <2>2. HeapOK(g) /\ g.live = l /\ g.broken = h.broken
    BY <1>1, <2>1, HeapTypes, HeapFields, HeapMade
  <2>3. Allocate(h, v) = [g EXCEPT !.count = c]
    BY <1>2 DEF g
  <2>4. Allocate(h, v) = Heap(g.live, c, g.broken)
    BY <2>2, <2>3, HeapParts, Zenon
  <2> QED  BY <2>2, <2>4
<1>4. h.broken \in BOOLEAN
  BY HeapTypes
<1>5. Allocate(h, v).live = h.live \cup {v}
  BY <1>3, HeapFields DEF l
<1> QED  BY <1>1, <1>3, <1>4, <1>5, HeapFields, HeapMade

\* Interned strings and nulls have no counter.
LEMMA NoCounter ==
  ASSUME NEW h, HeapOK(h), NEW v, v \notin Val
  PROVE  AddRef(h, v) = h /\ DelRef(h, v) = h /\ PtrDtor(h, v) = h
  BY DEF AddRef, DelRef, PtrDtor

\* The same, of a heap that has been given a name.
Others(h, d, v) ==
    \A w \in Val \ {v} : /\ d.count[w] = h.count[w]
                         /\ w \in d.live <=> w \in h.live

LEMMA AddRefStep ==
  ASSUME NEW h, HeapOK(h), NEW v, NEW d, d = AddRef(h, v)
  PROVE  /\ HeapOK(d) /\ d.live = h.live /\ Others(h, d, v)
         /\ d.broken <=> h.broken \/ (v \in Val /\ v \notin h.live)
         /\ v \in Val => d.count[v] = (h.count[v] + 1) % Wide
<1>1. CASE v \in Val
  BY <1>1, AddRefHeap DEF Counting, Others
<1>2. CASE v \notin Val
  BY <1>2, NoCounter DEF Others
<1> QED  BY <1>1, <1>2

LEMMA DelRefStep ==
  ASSUME NEW h, HeapOK(h), NEW v, NEW d, d = DelRef(h, v)
  PROVE  /\ HeapOK(d) /\ d.live = h.live /\ Others(h, d, v)
         /\ d.broken <=> h.broken \/ (v \in Val /\ v \notin h.live)
         /\ v \in Val => d.count[v] = (h.count[v] + Wide - 1) % Wide
<1>1. CASE v \in Val
  BY <1>1, DelRefHeap DEF Counting, Others
<1>2. CASE v \notin Val
  BY <1>2, NoCounter DEF Others
<1> QED  BY <1>1, <1>2

LEMMA PtrDtorStep ==
  ASSUME NEW h, HeapOK(h), NEW v, NEW d, d = PtrDtor(h, v)
  PROVE  /\ HeapOK(d) /\ Others(h, d, v)
         /\ d.broken <=> h.broken \/ (v \in Val /\ v \notin h.live)
         /\ v \in Val =>
              /\ d.count[v] = (h.count[v] + Wide - 1) % Wide
              /\ v \in d.live <=> v \in h.live /\ d.count[v] # 0
<1>1. CASE v \in Val
  <2> DEFINE n == (h.count[v] + Wide - 1) % Wide
  <2>1. Counting(h, d, v, n) /\ d.live = IF n = 0 THEN h.live \ {v} ELSE h.live
    BY <1>1, PtrDtorHeap
  <2> QED  BY <1>1, <2>1 DEF Counting, Others
<1>2. CASE v \notin Val
  BY <1>2, NoCounter DEF Others
<1> QED  BY <1>1, <1>2

-----------------------------------------------------------------------------
(***************************************************************************)
(* What a step leaves alone.                                               *)
(***************************************************************************)
Regexes == [live : BOOLEAN, expr : Text \cup {Null}, subpats : Arr \cup {Null}]
Iterators == [over : U8 \cup {Null}, text : Text \cup {Null, Undef}]

LEMMA TypesParts ==
    Types <=>
      /\ HeapOK(heap) /\ user \in [Val -> 0..MaxUser]
      /\ cregx \in [Re -> Regexes] /\ taken \in [Arr -> 0..2]
      /\ given \in SUBSET Str /\ parted \in SUBSET Arr
      /\ target \in [U8 -> Text \cup {Undef}] /\ refs \in [U8 -> Nat]
      /\ named \in SUBSET U8 /\ iter \in [It -> Iterators]
      /\ loaned \in SUBSET Str
      /\ \A o \in Re : cregx[o].live \/ cregx[o].subpats = Null
      /\ \A i \in It : iter[i] = NoIter \/ iter[i].over \in U8
  BY DEF Types, TypeOK, HeapOK, ZvalTypeOK, CregxTypeOK, Csu8TypeOK, Regexes,
         Iterators

LEMMA RegexParts ==
    /\ \A e, p : /\ Regex(e, p).live = TRUE /\ Regex(e, p).expr = e
                 /\ Regex(e, p).subpats = p
    /\ \A e \in Text \cup {Null}, p \in Arr \cup {Null} : Regex(e, p) \in Regexes
    /\ NoRegex \in Regexes /\ NoRegex.subpats = Null /\ NoRegex.expr = Null
    /\ \A r \in Regexes : /\ r.live \in BOOLEAN /\ r.expr \in Text \cup {Null}
                          /\ r.subpats \in Arr \cup {Null}
                          /\ [r EXCEPT !.subpats = Null] \in Regexes
  BY DEF Regex, NoRegex, Regexes

LEMMA IterParts ==
    /\ NoIter \in Iterators /\ NoIter.over = Null /\ NoIter.text = Null
    /\ \A o \in U8, s \in Text \cup {Undef} :
         LET r == [over |-> o, text |-> s]
         IN  r \in Iterators /\ r.over = o /\ r.text = s
    /\ \A r \in Iterators : /\ r.over \in U8 \cup {Null}
                            /\ r.text \in Text \cup {Null, Undef}
  BY DEF NoIter, Iterators

\* Nothing that captures depend on has changed.
LEMMA CapturesFrame ==
  ASSUME NEW a \in Arr, CapturesCounted(a),
         heap'.count[a] = heap.count[a], a \in heap'.live <=> a \in heap.live,
         user'[a] = user[a], taken'[a] = taken[a],
         a \in parted' <=> a \in parted, Owned(a)' = Owned(a)
  PROVE  CapturesCounted(a)'
  BY DEF CapturesCounted

LEMMA CapturesUntouched ==
  ASSUME Inv, \A o \in Re : cregx'[o].subpats = cregx[o].subpats,
         taken' = taken, parted' = parted,
         \A a \in Arr : /\ heap'.count[a] = heap.count[a]
                        /\ a \in heap'.live <=> a \in heap.live
                        /\ user'[a] = user[a]
  PROVE  OneOwner' /\ \A a \in Arr : CapturesCounted(a)'
<1>1. OneOwner'
  BY DEF Inv, OneOwner
<1>2. \A a \in Arr : Owned(a)' = Owned(a)
  BY DEF Owned
<1>3. \A a \in Arr : CapturesCounted(a)'
  BY <1>2, CapturesFrame DEF Inv
<1> QED  BY <1>1, <1>3

\* Nothing that a string depends on has changed.
LEMMA TextFrame ==
  ASSUME NEW s \in Str, TextCounted(s),
         heap'.count[s] = heap.count[s], s \in heap'.live <=> s \in heap.live,
         user'[s] = user[s], target' = target, iter' = iter
  PROVE  TextCounted(s)'
<1>1. Targets(s)' = Targets(s) /\ (Overwritten(s)' <=> Overwritten(s))
  BY DEF Targets, Overwritten
<1> QED  BY <1>1 DEF TextCounted

LEMMA TextsUntouched ==
  ASSUME Inv, ~ heap.broken, target' = target, iter' = iter,
         \A s \in Str \ (given' \cup loaned') :
            /\ s \notin given \cup loaned
            /\ heap'.count[s] = heap.count[s]
            /\ s \in heap'.live <=> s \in heap.live
            /\ user'[s] = user[s]
  PROVE  TargetsFinite' /\ TextsCounted'
<1>1. TargetsFinite'
  BY DEF Inv, TargetsFinite, Targets
<1>2. ASSUME NEW s \in Str \ (given' \cup loaned')
      PROVE  TextCounted(s)'
  BY TextFrame DEF Inv, TextsCounted
<1> QED  BY <1>1, <1>2 DEF TextsCounted

LEMMA ObjectsUntouched ==
  ASSUME Inv, refs' = refs, named' = named, iter' = iter
  PROVE  ObjectsCounted'
  BY DEF Inv, ObjectsCounted, Readers

\* Types of the next state, from its parts.
LEMMA TypesKept ==
  ASSUME HeapOK(heap'), user' \in [Val -> 0..MaxUser],
         cregx' \in [Re -> Regexes], taken' \in [Arr -> 0..2],
         given' \in SUBSET Str, parted' \in SUBSET Arr,
         target' \in [U8 -> Text \cup {Undef}], refs' \in [U8 -> Nat],
         named' \in SUBSET U8, iter' \in [It -> Iterators],
         loaned' \in SUBSET Str,
         \A o \in Re : cregx'[o].live \/ cregx'[o].subpats = Null,
         \A i \in It : iter'[i] = NoIter \/ iter'[i].over \in U8
  PROVE  Types'
  BY DEF Types, TypeOK, HeapOK, ZvalTypeOK, CregxTypeOK, Csu8TypeOK, Regexes,
         Iterators

\* The script can hold what a call returns.
LEMMA ReturnedTypes ==
  ASSUME Types, NEW v, Returned(v)
  PROVE  /\ user' \in [Val -> 0..MaxUser]
         /\ v \notin Val => user' = user
         /\ v \in Val => user'[v] = user[v] + 1
         /\ \A w \in Val : w # v => user'[w] = user[w]
  BY TypesParts, Kinds DEF Returned

\* One of those who hold the captures a lets go of them.
LEMMA CapturesLess ==
  ASSUME Types, NEW a \in Arr, CapturesCounted(a),
         user[a] + Owned(a) > 0, user'[a] \in Nat,
         user'[a] + Owned(a)' = user[a] + Owned(a) - 1,
         heap'.count[a] = (heap.count[a] + Wide - 1) % Wide,
         a \in heap'.live <=> a \in heap.live /\ heap'.count[a] # 0,
         taken'[a] = taken[a], a \in parted' <=> a \in parted
  PROVE  CapturesCounted(a)'
<1>1. /\ heap.count[a] \in 0..(Wide - 1) /\ user[a] \in Nat
      /\ Owned(a) \in 0..1 /\ Owned(a)' \in 0..1 /\ taken[a] \in 0..2
  BY TypesParts, HeapTypes, Kinds DEF Owned
<1>2. heap.count[a] > 0 => heap'.count[a] = heap.count[a] - 1
  BY <1>1, OneLess
<1> DEFINE c == heap.count[a]
           c2 == heap'.count[a]
           u == user[a]
           u2 == user'[a]
           n == Owned(a)
           n2 == Owned(a)'
           t == taken[a]
<1>3. /\ t <= 1 /\ a \notin heap.live => u = 0 /\ n = 0
      /\ t <= 1 /\ a \in heap.live => c = u + n + (1 - t) /\ c <= MaxRefs
      /\ a \in heap.live /\ a \notin parted =>
           c \in 1..MaxRefs /\ (t = 2 => c < u + n)
  BY DEF CapturesCounted
<1>4. /\ c \in Nat /\ u \in Nat /\ u2 \in Nat /\ n \in 0..1 /\ n2 \in 0..1
      /\ t \in 0..2 /\ u + n > 0 /\ u2 + n2 = u + n - 1
      /\ c > 0 => c2 = c - 1
      /\ MaxRefs \in Nat
  BY <1>1, <1>2, Kinds
<1>5. a \in heap'.live <=> a \in heap.live /\ c2 # 0
  OBVIOUS
<1> HIDE DEF c, c2, u, u2, n, n2, t
<1>6. ASSUME t <= 1, a \notin heap'.live
      PROVE  u2 = 0 /\ n2 = 0
  BY <1>3, <1>4, <1>5, <1>6
<1>7. ASSUME t <= 1, a \in heap'.live
      PROVE  c2 = u2 + n2 + (1 - t) /\ c2 <= MaxRefs
  BY <1>3, <1>4, <1>5, <1>7
<1>8. ASSUME a \in heap'.live, a \notin parted
      PROVE  c2 \in 1..MaxRefs /\ (t = 2 => c2 < u2 + n2)
  BY <1>3, <1>4, <1>5, <1>8
<1> QED  BY <1>6, <1>7, <1>8 DEF CapturesCounted, c2, u2, n2, t

\* A variable more holds the captures a, and is counted.
LEMMA CapturesMore ==
  ASSUME Types, NEW a \in Arr, CapturesCounted(a),
         user[a] > 0, user'[a] = user[a] + 1, Owned(a)' = Owned(a),
         heap.count[a] # MaxRefs,
         heap'.count[a] = (heap.count[a] + 1) % Wide,
         a \in heap'.live <=> a \in heap.live,
         taken'[a] = taken[a], a \in parted' <=> a \in parted
  PROVE  CapturesCounted(a)'
<1>1. /\ heap.count[a] \in 0..(Wide - 1) /\ user[a] \in Nat
      /\ Owned(a) \in 0..1 /\ taken[a] \in 0..2
  BY TypesParts, HeapTypes, Kinds DEF Owned
<1>2. heap.count[a] < MaxRefs => heap'.count[a] = heap.count[a] + 1
  BY <1>1, OneMore
<1>3. ASSUME taken[a] <= 1 \/ (a \in heap.live /\ a \notin parted)
      PROVE  heap.count[a] < MaxRefs
  BY <1>1, <1>3, Kinds DEF CapturesCounted
<1> QED  BY <1>1, <1>2, <1>3, Kinds DEF CapturesCounted

-----------------------------------------------------------------------------
(***************************************************************************)
(* The steps of Cregx.                                                     *)
(***************************************************************************)
LEMMA Owners01 ==
    \A a : /\ Owned(a) \in 0..1 /\ Owned(a)' \in 0..1
           /\ Owned(a) = 1 <=> \E o \in Re : cregx[o].subpats = a
           /\ Owned(a)' = 1 <=> \E o \in Re : cregx'[o].subpats = a
  BY DEF Owned

\* The object o gets the captures p in place of q.
LEMMA SubpatsChanged ==
  ASSUME Types, OneOwner, NEW o \in Re, NEW p \in Arr \cup {Null},
         NEW q, q = cregx[o].subpats, cregx'[o].subpats = p,
         \A b \in Re \ {o} : cregx'[b].subpats = cregx[b].subpats,
         p \in Arr => \A b \in Re : cregx[b].subpats # p
  PROVE  /\ OneOwner'
         /\ \A a \in Arr \ {p, q} : Owned(a)' = Owned(a)
         /\ q \in Arr => Owned(q) = 1 /\ Owned(q)' = 0
         /\ p \in Arr => Owned(p)' = 1
<1>0. \A b \in Re : cregx[b].subpats \in Arr \cup {Null}
  BY TypesParts, RegexParts
<1>k. Null \notin Arr
  BY Kinds
<1>1. OneOwner'
  BY <1>0, <1>k DEF OneOwner
<1>2. \A a \in Arr \ {p, q} : Owned(a)' = Owned(a)
  BY DEF Owned
<1>3. ASSUME q \in Arr PROVE Owned(q) = 1 /\ Owned(q)' = 0
  <2>1. Owned(q) = 1
    BY DEF Owned
  <2>2. ASSUME NEW b \in Re PROVE cregx'[b].subpats # q
    BY <1>3, <1>k DEF OneOwner
  <2> QED  BY <2>1, <2>2, Owners01
<1>4. p \in Arr => Owned(p)' = 1
  BY DEF Owned
<1> QED  BY <1>1, <1>2, <1>3, <1>4

\* match and clear give up the captures of the match before.
LEMMA CapturesDropped ==
  ASSUME Inv, NEW o \in Re, NEW p \in Arr \cup {Null},
         cregx'[o].subpats = p,
         \A b \in Re \ {o} : cregx'[b].subpats = cregx[b].subpats,
         p \in Arr => \A b \in Re : cregx[b].subpats # p,
         \A a \in Arr \ {p} :
            /\ heap'.count[a] = WithoutCaptures(o).count[a]
            /\ a \in heap'.live <=> a \in WithoutCaptures(o).live
            /\ user'[a] = user[a] /\ taken'[a] = taken[a]
            /\ a \in parted' <=> a \in parted
  PROVE  OneOwner' /\ \A a \in Arr \ {p} : CapturesCounted(a)'
<1> PICK q : q = cregx[o].subpats
  OBVIOUS
<1> DEFINE w == WithoutCaptures(o)
<1>0. Types /\ OneOwner /\ HeapOK(heap) /\ q \in Arr \cup {Null}
  BY TypesParts, RegexParts DEF Inv
<1>k. Null \notin Val /\ Arr \subseteq Val
  BY Kinds
<1>1. /\ OneOwner'
      /\ \A a \in Arr \ {p, q} : Owned(a)' = Owned(a)
      /\ q \in Arr => Owned(q) = 1 /\ Owned(q)' = 0
  BY <1>0, SubpatsChanged
<1>2. /\ Others(heap, w, q)
      /\ q \in Val => /\ w.count[q] = (heap.count[q] + Wide - 1) % Wide
                      /\ q \in w.live <=> q \in heap.live /\ w.count[q] # 0
  BY <1>0, PtrDtorStep DEF WithoutCaptures
<1>3. \A a \in Arr \ {p} :
         /\ heap'.count[a] = w.count[a] /\ (a \in heap'.live <=> a \in w.live)
         /\ user'[a] = user[a] /\ taken'[a] = taken[a]
         /\ (a \in parted' <=> a \in parted)
  OBVIOUS
<1> HIDE DEF w
<1>4. ASSUME NEW a \in Arr \ {p} PROVE CapturesCounted(a)'
  <2>0. CapturesCounted(a) /\ user[a] \in Nat /\ a \in Val
    BY <1>0, <1>k, TypesParts DEF Inv
  <2>1. CASE a = q
    <3>1. user[a] + Owned(a) > 0
      BY <1>1, <2>0, <2>1
    <3>2. user'[a] + Owned(a)' = user[a] + Owned(a) - 1 /\ user'[a] \in Nat
      BY <1>1, <1>3, <2>0, <2>1
    <3>3. heap'.count[a] = (heap.count[a] + Wide - 1) % Wide
      BY <1>2, <1>3, <2>0, <2>1
    <3>4. a \in heap'.live <=> a \in heap.live /\ heap'.count[a] # 0
      BY <1>2, <1>3, <2>0, <2>1
    <3> QED  BY <1>0, <1>3, <2>0, <3>1, <3>2, <3>3, <3>4, CapturesLess
  <2>2. CASE a # q
    <3>1. Owned(a)' = Owned(a)
      BY <1>1, <2>2
    <3>2. heap'.count[a] = heap.count[a] /\ (a \in heap'.live <=> a \in heap.live)
      BY <1>2, <1>3, <2>0, <2>2 DEF Others
    <3> QED  BY <1>3, <2>0, <3>1, <3>2, CapturesFrame
  <2> QED  BY <2>1, <2>2
<1> QED  BY <1>1, <1>4

\* Giving up captures concerns no string.
LEMMA WithoutCapturesTexts ==
  ASSUME Inv, NEW o \in Re
  PROVE  /\ HeapOK(WithoutCaptures(o))
         /\ \A s \in Str :
              /\ WithoutCaptures(o).count[s] = heap.count[s]
              /\ s \in WithoutCaptures(o).live <=> s \in heap.live
<1>1. HeapOK(heap) /\ cregx[o].subpats \in Arr \cup {Null}
  BY TypesParts, RegexParts DEF Inv
<1>2. HeapOK(WithoutCaptures(o))
      /\ Others(heap, WithoutCaptures(o), cregx[o].subpats)
  BY <1>1, PtrDtorStep DEF WithoutCaptures
<1> QED  BY <1>1, <1>2, Kinds DEF Others


\* A regular expression changes, and no captures and no text that is watched.
LEMMA PatternChanged ==
  ASSUME Inv, ~ heap.broken, NEW o \in Re, NEW e \in Text \cup {Null},
         cregx' = [cregx EXCEPT ![o] = Regex(e, @.subpats)],
         HeapOK(heap'), heap'.live = heap.live,
         user' = user, taken' = taken, parted' = parted,
         given' \in SUBSET Str, csu8Vars' = csu8Vars,
         \A a \in Arr : heap'.count[a] = heap.count[a],
         given \subseteq given',
         \A s \in Str \ given' : heap'.count[s] = heap.count[s]
  PROVE  Inv'
<1> USE DEF csu8Vars
<1>0. /\ cregx \in [Re -> Regexes] /\ cregx[o] \in Regexes
      /\ cregx[o].subpats \in Arr \cup {Null}
  BY TypesParts, RegexParts DEF Inv
<1> DEFINE r == Regex(e, cregx[o].subpats)
<1>1. r \in Regexes /\ r.live /\ r.subpats = cregx[o].subpats
  BY <1>0, RegexParts
<1> HIDE DEF r
<1>2. cregx' = [cregx EXCEPT ![o] = r]
  BY DEF r
<1>3. cregx' \in [Re -> Regexes] /\ cregx'[o].live
      /\ (\A b \in Re \ {o} : cregx'[b] = cregx[b])
      /\ \A b \in Re : cregx'[b].subpats = cregx[b].subpats
  BY <1>0, <1>1, <1>2
<1>l. \A b \in Re : cregx'[b].live \/ cregx'[b].subpats = Null
  BY <1>3, TypesParts DEF Inv
<1>4. Types'
  BY <1>3, <1>l, TypesParts, TypesKept DEF Inv
<1>5. OneOwner' /\ \A a \in Arr : CapturesCounted(a)'
  BY <1>3, CapturesUntouched
<1>6. TargetsFinite' /\ TextsCounted'
  BY TextsUntouched
<1>7. ObjectsCounted'
  BY ObjectsUntouched
<1> QED  BY <1>4, <1>5, <1>6, <1>7 DEF Inv

LEMMA ConstructRegexKeeps ==
  ASSUME Inv, ~ heap.broken, UNCHANGED csu8Vars,
         NEW o \in Re, NEW s \in Text, ConstructRegex(o, s)
  PROVE  Inv'
<1>1. HeapOK(heap) /\ given \in SUBSET Str
  BY TypesParts DEF Inv
<1>2. HeapOK(heap') /\ heap'.live = heap.live /\ heap'.count = heap.count
  BY <1>1, TouchHeap DEF ConstructRegex
<1> QED  BY <1>1, <1>2, PatternChanged DEF ConstructRegex, cregxHistory

LEMMA SetExprKeeps ==
  ASSUME Inv, ~ heap.broken, UNCHANGED csu8Vars,
         NEW o \in Re, NEW s \in Text, SetExpr(o, s)
  PROVE  Inv'
<1> PICK e : e = cregx[o].expr
  OBVIOUS
<1>1. HeapOK(heap) /\ given \in SUBSET Str /\ e \in Text \cup {Null}
  BY TypesParts, RegexParts DEF Inv
<1> PICK t : t = Touch(heap, s)
  OBVIOUS
<1>2. HeapOK(t) /\ t.live = heap.live /\ t.count = heap.count
  BY <1>1, TouchHeap
<1>3. HeapOK(heap') /\ heap'.live = t.live /\ Others(t, heap', e)
  BY <1>2, DelRefStep DEF SetExpr
<1>4. given' = given \cup ({e} \cap Str)
  BY DEF SetExpr
<1>5. /\ \A a \in Arr : heap'.count[a] = heap.count[a]
      /\ \A x \in Str \ given' : heap'.count[x] = heap.count[x]
  BY <1>1, <1>2, <1>3, <1>4, Kinds DEF Others
<1> QED  BY <1>1, <1>2, <1>3, <1>4, <1>5, PatternChanged DEF SetExpr

\* A variable more holds the string s, and is counted.
LEMMA TextMore ==
  ASSUME Types, ~ heap.broken, NEW s \in Str, TextCounted(s), TargetsFinite,
         ~ heap'.broken, heap.count[s] # MaxRefs, user'[s] = user[s] + 1,
         heap'.count[s] = (heap.count[s] + 1) % Wide,
         heap'.live = heap.live, s \in heap.live,
         target' = target, iter' = iter
  PROVE  TextCounted(s)'
<1>1. Targets(s)' = Targets(s) /\ (Overwritten(s)' <=> Overwritten(s))
  BY DEF Targets, Overwritten
<1>2. heap.count[s] \in 0..(Wide - 1) /\ user[s] \in Nat
  BY TypesParts, HeapTypes, Kinds
<1>3. heap.count[s] < MaxRefs
  BY <1>2, Kinds DEF TextCounted
<1>4. heap'.count[s] = heap.count[s] + 1 /\ heap'.count[s] <= MaxRefs
  BY <1>2, <1>3, OneMore, Kinds
<1>5. Cardinality(Targets(s)) \in Nat
  BY FS_CardinalityType DEF TargetsFinite
<1> QED  BY <1>1, <1>2, <1>4, <1>5 DEF TextCounted

LEMMA RegexToStringKeeps ==
  ASSUME Inv, ~ heap.broken, UNCHANGED csu8Vars, NEW o \in Re, RegexToString(o)
  PROVE  Inv'
<1> USE DEF csu8Vars, cregxVars
<1> PICK e : e = cregx[o].expr
  OBVIOUS
<1>1. Types /\ HeapOK(heap) /\ e \in Text \cup {Null}
  BY TypesParts, RegexParts DEF Inv
<1>2. HeapOK(heap') /\ heap'.live = heap.live /\ Others(heap, heap', e)
      /\ (heap'.broken <=> heap.broken \/ (e \in Val /\ e \notin heap.live))
      /\ (e \in Val => heap'.count[e] = (heap.count[e] + 1) % Wide)
  BY <1>1, AddRefStep DEF RegexToString
<1>3. /\ user' \in [Val -> 0..MaxUser]
      /\ e \in Val => user'[e] = user[e] + 1
      /\ \A w \in Val : w # e => user'[w] = user[w]
  BY <1>1, ReturnedTypes DEF RegexToString
<1>4. Types'
  BY <1>1, <1>2, <1>3, TypesParts, TypesKept DEF RegexToString
<1>5. \A a \in Arr : heap'.count[a] = heap.count[a] /\ user'[a] = user[a]
  BY <1>1, <1>2, <1>3, Kinds DEF Others
<1>6. OneOwner' /\ \A a \in Arr : CapturesCounted(a)'
  BY <1>2, <1>5, CapturesUntouched DEF RegexToString
<1>7. TargetsFinite'
  BY DEF Inv, TargetsFinite, Targets, RegexToString
<1>8. ASSUME ~ heap'.broken, NEW s \in Str \ (given \cup loaned)
      PROVE  TextCounted(s)'
  <2>0. TextCounted(s) /\ s \in Val
    BY Kinds DEF Inv, TextsCounted
  <2>1. CASE s = e
    <3>1. s \in heap.live /\ heap.count[s] # MaxRefs
      BY <1>2, <1>8, <2>0, <2>1 DEF RegexToString, Room
    <3>2. heap'.count[s] = (heap.count[s] + 1) % Wide /\ user'[s] = user[s] + 1
      BY <1>2, <1>3, <2>0, <2>1
    <3> QED  BY <1>1, <1>2, <1>8, <2>0, <3>1, <3>2, TextMore
             DEF RegexToString, Inv
  <2>2. CASE s # e
    <3>1. heap'.count[s] = heap.count[s] /\ user'[s] = user[s]
      BY <1>2, <1>3, <2>0, <2>2 DEF Others
    <3> QED  BY <1>2, <2>0, <3>1, TextFrame DEF RegexToString
  <2> QED  BY <2>1, <2>2
<1>9. TextsCounted'
  BY <1>8 DEF TextsCounted, RegexToString
<1>10. ObjectsCounted'
  BY ObjectsUntouched DEF RegexToString
<1> QED  BY <1>4, <1>6, <1>7, <1>9, <1>10 DEF Inv

\* The new subpats of one object, and that it is one of the class.
LEMMA SubpatsTypes ==
  ASSUME Types, NEW o \in Re, cregx[o].live, NEW p \in Arr \cup {Null},
         cregx' = [cregx EXCEPT ![o].subpats = p]
  PROVE  /\ cregx' \in [Re -> Regexes] /\ cregx'[o].subpats = p
         /\ \A b \in Re \ {o} : cregx'[b] = cregx[b]
         /\ \A b \in Re : cregx'[b].live \/ cregx'[b].subpats = Null
<1>1. cregx \in [Re -> Regexes] /\ cregx[o] \in Regexes
  BY TypesParts
<1> DEFINE r == [cregx[o] EXCEPT !.subpats = p]
<1>2. r \in Regexes /\ r.subpats = p /\ r.live
  BY <1>1 DEF Regexes
<1>3. cregx' = [cregx EXCEPT ![o] = r]
  OBVIOUS
<1> HIDE DEF r
<1>4. /\ cregx' \in [Re -> Regexes] /\ cregx'[o] = r
      /\ \A b \in Re \ {o} : cregx'[b] = cregx[b]
  BY <1>1, <1>2, <1>3
<1> QED  BY <1>2, <1>4, TypesParts

\* The captures of an object are given up, and nothing else happens.
LEMMA CapturesGivenUp ==
  ASSUME Inv, ~ heap.broken, NEW o \in Re, UNCHANGED csu8Vars, cregx[o].live,
         cregx' = [cregx EXCEPT ![o].subpats = Null],
         HeapOK(heap'), heap'.live = WithoutCaptures(o).live,
         heap'.count = WithoutCaptures(o).count,
         UNCHANGED <<user, cregxHistory>>
  PROVE  Inv'
<1> USE DEF csu8Vars, cregxHistory
<1>1. cregx' \in [Re -> Regexes] /\ cregx'[o].subpats = Null
      /\ (\A b \in Re : cregx'[b].live \/ cregx'[b].subpats = Null)
      /\ \A b \in Re \ {o} : cregx'[b].subpats = cregx[b].subpats
  BY SubpatsTypes DEF Inv
<1>2. Types'
  BY <1>1, TypesParts, TypesKept DEF Inv
<1>3. OneOwner' /\ \A a \in Arr \ {Null} : CapturesCounted(a)'
  BY <1>1, Kinds, CapturesDropped
<1>4. Null \notin Arr
  BY Kinds
<1>5. TargetsFinite' /\ TextsCounted'
  BY WithoutCapturesTexts, TextsUntouched
<1>6. ObjectsCounted'
  BY ObjectsUntouched
<1> QED  BY <1>2, <1>3, <1>4, <1>5, <1>6 DEF Inv

LEMMA ClearKeeps ==
  ASSUME Inv, ~ heap.broken, UNCHANGED csu8Vars, NEW o \in Re, Clear(o)
  PROVE  Inv'
  BY WithoutCapturesTexts, CapturesGivenUp DEF Clear

LEMMA MatchFailsKeeps ==
  ASSUME Inv, ~ heap.broken, UNCHANGED csu8Vars, NEW o \in Re, MatchFails(o)
  PROVE  Inv'
<1>1. HeapOK(WithoutCaptures(o))
  BY WithoutCapturesTexts
<1>2. HeapOK(heap') /\ heap'.live = WithoutCaptures(o).live
      /\ heap'.count = WithoutCaptures(o).count
  BY <1>1, TouchTextHeap DEF MatchFails
<1> QED  BY <1>2, CapturesGivenUp DEF MatchFails

LEMMA MatchKeeps ==
  ASSUME Inv, ~ heap.broken, UNCHANGED csu8Vars,
         NEW o \in Re, NEW a \in Arr, Match(o, a)
  PROVE  Inv'
<1> USE DEF csu8Vars
<1>0. Types /\ OneOwner /\ a \in Val /\ HeapOK(heap)
  BY TypesParts, Kinds DEF Inv
<1> PICK w : w = WithoutCaptures(o)
  OBVIOUS
<1> PICK t : t = TouchText(w, cregx[o].expr)
  OBVIOUS
<1> PICK n : n = Allocate(t, a)
  OBVIOUS
<1>1. /\ HeapOK(w)
      /\ \A s \in Str : w.count[s] = heap.count[s] /\ (s \in w.live <=> s \in heap.live)
  BY WithoutCapturesTexts
<1>2. HeapOK(t) /\ t.live = w.live /\ t.count = w.count
  BY <1>1, TouchTextHeap
<1>3. /\ HeapOK(n) /\ n.live = w.live \cup {a} /\ n.count[a] = 1
      /\ \A v \in Val \ {a} : n.count[v] = w.count[v]
  BY <1>0, <1>2, AllocateHeap
<1>4. heap' = AddRef(n, a)
  BY DEF Match
<1>5. HeapOK(heap') /\ heap'.live = n.live /\ Others(n, heap', a)
      /\ heap'.count[a] = (n.count[a] + 1) % Wide
  BY <1>0, <1>3, <1>4, AddRefStep
<1>6. heap'.count[a] = 2
  BY <1>3, <1>5, Kinds
<1>7. \A v \in Val \ {a} : /\ heap'.count[v] = w.count[v]
                           /\ v \in heap'.live <=> v \in w.live
  BY <1>3, <1>5 DEF Others
<1>8. cregx' \in [Re -> Regexes] /\ cregx'[o].subpats = a
      /\ (\A b \in Re : cregx'[b].live \/ cregx'[b].subpats = Null)
      /\ \A b \in Re \ {o} : cregx'[b].subpats = cregx[b].subpats
  BY <1>0, SubpatsTypes DEF Match
<1>9. \A b \in Re : cregx[b].subpats # a
  BY DEF Match, FreshArray
<1>10. /\ taken' \in [Arr -> 0..2] /\ taken'[a] = 0
       /\ \A b \in Arr \ {a} : taken'[b] = taken[b] /\ (b \in parted' <=> b \in parted)
       /\ parted' \in SUBSET Arr /\ user' = user /\ user[a] = 0
       /\ given' = given
  BY <1>0, TypesParts DEF Match, FreshArray
<1>11. Types'
  BY <1>0, <1>5, <1>8, <1>10, TypesParts, TypesKept
<1>12. \A b \in Arr \ {a} : /\ heap'.count[b] = WithoutCaptures(o).count[b]
                            /\ b \in heap'.live <=> b \in WithoutCaptures(o).live
  BY <1>7, Kinds
<1>13. OneOwner' /\ \A b \in Arr \ {a} : CapturesCounted(b)'
  BY <1>8, <1>9, <1>10, <1>12, CapturesDropped
<1>14. CapturesCounted(a)'
  <2>1. Owned(a)' = 1
    BY <1>8, Owners01
  <2>2. a \in heap'.live
    BY <1>3, <1>5
  <2> QED  BY <1>6, <1>10, <2>1, <2>2, Kinds DEF CapturesCounted
<1>15. TargetsFinite' /\ TextsCounted'
  <2>1. \A s \in Str : /\ heap'.count[s] = heap.count[s]
                       /\ s \in heap'.live <=> s \in heap.live
    BY <1>1, <1>7, Kinds
  <2> QED  BY <1>10, <2>1, TextsUntouched
<1>16. ObjectsCounted'
  BY ObjectsUntouched
<1> QED  BY <1>11, <1>13, <1>14, <1>15, <1>16 DEF Inv

LEMMA CloneRegexKeeps ==
  ASSUME Inv, ~ heap.broken, UNCHANGED csu8Vars,
         NEW o \in Re, NEW b \in Re, CloneRegex(o, b)
  PROVE  Inv'
<1> USE DEF csu8Vars, cregxHistory
<1>1. Regex(Null, Null) \in Regexes /\ Regex(Null, Null).subpats = Null
  BY DEF Regex, Regexes
<1>2. cregx \in [Re -> Regexes] /\ cregx[b].subpats = Null
      /\ \A x \in Re : cregx[x].live \/ cregx[x].subpats = Null
  BY TypesParts DEF Inv, CloneRegex
<1>3. /\ cregx' \in [Re -> Regexes]
      /\ \A x \in Re : cregx'[x].live \/ cregx'[x].subpats = Null
      /\ \A x \in Re : cregx'[x].subpats = cregx[x].subpats
  BY <1>1, <1>2 DEF CloneRegex
<1>4. Types'
  BY <1>3, TypesParts, TypesKept DEF Inv, CloneRegex
<1>5. OneOwner' /\ \A a \in Arr : CapturesCounted(a)'
  BY <1>3, CapturesUntouched DEF CloneRegex
<1>6. TargetsFinite' /\ TextsCounted'
  BY TextsUntouched DEF CloneRegex
<1>7. ObjectsCounted'
  BY ObjectsUntouched
<1> QED  BY <1>4, <1>5, <1>6, <1>7 DEF Inv

LEMMA CapturesKeeps ==
  ASSUME Inv, ~ heap.broken, UNCHANGED csu8Vars, NEW o \in Re, Captures(o)
  PROVE  Inv'
<1> USE DEF csu8Vars
<1> PICK q : q = cregx[o].subpats
  OBVIOUS
<1>1. Types /\ q \in Arr /\ q \in Val
  BY Kinds DEF Inv, Captures
<1>2. /\ user' \in [Val -> 0..MaxUser] /\ user'[q] = user[q] + 1
      /\ \A w \in Val : w # q => user'[w] = user[w]
  BY <1>1, ReturnedTypes DEF Captures
<1>3. /\ taken \in [Arr -> 0..2] /\ taken' \in [Arr -> 0..2]
      /\ taken'[q] = IF taken[q] = 2 THEN 2 ELSE taken[q] + 1
      /\ \A b \in Arr \ {q} : taken'[b] = taken[b]
      /\ user \in [Val -> 0..MaxUser]
  BY <1>1, TypesParts DEF Captures
<1>4. heap' = heap /\ cregx' = cregx /\ given' = given /\ parted' = parted
  BY DEF Captures
<1>5. Types'
  BY <1>1, <1>2, <1>3, <1>4, TypesParts, TypesKept
<1>6. OneOwner' /\ \A a \in Arr : Owned(a)' = Owned(a)
  BY <1>4 DEF Inv, OneOwner, Owned
<1>7. ASSUME NEW a \in Arr PROVE CapturesCounted(a)'
  <2>0. CapturesCounted(a) /\ a \in Val
    BY <1>7, Kinds DEF Inv
  <2>1. CASE a # q
    <3>1. user'[a] = user[a] /\ taken'[a] = taken[a] /\ Owned(a)' = Owned(a)
      BY <1>2, <1>3, <1>6, <2>0, <2>1
    <3> QED  BY <1>4, <2>0, <3>1, CapturesFrame
  <2>2. CASE a = q
    <3>1. Owned(q) = 1 /\ Owned(q)' = 1
      BY <1>6, <2>2 DEF Owned
    <3>2. heap.count[q] \in 0..(Wide - 1) /\ user[q] \in Nat /\ taken[q] \in 0..2
      BY <1>1, <1>3, TypesParts, HeapTypes
    <3>3. CapturesCounted(q)'
      BY <1>2, <1>3, <1>4, <2>0, <2>2, <3>1, <3>2, Kinds DEF CapturesCounted
    <3> QED  BY <2>2, <3>3
  <2> QED  BY <2>1, <2>2
<1>8. TargetsFinite' /\ TextsCounted'
  BY <1>1, <1>2, <1>4, Kinds, TextsUntouched
<1>9. ObjectsCounted'
  BY ObjectsUntouched
<1> QED  BY <1>5, <1>6, <1>7, <1>8, <1>9 DEF Inv

LEMMA FreeRegexKeeps ==
  ASSUME Inv, ~ heap.broken, UNCHANGED csu8Vars, NEW o \in Re, FreeRegex(o)
  PROVE  Inv'
<1> USE DEF csu8Vars
<1> PICK q : q = cregx[o].subpats
  OBVIOUS
<1> PICK e : e = cregx[o].expr
  OBVIOUS
<1> PICK d : d = DelRef(heap, e)
  OBVIOUS
<1>1. Types /\ OneOwner /\ HeapOK(heap) /\ q \in Arr \cup {Null}
      /\ e \in Text \cup {Null} /\ cregx \in [Re -> Regexes]
  BY TypesParts, RegexParts DEF Inv
<1>2. HeapOK(d) /\ d.live = heap.live /\ Others(heap, d, e)
  BY <1>1, DelRefStep
<1>3. HeapOK(heap') /\ heap'.live = d.live /\ Others(d, heap', q)
      /\ (q \in Val => heap'.count[q] = (d.count[q] + Wide - 1) % Wide)
  BY <1>2, DelRefStep DEF FreeRegex
<1>4. /\ cregx' \in [Re -> Regexes] /\ cregx'[o].subpats = Null
      /\ \A b \in Re \ {o} : cregx'[b] = cregx[b]
  BY <1>1, RegexParts DEF FreeRegex
<1>5. \A b \in Re : cregx'[b].live \/ cregx'[b].subpats = Null
  BY <1>1, <1>4, TypesParts
<1>6. given' = given \cup ({e} \cap Str) /\ parted' = parted \cup ({q} \cap Arr)
      /\ user' = user /\ taken' = taken
  BY DEF FreeRegex
<1>7. Types'
  BY <1>1, <1>3, <1>4, <1>5, <1>6, TypesParts, TypesKept
<1>8. /\ OneOwner'
      /\ \A a \in Arr \ {Null, q} : Owned(a)' = Owned(a)
      /\ q \in Arr => Owned(q) = 1 /\ Owned(q)' = 0
  BY <1>1, <1>4, Kinds, SubpatsChanged
<1>9. \A v \in Val \ {e, q} : heap'.count[v] = heap.count[v]
  BY <1>2, <1>3 DEF Others
<1>10. ASSUME NEW a \in Arr PROVE CapturesCounted(a)'
  <2>0. CapturesCounted(a) /\ a \in Val /\ a # Null /\ a # e
    BY <1>1, <1>10, Kinds DEF Inv
  <2>1. CASE a # q
    <3>1. heap'.count[a] = heap.count[a] /\ Owned(a)' = Owned(a)
      BY <1>8, <1>9, <2>0, <2>1
    <3> QED  BY <1>2, <1>3, <1>6, <2>0, <2>1, <3>1, CapturesFrame
  <2>2. CASE a = q
    <3>1. Owned(a) = 1 /\ Owned(a)' = 0 /\ a \in parted'
      BY <1>6, <1>8, <2>2
    <3>2. heap'.count[a] = (heap.count[a] + Wide - 1) % Wide
      BY <1>2, <1>3, <2>0, <2>2 DEF Others
    <3>3. /\ heap.count[a] \in 0..(Wide - 1) /\ user[a] \in Nat
          /\ taken[a] \in 0..2
      BY <1>1, <2>0, TypesParts, HeapTypes
    <3>4. heap.count[a] > 0 => heap'.count[a] = heap.count[a] - 1
      BY <3>2, <3>3, OneLess
    <3> QED  BY <1>2, <1>3, <1>6, <2>0, <3>1, <3>3, <3>4, Kinds
             DEF CapturesCounted
  <2> QED  BY <2>1, <2>2
<1>11. TargetsFinite' /\ TextsCounted'
  <2>1. \A s \in Str \ given' : heap'.count[s] = heap.count[s] /\ s \notin given
    BY <1>1, <1>6, <1>9, Kinds
  <2> QED  BY <1>2, <1>3, <1>6, <2>1, TextsUntouched
<1>12. ObjectsCounted'
  BY ObjectsUntouched
<1> QED  BY <1>7, <1>8, <1>10, <1>11, <1>12 DEF Inv


-----------------------------------------------------------------------------
(***************************************************************************)
(* The steps of Csu8.                                                      *)
(***************************************************************************)
\* An object gets the string x in place of t.
Moved(s, x, t) ==
    /\ IsFiniteSet(Targets(s)')
    /\ Cardinality(Targets(s)) \in Nat /\ Cardinality(Targets(s)') \in Nat
    /\ s # x /\ s # t => Targets(s)' = Targets(s)
    /\ s = x /\ s = t => Targets(s)' = Targets(s)
    /\ s = x /\ s # t => Cardinality(Targets(s)') = Cardinality(Targets(s)) + 1
    /\ s # x /\ s = t => Cardinality(Targets(s)') = Cardinality(Targets(s)) - 1

LEMMA TargetChanged ==
  ASSUME Types, TargetsFinite, NEW o \in U8, NEW x, NEW t, t = target[o],
         target' = [target EXCEPT ![o] = x], NEW s \in Str
  PROVE  Moved(s, x, t)
<1>1. target \in [U8 -> Text \cup {Undef}] /\ IsFiniteSet(Targets(s))
  BY TypesParts DEF TargetsFinite
<1>2. /\ s = x => Targets(s)' = Targets(s) \cup {o}
      /\ s # x => Targets(s)' = Targets(s) \ {o}
      /\ s = t <=> o \in Targets(s)
  BY <1>1 DEF Targets
<1>3. IsFiniteSet(Targets(s)')
  BY <1>1, <1>2, FS_AddElement, FS_RemoveElement
<1>4. Cardinality(Targets(s)) \in Nat /\ Cardinality(Targets(s)') \in Nat
  BY <1>1, <1>3, FS_CardinalityType
<1>5. s = x /\ s # t => Cardinality(Targets(s)') = Cardinality(Targets(s)) + 1
  BY <1>1, <1>2, FS_AddElement
<1>6. s # x /\ s = t => Cardinality(Targets(s)') = Cardinality(Targets(s)) - 1
  BY <1>1, <1>2, FS_RemoveElement
<1>7. /\ s # x /\ s # t => Targets(s)' = Targets(s)
      /\ s = x /\ s = t => Targets(s)' = Targets(s)
  BY <1>2
<1> QED  BY <1>3, <1>4, <1>5, <1>6, <1>7 DEF Moved

\* A new object is referred to by one variable and by no iterator.
LEMMA ObjectCreated ==
  ASSUME Inv, NEW o \in U8, Created(o) \/ Old(o), iter' = iter
  PROVE  refs' \in [U8 -> Nat] /\ named' \in SUBSET U8 /\ ObjectsCounted'
<1>1. refs \in [U8 -> Nat] /\ named \in SUBSET U8
  BY TypesParts DEF Inv
<1>2. CASE Old(o)
  BY <1>1, <1>2, ObjectsUntouched DEF Old
<1>3. CASE Created(o)
  <2>1. IsFiniteSet(Readers(o))
        /\ refs[o] = Cardinality(Readers(o)) + (IF o \in named THEN 1 ELSE 0)
    BY DEF Inv, ObjectsCounted
  <2>2. Cardinality(Readers(o)) = 0 /\ o \notin named
    BY <1>3, <2>1, FS_CardinalityType DEF Created
  <2>3. \A b : Readers(b)' = Readers(b)
    BY DEF Readers
  <2>4. refs'[o] = Cardinality(Readers(o)') + (IF o \in named' THEN 1 ELSE 0)
    BY <1>1, <1>3, <2>2, <2>3 DEF Created
  <2>5. ASSUME NEW b \in U8, b # o
        PROVE  refs'[b] = refs[b] /\ (b \in named' <=> b \in named)
    BY <1>1, <1>3, <2>5 DEF Created
  <2>6. ObjectsCounted'
    <3> SUFFICES ASSUME NEW b \in U8
                 PROVE  /\ IsFiniteSet(Readers(b)')
                        /\ refs'[b] = Cardinality(Readers(b)')
                                        + (IF b \in named' THEN 1 ELSE 0)
      BY DEF ObjectsCounted
    <3>1. /\ IsFiniteSet(Readers(b))
          /\ refs[b] = Cardinality(Readers(b)) + (IF b \in named THEN 1 ELSE 0)
      BY DEF Inv, ObjectsCounted
    <3> QED  BY <2>3, <2>4, <2>5, <3>1
  <2> QED  BY <1>1, <1>3, <2>6 DEF Created
<1> QED  BY <1>2, <1>3

LEMMA ConstructCsu8Keeps ==
  ASSUME Inv, ~ heap.broken, UNCHANGED cregxVars,
         NEW o \in U8, NEW s \in Text, ConstructCsu8(o, s)
  PROVE  Inv'
<1> USE DEF cregxVars
<1> PICK t : t = target[o]
  OBVIOUS
<1>1. Types /\ TargetsFinite /\ HeapOK(heap) /\ target \in [U8 -> Text \cup {Undef}]
      /\ \A i \in It : iter[i] = NoIter \/ iter[i].over \in U8
  BY TypesParts DEF Inv
<1>2. /\ target' = [target EXCEPT ![o] = s] /\ iter' = iter /\ user' = user
      /\ loaned' = loaned /\ Room(s) /\ heap' = AddRef(heap, s)
      /\ Created(o) \/ Old(o)
  BY DEF ConstructCsu8
<1>3. /\ HeapOK(heap') /\ heap'.live = heap.live /\ Others(heap, heap', s)
      /\ heap'.broken <=> heap.broken \/ (s \in Val /\ s \notin heap.live)
      /\ s \in Val => heap'.count[s] = (heap.count[s] + 1) % Wide
  BY <1>1, <1>2, AddRefStep
<1>4. refs' \in [U8 -> Nat] /\ named' \in SUBSET U8 /\ ObjectsCounted'
  BY <1>2, ObjectCreated
<1>5. Types'
  <2>1. target' \in [U8 -> Text \cup {Undef}]
    BY <1>1, <1>2
  <2> QED  BY <1>1, <1>2, <1>3, <1>4, <2>1, TypesParts, TypesKept
<1>6. OneOwner' /\ \A a \in Arr : CapturesCounted(a)'
  <2>1. \A a \in Arr : heap'.count[a] = heap.count[a]
    BY <1>3, Kinds DEF Others
  <2> QED  BY <1>2, <1>3, <2>1, CapturesUntouched
<1>7. TargetsFinite'
  <2>1. \A w \in Str : Moved(w, s, t)
    BY <1>1, <1>2, TargetChanged
  <2> QED  BY <2>1 DEF TargetsFinite, Moved
<1>8. ASSUME ~ heap'.broken, NEW w \in Str \ (given \cup loaned)
      PROVE  TextCounted(w)'
  <2> DEFINE n == Cardinality(Targets(w))
             n2 == Cardinality(Targets(w)')
  <2>0. TextCounted(w) /\ w \in Val /\ user[w] \in Nat
        /\ heap.count[w] \in 0..(Wide - 1)
    BY <1>1, Kinds, TypesParts, HeapTypes DEF Inv, TextsCounted
  <2>1. /\ n \in Nat /\ n2 \in Nat
        /\ w # s /\ w # t => Targets(w)' = Targets(w)
        /\ w = s /\ w = t => Targets(w)' = Targets(w)
        /\ w = s /\ w # t => n2 = n + 1
        /\ w # s /\ w = t => n2 = n - 1
    <3>1. Moved(w, s, t)
      BY <1>1, <1>2, TargetChanged
    <3> QED  BY <3>1 DEF Moved
  <2>2. ASSUME w # t, Overwritten(w)' PROVE Overwritten(w)
    <3>1. PICK i \in It : iter[i].text = w /\ target'[iter[i].over] # w
      BY <1>2, <2>2 DEF Overwritten
    <3>2. iter[i].over \in U8
      BY <1>1, <3>1, IterParts, Kinds
    <3>3. target[iter[i].over] # w
      BY <1>1, <1>2, <2>2, <3>1, <3>2
    <3> QED  BY <3>1, <3>3 DEF Overwritten
  <2>3. CASE w = s
    <3>1. w \in heap.live /\ heap.count[w] # MaxRefs
      BY <1>2, <1>3, <1>8, <2>0, <2>3 DEF Room
    <3>2. heap.count[w] < MaxRefs
      BY <2>0, <3>1, Kinds DEF TextCounted
    <3>3. heap'.count[w] = heap.count[w] + 1 /\ heap'.count[w] <= MaxRefs
      BY <1>3, <2>0, <2>3, <3>2, OneMore, Kinds
    <3>4. /\ heap.count[w] >= user[w] + n
          /\ Overwritten(w) => heap.count[w] > user[w] + n
      BY <2>0, <3>1 DEF TextCounted
    <3>5. n2 = IF w = t THEN n ELSE n + 1
      BY <2>1, <2>3
    <3> HIDE DEF n, n2
    <3>6. /\ heap'.count[w] >= user[w] + n2
          /\ Overwritten(w)' => heap'.count[w] > user[w] + n2
      BY <2>0, <2>1, <2>2, <3>3, <3>4, <3>5
    <3> QED  BY <1>2, <1>3, <3>1, <3>3, <3>6 DEF TextCounted, n2
  <2>4. CASE w # s
    <3>1. heap'.count[w] = heap.count[w]
      BY <1>3, <2>0, <2>4 DEF Others
    <3>2. CASE w # t
      <4>1. Targets(w)' = Targets(w)
        BY <2>1, <2>4, <3>2
      <4> QED  BY <1>2, <1>3, <2>0, <2>2, <3>1, <3>2, <4>1 DEF TextCounted
    <3>3. CASE w = t
      <4>1. o \in Targets(w)
        BY <3>3 DEF Targets
      <4>2. w \in heap.live /\ heap.count[w] <= MaxRefs
            /\ heap.count[w] >= user[w] + n
        BY <2>0, <4>1 DEF TextCounted
      <4>3. n2 = n - 1
        BY <2>1, <2>4, <3>3
      <4> HIDE DEF n, n2
      <4>4. heap'.count[w] > user[w] + n2
        BY <2>0, <2>1, <3>1, <4>2, <4>3
      <4> QED  BY <1>2, <1>3, <2>0, <2>1, <3>1, <4>2, <4>4 DEF TextCounted, n2
    <3> QED  BY <3>2, <3>3
  <2> QED  BY <2>3, <2>4
<1>9. TextsCounted'
  BY <1>2, <1>8 DEF TextsCounted
<1> QED  BY <1>4, <1>5, <1>6, <1>7, <1>9 DEF Inv

LEMMA ConstructEmptyKeeps ==
  ASSUME Inv, ~ heap.broken, UNCHANGED cregxVars, NEW o \in U8, ConstructEmpty(o)
  PROVE  Inv'
<1> USE DEF cregxVars
<1>1. refs' \in [U8 -> Nat] /\ named' \in SUBSET U8 /\ ObjectsCounted'
  BY ObjectCreated DEF ConstructEmpty
<1>2. Types'
  BY <1>1, TypesParts, TypesKept DEF Inv, ConstructEmpty
<1>3. OneOwner' /\ \A a \in Arr : CapturesCounted(a)'
  BY CapturesUntouched DEF ConstructEmpty
<1>4. TargetsFinite' /\ TextsCounted'
  BY TextsUntouched DEF ConstructEmpty
<1> QED  BY <1>1, <1>2, <1>3, <1>4 DEF Inv

LEMMA Csu8ToStringKeeps ==
  ASSUME Inv, ~ heap.broken, UNCHANGED cregxVars, NEW o \in U8, Csu8ToString(o)
  PROVE  Inv'
<1> USE DEF cregxVars
<1> PICK t : t = target[o]
  OBVIOUS
<1>1. Types /\ t \in Text \cup {Undef} /\ t \notin Arr /\ loaned \in SUBSET Str
  BY TypesParts, Kinds DEF Inv
<1>2. /\ heap' = heap /\ target' = target /\ refs' = refs /\ named' = named
      /\ iter' = iter /\ Returned(t) /\ loaned' = loaned \cup ({t} \cap Str)
  BY DEF Csu8ToString
<1>3. user' \in [Val -> 0..MaxUser] /\ \A w \in Val : w # t => user'[w] = user[w]
  BY <1>1, <1>2, ReturnedTypes
<1>4. Types'
  BY <1>1, <1>2, <1>3, TypesParts, TypesKept
<1>5. OneOwner' /\ \A a \in Arr : CapturesCounted(a)'
  BY <1>1, <1>2, <1>3, Kinds, CapturesUntouched
<1>6. TargetsFinite' /\ TextsCounted'
  <2>1. \A s \in Str \ (given' \cup loaned') :
            s \notin given \cup loaned /\ user'[s] = user[s]
    BY <1>2, <1>3, Kinds
  <2> QED  BY <1>2, <2>1, TextsUntouched
<1>7. ObjectsCounted'
  BY <1>2, ObjectsUntouched
<1> QED  BY <1>4, <1>5, <1>6, <1>7 DEF Inv

LEMMA ReadTextKeeps ==
  ASSUME Inv, ~ heap.broken, UNCHANGED cregxVars, NEW i \in It, ReadText(i)
  PROVE  Inv'
<1> USE DEF cregxVars, csu8Vars
<1>1. HeapOK(heap') /\ heap'.live = heap.live /\ heap'.count = heap.count
  BY TypesParts, TouchHeap DEF Inv, ReadText
<1>2. Types'
  BY <1>1, TypesParts, TypesKept DEF Inv, ReadText
<1>3. OneOwner' /\ \A a \in Arr : CapturesCounted(a)'
  BY <1>1, CapturesUntouched DEF ReadText
<1>4. TargetsFinite' /\ TextsCounted'
  BY <1>1, TextsUntouched DEF ReadText
<1>5. ObjectsCounted'
  BY ObjectsUntouched DEF ReadText
<1> QED  BY <1>2, <1>3, <1>4, <1>5 DEF Inv

LEMMA GetIteratorKeeps ==
  ASSUME Inv, ~ heap.broken, UNCHANGED cregxVars,
         NEW o \in U8, NEW i \in It, GetIterator(o, i)
  PROVE  Inv'
<1> USE DEF cregxVars
<1> PICK t : t = target[o]
  OBVIOUS
<1> PICK r : r = [over |-> o, text |-> t]
  OBVIOUS
<1>1. Types /\ HeapOK(heap) /\ t \in Text \cup {Undef} /\ iter \in [It -> Iterators]
      /\ \A j \in It : (iter[j] = NoIter \/ iter[j].over \in U8)
      /\ refs \in [U8 -> Nat]
  BY TypesParts DEF Inv
<1>2. /\ o \in named /\ iter[i] = NoIter /\ heap' = TouchText(heap, t)
      /\ iter' = [iter EXCEPT ![i] = r] /\ refs' = [refs EXCEPT ![o] = @ + 1]
      /\ user' = user /\ target' = target /\ named' = named /\ loaned' = loaned
  BY DEF GetIterator
<1>3. HeapOK(heap') /\ heap'.live = heap.live /\ heap'.count = heap.count
  BY <1>1, <1>2, TouchTextHeap
<1>4. r \in Iterators /\ r.over = o /\ r.text = t
  BY <1>1, IterParts
<1>5. iter' \in [It -> Iterators] /\ iter'[i] = r
      /\ \A j \in It \ {i} : iter'[j] = iter[j]
  BY <1>1, <1>2, <1>4
<1>6. /\ \A j \in It : iter'[j] = NoIter \/ iter'[j].over \in U8
      /\ refs' \in [U8 -> Nat]
  BY <1>1, <1>2, <1>4, <1>5
<1>7. Types'
  BY <1>1, <1>2, <1>3, <1>5, <1>6, TypesParts, TypesKept
<1>8. OneOwner' /\ \A a \in Arr : CapturesCounted(a)'
  BY <1>2, <1>3, CapturesUntouched
<1>9. TargetsFinite'
  BY <1>2 DEF Inv, TargetsFinite, Targets
<1>10. ASSUME NEW s \in Str \ (given \cup loaned)
       PROVE  TextCounted(s)'
  <2>0. TextCounted(s)
    BY DEF Inv, TextsCounted
  <2>1. Targets(s)' = Targets(s)
    BY <1>2 DEF Targets
  <2>2. ASSUME Overwritten(s)' PROVE Overwritten(s)
    <3>1. PICK j \in It : iter'[j].text = s /\ target[iter'[j].over] # s
      BY <1>2, <2>2 DEF Overwritten
    <3>2. j # i
      BY <1>4, <1>5, <3>1
    <3> QED  BY <1>5, <3>1, <3>2 DEF Overwritten
  <2>3. ASSUME s \notin heap.live, NEW j \in It PROVE iter'[j].text # s
    <3>1. o \notin Targets(s) /\ iter[j].text # s
      BY <2>0, <2>3 DEF TextCounted
    <3>2. t # s
      BY <3>1 DEF Targets
    <3> QED  BY <1>4, <1>5, <3>1, <3>2
  <2> QED  BY <1>2, <1>3, <2>0, <2>1, <2>2, <2>3 DEF TextCounted
<1>11. TextsCounted'
  BY <1>2, <1>10 DEF TextsCounted
<1>12. ObjectsCounted'
  <2> SUFFICES ASSUME NEW b \in U8
               PROVE  /\ IsFiniteSet(Readers(b)')
                      /\ refs'[b] = Cardinality(Readers(b)')
                                      + (IF b \in named' THEN 1 ELSE 0)
    BY DEF ObjectsCounted
  <2>1. /\ IsFiniteSet(Readers(b)) /\ Cardinality(Readers(b)) \in Nat
        /\ refs[b] = Cardinality(Readers(b)) + (IF b \in named THEN 1 ELSE 0)
    BY FS_CardinalityType DEF Inv, ObjectsCounted
  <2>2. CASE b = o
    <3>1. Readers(o)' = Readers(o) \cup {i} /\ i \notin Readers(o)
      <4>1. iter[i].over # o
        BY <1>2, IterParts, Csu8Assumption
      <4> QED  BY <1>4, <1>5, <4>1 DEF Readers
    <3>2. IsFiniteSet(Readers(o)')
          /\ Cardinality(Readers(o)') = Cardinality(Readers(o)) + 1
      BY <2>1, <2>2, <3>1, FS_AddElement
    <3> QED  BY <1>1, <1>2, <2>1, <2>2, <3>2
  <2>3. CASE b # o
    <3>1. Readers(b)' = Readers(b)
      <4>1. iter[i].over # b
        BY <1>2, IterParts, Csu8Assumption
      <4> QED  BY <1>4, <1>5, <2>3, <4>1 DEF Readers
    <3> QED  BY <1>1, <1>2, <2>1, <2>3, <3>1
  <2> QED  BY <2>2, <2>3
<1> QED  BY <1>7, <1>8, <1>9, <1>11, <1>12 DEF Inv

\* Whoever lets go of an object, its string is kept for those who read it.
LEMMA ObjectDropped ==
  ASSUME Inv, ~ heap.broken, UNCHANGED cregxVars, user' = user, loaned' = loaned,
         NEW o \in U8, DropObject(o), refs[o] > 0, named' \in SUBSET U8,
         iter' \in [It -> Iterators],
         \A j \in It : iter'[j] = iter[j] \/ iter'[j] = NoIter,
         refs[o] = 1 => \A j \in It : iter'[j].over # o,
         ObjectsCounted'
  PROVE  Inv'
<1> USE DEF cregxVars
<1> PICK t : t = target[o]
  OBVIOUS
<1>1. Types /\ TargetsFinite /\ HeapOK(heap) /\ target \in [U8 -> Text \cup {Undef}]
      /\ t \in Text \cup {Undef} /\ refs \in [U8 -> Nat]
      /\ \A j \in It : iter[j] = NoIter \/ iter[j].over \in U8
  BY TypesParts DEF Inv
<1>2. refs' \in [U8 -> Nat]
  BY <1>1 DEF DropObject
<1>3. /\ HeapOK(heap') /\ heap'.live = heap.live
      /\ \A v \in Val : v = t \/ heap'.count[v] = heap.count[v]
      /\ target' \in [U8 -> Text \cup {Undef}]
  <2>1. CASE refs[o] = 1
    <3>1. heap' = DelRef(heap, t) /\ target' = [target EXCEPT ![o] = Undef]
      BY <2>1 DEF DropObject
    <3>2. HeapOK(heap') /\ heap'.live = heap.live /\ Others(heap, heap', t)
      BY <1>1, <3>1, DelRefStep
    <3> QED  BY <1>1, <3>1, <3>2 DEF Others
  <2>2. CASE refs[o] # 1
    BY <1>1, <2>2 DEF DropObject
  <2> QED  BY <2>1, <2>2
<1>4. \A j \in It : iter'[j] = NoIter \/ iter'[j].over \in U8
  BY <1>1
<1>5. Types'
  BY <1>1, <1>2, <1>3, <1>4, TypesParts, TypesKept
<1>6. OneOwner' /\ \A a \in Arr : CapturesCounted(a)'
  <2>1. \A a \in Arr : heap'.count[a] = heap.count[a]
    BY <1>1, <1>3, Kinds
  <2> QED  BY <1>3, <2>1, CapturesUntouched
<1>7. TargetsFinite' /\ \A s \in Str \ (given \cup loaned) : TextCounted(s)'
  <2>1. CASE refs[o] = 1
    <3>1. heap' = DelRef(heap, t) /\ target' = [target EXCEPT ![o] = Undef]
      BY <2>1 DEF DropObject
    <3>2. t \in Val => heap'.count[t] = (heap.count[t] + Wide - 1) % Wide
      BY <1>1, <3>1, DelRefStep
    <3>3. \A s \in Str : Moved(s, Undef, t)
      BY <1>1, <3>1, TargetChanged
    <3>4. TargetsFinite'
      BY <3>3 DEF TargetsFinite, Moved
    <3>5. ASSUME NEW s \in Str \ (given \cup loaned) PROVE TextCounted(s)'
      <4> DEFINE n == Cardinality(Targets(s))
                 n2 == Cardinality(Targets(s)')
      <4>0. TextCounted(s) /\ s \in Val /\ user[s] \in Nat /\ s # Undef /\ s # Null
            /\ heap.count[s] \in 0..(Wide - 1)
        BY <1>1, Kinds, TypesParts, HeapTypes DEF Inv, TextsCounted
      <4>1. /\ n \in Nat /\ n2 \in Nat
            /\ s # t => Targets(s)' = Targets(s)
            /\ s = t => n2 = n - 1
        BY <3>3, <4>0 DEF Moved
      <4>2. \A j \in It : iter'[j].text = s => iter'[j] = iter[j]
        BY <4>0, IterParts
      <4>3. ASSUME Overwritten(s)' PROVE Overwritten(s)
        <5>1. PICK j \in It : iter'[j].text = s /\ target'[iter'[j].over] # s
          BY <4>3 DEF Overwritten
        <5>2. iter'[j] = iter[j] /\ iter'[j].over # o /\ iter[j].over \in U8
          BY <1>1, <2>1, <4>0, <4>2, <5>1, IterParts
        <5>3. target[iter[j].over] # s
          BY <1>1, <3>1, <5>1, <5>2
        <5> QED  BY <5>1, <5>2, <5>3 DEF Overwritten
      <4>4. CASE s # t
        <5>1. heap'.count[s] = heap.count[s] /\ Targets(s)' = Targets(s)
          BY <1>3, <4>0, <4>1, <4>4
        <5> QED  BY <1>3, <4>0, <4>2, <4>3, <5>1 DEF TextCounted
      <4>5. CASE s = t
        <5>1. o \in Targets(s)
          BY <4>5 DEF Targets
        <5>2. /\ s \in heap.live /\ heap.count[s] <= MaxRefs
              /\ heap.count[s] >= user[s] + n
              /\ Overwritten(s) => heap.count[s] > user[s] + n
          BY <4>0, <5>1 DEF TextCounted
        <5>3. n2 = n - 1
          BY <4>1, <4>5
        <5> HIDE DEF n, n2
        <5>4. heap.count[s] > 0
          BY <4>0, <4>1, <5>2, <5>3
        <5>5. heap'.count[s] = heap.count[s] - 1
          BY <3>2, <4>0, <4>5, <5>4, OneLess
        <5>6. /\ heap'.count[s] <= MaxRefs /\ heap'.count[s] >= user[s] + n2
              /\ Overwritten(s)' => heap'.count[s] > user[s] + n2
          BY <4>0, <4>1, <4>3, <5>2, <5>3, <5>5, Kinds
        <5> QED  BY <1>3, <5>2, <5>6 DEF TextCounted, n2
      <4> QED  BY <4>4, <4>5
    <3> QED  BY <3>4, <3>5
  <2>2. CASE refs[o] # 1
    <3>1. heap' = heap /\ target' = target
      BY <2>2 DEF DropObject
    <3>2. ASSUME NEW s \in Str \ (given \cup loaned) PROVE TextCounted(s)'
      <4>0. TextCounted(s) /\ s # Null
        BY Kinds DEF Inv, TextsCounted
      <4>1. Targets(s)' = Targets(s)
        BY <3>1 DEF Targets
      <4>2. \A j \in It : iter'[j].text = s => iter'[j] = iter[j]
        BY <4>0, IterParts
      <4>3. Overwritten(s)' => Overwritten(s)
        BY <3>1, <4>2 DEF Overwritten
      <4> QED  BY <3>1, <4>0, <4>1, <4>2, <4>3 DEF TextCounted
    <3> QED  BY <1>1, <3>1, <3>2 DEF TargetsFinite, Targets
  <2> QED  BY <2>1, <2>2
<1>8. TextsCounted'
  BY <1>7 DEF TextsCounted
<1> QED  BY <1>5, <1>6, <1>7, <1>8 DEF Inv

LEMMA DropIteratorKeeps ==
  ASSUME Inv, ~ heap.broken, UNCHANGED cregxVars, NEW i \in It, DropIterator(i)
  PROVE  Inv'
<1> PICK o : o = iter[i].over
  OBVIOUS
<1>1. /\ iter \in [It -> Iterators] /\ o \in U8 /\ o # Null
      /\ refs \in [U8 -> Nat] /\ named \in SUBSET U8
  BY TypesParts, Csu8Assumption DEF Inv, DropIterator
<1>2. /\ iter' = [iter EXCEPT ![i] = NoIter] /\ DropObject(o)
      /\ user' = user /\ named' = named /\ loaned' = loaned
      /\ refs' = [refs EXCEPT ![o] = @ - 1]
  BY DEF DropIterator, DropObject
<1>3. /\ iter' \in [It -> Iterators] /\ iter'[i] = NoIter
      /\ \A j \in It \ {i} : iter'[j] = iter[j]
  BY <1>1, <1>2, IterParts
<1>4. /\ Readers(o)' = Readers(o) \ {i} /\ i \in Readers(o)
      /\ \A b \in U8 \ {o} : Readers(b)' = Readers(b)
  <2>1. \A b \in U8 : iter'[i].over # b
    BY <1>3, IterParts, Csu8Assumption
  <2> QED  BY <1>1, <1>3, <2>1 DEF Readers
<1>5. \A b \in U8 :
         /\ IsFiniteSet(Readers(b)) /\ Cardinality(Readers(b)) \in Nat
         /\ refs[b] = Cardinality(Readers(b)) + (IF b \in named THEN 1 ELSE 0)
  BY FS_CardinalityType DEF Inv, ObjectsCounted
<1>6. /\ IsFiniteSet(Readers(o)') /\ Cardinality(Readers(o)') \in Nat
      /\ Cardinality(Readers(o)') = Cardinality(Readers(o)) - 1
  BY <1>1, <1>4, <1>5, FS_RemoveElement, FS_CardinalityType
<1>7. ObjectsCounted'
  <2> SUFFICES ASSUME NEW b \in U8
               PROVE  /\ IsFiniteSet(Readers(b)')
                      /\ refs'[b] = Cardinality(Readers(b)')
                                      + (IF b \in named' THEN 1 ELSE 0)
    BY DEF ObjectsCounted
  <2>1. CASE b = o
    <3>1. refs'[o] = refs[o] - 1
      BY <1>1, <1>2
    <3> QED  BY <1>1, <1>2, <1>5, <1>6, <2>1, <3>1
  <2>2. CASE b # o
    <3>1. refs'[b] = refs[b] /\ Readers(b)' = Readers(b)
      BY <1>1, <1>2, <1>4, <2>2
    <3> QED  BY <1>2, <1>5, <3>1
  <2> QED  BY <2>1, <2>2
<1>8. refs[o] > 0
  BY <1>1, <1>5, <1>6
<1>9. ASSUME refs[o] = 1, NEW j \in It PROVE iter'[j].over # o
  <2>1. Cardinality(Readers(o)') = 0
    BY <1>1, <1>5, <1>6, <1>9
  <2>2. Readers(o)' = {}
    BY <1>6, <2>1, FS_EmptySet
  <2> QED  BY <2>2 DEF Readers
<1> QED  BY <1>1, <1>2, <1>3, <1>7, <1>8, <1>9, ObjectDropped

LEMMA DropVarKeeps ==
  ASSUME Inv, ~ heap.broken, UNCHANGED cregxVars, NEW o \in U8, DropVar(o)
  PROVE  Inv'
<1>1. /\ iter \in [It -> Iterators]
      /\ refs \in [U8 -> Nat] /\ named \in SUBSET U8
  BY TypesParts DEF Inv
<1>2. /\ o \in named /\ iter' = iter /\ DropObject(o)
      /\ user' = user /\ named' = named \ {o} /\ loaned' = loaned
      /\ refs' = [refs EXCEPT ![o] = @ - 1]
  BY DEF DropVar, DropObject
<1>3. \A b \in U8 : Readers(b)' = Readers(b)
  BY <1>2 DEF Readers
<1>4. \A b \in U8 :
         /\ IsFiniteSet(Readers(b)) /\ Cardinality(Readers(b)) \in Nat
         /\ refs[b] = Cardinality(Readers(b)) + (IF b \in named THEN 1 ELSE 0)
  BY FS_CardinalityType DEF Inv, ObjectsCounted
<1>5. ObjectsCounted'
  <2> SUFFICES ASSUME NEW b \in U8
               PROVE  /\ IsFiniteSet(Readers(b)')
                      /\ refs'[b] = Cardinality(Readers(b)')
                                      + (IF b \in named' THEN 1 ELSE 0)
    BY DEF ObjectsCounted
  <2>1. CASE b = o
    <3>1. refs'[o] = refs[o] - 1 /\ refs[o] = Cardinality(Readers(o)) + 1
      BY <1>1, <1>2, <1>4
    <3> QED  BY <1>2, <1>3, <1>4, <2>1, <3>1
  <2>2. CASE b # o
    <3>1. refs'[b] = refs[b] /\ (b \in named' <=> b \in named)
      BY <1>1, <1>2, <2>2
    <3> QED  BY <1>3, <1>4, <3>1
  <2> QED  BY <2>1, <2>2
<1>6. refs[o] > 0
  BY <1>2, <1>4
<1>7. ASSUME refs[o] = 1, NEW j \in It PROVE iter'[j].over # o
  <2>1. Cardinality(Readers(o)) = 0
    BY <1>2, <1>4, <1>7
  <2>2. Readers(o) = {}
    BY <1>4, <2>1, FS_EmptySet
  <2> QED  BY <1>2, <2>2 DEF Readers
<1>8. named' \in SUBSET U8
  BY <1>1, <1>2
<1> QED  BY <1>1, <1>2, <1>5, <1>6, <1>7, <1>8, ObjectDropped

-----------------------------------------------------------------------------
(***************************************************************************)
(* The steps of the script.                                                *)
(***************************************************************************)
LEMMA NewStringKeeps ==
  ASSUME Inv, ~ heap.broken, NEW s \in Str, NewString(s)
  PROVE  Inv'
<1>1. Types /\ HeapOK(heap) /\ s \in Val /\ user \in [Val -> 0..MaxUser]
      /\ given \in SUBSET Str /\ loaned \in SUBSET Str
  BY TypesParts, Kinds DEF Inv
<1>2. /\ HeapOK(heap') /\ heap'.live = heap.live \cup {s} /\ heap'.count[s] = 1
      /\ \A v \in Val \ {s} : heap'.count[v] = heap.count[v]
  BY <1>1, AllocateHeap DEF NewString
<1>3. /\ user' = [user EXCEPT ![s] = 1] /\ given' = given \ {s}
      /\ loaned' = loaned \ {s} /\ cregx' = cregx /\ taken' = taken
      /\ parted' = parted /\ target' = target /\ refs' = refs
      /\ named' = named /\ iter' = iter
  BY DEF NewString
<1>4. Types'
  <2>1. user' \in [Val -> 0..MaxUser]
    BY <1>1, <1>3, Kinds
  <2> QED  BY <1>1, <1>2, <1>3, <2>1, TypesParts, TypesKept
<1>5. \A v \in Val \ {s} : user'[v] = user[v] /\ (v \in heap'.live <=> v \in heap.live)
  BY <1>1, <1>2, <1>3
<1>6. OneOwner' /\ \A a \in Arr : CapturesCounted(a)'
  BY <1>2, <1>3, <1>5, Kinds, CapturesUntouched
<1>7. TargetsFinite'
  BY <1>3 DEF Inv, TargetsFinite, Targets
<1>8. ASSUME NEW w \in Str \ (given' \cup loaned') PROVE TextCounted(w)'
  <2>1. CASE w = s
    <3>1. Targets(s)' = {} /\ \A i \in It : iter'[i].text # s
      BY <1>3 DEF NewString, FreshString, Targets
    <3>2. ~ Overwritten(s)' /\ Cardinality(Targets(s)') = 0
      BY <3>1, FS_EmptySet DEF Overwritten
    <3>3. s \in heap'.live /\ user'[s] = 1
      BY <1>1, <1>2, <1>3
    <3> QED  BY <1>2, <2>1, <3>2, <3>3, Kinds DEF TextCounted
  <2>2. CASE w # s
    <3>1. w \notin given \cup loaned /\ w \in Val
      BY <1>3, <2>2, Kinds
    <3>2. TextCounted(w)
      BY <3>1 DEF Inv, TextsCounted
    <3> QED  BY <1>2, <1>3, <1>5, <2>2, <3>1, <3>2, TextFrame
  <2> QED  BY <2>1, <2>2
<1>9. TextsCounted'
  BY <1>8 DEF TextsCounted
<1>10. ObjectsCounted'
  BY <1>3, ObjectsUntouched
<1> QED  BY <1>4, <1>6, <1>7, <1>9, <1>10 DEF Inv

LEMMA CopyVarKeeps ==
  ASSUME Inv, ~ heap.broken, UNCHANGED <<cregxVars, csu8Vars>>,
         NEW v \in Val, CopyVar(v)
  PROVE  Inv'
<1> USE DEF cregxVars, csu8Vars
<1>1. Types /\ HeapOK(heap) /\ user \in [Val -> 0..MaxUser]
  BY TypesParts DEF Inv
<1>2. /\ HeapOK(heap') /\ heap'.live = heap.live /\ Others(heap, heap', v)
      /\ heap'.broken <=> heap.broken \/ v \notin heap.live
      /\ heap'.count[v] = (heap.count[v] + 1) % Wide
  BY <1>1, AddRefStep DEF CopyVar
<1>3. /\ user' \in [Val -> 0..MaxUser] /\ user'[v] = user[v] + 1
      /\ \A w \in Val : w # v => user'[w] = user[w]
  BY <1>1, ReturnedTypes DEF CopyVar
<1>4. heap.count[v] # MaxRefs /\ user[v] > 0
  BY DEF CopyVar, Room
<1>5. Types'
  BY <1>1, <1>2, <1>3, TypesParts, TypesKept
<1>6. OneOwner' /\ \A a : Owned(a)' = Owned(a)
  BY DEF Inv, OneOwner, Owned
<1>7. ASSUME NEW a \in Arr PROVE CapturesCounted(a)'
  <2>0. CapturesCounted(a) /\ a \in Val
    BY <1>7, Kinds DEF Inv
  <2>1. CASE a = v
    <3>1. /\ user[a] > 0 /\ user'[a] = user[a] + 1 /\ heap.count[a] # MaxRefs
          /\ heap'.count[a] = (heap.count[a] + 1) % Wide
      BY <1>2, <1>3, <1>4, <2>1
    <3> QED  BY <1>1, <1>2, <1>6, <2>0, <3>1, CapturesMore
  <2>2. CASE a # v
    <3>1. heap'.count[a] = heap.count[a] /\ user'[a] = user[a]
      BY <1>2, <1>3, <2>0, <2>2 DEF Others
    <3> QED  BY <1>2, <1>6, <2>0, <3>1, CapturesFrame
  <2> QED  BY <2>1, <2>2
<1>8. TargetsFinite'
  BY DEF Inv, TargetsFinite, Targets
<1>9. ASSUME ~ heap'.broken, NEW s \in Str \ (given \cup loaned)
      PROVE  TextCounted(s)'
  <2>0. TextCounted(s) /\ s \in Val
    BY Kinds DEF Inv, TextsCounted
  <2>1. CASE s = v
    <3>1. /\ s \in heap.live /\ user'[s] = user[s] + 1 /\ heap.count[s] # MaxRefs
          /\ heap'.count[s] = (heap.count[s] + 1) % Wide
      BY <1>2, <1>3, <1>4, <1>9, <2>1
    <3> QED  BY <1>1, <1>2, <1>9, <2>0, <3>1, TextMore DEF Inv
  <2>2. CASE s # v
    <3>1. heap'.count[s] = heap.count[s] /\ user'[s] = user[s]
      BY <1>2, <1>3, <2>0, <2>2 DEF Others
    <3> QED  BY <1>2, <2>0, <3>1, TextFrame
  <2> QED  BY <2>1, <2>2
<1>10. TextsCounted'
  BY <1>9 DEF TextsCounted
<1>11. ObjectsCounted'
  BY ObjectsUntouched
<1> QED  BY <1>5, <1>6, <1>7, <1>8, <1>10, <1>11 DEF Inv

\* The last variable that lets go of a string frees it, and nobody reads it.
LEMMA ForgetVarKeeps ==
  ASSUME Inv, ~ heap.broken, UNCHANGED <<cregxVars, csu8Vars>>,
         NEW v \in Val, ForgetVar(v)
  PROVE  Inv'
<1> USE DEF cregxVars, csu8Vars
<1>1. Types /\ HeapOK(heap) /\ user \in [Val -> 0..MaxUser]
      /\ \A i \in It : iter[i] = NoIter \/ iter[i].over \in U8
  BY TypesParts DEF Inv
<1>2. /\ HeapOK(heap') /\ Others(heap, heap', v)
      /\ heap'.count[v] = (heap.count[v] + Wide - 1) % Wide
      /\ v \in heap'.live <=> v \in heap.live /\ heap'.count[v] # 0
  BY <1>1, PtrDtorStep DEF ForgetVar
<1>3. /\ user' \in [Val -> 0..MaxUser] /\ user'[v] = user[v] - 1 /\ user[v] > 0
      /\ \A w \in Val : w # v => user'[w] = user[w]
  BY <1>1, Kinds DEF ForgetVar
<1>4. Types'
  BY <1>1, <1>2, <1>3, TypesParts, TypesKept
<1>5. OneOwner' /\ \A a : Owned(a)' = Owned(a)
  BY DEF Inv, OneOwner, Owned
<1>6. ASSUME NEW a \in Arr PROVE CapturesCounted(a)'
  <2>0. CapturesCounted(a) /\ a \in Val /\ Owned(a) \in 0..1 /\ user[a] \in Nat
    BY <1>1, <1>6, Kinds, Owners01 DEF Inv
  <2>1. CASE a = v
    <3>1. /\ user[a] + Owned(a) > 0 /\ user'[a] \in Nat
          /\ user'[a] + Owned(a)' = user[a] + Owned(a) - 1
      BY <1>3, <1>5, <2>0, <2>1
    <3>2. heap'.count[a] = (heap.count[a] + Wide - 1) % Wide
          /\ (a \in heap'.live <=> a \in heap.live /\ heap'.count[a] # 0)
      BY <1>2, <2>1
    <3> QED  BY <1>1, <2>0, <3>1, <3>2, CapturesLess
  <2>2. CASE a # v
    <3>1. heap'.count[a] = heap.count[a] /\ user'[a] = user[a]
          /\ (a \in heap'.live <=> a \in heap.live)
      BY <1>2, <1>3, <2>0, <2>2 DEF Others
    <3> QED  BY <1>5, <2>0, <3>1, CapturesFrame
  <2> QED  BY <2>1, <2>2
<1>7. TargetsFinite'
  BY DEF Inv, TargetsFinite, Targets
<1>8. ASSUME NEW s \in Str \ (given \cup loaned) PROVE TextCounted(s)'
  <2>0. TextCounted(s) /\ s \in Val /\ s # Null /\ user[s] \in Nat
        /\ heap.count[s] \in 0..(Wide - 1)
    BY <1>1, Kinds, HeapTypes DEF Inv, TextsCounted
  <2>1. CASE s # v
    <3>1. heap'.count[s] = heap.count[s] /\ user'[s] = user[s]
          /\ (s \in heap'.live <=> s \in heap.live)
      BY <1>2, <1>3, <2>0, <2>1 DEF Others
    <3> QED  BY <2>0, <3>1, TextFrame
  <2>2. CASE s = v
    <3> DEFINE n == Cardinality(Targets(s))
               w == Overwritten(s)
    <3>1. Targets(s)' = Targets(s) /\ (Overwritten(s)' <=> w)
      BY DEF Targets, Overwritten
    <3>2. IsFiniteSet(Targets(s)) /\ n \in Nat
      BY FS_CardinalityType DEF Inv, TargetsFinite
    <3>3. /\ s \in heap.live /\ heap.count[s] <= MaxRefs
          /\ heap.count[s] >= user[s] + n
          /\ w => heap.count[s] > user[s] + n
      BY <1>3, <2>0, <2>2 DEF TextCounted
    <3>4. n = 0 <=> Targets(s) = {}
      BY <3>2, FS_EmptySet
    <3>5. user'[s] = user[s] - 1 /\ user[s] > 0
      BY <1>3, <2>2
    <3>t. s \in heap'.live <=> heap'.count[s] # 0
      BY <1>2, <2>2, <3>3
    <3> HIDE DEF n, w
    <3>6. heap'.count[s] = heap.count[s] - 1
      BY <1>2, <2>0, <2>2, <3>2, <3>3, <3>5, OneLess
    <3>7. /\ heap'.count[s] <= MaxRefs /\ heap'.count[s] >= user'[s] + n
          /\ w => heap'.count[s] > user'[s] + n
      BY <2>0, <3>2, <3>3, <3>5, <3>6, Kinds
    <3>8. ASSUME s \notin heap'.live
          PROVE  user'[s] = 0 /\ Targets(s) = {} /\ \A i \in It : iter[i].text # s
      <4>0. heap'.count[s] = 0
        BY <3>8, <3>t
      <4>1. user'[s] = 0 /\ n = 0 /\ ~ (heap'.count[s] > user'[s] + n)
        BY <2>0, <3>2, <3>5, <3>7, <4>0
      <4>2. ASSUME NEW i \in It, iter[i].text = s PROVE FALSE
        <5>1. iter[i].over \in U8
          BY <1>1, <2>0, <4>2, IterParts
        <5>2. target[iter[i].over] = s
          BY <3>7, <4>1, <4>2 DEF w, Overwritten
        <5> QED  BY <3>4, <4>1, <5>1, <5>2 DEF Targets
      <4> QED  BY <3>4, <4>1, <4>2
    <3> QED  BY <3>1, <3>7, <3>8 DEF TextCounted, n, w
  <2> QED  BY <2>1, <2>2
<1>9. TextsCounted'
  BY <1>8 DEF TextsCounted
<1>10. ObjectsCounted'
  BY ObjectsUntouched
<1> QED  BY <1>4, <1>5, <1>6, <1>7, <1>9, <1>10 DEF Inv

-----------------------------------------------------------------------------
LEMMA InitInv == Init => Inv
<1> SUFFICES ASSUME Init PROVE Inv
  OBVIOUS
<1> USE DEF Init, ZvalInit, CregxInit, Csu8Init
<1>1. HeapOK(heap)
  <2>1. [v \in Val |-> 0] \in [Val -> 0..(Wide - 1)]
    BY Kinds
  <2> PICK c : c = [v \in Val |-> 0]
    OBVIOUS
  <2>2. heap = Heap({}, c, FALSE)
    BY DEF Heap
  <2> QED  BY <2>1, <2>2, HeapMade
<1>2. \A o \in Re : cregx[o] = NoRegex /\ cregx[o].subpats = Null
  BY RegexParts
<1>3. \A i \in It : iter[i] = NoIter /\ iter[i].text = Null /\ iter[i].over = Null
  BY IterParts
<1>4. Types
  <2>1. cregx \in [Re -> Regexes] /\ iter \in [It -> Iterators]
    BY RegexParts, IterParts
  <2>2. user \in [Val -> 0..MaxUser] /\ taken \in [Arr -> 0..2]
    BY Kinds
  <2> QED  BY <1>1, <1>2, <1>3, <2>1, <2>2, TypesParts
<1>5. heap.live = {}
  OBVIOUS
<1>6. OneOwner /\ \A a \in Arr : Owned(a) = 0
  BY <1>2, Kinds DEF OneOwner, Owned
<1>7. \A a \in Arr : CapturesCounted(a)
  BY <1>5, <1>6, Kinds DEF CapturesCounted
<1>8. \A s \in Str : Targets(s) = {} /\ user[s] = 0
  BY Kinds DEF Targets
<1>9. TargetsFinite
  BY <1>8, FS_EmptySet DEF TargetsFinite
<1>10. \A s \in Str : TextCounted(s)
  <2> SUFFICES ASSUME NEW s \in Str PROVE TextCounted(s)
    OBVIOUS
  <2>1. s # Null
    BY Kinds
  <2>2. s \notin heap.live /\ \A i \in It : iter[i].text # s
    BY <1>3, <1>5, <2>1, Zenon
  <2> QED  BY <1>8, <2>2, Zenon DEF TextCounted
<1>11. ObjectsCounted
  <2>1. \A o \in U8 : Readers(o) = {}
    BY <1>3, Csu8Assumption DEF Readers
  <2>2. \A o \in U8 : IsFiniteSet(Readers(o)) /\ Cardinality(Readers(o)) = 0
    BY <2>1, FS_EmptySet
  <2>3. named = {} /\ \A o \in U8 : refs[o] = 0
    OBVIOUS
  <2> QED  BY <2>2, <2>3 DEF ObjectsCounted
<1> QED  BY <1>4, <1>6, <1>7, <1>9, <1>10, <1>11 DEF Inv, TextsCounted

LEMMA CregxStep ==
  ASSUME Inv, ~ heap.broken, CregxNext, UNCHANGED csu8Vars
  PROVE  Inv'
<1>1. CASE \E o \in Re, s \in Text : ConstructRegex(o, s)
  BY <1>1, ConstructRegexKeeps
<1>2. CASE \E o \in Re, s \in Text : SetExpr(o, s)
  BY <1>2, SetExprKeeps
<1>3. CASE \E o \in Re : RegexToString(o)
  BY <1>3, RegexToStringKeeps
<1>4. CASE \E o \in Re : MatchFails(o)
  BY <1>4, MatchFailsKeeps
<1>5. CASE \E o \in Re, a \in Arr : Match(o, a)
  BY <1>5, MatchKeeps
<1>6. CASE \E o \in Re : Captures(o)
  BY <1>6, CapturesKeeps
<1>7. CASE \E o \in Re : Clear(o)
  BY <1>7, ClearKeeps
<1>8. CASE \E o, b \in Re : CloneRegex(o, b)
  BY <1>8, CloneRegexKeeps
<1>9. CASE \E o \in Re : FreeRegex(o)
  BY <1>9, FreeRegexKeeps
<1> QED  BY <1>1, <1>2, <1>3, <1>4, <1>5, <1>6, <1>7, <1>8, <1>9 DEF CregxNext

LEMMA Csu8Step ==
  ASSUME Inv, ~ heap.broken, Csu8Next, UNCHANGED cregxVars
  PROVE  Inv'
<1>1. CASE \E o \in U8, s \in Text : ConstructCsu8(o, s)
  BY <1>1, ConstructCsu8Keeps
<1>2. CASE \E o \in U8 : ConstructEmpty(o)
  BY <1>2, ConstructEmptyKeeps
<1>3. CASE \E o \in U8 : Csu8ToString(o)
  BY <1>3, Csu8ToStringKeeps
<1>4. CASE \E o \in U8, i \in It : GetIterator(o, i)
  BY <1>4, GetIteratorKeeps
<1>5. CASE \E i \in It : ReadText(i)
  BY <1>5, ReadTextKeeps
<1>6. CASE \E i \in It : DropIterator(i)
  BY <1>6, DropIteratorKeeps
<1>7. CASE \E o \in U8 : DropVar(o)
  BY <1>7, DropVarKeeps
<1> QED  BY <1>1, <1>2, <1>3, <1>4, <1>5, <1>6, <1>7 DEF Csu8Next

LEMMA NextInv == Inv /\ [Next]_vars => Inv'
<1> SUFFICES ASSUME Inv, [Next]_vars PROVE Inv'
  OBVIOUS
<1>1. CASE Next
  <2>1. CASE CregxNext /\ UNCHANGED csu8Vars
    BY <1>1, <2>1, CregxStep DEF Next
  <2>2. CASE Csu8Next /\ UNCHANGED cregxVars
    BY <1>1, <2>2, Csu8Step DEF Next
  <2>3. CASE \E s \in Str : NewString(s)
    BY <1>1, <2>3, NewStringKeeps DEF Next
  <2>4. CASE Variables
    BY <1>1, <2>4, CopyVarKeeps, ForgetVarKeeps DEF Next, Variables
  <2> QED  BY <1>1, <2>1, <2>2, <2>3, <2>4 DEF Next
<1>2. CASE UNCHANGED vars
  <2> USE <1>2 DEF vars, cregxVars, csu8Vars
  <2>1. Types'
    BY TypesParts, TypesKept DEF Inv
  <2>2. OneOwner' /\ \A a \in Arr : CapturesCounted(a)'
    BY CapturesUntouched
  <2>3. TargetsFinite' /\ TextsCounted'
    BY DEF Inv, TargetsFinite, TextsCounted, TextCounted, Targets, Overwritten
  <2>4. ObjectsCounted'
    BY ObjectsUntouched
  <2> QED  BY <2>1, <2>2, <2>3, <2>4 DEF Inv
<1> QED  BY <1>1, <1>2

LEMMA InvHolds == Spec => []Inv
  BY InitInv, NextInv, PTL DEF Spec

-----------------------------------------------------------------------------
\* What the objects, the iterators and the heap hold is always of its kind,
\* whatever is called, also after memory that was freed has been used.
THEOREM OwnersTypes == Spec => []TypeOK
<1>1. Inv => TypeOK
  BY DEF Inv, Types
<1> QED  BY <1>1, InvHolds, PTL

\* The captures of the last match are allocated for the object and for every
\* variable that holds them, when captures() was called at most once for them.
THEOREM CapturesThere == Spec => []CapturesValid
<1>1. Inv => CapturesValid
  <2> SUFFICES ASSUME Inv, NEW a \in Arr, taken[a] <= 1, a \notin heap.live
               PROVE  ~ (user[a] > 0) /\ ~ \E o \in Re : cregx[o].subpats = a
    BY DEF CapturesValid
  <2>1. user[a] = 0 /\ Owned(a) = 0
    BY DEF Inv, CapturesCounted
  <2> QED  BY <2>1, Owners01
<1> QED  BY <1>1, InvHolds, PTL

\* Captures that nobody holds are freed, unless captures() was never called
\* for them, or their object was freed first.
THEOREM CapturesGone == Spec => []CapturesReleased
<1>1. Inv => CapturesReleased
  <2> SUFFICES ASSUME Inv, NEW a \in heap.live \cap Arr, ~ (user[a] > 0),
                      ~ \E o \in Re : cregx[o].subpats = a, a \notin parted
               PROVE  taken[a] = 0
    BY DEF CapturesReleased
  <2>1. user[a] \in Nat /\ taken[a] \in 0..2 /\ MaxRefs \in Nat
    BY TypesParts, Kinds DEF Inv
  <2>2. Owned(a) = 0 /\ user[a] = 0
    BY <2>1, Owners01
  <2> QED  BY <2>1, <2>2 DEF Inv, CapturesCounted
<1> QED  BY <1>1, InvHolds, PTL

\* A string that the script, an object or an iterator still reads is allocated,
\* also for an iterator whose object has been given another string, unless a
\* Cregx has given the string up or __toString of Csu8 has handed it out.
THEOREM TextsHeld == Spec => []TextHeld
<1>1. Inv => TextHeld
  <2> SUFFICES ASSUME Inv, ~ heap.broken, NEW s \in Str \ (given \cup loaned),
                      s \notin heap.live
               PROVE  /\ ~ (user[s] > 0) /\ ~ \E o \in U8 : target[o] = s
                      /\ ~ \E i \in It : iter[i].text = s
    BY DEF TextHeld
  <2>1. user[s] = 0 /\ Targets(s) = {} /\ \A i \in It : iter[i].text # s
    BY DEF Inv, TextsCounted, TextCounted
  <2> QED  BY <2>1 DEF Targets
<1> QED  BY <1>1, InvHolds, PTL

\* The count of a Csu8 is what holds it: its variable, and every iterator over
\* it, however many there are.
THEOREM ObjectsHeld == Spec => []ObjectHeld
<1>1. Inv => ObjectHeld
  BY DEF Inv, ObjectsCounted, ObjectHeld, Readers
<1> QED  BY <1>1, InvHolds, PTL
=============================================================================

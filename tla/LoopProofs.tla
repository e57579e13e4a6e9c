----------------------------- MODULE LoopProofs -----------------------------
(***************************************************************************)
(* The C functions that work on nothing but their own variables: the       *)
(* search of next_cap_mark, for every table and every size;                *)
(* route_extract_params, for every pattern; and phiz_camel and             *)
(* phiz_uncamel, one called with what the other returns, for every word.   *)
(***************************************************************************)
EXTENDS CapSearch, PhizFunctions, GarrayProofs, SequenceTheorems,
        FiniteSetTheorems

-----------------------------------------------------------------------------
(***************************************************************************)
(* The search.                                                             *)
(***************************************************************************)
SearchInv ==
    /\ SearchTypeOK
    /\ Brackets
    /\ ReturnsNextCapMark

\* Each probe is an index of the table, and its mark is one of the Marks.
LEMMA MarkFacts ==
  /\ kmax_cap_index \in Nat
  /\ \A p \in 0..(kmax_cap_index - 1) : Mark(p) \in Marks /\ Mark(p) \in Nat
  /\ \A p, j \in 0..(kmax_cap_index - 1) : p < j => Mark(p) < Mark(j)
  /\ \A m \in Marks : \E p \in 0..(kmax_cap_index - 1) : m = Mark(p)
<1>1. kmax_cap_index \in Nat
  BY CapacityMarkAssumption DEF kmax_cap_index
<1>2. \A p \in 0..(kmax_cap_index - 1) : p + 1 \in 1..Len(CapacityMark)
  BY <1>1 DEF kmax_cap_index
<1>3. \A p \in 0..(kmax_cap_index - 1) : Mark(p) \in Marks /\ Mark(p) \in Nat
  BY <1>2, CapacityMarkAssumption DEF Mark, Marks
<1>4. \A p, j \in 0..(kmax_cap_index - 1) : p < j => Mark(p) < Mark(j)
  BY <1>2, CapacityMarkAssumption DEF Mark
<1>5. \A m \in Marks : \E p \in 0..(kmax_cap_index - 1) : m = Mark(p)
  <2> SUFFICES ASSUME NEW m \in Marks
               PROVE  \E p \in 0..(kmax_cap_index - 1) : m = Mark(p)
    OBVIOUS
  <2>1. PICK j \in 1..Len(CapacityMark) : m = CapacityMark[j]
    BY DEF Marks
  <2>2. j - 1 \in 0..(kmax_cap_index - 1) /\ (j - 1) + 1 = j
    BY <1>1 DEF kmax_cap_index
  <2> QED  BY <2>1, <2>2 DEF Mark
<1> QED  BY <1>1, <1>3, <1>4, <1>5

\* While the range is not empty, its middle is inside it.
LEMMA MidInside ==
  ASSUME SearchTypeOK, hi > lo
  PROVE  mid \in Nat /\ lo <= mid /\ mid < hi
BY MarkFacts DEF SearchTypeOK, mid

\* Nothing below index p is large enough, so Mark(p) is the answer.
LEMMA LeastMarkAt ==
  ASSUME NEW n \in Nat, NEW p \in 0..(kmax_cap_index - 1), Mark(p) >= n,
         \A j \in 0..(p - 1) : Mark(j) < n
  PROVE  NextCapMark(n) = Mark(p)
<1>1. ASSUME NEW k \in Marks, k >= n PROVE Mark(p) <= k
  <2>1. PICK j \in 0..(kmax_cap_index - 1) : k = Mark(j)
    BY MarkFacts
  <2>2. j >= p
    BY <1>1, <2>1, MarkFacts
  <2> QED  BY <2>1, <2>2, MarkFacts
<1> QED  BY <1>1, MarkFacts, NextCapMarkLeast

LEMMA SearchInvInit == SearchInit => SearchInv
BY MarkFacts DEF SearchInit, SearchInv, SearchTypeOK, Brackets, ReturnsNextCapMark

LEMMA SearchInvStep == SearchInv /\ [SearchNext]_searchVars => SearchInv'
<1> SUFFICES ASSUME SearchInv, [SearchNext]_searchVars PROVE SearchInv'
  OBVIOUS
<1> USE DEF SearchInv
<1>0. size \in Nat
  BY SizesAssumption DEF SearchTypeOK
<1>1. CASE TooLow
  <2>1. lo <= mid /\ mid < hi /\ mid \in Nat
    BY <1>1, MidInside DEF TooLow
  <2>2. SearchTypeOK'
    BY <1>1, <2>1, MarkFacts DEF TooLow, SearchTypeOK
  <2>3. Brackets'
    <3>1. \A p \in 0..mid : Mark(p) < size
      BY <1>0, <1>1, <2>1, MarkFacts DEF TooLow, SearchTypeOK
    <3>2. \A p \in hi..(kmax_cap_index - 1) : Mark(p) > size
      BY DEF Brackets
    <3> QED  BY <1>1, <2>1, <3>1, <3>2 DEF TooLow, Brackets, SearchTypeOK, Mark, kmax_cap_index
  <2> QED  BY <1>1, <2>2, <2>3 DEF TooLow, ReturnsNextCapMark
<1>2. CASE Exact
  <2>1. lo <= mid /\ mid < hi /\ mid \in Nat
    BY <1>2, MidInside DEF Exact
  <2>2. SearchTypeOK'
    BY <1>2, <2>1, MarkFacts DEF Exact, SearchTypeOK
  <2>3. Brackets'
    BY <1>2 DEF Exact, Brackets, Mark, kmax_cap_index
  <2>4. NextCapMark(size) = Mark(mid)
    BY <1>0, <1>2, <2>1, MarkFacts, LeastMarkAt DEF Exact, SearchTypeOK
  <2> QED  BY <1>2, <2>2, <2>3, <2>4 DEF Exact, ReturnsNextCapMark
<1>3. CASE TooHigh
  <2>1. lo <= mid /\ mid < hi /\ mid \in Nat
    BY <1>3, MidInside DEF TooHigh
  <2>2. SearchTypeOK'
    BY <1>3, <2>1, MarkFacts DEF TooHigh, SearchTypeOK
  <2>3. Brackets'
    <3>1. \A p \in mid..(kmax_cap_index - 1) : Mark(p) > size
      BY <1>0, <1>3, <2>1, MarkFacts DEF TooHigh, SearchTypeOK
    <3>2. \A p \in 0..(lo - 1) : Mark(p) < size
      BY DEF Brackets
    <3> QED  BY <1>3, <2>1, <3>1, <3>2 DEF TooHigh, Brackets, SearchTypeOK, Mark, kmax_cap_index
  <2> QED  BY <1>3, <2>2, <2>3 DEF TooHigh, ReturnsNextCapMark
<1>4. CASE Finish
  <2>1. lo = hi
    BY <1>4, MarkFacts DEF Finish, Brackets, SearchTypeOK
  <2>2. IF lo < kmax_cap_index THEN NextCapMark(size) = Mark(lo)
                               ELSE NextCapMark(size) = PastTable(size)
    <3>1. CASE lo < kmax_cap_index
      <4>1. lo \in 0..(kmax_cap_index - 1) /\ Mark(lo) > size
        BY <2>1, <3>1, MarkFacts DEF Brackets, SearchTypeOK
      <4>2. NextCapMark(size) = Mark(lo)
        BY <1>0, <4>1, MarkFacts, LeastMarkAt DEF Brackets
      <4> QED  BY <3>1, <4>2
    <3>2. CASE ~ (lo < kmax_cap_index)
      <4>1. lo = kmax_cap_index
        BY <3>2, MarkFacts DEF SearchTypeOK
      <4>2. \A m \in Marks : m < size
        BY <4>1, MarkFacts DEF Brackets
      <4>3. NextCapMark(size) = PastTable(size)
        BY <1>0, <4>2, NextCapMarkPast
      <4> QED  BY <3>2, <4>3
    <3> QED  BY <3>1, <3>2
  <2>3. value' = NextCapMark(size) /\ size' = size
    BY <1>4, <2>2 DEF Finish
  <2>4. SearchTypeOK'
    <3>1. value' \in Int
      BY <1>0, <2>3, NextCapMarkEnough
    <3>2. lo' = lo /\ hi' = hi /\ size' = size /\ pc' = "done"
      BY <1>4 DEF Finish
    <3> QED  BY <3>1, <3>2 DEF SearchTypeOK, kmax_cap_index
  <2>5. Brackets'
    BY <1>4 DEF Finish, Brackets, Mark, kmax_cap_index
  <2> QED  BY <2>3, <2>4, <2>5 DEF ReturnsNextCapMark
<1>5. CASE UNCHANGED searchVars
  BY <1>5 DEF searchVars, SearchTypeOK, Brackets, ReturnsNextCapMark, Mark, kmax_cap_index
<1> QED  BY <1>1, <1>2, <1>3, <1>4, <1>5 DEF SearchNext

\* For every table, the variables of the search keep their types, and so
\* every probe is an index of capacity_mark.
THEOREM SearchTypes == SearchSpec => []SearchTypeOK
<1>1. SearchInv => SearchTypeOK
  BY DEF SearchInv
<1> QED  BY SearchInvInit, SearchInvStep, <1>1, PTL DEF SearchSpec

\* The search never loses the answer: next_cap_mark keeps the marks that are
\* too small below lo and those that are large enough from hi on.
THEOREM SearchBrackets == SearchSpec => []Brackets
<1>1. SearchInv => Brackets
  BY DEF SearchInv
<1> QED  BY SearchInvInit, SearchInvStep, <1>1, PTL DEF SearchSpec

\* What the loop of next_cap_mark returns is the least sufficient mark, or
\* 1.5 * (size - 1) past the table.
THEOREM SearchCorrect == SearchSpec => []ReturnsNextCapMark
<1>1. SearchInv => ReturnsNextCapMark
  BY DEF SearchInv
<1> QED  BY SearchInvInit, SearchInvStep, <1>1, PTL DEF SearchSpec

\* The capacity that next_cap_mark returns holds the size it was asked for.
THEOREM SearchRoom == SearchSpec => []RoomEnough
<1>1. SearchInv => RoomEnough
  BY SizesAssumption, NextCapMarkEnough
     DEF SearchInv, SearchTypeOK, ReturnsNextCapMark, RoomEnough
<1> QED  BY SearchInvInit, SearchInvStep, <1>1, PTL DEF SearchSpec

-----------------------------------------------------------------------------
(***************************************************************************)
(* Route patterns.                                                         *)
(***************************************************************************)
Items == [kind : {"literal", "param", "typed", "group"},
          text : Seq(Char), name : Seq(Char)]
LEMMA TextIsText ==
  ASSUME NEW item \in Items
  PROVE  TextOf(item) \in Seq(Char)
<1>1. item.text \in Seq(Char) /\ item.name \in Seq(Char)
      /\ item.kind \in {"literal", "param", "typed", "group"}
  BY DEF Items
<1>2. \A x, y \in Seq(Char) : x \o y \in Seq(Char)
  BY ConcatProperties
<1>0. \A c \in Char : <<c>> \in Seq(Char)
  OBVIOUS
<1>3. <<"{">> \in Seq(Char) /\ <<"}">> \in Seq(Char) /\ <<":">> \in Seq(Char)
      /\ <<"(">> \in Seq(Char) /\ <<")">> \in Seq(Char)
  BY <1>0, PatternsAssumption
<1>4. CASE item.kind = "literal"
  BY <1>1, <1>4 DEF TextOf
<1>5. CASE item.kind = "param"
  BY <1>1, <1>2, <1>3, <1>5 DEF TextOf
<1>6. CASE item.kind = "typed"
  BY <1>1, <1>2, <1>3, <1>6 DEF TextOf
<1>7. CASE item.kind = "group"
  BY <1>1, <1>2, <1>3, <1>7 DEF TextOf
<1> QED  BY <1>1, <1>4, <1>5, <1>6, <1>7

-----------------------------------------------------------------------------
(***************************************************************************)
(* Patterns put together from items.  What Joined makes is a chain: h[n]   *)
(* holds the first n of the parts v.                                       *)
(***************************************************************************)
Chain(h, S, v, n) ==
    /\ h \in [0..n -> Seq(S)] /\ h[0] = <<>>
    /\ \A k \in 1..n : h[k] = h[k - 1] \o v[k]

LEMMA ChainExists ==
  ASSUME NEW S, NEW N \in Nat, NEW v \in [1..N -> Seq(S)]
  PROVE  \E h : Chain(h, S, v, N)
<1> DEFINE T == Seq(S)
           e == <<>>
           G == [n \in 1..N |-> [s \in T |-> s \o v[n]]]
<1>1. e \in T
  OBVIOUS
<1>2. \A n \in 1..N, s \in T : s \o v[n] \in T
  BY ConcatProperties
<1>3. G \in [1..N -> [T -> T]] /\ \A n \in 1..N, s \in T : G[n][s] = s \o v[n]
  <2> HIDE DEF T
  <2> QED  BY <1>2
<1>4. PICK h : GoesBy(h, T, e, G, N)
  <2> HIDE DEF T, e, G
  <2> QED  BY <1>1, <1>3, GoesByExists
<1>5. ASSUME NEW n \in 1..N PROVE h[n] = h[n - 1] \o v[n]
  <2> HIDE DEF T, e, G
  <2>1. n - 1 \in 0..N /\ h[n - 1] \in T /\ h[n] = G[n][h[n - 1]]
    BY <1>4 DEF GoesBy
  <2> QED  BY <1>3, <2>1
<1>6. h \in [0..N -> T] /\ h[0] = e
  <2> HIDE DEF T, e, G
  <2> QED  BY <1>4 DEF GoesBy
<1> QED  BY <1>5, <1>6 DEF Chain

\* There is one chain.
Follows(f, v, n) == f[0] = <<>> /\ \A k \in 1..n : f[k] = f[k - 1] \o v[k]

LEMMA ChainUnique ==
  ASSUME NEW S, NEW N \in Nat, NEW v, NEW h, Chain(h, S, v, N),
         NEW f, Follows(f, v, N)
  PROVE  \A n \in 0..N : f[n] = h[n]
<1> DEFINE Bad == {n \in 0..N : f[n] # h[n]}
<1> SUFFICES ASSUME Bad # {} PROVE FALSE
  OBVIOUS
<1>1. PICK m \in Bad : \A k \in Bad : m <= k
  <2>1. Bad \in SUBSET Nat
    OBVIOUS
  <2> HIDE DEF Bad
  <2> QED  BY <2>1, LeastElement
<1>2. m # 0
  BY <1>1 DEF Chain, Follows
<1>3. m \in 1..N /\ m - 1 \in 0..N /\ f[m - 1] = h[m - 1]
  BY <1>1, <1>2
<1>4. f[m] = f[m - 1] \o v[m] /\ h[m] = h[m - 1] \o v[m]
  BY <1>3 DEF Chain, Follows
<1> QED  BY <1>1, <1>3, <1>4

\* Putting sequences together.
Spans(a, d) ==
    /\ Len(a \o d) = Len(a) + Len(d)
    /\ \A q \in 1..(Len(a) + Len(d)) :
         (a \o d)[q] = IF q <= Len(a) THEN a[q] ELSE d[q - Len(a)]

LEMMA PutTogether ==
  ASSUME NEW S, NEW a \in Seq(S), NEW d \in Seq(S)
  PROVE  a \o d \in Seq(S) /\ Spans(a, d)
BY ConcatProperties DEF Spans

Associate(a, b, c) == (a \o b) \o c = a \o (b \o c)

LEMMA PutInOrder ==
  ASSUME NEW S, NEW a \in Seq(S), NEW b \in Seq(S), NEW c \in Seq(S)
  PROVE  Associate(a, b, c)
BY ConcatAssociative DEF Associate

\* A function that is defined as Joined defines its own.
Recursion(f, v, n) == f = [k \in 0..n |-> IF k = 0 THEN <<>> ELSE f[k - 1] \o v[k]]

LEMMA ChainRecursion ==
  ASSUME NEW S, NEW N \in Nat, NEW v, NEW h, Chain(h, S, v, N)
  PROVE  Recursion(h, v, N)
<1>1. h = [n \in 0..N |-> h[n]]
  BY DEF Chain
<1>2. ASSUME NEW n \in 0..N
      PROVE  h[n] = IF n = 0 THEN <<>> ELSE h[n - 1] \o v[n]
  <2>1. CASE n = 0
    BY <2>1 DEF Chain
  <2>2. CASE n # 0
    <3>1. n \in 1..N
      BY <2>2
    <3> QED  BY <2>2, <3>1 DEF Chain
  <2> QED  BY <2>1, <2>2
<1> QED  BY <1>1, <1>2 DEF Recursion

LEMMA RecursionChain ==
  ASSUME NEW S, NEW N \in Nat, NEW v, NEW h, Chain(h, S, v, N),
         NEW f, Recursion(f, v, N)
  PROVE  f[N] = h[N]
<1>1. f[0] = <<>>
  BY DEF Recursion
<1>2. \A n \in 1..N : f[n] = f[n - 1] \o v[n]
  BY DEF Recursion
<1>3. Follows(f, v, N)
  BY <1>1, <1>2 DEF Follows
<1> QED  BY <1>3, ChainUnique

LEMMA JoinedTexts ==
  ASSUME NEW items \in Seq(Items), NEW N, N = Len(items)
  PROVE  \E h, v : /\ v = [n \in 1..N |-> TextOf(items[n])] /\ v \in [1..N -> Seq(Char)]
                   /\ Chain(h, Char, v, N) /\ Joined(items, TextOf) = h[N]
<1> DEFINE v == [n \in 1..N |-> TextOf(items[n])]
           f == CHOOSE g : g = [n \in 0..N |-> IF n = 0 THEN <<>>
                                               ELSE g[n - 1] \o TextOf(items[n])]
<1>1. Joined(items, TextOf) = f[N]
  BY DEF Joined
<1>2. N \in Nat /\ \A n \in 1..N : items[n] \in Items
  OBVIOUS
<1>3. v \in [1..N -> Seq(Char)]
  BY <1>2, TextIsText
<1>4. \A g : Recursion(g, v, N)
             <=> g = [n \in 0..N |-> IF n = 0 THEN <<>> ELSE g[n - 1] \o TextOf(items[n])]
  <2>1. \A n \in 0..N : n # 0 => n \in 1..N
    BY <1>2
  <2>2. \A n \in 0..N : n # 0 => v[n] = TextOf(items[n])
    BY <2>1
  <2> HIDE DEF v
  <2> QED  BY <2>2 DEF Recursion
<1> HIDE DEF v
<1>5. PICK h : Chain(h, Char, v, N)
  BY <1>2, <1>3, ChainExists
<1>6. h = [n \in 0..N |-> IF n = 0 THEN <<>> ELSE h[n - 1] \o TextOf(items[n])]
  BY <1>2, <1>4, <1>5, ChainRecursion
<1>7. f = [n \in 0..N |-> IF n = 0 THEN <<>> ELSE f[n - 1] \o TextOf(items[n])]
  BY <1>6
<1> HIDE DEF f
<1>8. Recursion(f, v, N)
  BY <1>4, <1>7
<1>9. f[N] = h[N]
  BY <1>2, <1>5, <1>8, RecursionChain
<1> QED  BY <1>1, <1>3, <1>5, <1>9 DEF v

\* What is put together from items is a text.
LEMMA JoinedIsText ==
  ASSUME NEW items \in Seq(Items)
  PROVE  Joined(items, TextOf) \in Seq(Char)
<1>1. PICK N : N = Len(items) /\ N \in Nat
  OBVIOUS
<1>2. PICK h, v : Chain(h, Char, v, N) /\ Joined(items, TextOf) = h[N]
  BY <1>1, JoinedTexts
<1> QED  BY <1>1, <1>2 DEF Chain

-----------------------------------------------------------------------------
(***************************************************************************)
(* The last colon of an item has a name in front: a scan that begins with a *)
(* letter reached it.                                                      *)
(***************************************************************************)
LEMMA LastColonThere ==
  ASSUME NEW item \in Seq(Char), Colons(item) # {}
  PROVE  LastColon(item) \in 2..Len(item)
<1>1. Colons(item) \subseteq 2..Len(item)
  <2> SUFFICES ASSUME NEW n \in Colons(item) PROVE n \in 2..Len(item)
    OBVIOUS
  <2>0. n \in Allowed(item) /\ n # 0 /\ item[n] = ":"
    BY DEF Colons
  <2>1. n \in 1..Len(item)
    <3>1. n \in 0..Len(item)
      BY <2>0 DEF Allowed
    <3> QED  BY <2>0, <3>1
  <2>2. 1 \in 1..n
    BY <2>1
  <2>3. item[1] \in Alpha
    BY <2>0, <2>2 DEF Allowed
  <2>4. n # 1
    BY <2>0, <2>3, PatternsAssumption
  <2> QED  BY <2>1, <2>4
<1>2. PICK b \in Colons(item) : \A j \in Colons(item) : j <= b
  <2> DEFINE Left == {Len(item) - j : j \in Colons(item)}
  <2>1. Left \in SUBSET Nat /\ Left # {}
    BY <1>1
  <2> HIDE DEF Left
  <2>2. PICK m \in Left : \A k \in Left : m <= k
    BY <2>1, LeastElement
  <2>3. PICK b \in Colons(item) : m = Len(item) - b
    BY DEF Left
  <2>4. \A j \in Colons(item) : m <= Len(item) - j
    BY <2>2 DEF Left
  <2>5. \A j \in Colons(item) : j <= b
    BY <1>1, <2>3, <2>4
  <2> QED  BY <2>5
<1>3. LastColon(item) \in Colons(item)
  BY <1>2 DEF LastColon
<1> QED  BY <1>1, <1>3

LEMMA NotEmpty ==
  ASSUME NEW s, Len(s) # 0
  PROVE  s # <<>>
<1>1. Len(<<>>) = 0
  OBVIOUS
<1> QED  BY <1>1

LEMMA ColonPair ==
  ASSUME NEW item \in Seq(Char),
         variable \in Seq(Char), regex_str \in Seq(Char),
         variable = <<>> <=> regex_str = <<>>
  PROVE  /\ VariableOf(item) \in Seq(Char)
         /\ RegexOf(item) \in Seq(Char)
         /\ VariableOf(item) = <<>> <=> RegexOf(item) = <<>>
<1>1. CASE Colons(item) = {}
  BY <1>1 DEF VariableOf, RegexOf
<1>2. CASE Colons(item) # {}
  <2> DEFINE k == LastColon(item)
  <2>1. k \in 2..Len(item)
    BY <1>2, LastColonThere
  <2> HIDE DEF k
  <2>2. SubSeq(item, 1, k - 1) \in Seq(Char) /\ Len(SubSeq(item, 1, k - 1)) = k - 1
    BY <2>1, SubSeqProperties
  <2>3. /\ SubSeq(item, k, Len(item)) \in Seq(Char)
        /\ Len(SubSeq(item, k, Len(item))) = Len(item) - k + 1
    BY <2>1, SubSeqProperties
  <2>4. SubSeq(item, 1, k - 1) # <<>> /\ SubSeq(item, k, Len(item)) # <<>>
    <3>1. Len(item) \in Nat
      OBVIOUS
    <3>2. Len(SubSeq(item, 1, k - 1)) # 0 /\ Len(SubSeq(item, k, Len(item))) # 0
      BY <2>1, <2>2, <2>3, <3>1
    <3> QED  BY <3>2, NotEmpty
  <2> QED  BY <1>2, <2>2, <2>3, <2>4 DEF VariableOf, RegexOf, k
<1> QED  BY <1>1, <1>2

-----------------------------------------------------------------------------
(***************************************************************************)
(* The inductive invariant of the loop over a pattern.                     *)
(***************************************************************************)
Counters ==
    /\ pat \in Seq(Char)
    /\ cursor \in 0..Len(pat)
    /\ bracketCount \in Int /\ parenCount \in Int
    /\ marker \in Nat /\ middle \in Nat /\ matchCount \in Nat

NamePair ==
    /\ variable \in Seq(Char) /\ regex_str \in Seq(Char)
    /\ variable = <<>> <=> regex_str = <<>>

OpensAt(text, k) == text[k] = "{"

\* ItemBetweenBrackets, with its bracket out of the way.
ItemBounds ==
    bracketCount > 0 =>
        /\ marker \in 1..cursor
        /\ OpensAt(pat, marker)
        /\ middle = cursor - marker + 1

RouteInv == Counters /\ NamePair /\ ItemBounds /\ NumbersDiffer

LEMMA RouteInvInit ==
  ASSUME Init
  PROVE  RouteInv
<1>1. pat \in Seq(Char)
  <2>1. CASE pat \in Patterns
    BY <2>1, PatternsAssumption
  <2>2. CASE written \in ItemLists /\ pat = Joined(written, TextOf)
    BY <2>2, JoinedIsText, PatternsAssumption DEF Items
  <2> QED  BY <2>1, <2>2 DEF Init
<1>2. Counters
  BY <1>1 DEF Init, Counters
<1>5. NamePair
  BY DEF Init, NamePair
<1>3. ItemBounds
  BY DEF Init, ItemBounds
<1>4. NumbersDiffer
  BY DEF Init, NumbersDiffer
<1> QED  BY <1>2, <1>3, <1>4, <1>5 DEF RouteInv

\* A round that goes on without the end of an item keeps it, if a bracket that
\* is open after it has all of its text up to the cursor counted before it.
LEMMA RoundKeeps ==
  ASSUME RouteInv, More, NEW brackets \in Int, NEW passed \in Nat,
         Round(brackets, passed), marker' \in Nat,
         brackets > 0 => /\ marker' \in 1..(cursor + 1)
                         /\ OpensAt(pat, marker')
                         /\ passed = cursor - marker' + 1
  PROVE  RouteInv'
<1>1. cursor' = cursor + 1 /\ pat' = pat /\ variable' = variable
      /\ regex_str' = regex_str /\ matches' = matches /\ bracketCount' = brackets
  BY DEF Round, Inside, Outside
<1>2. /\ brackets > 0 => middle' = passed + 1
      /\ ~ (brackets > 0) => middle' = passed
  <2>1. CASE Inside(brackets, passed)
    BY <2>1 DEF Inside
  <2>2. CASE Outside(brackets, passed)
    <3>1. brackets <= 0 /\ middle' = passed
      BY <2>2 DEF Outside
    <3> QED  BY <3>1
  <2>3. Inside(brackets, passed) \/ Outside(brackets, passed)
    BY DEF Round
  <2> QED  BY <2>1, <2>2, <2>3
<1>3. matchCount' \in {matchCount, matchCount + 1}
  BY DEF Round, Inside, Outside
<1>4. parenCount' \in {parenCount, parenCount + 1, parenCount - 1}
  BY DEF Round, Inside, Outside, Parens
<1>5. Counters'
  <2>1. Counters /\ cursor < Len(pat)
    BY DEF RouteInv, More
  <2>2. cursor' \in 0..Len(pat')
    BY <1>1, <2>1 DEF Counters
  <2>3. middle' \in Nat
    BY <1>2
  <2> QED  BY <1>1, <1>3, <1>4, <2>1, <2>2, <2>3 DEF Counters
<1>6. NamePair'
  BY <1>1 DEF RouteInv, NamePair
<1>7. ItemBounds'
  <2>1. cursor \in Nat
    BY DEF RouteInv, Counters
  <2> SUFFICES ASSUME brackets > 0
               PROVE  /\ marker' \in 1..cursor'
                      /\ OpensAt(pat', marker')
                      /\ middle' = cursor' - marker' + 1
    BY <1>1 DEF ItemBounds
  <2>2. marker' \in 1..cursor' /\ OpensAt(pat', marker')
    BY <1>1
  <2>3. middle' = cursor' - marker' + 1
    BY <1>1, <1>2, <2>1
  <2> QED  BY <2>2, <2>3
<1>8. NumbersDiffer'
  <2>1. matchCount \in Nat
    BY DEF RouteInv, Counters
  <2>2. \A n \in DOMAIN matches : matches[n] \in 1..matchCount'
    BY <1>3, <2>1 DEF RouteInv, NumbersDiffer
  <2> QED  BY <1>1, <2>2 DEF RouteInv, NumbersDiffer
<1> QED  BY <1>5, <1>6, <1>7, <1>8 DEF RouteInv

LEMMA OpenBracketKeeps ==
  ASSUME RouteInv, OpenBracket
  PROVE  RouteInv'
<1> DEFINE passed == IF bracketCount = 0 THEN 0 ELSE middle
<1>1. More /\ ch = "{"
      /\ marker' = (IF bracketCount = 0 THEN cursor + 1 ELSE marker)
      /\ Round(bracketCount + 1, passed)
  BY DEF OpenBracket
<1> HIDE DEF passed
<1>2. marker \in Nat /\ bracketCount \in Int /\ middle \in Nat /\ cursor \in Nat
  BY DEF RouteInv, Counters
<1>3. CASE bracketCount = 0
  <2>1. marker' = cursor + 1 /\ passed = 0
    BY <1>1, <1>3 DEF passed
  <2>2. OpensAt(pat, marker')
    BY <1>1, <2>1 DEF ch, OpensAt
  <2>3. bracketCount + 1 \in Int /\ passed \in Nat /\ marker' \in 1..(cursor + 1)
        /\ passed = cursor - marker' + 1
    BY <1>2, <2>1
  <2>4. marker' \in Nat
    BY <1>2, <2>1
  <2> QED  BY <1>1, <2>2, <2>3, <2>4, RoundKeeps
<1>4. CASE bracketCount # 0
  <2>1. marker' = marker /\ passed = middle
    BY <1>1, <1>4 DEF passed
  <2>2. bracketCount + 1 > 0 => /\ marker' \in 1..(cursor + 1)
                                /\ OpensAt(pat, marker')
                                /\ passed = cursor - marker' + 1
    BY <1>2, <1>4, <2>1 DEF RouteInv, ItemBounds
  <2>3. bracketCount + 1 \in Int /\ passed \in Nat /\ marker' \in Nat
    BY <1>2, <2>1
  <2> QED  BY <1>1, <2>2, <2>3, RoundKeeps
<1> QED  BY <1>3, <1>4

LEMMA CloseBracketKeeps ==
  ASSUME RouteInv, CloseBracket
  PROVE  RouteInv'
<1>1. More /\ marker' = marker /\ Round(bracketCount - 1, middle)
  BY DEF CloseBracket
<1>2. marker' \in Nat /\ bracketCount - 1 \in Int /\ middle \in Nat
      /\ bracketCount \in Int /\ cursor \in Nat
  BY <1>1 DEF RouteInv, Counters
<1>3. bracketCount - 1 > 0 => /\ marker' \in 1..(cursor + 1)
                              /\ OpensAt(pat, marker')
                              /\ middle = cursor - marker' + 1
  BY <1>1, <1>2 DEF RouteInv, ItemBounds
<1> QED  BY <1>1, <1>2, <1>3, RoundKeeps

LEMMA OrdinaryCharKeeps ==
  ASSUME RouteInv, OrdinaryChar
  PROVE  RouteInv'
<1>1. More /\ marker' = marker /\ Round(bracketCount, middle)
  BY DEF OrdinaryChar
<1>2. marker' \in Nat /\ middle \in Nat /\ bracketCount \in Int /\ cursor \in Nat
  BY <1>1 DEF RouteInv, Counters
<1>3. bracketCount > 0 => /\ marker' \in 1..(cursor + 1)
                          /\ OpensAt(pat, marker')
                          /\ middle = cursor - marker' + 1
  BY <1>1, <1>2 DEF RouteInv, ItemBounds
<1> QED  BY <1>1, <1>2, <1>3, RoundKeeps

\* The group that has just been counted is no other parameter's.
LEMMA AddMatchDiffers ==
  ASSUME NumbersDiffer, matchCount \in Nat, NEW name, NEW table,
         table \in {matches, AddMatch(name, matchCount + 1)}
  PROVE  \A m, n \in DOMAIN table :
            /\ table[n] \in 1..(matchCount + 1)
            /\ m # n => table[m] # table[n]
<1>1. \A n \in DOMAIN matches :
        matches[n] \in 1..(matchCount + 1) /\ matches[n] # matchCount + 1
  BY DEF NumbersDiffer
<1>2. CASE table = matches
  BY <1>1, <1>2 DEF NumbersDiffer
<1>3. CASE name \notin DOMAIN matches /\ table = AddMatch(name, matchCount + 1)
  <2>1. table = [n \in DOMAIN matches \cup {name} |->
                   IF n = name THEN matchCount + 1 ELSE matches[n]]
    BY <1>3 DEF AddMatch
  <2>2. /\ DOMAIN table = DOMAIN matches \cup {name}
        /\ table[name] = matchCount + 1
        /\ \A n \in DOMAIN matches : table[n] = matches[n]
    BY <1>3, <2>1
  <2> QED  BY <1>1, <2>2 DEF NumbersDiffer
<1> QED  BY <1>2, <1>3 DEF AddMatch

\* The bracket that ends an item, valid or not.
LEMMA ItemEndKeeps ==
  ASSUME RouteInv, More, ClosesItem, NEW name,
         pat' = pat, cursor' = cursor + 1, bracketCount' = 0,
         parenCount' = parenCount, marker' = marker, middle' = middle,
         matchCount' = matchCount + 1,
         variable' = VariableOf(Item), regex_str' = RegexOf(Item),
         matches' \in {matches, AddMatch(name, matchCount + 1)}
  PROVE  RouteInv'
<1>1. Item \in Seq(Char)
  <2>1. bracketCount > 0
    BY DEF ClosesItem
  <2>2. marker \in 1..cursor /\ cursor \in 0..Len(pat) /\ pat \in Seq(Char)
    BY <2>1 DEF RouteInv, Counters, ItemBounds
  <2>3. \A k \in (marker + 1)..cursor : pat[k] \in Char
    BY <2>2
  <2> QED  BY <2>2, <2>3, SubSeqProperties DEF Item
<1>2. NamePair'
  BY <1>1, ColonPair DEF RouteInv, NamePair
<1>3. Counters'
  BY DEF RouteInv, Counters, More
<1>4. ItemBounds'
  BY DEF ItemBounds
<1>5. NumbersDiffer'
  BY AddMatchDiffers DEF RouteInv, Counters, NumbersDiffer
<1> QED  BY <1>2, <1>3, <1>4, <1>5 DEF RouteInv

LEMMA ParameterKeeps ==
  ASSUME RouteInv, Parameter
  PROVE  RouteInv'
<1>1. PICK name : matches' = AddMatch(name, matchCount + 1)
  BY DEF Parameter
<1> QED  BY <1>1, ItemEndKeeps DEF Parameter

LEMMA NoParameterKeeps ==
  ASSUME RouteInv, NoParameter
  PROVE  RouteInv'
BY ItemEndKeeps DEF NoParameter

LEMMA RouteInvStep ==
  ASSUME RouteInv, [PhizNext]_<<vars, caseVars>>
  PROVE  RouteInv'
<1>1. CASE Next
  BY <1>1, OpenBracketKeeps, CloseBracketKeeps, OrdinaryCharKeeps, ParameterKeeps,
     NoParameterKeeps DEF Next
<1>2. CASE vars' = vars
  BY <1>2 DEF vars, RouteInv, Counters, NamePair, ItemBounds, NumbersDiffer
<1> QED  BY <1>1, <1>2 DEF PhizNext

LEMMA RouteInvariance == PhizSpec => []RouteInv
<1>1. PhizInit => RouteInv
  BY RouteInvInit DEF PhizInit
<1> QED  BY <1>1, RouteInvStep, PTL DEF PhizSpec

\* The counters and offsets are numbers, and a remembered name comes with a
\* type: route_extract_params sets both or neither.
THEOREM RouteTypesHold == PhizSpec => []TypeOK
<1>1. RouteInv => TypeOK
  BY DEF RouteInv, Counters, NamePair, NumbersDiffer, TypeOK
<1> QED  BY <1>1, RouteInvariance, PTL

\* While a bracket is open the marker is just behind the one that opened first
\* and what follows is counted: the item cut out of the pattern at the end is
\* the text between two brackets.
THEOREM ItemsCut == PhizSpec => []ItemBetweenBrackets
<1>1. RouteInv => ItemBetweenBrackets
  BY DEF RouteInv, ItemBounds, OpensAt, ItemBetweenBrackets
<1> QED  BY <1>1, RouteInvariance, PTL

\* Two parameters never get the same group, and none a group that has not been
\* counted.
THEOREM GroupsDiffer == PhizSpec => []NumbersDiffer
<1>1. RouteInv => NumbersDiffer
  BY DEF RouteInv
<1> QED  BY <1>1, RouteInvariance, PTL

-----------------------------------------------------------------------------
(***************************************************************************)
(* Patterns put together from items: what each item becomes.               *)
(***************************************************************************)
\* The characters of a regular expression.
RegexChars == Char \cup {"[^/]*", "\\"}

LEMMA JoinedRegexes ==
  ASSUME NEW N \in Nat, N = Len(written), NEW v,
         v = [k \in 1..N |-> RegexOfItem(k)], v \in [1..N -> Seq(RegexChars)]
  PROVE  \E h : /\ Chain(h, RegexChars, v, N)
                /\ Joined([k \in 1..Len(written) |-> k], RegexOfItem) = h[N]
<1> DEFINE items == [k \in 1..Len(written) |-> k]
           f == CHOOSE g : g = [n \in 0..Len(items) |->
                                  IF n = 0 THEN <<>> ELSE g[n - 1] \o RegexOfItem(items[n])]
<1>1. Joined(items, RegexOfItem) = f[Len(items)]
  BY DEF Joined
<1>2. Len(items) = N /\ \A n \in 1..N : items[n] = n
  OBVIOUS
<1>3. \A n \in 0..N : n # 0 => v[n] = RegexOfItem(items[n])
  <2>1. \A n \in 0..N : n # 0 => n \in 1..N
    OBVIOUS
  <2>2. \A n \in 1..N : v[n] = RegexOfItem(n)
    OBVIOUS
  <2> HIDE DEF items
  <2> QED  BY <1>2, <2>1, <2>2
<1> HIDE DEF items
<1>4. \A g : Recursion(g, v, N)
             <=> g = [n \in 0..Len(items) |->
                        IF n = 0 THEN <<>> ELSE g[n - 1] \o RegexOfItem(items[n])]
  BY <1>2, <1>3 DEF Recursion
<1>5. PICK h : Chain(h, RegexChars, v, N)
  BY ChainExists
<1>6. h = [n \in 0..Len(items) |->
             IF n = 0 THEN <<>> ELSE h[n - 1] \o RegexOfItem(items[n])]
  BY <1>4, <1>5, ChainRecursion
<1>7. f = [n \in 0..Len(items) |->
             IF n = 0 THEN <<>> ELSE f[n - 1] \o RegexOfItem(items[n])]
  BY <1>6
<1> HIDE DEF f
<1>8. f[N] = h[N]
  <2>1. Recursion(f, v, N)
    BY <1>4, <1>7
  <2> QED  BY <1>5, <2>1, RecursionChain
<1>9. Joined(items, RegexOfItem) = h[N]
  BY <1>1, <1>2, <1>8
<1> QED  BY <1>5, <1>9 DEF items

LEMMA JoinedEscapes ==
  ASSUME NEW m, written[m].text \in Seq(Char), NEW N, N = Len(written[m].text), NEW v,
         v = [j \in 1..N |-> Escaped(m, j)], v \in [1..N -> Seq(RegexChars)]
  PROVE  \E h : Chain(h, RegexChars, v, N) /\ EscapedText(m) = h[N]
<1> DEFINE items == [j \in 1..Len(written[m].text) |-> j]
           f == CHOOSE g : g = [n \in 0..Len(items) |->
                                  IF n = 0 THEN <<>> ELSE g[n - 1] \o Escaped(m, items[n])]
<1>1. EscapedText(m) = f[Len(items)]
  BY DEF Joined, EscapedText
<1>2. N \in Nat /\ Len(items) = N /\ \A n \in 1..N : items[n] = n
  OBVIOUS
<1>3. \A n \in 0..N : n # 0 => v[n] = Escaped(m, items[n])
  <2>1. \A n \in 0..N : n # 0 => n \in 1..N
    BY <1>2
  <2>2. \A n \in 1..N : v[n] = Escaped(m, n)
    OBVIOUS
  <2> HIDE DEF items
  <2> QED  BY <1>2, <2>1, <2>2
<1> HIDE DEF items
<1>4. \A g : Recursion(g, v, N)
             <=> g = [n \in 0..Len(items) |->
                        IF n = 0 THEN <<>> ELSE g[n - 1] \o Escaped(m, items[n])]
  BY <1>2, <1>3 DEF Recursion
<1>5. PICK h : Chain(h, RegexChars, v, N)
  BY <1>2, ChainExists
<1>6. h = [n \in 0..Len(items) |->
             IF n = 0 THEN <<>> ELSE h[n - 1] \o Escaped(m, items[n])]
  BY <1>2, <1>4, <1>5, ChainRecursion
<1>7. f = [n \in 0..Len(items) |->
             IF n = 0 THEN <<>> ELSE f[n - 1] \o Escaped(m, items[n])]
  BY <1>6
<1> HIDE DEF f
<1>8. Recursion(f, v, N)
  BY <1>4, <1>7
<1>9. f[N] = h[N]
  BY <1>2, <1>5, <1>8, RecursionChain
<1> QED  BY <1>1, <1>2, <1>5, <1>9

\* The text of an item, piece by piece as it is copied.
Piece(k, j) ==
    IF written[k].kind = "literal" THEN Escaped(k, j) ELSE <<TextOf(written[k])[j]>>

LEMMA PieceIsRegex ==
  ASSUME NEW k, NEW j, written[k] \in Items, j \in 1..Len(TextOf(written[k]))
  PROVE  Piece(k, j) \in Seq(RegexChars)
<1>1. TextOf(written[k]) \in Seq(Char)
  BY TextIsText
<1>2. TextOf(written[k])[j] \in Char
  BY <1>1
<1>3. Char \subseteq RegexChars /\ "\\" \in RegexChars
  BY DEF RegexChars
<1>4. \A c, d \in RegexChars : <<c>> \in Seq(RegexChars) /\ <<c, d>> \in Seq(RegexChars)
  OBVIOUS
<1>5. written[k].kind = "literal" => TextOf(written[k]) = written[k].text
  BY DEF TextOf
<1> QED  BY <1>2, <1>3, <1>4, <1>5 DEF Piece, Escaped

LEMMA ChainOfOnes ==
  ASSUME NEW S, NEW t \in Seq(S), NEW N, N = Len(t), NEW v,
         v \in [1..N -> Seq(S)], \A j \in 1..N : v[j] = <<t[j]>>
  PROVE  \E e : Chain(e, S, v, N) /\ e[N] = t
<1> DEFINE e == [j \in 0..N |-> SubSeq(t, 1, j)]
<1>1. N \in Nat
  OBVIOUS
<1>2. ASSUME NEW j \in 0..N
      PROVE  /\ e[j] \in Seq(S) /\ Len(e[j]) = j
             /\ \A q \in 1..j : e[j][q] = t[q]
  <2>1. \A q \in 1..j : t[q] \in S
    BY <1>1
  <2>2. SubSeq(t, 1, j) \in Seq(S) /\ Len(SubSeq(t, 1, j)) = j
        /\ \A q \in 1..j : SubSeq(t, 1, j)[q] = t[q]
    BY <1>1, <2>1, SubSeqProperties
  <2> QED  BY <2>2
<1> HIDE DEF e
<1>3. e[0] = <<>>
  <2>1. e[0] \in Seq(S) /\ Len(e[0]) = 0
    BY <1>1, <1>2
  <2> QED  BY <2>1, EmptySeq
<1>4. ASSUME NEW j \in 1..N PROVE e[j] = e[j - 1] \o v[j]
  <2>1. j - 1 \in 0..N /\ j \in 0..N
    BY <1>1
  <2>2. PICK a : a = e[j - 1]
    OBVIOUS
  <2>3. PICK b : b = e[j]
    OBVIOUS
  <2>4. a \in Seq(S) /\ Len(a) = j - 1 /\ \A q \in 1..(j - 1) : a[q] = t[q]
    BY <1>2, <2>1, <2>2
  <2>5. b \in Seq(S) /\ Len(b) = j /\ \A q \in 1..j : b[q] = t[q]
    BY <1>2, <2>1, <2>3
  <2>6. PICK d : d = v[j] /\ d \in Seq(S)
    OBVIOUS
  <2>7. Len(d) = 1 /\ d[1] = t[j]
    BY <2>6
  <2>8. /\ a \o d \in Seq(S) /\ Len(a \o d) = Len(a) + Len(d)
        /\ \A q \in 1..(Len(a) + Len(d)) :
             (a \o d)[q] = IF q <= Len(a) THEN a[q] ELSE d[q - Len(a)]
    <3>1. a \o d \in Seq(S) /\ Spans(a, d)
      BY <2>4, <2>6, PutTogether
    <3> QED  BY <3>1 DEF Spans
  <2>9. PICK w : w = a \o d
    OBVIOUS
  <2>10. Len(w) = j /\ w \in Seq(S)
    BY <2>4, <2>7, <2>8, <2>9
  <2>11. ASSUME NEW q \in 1..j PROVE w[q] = t[q]
    <3>1. CASE q <= j - 1
      BY <2>4, <2>7, <2>8, <2>9, <3>1
    <3>2. CASE q = j
      BY <2>4, <2>7, <2>8, <2>9, <3>2
    <3> QED  BY <3>1, <3>2
  <2>12. w = b
    <3>1. \A q \in 1..j : w[q] = b[q]
      BY <2>5, <2>11
    <3> QED  BY <2>5, <2>10, <3>1, SeqEqual
  <2> QED  BY <2>2, <2>3, <2>6, <2>9, <2>12
<1>5. e \in [0..N -> Seq(S)]
  BY <1>2 DEF e
<1>6. Chain(e, S, v, N)
  BY <1>3, <1>4, <1>5 DEF Chain
<1>7. e[N] = t
  <2>1. N \in 0..N
    BY <1>1
  <2>2. PICK b : b = e[N]
    OBVIOUS
  <2>3. b \in Seq(S) /\ Len(b) = N /\ \A q \in 1..N : b[q] = t[q]
    BY <1>2, <2>1, <2>2
  <2> QED  BY <2>2, <2>3, SeqEqual
<1> QED  BY <1>6, <1>7

Pieces(k) == [j \in 1..Len(TextOf(written[k])) |-> Piece(k, j)]
Spelled(e, k) ==
    /\ Chain(e, RegexChars, Pieces(k), Len(TextOf(written[k])))
    /\ e[Len(TextOf(written[k]))] = RegexOfItem(k)

LEMMA SpelledExists ==
  ASSUME NEW k, written[k] \in Items, written[k].kind \in {"literal", "group"}
  PROVE  \E e : Spelled(e, k)
<1> DEFINE t == TextOf(written[k])
           N == Len(t)
           v == [j \in 1..N |-> Piece(k, j)]
<1>1. t \in Seq(Char) /\ N \in Nat
  BY TextIsText
<1>2. v \in [1..N -> Seq(RegexChars)]
  BY PieceIsRegex
<1>3. v = Pieces(k)
  BY DEF Pieces
<1>4. CASE written[k].kind = "literal"
  <2>1. t = written[k].text
    BY <1>4 DEF TextOf
  <2>2. RegexOfItem(k) = EscapedText(k)
    BY <1>4 DEF RegexOfItem
  <2>3. v = [j \in 1..N |-> Escaped(k, j)]
    BY <1>4 DEF Piece
  <2> HIDE DEF v, t
  <2>4. \E e : Chain(e, RegexChars, v, N) /\ EscapedText(k) = e[N]
    BY <1>1, <1>2, <2>1, <2>3, JoinedEscapes
  <2> QED  BY <1>3, <2>2, <2>4 DEF Spelled, t
<1>5. CASE written[k].kind = "group"
  <2>1. RegexOfItem(k) = t
    BY <1>5 DEF RegexOfItem
  <2>2. \A j \in 1..N : v[j] = <<t[j]>>
    BY <1>5 DEF Piece
  <2>3. t \in Seq(RegexChars)
    <3>1. Char \subseteq RegexChars
      BY DEF RegexChars
    <3> HIDE DEF t
    <3> QED  BY <1>1, <3>1
  <2> HIDE DEF v, t
  <2>4. \E e : Chain(e, RegexChars, v, N) /\ e[N] = t
    BY <1>2, <2>2, <2>3, ChainOfOnes
  <2> QED  BY <1>3, <2>1, <2>4 DEF Spelled, t
<1> QED  BY <1>4, <1>5

LEMMA RegexIsText ==
  ASSUME NEW k, written[k] \in Items
  PROVE  RegexOfItem(k) \in Seq(RegexChars)
<1>1. written[k].kind \in {"literal", "param", "typed", "group"}
      /\ written[k].text \in Seq(Char)
  BY DEF Items
<1>2. CASE written[k].kind \in {"literal", "group"}
  <2>1. PICK e : Spelled(e, k)
    BY <1>2, SpelledExists
  <2>2. TextOf(written[k]) \in Seq(Char)
    BY TextIsText
  <2>3. Len(TextOf(written[k])) \in 0..Len(TextOf(written[k]))
    BY <2>2
  <2> QED  BY <2>1, <2>3 DEF Spelled, Chain
<1>3. Char \subseteq RegexChars /\ "[^/]*" \in RegexChars
      /\ "(" \in RegexChars /\ ")" \in RegexChars /\ ":" \in RegexChars
  BY PatternsAssumption DEF RegexChars
<1>4. /\ \A c, d, b \in RegexChars : <<c, d, b>> \in Seq(RegexChars)
      /\ \A c, d \in RegexChars : <<c, d>> \in Seq(RegexChars)
      /\ \A c \in RegexChars : <<c>> \in Seq(RegexChars)
      /\ \A x, y \in Seq(RegexChars) : x \o y \in Seq(RegexChars)
  BY ConcatProperties
<1>5. CASE written[k].kind = "param"
  <2>1. RegexOfItem(k) = k_route
    BY <1>5 DEF RegexOfItem
  <2> QED  BY <1>3, <1>4, <2>1 DEF k_route
<1>6. CASE written[k].kind = "typed"
  <2>1. written[k].text \in Seq(RegexChars)
    BY <1>1, <1>3
  <2>2. RegexOfItem(k) = <<"(", ":">> \o written[k].text \o <<")">>
    BY <1>6 DEF RegexOfItem
  <2> QED  BY <1>3, <1>4, <2>1, <2>2
<1> QED  BY <1>1, <1>2, <1>5, <1>6

\* The regular expressions of the items, one after the other.
Routed(r) ==
    /\ Chain(r, RegexChars, [k \in 1..Len(written) |-> RegexOfItem(k)], Len(written))
    /\ r[Len(written)] = Joined([k \in 1..Len(written) |-> k], RegexOfItem)

LEMMA RoutedExists ==
  ASSUME written \in Seq(Items)
  PROVE  \E r : Routed(r)
<1> DEFINE N == Len(written)
           v == [k \in 1..N |-> RegexOfItem(k)]
<1>1. N \in Nat /\ \A k \in 1..N : written[k] \in Items
  OBVIOUS
<1>2. v \in [1..N -> Seq(RegexChars)]
  BY <1>1, RegexIsText
<1>3. PICK v2 : v2 = v
  OBVIOUS
<1>4. \E h : /\ Chain(h, RegexChars, v2, N)
             /\ Joined([k \in 1..Len(written) |-> k], RegexOfItem) = h[N]
  BY <1>1, <1>2, <1>3, JoinedRegexes
<1> QED  BY <1>3, <1>4 DEF Routed

\* A chain holds what each of its parts does.
Opening(s, t) == Len(s) \in 0..Len(t) /\ \A q \in 1..Len(s) : t[q] = s[q]

LEMMA ChainOpens ==
  ASSUME NEW S, NEW N \in Nat, NEW v \in [1..N -> Seq(S)], NEW h, Chain(h, S, v, N)
  PROVE  \A n \in 0..N : Opening(h[n], h[N])
<1> DEFINE Bad == {n \in 0..N : ~ Opening(h[N - n], h[N])}
<1>1. \A n \in 0..N : h[n] \in Seq(S) /\ Len(h[n]) \in Nat
  BY DEF Chain
<1>2. Bad = {}
  <2> SUFFICES ASSUME Bad # {} PROVE FALSE
    OBVIOUS
  <2>1. PICK m \in Bad : \A n \in Bad : m <= n
    <3>1. Bad \in SUBSET Nat
      OBVIOUS
    <3> HIDE DEF Bad
    <3> QED  BY <3>1, LeastElement
  <2>2. m # 0
    <3> SUFFICES ASSUME m = 0 PROVE FALSE
      OBVIOUS
    <3>1. N - m = N /\ N \in 0..N
      OBVIOUS
    <3>2. Opening(h[N], h[N])
      BY <1>1, <3>1 DEF Opening
    <3> QED  BY <2>1, <3>1, <3>2
  <2>3. PICK k : k = N - m
    OBVIOUS
  <2>4. k \in 0..N /\ k + 1 \in 1..N /\ k + 1 = N - (m - 1) /\ (k + 1) - 1 = k
        /\ m - 1 \in 0..N /\ m - 1 \notin Bad /\ k + 1 \in 0..N
    <3>1. m \in 1..N
      BY <2>1, <2>2
    <3>2. m - 1 \notin Bad
      <4> HIDE DEF Bad
      <4> QED  BY <2>1, <3>1
    <3> HIDE DEF Bad
    <3> QED  BY <2>3, <3>1, <3>2
  <2>5. Opening(h[k + 1], h[N]) /\ ~ Opening(h[k], h[N])
    BY <2>1, <2>3, <2>4
  <2>6. h[k + 1] = h[k] \o v[k + 1]
    BY <2>4 DEF Chain
  <2> HIDE DEF Bad
  <2>7. PICK a : a = h[k] /\ a \in Seq(S)
    BY <1>1, <2>4
  <2>8. PICK d : d = v[k + 1] /\ d \in Seq(S)
    BY <2>4
  <2>9. PICK b : b = h[k + 1]
    OBVIOUS
  <2>10. /\ Len(b) = Len(a) + Len(d)
         /\ \A q \in 1..(Len(a) + Len(d)) :
              b[q] = IF q <= Len(a) THEN a[q] ELSE d[q - Len(a)]
    <3>1. b = a \o d
      BY <2>6, <2>7, <2>8, <2>9
    <3>2. Spans(a, d)
      BY <2>7, <2>8, PutTogether
    <3> QED  BY <3>1, <3>2 DEF Spans
  <2>11. Len(a) \in Nat /\ Len(d) \in Nat
    BY <2>7, <2>8
  <2>12. PICK t : t = h[N] /\ Len(t) \in Nat
    BY <1>1
  <2>13. Opening(b, t) /\ ~ Opening(a, t)
    BY <2>5, <2>7, <2>9, <2>12
  <2> QED  BY ONLY <2>10, <2>11, <2>12, <2>13 DEF Opening
<1> HIDE DEF Bad
<1>3. ASSUME NEW n \in 0..N PROVE Opening(h[n], h[N])
  <2>1. N - n \in 0..N /\ N - (N - n) = n
    OBVIOUS
  <2> QED  BY <1>2, <2>1 DEF Bad
<1> QED  BY <1>3

\* Where the items are in the pattern.
PlacedAt(at, k) ==
    /\ at[k] = at[k - 1] + Len(TextOf(written[k])) /\ at[k] <= Len(pat)
    /\ \A j \in 1..Len(TextOf(written[k])) : pat[at[k - 1] + j] = TextOf(written[k])[j]

Placed(at) ==
    /\ at \in [0..Len(written) -> Nat] /\ at[0] = 0 /\ at[Len(written)] = Len(pat)
    /\ \A k \in 1..Len(written) : PlacedAt(at, k)

LEMMA PlacedExists ==
  ASSUME written \in Seq(Items), pat = Joined(written, TextOf)
  PROVE  \E at : Placed(at)
<1>1. PICK N : N = Len(written)
  OBVIOUS
<1>2. PICK h, v : /\ v = [n \in 1..N |-> TextOf(written[n])] /\ v \in [1..N -> Seq(Char)]
                  /\ Chain(h, Char, v, N) /\ Joined(written, TextOf) = h[N]
  BY <1>1, JoinedTexts
<1>3. N \in Nat /\ pat = h[N] /\ \A n \in 1..N : TextOf(written[n]) = v[n]
  BY <1>1, <1>2
<1>4. \A n \in 0..N : h[n] \in Seq(Char) /\ Len(h[n]) \in Nat
  BY <1>2 DEF Chain
<1> DEFINE at == [n \in 0..N |-> Len(h[n])]
<1>5. at \in [0..N -> Nat] /\ \A n \in 0..N : at[n] = Len(h[n])
  BY <1>4
<1> HIDE DEF at
<1>6. at[0] = 0 /\ at[N] = Len(pat)
  <2>1. h[0] = <<>> /\ 0 \in 0..N /\ N \in 0..N
    BY <1>2, <1>3 DEF Chain
  <2> QED  BY <1>3, <1>5, <2>1
<1>7. ASSUME NEW n \in 1..N PROVE PlacedAt(at, n)
  <2>1. n \in 0..N /\ n - 1 \in 0..N /\ h[n] = h[n - 1] \o v[n]
    <3>1. n \in 0..N /\ n - 1 \in 0..N
      BY <1>3
    <3> QED  BY <1>2, <3>1 DEF Chain
  <2>2. Opening(h[n], pat)
    BY <1>2, <1>3, <2>1, ChainOpens
  <2>3. PICK a : a = h[n - 1] /\ a \in Seq(Char) /\ Len(a) = at[n - 1]
    BY <1>4, <1>5, <2>1
  <2>4. PICK d : d = v[n] /\ d \in Seq(Char)
    BY <1>2
  <2>5. PICK b : b = h[n] /\ Len(b) = at[n]
    BY <1>5, <2>1
  <2>6. /\ Len(b) = Len(a) + Len(d)
        /\ \A q \in 1..(Len(a) + Len(d)) :
             b[q] = IF q <= Len(a) THEN a[q] ELSE d[q - Len(a)]
    <3>1. b = a \o d
      BY <2>1, <2>3, <2>4, <2>5
    <3>2. Spans(a, d)
      BY <2>3, <2>4, PutTogether
    <3> QED  BY <3>1, <3>2 DEF Spans
  <2>7. Len(a) \in Nat /\ Len(d) \in Nat
    BY <2>3, <2>4
  <2>8. Opening(b, pat)
    BY <2>2, <2>5
  <2>9. at[n] = at[n - 1] + Len(d) /\ at[n] <= Len(pat)
    BY <1>3, <1>4, <2>3, <2>5, <2>6, <2>8 DEF Opening
  <2>10. ASSUME NEW j \in 1..Len(d) PROVE pat[at[n - 1] + j] = d[j]
    <3>1. Len(a) + j \in 1..Len(b) /\ ~ (Len(a) + j <= Len(a)) /\ (Len(a) + j) - Len(a) = j
      BY <2>6, <2>7
    <3>2. pat[Len(a) + j] = b[Len(a) + j]
      BY <2>8, <3>1 DEF Opening
    <3>3. b[Len(a) + j] = d[j]
      BY <2>6, <3>1
    <3> QED  BY <2>3, <3>2, <3>3
  <2>11. TextOf(written[n]) = d
    BY <1>3, <2>4
  <2> QED  BY <2>9, <2>10, <2>11 DEF PlacedAt
<1> QED  BY <1>1, <1>5, <1>6, <1>7 DEF Placed

-----------------------------------------------------------------------------
(***************************************************************************)
(* What a round does outside of brackets, and the three inside.            *)
(***************************************************************************)
IsBracket(c) == c \in {"{", "}"}

LEMMA OutsideStep ==
  ASSUME Next, bracketCount = 0, ~ (parenCount = 0 /\ IsBracket(ch))
  PROVE  /\ cursor' = cursor + 1 /\ bracketCount' = 0
         /\ parenCount' = Parens(0)
         /\ matchCount' = IF ch = ")" /\ Parens(0) = 0 THEN matchCount + 1 ELSE matchCount
         /\ route_str' = route_str \o Copied(Parens(0)) /\ prevCh' = ch
         /\ variable' = variable /\ regex_str' = regex_str /\ matches' = matches
         /\ written' = written /\ pat' = pat
<1>1. OrdinaryChar
  BY DEF Next, OpenBracket, CloseBracket, Parameter, NoParameter, ClosesItem, Closes, IsBracket
<1>2. Round(bracketCount, middle)
  BY <1>1 DEF OrdinaryChar
<1>3. ~ Inside(bracketCount, middle)
  <2>1. ~ (bracketCount > 0)
    OBVIOUS
  <2> QED  BY <2>1 DEF Inside
<1>4. Outside(bracketCount, middle)
  BY <1>2, <1>3 DEF Round
<1>5. /\ bracketCount' = 0 /\ parenCount' = Parens(0)
      /\ matchCount' = IF ch = ")" /\ Parens(0) = 0 THEN matchCount + 1 ELSE matchCount
      /\ route_str' = route_str \o Copied(Parens(0)) /\ prevCh' = ch
  BY <1>4, Zenon DEF Outside
<1>6. /\ cursor' = cursor + 1 /\ variable' = variable /\ regex_str' = regex_str
      /\ matches' = matches /\ written' = written /\ pat' = pat
  BY <1>2, Zenon DEF Round
<1> QED  BY <1>5, <1>6

\* Inside, nothing is written.
Quiet ==
    /\ cursor' = cursor + 1 /\ parenCount' = parenCount /\ matchCount' = matchCount
    /\ route_str' = route_str /\ prevCh' = prevCh
    /\ variable' = variable /\ regex_str' = regex_str /\ matches' = matches
    /\ written' = written /\ pat' = pat

LEMMA OpenStep ==
  ASSUME Next, bracketCount = 0, parenCount = 0, ch = "{"
  PROVE  Quiet /\ bracketCount' = 1 /\ marker' = cursor + 1
<1>1. OpenBracket
  BY Zenon DEF Next, CloseBracket, Parameter, NoParameter, OrdinaryChar, ClosesItem, Closes
<1>2. marker' = cursor + 1 /\ Round(bracketCount + 1, 0)
  BY <1>1, Zenon DEF OpenBracket
<1>3. bracketCount + 1 = 1 /\ ~ (bracketCount + 1 <= 0)
  BY ONLY bracketCount = 0
<1>4. Inside(bracketCount + 1, 0) \/ Outside(bracketCount + 1, 0)
  BY <1>2 DEF Round
<1>5. Inside(bracketCount + 1, 0)
  BY <1>3, <1>4 DEF Outside
<1> QED  BY <1>2, <1>3, <1>5 DEF Round, Inside, Quiet

LEMMA InsideStep ==
  ASSUME Next, bracketCount = 1, parenCount = 0, ~ IsBracket(ch)
  PROVE  Quiet /\ bracketCount' = 1 /\ marker' = marker
<1>1. OrdinaryChar
  BY DEF Next, OpenBracket, CloseBracket, Parameter, NoParameter, ClosesItem, Closes, IsBracket
<1>2. marker' = marker /\ Round(bracketCount, middle)
  BY <1>1 DEF OrdinaryChar
<1>3. ~ (bracketCount <= 0)
  OBVIOUS
<1>4. Inside(bracketCount, middle)
  BY <1>2, <1>3 DEF Round, Outside
<1> QED  BY <1>2, <1>4 DEF Round, Inside, Quiet

LEMMA CloseStep ==
  ASSUME Next, bracketCount = 1, parenCount = 0, ch = "}", middle > 0, IsValid(Item)
  PROVE  Parameter
BY Zenon DEF Next, OpenBracket, CloseBracket, NoParameter, OrdinaryChar, ClosesItem, Closes

-----------------------------------------------------------------------------
(***************************************************************************)
(* The texts of well written items.                                        *)
(***************************************************************************)
LEMMA Concatenated ==
  ASSUME NEW S, NEW a \in Seq(S), NEW d \in Seq(S), NEW b, b = a \o d
  PROVE  /\ b \in Seq(S) /\ Len(a) \in Nat /\ Len(d) \in Nat /\ Len(b) = Len(a) + Len(d)
         /\ \A q \in 1..Len(a) : b[q] = a[q]
         /\ \A q \in 1..Len(d) : b[Len(a) + q] = d[q]
<1>1. /\ b \in Seq(S) /\ Len(b) = Len(a) + Len(d)
      /\ \A q \in 1..(Len(a) + Len(d)) : b[q] = IF q <= Len(a) THEN a[q] ELSE d[q - Len(a)]
  BY ConcatProperties
<1>2. Len(a) \in Nat /\ Len(d) \in Nat
  OBVIOUS
<1>3. ASSUME NEW q \in 1..Len(a) PROVE b[q] = a[q]
  BY <1>1, <1>2
<1>4. ASSUME NEW q \in 1..Len(d) PROVE b[Len(a) + q] = d[q]
  <2>1. /\ Len(a) + q \in 1..(Len(a) + Len(d)) /\ ~ (Len(a) + q <= Len(a))
        /\ (Len(a) + q) - Len(a) = q
    BY ONLY <1>2, <1>4
  <2> QED  BY ONLY <1>1, <2>1
<1> QED  BY <1>1, <1>2, <1>3, <1>4

LEMMA Wrapped ==
  ASSUME NEW S, NEW o \in S, NEW c \in S, NEW b \in Seq(S),
         NEW t, t = <<o>> \o b \o <<c>>
  PROVE  /\ t \in Seq(S) /\ Len(t) = Len(b) + 2 /\ t[1] = o /\ t[Len(b) + 2] = c
         /\ \A j \in 1..Len(b) : t[j + 1] = b[j]
<1>1. PICK x : x = <<o>>
  OBVIOUS
<1>2. PICK y : y = <<c>>
  OBVIOUS
<1>3. /\ x \in Seq(S) /\ Len(x) = 1 /\ x[1] = o
      /\ y \in Seq(S) /\ Len(y) = 1 /\ y[1] = c /\ Len(b) \in Nat
  BY <1>1, <1>2
<1>4. PICK w : w = x \o b
  OBVIOUS
<1>5. /\ w \in Seq(S) /\ Len(w) = 1 + Len(b)
      /\ \A q \in 1..1 : w[q] = x[q]
      /\ \A q \in 1..Len(b) : w[1 + q] = b[q]
  <2>1. /\ w \in Seq(S) /\ Len(w) = Len(x) + Len(b)
        /\ \A q \in 1..Len(x) : w[q] = x[q]
        /\ \A q \in 1..Len(b) : w[Len(x) + q] = b[q]
    <3>1. x \in Seq(S) /\ b \in Seq(S) /\ w = x \o b
      BY <1>3, <1>4
    <3> QED  BY ONLY <3>1, Concatenated
  <2> QED  BY <1>3, <2>1
<1>6. t = w \o y
  BY <1>1, <1>2, <1>4
<1>7. /\ t \in Seq(S) /\ Len(t) = Len(w) + 1
      /\ \A q \in 1..Len(w) : t[q] = w[q]
      /\ \A q \in 1..1 : t[Len(w) + q] = y[q]
  <2>1. /\ t \in Seq(S) /\ Len(t) = Len(w) + Len(y)
        /\ \A q \in 1..Len(w) : t[q] = w[q]
        /\ \A q \in 1..Len(y) : t[Len(w) + q] = y[q]
    <3>1. w \in Seq(S) /\ y \in Seq(S) /\ t = w \o y
      BY <1>3, <1>5, <1>6
    <3> QED  BY ONLY <3>1, Concatenated
  <2> QED  BY <1>3, <2>1
<1>8. t[1] = o
  <2>1. 1 \in 1..1 /\ 1 \in 1..Len(w)
    BY <1>3, <1>5
  <2> QED  BY <1>3, <1>5, <1>7, <2>1
<1>9. t[Len(b) + 2] = c
  <2>1. 1 \in 1..1 /\ Len(w) + 1 = Len(b) + 2
    BY <1>3, <1>5
  <2> QED  BY <1>3, <1>7, <2>1
<1>10. ASSUME NEW j \in 1..Len(b) PROVE t[j + 1] = b[j]
  <2>1. 1 + j = j + 1 /\ j + 1 \in 1..Len(w)
    BY <1>3, <1>5
  <2>2. w[1 + j] = b[j]
    BY <1>5
  <2> QED  BY <1>7, <2>1, <2>2
<1> QED  BY <1>3, <1>5, <1>7, <1>8, <1>9, <1>10

\* A name, a colon and a type.
LEMMA Behind ==
  ASSUME NEW S, NEW n \in Seq(S), NEW c \in S, NEW x \in Seq(S),
         NEW z, z = <<c>> \o x, NEW b, b = n \o z
  PROVE  /\ z \in Seq(S) /\ b \in Seq(S) /\ Len(b) = Len(n) + Len(x) + 1
         /\ Len(z) = Len(x) + 1 /\ z[1] = c /\ \A j \in 1..Len(x) : z[j + 1] = x[j]
         /\ \A j \in 1..Len(n) : b[j] = n[j]
         /\ \A j \in 1..Len(z) : b[Len(n) + j] = z[j]
<1>1. PICK y : y = <<c>>
  OBVIOUS
<1>2. y \in Seq(S) /\ Len(y) = 1 /\ y[1] = c
  BY <1>1
<1>3. /\ z \in Seq(S) /\ Len(x) \in Nat /\ Len(z) = 1 + Len(x)
      /\ \A q \in 1..1 : z[q] = y[q]
      /\ \A q \in 1..Len(x) : z[1 + q] = x[q]
  <2>1. y \in Seq(S) /\ z = y \o x
    BY <1>1, <1>2
  <2>2. /\ z \in Seq(S) /\ Len(x) \in Nat /\ Len(z) = Len(y) + Len(x)
        /\ \A q \in 1..Len(y) : z[q] = y[q]
        /\ \A q \in 1..Len(x) : z[Len(y) + q] = x[q]
    BY ONLY <2>1, x \in Seq(S), Concatenated
  <2> QED  BY <1>2, <2>2
<1>4. /\ b \in Seq(S) /\ Len(n) \in Nat /\ Len(b) = Len(n) + Len(z)
      /\ \A q \in 1..Len(n) : b[q] = n[q]
      /\ \A q \in 1..Len(z) : b[Len(n) + q] = z[q]
  <2>1. n \in Seq(S) /\ z \in Seq(S) /\ b = n \o z
    BY <1>3
  <2> QED  BY ONLY <2>1, Concatenated
<1>5. z[1] = c
  <2>1. 1 \in 1..1
    OBVIOUS
  <2> QED  BY <1>2, <1>3, <2>1
<1>6. ASSUME NEW j \in 1..Len(x) PROVE z[j + 1] = x[j]
  <2>1. 1 + j = j + 1
    BY <1>3
  <2> QED  BY <1>3, <2>1
<1> QED  BY <1>3, <1>4, <1>5, <1>6

LEMMA NameCharFacts ==
  /\ \A c \in NameChars \cup {":"} : ~ IsBracket(c) /\ c # "("
  /\ ":" \notin NameChars
BY PatternsAssumption DEF NameChars, IsBracket

\* What is between the brackets of a parameter.
Body(item) == IF item.kind = "param" THEN item.name ELSE item.name \o (<<":">> \o item.text)

LEMMA NamedText ==
  ASSUME NEW item \in Items, item.kind \in {"param", "typed"}
  PROVE  /\ Body(item) \in Seq(Char)
         /\ TextOf(item) = <<"{">> \o Body(item) \o <<"}">>
<1>1. item.name \in Seq(Char) /\ item.text \in Seq(Char)
  BY DEF Items
<1>2. CASE item.kind = "param"
  BY <1>1, <1>2 DEF Body, TextOf
<1>3. CASE item.kind = "typed"
  <2>1. PICK a : a = <<"{">>
    OBVIOUS
  <2>2. PICK c : c = <<":">>
    OBVIOUS
  <2>3. \A x \in Char : <<x>> \in Seq(Char)
    OBVIOUS
  <2>4. a \in Seq(Char) /\ c \in Seq(Char)
    BY <2>1, <2>2, <2>3, PatternsAssumption
  <2>5. TextOf(item) = a \o item.name \o c \o item.text \o <<"}">>
    BY <1>3, <2>1, <2>2 DEF TextOf
  <2>6. Body(item) = item.name \o (c \o item.text)
    BY <1>3, <2>2 DEF Body
  <2>7. PICK n, x : n = item.name /\ x = item.text
    OBVIOUS
  <2>8. a \o n \o c \o x = a \o (n \o (c \o x))
    <3>1. a \in Seq(Char) /\ n \in Seq(Char) /\ c \in Seq(Char) /\ x \in Seq(Char)
      BY <1>1, <2>4, <2>7
    <3>2. PICK y : y = a \o n
      OBVIOUS
    <3>3. PICK z : z = c \o x
      OBVIOUS
    <3>4. y \in Seq(Char) /\ z \in Seq(Char)
      BY ONLY <3>1, <3>2, <3>3, ConcatProperties
    <3>5. (y \o c) \o x = y \o (c \o x)
      <4>1. Associate(y, c, x)
        BY <3>1, <3>4, PutInOrder
      <4> QED  BY <4>1 DEF Associate
    <3>6. (a \o n) \o z = a \o (n \o z)
      <4>1. Associate(a, n, z)
        BY <3>1, <3>4, PutInOrder
      <4> QED  BY <4>1 DEF Associate
    <3> QED  BY ONLY <3>2, <3>3, <3>5, <3>6
  <2>9. n \o (c \o x) \in Seq(Char)
    <3>1. n \in Seq(Char) /\ c \in Seq(Char) /\ x \in Seq(Char)
      BY <1>1, <2>4, <2>7
    <3> QED  BY ONLY <3>1, ConcatProperties
  <2> QED  BY <2>1, <2>5, <2>6, <2>7, <2>8, <2>9, Zenon
<1> QED  BY <1>2, <1>3

\* The scan takes all of a body.
LEMMA BodyScanned ==
  ASSUME NEW b \in Seq(Char), Len(b) > 0, b[1] \in Alpha,
         \A j \in 1..Len(b) : b[j] \in NameChars \cup {":"}
  PROVE  IsValid(b) /\ \A j \in 1..Len(b) : ~ IsBracket(b[j]) /\ j \in Allowed(b)
<1>1. Len(b) \in Nat
  OBVIOUS
<1>2. ASSUME NEW j \in 0..Len(b) PROVE j \in Allowed(b)
  <2>1. \A q \in 1..j : q \in 1..Len(b)
    BY <1>1
  <2> QED  BY <2>1 DEF Allowed, NameChars
<1>3. Len(b) \in 0..Len(b) /\ \A j \in 1..Len(b) : j \in 0..Len(b)
  BY <1>1
<1> QED  BY <1>2, <1>3, NameCharFacts DEF IsValid

LEMMA AllowedIndex ==
  ASSUME NEW b \in Seq(Char), NEW j \in Allowed(b), j # 0
  PROVE  j \in 1..Len(b)
<1>1. j \in 0..Len(b)
  BY DEF Allowed
<1> QED  BY <1>1

LEMMA ParamScanned ==
  ASSUME NEW item \in Items, item.kind = "param", WellWritten(item)
  PROVE  /\ Body(item) = item.name /\ Len(item.name) > 0 /\ IsValid(item.name)
         /\ \A j \in 1..Len(item.name) : ~ IsBracket(item.name[j])
         /\ Colons(item.name) = {}
<1>1. PICK b : b = item.name
  OBVIOUS
<1>2. b \in Seq(Char) /\ Body(item) = b
  BY <1>1 DEF Items, Body
<1>3. b # <<>> /\ b[1] \in Alpha /\ \A j \in 1..Len(b) : b[j] \in NameChars
  BY <1>1 DEF WellWritten, IsName
<1>4. Len(b) > 0
  BY <1>2, <1>3
<1>5. IsValid(b) /\ \A j \in 1..Len(b) : ~ IsBracket(b[j])
  BY <1>2, <1>3, <1>4, BodyScanned
<1>6. \A j \in Allowed(b) \ {0} : j \in 1..Len(b)
  BY <1>2, AllowedIndex
<1>7. Colons(b) = {}
  BY <1>3, <1>6, NameCharFacts DEF Colons
<1> QED  BY <1>1, <1>2, <1>4, <1>5, <1>7

LEMMA TypedScanned ==
  ASSUME NEW item \in Items, item.kind = "typed", WellWritten(item),
         NEW b, b = Body(item), NEW z, z = <<":">> \o item.text
  PROVE  /\ Len(b) > 0 /\ IsValid(b) /\ \A j \in 1..Len(b) : ~ IsBracket(b[j])
         /\ VariableOf(b) = item.name /\ RegexOf(b) = z
         /\ item.name # <<>> /\ z # <<>> /\ ~ HasGroup(z)
<1>1. PICK n, x : n = item.name /\ x = item.text
  OBVIOUS
<1>2. n \in Seq(Char) /\ x \in Seq(Char)
  BY <1>1 DEF Items
<1>3. PICK c : c = ":"
  OBVIOUS
<1>4. c \in Char
  BY <1>3, PatternsAssumption
<1>5. z = <<c>> \o x /\ b = n \o z
  BY <1>1, <1>3 DEF Body
<1>6. /\ z \in Seq(Char) /\ b \in Seq(Char) /\ Len(b) = Len(n) + Len(x) + 1
      /\ Len(z) = Len(x) + 1 /\ z[1] = c /\ \A j \in 1..Len(x) : z[j + 1] = x[j]
      /\ \A j \in 1..Len(n) : b[j] = n[j]
      /\ \A j \in 1..Len(z) : b[Len(n) + j] = z[j]
  BY ONLY <1>2, <1>4, <1>5, Behind
<1>7. /\ n # <<>> /\ n[1] \in Alpha /\ \A j \in 1..Len(n) : n[j] \in NameChars
      /\ \A j \in 1..Len(x) : x[j] \in NameChars
  BY <1>1 DEF WellWritten, IsName
<1>8. Len(n) \in Nat /\ Len(x) \in Nat /\ Len(n) > 0 /\ Len(b) > 0
      /\ Len(b) \in Nat /\ Len(z) \in Nat
  BY <1>2, <1>6, <1>7
<1>9. ASSUME NEW j \in 1..Len(b), j # Len(n) + 1 PROVE b[j] \in NameChars
  <2>1. CASE j <= Len(n)
    BY <1>6, <1>7, <1>8, <2>1
  <2>2. CASE ~ (j <= Len(n))
    <3>1. PICK q : q = j - Len(n) - 1
      OBVIOUS
    <3>2. q \in 1..Len(x) /\ q + 1 \in 1..Len(z) /\ Len(n) + (q + 1) = j
      BY <1>6, <1>8, <1>9, <2>2, <3>1
    <3>3. b[j] = z[q + 1] /\ z[q + 1] = x[q]
      BY <1>6, <3>2
    <3> QED  BY <1>7, <3>2, <3>3
  <2> QED  BY <2>1, <2>2
<1>10. PICK l : l = Len(n) + 1
  OBVIOUS
<1>11. l \in 1..Len(b) /\ b[l] = c
  <2>1. 1 \in 1..Len(z) /\ l \in 1..Len(b)
    BY <1>6, <1>8, <1>10
  <2> QED  BY <1>6, <1>10, <2>1
<1>12. b[1] \in Alpha
  BY <1>6, <1>7, <1>8
<1>13. \A j \in 1..Len(b) : b[j] \in NameChars \cup {":"}
  BY <1>3, <1>9, <1>10, <1>11
<1>14. IsValid(b) /\ \A j \in 1..Len(b) : ~ IsBracket(b[j]) /\ j \in Allowed(b)
  BY <1>6, <1>8, <1>12, <1>13, BodyScanned
<1>15. Colons(b) = {l}
  <2>1. l # 0
    BY <1>11
  <2>2. \A j \in Allowed(b) \ {0} : j \in 1..Len(b)
    BY <1>6, AllowedIndex
  <2>3. l \in Colons(b)
    BY <1>3, <1>11, <1>14, <2>1 DEF Colons
  <2>4. \A j \in Colons(b) : j = l
    BY <1>9, <1>10, <2>2, NameCharFacts DEF Colons
  <2> QED  BY <2>3, <2>4
<1>16. LastColon(b) = l
  <2>1. l <= l
    BY <1>11
  <2> QED  BY <1>15, <2>1 DEF LastColon
<1>17. SubSeq(b, 1, l - 1) = n
  <2>1. \A j \in 1..Len(n) : b[j] \in Char /\ b[j] = n[j]
    BY <1>2, <1>6
  <2>2. PICK s : s = SubSeq(b, 1, l - 1)
    OBVIOUS
  <2>3. l - 1 = Len(n)
    BY <1>8, <1>10
  <2>4. s \in Seq(Char) /\ Len(s) = Len(n) /\ \A j \in 1..Len(n) : s[j] = b[j]
    BY <1>8, <2>1, <2>2, <2>3, SubSeqProperties
  <2> QED  BY <1>2, <2>1, <2>2, <2>4, SeqEqual
<1>18. SubSeq(b, l, Len(b)) = z
  <2>1. PICK s : s = SubSeq(b, l, Len(b))
    OBVIOUS
  <2>2. \A j \in l..Len(b) : b[j] \in Char
    BY <1>6, <1>11
  <2>3. s \in Seq(Char) /\ Len(s) = Len(b) - l + 1 /\ \A j \in 1..(Len(b) - l + 1) : s[j] = b[l + j - 1]
    BY <1>8, <1>11, <2>1, <2>2, SubSeqProperties
  <2>4. Len(b) - l + 1 = Len(z)
    <3>1. Len(b) = Len(n) + Len(x) + 1 /\ Len(z) = Len(x) + 1
      BY <1>6
    <3> QED  BY ONLY <1>8, <1>10, <3>1
  <2>5. ASSUME NEW j \in 1..Len(z) PROVE s[j] = z[j]
    <3>1. l + j - 1 = Len(n) + j
      BY <1>8, <1>10
    <3> QED  BY <1>6, <2>3, <2>4, <3>1
  <2>6. s \in Seq(Char) /\ z \in Seq(Char) /\ Len(s) = Len(z)
    BY <1>6, <2>3, <2>4
  <2>7. s = z
    BY ONLY <2>5, <2>6, SeqEqual
  <2> QED  BY <2>1, <2>7
<1>19. z # <<>>
  BY <1>6, <1>8
<1>20. ~ HasGroup(z)
  <2> SUFFICES ASSUME NEW j \in 1..Len(z) PROVE z[j] # "("
    BY DEF HasGroup
  <2>1. CASE j = 1
    BY <1>3, <1>6, <2>1, NameCharFacts
  <2>2. CASE j # 1
    <3>1. PICK q : q = j - 1
      OBVIOUS
    <3>2. q \in 1..Len(x) /\ q + 1 = j
      BY <1>6, <1>8, <2>2, <3>1
    <3>3. z[j] \in NameChars
      BY <1>6, <1>7, <3>2
    <3> QED  BY <3>3, NameCharFacts
  <2> QED  BY <2>1, <2>2
<1>21. VariableOf(b) = n /\ RegexOf(b) = z
  BY <1>15, <1>16, <1>17, <1>18 DEF VariableOf, RegexOf
<1> QED  BY <1>1, <1>7, <1>8, <1>14, <1>19, <1>20, <1>21

-----------------------------------------------------------------------------
(***************************************************************************)
(* Counting one more.                                                      *)
(***************************************************************************)
LEMMA CountedOn ==
  ASSUME NEW n \in Nat, NEW A, A \subseteq 1..n, NEW B, B \subseteq 1..(n + 1),
         \A x \in 1..n : x \in B <=> x \in A
  PROVE  /\ Cardinality(A) \in Nat
         /\ Cardinality(B) = IF n + 1 \in B THEN Cardinality(A) + 1 ELSE Cardinality(A)
<1>1. IsFiniteSet(A) /\ Cardinality(A) \in Nat
  <2>1. 1 \in Int /\ n \in Int
    OBVIOUS
  <2>2. IsFiniteSet(1..n)
    BY <2>1, FS_Interval
  <2>3. IsFiniteSet(A)
    BY <2>2, FS_Subset
  <2> QED  BY <2>3, FS_CardinalityType
<1>2. n + 1 \notin A /\ \A x \in 1..(n + 1) : x \in 1..n \/ x = n + 1
  OBVIOUS
<1>3. CASE n + 1 \in B
  <2>1. B = A \cup {n + 1}
    BY <1>2, <1>3
  <2> QED  BY <1>1, <1>2, <1>3, <2>1, FS_AddElement
<1>4. CASE n + 1 \notin B
  <2>1. B = A
    BY <1>2, <1>4
  <2> QED  BY <1>1, <1>4, <2>1
<1> QED  BY <1>3, <1>4

LEMMA CountOn ==
  ASSUME NEW text, NEW c, NEW n \in Nat
  PROVE  /\ Count(text, c, n) \in Nat
         /\ Count(text, c, n + 1) = IF text[n + 1] = c THEN Count(text, c, n) + 1
                                    ELSE Count(text, c, n)
<1> DEFINE A == {x \in 1..n : text[x] = c}
           B == {x \in 1..(n + 1) : text[x] = c}
<1>1. A \subseteq 1..n /\ B \subseteq 1..(n + 1) /\ \A x \in 1..n : x \in B <=> x \in A
  OBVIOUS
<1>2. n + 1 \in B <=> text[n + 1] = c
  OBVIOUS
<1>3. Count(text, c, n) = Cardinality(A) /\ Count(text, c, n + 1) = Cardinality(B)
  BY DEF Count
<1> HIDE DEF A, B
<1>4. /\ Cardinality(A) \in Nat
      /\ Cardinality(B) = IF n + 1 \in B THEN Cardinality(A) + 1 ELSE Cardinality(A)
  BY <1>1, CountedOn
<1> QED  BY <1>2, <1>3, <1>4

LEMMA CountNone ==
  ASSUME NEW text, NEW c
  PROVE  Count(text, c, 0) = 0
<1>1. {x \in 1..0 : text[x] = c} = {}
  OBVIOUS
<1> QED  BY <1>1, FS_EmptySet DEF Count

LEMMA DepthOn ==
  ASSUME NEW text, NEW n \in Nat
  PROVE  /\ Depth(text, n) \in Int /\ Depth(text, 0) = 0
         /\ Depth(text, n + 1) = IF text[n + 1] = "(" THEN Depth(text, n) + 1
                                 ELSE IF text[n + 1] = ")" THEN Depth(text, n) - 1
                                 ELSE Depth(text, n)
<1>1. PICK o : o = "("
  OBVIOUS
<1>2. PICK c : c = ")"
  OBVIOUS
<1>3. o # c
  BY <1>1, <1>2
<1>4. \A m : Depth(text, m) = Count(text, o, m) - Count(text, c, m)
  BY <1>1, <1>2 DEF Depth
<1>5. /\ Count(text, o, n) \in Nat /\ Count(text, c, n) \in Nat
      /\ Count(text, o, n + 1) = IF text[n + 1] = o THEN Count(text, o, n) + 1
                                 ELSE Count(text, o, n)
      /\ Count(text, c, n + 1) = IF text[n + 1] = c THEN Count(text, c, n) + 1
                                 ELSE Count(text, c, n)
      /\ Count(text, o, 0) = 0 /\ Count(text, c, 0) = 0
  BY CountOn, CountNone
<1>6. /\ Depth(text, n) \in Int /\ Depth(text, 0) = 0
      /\ Depth(text, n + 1) = IF text[n + 1] = o THEN Depth(text, n) + 1
                              ELSE IF text[n + 1] = c THEN Depth(text, n) - 1
                              ELSE Depth(text, n)
  BY <1>3, <1>4, <1>5
<1> QED  BY <1>1, <1>2, <1>6

\* The items that make a group of their own; the loop counts each of them once.
ItemNumber(n) == Cardinality({x \in 1..n : written[x].kind # "literal"})

LEMMA ItemNumberOn ==
  ASSUME NEW n \in Nat
  PROVE  /\ ItemNumber(n) \in Nat /\ ItemNumber(0) = 0
         /\ ItemNumber(n + 1) = IF written[n + 1].kind # "literal" THEN ItemNumber(n) + 1
                                 ELSE ItemNumber(n)
<1> DEFINE A == {x \in 1..n : written[x].kind # "literal"}
           B == {x \in 1..(n + 1) : written[x].kind # "literal"}
<1>1. A \subseteq 1..n /\ B \subseteq 1..(n + 1) /\ \A x \in 1..n : x \in B <=> x \in A
  OBVIOUS
<1>2. n + 1 \in B <=> written[n + 1].kind # "literal"
  OBVIOUS
<1>3. ItemNumber(n) = Cardinality(A) /\ ItemNumber(n + 1) = Cardinality(B)
  BY DEF ItemNumber
<1>4. ItemNumber(0) = 0
  <2>1. {x \in 1..0 : written[x].kind # "literal"} = {}
    OBVIOUS
  <2> QED  BY <2>1, FS_EmptySet DEF ItemNumber
<1> HIDE DEF A, B
<1>5. /\ Cardinality(A) \in Nat
      /\ Cardinality(B) = IF n + 1 \in B THEN Cardinality(A) + 1 ELSE Cardinality(A)
  BY <1>1, CountedOn
<1> QED  BY <1>2, <1>3, <1>4, <1>5

-----------------------------------------------------------------------------
(***************************************************************************)
(* How far the items have come: k of them are done and j characters of the *)
(* next are passed.                                                        *)
(***************************************************************************)
First(x) == \A m \in Named : written[m].name = written[x].name => x <= m

Numbered(k) ==
    /\ matchCount = ItemNumber(k)
    /\ (\A x \in 1..k : written[x].kind # "typed") => variable = <<>>
    /\ DOMAIN matches = {written[x].name : x \in {n \in Named : n <= k}}
    /\ \A x \in Named : x <= k /\ First(x) => matches[written[x].name] = ItemNumber(x)

Between(r, k) ==
    /\ bracketCount = 0 /\ parenCount = 0
    /\ route_str = r[k] /\ prevCh # "\\"

Copying(r, k, j) ==
    /\ bracketCount = 0 /\ prevCh = TextOf(written[k + 1])[j]
    /\ \E e : Spelled(e, k + 1) /\ route_str = r[k] \o e[j]

Reading(at, r, k) ==
    /\ bracketCount = 1 /\ parenCount = 0 /\ marker = at[k] + 1
    /\ route_str = r[k] /\ prevCh # "\\"

InItem(at, r, k, j) ==
    LET item == written[k + 1]
    IN  /\ item.kind = "literal" => Copying(r, k, j) /\ parenCount = 0
        /\ item.kind = "group" =>
             Copying(r, k, j) /\ parenCount = 1 + Depth(item.text, j - 1)
        /\ item.kind \in {"param", "typed"} => Reading(at, r, k)

ItemPart(at, r, k, j) ==
    /\ k \in 0..Len(written) /\ j \in Nat /\ cursor = at[k] + j
    /\ Numbered(k)
    /\ j = 0 => Between(r, k)
    /\ j > 0 => /\ k < Len(written) /\ j < Len(TextOf(written[k + 1]))
                /\ InItem(at, r, k, j)

WellMade ==
    /\ written # <<>> /\ TypedLast
    /\ \A k \in 1..Len(written) : WellWritten(written[k])

AsInv ==
    /\ written \in Seq(Items)
    /\ WellMade => \E at, r, k, j : Placed(at) /\ Routed(r) /\ ItemPart(at, r, k, j)

\* The items stay.
LEMMA ItemsStay ==
  ASSUME written' = written
  PROVE  /\ Named' = Named /\ (TypedLast' <=> TypedLast)
         /\ \A n : ItemNumber(n)' = ItemNumber(n)
         /\ \A x : First(x)' <=> First(x)
<1>1. Named' = Named
  BY DEF Named
<1>2. TypedLast' <=> TypedLast
  BY <1>1 DEF TypedLast
<1>3. \A n : ItemNumber(n)' = ItemNumber(n)
  BY DEF ItemNumber
<1>4. \A x : First(x)' <=> First(x)
  BY <1>1 DEF First
<1> QED  BY <1>1, <1>2, <1>3, <1>4

LEMMA WellMadeStays ==
  ASSUME written' = written
  PROVE  WellMade' <=> WellMade
<1>1. TypedLast' <=> TypedLast
  BY ItemsStay
<1>2. \A k : WellWritten(written[k])' <=> WellWritten(written[k])
  BY DEF WellWritten, Escapes, IsName, Depth, Count
<1> QED  BY <1>1, <1>2 DEF WellMade

LEMMA RegexStays ==
  ASSUME written' = written
  PROVE  \A n : RegexOfItem(n)' = RegexOfItem(n)
<1>1. \A n, j : Escaped(n, j)' = Escaped(n, j)
  BY ItemsStay DEF Escaped
<1>2. ASSUME NEW n PROVE EscapedText(n)' = EscapedText(n)
  <2> DEFINE items == [q \in 1..Len(written[n].text) |-> q]
             F(f) == [m \in 0..Len(items) |->
                        IF m = 0 THEN <<>> ELSE f[m - 1] \o Escaped(n, items[m])]
  <2>1. EscapedText(n) = (CHOOSE f : f = F(f))[Len(items)]
    BY DEF EscapedText, Joined
  <2>2. EscapedText(n)' = (CHOOSE f : f = F(f))'[Len(items)']
    BY DEF EscapedText, Joined
  <2>3. items' = items
    OBVIOUS
  <2>4. \A f : F(f)' = F(f)
    BY <1>1
  <2> HIDE DEF F, items
  <2>5. (CHOOSE f : f = F(f))' = (CHOOSE f : f = F(f))
    BY <2>4
  <2> QED  BY <2>1, <2>2, <2>3, <2>5
<1> QED  BY <1>2 DEF RegexOfItem

LEMMA PartsStay ==
  ASSUME written' = written, pat' = pat
  PROVE  /\ \A at : Placed(at) => Placed(at)'
         /\ \A r : Routed(r) => Routed(r)'
         /\ \A e, n : Spelled(e, n) => Spelled(e, n)'
<1>1. \A at : Placed(at) => Placed(at)'
  BY DEF Placed, PlacedAt
<1>2. \A r : Routed(r) => Routed(r)'
  <2> DEFINE items == [q \in 1..Len(written) |-> q]
             F(f) == [m \in 0..Len(items) |->
                        IF m = 0 THEN <<>> ELSE f[m - 1] \o RegexOfItem(items[m])]
             all == (CHOOSE f : f = F(f))[Len(items)]
             v == [k \in 1..Len(written) |-> RegexOfItem(k)]
  <2>1. \A r : Routed(r) <=> Chain(r, RegexChars, v, Len(written)) /\ r[Len(written)] = all
    BY DEF Routed, Joined
  <2>2. \A r : Routed(r)' <=> Chain(r, RegexChars, v', Len(written')) /\ r[Len(written')] = all'
    BY DEF Routed, Joined
  <2>3. items' = items
    OBVIOUS
  <2>4. (\A f : F(f)' = F(f)) /\ v' = v
    BY RegexStays
  <2> HIDE DEF F, items, v
  <2>5. (CHOOSE f : f = F(f))' = (CHOOSE f : f = F(f))
    BY <2>4
  <2>6. all' = all
    BY <2>3, <2>5
  <2> HIDE DEF all
  <2> QED  BY <2>1, <2>2, <2>4, <2>6
<1>3. \A e, n : Spelled(e, n) => Spelled(e, n)'
  <2>1. \A n, j : Escaped(n, j)' = Escaped(n, j)
    BY ItemsStay DEF Escaped
  <2>2. \A n, j : Piece(n, j)' = Piece(n, j)
    BY <2>1 DEF Piece
  <2>3. \A n : Pieces(n)' = Pieces(n)
    BY <2>2 DEF Pieces
  <2> QED  BY <2>3, RegexStays DEF Spelled, Chain
<1> QED  BY <1>1, <1>2, <1>3

\* Other rounds than those that close a parameter leave the numbers alone.
LEMMA NumberedOn ==
  ASSUME NEW k \in Nat, Numbered(k), written' = written, variable' = variable,
         matches' = matches, written[k + 1].kind \notin {"param", "typed"},
         matchCount' = ItemNumber(k + 1)
  PROVE  Numbered(k + 1)'
<1>1. \A n : ItemNumber(n)' = ItemNumber(n)
  BY ItemsStay
<1>2. Named' = Named /\ \A x : First(x)' <=> First(x)
  BY ItemsStay
<1>3. {n \in Named : n <= k + 1} = {n \in Named : n <= k}
  <2>1. \A n \in Named : n \in Int /\ n # k + 1
    BY DEF Named
  <2>2. \A n \in Int : n # k + 1 => (n <= k + 1 <=> n <= k)
    OBVIOUS
  <2> QED  BY <2>1, <2>2
<1>4. \A x \in Named : x <= k + 1 => x <= k
  BY <1>3
<1>5. (\A x \in 1..(k + 1) : written[x].kind # "typed") => variable = <<>>
  <2>1. \A x \in 1..k : x \in 1..(k + 1)
    OBVIOUS
  <2> QED  BY <2>1 DEF Numbered
<1>6. DOMAIN matches = {written[x].name : x \in {n \in Named : n <= k + 1}}
  BY <1>3 DEF Numbered
<1>7. \A x \in Named : x <= k + 1 /\ First(x) => matches[written[x].name] = ItemNumber(x)
  BY <1>4 DEF Numbered
<1> QED  BY <1>1, <1>2, <1>5, <1>6, <1>7 DEF Numbered

LEMMA NumberedSame ==
  ASSUME NEW k \in Nat, Numbered(k), written' = written, variable' = variable,
         matches' = matches, matchCount' = matchCount
  PROVE  Numbered(k)'
BY ItemsStay DEF Numbered

\* The bracket that closes a parameter.
LEMMA NumberedParameter ==
  ASSUME NEW k \in Nat, Numbered(k), written' = written, k + 1 \in Named,
         matchCount' = ItemNumber(k + 1),
         matches' = AddMatch(written[k + 1].name, ItemNumber(k + 1)),
         (\A x \in 1..(k + 1) : written[x].kind # "typed") => variable' = <<>>
  PROVE  Numbered(k + 1)'
<1>1. \A n : ItemNumber(n)' = ItemNumber(n)
  BY ItemsStay
<1>2. Named' = Named /\ \A x : First(x)' <=> First(x)
  BY ItemsStay
<1>3. PICK name : name = written[k + 1].name
  OBVIOUS
<1>4. PICK number : number = ItemNumber(k + 1)
  OBVIOUS
<1>5. /\ DOMAIN matches' = DOMAIN matches \cup {name}
      /\ \A n \in DOMAIN matches : matches'[n] = matches[n]
      /\ name \notin DOMAIN matches => matches'[name] = number
  <2>1. CASE name \in DOMAIN matches
    BY <1>3, <2>1 DEF AddMatch
  <2>2. CASE name \notin DOMAIN matches
    <3>1. matches' = [n \in DOMAIN matches \cup {name} |->
                        IF n = name THEN number ELSE matches[n]]
      BY <1>3, <1>4, <2>2 DEF AddMatch
    <3> QED  BY <2>2, <3>1
  <2> QED  BY <2>1, <2>2
<1>6. {n \in Named : n <= k + 1} = {n \in Named : n <= k} \cup {k + 1}
  <2>1. \A n \in Named : n \in Int
    BY DEF Named
  <2>2. \A n \in Int : n <= k + 1 <=> n <= k \/ n = k + 1
    OBVIOUS
  <2> QED  BY <2>1, <2>2
<1>7. DOMAIN matches' = {written[x].name : x \in {n \in Named : n <= k + 1}}
  <2>1. DOMAIN matches = {written[x].name : x \in {n \in Named : n <= k}}
    BY DEF Numbered
  <2> QED  BY <1>3, <1>5, <1>6, <2>1
<1>8. ASSUME NEW x \in Named, x <= k + 1, First(x)
      PROVE  matches'[written[x].name] = ItemNumber(x)
  <2>1. x \in {n \in Named : n <= k} \/ x = k + 1
    BY <1>6, <1>8
  <2>2. CASE x \in {n \in Named : n <= k}
    <3>1. written[x].name \in DOMAIN matches
      BY <2>2 DEF Numbered
    <3>2. matches[written[x].name] = ItemNumber(x)
      BY <1>8, <2>2 DEF Numbered
    <3> QED  BY <1>5, <3>1, <3>2
  <2>3. CASE x = k + 1
    <3>1. name \notin DOMAIN matches
      <4> SUFFICES ASSUME name \in DOMAIN matches PROVE FALSE
        OBVIOUS
      <4>1. PICK n \in {m \in Named : m <= k} : written[n].name = name
        BY DEF Numbered
      <4>2. x <= n
        BY <1>3, <1>8, <2>3, <4>1 DEF First
      <4>3. n \in Int
        BY <4>1 DEF Named
      <4> QED  BY <2>3, <4>1, <4>2, <4>3
    <3> QED  BY <1>3, <1>4, <1>5, <2>3, <3>1
  <2> QED  BY <2>1, <2>2, <2>3
<1> QED  BY <1>1, <1>2, <1>7, <1>8 DEF Numbered

-----------------------------------------------------------------------------
(***************************************************************************)
(* One character of an item.                                               *)
(***************************************************************************)
At(at, r, k, j) ==
    /\ written \in Seq(Items) /\ Placed(at) /\ Routed(r)
    /\ k \in Nat /\ k < Len(written)
    /\ j \in Nat /\ j < Len(TextOf(written[k + 1]))
    /\ cursor = at[k] + j

LEMMA CharOfItem ==
  ASSUME NEW at, NEW r, NEW k, NEW j, At(at, r, k, j)
  PROVE  /\ cursor < Len(pat) /\ cursor \in Nat /\ at[k] \in Nat /\ Len(written) \in Nat
         /\ k + 1 \in 1..Len(written) /\ written[k + 1] \in Items
         /\ TextOf(written[k + 1]) \in Seq(Char) /\ Len(TextOf(written[k + 1])) \in Nat
         /\ ch = TextOf(written[k + 1])[j + 1]
         /\ at[k + 1] = at[k] + Len(TextOf(written[k + 1]))
         /\ \A m \in 1..Len(TextOf(written[k + 1])) : pat[at[k] + m] = TextOf(written[k + 1])[m]
<1>1. /\ k + 1 \in 1..Len(written) /\ k \in 0..Len(written) /\ k + 1 \in 0..Len(written)
      /\ (k + 1) - 1 = k /\ Len(written) \in Nat
  BY DEF At
<1>2. written[k + 1] \in Items
  BY <1>1 DEF At
<1>3. PICK t : t = TextOf(written[k + 1])
  OBVIOUS
<1>4. t \in Seq(Char) /\ Len(t) \in Nat
  BY <1>2, <1>3, TextIsText
<1>5. at[k] \in Nat /\ at[k + 1] \in Nat
  BY <1>1 DEF At, Placed
<1>6. PlacedAt(at, k + 1)
  BY <1>1 DEF At, Placed
<1>7. /\ at[k + 1] = at[k] + Len(t) /\ at[k + 1] <= Len(pat)
      /\ \A m \in 1..Len(t) : pat[at[k] + m] = t[m]
  BY <1>1, <1>3, <1>6 DEF PlacedAt
<1>8. j \in Nat /\ j < Len(t) /\ cursor = at[k] + j
  BY <1>3 DEF At
<1>9. j + 1 \in 1..Len(t) /\ cursor + 1 = at[k] + (j + 1) /\ cursor \in Nat
  BY ONLY <1>4, <1>5, <1>8
<1>10. cursor < Len(pat)
  <2>1. Len(pat) \in Int
    <3>1. Len(pat) = at[Len(written)] /\ Len(written) \in 0..Len(written)
      BY <1>1 DEF At, Placed
    <3> QED  BY <3>1 DEF At, Placed
  <2> QED  BY ONLY <1>4, <1>5, <1>7, <1>8, <2>1
<1>11. ch = t[j + 1]
  BY <1>7, <1>9 DEF ch
<1> QED  BY <1>1, <1>2, <1>3, <1>4, <1>5, <1>7, <1>9, <1>10, <1>11

\* A piece more, and behind the last one all of the item's expression.
Grows(r, k, j, e) ==
    /\ (r[k] \o e[j]) \o Piece(k + 1, j + 1) = r[k] \o e[j + 1]
    /\ j + 1 = Len(TextOf(written[k + 1])) => r[k] \o e[j + 1] = r[k + 1]

LEMMA GrownOn ==
  ASSUME NEW at, NEW r, NEW k, NEW j, At(at, r, k, j), NEW e, Spelled(e, k + 1)
  PROVE  Grows(r, k, j, e)
<1>1. PICK n : n = Len(TextOf(written[k + 1]))
  OBVIOUS
<1>2. n \in Nat /\ j \in Nat /\ j < n /\ k \in Nat /\ k < Len(written) /\ Len(written) \in Nat
      /\ k + 1 \in 1..Len(written)
  BY <1>1, CharOfItem DEF At
<1>3. j + 1 \in 1..n /\ j \in 0..n /\ j + 1 \in 0..n /\ (j + 1) - 1 = j
      /\ k \in 0..Len(written) /\ (k + 1) - 1 = k /\ k + 1 \in 0..Len(written)
  BY <1>2
<1>4. PICK a : a = r[k]
  OBVIOUS
<1>5. PICK b : b = e[j]
  OBVIOUS
<1>6. PICK d : d = Piece(k + 1, j + 1)
  OBVIOUS
<1>7. Pieces(k + 1)[j + 1] = d
  BY <1>1, <1>3, <1>6 DEF Pieces
<1>8. Chain(e, RegexChars, Pieces(k + 1), n)
  BY <1>1 DEF Spelled
<1>9. e[j + 1] = b \o d /\ b \in Seq(RegexChars)
  BY <1>3, <1>5, <1>7, <1>8 DEF Chain
<1>10. d \in Seq(RegexChars)
  BY <1>1, <1>3, <1>6, CharOfItem, PieceIsRegex
<1>11. PICK v : v = [m \in 1..Len(written) |-> RegexOfItem(m)]
  OBVIOUS
<1>12. Chain(r, RegexChars, v, Len(written))
  BY <1>11 DEF At, Routed
<1>13. a \in Seq(RegexChars) /\ r[k + 1] = a \o v[k + 1]
  BY <1>2, <1>3, <1>4, <1>12 DEF Chain
<1>14. (a \o b) \o d = a \o (b \o d)
  <2>1. Associate(a, b, d)
    BY <1>9, <1>10, <1>13, PutInOrder
  <2> QED  BY <2>1 DEF Associate
<1>15. (r[k] \o e[j]) \o Piece(k + 1, j + 1) = a \o e[j + 1]
  BY <1>4, <1>5, <1>6, <1>9, <1>14
<1>16. v[k + 1] = e[n]
  <2>1. v[k + 1] = RegexOfItem(k + 1)
    BY <1>2, <1>11
  <2> QED  BY <1>1, <2>1 DEF Spelled
<1> QED  BY <1>1, <1>4, <1>13, <1>15, <1>16 DEF Grows

LEMMA CopyStep ==
  ASSUME NEW at, NEW r, NEW k, NEW j, At(at, r, k, j), written[k + 1].kind \in {"literal", "group"},
         j = 0 => Between(r, k), j > 0 => Copying(r, k, j),
         written' = written, pat' = pat, bracketCount' = 0, prevCh' = ch,
         route_str' = route_str \o Piece(k + 1, j + 1)
  PROVE  /\ Copying(r, k, j + 1)'
         /\ j + 1 = Len(TextOf(written[k + 1])) => route_str' = r[k + 1]
<1>1. \E e : Spelled(e, k + 1) /\ route_str = r[k] \o e[j]
  <2>1. CASE j = 0
    <3>1. PICK e : Spelled(e, k + 1)
      BY CharOfItem, SpelledExists
    <3>2. e[0] = <<>>
      BY <3>1 DEF Spelled, Chain
    <3>3. route_str = r[k]
      BY <2>1 DEF Between
    <3>4. r[k] \in Seq(RegexChars)
      <4>1. k \in 0..Len(written)
        BY CharOfItem DEF At
      <4> QED  BY <4>1 DEF At, Routed, Chain
    <3>5. PICK a : a = r[k]
      OBVIOUS
    <3>6. a \o <<>> = a
      BY <3>4, <3>5
    <3> QED  BY <2>1, <3>1, <3>2, <3>3, <3>5, <3>6
  <2>2. CASE j # 0
    <3>1. j > 0
      BY <2>2 DEF At
    <3> QED  BY <3>1 DEF Copying
  <2> QED  BY <2>1, <2>2
<1>2. PICK e : Spelled(e, k + 1) /\ route_str = r[k] \o e[j]
  BY <1>1
<1>3. /\ route_str' = r[k] \o e[j + 1]
      /\ j + 1 = Len(TextOf(written[k + 1])) => route_str' = r[k + 1]
  <2>1. Grows(r, k, j, e)
    BY <1>2, GrownOn
  <2> QED  BY <1>2, <2>1 DEF Grows
<1>4. Spelled(e, k + 1)'
  BY <1>2, PartsStay
<1>5. prevCh' = TextOf(written[k + 1])[j + 1]
  BY CharOfItem
<1> QED  BY <1>3, <1>4, <1>5 DEF Copying

\* A character in an item, or its last one.
LEMMA PartOn ==
  ASSUME NEW at, NEW r, NEW k, NEW j, At(at, r, k, j),
         cursor' = cursor + 1, written' = written
  PROVE  /\ j + 1 < Len(TextOf(written[k + 1])) /\ Numbered(k)' /\ InItem(at, r, k, j + 1)'
              => ItemPart(at, r, k, j + 1)'
         /\ j + 1 = Len(TextOf(written[k + 1])) /\ Numbered(k + 1)' /\ Between(r, k + 1)'
              => ItemPart(at, r, k + 1, 0)'
<1>1. /\ k + 1 \in 0..Len(written) /\ k \in 0..Len(written) /\ at[k] \in Nat /\ j \in Nat
      /\ k < Len(written) /\ cursor = at[k] + j
      /\ at[k + 1] = at[k] + Len(TextOf(written[k + 1]))
  <2>1. /\ k + 1 \in 1..Len(written) /\ at[k] \in Nat /\ Len(written) \in Nat
        /\ at[k + 1] = at[k] + Len(TextOf(written[k + 1]))
    BY CharOfItem
  <2> QED  BY <2>1 DEF At
<1>2. cursor' = at[k] + (j + 1) /\ j + 1 \in Nat /\ ~ (j + 1 = 0)
  BY <1>1
<1>3. j + 1 = Len(TextOf(written[k + 1])) => cursor' = at[k + 1] + 0
  BY <1>1, <1>2
<1>4. TextOf(written[k + 1])' = TextOf(written[k + 1])
  OBVIOUS
<1> QED  BY <1>1, <1>2, <1>3, <1>4 DEF ItemPart

LEMMA LiteralStep ==
  ASSUME NEW at, NEW r, NEW k, NEW j, At(at, r, k, j), ItemPart(at, r, k, j),
         written[k + 1].kind = "literal", WellWritten(written[k + 1]), Next
  PROVE  ItemPart(at, r, k, j + 1)' \/ ItemPart(at, r, k + 1, 0)'
<1>1. PICK t : t = TextOf(written[k + 1])
  OBVIOUS
<1>2. t = written[k + 1].text /\ Len(t) \in Nat /\ j \in Nat /\ j < Len(t) /\ k \in Nat
      /\ ch = t[j + 1]
  <2>1. t \in Seq(Char) /\ Len(t) \in Nat /\ ch = t[j + 1]
    BY <1>1, CharOfItem
  <2>2. t = written[k + 1].text
    BY <1>1 DEF TextOf
  <2> QED  BY <1>1, <2>1, <2>2 DEF At
<1>3. /\ j + 1 \in 1..Len(t) /\ (j + 1) - 1 = j /\ (j + 1 > 1 <=> j # 0)
      /\ j # 0 => j > 0
  BY <1>2
<1>4. ~ IsBracket(ch) /\ ch \notin {"(", ")"}
  BY <1>2, <1>3, Zenon DEF WellWritten, IsBracket
<1>5. bracketCount = 0 /\ parenCount = 0
      /\ IF j = 0 THEN prevCh # "\\" ELSE prevCh = t[j]
  BY <1>1, <1>3 DEF ItemPart, Between, InItem, Copying
<1>6. Parens(0) = 0
  BY <1>4, <1>5 DEF Parens
<1>7. /\ cursor' = cursor + 1 /\ bracketCount' = 0 /\ parenCount' = 0
      /\ matchCount' = matchCount
      /\ route_str' = route_str \o Copied(0) /\ prevCh' = ch
      /\ variable' = variable /\ regex_str' = regex_str /\ matches' = matches
      /\ written' = written /\ pat' = pat
  BY <1>4, <1>5, <1>6, OutsideStep
<1>8. Copied(0) = Piece(k + 1, j + 1)
  BY <1>2, <1>3, <1>5 DEF Copied, Piece, Escaped
<1>9. /\ Copying(r, k, j + 1)'
      /\ j + 1 = Len(t) => route_str' = r[k + 1]
  <2>1. /\ At(at, r, k, j) /\ written[k + 1].kind \in {"literal", "group"}
        /\ j = 0 => Between(r, k)
        /\ j > 0 => Copying(r, k, j)
    BY DEF ItemPart, InItem
  <2>2. /\ written' = written /\ pat' = pat /\ bracketCount' = 0 /\ prevCh' = ch
        /\ route_str' = route_str \o Piece(k + 1, j + 1)
    BY <1>7, <1>8
  <2> QED  BY <1>1, <2>1, <2>2, CopyStep
<1>10. Numbered(k)
  BY DEF ItemPart
<1>11. CASE j + 1 < Len(t)
  <2>1. Numbered(k)'
    BY <1>2, <1>7, <1>10, NumberedSame
  <2>2. InItem(at, r, k, j + 1)'
    BY <1>7, <1>9 DEF InItem
  <2> QED  BY <1>1, <1>7, <1>11, <2>1, <2>2, PartOn
<1>12. CASE j + 1 = Len(t)
  <2>1. matchCount' = ItemNumber(k + 1)
    BY <1>2, <1>7, <1>10, ItemNumberOn DEF Numbered
  <2>2. Numbered(k + 1)'
    BY <1>2, <1>7, <1>10, <2>1, NumberedOn
  <2>3. ch # "\\"
    <3>1. j + 1 \in 1..Len(t) /\ ~ (j + 1 < Len(t))
      BY <1>2, <1>12
    <3> QED  BY <1>2, <3>1 DEF WellWritten, Escapes
  <2>4. Between(r, k + 1)'
    BY <1>7, <1>9, <1>12, <2>3 DEF Between
  <2> QED  BY <1>1, <1>7, <1>12, <2>2, <2>4, PartOn
<1> QED  BY <1>2, <1>11, <1>12

LEMMA GroupText ==
  ASSUME NEW item \in Items, item.kind = "group", NEW t, t = TextOf(item)
  PROVE  /\ Len(item.text) \in Nat /\ Len(t) = Len(item.text) + 2
         /\ t[1] = "(" /\ t[Len(item.text) + 2] = ")"
         /\ \A m \in 1..Len(item.text) : t[m + 1] = item.text[m]
<1>1. PICK o : o = "("
  OBVIOUS
<1>2. PICK c : c = ")"
  OBVIOUS
<1>3. PICK b : b = item.text
  OBVIOUS
<1>4. o \in Char /\ c \in Char /\ b \in Seq(Char) /\ t = <<o>> \o b \o <<c>>
  BY <1>1, <1>2, <1>3, PatternsAssumption DEF Items, TextOf
<1>5. /\ Len(t) = Len(b) + 2 /\ t[1] = o /\ t[Len(b) + 2] = c
      /\ \A j \in 1..Len(b) : t[j + 1] = b[j]
  BY ONLY <1>4, Wrapped
<1>6. Len(b) \in Nat
  BY <1>4
<1> QED  BY <1>1, <1>2, <1>3, <1>5, <1>6

LEMMA GroupStep ==
  ASSUME NEW at, NEW r, NEW k, NEW j, At(at, r, k, j), ItemPart(at, r, k, j),
         written[k + 1].kind = "group", WellWritten(written[k + 1]), Next
  PROVE  ItemPart(at, r, k, j + 1)' \/ ItemPart(at, r, k + 1, 0)'
<1>1. PICK t : t = TextOf(written[k + 1])
  OBVIOUS
<1>2. PICK x : x = written[k + 1].text
  OBVIOUS
<1>3. /\ Len(x) \in Nat /\ Len(t) = Len(x) + 2
      /\ t[1] = "(" /\ t[Len(x) + 2] = ")"
      /\ \A m \in 1..Len(x) : t[m + 1] = x[m]
  <2>1. written[k + 1] \in Items
    BY CharOfItem
  <2> QED  BY <1>1, <1>2, <2>1, GroupText
<1>4. /\ j \in Nat /\ j < Len(t) /\ k \in Nat /\ ch = t[j + 1]
  <2>1. ch = t[j + 1]
    BY <1>1, CharOfItem
  <2> QED  BY <1>1, <2>1 DEF At
<1>5. /\ j = 0 \/ j \in 1..Len(x) \/ j = Len(x) + 1
      /\ j # 0 => j > 0 /\ j - 1 \in 0..Len(x) /\ j - 1 \in Nat /\ (j - 1) + 1 = j
      /\ j \in 1..Len(x) => j \in 0..Len(x)
      /\ 0 \in 0..Len(x) /\ Len(x) \in 0..Len(x) /\ (j + 1) - 1 = j
  BY ONLY <1>3, <1>4
<1>6. /\ \A n \in 0..Len(x) : Depth(x, n) >= 0
      /\ Depth(x, Len(x)) = 0 /\ Depth(x, 0) = 0
      /\ \A n \in Nat : Depth(x, n) \in Int
  BY <1>2, <1>3, DepthOn DEF WellWritten
<1>7. /\ bracketCount = 0
      /\ parenCount = IF j = 0 THEN 0 ELSE 1 + Depth(x, j - 1)
  BY <1>2, <1>5 DEF ItemPart, Between, InItem, Copying
<1>8. "(" # ")" /\ ~ IsBracket("(") /\ "(" \notin Special /\ ")" \notin Special
  BY DEF IsBracket, Special
<1>9. /\ ~ (parenCount = 0 /\ IsBracket(ch))
      /\ Parens(0) = IF j = Len(x) + 1 THEN 0 ELSE 1 + Depth(x, j)
      /\ j # Len(x) + 1 => Parens(0) > 0
      /\ ch = ")" /\ Parens(0) = 0 <=> j = Len(x) + 1
      /\ Parens(0) = 0 => ch \notin Special
  <2>1. CASE j = 0
    <3>1. ch = "(" /\ parenCount = 0 /\ j # Len(x) + 1
      BY <1>3, <1>4, <1>7, <2>1
    <3>2. Parens(0) = 1
      BY <3>1 DEF Parens
    <3> QED  BY <1>6, <1>8, <2>1, <3>1, <3>2
  <2>2. CASE j \in 1..Len(x)
    <3>1. ch = x[j] /\ j # Len(x) + 1 /\ j # 0
      BY <1>3, <1>4, <2>2
    <3>2. parenCount = 1 + Depth(x, j - 1) /\ Depth(x, j - 1) >= 0 /\ Depth(x, j - 1) \in Int
          /\ Depth(x, j) >= 0 /\ Depth(x, j) \in Int
      BY <1>3, <1>5, <1>6, <1>7, <2>2, <3>1
    <3>3. Depth(x, j) = IF x[j] = "(" THEN Depth(x, j - 1) + 1
                        ELSE IF x[j] = ")" THEN Depth(x, j - 1) - 1 ELSE Depth(x, j - 1)
      <4>1. PICK m : m = j - 1 /\ m \in Nat /\ m + 1 = j
        BY <1>5, <3>1
      <4>2. Depth(x, m + 1) = IF x[m + 1] = "(" THEN Depth(x, m) + 1
                              ELSE IF x[m + 1] = ")" THEN Depth(x, m) - 1 ELSE Depth(x, m)
        BY <4>1, DepthOn
      <4> QED  BY <4>1, <4>2
    <3>4. Parens(0) = 1 + Depth(x, j)
      BY <3>1, <3>2, <3>3 DEF Parens
    <3> QED  BY <3>1, <3>2, <3>4
  <2>3. CASE j = Len(x) + 1
    <3>1. ch = ")" /\ j # 0 /\ j - 1 = Len(x)
      BY <1>3, <1>4, <2>3
    <3>2. parenCount = 1
      BY <1>6, <1>7, <3>1
    <3>3. Parens(0) = 0
      BY <1>8, <3>1, <3>2 DEF Parens
    <3> QED  BY <1>8, <2>3, <3>1, <3>2, <3>3
  <2> QED  BY <1>5, <2>1, <2>2, <2>3
<1>10. /\ cursor' = cursor + 1 /\ bracketCount' = 0 /\ parenCount' = Parens(0)
       /\ matchCount' = IF j = Len(x) + 1 THEN matchCount + 1 ELSE matchCount
       /\ route_str' = route_str \o Copied(Parens(0)) /\ prevCh' = ch
       /\ variable' = variable /\ regex_str' = regex_str /\ matches' = matches
       /\ written' = written /\ pat' = pat
  BY <1>7, <1>9, OutsideStep
<1>11. Copied(Parens(0)) = Piece(k + 1, j + 1)
  BY <1>1, <1>4, <1>9 DEF Copied, Piece
<1>12. /\ Copying(r, k, j + 1)'
       /\ j + 1 = Len(t) => route_str' = r[k + 1]
  <2>1. /\ At(at, r, k, j) /\ written[k + 1].kind \in {"literal", "group"}
        /\ j = 0 => Between(r, k)
        /\ j > 0 => Copying(r, k, j)
    BY DEF ItemPart, InItem
  <2>2. /\ written' = written /\ pat' = pat /\ bracketCount' = 0 /\ prevCh' = ch
        /\ route_str' = route_str \o Piece(k + 1, j + 1)
    BY <1>10, <1>11
  <2> QED  BY <1>1, <2>1, <2>2, CopyStep
<1>13. Numbered(k)
  BY DEF ItemPart
<1>14. CASE j + 1 < Len(t)
  <2>1. j # Len(x) + 1
    BY <1>3, <1>4, <1>14
  <2>2. matchCount' = matchCount /\ parenCount' = 1 + Depth(x, j)
    BY <1>9, <1>10, <2>1
  <2>3. Numbered(k)'
    BY <1>4, <1>10, <1>13, <2>2, NumberedSame
  <2>4. InItem(at, r, k, j + 1)'
    <3>1. Depth(written'[k + 1].text, (j + 1) - 1) = Depth(x, j)
      BY <1>2, <1>5, <1>10
    <3> QED  BY <1>10, <1>12, <2>2, <3>1 DEF InItem, Depth, Count
  <2> QED  BY <1>1, <1>10, <1>14, <2>3, <2>4, PartOn
<1>15. CASE j + 1 = Len(t)
  <2>1. j = Len(x) + 1
    BY <1>3, <1>4, <1>15
  <2>2. parenCount' = 0 /\ matchCount' = matchCount + 1
    BY <1>9, <1>10, <2>1
  <2>3. matchCount' = ItemNumber(k + 1)
    BY <1>4, <1>13, <2>2, ItemNumberOn DEF Numbered
  <2>4. Numbered(k + 1)'
    BY <1>4, <1>10, <1>13, <2>3, NumberedOn
  <2>5. Between(r, k + 1)'
    <3>1. ch # "\\"
      BY <1>9, <2>1
    <3> QED  BY <1>10, <1>12, <1>15, <2>2, <3>1 DEF Between
  <2> QED  BY <1>1, <1>10, <1>15, <2>4, <2>5, PartOn
<1> QED  BY <1>3, <1>4, <1>14, <1>15

\* The next expression is put behind.
LEMMA RoutedOn ==
  ASSUME NEW at, NEW r, NEW k, NEW j, At(at, r, k, j)
  PROVE  r[k + 1] = r[k] \o RegexOfItem(k + 1) /\ r[k] \in Seq(RegexChars)
<1>1. k + 1 \in 1..Len(written) /\ k \in 0..Len(written) /\ (k + 1) - 1 = k
  <2>1. k + 1 \in 1..Len(written) /\ Len(written) \in Nat
    BY CharOfItem
  <2>2. k \in Nat
    BY DEF At
  <2> QED  BY <2>1, <2>2
<1>2. PICK v : v = [m \in 1..Len(written) |-> RegexOfItem(m)]
  OBVIOUS
<1>3. Chain(r, RegexChars, v, Len(written)) /\ v[k + 1] = RegexOfItem(k + 1)
  BY <1>1, <1>2 DEF At, Routed
<1> QED  BY <1>1, <1>3 DEF Chain

ClosesAt(text, k) == text[k] = "}"
Bracketed(b, t) ==
    /\ b \in Seq(Char) /\ Len(b) \in Nat /\ Len(t) = Len(b) + 2
    /\ OpensAt(t, 1) /\ ClosesAt(t, Len(b) + 2)
    /\ \A m \in 1..Len(b) : t[m + 1] = b[m]

LEMMA NamedWrapped ==
  ASSUME NEW item \in Items, item.kind \in {"param", "typed"}
  PROVE  Bracketed(Body(item), TextOf(item))
<1>0. PICK o, c, b, t : o = "{" /\ c = "}" /\ b = Body(item) /\ t = TextOf(item)
  OBVIOUS
<1>1. b \in Seq(Char) /\ t = <<o>> \o b \o <<c>>
  BY <1>0, NamedText, Zenon
<1>2. o \in Char /\ c \in Char
  BY <1>0, PatternsAssumption, Zenon
<1>3. /\ Len(t) = Len(b) + 2 /\ t[1] = o /\ t[Len(b) + 2] = c
      /\ \A m \in 1..Len(b) : t[m + 1] = b[m]
  BY ONLY <1>1, <1>2, Wrapped
<1>4. Len(b) \in Nat
  BY ONLY <1>1
<1>5. OpensAt(t, 1) /\ ClosesAt(t, Len(b) + 2)
  BY <1>0, <1>3, Zenon DEF OpensAt, ClosesAt
<1>6. Bracketed(b, t)
  BY ONLY <1>1, <1>3, <1>4, <1>5 DEF Bracketed
<1> QED  BY <1>0, <1>6, Zenon

LEMMA NameStep ==
  ASSUME NEW at, NEW r, NEW k, NEW j, At(at, r, k, j), ItemPart(at, r, k, j),
         written[k + 1].kind \in {"param", "typed"}, Next,
         NEW b, b = Body(written[k + 1]), j <= Len(b),
         \A m \in 1..Len(b) : ~ IsBracket(b[m])
  PROVE  ItemPart(at, r, k, j + 1)'
<1>1. PICK t : t = TextOf(written[k + 1])
  OBVIOUS
<1>2. Bracketed(b, t)
  BY <1>1, CharOfItem, NamedWrapped
<1>3. /\ Len(b) \in Nat /\ Len(t) = Len(b) + 2 /\ OpensAt(t, 1)
      /\ \A m \in 1..Len(b) : t[m + 1] = b[m]
  BY <1>2 DEF Bracketed
<1>4. j \in Nat /\ k \in Nat /\ cursor = at[k] + j /\ ch = t[j + 1] /\ at[k] \in Nat
  <2>1. ch = t[j + 1] /\ at[k] \in Nat
    BY <1>1, CharOfItem
  <2> QED  BY <2>1 DEF At
<1>5. Numbered(k)
  BY DEF ItemPart
<1>6. Quiet /\ bracketCount' = 1 /\ marker' = at[k] + 1 /\ parenCount = 0
      /\ route_str = r[k] /\ prevCh # "\\"
  <2>1. CASE j = 0
    <3>1. bracketCount = 0 /\ parenCount = 0 /\ route_str = r[k] /\ prevCh # "\\"
      BY <2>1 DEF ItemPart, Between
    <3>2. ch = t[1]
      BY <1>4, <2>1
    <3>3. ch = "{"
      BY <1>3, <3>2, Zenon DEF OpensAt
    <3>4. Quiet /\ bracketCount' = 1 /\ marker' = cursor + 1
      BY <3>1, <3>3, OpenStep, Zenon
    <3> QED  BY <1>4, <2>1, <3>1, <3>4
  <2>2. CASE j # 0
    <3>1. j > 0 /\ j \in 1..Len(b)
      BY <1>3, <1>4, <2>2
    <3>2. /\ bracketCount = 1 /\ parenCount = 0 /\ marker = at[k] + 1
          /\ route_str = r[k] /\ prevCh # "\\"
      BY <3>1 DEF ItemPart, InItem, Reading
    <3>3. ~ IsBracket(ch)
      BY <1>3, <1>4, <3>1
    <3>4. Quiet /\ bracketCount' = 1 /\ marker' = marker
      BY <3>2, <3>3, InsideStep
    <3> QED  BY <3>2, <3>4
  <2> QED  BY <2>1, <2>2
<1>7. InItem(at, r, k, j + 1)'
  <2>1. Reading(at, r, k)'
    BY <1>6 DEF Reading, Quiet
  <2> QED  BY <1>6, <2>1 DEF InItem, Quiet
<1>8. Numbered(k)'
  BY <1>4, <1>5, <1>6, NumberedSame DEF Quiet
<1>9. j + 1 < Len(TextOf(written[k + 1]))
  BY <1>1, <1>3, <1>4
<1>10. cursor' = cursor + 1 /\ written' = written
  BY <1>6 DEF Quiet
<1> QED  BY <1>7, <1>8, <1>9, <1>10, PartOn

\* What is cut out of the pattern is what is between the brackets.
LEMMA ItemIsBody ==
  ASSUME NEW at, NEW r, NEW k, NEW j, At(at, r, k, j), pat \in Seq(Char),
         written[k + 1].kind \in {"param", "typed"},
         NEW b, b = Body(written[k + 1]), j = Len(b) + 1, marker = at[k] + 1
  PROVE  Item = b
<1>1. PICK t : t = TextOf(written[k + 1])
  OBVIOUS
<1>2. Bracketed(b, t)
  BY <1>1, CharOfItem, NamedWrapped
<1>3. /\ b \in Seq(Char) /\ Len(b) \in Nat /\ Len(t) = Len(b) + 2
      /\ \A m \in 1..Len(b) : t[m + 1] = b[m]
  BY <1>2 DEF Bracketed
<1>4. PICK p : p = at[k]
  OBVIOUS
<1>5. /\ p \in Nat /\ cursor < Len(pat) /\ \A m \in 1..Len(t) : pat[p + m] = t[m]
      /\ cursor = p + Len(b) + 1 /\ marker = p + 1
  <2>1. at[k] \in Nat /\ cursor < Len(pat) /\ \A m \in 1..Len(t) : pat[at[k] + m] = t[m]
    BY <1>1, CharOfItem
  <2>2. cursor = at[k] + j
    BY DEF At
  <2> QED  BY <1>3, <1>4, <2>1, <2>2
<1>6. PICK s : s = SubSeq(pat, p + 2, p + Len(b) + 1)
  OBVIOUS
<1>7. Item = s
  <2>1. marker + 1 = p + 2
    BY <1>5
  <2> QED  BY <1>5, <1>6, <2>1 DEF Item
<1>8. \A m \in (p + 2)..(p + Len(b) + 1) : pat[m] \in Char
  <2>1. Len(pat) \in Nat
    OBVIOUS
  <2>2. \A m \in (p + 2)..(p + Len(b) + 1) : m \in 1..Len(pat)
    BY <1>3, <1>5, <2>1
  <2> QED  BY <2>2
<1>9. /\ s \in Seq(Char) /\ Len(s) = Len(b)
      /\ \A m \in 1..Len(b) : s[m] = pat[(p + 2) + m - 1]
  <2>1. PICK u, v : u = p + 2 /\ v = p + Len(b) + 1
    OBVIOUS
  <2>2. u \in Int /\ v \in Int /\ v - u + 1 = Len(b) /\ (u <= v <=> Len(b) # 0)
    <3>1. PICK l : l = Len(b) /\ l \in Nat
      BY <1>3
    <3>2. p \in Nat /\ u = p + 2 /\ v = p + l + 1
      BY <1>5, <2>1, <3>1
    <3>3. u \in Int /\ v \in Int /\ v - u + 1 = l /\ (u <= v <=> l # 0)
      BY ONLY <3>1, <3>2
    <3> QED  BY <3>1, <3>3
  <2>3. s = SubSeq(pat, u, v) /\ \A m \in u..v : pat[m] \in Char
    BY <1>6, <1>8, <2>1
  <2>4. /\ s \in Seq(Char) /\ Len(s) = IF u <= v THEN v - u + 1 ELSE 0
        /\ \A m \in 1..(v - u + 1) : s[m] = pat[u + m - 1]
    BY <2>2, <2>3, SubSeqProperties
  <2>5. PICK l : l = Len(b) /\ l \in Nat
    BY <1>3
  <2>6. v - u + 1 = l /\ (u <= v <=> l # 0) /\ u = p + 2
    BY <2>1, <2>2, <2>5
  <2>7. Len(s) = l
    BY ONLY <2>4, <2>5, <2>6
  <2> QED  BY <2>4, <2>5, <2>6, <2>7
<1>10. ASSUME NEW m \in 1..Len(b) PROVE s[m] = b[m]
  <2>1. (p + 2) + m - 1 = p + (m + 1) /\ m + 1 \in 1..Len(t)
    BY <1>3, <1>5
  <2>2. pat[p + (m + 1)] = t[m + 1]
    BY <1>5, <2>1
  <2> QED  BY <1>3, <1>9, <2>1, <2>2
<1>11. s = b
  BY <1>3, <1>9, <1>10, SeqEqual
<1> QED  BY <1>7, <1>11

\* What Parameter does with an item that has no type, and with one that has.
LEMMA PlainParameter ==
  ASSUME Parameter, variable = <<>>, Colons(Item) = {}
  PROVE  /\ variable' = <<>> /\ route_str' = route_str \o k_route
         /\ matches' = AddMatch(Item, matchCount + 1)
<1>1. variable' = variable
  BY DEF Parameter, VariableOf
<1>2. ~ (variable' # <<>> /\ regex_str' # <<>>)
  BY <1>1
<1>3. route_str' = route_str \o k_route /\ matches' = AddMatch(Item, matchCount')
      /\ matchCount' = matchCount + 1
  BY <1>2, Zenon DEF Parameter
<1> QED  BY <1>1, <1>3

LEMMA TypedParameter ==
  ASSUME Parameter, NEW n, n = VariableOf(Item), n # <<>>, NEW z, z = RegexOf(Item), z # <<>>,
         ~ HasGroup(z)
  PROVE  /\ route_str' = route_str \o (<<"(">> \o z \o <<")">>)
         /\ matches' = AddMatch(n, matchCount + 1)
<1>1. variable' = n /\ regex_str' = z
  BY DEF Parameter
<1>2. /\ route_str' = route_str \o (IF HasGroup(regex_str') THEN regex_str'
                                    ELSE <<"(">> \o regex_str' \o <<")">>)
      /\ matches' = AddMatch(variable', matchCount') /\ matchCount' = matchCount + 1
  BY <1>1, Zenon DEF Parameter
<1>3. matches' = AddMatch(n, matchCount + 1)
  BY <1>1, <1>2
<1>4. route_str' = route_str \o (IF HasGroup(z) THEN z ELSE <<"(">> \o z \o <<")">>)
  BY <1>1, <1>2
<1> QED  BY <1>3, <1>4

LEMMA TypedRegex ==
  ASSUME NEW k, written[k] \in Items, written[k].kind = "typed",
         NEW z, z = <<":">> \o written[k].text
  PROVE  <<"(">> \o z \o <<")">> = RegexOfItem(k)
<1>1. PICK a, c, d, x : /\ a = <<"(">> /\ c = <<":">> /\ d = <<")">>
                        /\ x = written[k].text
  OBVIOUS
<1>2. a \in Seq(Char) /\ c \in Seq(Char) /\ d \in Seq(Char) /\ x \in Seq(Char)
  <2>1. \A y \in Char : <<y>> \in Seq(Char)
    OBVIOUS
  <2> QED  BY <1>1, <2>1, PatternsAssumption DEF Items
<1>3. <<"(", ":">> = a \o c
  BY <1>1
<1>4. RegexOfItem(k) = (a \o c) \o x \o d
  BY <1>1, <1>3 DEF RegexOfItem
<1>5. (a \o c) \o x = a \o (c \o x)
  <2>1. Associate(a, c, x)
    BY <1>2, PutInOrder
  <2> QED  BY <2>1 DEF Associate
<1> QED  BY <1>1, <1>4, <1>5

LEMMA NameEnd ==
  ASSUME NEW at, NEW r, NEW k, NEW j, At(at, r, k, j), ItemPart(at, r, k, j), RouteInv,
         written[k + 1].kind \in {"param", "typed"}, WellWritten(written[k + 1]),
         TypedLast, Next, NEW b, b = Body(written[k + 1]), j = Len(b) + 1
  PROVE  ItemPart(at, r, k + 1, 0)'
<1>1. PICK t : t = TextOf(written[k + 1])
  OBVIOUS
<1>2. Bracketed(b, t)
  BY <1>1, CharOfItem, NamedWrapped
<1>3. written[k + 1] \in Items /\ k \in Nat /\ cursor = at[k] + j /\ at[k] \in Nat
      /\ ch = t[j + 1] /\ k + 1 \in 1..Len(written)
  <2>1. written[k + 1] \in Items /\ ch = t[j + 1] /\ at[k] \in Nat /\ k + 1 \in 1..Len(written)
    BY <1>1, CharOfItem
  <2> QED  BY <2>1 DEF At
<1>4. Len(b) \in Nat /\ j \in Nat /\ j > 0 /\ j + 1 = Len(b) + 2 /\ j + 1 = Len(t)
  BY <1>2 DEF Bracketed
<1>5. ch = "}"
  BY <1>2, <1>3, <1>4, Zenon DEF Bracketed, ClosesAt
<1>6. /\ bracketCount = 1 /\ parenCount = 0 /\ marker = at[k] + 1
      /\ route_str = r[k] /\ prevCh # "\\"
  BY <1>4 DEF ItemPart, InItem, Reading
<1>7. Item = b
  <2>1. pat \in Seq(Char)
    BY DEF RouteInv, Counters
  <2> QED  BY <1>6, <2>1, ItemIsBody
<1>8. middle > 0
  <2>1. middle = cursor - marker + 1
    BY <1>6 DEF RouteInv, ItemBounds
  <2>2. cursor - marker + 1 > 0
    <3>1. PICK p : p = at[k] /\ p \in Nat
      BY <1>3
    <3>2. cursor = p + j /\ marker = p + 1 /\ j \in Nat /\ j > 0
      BY <1>3, <1>4, <1>6, <3>1
    <3> QED  BY ONLY <3>1, <3>2
  <2> QED  BY <2>1, <2>2
<1>9. PICK z : z = <<":">> \o written[k + 1].text
  OBVIOUS
<1>10. Numbered(k)
  BY DEF ItemPart
<1>11. written[k + 1].kind = "param" => b = written[k + 1].name /\ IsValid(b) /\ Colons(b) = {}
  BY <1>3, ParamScanned
<1>12. written[k + 1].kind = "typed" =>
         /\ IsValid(b) /\ VariableOf(b) = written[k + 1].name /\ RegexOf(b) = z
         /\ written[k + 1].name # <<>> /\ z # <<>> /\ ~ HasGroup(z)
  BY <1>3, <1>9, TypedScanned
<1>13. Parameter
  <2>1. IsValid(Item)
    BY <1>7, <1>11, <1>12
  <2> QED  BY <1>5, <1>6, <1>8, <2>1, CloseStep, Zenon
<1>14. k + 1 \in Named
  BY <1>3 DEF Named
<1>15. /\ route_str' = r[k] \o RegexOfItem(k + 1)
       /\ matches' = AddMatch(written[k + 1].name, matchCount + 1)
       /\ (\A x \in 1..(k + 1) : written[x].kind # "typed") => variable' = <<>>
  <2>1. CASE written[k + 1].kind = "param"
    <3>1. \A x \in 1..k : written[x].kind # "typed"
      <4> SUFFICES ASSUME NEW x \in 1..k, written[x].kind = "typed" PROVE FALSE
        OBVIOUS
      <4>1. x \in 1..Len(written) /\ x < k + 1
        BY <1>3
      <4>2. x \in Named
        BY <4>1 DEF Named
      <4> QED  BY <1>14, <2>1, <4>1, <4>2 DEF TypedLast
    <3>2. variable = <<>>
      BY <1>10, <3>1 DEF Numbered
    <3>3. /\ variable' = <<>> /\ route_str' = route_str \o k_route
          /\ matches' = AddMatch(Item, matchCount + 1)
      BY <1>7, <1>11, <1>13, <2>1, <3>2, PlainParameter
    <3>4. RegexOfItem(k + 1) = k_route
      BY <2>1 DEF RegexOfItem
    <3> QED  BY <1>6, <1>7, <1>11, <2>1, <3>3, <3>4
  <2>2. CASE written[k + 1].kind = "typed"
    <3>1. PICK n : n = written[k + 1].name
      OBVIOUS
    <3>2. n = VariableOf(Item) /\ n # <<>> /\ z = RegexOf(Item) /\ z # <<>> /\ ~ HasGroup(z)
      BY <1>7, <1>12, <2>2, <3>1
    <3>3. /\ route_str' = route_str \o (<<"(">> \o z \o <<")">>)
          /\ matches' = AddMatch(n, matchCount + 1)
      BY ONLY <1>13, <3>2, TypedParameter
    <3>4. <<"(">> \o z \o <<")">> = RegexOfItem(k + 1)
      BY <1>3, <1>9, <2>2, TypedRegex
    <3>5. k + 1 \in 1..(k + 1)
      BY <1>3
    <3> QED  BY <1>6, <2>2, <3>1, <3>3, <3>4, <3>5
  <2> QED  BY <2>1, <2>2
<1>16. /\ matchCount' = matchCount + 1 /\ cursor' = cursor + 1 /\ bracketCount' = 0
       /\ parenCount' = 0 /\ prevCh' = prevCh /\ written' = written
  BY <1>6, <1>13, Zenon DEF Parameter
<1>17. matchCount' = ItemNumber(k + 1)
  <2>1. written[k + 1].kind # "literal"
    OBVIOUS
  <2> QED  BY <1>3, <1>10, <1>16, <2>1, ItemNumberOn DEF Numbered
<1>18. Numbered(k + 1)'
  BY <1>3, <1>10, <1>14, <1>15, <1>16, <1>17, NumberedParameter
<1>19. Between(r, k + 1)'
  <2>1. route_str' = r[k + 1]
    BY <1>15, RoutedOn
  <2> QED  BY <1>6, <1>16, <2>1 DEF Between
<1> QED  BY <1>1, <1>4, <1>16, <1>18, <1>19, PartOn

-----------------------------------------------------------------------------
(***************************************************************************)
(* The invariant of a pattern put together from items.                     *)
(***************************************************************************)
LEMMA TextNotEmpty ==
  ASSUME NEW item \in Items, WellWritten(item)
  PROVE  Len(TextOf(item)) \in Nat /\ Len(TextOf(item)) > 0
<1>1. PICK t : t = TextOf(item)
  OBVIOUS
<1>2. t \in Seq(Char) /\ item.kind \in {"literal", "param", "typed", "group"}
  BY <1>1, TextIsText DEF Items
<1>3. CASE item.kind = "literal"
  <2>1. t = item.text /\ t # <<>>
    BY <1>1, <1>3 DEF TextOf, WellWritten
  <2> QED  BY <1>1, <1>2, <2>1
<1>4. CASE item.kind \in {"param", "typed"}
  <2>1. Bracketed(Body(item), t)
    BY <1>1, <1>4, NamedWrapped
  <2> QED  BY <1>1, <1>2, <2>1 DEF Bracketed
<1>5. CASE item.kind = "group"
  BY <1>1, <1>2, <1>5, GroupText
<1> QED  BY <1>2, <1>3, <1>4, <1>5

\* While there is more, the cursor is in an item.
LEMMA InAnItem ==
  ASSUME written \in Seq(Items), WellMade, pat \in Seq(Char), More, NEW at, NEW r, NEW k, NEW j,
         Placed(at), Routed(r), ItemPart(at, r, k, j)
  PROVE  At(at, r, k, j) /\ WellWritten(written[k + 1])
<1>1. /\ k \in 0..Len(written) /\ j \in Nat /\ cursor = at[k] + j /\ Len(written) \in Nat
      /\ j > 0 => k < Len(written) /\ j < Len(TextOf(written[k + 1]))
  BY DEF ItemPart
<1>2. k < Len(written)
  <2> SUFFICES ASSUME ~ (k < Len(written)) PROVE FALSE
    OBVIOUS
  <2>1. k = Len(written) /\ j = 0
    BY <1>1
  <2>2. at[k] = Len(pat)
    BY <2>1 DEF Placed
  <2>3. Len(pat) \in Nat
    OBVIOUS
  <2> QED  BY <1>1, <2>1, <2>2, <2>3 DEF More
<1>3. k \in Nat /\ k + 1 \in 1..Len(written)
  BY <1>1, <1>2
<1>4. WellWritten(written[k + 1]) /\ written[k + 1] \in Items
  BY <1>3 DEF WellMade
<1>5. j < Len(TextOf(written[k + 1]))
  BY <1>1, <1>4, TextNotEmpty
<1> QED  BY <1>1, <1>2, <1>3, <1>4, <1>5 DEF At

LEMMA ItemsKept ==
  ASSUME Next
  PROVE  written' = written /\ pat' = pat /\ More
<1>1. CASE OpenBracket
  BY <1>1, Zenon DEF OpenBracket, Round
<1>2. CASE CloseBracket
  BY <1>2, Zenon DEF CloseBracket, Round
<1>3. CASE OrdinaryChar
  BY <1>3, Zenon DEF OrdinaryChar, Round
<1>4. CASE Parameter
  BY <1>4, Zenon DEF Parameter
<1>5. CASE NoParameter
  BY <1>5, Zenon DEF NoParameter
<1> QED  BY <1>1, <1>2, <1>3, <1>4, <1>5 DEF Next

LEMMA AsInvNext ==
  ASSUME RouteInv, AsInv, Next
  PROVE  AsInv'
<1>1. written' = written /\ pat' = pat /\ More
  BY ItemsKept
<1>2. written \in Seq(Items) /\ pat \in Seq(Char)
  BY DEF AsInv, RouteInv, Counters
<1> SUFFICES ASSUME WellMade'
             PROVE  \E at, r, k, j : Placed(at)' /\ Routed(r)' /\ ItemPart(at, r, k, j)'
  BY <1>1, <1>2 DEF AsInv
<1>3. WellMade
  BY <1>1, WellMadeStays
<1>4. PICK at, r, k, j : Placed(at) /\ Routed(r) /\ ItemPart(at, r, k, j)
  BY <1>3 DEF AsInv
<1>5. At(at, r, k, j) /\ WellWritten(written[k + 1])
  BY <1>1, <1>2, <1>3, <1>4, InAnItem
<1>6. Placed(at)' /\ Routed(r)'
  BY <1>1, <1>4, PartsStay
<1>7. written[k + 1] \in Items
  BY <1>5, CharOfItem
<1>8. written[k + 1].kind \in {"literal", "param", "typed", "group"}
  BY <1>7 DEF Items
<1>9. CASE written[k + 1].kind = "literal"
  BY <1>4, <1>5, <1>6, <1>9, LiteralStep
<1>10. CASE written[k + 1].kind = "group"
  BY <1>4, <1>5, <1>6, <1>10, GroupStep
<1>11. CASE written[k + 1].kind \in {"param", "typed"}
  <2>1. PICK b, t : b = Body(written[k + 1]) /\ t = TextOf(written[k + 1])
    OBVIOUS
  <2>2. Bracketed(b, t)
    BY <1>7, <1>11, <2>1, NamedWrapped
  <2>3. j \in Nat /\ j < Len(t)
    BY <1>5, <2>1 DEF At
  <2>4. j <= Len(b) \/ j = Len(b) + 1
    BY <2>2, <2>3 DEF Bracketed
  <2>5. CASE j <= Len(b)
    <3>1. \A m \in 1..Len(b) : ~ IsBracket(b[m])
      <4>1. CASE written[k + 1].kind = "param"
        BY <1>5, <1>7, <2>1, <4>1, ParamScanned
      <4>2. CASE written[k + 1].kind = "typed"
        <5>1. PICK z : z = <<":">> \o written[k + 1].text
          OBVIOUS
        <5> QED  BY <1>5, <1>7, <2>1, <4>2, <5>1, TypedScanned
      <4> QED  BY <1>11, <4>1, <4>2
    <3>2. ItemPart(at, r, k, j + 1)'
      BY <1>4, <1>5, <1>11, <2>1, <2>5, <3>1, NameStep
    <3> QED  BY <1>6, <3>2
  <2>6. CASE j = Len(b) + 1
    <3>1. TypedLast
      BY <1>3 DEF WellMade
    <3>2. ItemPart(at, r, k + 1, 0)'
      BY <1>4, <1>5, <1>11, <2>1, <2>6, <3>1, NameEnd
    <3> QED  BY <1>6, <3>2
  <2> QED  BY <2>4, <2>5, <2>6
<1> QED  BY <1>8, <1>9, <1>10, <1>11

LEMMA AsInvStutters ==
  ASSUME AsInv, vars' = vars
  PROVE  AsInv'
<1>1. written' = written /\ pat' = pat
  BY DEF vars
<1> SUFFICES ASSUME WellMade'
             PROVE  \E at, r, k, j : Placed(at)' /\ Routed(r)' /\ ItemPart(at, r, k, j)'
  BY <1>1 DEF AsInv
<1>2. WellMade
  BY <1>1, WellMadeStays
<1>3. PICK at, r, k, j : Placed(at) /\ Routed(r) /\ ItemPart(at, r, k, j)
  BY <1>2 DEF AsInv
<1>4. Placed(at)' /\ Routed(r)'
  BY <1>1, <1>3, PartsStay
<1>5. Numbered(k)'
  BY <1>3, ItemsStay DEF ItemPart, Numbered, vars
<1>6. Between(r, k)' <=> Between(r, k)
  BY DEF Between, vars
<1>7. Copying(r, k, j) => Copying(r, k, j)'
  BY <1>1, PartsStay DEF Copying, vars
<1>8. Reading(at, r, k) => Reading(at, r, k)'
  BY DEF Reading, vars
<1>9. InItem(at, r, k, j) => InItem(at, r, k, j)'
  BY <1>7, <1>8 DEF InItem, Depth, Count, vars
<1>10. ItemPart(at, r, k, j)'
  BY <1>3, <1>5, <1>6, <1>9 DEF ItemPart, vars
<1> QED  BY <1>4, <1>10

LEMMA AsInvInit ==
  ASSUME Init
  PROVE  AsInv
<1>1. written = <<>> \/ (written \in ItemLists /\ pat = Joined(written, TextOf))
  BY DEF Init
<1>2. CASE written = <<>>
  BY <1>2 DEF AsInv, WellMade
<1>3. CASE written \in ItemLists /\ pat = Joined(written, TextOf)
  <2>1. written \in Seq(Items)
    BY <1>3, PatternsAssumption DEF Items
  <2>2. PICK at : Placed(at)
    BY <1>3, <2>1, PlacedExists
  <2>3. PICK r : Routed(r)
    BY <2>1, RoutedExists
  <2>4. Numbered(0)
    <3>1. matchCount = ItemNumber(0)
      BY ItemNumberOn DEF Init
    <3>2. {n \in Named : n <= 0} = {}
      BY <2>1 DEF Named
    <3>3. DOMAIN matches = {written[x].name : x \in {n \in Named : n <= 0}}
      BY <3>2 DEF Init
    <3>4. variable = <<>>
      BY DEF Init
    <3> QED  BY <3>1, <3>2, <3>3, <3>4 DEF Numbered
  <2>5. Between(r, 0)
    <3>1. r[0] = <<>>
      BY <2>3 DEF Routed, Chain
    <3> QED  BY <3>1 DEF Between, Init
  <2>6. ItemPart(at, r, 0, 0)
    <3>1. at[0] = 0 /\ cursor = 0 /\ 0 \in 0..Len(written)
      BY <2>1, <2>2 DEF Placed, Init
    <3> QED  BY <2>4, <2>5, <3>1 DEF ItemPart
  <2> QED  BY <2>1, <2>2, <2>3, <2>6 DEF AsInv
<1> QED  BY <1>1, <1>2, <1>3

\* Where no group holds another, an item that is not literal has one group: the
\* loop's count of the items is the number of the group in the expression.
FlatUpTo(x) == \A m \in 1..x : Flat(written[m])

LEMMA OneGroup ==
  ASSUME NEW item \in Items, WellWritten(item), Flat(item)
  PROVE  GroupsOf(item) = IF item.kind = "literal" THEN {} ELSE {1}
<1>1. CASE item.kind = "literal"
  <2>1. TextOf(item) = item.text
    BY <1>1 DEF TextOf
  <2> QED  BY <1>1, <2>1 DEF GroupsOf, Flat
<1>2. CASE item.kind \in {"param", "typed"}
  BY <1>2 DEF GroupsOf
<1>3. CASE item.kind = "group"
  <2>1. PICK t : t = TextOf(item)
    OBVIOUS
  <2>2. /\ Len(item.text) \in Nat /\ Len(t) = Len(item.text) + 2
        /\ t[1] = "(" /\ t[Len(item.text) + 2] = ")"
        /\ \A m \in 1..Len(item.text) : t[m + 1] = item.text[m]
    BY <1>3, <2>1, GroupText
  <2>3. ASSUME NEW n \in 1..Len(t), t[n] = "(" PROVE n = 1
    <3>1. n # Len(item.text) + 2
      BY <2>2, <2>3
    <3>2. CASE n # 1
      <4>1. n - 1 \in 1..Len(item.text) /\ (n - 1) + 1 = n
        BY <2>2, <3>1, <3>2
      <4>2. item.text[n - 1] = "("
        BY <2>2, <2>3, <4>1
      <4> QED  BY <1>3, <4>1, <4>2 DEF Flat
    <3> QED  BY <3>2
  <2>4. GroupsOf(item) = {n \in 1..Len(t) : t[n] = "("}
    BY <1>3, <2>1 DEF GroupsOf
  <2>5. 1 \in 1..Len(t)
    BY <2>2
  <2> QED  BY <1>3, <2>2, <2>3, <2>4, <2>5
<1> QED  BY <1>1, <1>2, <1>3 DEF Items

LEMMA NumbersAgree ==
  ASSUME written \in Seq(Items), NEW x \in 1..Len(written), FlatUpTo(x),
         \A m \in 1..Len(written) : WellWritten(written[m])
  PROVE  GroupNumber(x) = ItemNumber(x)
<1> DEFINE S == {m \in 1..x : written[m].kind # "literal"}
           T == UNION {{m} \X GroupsOf(written[m]) : m \in 1..x}
           f == [m \in S |-> <<m, 1>>]
<1>1. ASSUME NEW m \in 1..x
      PROVE  GroupsOf(written[m]) = IF written[m].kind = "literal" THEN {} ELSE {1}
  <2>1. m \in 1..Len(written)
    OBVIOUS
  <2>2. written[m] \in Items /\ WellWritten(written[m]) /\ Flat(written[m])
    BY <2>1 DEF FlatUpTo
  <2> QED  BY <2>2, OneGroup
<1>2. \A m \in S : <<m, 1>> \in T
  BY <1>1
<1>3. \A p \in T : \E m \in S : p = <<m, 1>>
  BY <1>1
<1>4. IsFiniteSet(S)
  <2>1. S \subseteq 1..x /\ IsFiniteSet(1..x)
    BY FS_Interval
  <2> QED  BY <2>1, FS_Subset
<1> HIDE DEF S, T
<1>5. f \in Bijection(S, T)
  <2>1. f \in [S -> T] /\ \A p \in T : \E m \in S : f[m] = p
    BY <1>2, <1>3
  <2>2. \A m, n \in S : f[m] = f[n] => m = n
    OBVIOUS
  <2> QED  BY <2>1, <2>2 DEF Bijection, Injection, IsInjective, Surjection
<1>6. Cardinality(T) = Cardinality(S)
  BY <1>4, <1>5, FS_Bijection DEF ExistsBijection
<1> QED  BY <1>6 DEF GroupNumber, ItemNumber, S, T

\* At the end all items are done.
LEMMA AsInvGives ==
  ASSUME RouteInv, AsInv
  PROVE  AsWritten
<1> SUFFICES ASSUME Done, WellMade
             PROVE  /\ route_str = Joined([k \in 1..Len(written) |-> k], RegexOfItem)
                    /\ DOMAIN matches = {written[x].name : x \in Named}
                    /\ \A x \in Named : First(x) /\ FlatUpTo(x) =>
                         matches[written[x].name] = GroupNumber(x)
  BY DEF AsWritten, WellMade, First, FlatUpTo
<1>1. PICK at, r, k, j : Placed(at) /\ Routed(r) /\ ItemPart(at, r, k, j)
  BY DEF AsInv
<1>2. written \in Seq(Items) /\ Len(written) \in Nat
  BY DEF AsInv
<1>3. k = Len(written) /\ j = 0
  <2>1. /\ k \in 0..Len(written) /\ j \in Nat
        /\ j > 0 => k < Len(written) /\ j < Len(TextOf(written[k + 1]))
    BY <1>1 DEF ItemPart
  <2>2. CASE k < Len(written)
    <3>1. k \in Nat /\ k + 1 \in 1..Len(written)
      BY <1>2, <2>1, <2>2
    <3>2. WellWritten(written[k + 1]) /\ written[k + 1] \in Items
      BY <1>2, <3>1 DEF WellMade
    <3>3. j < Len(TextOf(written[k + 1]))
      BY <2>1, <3>2, TextNotEmpty
    <3>4. At(at, r, k, j)
      BY <1>1, <1>2, <2>1, <2>2, <3>1, <3>3 DEF At, ItemPart
    <3>5. cursor < Len(pat)
      BY <3>4, CharOfItem
    <3> QED  BY <3>5 DEF Done, More
  <2> QED  BY <1>2, <2>1, <2>2
<1>4. Numbered(k) /\ Between(r, k)
  BY <1>1, <1>3 DEF ItemPart
<1>5. route_str = Joined([m \in 1..Len(written) |-> m], RegexOfItem)
  <2>1. r[Len(written)] = Joined([m \in 1..Len(written) |-> m], RegexOfItem)
    BY <1>1, Zenon DEF Routed
  <2>2. route_str = r[Len(written)]
    BY <1>3, <1>4 DEF Between
  <2> QED  BY <2>1, <2>2, Zenon
<1>6. \A x \in Named : x <= k
  BY <1>2, <1>3 DEF Named
<1>7. {n \in Named : n <= k} = Named
  BY <1>6
<1>8. DOMAIN matches = {written[x].name : x \in Named}
  BY <1>4, <1>7 DEF Numbered
<1>9. ASSUME NEW x \in Named, First(x), FlatUpTo(x)
      PROVE  matches[written[x].name] = GroupNumber(x)
  <2>1. matches[written[x].name] = ItemNumber(x)
    BY <1>4, <1>6, <1>9 DEF Numbered
  <2>2. x \in 1..Len(written)
    BY DEF Named
  <2>3. GroupNumber(x) = ItemNumber(x)
    BY <1>2, <1>9, <2>2, NumbersAgree DEF WellMade
  <2> QED  BY <2>1, <2>3
<1> QED  BY <1>5, <1>8, <1>9, Zenon

\* A pattern that is put together from well written items, one with a type never
\* in front of one without, gives their regular expressions one after the other:
\* no item changes how the next is read.  Each parameter has the number that its
\* group has in that expression, as long as no group in front holds another.
THEOREM PatternsAsWritten == PhizSpec => []AsWritten
<1>1. RouteInv /\ AsInv /\ [PhizNext]_<<vars, caseVars>> => AsInv'
  <2>1. ASSUME vars' = vars, AsInv PROVE AsInv'
    BY <2>1, AsInvStutters
  <2> QED  BY <2>1, AsInvNext DEF PhizNext
<1>2. PhizInit => AsInv
  BY AsInvInit DEF PhizInit
<1>3. RouteInv /\ AsInv => AsWritten
  BY AsInvGives
<1> QED  BY <1>1, <1>2, <1>3, RouteInvariance, PTL DEF PhizSpec

-----------------------------------------------------------------------------
(***************************************************************************)
(* The case functions.  A word c in capitals style and a word u in         *)
(* separator style are paired when each character of c is written in u as  *)
(* phiz_uncamel writes it; pos[k] is where u has got to after k of them.   *)
(***************************************************************************)
Width(x, k) == IF x \in Capital /\ k > 1 THEN 2 ELSE 1

PairAt(c, u, pos, s, k) ==
    /\ c[k] \in Letter /\ (k = 1 => c[k] \notin Small)
    /\ pos[k] = pos[k - 1] + Width(c[k], k) /\ pos[k] <= Len(u)
    /\ u[pos[k]] = tolower(c[k])
    /\ Width(c[k], k) = 2 => u[pos[k] - 1] = s

Paired(c, u, pos, s, n) ==
    pos \in [0..n -> Nat] /\ pos[0] = 0 /\ \A k \in 1..n : PairAt(c, u, pos, s, k)

\* The first n characters of w.
Begins(out2, w, n) == Len(out2) = n /\ n <= Len(w) /\ \A q \in 1..n : out2[q] = w[q]

LEMMA CaseFacts ==
  /\ \A x \in Small : /\ x \notin Capital /\ toupper(x) \in Capital
                      /\ tolower(x) = x /\ tolower(toupper(x)) = x
  /\ \A x \in Capital : /\ x \notin Small /\ tolower(x) \in Small
                        /\ toupper(tolower(x)) = x
  /\ \A x : x \notin Small => toupper(x) = x
  /\ \A x : x \notin Capital => tolower(x) = x
  /\ \A x \in Letter : tolower(x) \in Letter \ Capital
  /\ \A x \in Character : tolower(x) \in Character /\ toupper(x) \in Character
<1>1. \A x \in Small : x \notin Capital /\ toupper(x) \in Capital /\ tolower(x) = x
                       /\ toupper(x) = UpperOf[x]
  BY LettersAssumption DEF Capital, toupper, tolower
<1>2. ASSUME NEW x \in Small PROVE tolower(UpperOf[x]) = x
  <2>1. UpperOf[x] \in Capital
    BY DEF Capital
  <2>2. \A s \in Small : UpperOf[s] = UpperOf[x] => s = x
    BY LettersAssumption
  <2>3. (CHOOSE s \in Small : UpperOf[s] = UpperOf[x]) = x
    BY <2>2
  <2> QED  BY <2>1, <2>3 DEF tolower
<1>3. ASSUME NEW x \in Capital
      PROVE  x \notin Small /\ tolower(x) \in Small /\ toupper(tolower(x)) = x
  <2>1. PICK y \in Small : x = UpperOf[y]
    BY DEF Capital
  <2>2. tolower(x) = y
    BY <1>2, <2>1
  <2> QED  BY <1>1, <2>1, <2>2, LettersAssumption
<1>4. \A x : x \notin Small => toupper(x) = x
  BY DEF toupper
<1>5. \A x : x \notin Capital => tolower(x) = x
  BY DEF tolower
<1>6. \A x \in Letter : tolower(x) \in Letter \ Capital
  BY <1>1, <1>3, <1>5 DEF Letter
<1>7. ASSUME NEW x \in Character PROVE tolower(x) \in Character /\ toupper(x) \in Character
  <2>1. Small \subseteq Character /\ Capital \subseteq Character
    BY LettersAssumption
  <2> QED  BY <1>1, <1>3, <1>4, <1>5, <2>1
<1> QED  BY <1>1, <1>2, <1>3, <1>4, <1>5, <1>6, <1>7

\* Longer words, and the next character of one written in the other, up to p.
Longer(c, u, c2, u2, n) ==
    /\ Len(u) \in Nat /\ Len(u2) \in Nat /\ Len(u) <= Len(u2)
    /\ \A k \in 1..n : c2[k] = c[k]
    /\ \A q \in 1..Len(u) : u2[q] = u[q]

NextPiece(c, u, s, n, at, p) ==
    /\ c[n + 1] \in Letter /\ (n = 0 => c[n + 1] \notin Small)
    /\ p = at + Width(c[n + 1], n + 1) /\ p <= Len(u)
    /\ u[p] = tolower(c[n + 1])
    /\ Width(c[n + 1], n + 1) = 2 => u[p - 1] = s

\* One more character.
LEMMA PairedOn ==
  ASSUME NEW n \in Nat, NEW c, NEW u, NEW s, NEW pos, Paired(c, u, pos, s, n),
         NEW c2, NEW u2, Longer(c, u, c2, u2, n),
         NEW p, NextPiece(c2, u2, s, n, pos[n], p)
  PROVE  \E pos2 : Paired(c2, u2, pos2, s, n + 1) /\ pos2[n + 1] = p
<1> DEFINE pos2 == [k \in 0..(n + 1) |-> IF k = n + 1 THEN p ELSE pos[k]]
<1>1. pos \in [0..n -> Nat] /\ pos[0] = 0
  BY DEF Paired
<1>2. p \in Nat
  BY <1>1 DEF Width, NextPiece
<1>3. /\ pos2 \in [0..(n + 1) -> Nat] /\ pos2[0] = 0 /\ pos2[n + 1] = p
      /\ \A k \in 0..n : pos2[k] = pos[k]
  BY <1>1, <1>2
<1> HIDE DEF pos2
<1>4. ASSUME NEW k \in 1..n PROVE PairAt(c2, u2, pos2, s, k)
  <2>1. PairAt(c, u, pos, s, k)
    BY DEF Paired
  <2>2. k \in 0..n /\ k - 1 \in 0..n /\ c2[k] = c[k]
    BY DEF Longer
  <2>3. pos2[k] = pos[k] /\ pos2[k - 1] = pos[k - 1] /\ pos[k] \in Nat /\ pos[k - 1] \in Nat
    BY <1>1, <1>3, <2>2
  <2>4. pos[k] \in 1..Len(u)
    BY <2>1, <2>3 DEF PairAt, Width
  <2>5. Width(c[k], k) = 2 => pos[k] - 1 \in 1..Len(u)
    BY <2>1, <2>3, <2>4 DEF PairAt
  <2> QED  BY <2>1, <2>2, <2>3, <2>4, <2>5 DEF PairAt, Longer
<1>5. PairAt(c2, u2, pos2, s, n + 1)
  <2>1. (n + 1) - 1 = n /\ n \in 0..n /\ (n + 1 = 1 <=> n = 0)
    OBVIOUS
  <2> QED  BY <1>3, <2>1 DEF PairAt, NextPiece
<1>6. \A k \in 1..(n + 1) : k \in 1..n \/ k = n + 1
  OBVIOUS
<1> QED  BY <1>3, <1>4, <1>5, <1>6 DEF Paired

\* Where the pieces are.
LEMMA PairedPlaces ==
  ASSUME NEW c, NEW u, Len(u) \in Nat, NEW s, NEW n \in Nat, NEW pos,
         Paired(c, u, pos, s, n),
         NEW k \in 0..n, k < n
  PROVE  /\ pos[k] \in Nat /\ PairAt(c, u, pos, s, k + 1)
         /\ pos[k + 1] = pos[k] + Width(c[k + 1], k + 1)
         /\ pos[k + 1] \in 1..Len(u)
<1>1. k + 1 \in 1..n /\ (k + 1) - 1 = k /\ pos[k] \in Nat
  BY DEF Paired
<1>2. PairAt(c, u, pos, s, k + 1)
  BY <1>1 DEF Paired
<1>3. pos[k + 1] = pos[k] + Width(c[k + 1], k + 1) /\ pos[k + 1] <= Len(u)
  BY <1>1, <1>2 DEF PairAt
<1>4. pos[k + 1] \in Nat /\ pos[k + 1] > 0
  BY <1>1, <1>3 DEF Width
<1>5. pos[k + 1] \in 1..Len(u)
  BY <1>3, <1>4
<1> QED  BY <1>1, <1>2, <1>3, <1>5

\* A longer prefix.
LEMMA PrefixOn ==
  ASSUME NEW w \in Seq(Character), NEW o \in Seq(Character), NEW n, Begins(o, w, n),
         NEW d \in Seq(Character), n + Len(d) <= Len(w),
         \A q \in 1..Len(d) : d[q] = w[n + q]
  PROVE  /\ o \o d \in Seq(Character) /\ Len(o \o d) = n + Len(d)
         /\ Begins(o \o d, w, n + Len(d))
<1>1. /\ o \o d \in Seq(Character) /\ Len(o \o d) = Len(o) + Len(d)
      /\ \A q \in 1..(Len(o) + Len(d)) :
           (o \o d)[q] = IF q <= Len(o) THEN o[q] ELSE d[q - Len(o)]
  BY ConcatProperties
<1>2. Len(o) \in Nat /\ Len(d) \in Nat /\ Len(w) \in Nat /\ n = Len(o)
  BY LenProperties DEF Begins
<1>3. ASSUME NEW q \in 1..(n + Len(d)) PROVE (o \o d)[q] = w[q]
  <2>1. CASE q <= n
    BY <1>1, <1>2, <2>1 DEF Begins
  <2>2. CASE ~ (q <= n)
    <3>1. q - n \in 1..Len(d) /\ n + (q - n) = q
      BY <1>2, <2>2
    <3> QED  BY <1>1, <1>2, <2>2, <3>1
  <2> QED  BY <2>1, <2>2
<1> QED  BY <1>1, <1>2, <1>3 DEF Begins

LEMMA WholePrefix ==
  ASSUME NEW w \in Seq(Character), NEW o \in Seq(Character), Begins(o, w, Len(w))
  PROVE  o = w
<1>1. o = [q \in 1..Len(o) |-> o[q]] /\ w = [q \in 1..Len(w) |-> w[q]]
  OBVIOUS
<1> QED  BY <1>1 DEF Begins

-----------------------------------------------------------------------------
(***************************************************************************)
(* The two calls.                                                          *)
(***************************************************************************)
CaseKinds ==
    /\ word \in Seq(Character) /\ src \in Seq(Character) /\ out \in Seq(Character)
    /\ sepch \in Character /\ sepch \in psep
    /\ i \in 0..Len(src) /\ found \in BOOLEAN
    /\ \/ todo = <<>>
       \/ todo \in {<<"camel">>, <<"uncamel", "camel">>} /\ first = "uncamel"
       \/ todo \in {<<"uncamel">>, <<"camel", "uncamel">>} /\ first = "camel"

\* The script passed a word and a separator as ComesBack asks for.
Fitting ==
    /\ first = "uncamel" => IsCamel
    /\ first = "camel" => IsUncamel
    /\ psep \cap Letter = {}

UncamelFirst(pos) ==
    /\ src = word
    /\ Paired(word, out, pos, sepch, i) /\ pos[i] = Len(out)

CamelFirst(pos) ==
    /\ src = word
    /\ Paired(out, word, pos, sepch, Len(out))
    /\ \/ i = pos[Len(out)] /\ found = (Len(out) = 0)
       \/ i = pos[Len(out)] + 1 /\ found /\ Len(out) > 0 /\ word[i] = sepch

UncamelSecond(pos) ==
    /\ Paired(src, word, pos, sepch, Len(src)) /\ pos[Len(src)] = Len(word)
    /\ Begins(out, word, pos[i])

CamelSecond(pos) ==
    /\ Paired(word, src, pos, sepch, Len(word)) /\ pos[Len(word)] = Len(src)
    /\ Begins(out, word, Len(out))
    /\ \/ i = pos[Len(out)] /\ found = (Len(out) = 0)
       \/ /\ i = pos[Len(out)] + 1 /\ found /\ Len(out) < Len(word)
          /\ Width(word[Len(out) + 1], Len(out) + 1) = 2

CaseInv ==
    /\ CaseKinds
    /\ Fitting =>
         /\ todo = <<"uncamel", "camel">> => \E pos : UncamelFirst(pos)
         /\ todo = <<"camel", "uncamel">> => \E pos : CamelFirst(pos)
         /\ todo = <<"uncamel">> => \E pos : UncamelSecond(pos)
         /\ todo = <<"camel">> => \E pos : CamelSecond(pos)
         /\ todo = <<>> => out = word

\* Which call it is.
LEMMA Stages ==
  ASSUME CaseKinds
  PROVE  /\ Calling("uncamel") <=> todo \in {<<"uncamel">>, <<"uncamel", "camel">>}
         /\ Calling("camel") <=> todo \in {<<"camel">>, <<"camel", "uncamel">>}
         /\ <<"uncamel">> # <<"camel">> /\ <<"camel", "uncamel">> # <<"uncamel", "camel">>
         /\ \A a, b, d \in {"camel", "uncamel"} : /\ <<a, b>> # <<d>> /\ <<a>> # <<>> /\ <<a, b>> # <<>>
               /\ Tail(<<a, b>>) = <<b>> /\ Tail(<<a>>) = <<>> /\ Len(<<a, b>>) = 2 /\ Len(<<a>>) = 1
BY DEF CaseKinds, Calling

\* What phiz_uncamel writes for character x behind k others.
Uncameled(x, s, k) ==
    IF x \notin Capital THEN <<x>>
    ELSE IF k > 0 THEN <<s, tolower(x)>> ELSE <<tolower(x)>>

LEMMA UncameledIs ==
  ASSUME NEW x \in Character, NEW s \in Character, NEW k \in Nat,
         NEW d, d = Uncameled(x, s, k)
  PROVE  /\ d \in Seq(Character) /\ Len(d) = Width(x, k + 1) /\ Len(d) \in {1, 2}
         /\ d[Len(d)] = tolower(x) /\ (Len(d) = 2 => d[1] = s)
<1>1. tolower(x) \in Character /\ (k + 1 > 1 <=> k > 0)
  BY CaseFacts
<1>2. CASE x \notin Capital
  <2>1. d = <<x>> /\ Width(x, k + 1) = 1 /\ tolower(x) = x
    BY <1>2, CaseFacts DEF Width, Uncameled
  <2> QED  BY <2>1
<1>3. CASE x \in Capital /\ k > 0
  <2>1. d = <<s, tolower(x)>> /\ Width(x, k + 1) = 2
    BY <1>1, <1>3 DEF Width, Uncameled
  <2> QED  BY <1>1, <2>1
<1>4. CASE x \in Capital /\ ~ (k > 0)
  <2>1. d = <<tolower(x)>> /\ Width(x, k + 1) = 1
    BY <1>1, <1>4 DEF Width, Uncameled
  <2> QED  BY <1>1, <2>1
<1> QED  BY <1>2, <1>3, <1>4

LEMMA PieceBehind ==
  ASSUME NEW o \in Seq(Character), NEW d \in Seq(Character), Len(d) \in {1, 2}
  PROVE  /\ Len(o) \in Nat /\ o \o d \in Seq(Character)
         /\ Len(o \o d) = Len(o) + Len(d)
         /\ \A q \in 1..Len(o) : (o \o d)[q] = o[q]
         /\ (o \o d)[Len(o) + Len(d)] = d[Len(d)]
         /\ Len(d) = 2 => (o \o d)[Len(o) + 1] = d[1]
<1>1. /\ o \o d \in Seq(Character) /\ Len(o \o d) = Len(o) + Len(d)
      /\ \A q \in 1..(Len(o) + Len(d)) :
           (o \o d)[q] = IF q <= Len(o) THEN o[q] ELSE d[q - Len(o)]
  BY ConcatProperties
<1>2. Len(o) \in Nat
  OBVIOUS
<1>3. PICK t : t = o \o d
  OBVIOUS
<1>4. \A q \in 1..Len(o) : t[q] = o[q]
  BY <1>1, <1>2, <1>3
<1>5. t[Len(o) + Len(d)] = d[Len(d)]
  BY <1>1, <1>2, <1>3
<1>6. Len(d) = 2 => t[Len(o) + 1] = d[1]
  BY <1>1, <1>2, <1>3
<1> QED  BY <1>1, <1>2, <1>3, <1>4, <1>5, <1>6

LEMMA UncamelCharIs ==
  ASSUME CaseKinds, UncamelChar
  PROVE  \E d : /\ d = Uncameled(src[i + 1], sepch, i) /\ out' = out \o d
                /\ i' = i + 1 /\ word' = word /\ src' = src
                /\ sepch' = sepch /\ psep' = psep
                /\ i \in Nat /\ i + 1 \in 1..Len(src) /\ i < Len(src)
<1>1. sepch' = sepch /\ psep' = psep
  BY DEF UncamelChar, Pass, sepch, psep
<1>2. src \in Seq(Character) /\ i \in 0..Len(src) /\ i < Len(src)
  BY DEF CaseKinds, UncamelChar
<1>3. i \in Nat /\ i + 1 \in 1..Len(src)
  BY <1>2
<1> QED  BY <1>1, <1>2, <1>3 DEF UncamelChar, Pass, Cur, Uncameled

\* phiz_uncamel on a word in capitals style.
LEMMA UncamelFirstStep ==
  ASSUME CaseInv, Fitting, todo = <<"uncamel", "camel">>, UncamelChar
  PROVE  \E pos : UncamelFirst(pos)'
<1>1. PICK pos : UncamelFirst(pos)
  BY DEF CaseInv
<1> DEFINE x == word[i + 1]
<1>2. PICK d : /\ d = Uncameled(src[i + 1], sepch, i) /\ out' = out \o d
               /\ i' = i + 1 /\ word' = word /\ src' = src
               /\ sepch' = sepch /\ psep' = psep
               /\ i \in Nat /\ i + 1 \in 1..Len(src) /\ i < Len(src)
  BY UncamelCharIs DEF CaseInv
<1>3. /\ src = word /\ x \in Character /\ sepch \in Character /\ out \in Seq(Character)
      /\ word \in Seq(Character)
  BY <1>1, <1>2 DEF UncamelFirst, CaseInv, CaseKinds
<1>4. x \in Letter /\ (i = 0 => x \notin Small)
  <2>1. IsCamel
    BY DEF Fitting, CaseInv, CaseKinds
  <2>2. i + 1 \in 1..Len(word) /\ word # <<>>
    BY <1>2, <1>3
  <2> QED  BY <2>1, <2>2 DEF IsCamel, Within
<1>5. /\ d \in Seq(Character) /\ Len(d) = Width(x, i + 1) /\ Len(d) \in {1, 2}
      /\ d[Len(d)] = tolower(x) /\ (Len(d) = 2 => d[1] = sepch)
  BY <1>2, <1>3, UncameledIs
<1>7. /\ Len(out) \in Nat /\ Len(out') = Len(out) + Len(d)
      /\ \A q \in 1..Len(out) : out'[q] = out[q]
      /\ out'[Len(out) + Len(d)] = d[Len(d)]
      /\ Len(d) = 2 => out'[Len(out) + 1] = d[1]
  <2>1. out' = out \o d /\ out \in Seq(Character) /\ d \in Seq(Character) /\ Len(d) \in {1, 2}
    BY <1>2, <1>3, <1>5
  <2> QED  BY ONLY <2>1, PieceBehind
<1>8. PICK o2 : o2 = out'
  OBVIOUS
<1>9. PICK p : p = Len(out')
  OBVIOUS
<1>10. /\ p = pos[i] + Width(x, i + 1) /\ p <= Len(o2) /\ o2[p] = tolower(x)
       /\ Width(x, i + 1) = 2 => o2[p - 1] = sepch
  BY <1>1, <1>5, <1>7, <1>8, <1>9 DEF UncamelFirst
<1>11. NextPiece(word, o2, sepch, i, pos[i], p)
  BY <1>4, <1>10 DEF NextPiece
<1>12. Longer(word, out, word, o2, i)
  BY <1>5, <1>7, <1>8 DEF Longer
<1>13. Paired(word, out, pos, sepch, i)
  BY <1>1 DEF UncamelFirst
<1>14. \E f : Paired(word, o2, f, sepch, i + 1) /\ f[i + 1] = p
  <2>1. i \in Nat
    BY <1>2
  <2> QED  BY ONLY <2>1, <1>11, <1>12, <1>13, PairedOn
<1>15. PICK f : Paired(word, o2, f, sepch, i + 1) /\ f[i + 1] = p
  BY ONLY <1>14
<1> QED  BY <1>2, <1>3, <1>8, <1>9, <1>15 DEF UncamelFirst

\* phiz_uncamel on what phiz_camel has made.
LEMMA UncamelSecondStep ==
  ASSUME CaseInv, Fitting, todo = <<"uncamel">>, UncamelChar
  PROVE  \E pos : UncamelSecond(pos)'
<1>1. PICK pos : UncamelSecond(pos)
  BY DEF CaseInv
<1> DEFINE x == src[i + 1]
<1>2. PICK d : /\ d = Uncameled(src[i + 1], sepch, i) /\ out' = out \o d
               /\ i' = i + 1 /\ word' = word /\ src' = src
               /\ sepch' = sepch /\ psep' = psep
               /\ i \in Nat /\ i + 1 \in 1..Len(src) /\ i < Len(src)
  BY UncamelCharIs DEF CaseInv
<1>3. /\ src \in Seq(Character) /\ word \in Seq(Character) /\ out \in Seq(Character)
      /\ sepch \in Character /\ x \in Character /\ Len(src) \in Nat /\ Len(word) \in Nat
      /\ i \in 0..Len(src)
  BY <1>2 DEF CaseInv, CaseKinds
<1>4. /\ d \in Seq(Character) /\ Len(d) = Width(x, i + 1) /\ Len(d) \in {1, 2}
      /\ d[Len(d)] = tolower(x) /\ (Len(d) = 2 => d[1] = sepch)
  BY <1>2, <1>3, UncameledIs
<1>5. Paired(src, word, pos, sepch, Len(src)) /\ Begins(out, word, pos[i])
  BY <1>1 DEF UncamelSecond
<1>6. /\ pos[i] \in Nat /\ PairAt(src, word, pos, sepch, i + 1)
      /\ pos[i + 1] = pos[i] + Width(x, i + 1)
      /\ pos[i + 1] \in 1..Len(word)
  BY <1>2, <1>3, <1>5, PairedPlaces
<1>t. pos[i] + Len(d) = pos[i + 1]
  BY <1>4, <1>6
<1>7. word[pos[i + 1]] = tolower(x) /\ (Len(d) = 2 => word[pos[i + 1] - 1] = sepch)
  BY <1>4, <1>6 DEF PairAt
<1>8. \A q \in 1..Len(d) : d[q] = word[pos[i] + q]
  <2>1. CASE Len(d) = 1
    BY <1>4, <1>6, <1>7, <2>1
  <2>2. CASE Len(d) = 2
    <3>1. pos[i] + 2 = pos[i + 1] /\ pos[i] + 1 = pos[i + 1] - 1
      BY <1>6, <1>t, <2>2
    <3>2. d[1] = word[pos[i] + 1] /\ d[2] = word[pos[i] + 2]
      BY <1>4, <1>7, <2>2, <3>1
    <3> QED  BY <2>2, <3>2
  <2> QED  BY <1>4, <2>1, <2>2
<1> HIDE DEF x
<1>9. Begins(out', word, pos[i + 1])
  <2>1. pos[i] + Len(d) <= Len(word)
    BY <1>3, <1>6, <1>t
  <2>2. Begins(out \o d, word, pos[i] + Len(d))
    BY <1>3, <1>4, <1>5, <1>8, <2>1, PrefixOn
  <2> QED  BY <1>2, <1>t, <2>2
<1> QED  BY <1>1, <1>2, <1>9 DEF UncamelSecond

\* What a round of phiz_camel does.
LEMMA CamelRound ==
  ASSUME CaseKinds, CamelSeparator \/ CamelChar
  PROVE  /\ i' = i + 1 /\ word' = word /\ src' = src /\ sepch' = sepch /\ psep' = psep
         /\ i \in Nat /\ i + 1 \in 1..Len(src) /\ i < Len(src) /\ Len(src) \in Nat
         /\ Len(out) \in Nat /\ src[i + 1] \in Character
         /\ CamelSeparator => src[i + 1] \in psep /\ found' = TRUE /\ out' = out
         /\ CamelChar =>
              /\ src[i + 1] \notin psep /\ found' = FALSE
              /\ \E y : /\ y = IF found THEN toupper(src[i + 1]) ELSE tolower(src[i + 1])
                        /\ out' = out \o <<y>> /\ out' \in Seq(Character) /\ y \in Character
                        /\ Len(out') = Len(out) + 1 /\ out'[Len(out) + 1] = y
                        /\ \A q \in 1..Len(out) : out'[q] = out[q]
<1>1. /\ src \in Seq(Character) /\ out \in Seq(Character) /\ i \in 0..Len(src)
      /\ i < Len(src)
  BY DEF CaseKinds, CamelSeparator, CamelChar
<1>2. i \in Nat /\ i + 1 \in 1..Len(src) /\ src[i + 1] \in Character
      /\ Len(src) \in Nat /\ Len(out) \in Nat
  BY <1>1
<1>3. i' = i + 1 /\ word' = word /\ src' = src /\ sep' = sep
  BY DEF CamelSeparator, CamelChar, Pass
<1>4. CamelSeparator => src[i + 1] \in psep /\ found' = TRUE /\ out' = out
  <2>1. out \o <<>> = out
    BY <1>1, ConcatEmptySeq
  <2> QED  BY <2>1 DEF CamelSeparator, Pass, Cur
<1>5. ASSUME CamelChar
      PROVE  /\ src[i + 1] \notin psep /\ found' = FALSE
             /\ \E y : /\ y = IF found THEN toupper(src[i + 1]) ELSE tolower(src[i + 1])
                       /\ out' = out \o <<y>> /\ out' \in Seq(Character) /\ y \in Character
                       /\ Len(out') = Len(out) + 1 /\ out'[Len(out) + 1] = y
                       /\ \A q \in 1..Len(out) : out'[q] = out[q]
  <2>1. PICK y : y = IF found THEN toupper(src[i + 1]) ELSE tolower(src[i + 1])
    OBVIOUS
  <2>2. src[i + 1] \notin psep /\ found' = FALSE /\ out' = out \o <<y>>
    BY <1>5, <2>1 DEF CamelChar, Pass, Cur
  <2>3. y \in Character
    BY <1>2, <2>1, CaseFacts
  <2>4. PICK d : d = <<y>>
    OBVIOUS
  <2>5. d \in Seq(Character) /\ Len(d) = 1 /\ d[1] = y
    BY <2>3, <2>4
  <2>6. /\ out' \in Seq(Character) /\ Len(out') = Len(out) + 1 /\ out'[Len(out) + 1] = y
        /\ \A q \in 1..Len(out) : out'[q] = out[q]
    BY <1>1, <1>2, <2>2, <2>4, <2>5, PieceBehind
  <2> QED  BY <2>1, <2>2, <2>3, <2>6
<1>6. sepch' = sepch /\ psep' = psep
  BY <1>3 DEF sepch, psep
<1> QED  BY <1>1, <1>2, <1>3, <1>4, <1>5, <1>6

\* Where a word in separator style can be.
LEMMA UncamelWord ==
  ASSUME CaseKinds, Fitting, first = "camel", NEW k \in 1..Len(word)
  PROVE  /\ word[k] \in psep =>
              word[k] = sepch /\ k > 1 /\ k < Len(word) /\ word[k + 1] \in Small
         /\ word[k] \notin psep => word[k] \in Letter \ Capital
         /\ word[k] \in Letter => word[k] \notin psep
BY DEF CaseKinds, Fitting, IsUncamel, Within

LEMMA CamelFirstSeparator ==
  ASSUME CaseInv, Fitting, todo = <<"camel", "uncamel">>, CamelSeparator
  PROVE  \E pos : CamelFirst(pos)'
<1>1. PICK pos : CamelFirst(pos)
  BY DEF CaseInv
<1>2. /\ i' = i + 1 /\ word' = word /\ src' = src /\ sepch' = sepch
      /\ i \in Nat /\ i + 1 \in 1..Len(src) /\ Len(out) \in Nat
      /\ src[i + 1] \in psep /\ found' = TRUE /\ out' = out
  BY CamelRound DEF CaseInv
<1>3. first = "camel" /\ src = word
  BY <1>1, Stages DEF CaseInv, CaseKinds, CamelFirst
<1>4. /\ word[i + 1] = sepch /\ i + 1 > 1
      /\ word[i + 1] \notin Letter
  BY <1>2, <1>3, UncamelWord DEF CaseInv
<1>5. ~ (i = pos[Len(out)] + 1 /\ found /\ Len(out) > 0 /\ word[i] = sepch)
  <2> SUFFICES ASSUME word[i] = sepch PROVE FALSE
    OBVIOUS
  <2>1. i \in 1..Len(word)
    BY <1>2, <1>3, <1>4
  <2>2. word[i + 1] \in Small
    BY <1>3, <2>1, UncamelWord DEF CaseInv, CaseKinds
  <2> QED  BY <1>4, <2>2 DEF Letter
<1>6. i = pos[Len(out)] /\ pos[0] = 0 /\ Paired(out, word, pos, sepch, Len(out))
  BY <1>1, <1>5 DEF CamelFirst, Paired
<1>7. Len(out) > 0
  BY <1>2, <1>4, <1>6
<1> QED  BY <1>2, <1>3, <1>4, <1>6, <1>7 DEF CamelFirst

LEMMA CamelFirstChar ==
  ASSUME CaseInv, Fitting, todo = <<"camel", "uncamel">>, CamelChar
  PROVE  \E pos : CamelFirst(pos)'
<1>1. PICK pos : CamelFirst(pos)
  BY DEF CaseInv
<1> DEFINE x == word[i + 1]
           n == Len(out)
<1>2. /\ i' = i + 1 /\ word' = word /\ src' = src /\ sepch' = sepch
      /\ i \in Nat /\ i + 1 \in 1..Len(src) /\ n \in Nat /\ Len(src) \in Nat
      /\ src[i + 1] \notin psep /\ found' = FALSE
  BY CamelRound DEF CaseInv
<1>3. first = "camel" /\ src = word
  BY <1>1, Stages DEF CaseInv, CaseKinds, CamelFirst
<1>4. PICK y : /\ y = IF found THEN toupper(src[i + 1]) ELSE tolower(src[i + 1])
               /\ Len(out') = n + 1 /\ out'[n + 1] = y
               /\ \A q \in 1..n : out'[q] = out[q]
  BY CamelRound DEF CaseInv
<1>5. x \in Letter /\ x \notin Capital
  BY <1>2, <1>3, UncamelWord DEF CaseInv
<1>6. PICK o2 : o2 = out'
  OBVIOUS
<1>p. Paired(out, word, pos, sepch, n) /\ pos[n] \in Nat
  BY <1>1, <1>2 DEF CamelFirst, Paired
<1>7. /\ tolower(y) = x /\ y \in Letter /\ (n = 0 => y \notin Small)
      /\ i + 1 = pos[n] + Width(y, n + 1)
      /\ Width(y, n + 1) = 2 => word[i] = sepch
  <2>1. CASE i = pos[n] /\ found = (n = 0) /\ n = 0
    <3>1. y = toupper(x)
      BY <1>3, <1>4, <2>1
    <3>2. Width(y, n + 1) = 1
      BY <2>1 DEF Width
    <3> HIDE DEF x, n
    <3>3. tolower(y) = x /\ y \in Letter /\ y \notin Small
      <4>1. CASE x \in Small
        BY <3>1, <4>1, CaseFacts DEF Letter
      <4>2. CASE x \notin Small
        BY <1>5, <3>1, <4>2, CaseFacts
      <4> QED  BY <4>1, <4>2
    <3> QED  BY <2>1, <3>2, <3>3
  <2>2. CASE i = pos[n] /\ found = (n = 0) /\ n # 0
    <3>1. y = tolower(x)
      BY <1>3, <1>4, <2>2
    <3>2. y = x
      BY <1>5, <3>1, CaseFacts
    <3>3. Width(y, n + 1) = 1
      BY <1>5, <3>2 DEF Width
    <3>4. tolower(y) = x
      BY <1>5, <3>2, CaseFacts
    <3> HIDE DEF x, n
    <3> QED  BY <1>5, <2>2, <3>2, <3>3, <3>4
  <2>3. CASE i = pos[n] + 1 /\ found /\ n > 0 /\ word[i] = sepch
    <3>1. y = toupper(x)
      BY <1>3, <1>4, <2>3
    <3>2. i \in 1..Len(word) /\ sepch \in psep
      BY <1>2, <1>3, <1>p, <2>3 DEF CaseInv, CaseKinds
    <3>3. x \in Small
      BY <1>3, <2>3, <3>2, UncamelWord DEF CaseInv
    <3>4. y \in Capital /\ tolower(y) = x
      BY <3>1, <3>3, CaseFacts
    <3>5. Width(y, n + 1) = 2
      BY <2>3, <3>4 DEF Width
    <3> HIDE DEF x
    <3> QED  BY <1>p, <2>3, <3>4, <3>5 DEF Letter
  <2> QED  BY <1>1, <2>1, <2>2, <2>3 DEF CamelFirst
<1>8. NextPiece(o2, word, sepch, n, pos[n], i + 1)
  <2>1. i + 1 <= Len(word) /\ o2[n + 1] = y
    BY <1>2, <1>3, <1>4, <1>6
  <2>2. word[i + 1] = x /\ (i + 1) - 1 = i
    BY <1>2
  <2> HIDE DEF x, n
  <2> QED  BY <1>7, <2>1, <2>2 DEF NextPiece
<1>9. Longer(out, word, o2, word, n)
  BY <1>2, <1>3, <1>4, <1>6 DEF Longer
<1>10. \E f : Paired(o2, word, f, sepch, n + 1) /\ f[n + 1] = i + 1
  <2>1. n \in Nat
    BY <1>2
  <2> HIDE DEF n
  <2> QED  BY ONLY <2>1, <1>p, <1>8, <1>9, PairedOn
<1>11. PICK f : Paired(o2, word, f, sepch, n + 1) /\ f[n + 1] = i + 1
  BY ONLY <1>10
<1>12. n + 1 # 0
  BY <1>2
<1> HIDE DEF n
<1> QED  BY <1>2, <1>3, <1>4, <1>6, <1>11, <1>12 DEF CamelFirst

\* phiz_camel on what phiz_uncamel has made.  The next piece of it.
LEMMA CamelSecondAt ==
  ASSUME CaseInv, Fitting, NEW pos, CamelSecond(pos), i + 1 \in 1..Len(src),
         NEW n, n = Len(out)
  PROVE  /\ n \in 0..Len(word) /\ n < Len(word) /\ pos[n] \in Nat
         /\ PairAt(word, src, pos, sepch, n + 1)
         /\ pos[n + 1] = pos[n] + Width(word[n + 1], n + 1)
<1>1. /\ Paired(word, src, pos, sepch, Len(word)) /\ pos[Len(word)] = Len(src)
      /\ n <= Len(word) /\ n \in Nat /\ Len(word) \in Nat /\ Len(src) \in Nat
  BY DEF CamelSecond, Begins, CaseInv, CaseKinds
<1>2. n < Len(word)
  BY <1>1 DEF CamelSecond
<1>3. n \in 0..Len(word)
  BY <1>1, <1>2
<1>4. PICK m : m = Len(word)
  OBVIOUS
<1>5. Paired(word, src, pos, sepch, m) /\ m \in Nat /\ n \in 0..m /\ n < m /\ Len(src) \in Nat
  BY ONLY <1>1, <1>2, <1>3, <1>4
<1>6. /\ pos[n] \in Nat /\ PairAt(word, src, pos, sepch, n + 1)
      /\ pos[n + 1] = pos[n] + Width(word[n + 1], n + 1)
  BY ONLY <1>5, PairedPlaces
<1> QED  BY <1>2, <1>3, <1>6

LEMMA CamelSecondSeparator ==
  ASSUME CaseInv, Fitting, todo = <<"camel">>, CamelSeparator
  PROVE  \E pos : CamelSecond(pos)'
<1>1. PICK pos : CamelSecond(pos)
  BY DEF CaseInv
<1> DEFINE n == Len(out)
           w == word[n + 1]
<1>2. /\ i' = i + 1 /\ word' = word /\ src' = src /\ sepch' = sepch
      /\ i \in Nat /\ i + 1 \in 1..Len(src) /\ n \in Nat
      /\ src[i + 1] \in psep /\ found' = TRUE /\ out' = out
  BY CamelRound DEF CaseInv
<1>3. /\ n < Len(word) /\ pos[n] \in Nat
      /\ PairAt(word, src, pos, sepch, n + 1)
      /\ pos[n + 1] = pos[n] + Width(w, n + 1)
  BY <1>1, <1>2, CamelSecondAt
<1>4. w \in Letter /\ src[pos[n + 1]] = tolower(w)
  BY <1>3 DEF PairAt
<1>5. tolower(w) \in Letter
  BY <1>4, CaseFacts
<1>6. pos[n + 1] # i + 1
  BY <1>2, <1>4, <1>5 DEF Fitting
<1>7. i = pos[n] /\ Width(w, n + 1) = 2
  <2>1. Width(w, n + 1) \in {1, 2}
    BY DEF Width
  <2>2. \/ i = pos[n] /\ found = (n = 0)
        \/ i = pos[n] + 1 /\ found /\ n < Len(word) /\ Width(w, n + 1) = 2
    BY <1>1, Zenon DEF CamelSecond
  <2> HIDE DEF n, w
  <2> QED  BY <1>2, <1>3, <1>6, <2>1, <2>2
<1> QED  BY <1>1, <1>2, <1>3, <1>7 DEF CamelSecond

LEMMA CamelSecondChar ==
  ASSUME CaseInv, Fitting, todo = <<"camel">>, CamelChar
  PROVE  \E pos : CamelSecond(pos)'
<1>1. PICK pos : CamelSecond(pos)
  BY DEF CaseInv
<1> DEFINE n == Len(out)
           w == word[n + 1]
<1>2. /\ i' = i + 1 /\ word' = word /\ src' = src /\ sepch' = sepch
      /\ i \in Nat /\ i + 1 \in 1..Len(src) /\ n \in Nat
      /\ src[i + 1] \notin psep /\ found' = FALSE
  BY CamelRound DEF CaseInv
<1>3. PICK y : /\ y = IF found THEN toupper(src[i + 1]) ELSE tolower(src[i + 1])
               /\ Len(out') = n + 1 /\ out'[n + 1] = y
               /\ \A q \in 1..n : out'[q] = out[q]
  BY CamelRound DEF CaseInv
<1>4. /\ n < Len(word) /\ pos[n] \in Nat
      /\ PairAt(word, src, pos, sepch, n + 1)
      /\ pos[n + 1] = pos[n] + Width(w, n + 1)
  BY <1>1, <1>2, CamelSecondAt
<1>5. /\ w \in Letter /\ src[pos[n + 1]] = tolower(w)
      /\ n = 0 => w \notin Small
      /\ Width(w, n + 1) = 2 => src[pos[n + 1] - 1] = sepch
  BY <1>4 DEF PairAt
<1>6. pos[n + 1] = i + 1 /\ y = w
  <2>1. CASE i = pos[n] /\ found = (n = 0)
    <3>1. Width(w, n + 1) # 2
      <4>1. sepch \in psep
        BY DEF CaseInv, CaseKinds
      <4> QED  BY <1>2, <1>4, <1>5, <2>1, <4>1
    <3>2. Width(w, n + 1) = 1 /\ (w \in Capital => ~ (n + 1 > 1))
      BY <3>1 DEF Width
    <3>3. src[i + 1] = tolower(w) /\ pos[n + 1] = i + 1
      BY <1>4, <1>5, <2>1, <3>2
    <3>4. CASE n = 0
      <4>1. y = toupper(tolower(w)) /\ w \notin Small
        BY <1>3, <1>5, <2>1, <3>3, <3>4
      <4> HIDE DEF w, n
      <4>2. toupper(tolower(w)) = w
        BY <4>1, CaseFacts
      <4> QED  BY <3>3, <4>1, <4>2
    <3>5. CASE n # 0
      <4>1. y = tolower(tolower(w)) /\ w \notin Capital
        <5> HIDE DEF n, w
        <5>1. n + 1 > 1
          BY <1>2, <3>5
        <5>2. ~ found
          BY <2>1, <3>5, Zenon
        <5> QED  BY <1>3, <3>2, <3>3, <5>1, <5>2
      <4> HIDE DEF w, n
      <4>2. tolower(tolower(w)) = w
        BY <4>1, CaseFacts
      <4> QED  BY <3>3, <4>1, <4>2
    <3> QED  BY <3>4, <3>5
  <2>2. CASE i = pos[n] + 1 /\ found /\ n < Len(word) /\ Width(w, n + 1) = 2
    <3>1. w \in Capital
      BY <2>2 DEF Width
    <3>2. pos[n + 1] = i + 1
      BY <1>4, <2>2
    <3>3. y = toupper(tolower(w))
      BY <1>3, <1>5, <2>2, <3>2
    <3> HIDE DEF w, n
    <3> QED  BY <3>1, <3>2, <3>3, CaseFacts
  <2> QED  BY <1>1, <2>1, <2>2 DEF CamelSecond
<1>7. Begins(out', word, n + 1)
  <2>1. Begins(out, word, n) /\ Len(word) \in Nat
    BY <1>1 DEF CamelSecond, CaseInv, CaseKinds
  <2>2. \A q \in 1..(n + 1) : q \in 1..n \/ q = n + 1
    BY <1>2
  <2>3. n + 1 <= Len(word)
    BY <1>2, <1>4, <2>1
  <2> HIDE DEF n
  <2> QED  BY <1>3, <1>6, <2>1, <2>2, <2>3 DEF Begins, w
<1>8. n + 1 # 0
  BY <1>2
<1> HIDE DEF n
<1> QED  BY <1>1, <1>2, <1>3, <1>6, <1>7, <1>8 DEF CamelSecond

\* What a return does that another call follows, and the last one.
LEMMA ReturnIs ==
  ASSUME CaseKinds, CaseReturn
  PROVE  /\ word' = word /\ sepch' = sepch /\ psep' = psep /\ first' = first
         /\ todo' = Tail(todo)
         /\ i = Len(src) \/ (i < Len(src) /\ Calling("uncamel") /\ src[i + 1] = Nul)
         /\ Len(todo) = 1 => src' = src /\ i' = i /\ found' = found /\ out' = out
         /\ Len(todo) # 1 => src' = out /\ i' = 0 /\ found' = TRUE /\ out' = <<>>
<1>1. sepch' = sepch /\ psep' = psep
  BY DEF CaseReturn, sepch, psep
<1> QED  BY <1>1 DEF CaseReturn, Cur

LEMMA NothingWritten ==
  ASSUME NEW w \in Seq(Character)
  PROVE  \E e : e = <<>> /\ Len(e) = 0 /\ e \in Seq(Character) /\ Begins(e, w, 0)
<1>1. PICK e : e = <<>>
  OBVIOUS
<1>2. Len(e) = 0 /\ e \in Seq(Character)
  BY <1>1
<1>3. Begins(e, w, 0)
  <2>1. Len(w) \in Nat /\ \A q \in 1..0 : FALSE
    OBVIOUS
  <2> QED  BY <1>2, <2>1 DEF Begins
<1> QED  BY <1>1, <1>2, <1>3

LEMMA UncamelReturns ==
  ASSUME CaseInv, Fitting, todo = <<"uncamel", "camel">>, CaseReturn
  PROVE  todo' = <<"camel">> /\ \E pos : CamelSecond(pos)'
<1>1. PICK pos : UncamelFirst(pos)
  BY DEF CaseInv
<1>2. Tail(todo) = <<"camel">> /\ Len(todo) # 1
  BY Stages DEF CaseInv
<1>3. /\ word' = word /\ sepch' = sepch /\ todo' = <<"camel">>
      /\ i = Len(src) \/ (i < Len(src) /\ src[i + 1] = Nul)
      /\ src' = out /\ i' = 0 /\ found' = TRUE /\ out' = <<>>
  BY <1>2, ReturnIs DEF CaseInv
<1>4. /\ src = word /\ word \in Seq(Character) /\ i \in 0..Len(word) /\ first = "uncamel"
  BY <1>1, Stages DEF CaseInv, CaseKinds, UncamelFirst
<1>5. i = Len(word)
  <2> SUFFICES ASSUME i < Len(word), word[i + 1] = Nul PROVE FALSE
    BY <1>3, <1>4
  <2>1. i + 1 \in 1..Len(word)
    BY <1>4
  <2>2. word[i + 1] \in Letter
    BY <1>4, <2>1 DEF Fitting, IsCamel, Within
  <2> QED  BY <2>2, LettersAssumption DEF Letter
<1>6. PICK e : e = <<>> /\ Len(e) = 0 /\ Begins(e, word, 0)
  BY <1>4, NothingWritten
<1>7. out' = e
  BY <1>3, <1>6
<1>8. /\ Paired(word, out, pos, sepch, Len(word)) /\ pos[Len(word)] = Len(out)
      /\ pos[0] = 0
  BY <1>1, <1>5 DEF UncamelFirst, Paired
<1>9. CamelSecond(pos)'
  BY <1>3, <1>6, <1>7, <1>8 DEF CamelSecond
<1> QED  BY <1>3, <1>9

LEMMA CamelReturns ==
  ASSUME CaseInv, Fitting, todo = <<"camel", "uncamel">>, CaseReturn
  PROVE  todo' = <<"uncamel">> /\ \E pos : UncamelSecond(pos)'
<1>1. PICK pos : CamelFirst(pos)
  BY DEF CaseInv
<1>2. Tail(todo) = <<"uncamel">> /\ Len(todo) # 1 /\ ~ Calling("uncamel")
  BY Stages DEF CaseInv
<1>3. /\ word' = word /\ sepch' = sepch /\ todo' = <<"uncamel">>
      /\ i = Len(src) /\ src' = out /\ i' = 0 /\ out' = <<>>
  BY <1>2, ReturnIs DEF CaseInv
<1>4. src = word /\ word \in Seq(Character) /\ first = "camel" /\ Len(out) \in Nat
  BY <1>1, Stages DEF CaseInv, CaseKinds, CamelFirst
<1>5. Paired(out, word, pos, sepch, Len(out)) /\ pos[Len(out)] \in Nat /\ pos[0] = 0
  BY <1>1, <1>4 DEF CamelFirst, Paired
<1>6. pos[Len(out)] = Len(word)
  <2> SUFFICES ASSUME i = pos[Len(out)] + 1, word[i] = sepch PROVE FALSE
    BY <1>1, <1>3, <1>4 DEF CamelFirst
  <2>1. i \in 1..Len(word) /\ i = Len(word)
    BY <1>3, <1>4, <1>5
  <2>2. sepch \in psep
    BY DEF CaseInv, CaseKinds
  <2>3. i < Len(word)
    BY <1>4, <2>1, <2>2, UncamelWord DEF CaseInv
  <2> QED  BY <2>1, <2>3
<1>7. PICK e : e = <<>> /\ Len(e) = 0 /\ Begins(e, word, 0)
  BY <1>4, NothingWritten
<1>8. out' = e
  BY <1>3, <1>7
<1>9. UncamelSecond(pos)'
  BY <1>3, <1>5, <1>6, <1>7, <1>8 DEF UncamelSecond
<1> QED  BY <1>3, <1>9

\* Both ways round, the word is there again.
LEMMA LastUncamelReturns ==
  ASSUME CaseInv, Fitting, todo = <<"uncamel">>, CaseReturn
  PROVE  todo' = <<>> /\ out' = word'
<1>1. PICK pos : UncamelSecond(pos)
  BY DEF CaseInv
<1>2. Tail(todo) = <<>> /\ Len(todo) = 1
  BY Stages DEF CaseInv
<1>3. /\ word' = word /\ todo' = <<>> /\ out' = out
      /\ i = Len(src) \/ (i < Len(src) /\ src[i + 1] = Nul)
  BY <1>2, ReturnIs DEF CaseInv
<1>4. /\ word \in Seq(Character) /\ out \in Seq(Character) /\ i \in 0..Len(src)
      /\ Len(src) \in Nat /\ Len(word) \in Nat
  BY DEF CaseInv, CaseKinds
<1>5. /\ Paired(src, word, pos, sepch, Len(src)) /\ pos[Len(src)] = Len(word)
      /\ Begins(out, word, pos[i])
  BY <1>1 DEF UncamelSecond
<1>6. i = Len(src)
  <2> SUFFICES ASSUME i < Len(src), src[i + 1] = Nul PROVE FALSE
    BY <1>3
  <2>1. PairAt(src, word, pos, sepch, i + 1)
    BY <1>4, <1>5, PairedPlaces
  <2>2. src[i + 1] \in Letter
    BY <2>1 DEF PairAt
  <2> QED  BY <2>2, LettersAssumption DEF Letter
<1>7. out = word
  BY <1>4, <1>5, <1>6, WholePrefix
<1> QED  BY <1>3, <1>7

LEMMA LastCamelReturns ==
  ASSUME CaseInv, Fitting, todo = <<"camel">>, CaseReturn
  PROVE  todo' = <<>> /\ out' = word'
<1>1. PICK pos : CamelSecond(pos)
  BY DEF CaseInv
<1>2. Tail(todo) = <<>> /\ Len(todo) = 1 /\ ~ Calling("uncamel")
  BY Stages DEF CaseInv
<1>3. word' = word /\ todo' = <<>> /\ out' = out /\ i = Len(src)
  BY <1>2, ReturnIs DEF CaseInv
<1>4. /\ word \in Seq(Character) /\ out \in Seq(Character)
      /\ Len(src) \in Nat /\ Len(word) \in Nat /\ Len(out) \in Nat
  BY DEF CaseInv, CaseKinds
<1>5. PICK n : n = Len(out)
  OBVIOUS
<1>6. PICK m : m = Len(word)
  OBVIOUS
<1>7. /\ Paired(word, src, pos, sepch, m) /\ Begins(out, word, n) /\ n <= m
      /\ n \in Nat /\ m \in Nat
  BY <1>1, <1>4, <1>5, <1>6 DEF CamelSecond, Begins
<1>8. ASSUME n < m PROVE FALSE
  <2>1. /\ Paired(word, src, pos, sepch, m) /\ m \in Nat /\ n \in 0..m /\ n < m
        /\ Len(src) \in Nat
    BY ONLY <1>4, <1>7, <1>8
  <2>2. /\ pos[n] \in Nat /\ PairAt(word, src, pos, sepch, n + 1)
        /\ pos[n + 1] = pos[n] + Width(word[n + 1], n + 1)
    BY ONLY <2>1, PairedPlaces
  <2>3. Width(word[n + 1], n + 1) \in {1, 2}
    BY DEF Width
  <2>4. i = pos[n] \/ (i = pos[n] + 1 /\ Width(word[n + 1], n + 1) = 2)
    BY <1>1, <1>5 DEF CamelSecond
  <2>5. pos[n + 1] <= Len(src)
    BY <2>2 DEF PairAt
  <2> QED  BY <1>3, <1>4, <2>2, <2>3, <2>4, <2>5
<1>9. n = m
  BY <1>7, <1>8
<1>10. out = word
  BY <1>4, <1>6, <1>7, <1>9, WholePrefix
<1> QED  BY <1>3, <1>10

-----------------------------------------------------------------------------
(***************************************************************************)
(* Every step.                                                             *)
(***************************************************************************)
LEMMA FittingSame ==
  ASSUME word' = word, sepch' = sepch, psep' = psep, first' = first
  PROVE  Fitting' <=> Fitting
BY DEF Fitting, IsCamel, IsUncamel, Within

\* The loops leave the calls alone, and phiz_uncamel leaves found.
LEMMA RoundOfLoop ==
  ASSUME CaseKinds, UncamelChar \/ CamelSeparator \/ CamelChar
  PROVE  /\ CaseKinds' /\ todo' = todo /\ (Fitting' <=> Fitting)
         /\ UncamelChar => todo \in {<<"uncamel">>, <<"uncamel", "camel">>}
         /\ CamelSeparator \/ CamelChar => todo \in {<<"camel">>, <<"camel", "uncamel">>}
<1>1. /\ todo' = todo /\ first' = first
      /\ UncamelChar => Calling("uncamel") /\ found' = found
      /\ CamelSeparator \/ CamelChar => Calling("camel")
  BY DEF UncamelChar, CamelSeparator, CamelChar, Pass
<1>2. /\ word' = word /\ src' = src /\ sepch' = sepch /\ psep' = psep
      /\ i' \in 0..Len(src) /\ out' \in Seq(Character) /\ found' \in BOOLEAN
  <2>1. CASE UncamelChar
    <3>1. PICK d : /\ d = Uncameled(src[i + 1], sepch, i) /\ out' = out \o d
                   /\ i' = i + 1 /\ word' = word /\ src' = src
                   /\ sepch' = sepch /\ psep' = psep
                   /\ i \in Nat /\ i + 1 \in 1..Len(src) /\ i < Len(src)
      BY <2>1, UncamelCharIs
    <3>2. /\ out \in Seq(Character) /\ src[i + 1] \in Character /\ sepch \in Character
          /\ found' \in BOOLEAN
      BY <1>1, <2>1, <3>1 DEF CaseKinds
    <3>3. d \in Seq(Character) /\ Len(d) \in {1, 2}
      BY <3>1, <3>2, UncameledIs
    <3>4. out' \in Seq(Character)
      BY <3>1, <3>2, <3>3, PieceBehind
    <3> QED  BY <3>1, <3>2, <3>4
  <2>2. CASE CamelSeparator \/ CamelChar
    <3>1. /\ i' = i + 1 /\ word' = word /\ src' = src /\ sepch' = sepch /\ psep' = psep
          /\ i \in Nat /\ i < Len(src) /\ Len(src) \in Nat
      BY <2>2, CamelRound
    <3>2. i' \in 0..Len(src)
      BY <3>1
    <3>3. found' \in BOOLEAN
      BY <2>2, Zenon DEF CamelSeparator, CamelChar
    <3>4. out' \in Seq(Character)
      BY <2>2, CamelRound DEF CaseKinds
    <3> QED  BY <3>1, <3>2, <3>3, <3>4
  <2> QED  BY <2>1, <2>2
<1>3. CaseKinds'
  BY <1>1, <1>2 DEF CaseKinds
<1> QED  BY <1>1, <1>2, <1>3, Stages, FittingSame

LEMMA ReturnKinds ==
  ASSUME CaseKinds, CaseReturn
  PROVE  /\ CaseKinds' /\ (Fitting' <=> Fitting)
         /\ todo \in {<<"uncamel", "camel">>, <<"camel", "uncamel">>,
                      <<"uncamel">>, <<"camel">>}
<1>1. /\ word' = word /\ sepch' = sepch /\ psep' = psep /\ first' = first
      /\ todo' = Tail(todo)
      /\ Len(todo) = 1 => src' = src /\ i' = i /\ found' = found /\ out' = out
      /\ Len(todo) # 1 => src' = out /\ i' = 0 /\ found' = TRUE /\ out' = <<>>
  BY ReturnIs
<1>2. todo # <<>>
  BY DEF CaseReturn
<1>3. todo \in {<<"uncamel", "camel">>, <<"camel", "uncamel">>, <<"uncamel">>, <<"camel">>}
  BY <1>2 DEF CaseKinds
<1>4. /\ src' \in Seq(Character) /\ out' \in Seq(Character) /\ i' \in 0..Len(src')
      /\ found' \in BOOLEAN
  <2>1. PICK e : e = <<>>
    OBVIOUS
  <2>2. e \in Seq(Character) /\ Len(out) \in Nat /\ 0 \in 0..Len(out)
    BY <2>1 DEF CaseKinds
  <2>3. CASE Len(todo) = 1
    BY <1>1, <2>3 DEF CaseKinds
  <2>4. CASE Len(todo) # 1
    BY <1>1, <2>1, <2>2, <2>4 DEF CaseKinds
  <2> QED  BY <2>3, <2>4
<1>5. \/ todo' = <<>>
      \/ todo' = <<"camel">> /\ first' = "uncamel"
      \/ todo' = <<"uncamel">> /\ first' = "camel"
  BY <1>1, <1>3, Stages DEF CaseKinds
<1>6. CaseKinds'
  BY <1>1, <1>4, <1>5 DEF CaseKinds
<1> QED  BY <1>1, <1>3, <1>6, FittingSame

LEMMA CaseStep ==
  ASSUME CaseInv, CaseNext
  PROVE  CaseInv'
<1> USE DEF CaseNext
<1>1. CASE UncamelChar \/ CamelSeparator \/ CamelChar
  <2>1. /\ CaseKinds' /\ todo' = todo /\ (Fitting' <=> Fitting)
        /\ UncamelChar => todo \in {<<"uncamel">>, <<"uncamel", "camel">>}
        /\ CamelSeparator \/ CamelChar => todo \in {<<"camel">>, <<"camel", "uncamel">>}
    BY <1>1, RoundOfLoop DEF CaseInv
  <2>2. ASSUME Fitting, todo = <<"uncamel", "camel">> PROVE \E pos : UncamelFirst(pos)'
    BY <1>1, <2>1, <2>2, Stages, UncamelFirstStep DEF CaseInv
  <2>3. ASSUME Fitting, todo = <<"camel", "uncamel">> PROVE \E pos : CamelFirst(pos)'
    BY <1>1, <2>1, <2>3, Stages, CamelFirstSeparator, CamelFirstChar DEF CaseInv
  <2>4. ASSUME Fitting, todo = <<"uncamel">> PROVE \E pos : UncamelSecond(pos)'
    BY <1>1, <2>1, <2>4, Stages, UncamelSecondStep DEF CaseInv
  <2>5. ASSUME Fitting, todo = <<"camel">> PROVE \E pos : CamelSecond(pos)'
    BY <1>1, <2>1, <2>5, Stages, CamelSecondSeparator, CamelSecondChar DEF CaseInv
  <2>6. todo # <<>>
    BY <1>1, <2>1, Stages DEF CaseInv
  <2> QED  BY <2>1, <2>2, <2>3, <2>4, <2>5, <2>6 DEF CaseInv
<1>2. CASE CaseReturn
  <2>1. /\ CaseKinds' /\ (Fitting' <=> Fitting)
        /\ todo \in {<<"uncamel", "camel">>, <<"camel", "uncamel">>,
                     <<"uncamel">>, <<"camel">>}
    BY <1>2, ReturnKinds DEF CaseInv
  <2>2. /\ <<"uncamel">> # <<"camel">>
        /\ \A a, b, d \in {"camel", "uncamel"} : <<a, b>> # <<d>> /\ <<a>> # <<>>
    BY Stages DEF CaseInv
  <2>3. ASSUME Fitting
        PROVE  \/ todo' = <<"camel">> /\ \E pos : CamelSecond(pos)'
               \/ todo' = <<"uncamel">> /\ \E pos : UncamelSecond(pos)'
               \/ todo' = <<>> /\ out' = word'
    BY <1>2, <2>1, <2>3, UncamelReturns, CamelReturns, LastUncamelReturns, LastCamelReturns
  <2> QED  BY <2>1, <2>2, <2>3 DEF CaseInv
<1> QED  BY <1>1, <1>2

LEMMA CaseStart == PhizInit => CaseInv
<1>1. ASSUME NoCase PROVE CaseInv
  <2>1. word = <<>> /\ src = <<>> /\ out = <<>> /\ todo = <<>> /\ sep = <<>> /\ i = 0
    BY <1>1 DEF NoCase
  <2>2. CaseKinds
    <3>1. sepch \in Character /\ sepch \in psep
      BY <2>1, LettersAssumption DEF sepch, psep
    <3>2. PICK e : e = <<>>
      OBVIOUS
    <3>3. e \in Seq(Character) /\ Len(e) = 0
      BY <3>2
    <3> QED  BY <1>1, <2>1, <3>1, <3>2, <3>3 DEF CaseKinds, NoCase
  <2> QED  BY <2>1, <2>2, Stages DEF CaseInv
<1>2. ASSUME CaseInit PROVE CaseInv
  <2>1. /\ word \in Seq(Character) /\ sep \in Seq(Character)
        /\ src = word /\ i = 0 /\ found = TRUE /\ out = <<>>
        /\ todo \in {<<"camel", "uncamel">>, <<"uncamel", "camel">>}
    BY <1>2, LettersAssumption DEF CaseInit
  <2>2. first = todo[1]
    BY <1>2 DEF CaseInit
  <2>3. PICK e : e = <<>>
    OBVIOUS
  <2>4. e \in Seq(Character) /\ Len(e) = 0 /\ out = e
    BY <2>1, <2>3
  <2>5. sepch \in Character /\ sepch \in psep
    <3>1. CASE sep = <<>>
      BY <3>1, LettersAssumption DEF sepch, psep
    <3>2. CASE sep # <<>>
      <4>1. 1 \in 1..Len(sep) /\ sep[1] \in Character
        BY <2>1, <3>2
      <4> QED  BY <3>2, <4>1 DEF sepch, psep
    <3> QED  BY <3>1, <3>2
  <2>6. CaseKinds
    <3>1. 0 \in 0..Len(word)
      BY <2>1
    <3> QED  BY <2>1, <2>2, <2>4, <2>5, <3>1 DEF CaseKinds
  <2>7. PICK pos : pos = [k \in 0..0 |-> 0]
    OBVIOUS
  <2>8. /\ Paired(word, out, pos, sepch, i) /\ pos[i] = Len(out)
        /\ Paired(out, word, pos, sepch, Len(out)) /\ i = pos[Len(out)]
    <3>1. pos \in [0..0 -> Nat] /\ pos[0] = 0 /\ \A k \in 1..0 : FALSE
      BY <2>7
    <3> QED  BY <2>1, <2>4, <3>1 DEF Paired
  <2>9. UncamelFirst(pos) /\ CamelFirst(pos)
    <3>1. found = (Len(out) = 0)
      BY <2>1, <2>4
    <3> QED  BY <2>1, <2>8, <3>1 DEF UncamelFirst, CamelFirst
  <2> QED  BY <2>1, <2>6, <2>9, Stages DEF CaseInv
<1> QED  BY <1>1, <1>2 DEF PhizInit

\* A word given to phiz_camel or phiz_uncamel that has the style which this call
\* takes apart comes back unchanged from the other one, whatever the letters, the
\* word and the separator are: neither loop loses, doubles or misplaces a
\* character, and the flag found is right in front of every one.
THEOREM WordsComeBack == PhizSpec => []ComesBack
<1>1. CaseInv /\ [PhizNext]_<<vars, caseVars>> => CaseInv'
  <2>1. ASSUME CaseInv, UNCHANGED caseVars PROVE CaseInv'
    <3>1. sepch' = sepch /\ psep' = psep
      BY <2>1 DEF caseVars, sepch, psep
    <3>2. CaseKinds' /\ (Fitting' <=> Fitting)
      BY <2>1, <3>1, FittingSame DEF CaseInv, CaseKinds, caseVars
    <3> QED  BY <2>1, <3>1, <3>2 DEF CaseInv, caseVars, UncamelFirst, CamelFirst,
                  UncamelSecond, CamelSecond
  <2> QED  BY <2>1, CaseStep DEF PhizNext
<1>2. CaseInv => ComesBack
  BY DEF CaseInv, ComesBack, Fitting
<1> QED  BY <1>1, <1>2, CaseStart, PTL DEF PhizSpec
=============================================================================

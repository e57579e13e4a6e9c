-------------------------- MODULE TomlTablesProofs --------------------------
(***************************************************************************)
(* Proofs about TomlTables, for every set of keys and every bound: what    *)
(* the references in tags and headers lead to, that arrays of tables are   *)
(* counted right, that nothing given is taken away, where paths lead, and  *)
(* that no table is defined twice.                                         *)
(***************************************************************************)
EXTENDS TomlTables, SequenceTheorems, TLAPS

-----------------------------------------------------------------------------
(***************************************************************************)
(* The heap.                                                               *)
(***************************************************************************)
\* A new array goes behind the others and changes none of them.
LEMMA Appended ==
    ASSUME NEW m \in Seq(Array), NEW a \in Array
    PROVE  /\ Append(m, a) \in Seq(Array)
           /\ Len(Append(m, a)) = Len(m) + 1
           /\ \A n \in 1..Len(m) : Append(m, a)[n] = m[n]
           /\ Append(m, a)[Len(m) + 1] = a
  BY AppendProperties, SMT

\* An array replaced by another leaves the others as they were.
LEMMA Replaced ==
    ASSUME NEW m \in Seq(Array), NEW r \in 1..Len(m), NEW a \in Array,
           NEW m2, m2 = [m EXCEPT ![r] = a]
    PROVE  /\ m2 \in Seq(Array) /\ Len(m2) = Len(m)
           /\ \A n \in 1..Len(m) : m2[n] = IF n = r THEN a ELSE m[n]
  BY ExceptSeq

LEMMA ArrayWithEntry ==
    ASSUME NEW b \in Array, NEW k \in Keys, NEW v \in Nat
    PROVE  LET a == [b EXCEPT !.entry[k] = v] IN
           /\ a \in Array /\ a.item = b.item
           /\ \A x \in Keys : a.entry[x] = IF x = k THEN v ELSE b.entry[x]
  BY DEF Array

LEMMA ArrayWithItem ==
    ASSUME NEW b \in Array, NEW v \in Nat
    PROVE  LET a == [b EXCEPT !.item = Append(@, v)] IN
           a \in Array /\ a.entry = b.entry /\ a.item = Append(b.item, v)
<1>1. b.item \in Seq(Nat)
  BY DEF Array
<1>2. Append(b.item, v) \in Seq(Nat)
  BY <1>1, AppendProperties
<1> QED
  BY <1>2 DEF Array

LEMMA ItemsOfArray ==
    ASSUME NEW b \in Array PROVE b.item \in Seq(Nat)
  BY DEF Array

\* Giving an array a key changes what it has under that key and nothing else.
LEMMA EntryGiven ==
    ASSUME NEW m \in Seq(Array), NEW r \in 1..Len(m), NEW k \in Keys,
           NEW v \in Nat
    PROVE  LET m2 == WithEntry(m, r, k, v) IN
           /\ m2 \in Seq(Array) /\ Len(m2) = Len(m)
           /\ \A n \in 1..Len(m) :
                /\ m2[n].item = m[n].item
                /\ \A x \in Keys :
                     m2[n].entry[x] = IF n = r /\ x = k THEN v ELSE m[n].entry[x]
<1> DEFINE a == [m[r] EXCEPT !.entry[k] = v]
           m2 == WithEntry(m, r, k, v)
<1>1. m[r] \in Array
  BY ElementOfSeq
<1>2. /\ a \in Array /\ a.item = m[r].item
      /\ \A x \in Keys : a.entry[x] = IF x = k THEN v ELSE m[r].entry[x]
  BY <1>1, ArrayWithEntry
<1>3. m2 = [m EXCEPT ![r] = a]
  BY DEF WithEntry
<1> HIDE DEF a, m2
<1>4. /\ m2 \in Seq(Array) /\ Len(m2) = Len(m)
      /\ \A n \in 1..Len(m) : m2[n] = IF n = r THEN a ELSE m[n]
  BY <1>2, <1>3, Replaced
<1>5. \A n \in 1..Len(m) :
        /\ m2[n].item = m[n].item
        /\ \A x \in Keys :
             m2[n].entry[x] = IF n = r /\ x = k THEN v ELSE m[n].entry[x]
  BY <1>2, <1>4
<1> QED
  BY <1>4, <1>5 DEF m2

\* Appending an element to an array leaves its keys and elements as they were.
LEMMA ItemGiven ==
    ASSUME NEW m \in Seq(Array), NEW r \in 1..Len(m), NEW v \in Nat
    PROVE  LET m2 == WithItem(m, r, v) IN
           /\ m2 \in Seq(Array) /\ Len(m2) = Len(m)
           /\ \A n \in 1..Len(m) :
                /\ m2[n].entry = m[n].entry
                /\ m2[n].item = IF n = r THEN Append(m[r].item, v) ELSE m[n].item
<1> DEFINE a == [m[r] EXCEPT !.item = Append(@, v)]
           m2 == WithItem(m, r, v)
<1>1. m[r] \in Array
  BY ElementOfSeq
<1>2. a \in Array /\ a.entry = m[r].entry /\ a.item = Append(m[r].item, v)
  BY <1>1, ArrayWithItem
<1>3. m2 = [m EXCEPT ![r] = a]
  BY DEF WithItem
<1> HIDE DEF a, m2
<1>4. /\ m2 \in Seq(Array) /\ Len(m2) = Len(m)
      /\ \A n \in 1..Len(m) : m2[n] = IF n = r THEN a ELSE m[n]
  BY <1>2, <1>3, Replaced
<1>5. \A n \in 1..Len(m) :
        /\ m2[n].entry = m[n].entry
        /\ m2[n].item = IF n = r THEN Append(m[r].item, v) ELSE m[n].item
  BY <1>2, <1>4
<1> QED
  BY <1>4, <1>5 DEF m2

\* Empty arrays and list values hold nothing.
LEMMA NewArrays ==
    /\ EmptyArray \in Array /\ ListValue \in Array
    /\ EmptyArray.item = <<>> /\ ListValue.item = <<>>
    /\ \A k \in Keys : EmptyArray.entry[k] = Absent /\ ListValue.entry[k] = Absent
<1>1. EmptyArray \in Array
  BY EmptySeq DEF EmptyArray, Array
<1>2. EmptyArray.item = <<>> /\ \A k \in Keys : EmptyArray.entry[k] = Absent
  BY DEF EmptyArray
<1>3. \A b \in Array : LET a == [b EXCEPT !.list = TRUE] IN
         a \in Array /\ a.item = b.item /\ a.entry = b.entry
  BY DEF Array
<1> QED
  BY <1>1, <1>2, <1>3 DEF ListValue

-----------------------------------------------------------------------------
(***************************************************************************)
(* Heaps whose references lead to arrays, and how the parser lets them     *)
(* grow.                                                                   *)
(***************************************************************************)
HeapOK(m) ==
    /\ m \in Seq(Array)
    /\ \A n \in 1..Len(m) :
         /\ \A k \in Keys : m[n].entry[k] \in 1..Len(m) \cup {Absent, Scalar}
         /\ \A i \in DOMAIN m[n].item : m[n].item[i] \in 1..Len(m)

\* Every array of m is in m2, with the entries and elements it had.
Kept(m, m2) ==
    /\ Len(m) <= Len(m2)
    /\ \A n \in 1..Len(m) :
         /\ \A k \in Keys :
              m[n].entry[k] # Absent => m2[n].entry[k] = m[n].entry[k]
         /\ \A i \in DOMAIN m[n].item :
              i \in DOMAIN m2[n].item /\ m2[n].item[i] = m[n].item[i]

LEMMA ScalarGiven ==
    ASSUME NEW m, HeapOK(m), NEW r \in 1..Len(m), NEW k \in Keys,
           m[r].entry[k] = Absent, NEW m2, m2 = WithEntry(m, r, k, Scalar)
    PROVE  /\ HeapOK(m2) /\ Kept(m, m2) /\ Len(m2) = Len(m)
           /\ \A n \in 1..Len(m) :
                /\ m2[n].item = m[n].item
                /\ \A x \in Keys :
                     m2[n].entry[x] = IF n = r /\ x = k THEN Scalar ELSE m[n].entry[x]
<1>1. m \in Seq(Array) /\ Scalar \in Nat
  BY DEF HeapOK, Scalar
<1>2. /\ m2 \in Seq(Array) /\ Len(m2) = Len(m)
      /\ \A n \in 1..Len(m) :
           /\ m2[n].item = m[n].item
           /\ \A x \in Keys :
                m2[n].entry[x] = IF n = r /\ x = k THEN Scalar ELSE m[n].entry[x]
  BY <1>1, EntryGiven
<1>3. Len(m) \in Nat
  BY <1>1, LenProperties
<1>4. HeapOK(m2)
  BY <1>2, <1>3 DEF HeapOK
<1>5. Kept(m, m2)
  BY <1>2, <1>3 DEF Kept
<1> QED
  BY <1>2, <1>4, <1>5

\* A new array under a key that an array did not have.
LEMMA ArrayGiven ==
    ASSUME NEW m, HeapOK(m), NEW r \in 1..Len(m), NEW k \in Keys,
           m[r].entry[k] = Absent, NEW a \in {EmptyArray, ListValue}
    PROVE  LET m2 == Append(WithEntry(m, r, k, Len(m) + 1), a) IN
           /\ HeapOK(m2) /\ Kept(m, m2) /\ Len(m2) = Len(m) + 1
           /\ \A n \in 1..Len(m) :
                /\ m2[n].item = m[n].item
                /\ \A x \in Keys : m2[n].entry[x] =
                     IF n = r /\ x = k THEN Len(m) + 1 ELSE m[n].entry[x]
           /\ m2[Len(m) + 1].item = <<>>
           /\ \A x \in Keys : m2[Len(m) + 1].entry[x] = Absent
<1> DEFINE v == Len(m) + 1
           m1 == WithEntry(m, r, k, v)
           m2 == Append(m1, a)
<1>1. m \in Seq(Array) /\ Len(m) \in Nat /\ v \in Nat
  BY LenProperties DEF HeapOK
<1>2. /\ m1 \in Seq(Array) /\ Len(m1) = Len(m)
      /\ \A n \in 1..Len(m) :
           /\ m1[n].item = m[n].item
           /\ \A x \in Keys :
                m1[n].entry[x] = IF n = r /\ x = k THEN v ELSE m[n].entry[x]
  <2> HIDE DEF v
  <2> QED
    BY ONLY <1>1, r \in 1..Len(m), k \in Keys, EntryGiven
<1>v. v = Len(m) + 1
  OBVIOUS
<1> HIDE DEF m1, v
<1>3. a \in Array /\ a.item = <<>> /\ \A x \in Keys : a.entry[x] = Absent
  BY NewArrays
<1>4. /\ m2 \in Seq(Array) /\ Len(m2) = Len(m) + 1
      /\ \A n \in 1..Len(m) : m2[n] = m1[n]
      /\ m2[Len(m) + 1] = a
  <2>1. m1 \in Seq(Array) /\ a \in Array
    BY <1>2, <1>3
  <2>2. /\ m2 \in Seq(Array) /\ Len(m2) = Len(m1) + 1
        /\ \A n \in 1..Len(m1) : m2[n] = m1[n]
        /\ m2[Len(m1) + 1] = a
    BY <2>1, Appended
  <2> HIDE DEF m2
  <2> QED  BY <1>2, <2>2
<1> HIDE DEF m2
<1>5. \A n \in 1..Len(m2) : n \in 1..Len(m) \/ n = Len(m) + 1
  BY <1>1, <1>4
<1>6. HeapOK(m2)
  <2>1. ASSUME NEW n \in 1..Len(m)
        PROVE  /\ \A x \in Keys : m2[n].entry[x] \in 1..v \cup {Absent, Scalar}
               /\ \A i \in DOMAIN m2[n].item : m2[n].item[i] \in 1..v
    <3>1. m2[n] = m1[n] /\ m1[n].item = m[n].item
      BY <1>2, <1>4
    <3>2. /\ \A x \in Keys : m[n].entry[x] \in 1..Len(m) \cup {Absent, Scalar}
          /\ \A i \in DOMAIN m[n].item : m[n].item[i] \in 1..Len(m)
      BY DEF HeapOK
    <3>3. 1..Len(m) \subseteq 1..v /\ v \in 1..v
      BY <1>v, <1>1
    <3> QED  BY <1>2, <3>1, <3>2, <3>3
  <2> QED  BY <1>v, <1>3, <1>4, <1>5, <2>1 DEF HeapOK
<1>7. Kept(m, m2)
  BY <1>1, <1>2, <1>4 DEF Kept
<1> QED
  BY <1>2, <1>3, <1>4, <1>6, <1>7 DEF m1, m2, v

\* A new array as the last element of another.
LEMMA ElementGiven ==
    ASSUME NEW m, HeapOK(m), NEW r \in 1..Len(m)
    PROVE  LET m2 == Append(WithItem(m, r, Len(m) + 1), EmptyArray) IN
           /\ HeapOK(m2) /\ Kept(m, m2) /\ Len(m2) = Len(m) + 1
           /\ \A n \in 1..Len(m) :
                /\ Len(m2[n].item) = IF n = r THEN Len(m[n].item) + 1 ELSE Len(m[n].item)
                /\ \A x \in Keys : m2[n].entry[x] = m[n].entry[x]
                /\ \A i \in DOMAIN m2[n].item :
                     \/ i \in DOMAIN m[n].item /\ m2[n].item[i] = m[n].item[i]
                     \/ n = r /\ m2[n].item[i] = Len(m) + 1
           /\ m2[Len(m) + 1].item = <<>>
           /\ \A x \in Keys : m2[Len(m) + 1].entry[x] = Absent
<1> DEFINE v == Len(m) + 1
           before == m[r].item
           after == Append(before, v)
           m1 == WithItem(m, r, v)
           m2 == Append(m1, EmptyArray)
<1>1. m \in Seq(Array) /\ Len(m) \in Nat /\ v \in Nat
  BY LenProperties DEF HeapOK
<1>2. before \in Seq(Nat)
  <2>1. m[r] \in Array
    BY <1>1, ElementOfSeq
  <2> QED
    BY <2>1, ItemsOfArray
<1>3. /\ DOMAIN before = 1..Len(before) /\ Len(before) \in Nat
      /\ after \in Seq(Nat) /\ Len(after) = Len(before) + 1
      /\ \A i \in 1..Len(before) : after[i] = before[i]
      /\ after[Len(before) + 1] = v
  <2> HIDE DEF before, v
  <2> QED
    BY <1>1, <1>2, AppendProperties, LenProperties
<1>4. DOMAIN after = 1..Len(after)
  BY <1>3, LenProperties
<1>5. /\ m1 \in Seq(Array) /\ Len(m1) = Len(m)
      /\ \A n \in 1..Len(m) :
           /\ m1[n].entry = m[n].entry
           /\ m1[n].item = IF n = r THEN after ELSE m[n].item
  <2> HIDE DEF v
  <2> QED
    BY <1>1, ItemGiven
<1>6. /\ EmptyArray \in Array /\ EmptyArray.item = <<>>
      /\ \A x \in Keys : EmptyArray.entry[x] = Absent
  BY NewArrays
<1> HIDE DEF m1
<1>7. /\ m2 \in Seq(Array) /\ Len(m2) = Len(m) + 1
      /\ \A n \in 1..Len(m) : m2[n] = m1[n]
      /\ m2[Len(m) + 1] = EmptyArray
  <2>1. m1 \in Seq(Array) /\ EmptyArray \in Array
    BY <1>5, <1>6
  <2>2. /\ m2 \in Seq(Array) /\ Len(m2) = Len(m1) + 1
        /\ \A n \in 1..Len(m1) : m2[n] = m1[n]
        /\ m2[Len(m1) + 1] = EmptyArray
    BY <2>1, Appended
  <2> HIDE DEF m2
  <2> QED  BY <1>5, <2>2
<1>8. v = Len(m) + 1
  OBVIOUS
<1>9. before = m[r].item
  OBVIOUS
<1> HIDE DEF m2, after, before, v
<1>10. \A i \in DOMAIN after :
         \/ after[i] = v
         \/ i \in DOMAIN before /\ after[i] = before[i]
  BY <1>3, <1>4
<1>11. \A i \in DOMAIN before : i \in DOMAIN after /\ after[i] = before[i]
  BY <1>3, <1>4
<1>12. \A n \in 1..Len(m) : \A i \in DOMAIN m2[n].item :
         \/ n = r /\ m2[n].item[i] = v
         \/ i \in DOMAIN m[n].item /\ m2[n].item[i] = m[n].item[i]
  BY <1>5, <1>7, <1>9, <1>10
<1>13. \A n \in 1..Len(m) : \A i \in DOMAIN m[n].item :
         i \in DOMAIN m2[n].item /\ m2[n].item[i] = m[n].item[i]
  BY <1>5, <1>7, <1>9, <1>11
<1>14. \A n \in 1..Len(m) : \A k \in Keys : m2[n].entry[k] = m[n].entry[k]
  BY <1>5, <1>7
<1>15. Kept(m, m2)
  BY <1>1, <1>7, <1>13, <1>14 DEF Kept
<1>16. HeapOK(m2)
  <2>1. \A n \in 1..Len(m2) : n \in 1..Len(m) \/ n = v
    BY <1>1, <1>7, <1>8
  <2>2. ASSUME NEW n \in 1..Len(m)
        PROVE  /\ \A k \in Keys : m2[n].entry[k] \in 1..Len(m2) \cup {Absent, Scalar}
               /\ \A i \in DOMAIN m2[n].item : m2[n].item[i] \in 1..Len(m2)
    BY <1>1, <1>7, <1>8, <1>12, <1>14 DEF HeapOK
  <2>3. /\ \A k \in Keys : m2[v].entry[k] \in 1..Len(m2) \cup {Absent, Scalar}
        /\ \A i \in DOMAIN m2[v].item : m2[v].item[i] \in 1..Len(m2)
    BY <1>6, <1>7, <1>8
  <2> QED
    BY <1>7, <2>1, <2>2, <2>3 DEF HeapOK
<1>17. \A n \in 1..Len(m) :
         Len(m2[n].item) = IF n = r THEN Len(m[n].item) + 1 ELSE Len(m[n].item)
  BY <1>3, <1>5, <1>7, <1>9
<1>18. /\ m2[Len(m) + 1].item = <<>>
       /\ \A x \in Keys : m2[Len(m) + 1].entry[x] = Absent
  BY <1>6, <1>7
<1> QED
  BY <1>7, <1>8, <1>12, <1>14, <1>15, <1>16, <1>17, <1>18 DEF m1, m2

\* A new document.
LEMMA DocumentMade ==
    ASSUME NEW m, HeapOK(m)
    PROVE  LET m2 == Append(m, EmptyArray) IN
           /\ HeapOK(m2) /\ Kept(m, m2) /\ Len(m2) = Len(m) + 1
           /\ \A n \in 1..Len(m) : m2[n] = m[n]
           /\ m2[Len(m) + 1].item = <<>>
           /\ \A x \in Keys : m2[Len(m) + 1].entry[x] = Absent
<1> DEFINE m2 == Append(m, EmptyArray)
<1>1. m \in Seq(Array) /\ Len(m) \in Nat
  BY LenProperties DEF HeapOK
<1>2. /\ EmptyArray \in Array /\ EmptyArray.item = <<>>
      /\ \A x \in Keys : EmptyArray.entry[x] = Absent
  BY NewArrays
<1>3. /\ m2 \in Seq(Array) /\ Len(m2) = Len(m) + 1
      /\ \A n \in 1..Len(m) : m2[n] = m[n]
      /\ m2[Len(m) + 1] = EmptyArray
  BY <1>1, <1>2, Appended
<1> HIDE DEF m2
<1>4. \A n \in 1..Len(m2) : n \in 1..Len(m) \/ n = Len(m) + 1
  BY <1>1, <1>3
<1> QED
  BY <1>1, <1>2, <1>3, <1>4 DEF HeapOK, Kept, m2

-----------------------------------------------------------------------------
(***************************************************************************)
(* Tags and headers.                                                       *)
(***************************************************************************)
\* Every tag is about an array of its own, and counts its elements.
TagsOK(T, m) ==
    /\ \A p \in DOMAIN T :
         /\ p \in Seq(Keys) /\ T[p] \in Tag /\ T[p].base \in 1..Len(m)
         /\ T[p].n = Len(m[T[p].base].item)
         /\ T[p].aot /\ ~T[p].implicit => T[p].n > 0
    /\ \A p, q \in DOMAIN T : T[p].base = T[q].base => p = q

\* Arrays that are added, or get keys, do not concern the tags.
LEMMA TagsKept ==
    ASSUME NEW T, NEW m, NEW m2, TagsOK(T, m), Len(m) \in Nat, Len(m2) \in Nat,
           Len(m) <= Len(m2), \A n \in 1..Len(m) : m2[n].item = m[n].item
    PROVE  TagsOK(T, m2)
  BY DEF TagsOK

\* A bracket or a dot leaves the header where it was.
LEMMA HeaderTokens ==
    ASSUME NEW h \in Header
    PROVE  /\ LET h2 == [h EXCEPT !.isAOT = TRUE] IN
              h2 \in Header /\ h2.path = h.path /\ h2.ref = h.ref /\ h2.hitNew = h.hitNew
           /\ LET h2 == [h EXCEPT !.isAOT = FALSE, !.aotLength = 0] IN
              h2 \in Header /\ h2.path = h.path /\ h2.ref = h.ref /\ h2.hitNew = h.hitNew
           /\ LET h2 == [h EXCEPT !.dotCount = 1] IN
              h2 \in Header /\ h2.path = h.path /\ h2.ref = h.ref /\ h2.hitNew = h.hitNew
  BY DEF Header

LEMMA NoHeaderFields ==
    /\ NoHeader \in Header /\ NoHeader.ref = 0 /\ NoHeader.hitNew = FALSE
    /\ \A n \in Nat : LET h == [NoHeader EXCEPT !.ref = n] IN
         h \in Header /\ h.ref = n /\ h.hitNew = FALSE
  BY EmptySeq DEF NoHeader, Header

LEMMA TagFields ==
    ASSUME NEW t \in Tag, NEW b \in BOOLEAN
    PROVE  /\ t.aot \in BOOLEAN /\ t.implicit \in BOOLEAN
           /\ t.n \in Nat /\ t.base \in Nat
           /\ LET t2 == [t EXCEPT !.implicit = b] IN
              /\ t2 \in Tag /\ t2.aot = t.aot /\ t2.n = t.n
              /\ t2.base = t.base /\ t2.implicit = b
           /\ /\ Counted(t) \in Tag /\ Counted(t).aot = t.aot
              /\ Counted(t).implicit = t.implicit
              /\ Counted(t).n = t.n + 1 /\ Counted(t).base = t.base
<1>1. /\ t.aot \in BOOLEAN /\ t.implicit \in BOOLEAN
      /\ t.n \in Nat /\ t.base \in Nat
  BY DEF Tag
<1>2. LET t2 == [t EXCEPT !.implicit = b] IN
      /\ t2 \in Tag /\ t2.aot = t.aot /\ t2.n = t.n
      /\ t2.base = t.base /\ t2.implicit = b
  BY DEF Tag
<1>3. /\ Counted(t) \in Tag /\ Counted(t).aot = t.aot
      /\ Counted(t).implicit = t.implicit
      /\ Counted(t).n = t.n + 1 /\ Counted(t).base = t.base
  BY DEF Tag, Counted
<1> QED
  BY <1>1, <1>2, <1>3

\* The tag of a path that has one is set to one about the same array.
LEMMA TagSet ==
    ASSUME NEW T, NEW m, NEW m2, NEW path, NEW t,
           TagsOK(T, m), Len(m) \in Nat, Len(m2) \in Nat, Len(m) <= Len(m2),
           path \in DOMAIN T, t \in Tag, t.base = T[path].base,
           t.n = Len(m2[t.base].item), t.aot /\ ~t.implicit => t.n > 0,
           \A n \in 1..Len(m) : n # t.base => Len(m2[n].item) = Len(m[n].item)
    PROVE  TagsOK(WithTag(T, path, t), m2)
<1> DEFINE T2 == WithTag(T, path, t)
<1>1. DOMAIN T2 = DOMAIN T /\ \A p \in DOMAIN T : T2[p] = IF p = path THEN t ELSE T[p]
  BY DEF WithTag
<1> HIDE DEF T2
<1>2. \A p \in DOMAIN T2 : T2[p].base = T[p].base
  BY <1>1
<1>3. \A p \in DOMAIN T2 : p # path => T[p].base # t.base
  BY <1>1 DEF TagsOK
<1>4. ASSUME NEW p \in DOMAIN T2
      PROVE  /\ p \in Seq(Keys) /\ T2[p] \in Tag /\ T2[p].base \in 1..Len(m2)
             /\ T2[p].n = Len(m2[T2[p].base].item)
             /\ T2[p].aot /\ ~T2[p].implicit => T2[p].n > 0
  <2>1. p \in DOMAIN T /\ T[p].base \in 1..Len(m) /\ p \in Seq(Keys)
    BY <1>1, <1>4 DEF TagsOK
  <2>2. CASE p = path
    BY <1>1, <2>1, <2>2
  <2>3. CASE p # path
    <3>1. T2[p] = T[p] /\ Len(m2[T[p].base].item) = Len(m[T[p].base].item)
      BY <1>1, <1>3, <2>1, <2>3
    <3> QED
      BY <2>1, <3>1 DEF TagsOK
  <2> QED
    BY <2>2, <2>3
<1>5. \A p, q \in DOMAIN T2 : T2[p].base = T2[q].base => p = q
  BY <1>1, <1>2 DEF TagsOK
<1> QED
  BY <1>4, <1>5 DEF TagsOK, T2

\* A path gets its first tag, about an array that no tag was about.
LEMMA TagMade ==
    ASSUME NEW T, NEW m, NEW m2, NEW path \in Seq(Keys), NEW t,
           TagsOK(T, m), Len(m) \in Nat, Len(m2) \in Nat, Len(m) < Len(m2),
           path \notin DOMAIN T, t \in Tag, t.base \in 1..Len(m2), t.base > Len(m),
           t.n = Len(m2[t.base].item), t.implicit,
           \A n \in 1..Len(m) : m2[n].item = m[n].item
    PROVE  TagsOK(WithTag(T, path, t), m2)
<1> DEFINE T2 == WithTag(T, path, t)
<1>1. /\ DOMAIN T2 = DOMAIN T \cup {path} /\ T2[path] = t
      /\ \A p \in DOMAIN T : T2[p] = T[p]
  BY DEF WithTag
<1> HIDE DEF T2
<1>2. \A p \in DOMAIN T : T[p].base \in 1..Len(m)
  BY DEF TagsOK
<1>3. ASSUME NEW p \in DOMAIN T2
      PROVE  /\ p \in Seq(Keys) /\ T2[p] \in Tag /\ T2[p].base \in 1..Len(m2)
             /\ T2[p].n = Len(m2[T2[p].base].item)
             /\ T2[p].aot /\ ~T2[p].implicit => T2[p].n > 0
  <2>1. CASE p = path
    BY <1>1, <2>1
  <2>2. CASE p \in DOMAIN T
    <3>1. T2[p] = T[p] /\ m2[T[p].base].item = m[T[p].base].item
      BY <1>1, <1>2, <2>2
    <3> QED
      BY <1>2, <2>2, <3>1 DEF TagsOK
  <2> QED
    BY <1>1, <2>1, <2>2
<1>4. \A p, q \in DOMAIN T2 : T2[p].base = T2[q].base => p = q
  BY <1>1, <1>2 DEF TagsOK
<1> QED
  BY <1>3, <1>4 DEF TagsOK, T2

-----------------------------------------------------------------------------
(***************************************************************************)
(* The inductive invariant.  That the tags are about different arrays is   *)
(* what LastElementExists lacks: an element appended through one tag       *)
(* would otherwise be one that another tag has not counted.                *)
(***************************************************************************)
\* A header that has made an array is at an empty one, and has its tag.
HeaderTagged ==
    header.hitNew =>
      /\ header.path \in DOMAIN tags /\ status = "header"
      /\ \A k \in Keys : mem[header.ref].entry[k] = Absent

Control ==
    /\ root \in Nat /\ table \in Nat
    /\ status \in {"idle", "error", "line", "header"} /\ headed \subseteq 1..Len(mem)
    /\ header \in Header /\ header.ref \in 1..Len(mem) \cup {0}
    /\ status \in {"line", "header"} => root \in 1..Len(mem) /\ table \in 1..Len(mem)
    /\ (status = "header") = (header.ref # 0)
    /\ HeaderTagged

Inv == HeapOK(mem) /\ TagsOK(tags, mem) /\ Control

LEMMA InvImplies == Inv => TypeOK /\ LastElementExists
  BY DEF Inv, HeapOK, TagsOK, Control, TypeOK, LastElementExists, Node

LEMMA InitInv == Init => Inv
<1> SUFFICES ASSUME Init PROVE Inv
  OBVIOUS
<1>1. mem \in Seq(Array) /\ Len(mem) = 0
  BY EmptySeq DEF Init
<1>2. HeapOK(mem)
  BY <1>1 DEF HeapOK
<1>3. DOMAIN tags = {}
  BY DEF Init
<1>4. TagsOK(tags, mem)
  BY <1>3 DEF TagsOK
<1>5. Control
  BY NoHeaderFields DEF Init, Control, HeaderTagged
<1> QED
  BY <1>2, <1>4, <1>5 DEF Inv

\* What most actions need of a heap that stays or grows.
LEMMA SameHeap ==
    ASSUME Inv, mem' = mem
    PROVE  HeapOK(mem') /\ Kept(mem, mem') /\ Len(mem) \in Nat
  BY LenProperties DEF Inv, HeapOK, Kept

\* Steps that only move the header or end the document.
LEMMA QuietStep ==
    ASSUME Inv,
           \/ EndOfText \/ BadToken \/ OpenHeader \/ OpenBracket \/ CloseBracket
           \/ Dot \/ Misplaced \/ EmptyPath \/ DuplicatePath
           \/ \E k \in Keys : DuplicateKey(k) \/ KeyOfScalar(k)
    PROVE  Inv' /\ Kept(mem, mem')
<1>1. mem' = mem /\ tags' = tags /\ root' = root /\ table' = table /\ headed' = headed
  BY DEF EndOfText, BadToken, OpenHeader, OpenBracket, CloseBracket, Dot, Misplaced,
         EmptyPath, DuplicatePath, DuplicateKey, KeyOfScalar, Refuse
<1>2. HeapOK(mem') /\ Kept(mem, mem') /\ TagsOK(tags', mem')
  BY <1>1, SameHeap DEF Inv
<1> SUFFICES Control'
  BY <1>2 DEF Inv
<1>3. ASSUME Refuse PROVE Control'
  BY <1>1, <1>3, NoHeaderFields DEF Inv, Control, HeaderTagged, Refuse
<1>4. CASE \/ BadToken \/ Misplaced \/ EmptyPath \/ DuplicatePath
           \/ \E k \in Keys : DuplicateKey(k) \/ KeyOfScalar(k)
  BY <1>3, <1>4 DEF BadToken, Misplaced, EmptyPath, DuplicatePath, DuplicateKey, KeyOfScalar
<1>5. CASE EndOfText
  BY <1>1, <1>5 DEF Inv, Control, HeaderTagged, EndOfText
<1>6. CASE OpenHeader
  <2>1. root \in 1..Len(mem) /\ root \in Nat /\ Len(mem) \in Nat
    BY <1>1, <1>6, SameHeap DEF Inv, Control, OpenHeader
  <2>2. header' \in Header /\ header'.ref = root /\ header'.hitNew = FALSE
    BY <1>6, <2>1, NoHeaderFields DEF OpenHeader
  <2> QED
    BY <1>1, <1>6, <2>1, <2>2 DEF Inv, Control, HeaderTagged, OpenHeader
<1>7. CASE OpenBracket \/ CloseBracket \/ Dot
  <2>1. header \in Header
    BY DEF Inv, Control
  <2>2. /\ header' \in Header /\ header'.path = header.path
        /\ header'.ref = header.ref /\ header'.hitNew = header.hitNew
    BY <1>7, <2>1, HeaderTokens DEF OpenBracket, CloseBracket, Dot
  <2>3. status' = status
    BY <1>7 DEF OpenBracket, CloseBracket, Dot
  <2> QED
    BY <1>1, <2>2, <2>3 DEF Inv, Control, HeaderTagged
<1> QED
  BY <1>4, <1>5, <1>6, <1>7

LEMMA ParseStep ==
    ASSUME Inv, Parse
    PROVE  Inv' /\ Kept(mem, mem')
<1>1. Len(mem) \in Nat /\ HeapOK(mem) /\ mem' = Append(mem, EmptyArray)
  BY LenProperties DEF Inv, HeapOK, Parse
<1>2. /\ HeapOK(mem') /\ Kept(mem, mem') /\ Len(mem') = Len(mem) + 1
      /\ \A n \in 1..Len(mem) : mem'[n].item = mem[n].item
  BY <1>1, DocumentMade
<1>3. TagsOK(tags', mem')
  <2>1. TagsOK(tags, mem) /\ tags' = tags
    BY DEF Inv, Parse
  <2>2. Len(mem') \in Nat /\ Len(mem) <= Len(mem')
    BY <1>1, <1>2
  <2>3. \A n \in 1..Len(mem) : mem'[n].item = mem[n].item
    BY <1>2
  <2>4. TagsOK(tags, mem')
    BY ONLY <1>1, <2>1, <2>2, <2>3, TagsKept
  <2> QED
    BY <2>1, <2>4
<1>4. Control'
  BY <1>1, <1>2 DEF Inv, Control, HeaderTagged, Parse, Fresh
<1> QED
  BY <1>2, <1>3, <1>4 DEF Inv

LEMMA KeyValueStep ==
    ASSUME Inv, NEW k \in Keys, KeyValue(k)
    PROVE  Inv' /\ Kept(mem, mem')
<1>1. /\ Len(mem) \in Nat /\ HeapOK(mem) /\ table \in 1..Len(mem)
      /\ mem[table].entry[k] = Absent
  BY LenProperties DEF Inv, HeapOK, Control, KeyValue, Taken
<1>2. /\ HeapOK(mem') /\ Kept(mem, mem') /\ Len(mem') \in {Len(mem), Len(mem) + 1}
      /\ \A n \in 1..Len(mem) : mem'[n].item = mem[n].item
  <2>1. CASE mem' = WithEntry(mem, table, k, Scalar)
    <3>1. /\ HeapOK(mem') /\ Kept(mem, mem') /\ Len(mem') = Len(mem)
          /\ \A n \in 1..Len(mem) : mem'[n].item = mem[n].item
      BY ONLY <1>1, <2>1, ScalarGiven, k \in Keys
    <3> QED
      BY <3>1
  <2>2. CASE mem' = Append(WithEntry(mem, table, k, Fresh), ListValue)
    <3> DEFINE a == ListValue
    <3>0. a \in {EmptyArray, ListValue}
          /\ mem' = Append(WithEntry(mem, table, k, Len(mem) + 1), a)
      BY <2>2 DEF Fresh
    <3> HIDE DEF a
    <3>1. /\ HeapOK(mem') /\ Kept(mem, mem') /\ Len(mem') = Len(mem) + 1
          /\ \A n \in 1..Len(mem) : mem'[n].item = mem[n].item
      BY <1>1, <3>0, ArrayGiven
    <3> QED
      BY <3>1
  <2> QED
    BY <2>1, <2>2 DEF KeyValue
<1>3. TagsOK(tags', mem')
  <2>1. TagsOK(tags, mem) /\ tags' = tags
    BY DEF Inv, KeyValue
  <2> QED
    BY <1>1, <1>2, <2>1, TagsKept
<1>4. Control'
  BY <1>1, <1>2 DEF Inv, Control, HeaderTagged, KeyValue
<1> QED
  BY <1>2, <1>3, <1>4 DEF Inv

\* What an existing tag promises, in the words the actions use.
LEMMA TagOfPath ==
    ASSUME TagsOK(tags, mem), NEW path, NEW t, t = TagOf(path),
           t.aot \/ t.implicit \/ path \in DOMAIN tags
    PROVE  /\ path \in DOMAIN tags /\ t = tags[path] /\ path \in Seq(Keys)
           /\ t \in Tag /\ t.base \in 1..Len(mem) /\ t.n = Len(mem[t.base].item)
           /\ t.aot /\ ~t.implicit => t.n > 0
<1>1. path \in DOMAIN tags
  BY DEF TagOf
<1> QED
  BY <1>1 DEF TagOf, TagsOK

\* Going on along the path leads to an array: the last element exists.
LEMMA KeyOfArrayStep ==
    ASSUME Inv, NEW k \in Keys, KeyOfArray(k)
    PROVE  Inv' /\ Kept(mem, mem')
<1> DEFINE t == TagOf(Path(k))
           len == IF t.aot THEN header.aotLength + 1 ELSE header.aotLength
           to == Onward(t, Behind(k))
<1>1. /\ mem' = mem /\ tags' = tags /\ root' = root /\ table' = table
      /\ headed' = headed /\ status' = status /\ status = "header"
      /\ header' = [header EXCEPT !.path = Path(k), !.dotCount = 0, !.ref = to,
                                  !.aotLength = len]
  BY DEF KeyOfArray, AtKey
<1>2. HeapOK(mem') /\ Kept(mem, mem') /\ Len(mem) \in Nat /\ TagsOK(tags', mem')
  BY <1>1, SameHeap DEF Inv
<1>3. header \in Header
  BY DEF Inv, Control
<1>4. header.path \in Seq(Keys) /\ header.aotLength \in Nat
  BY <1>3 DEF Header
<1>5. Path(k) \in Seq(Keys)
  BY <1>4, AppendProperties DEF Path
<1>6. len \in Nat
  BY <1>4
<1>7. to \in 1..Len(mem)
  <2>1. CASE t.aot /\ ~t.implicit
    <3>1. t.base \in 1..Len(mem) /\ t.n = Len(mem[t.base].item) /\ t.n > 0
      BY <2>1, TagOfPath DEF Inv
    <3>2. mem[t.base] \in Array
      BY <3>1, ElementOfSeq DEF Inv, HeapOK
    <3>3. mem[t.base].item \in Seq(Nat)
      BY <3>2, ItemsOfArray
    <3>4. t.n \in DOMAIN mem[t.base].item
      BY <3>1, <3>3, LenProperties
    <3>5. mem[t.base].item[t.n] \in 1..Len(mem)
      BY <3>1, <3>4 DEF Inv, HeapOK
    <3> QED
      BY <2>1, <3>5 DEF Onward, endRef
  <2>2. CASE ~(t.aot /\ ~t.implicit)
    BY <2>2 DEF Onward, KeyOfArray, Node
  <2> QED
    BY <2>1, <2>2
<1> HIDE DEF len, to
<1>8. to \in Nat
  BY <1>2, <1>7
<1>9. /\ header' \in Header /\ header'.path = Path(k) /\ header'.ref = to
      /\ header'.hitNew = header.hitNew
  <2>1. header' = [header EXCEPT !.path = Path(k), !.dotCount = 0, !.ref = to,
                                 !.aotLength = len]
    BY <1>1
  <2> QED
    BY ONLY <1>3, <1>5, <1>6, <1>8, <2>1 DEF Header
<1>10. ~header.hitNew
  BY <1>2 DEF KeyOfArray, Behind, Node, Inv, Control, HeaderTagged, Absent
<1>11. Control'
  BY <1>1, <1>2, <1>7, <1>9, <1>10 DEF Inv, Control, HeaderTagged
<1> QED
  BY <1>2, <1>11 DEF Inv

\* A new array at the end of the path, with a tag of its own unless the path
\* has one already.
LEMMA KeyOfNothingStep ==
    ASSUME Inv, NEW k \in Keys, KeyOfNothing(k)
    PROVE  Inv' /\ Kept(mem, mem')
<1> DEFINE len == IF header.isAOT THEN header.aotLength + 1 ELSE header.aotLength
           path == Path(k)
           t == Branch(path)
<1>1. /\ Len(mem) \in Nat /\ HeapOK(mem) /\ header.ref \in 1..Len(mem)
      /\ mem[header.ref].entry[k] = Absent /\ header \in Header
      /\ status = "header" /\ TagsOK(tags, mem)
  BY LenProperties DEF Inv, HeapOK, Control, KeyOfNothing, AtKey, Behind
<1>2. mem' = Append(WithEntry(mem, header.ref, k, Len(mem) + 1), EmptyArray)
  BY DEF KeyOfNothing, Fresh
<1>3. /\ HeapOK(mem') /\ Kept(mem, mem') /\ Len(mem') = Len(mem) + 1
      /\ \A n \in 1..Len(mem) : mem'[n].item = mem[n].item
      /\ mem'[Len(mem) + 1].item = <<>>
  BY <1>1, <1>2, ArrayGiven
<1>4. header.path \in Seq(Keys) /\ header.aotLength \in Nat /\ header.isAOT \in BOOLEAN
  BY <1>1 DEF Header
<1>5. path \in Seq(Keys)
  BY <1>4, AppendProperties DEF Path
<1>6. len \in Nat
  BY <1>4
<1>7. \A x \in Keys : mem'[Len(mem) + 1].entry[x] = Absent
  <2>1. WithEntry(mem, header.ref, k, Len(mem) + 1) \in Seq(Array)
        /\ Len(WithEntry(mem, header.ref, k, Len(mem) + 1)) = Len(mem)
    <3> DEFINE v == Len(mem) + 1
    <3>1. v \in Nat /\ mem \in Seq(Array)
      BY <1>1 DEF HeapOK
    <3> HIDE DEF v
    <3>2. WithEntry(mem, header.ref, k, v) \in Seq(Array)
          /\ Len(WithEntry(mem, header.ref, k, v)) = Len(mem)
      BY <1>1, <3>1, EntryGiven
    <3> QED
      BY <3>2 DEF v
  <2>2. mem'[Len(mem) + 1] = EmptyArray
    BY <1>2, <2>1, NewArrays, Appended
  <2> QED
    BY <2>2, NewArrays
<1>8. tags' = WithTag(tags, path, t)
  BY DEF KeyOfNothing
<1>9. TagsOK(tags', mem')
  <2>1. CASE path \in DOMAIN tags
    <3>1. t = tags[path]
      BY <2>1 DEF Branch
    <3>2. /\ t \in Tag /\ t.base \in 1..Len(mem)
          /\ t.n = Len(mem[t.base].item) /\ (t.aot /\ ~t.implicit => t.n > 0)
      BY <1>1, <2>1, <3>1 DEF TagsOK
    <3>3. t.n = Len(mem'[t.base].item)
      BY <1>3, <3>2
    <3>4. Len(mem') \in Nat /\ Len(mem) <= Len(mem')
      BY <1>1, <1>3
    <3> HIDE DEF t, path
    <3>5. \A n \in 1..Len(mem) : n # t.base => Len(mem'[n].item) = Len(mem[n].item)
      BY <1>3
    <3> QED
      BY <1>1, <1>8, <2>1, <3>1, <3>2, <3>3, <3>4, <3>5, TagSet
  <2>2. CASE path \notin DOMAIN tags
    <3>1. t = [aot |-> header.isAOT, implicit |-> TRUE, n |-> 0, base |-> Len(mem) + 1]
      BY <2>2 DEF Branch, Fresh
    <3>2. t \in Tag /\ t.base = Len(mem) + 1 /\ t.n = 0 /\ t.implicit
      BY <1>1, <1>4, <3>1 DEF Tag
    <3>3. t.n = Len(mem'[t.base].item)
      BY <1>3, <3>2, EmptySeq
    <3>4. /\ Len(mem') \in Nat /\ Len(mem) < Len(mem')
          /\ t.base \in 1..Len(mem') /\ t.base > Len(mem)
      BY <1>1, <1>3, <3>2
    <3> HIDE DEF t, path
    <3> QED
      BY <1>1, <1>3, <1>5, <1>8, <2>2, <3>2, <3>3, <3>4, TagMade
  <2> QED
    BY <2>1, <2>2
<1>10. /\ header' \in Header /\ header'.path = path
       /\ header'.ref = Len(mem) + 1 /\ header'.hitNew = TRUE
  <2> DEFINE new == Len(mem) + 1
  <2>1. header' = [header EXCEPT !.path = path, !.dotCount = 0, !.ref = new,
                                 !.hitNew = TRUE, !.aotLength = len]
    BY DEF KeyOfNothing, Fresh
  <2>2. header \in Header /\ new \in Nat
    BY <1>1
  <2> HIDE DEF path, len, new
  <2>3. header' \in Header /\ header'.path = path /\ header'.ref = new /\ header'.hitNew = TRUE
    BY ONLY <1>5, <1>6, <2>1, <2>2 DEF Header
  <2> QED
    BY <2>3 DEF new
<1>11. path \in DOMAIN tags'
  BY <1>8 DEF WithTag
<1>12. Control'
  <2>1. root' = root /\ table' = table /\ status' = status /\ headed' = headed
    BY DEF KeyOfNothing
  <2> HIDE DEF path
  <2> QED
    BY <1>1, <1>3, <1>7, <1>10, <1>11, <2>1 DEF Inv, Control, HeaderTagged
<1> QED
  BY <1>3, <1>9, <1>12 DEF Inv

\* A header that ends keeps its tag, but for the mark that it was implicit.
LEMMA EndTableStep ==
    ASSUME Inv, EndTable
    PROVE  Inv' /\ Kept(mem, mem')
<1> DEFINE t == [LastTag EXCEPT !.implicit = FALSE]
<1>1. /\ mem' = mem /\ header.path # <<>> /\ ~LastTag.aot /\ status = "header"
      /\ header.hitNew \/ LastTag.implicit
      /\ tags' = WithTag(tags, header.path, t)
      /\ table' = header.ref /\ headed' = headed \cup {header.ref}
      /\ status' = "line" /\ header' = NoHeader /\ root' = root
  BY DEF EndTable, EndAt, AtEnd
<1>2. HeapOK(mem') /\ Kept(mem, mem') /\ Len(mem) \in Nat /\ TagsOK(tags, mem)
  BY <1>1, SameHeap DEF Inv
<1>3. header.hitNew \in BOOLEAN /\ (header.hitNew => header.path \in DOMAIN tags)
  BY DEF Inv, Control, HeaderTagged, Header
<1>4. /\ header.path \in DOMAIN tags /\ LastTag = tags[header.path]
      /\ LastTag \in Tag /\ LastTag.n = Len(mem[LastTag.base].item)
  BY <1>1, <1>2, <1>3, TagOfPath DEF LastTag
<1>5. t \in Tag /\ t.aot = LastTag.aot /\ t.n = LastTag.n /\ t.base = LastTag.base
  <2> DEFINE e == FALSE
  <2>1. e \in BOOLEAN /\ t = [LastTag EXCEPT !.implicit = e]
    OBVIOUS
  <2> HIDE DEF e, t
  <2> QED  BY <1>4, <2>1, TagFields
<1> HIDE DEF t
<1>6. TagsOK(tags', mem)
  BY <1>1, <1>2, <1>4, <1>5, TagSet
<1>7. Control'
  BY <1>1, <1>2, NoHeaderFields DEF Inv, Control, HeaderTagged
<1> QED
  BY <1>1, <1>2, <1>6, <1>7 DEF Inv

\* A new element: its array and its tag both count one more.
LEMMA EndElementStep ==
    ASSUME Inv, EndElement
    PROVE  Inv' /\ Kept(mem, mem')
<1> DEFINE e == LastTag.implicit /\ ~header.hitNew
           t == [Counted(LastTag) EXCEPT !.implicit = e]
           new == Len(mem) + 1
<1>1. /\ header.path # <<>> /\ LastTag.aot /\ status = "header"
      /\ mem' = Elements(LastTag)
      /\ tags' = WithTag(tags, header.path,
                         [Counted(LastTag) EXCEPT !.implicit = @ /\ ~header.hitNew])
      /\ table' = new /\ headed' = headed \cup {new}
      /\ status' = "line" /\ header' = NoHeader /\ root' = root
  BY DEF EndElement, EndAt, AtEnd, Fresh
<1>2. Len(mem) \in Nat /\ HeapOK(mem) /\ TagsOK(tags, mem)
  BY LenProperties DEF Inv, HeapOK
<1>3. /\ header.path \in DOMAIN tags /\ LastTag = tags[header.path]
      /\ LastTag \in Tag /\ LastTag.base \in 1..Len(mem)
      /\ LastTag.n = Len(mem[LastTag.base].item)
  BY <1>1, <1>2, TagOfPath DEF LastTag
<1>4. /\ HeapOK(mem') /\ Kept(mem, mem') /\ Len(mem') = Len(mem) + 1
      /\ \A n \in 1..Len(mem) :
           Len(mem'[n].item) = IF n = LastTag.base THEN Len(mem[n].item) + 1
                               ELSE Len(mem[n].item)
  <2>1. mem' = Append(WithItem(mem, LastTag.base, Len(mem) + 1), EmptyArray)
    BY <1>1 DEF Elements, Fresh
  <2> DEFINE r == LastTag.base
  <2>2. r \in 1..Len(mem) /\ HeapOK(mem)
    BY <1>2, <1>3
  <2> HIDE DEF r
  <2>3. LET m2 == Append(WithItem(mem, r, Len(mem) + 1), EmptyArray)
        IN  /\ HeapOK(m2) /\ Kept(mem, m2) /\ Len(m2) = Len(mem) + 1
            /\ \A n \in 1..Len(mem) :
                 Len(m2[n].item) = IF n = r THEN Len(mem[n].item) + 1
                                   ELSE Len(mem[n].item)
    BY <2>2, ElementGiven
  <2> QED  BY <2>1, <2>3 DEF r
<1>5. /\ Counted(LastTag) \in Tag /\ Counted(LastTag).n = LastTag.n + 1
      /\ Counted(LastTag).implicit = LastTag.implicit
      /\ Counted(LastTag).base = LastTag.base /\ LastTag.n \in Nat
  BY <1>3, TagFields
<1>6. e \in BOOLEAN
  OBVIOUS
<1>7. tags' = WithTag(tags, header.path, t)
  BY <1>1, <1>5
<1> HIDE DEF e
<1>8. t \in Tag /\ t.n = LastTag.n + 1 /\ t.base = LastTag.base
  BY <1>5, <1>6, TagFields
<1> HIDE DEF t
<1>9. t.n = Len(mem'[t.base].item) /\ t.n > 0
  <2>1. Len(mem'[t.base].item) = Len(mem[t.base].item) + 1
    BY <1>3, <1>4, <1>8
  <2> QED
    BY <1>3, <1>5, <1>8, <2>1
<1>10. Len(mem') \in Nat /\ Len(mem) <= Len(mem')
  BY <1>2, <1>4
<1>11. \A n \in 1..Len(mem) : n # t.base => Len(mem'[n].item) = Len(mem[n].item)
  BY <1>4, <1>8
<1>12. TagsOK(tags', mem')
  BY <1>2, <1>3, <1>7, <1>8, <1>9, <1>10, <1>11, TagSet
<1>13. Control'
  BY <1>1, <1>2, <1>4, NoHeaderFields DEF Inv, Control, HeaderTagged
<1> QED
  BY <1>4, <1>12, <1>13 DEF Inv

-----------------------------------------------------------------------------
(***************************************************************************)
(* The theorems.                                                           *)
(***************************************************************************)
LEMMA StepInv ==
    ASSUME Inv, [Next]_vars
    PROVE  Inv' /\ Kept(mem, mem')
<1>1. CASE \/ EndOfText \/ BadToken \/ OpenHeader \/ OpenBracket \/ CloseBracket
           \/ Dot \/ Misplaced \/ EmptyPath \/ DuplicatePath
           \/ \E k \in Keys : DuplicateKey(k) \/ KeyOfScalar(k)
  BY <1>1, QuietStep
<1>2. CASE Parse
  BY <1>2, ParseStep
<1>3. CASE EndTable
  BY <1>3, EndTableStep
<1>4. CASE EndElement
  BY <1>4, EndElementStep
<1>5. ASSUME NEW k \in Keys, KeyValue(k) \/ KeyOfArray(k) \/ KeyOfNothing(k)
      PROVE  Inv' /\ Kept(mem, mem')
  BY <1>5, KeyValueStep, KeyOfArrayStep, KeyOfNothingStep
<1>6. CASE UNCHANGED vars
  <2>1. Kept(mem, mem')
    BY <1>6, SameHeap DEF vars
  <2> QED
    BY <1>6, <2>1 DEF vars, Inv, Control, HeaderTagged
<1> QED
  BY <1>1, <1>2, <1>3, <1>4, <1>5, <1>6 DEF Next

LEMMA Always == Spec => []Inv
  BY InitInv, StepInv, PTL DEF Spec

\* Arrays, tags and headers are well formed, and every reference that the
\* parser follows leads to an array, over any number of documents.
THEOREM TablesTypes == Spec => []TypeOK
  BY Always, InvImplies, PTL

\* The count of a tag is the number of elements of its array, and endRef is
\* never asked for the last element of none, over any number of documents.
THEOREM ElementsCounted == Spec => []LastElementExists
  BY Always, InvImplies, PTL

\* No line or header of this or a later document, correct or in error, takes an
\* entry or an element away.
THEOREM NothingTakenAway == Spec => KeepsEntries
<1>1. ASSUME Inv, [Next]_vars
      PROVE  [\A n \in Node :
                /\ \A k \in Keys :
                     mem[n].entry[k] # Absent => mem'[n].entry[k] = mem[n].entry[k]
                /\ \A i \in DOMAIN mem[n].item :
                     i \in DOMAIN mem'[n].item /\ mem'[n].item[i] = mem[n].item[i]]_vars
  BY <1>1, StepInv DEF Kept, Node
<1> QED
  BY <1>1, Always, PTL DEF Spec, KeepsEntries


-----------------------------------------------------------------------------
(***************************************************************************)
(* Where paths lead, in any heap and under any tags.                       *)
(***************************************************************************)
\* The arrays along a path.
Along(m, r, path, at) ==
    /\ at \in [0..Len(path) -> 1..Len(m)]
    /\ at[0] = r
    /\ \A i \in 1..Len(path) : m[at[i - 1]].entry[path[i]] = at[i]

LeadsIn(m, r, path, n) == \E at : Along(m, r, path, at) /\ at[Len(path)] = n

LEMMA LeadsInMem == \A path, n : Leads(path, n) <=> LeadsIn(mem, root, path, n)
  BY DEF Leads, LeadsIn, Along, Node

LEMMA LeadsKept ==
    ASSUME NEW m, NEW m2, HeapOK(m), HeapOK(m2), Kept(m, m2),
           NEW path \in Seq(Keys), NEW r, NEW n, LeadsIn(m, r, path, n)
    PROVE  LeadsIn(m2, r, path, n)
<1>1. PICK at : Along(m, r, path, at) /\ at[Len(path)] = n
  BY DEF LeadsIn
<1>2. Len(m) \in Nat /\ Len(m2) \in Nat /\ Len(m) <= Len(m2) /\ Len(path) \in Nat
  BY LenProperties DEF HeapOK, Kept
<1>3. at \in [0..Len(path) -> 1..Len(m2)]
  BY <1>1, <1>2 DEF Along
<1>4. ASSUME NEW i \in 1..Len(path)
      PROVE  m2[at[i - 1]].entry[path[i]] = at[i]
  <2>1. /\ at[i - 1] \in 1..Len(m) /\ at[i] \in 1..Len(m) /\ at[i] # Absent
        /\ m[at[i - 1]].entry[path[i]] = at[i]
    BY <1>1, <1>2 DEF Along, Absent
  <2>2. path[i] \in Keys
    BY ElementOfSeq
  <2> QED  BY <2>1, <2>2 DEF Kept
<1>5. Along(m2, r, path, at)
  BY <1>1, <1>3, <1>4 DEF Along
<1> QED  BY <1>1, <1>5 DEF LeadsIn

LEMMA LeadsNowhere ==
    ASSUME NEW m, NEW r \in 1..Len(m)
    PROVE  LeadsIn(m, r, <<>>, r)
<1> DEFINE e == <<>>
           at == [i \in {0} |-> r]
<1>1. Len(e) = 0 /\ 0..0 = {0} /\ 1..0 = {}
  BY EmptySeq
<1>2. at[0] = r /\ at \in [{0} -> 1..Len(m)]
  OBVIOUS
<1> HIDE DEF e, at
<1>3. LeadsIn(m, r, e, r)
  BY <1>1, <1>2 DEF LeadsIn, Along
<1> QED  BY <1>3 DEF e

\* A path leads through one array to the next.
LEMMA LeadsOn ==
    ASSUME NEW m, NEW r, NEW path \in Seq(Keys), NEW k \in Keys,
           NEW n, LeadsIn(m, r, path, n), NEW v \in 1..Len(m), m[n].entry[k] = v
    PROVE  LeadsIn(m, r, Append(path, k), v)
<1> DEFINE long == Append(path, k)
           len == Len(path)
<1>1. PICK at : Along(m, r, path, at) /\ at[len] = n
  BY DEF LeadsIn
<1>2. len \in Nat /\ Len(long) = len + 1 /\ long[len + 1] = k
      /\ \A i \in 1..len : long[i] = path[i]
  BY AppendProperties, LenProperties
<1> DEFINE to == [i \in 0..(len + 1) |-> IF i = len + 1 THEN v ELSE at[i]]
<1> HIDE DEF len, long
<1>3. /\ at \in [0..len -> 1..Len(m)] /\ at[0] = r
      /\ \A i \in 1..len : m[at[i - 1]].entry[path[i]] = at[i]
  BY <1>1 DEF Along, len
<1>4. /\ to \in [0..(len + 1) -> 1..Len(m)] /\ to[0] = r /\ to[len + 1] = v
      /\ \A i \in 0..len : to[i] = at[i]
  BY <1>2, <1>3
<1> HIDE DEF to
<1>5. ASSUME NEW i \in 1..(len + 1)
      PROVE  m[to[i - 1]].entry[long[i]] = to[i]
  <2>1. CASE i = len + 1
    <3>1. i - 1 = len /\ len \in 0..len
      BY <1>2, <2>1
    <3> QED  BY <1>1, <1>2, <1>4, <2>1, <3>1
  <2>2. CASE i # len + 1
    <3>1. i \in 1..len /\ i - 1 \in 0..len /\ i \in 0..len
      BY <1>2, <2>2
    <3> QED  BY <1>2, <1>3, <1>4, <3>1
  <2> QED  BY <2>1, <2>2
<1>6. Along(m, r, long, to) /\ to[Len(long)] = v
  BY <1>2, <1>4, <1>5 DEF Along
<1> QED  BY <1>6 DEF LeadsIn, long

\* No array of tables is on the way, under the tags T.
AotIn(T, path) == path \in DOMAIN T /\ T[path].aot
PlainIn(T, path) == \A n \in 1..Len(path) : ~ AotIn(T, SubSeq(path, 1, n))

LEMMA PlainInTags == \A path : Plain(path) <=> PlainIn(tags, path)
  BY DEF Plain, PlainIn, AotIn, TagOf

LEMMA PlainOn ==
    ASSUME NEW T, NEW path \in Seq(Keys), NEW k \in Keys
    PROVE  /\ PlainIn(T, Append(path, k)) <=>
                PlainIn(T, path) /\ ~ AotIn(T, Append(path, k))
           /\ SubSeq(Append(path, k), 1, Len(Append(path, k)) - 1) = path
<1> DEFINE long == Append(path, k)
           len == Len(path)
<1>1. len \in Nat /\ Len(long) = len + 1 /\ long \in Seq(Keys)
      /\ \A i \in 1..len : long[i] = path[i]
  BY AppendProperties, LenProperties
<1>2. ASSUME NEW n \in 0..len
      PROVE  SubSeq(long, 1, n) = SubSeq(path, 1, n)
  <2>1. /\ n \in Int /\ 1 \in Int
        /\ \A i \in 1..n : i \in 1..Len(path) /\ i \in 1..Len(long)
    BY <1>1
  <2>2. \A i \in 1..n : path[i] \in Keys /\ long[i] = path[i] /\ long[i] \in Keys
    BY <1>1, <2>1, ElementOfSeq
  <2>3. PICK a, b : a = SubSeq(long, 1, n) /\ b = SubSeq(path, 1, n)
    OBVIOUS
  <2> HIDE DEF long
  <2>4. /\ a \in Seq(Keys) /\ Len(a) = IF 1 <= n THEN n - 1 + 1 ELSE 0
        /\ \A i \in 1..(n - 1 + 1) : a[i] = long[1 + i - 1]
    BY <2>1, <2>2, <2>3, SubSeqProperties
  <2>5. /\ b \in Seq(Keys) /\ Len(b) = IF 1 <= n THEN n - 1 + 1 ELSE 0
        /\ \A i \in 1..(n - 1 + 1) : b[i] = path[1 + i - 1]
    BY <2>1, <2>2, <2>3, SubSeqProperties
  <2>6. Len(a) = n /\ Len(b) = n
    BY <2>1, <2>4, <2>5, <1>1
  <2>7. \A i \in 1..n : a[i] = b[i]
    BY <2>1, <2>2, <2>4, <2>5
  <2>8. a = b
    BY <2>4, <2>5, <2>6, <2>7, SeqEqual
  <2> QED  BY <2>3, <2>8
<1>3. SubSeq(long, 1, len + 1) = long /\ SubSeq(path, 1, len) = path
  BY <1>1, SubSeqFull
<1>4. SubSeq(long, 1, Len(long) - 1) = path
  BY <1>1, <1>2, <1>3
<1> HIDE DEF long, len
<1>5. \A n \in 1..(len + 1) : n \in 0..len \/ n = len + 1
  BY <1>1
<1>6. \A n \in 1..len : n \in 0..len /\ n \in 1..(len + 1)
  BY <1>1
<1>7. PlainIn(T, long) => PlainIn(T, path) /\ ~ AotIn(T, long)
  <2>1. len + 1 \in 1..Len(long)
    BY <1>1
  <2> QED  BY <1>1, <1>2, <1>3, <1>6, <2>1 DEF PlainIn, len
<1>8. PlainIn(T, path) /\ ~ AotIn(T, long) => PlainIn(T, long)
  <2>1. \A n \in 1..(len + 1) : (n \in 1..len /\ n \in 0..len) \/ n = len + 1
    BY <1>1
  <2> QED  BY <1>1, <1>2, <1>3, <2>1 DEF PlainIn, len
<1> QED  BY <1>4, <1>7, <1>8 DEF long

-----------------------------------------------------------------------------
(***************************************************************************)
(* PathsLead is inductive: entries are kept, tags keep their arrays, and   *)
(* no tag ceases to be one of an array of tables.                          *)
(***************************************************************************)
TagsLead ==
    \A p \in DOMAIN tags :
        PlainIn(tags, SubSeq(p, 1, Len(p) - 1)) =>
            LeadsIn(mem, root, p, tags[p].base)

HeaderLeads ==
    status = "header" /\ PlainIn(tags, header.path) =>
        LeadsIn(mem, root, header.path, header.ref)

PathsInv == root = 1 => TagsLead /\ HeaderLeads

LEMMA PathsInvIsPathsLead == PathsInv <=> PathsLead
  BY LeadsInMem, PlainInTags DEF PathsInv, PathsLead, TagsLead, HeaderLeads

TagsStay ==
    \A p \in DOMAIN tags :
        p \in DOMAIN tags' /\ tags'[p].base = tags[p].base /\ (tags[p].aot => tags'[p].aot)

LEMMA PlainFewer ==
    ASSUME TagsStay, NEW path, PlainIn(tags', path)
    PROVE  PlainIn(tags, path)
  BY DEF TagsStay, PlainIn, AotIn

LEMMA OldTagsLead ==
    ASSUME Inv, Inv', TagsLead, Kept(mem, mem'), root' = root, TagsStay,
           NEW p \in DOMAIN tags, PlainIn(tags', SubSeq(p, 1, Len(p) - 1))
    PROVE  LeadsIn(mem', root', p, tags'[p].base)
<1>1. PlainIn(tags, SubSeq(p, 1, Len(p) - 1))
  BY PlainFewer
<1>2. LeadsIn(mem, root, p, tags[p].base) /\ p \in Seq(Keys)
  BY <1>1 DEF TagsLead, Inv, TagsOK
<1>3. HeapOK(mem) /\ HeapOK(mem') /\ tags'[p].base = tags[p].base
  BY DEF Inv, TagsStay
<1> QED  BY <1>2, <1>3, LeadsKept

LEMMA HeaderStays ==
    ASSUME Inv, Inv', HeaderLeads, Kept(mem, mem'), root' = root, TagsStay,
           \/ status' # "header"
           \/ status = "header" /\ header'.path = header.path
              /\ header'.ref = header.ref
    PROVE  HeaderLeads'
<1> SUFFICES ASSUME status' = "header", PlainIn(tags', header'.path)
             PROVE  LeadsIn(mem', root', header'.path, header'.ref)
  BY DEF HeaderLeads
<1>1. LeadsIn(mem, root, header.path, header.ref)
  BY PlainFewer DEF HeaderLeads
<1>2. header.path \in Seq(Keys) /\ HeapOK(mem) /\ HeapOK(mem')
  BY DEF Inv, Control, Header
<1> QED  BY <1>1, <1>2, LeadsKept

\* Only KeyOfNothing makes a tag, and only EndElement and EndTable change one.
LEMMA TagsStayMostly ==
    ASSUME Inv, [Next]_vars, \A k \in Keys : ~ KeyOfNothing(k)
    PROVE  TagsStay /\ DOMAIN tags' = DOMAIN tags
<1>1. CASE tags' = tags
  BY <1>1 DEF TagsStay
<1>2. CASE EndTable \/ EndElement
  <2>1. /\ EndTable => header.hitNew \/ LastTag.implicit
        /\ EndElement => LastTag.aot
        /\ status = "header"
    BY <1>2 DEF EndTable, EndElement, AtEnd
  <2>2. header.hitNew => header.path \in DOMAIN tags
    BY DEF Inv, Control, HeaderTagged
  <2>3. /\ header.path \in DOMAIN tags /\ LastTag = tags[header.path]
        /\ LastTag \in Tag
    BY <1>2, <2>1, <2>2, TagOfPath DEF LastTag, Inv
  <2>4. \E t : /\ tags' = WithTag(tags, header.path, t)
               /\ t.base = LastTag.base /\ t.aot = LastTag.aot
    <3>1. CASE EndTable
      <4>1. tags' = WithTag(tags, header.path, [LastTag EXCEPT !.implicit = FALSE])
        BY <3>1 DEF EndTable
      <4> DEFINE e == FALSE
      <4>2. e \in BOOLEAN
        OBVIOUS
      <4> HIDE DEF e
      <4>3. [LastTag EXCEPT !.implicit = e].base = LastTag.base
            /\ [LastTag EXCEPT !.implicit = e].aot = LastTag.aot
        BY <2>3, <4>2, TagFields
      <4> QED  BY <4>1, <4>3, Zenon DEF e
    <3>2. CASE EndElement
      <4> DEFINE c == Counted(LastTag)
                 e == c.implicit /\ ~header.hitNew
      <4>1. tags' = WithTag(tags, header.path, [c EXCEPT !.implicit = e])
        BY <3>2, Zenon DEF EndElement
      <4>2. c \in Tag /\ c.base = LastTag.base /\ c.aot = LastTag.aot /\ e \in BOOLEAN
        <5>1. c \in Tag /\ c.base = LastTag.base /\ c.aot = LastTag.aot
          BY <2>3, TagFields
        <5> QED  BY <5>1
      <4> HIDE DEF c, e
      <4>3. [c EXCEPT !.implicit = e].base = c.base
            /\ [c EXCEPT !.implicit = e].aot = c.aot
        BY <4>2, TagFields
      <4> QED  BY <4>1, <4>2, <4>3, Zenon
    <3> QED  BY <1>2, <3>1, <3>2
  <2> QED  BY <2>3, <2>4 DEF TagsStay, WithTag
<1> QED
  BY <1>1, <1>2 DEF Next, vars, Parse, EndOfText, BadToken, OpenHeader, OpenBracket,
     CloseBracket, Dot, Misplaced, EmptyPath, DuplicatePath, DuplicateKey, KeyValue,
     KeyOfScalar, KeyOfArray, Refuse

\* What KeyOfArray and KeyOfNothing make of a header.
LEMMA HeaderGoesOn ==
    ASSUME NEW h \in Header, NEW p, NEW d, NEW r, NEW a, NEW b
    PROVE  /\ LET h2 == [h EXCEPT !.path = p, !.dotCount = d, !.ref = r,
                                  !.aotLength = a]
              IN  h2.path = p /\ h2.ref = r /\ h2.hitNew = h.hitNew
           /\ LET h2 == [h EXCEPT !.path = p, !.dotCount = d, !.ref = r,
                                  !.hitNew = b, !.aotLength = a]
              IN  h2.path = p /\ h2.ref = r /\ h2.hitNew = b
  BY DEF Header

LEMMA KeyOfArrayLeads ==
    ASSUME Inv, Inv', HeaderLeads, NEW k \in Keys, KeyOfArray(k)
    PROVE  HeaderLeads'
<1>1. /\ mem' = mem /\ tags' = tags /\ root' = root /\ status = "header"
      /\ Behind(k) \in Node
      /\ header' = [header EXCEPT
                      !.path = Path(k), !.dotCount = 0,
                      !.ref = Onward(TagOf(Path(k)), Behind(k)),
                      !.aotLength = IF TagOf(Path(k)).aot THEN @ + 1 ELSE @]
  BY DEF KeyOfArray, AtKey
<1>2. header \in Header
  BY DEF Inv, Control
<1>3. header.path \in Seq(Keys)
  BY <1>2 DEF Header
<1>4. header'.path = Path(k) /\ header'.ref = Onward(TagOf(Path(k)), Behind(k))
  BY <1>1, <1>2, HeaderGoesOn
<1> SUFFICES ASSUME PlainIn(tags, Path(k))
             PROVE  LeadsIn(mem, root, Path(k), header'.ref)
  BY <1>1, <1>4 DEF HeaderLeads
<1>5. PlainIn(tags, header.path) /\ ~ AotIn(tags, Path(k))
  BY <1>3, PlainOn DEF Path
<1>6. ~ TagOf(Path(k)).aot
  BY <1>5 DEF AotIn, TagOf
<1>7. header'.ref = Behind(k)
  BY <1>4, <1>6 DEF Onward
<1>8. LeadsIn(mem, root, header.path, header.ref)
  BY <1>1, <1>5 DEF HeaderLeads
<1>9. Behind(k) \in 1..Len(mem) /\ mem[header.ref].entry[k] = Behind(k)
  BY <1>1 DEF Behind, Node
<1> HIDE DEF Behind
<1>10. LeadsIn(mem, root, Append(header.path, k), Behind(k))
  BY <1>3, <1>8, <1>9, LeadsOn
<1> QED  BY <1>7, <1>10 DEF Path

LEMMA KeyOfNothingLeads ==
    ASSUME Inv, Inv', TagsLead, HeaderLeads, Kept(mem, mem'), NEW k \in Keys,
           KeyOfNothing(k)
    PROVE  TagsLead' /\ HeaderLeads'
<1> DEFINE path == Path(k)
           new == Len(mem) + 1
<1>1. /\ Len(mem) \in Nat /\ HeapOK(mem) /\ header.ref \in 1..Len(mem)
      /\ mem[header.ref].entry[k] = Absent /\ header \in Header
      /\ status = "header" /\ root' = root
      /\ mem' = Append(WithEntry(mem, header.ref, k, new), EmptyArray)
      /\ tags' = WithTag(tags, path, Branch(path))
      /\ header' = [header EXCEPT
                    !.path = path, !.dotCount = 0, !.ref = new,
                    !.hitNew = TRUE,
                    !.aotLength = IF header.isAOT THEN @ + 1 ELSE @]
  BY LenProperties DEF Inv, HeapOK, Control, KeyOfNothing, AtKey, Behind, Fresh
<1>2. Len(mem') = new /\ mem'[header.ref].entry[k] = new
  BY <1>1, ArrayGiven
<1>3. header.path \in Seq(Keys)
  BY <1>1 DEF Header
<1>4. header'.path = path /\ header'.ref = new
  BY <1>1, HeaderGoesOn
<1>5. TagsStay
  BY <1>1 DEF TagsStay, WithTag, Branch
<1>6. new \in 1..Len(mem')
  BY <1>1, <1>2
<1> HIDE DEF new
<1>7. ASSUME PlainIn(tags', header.path)
      PROVE  LeadsIn(mem', root', path, new)
  <2>1. LeadsIn(mem, root, header.path, header.ref)
    BY <1>1, <1>5, <1>7, PlainFewer DEF HeaderLeads
  <2>2. LeadsIn(mem', root', header.path, header.ref)
    BY <1>1, <1>3, <2>1, LeadsKept DEF Inv
  <2> QED  BY <1>2, <1>3, <1>6, <2>2, LeadsOn DEF Path
<1>8. HeaderLeads'
  BY <1>3, <1>4, <1>7, PlainOn DEF HeaderLeads, Path
<1>9. TagsLead'
  <2> SUFFICES ASSUME NEW p \in DOMAIN tags', PlainIn(tags', SubSeq(p, 1, Len(p) - 1))
               PROVE  LeadsIn(mem', root', p, tags'[p].base)
    BY DEF TagsLead
  <2>1. CASE p \in DOMAIN tags
    BY <1>1, <1>5, <2>1, OldTagsLead
  <2>2. CASE p \notin DOMAIN tags
    <3>1. p = path /\ tags'[p].base = new
      BY <1>1, <2>2 DEF WithTag, Branch, Fresh, new
    <3>2. SubSeq(p, 1, Len(p) - 1) = header.path
      BY <1>3, <3>1, PlainOn DEF Path
    <3> QED  BY <1>7, <3>1, <3>2
  <2> QED  BY <2>1, <2>2
<1> QED  BY <1>8, <1>9

LEMMA PathsStep ==
    ASSUME Inv, Inv', Kept(mem, mem'), PathsInv, [Next]_vars
    PROVE  PathsInv'
<1>1. CASE Parse
  <2>1. Len(mem) \in Nat /\ root' = Len(mem) + 1 /\ tags' = tags /\ status' = "line"
    BY <1>1, LenProperties DEF Parse, Fresh, Inv, HeapOK
  <2>2. root' = 1 => DOMAIN tags = {}
    <3>1. ASSUME root' = 1, NEW p \in DOMAIN tags PROVE FALSE
      <4>1. tags[p].base \in 1..Len(mem)
        BY DEF Inv, TagsOK
      <4> QED  BY <2>1, <3>1, <4>1
    <3> QED  BY <3>1
  <2> QED  BY <2>1, <2>2 DEF PathsInv, TagsLead, HeaderLeads
<1>2. CASE ~ Parse /\ \A k \in Keys : ~ KeyOfNothing(k)
  <2>1. root' = root
    BY <1>2 DEF Next, vars, EndOfText, BadToken, OpenHeader, OpenBracket, CloseBracket,
          Dot, Misplaced, EmptyPath, DuplicatePath, DuplicateKey, KeyValue, KeyOfScalar,
          KeyOfArray, EndTable, EndElement, EndAt, Refuse
  <2>2. TagsStay /\ DOMAIN tags' = DOMAIN tags
    BY <1>2, TagsStayMostly
  <2>3. root = 1 => TagsLead'
    BY <2>1, <2>2, OldTagsLead DEF PathsInv, TagsLead
  <2>4. root = 1 => HeaderLeads'
    <3> SUFFICES ASSUME root = 1 PROVE HeaderLeads'
      OBVIOUS
    <3>1. HeaderLeads
      BY DEF PathsInv
    <3>2. CASE OpenHeader
      <4>1. header' = [NoHeader EXCEPT !.ref = root] /\ root \in 1..Len(mem) /\ mem' = mem
        BY <3>2 DEF OpenHeader, Inv, Control
      <4>2. header'.path = <<>> /\ header'.ref = root
        BY <4>1 DEF NoHeader
      <4> QED  BY <2>1, <4>1, <4>2, LeadsNowhere DEF HeaderLeads
    <3>3. CASE \E k \in Keys : KeyOfArray(k)
      BY <3>1, <3>3, KeyOfArrayLeads
    <3>4. CASE OpenBracket \/ CloseBracket \/ Dot
      <4>1. header \in Header
        BY DEF Inv, Control
      <4>2. /\ header'.path = header.path /\ header'.ref = header.ref
            /\ status = "header"
        BY <3>4, <4>1, HeaderTokens DEF OpenBracket, CloseBracket, Dot
      <4> QED  BY <2>1, <2>2, <3>1, <4>2, HeaderStays
    <3>5. CASE \/ EndOfText \/ BadToken \/ Misplaced \/ EmptyPath \/ DuplicatePath
               \/ EndTable \/ EndElement
               \/ \E k \in Keys : DuplicateKey(k) \/ KeyValue(k) \/ KeyOfScalar(k)
      <4>1. status' # "header"
        BY <3>5 DEF EndOfText, BadToken, Misplaced, EmptyPath, DuplicatePath,
              EndTable, EndElement, EndAt, DuplicateKey, KeyValue, KeyOfScalar, Refuse
      <4> QED  BY <2>1, <2>2, <3>1, <4>1, HeaderStays
    <3>6. CASE UNCHANGED vars
      <4>1. header' = header /\ status' = status
        BY <3>6 DEF vars
      <4> QED  BY <2>1, <2>2, <3>1, <4>1, HeaderStays
    <3> QED  BY <1>2, <3>2, <3>3, <3>4, <3>5, <3>6 DEF Next
  <2> QED  BY <2>1, <2>3, <2>4 DEF PathsInv
<1>3. ASSUME NEW k \in Keys, KeyOfNothing(k)
      PROVE  PathsInv'
  <2>1. root' = root
    BY <1>3 DEF KeyOfNothing
  <2> QED  BY <1>3, <2>1, KeyOfNothingLeads DEF PathsInv
<1> QED  BY <1>1, <1>2, <1>3

LEMMA PathsInit == Init => PathsInv
  BY DEF Init, PathsInv

\* In the first document of a parser every tag outside arrays of tables is about
\* the array at its path, and a header is where its path leads, whatever tables,
\* lists and failed headers came before, for any keys and any number of arrays.
THEOREM PathsLeadThere == Spec => []PathsLead
<1>1. Inv /\ PathsInv /\ [Next]_vars => Inv' /\ PathsInv'
  BY StepInv, PathsStep
<1> QED  BY <1>1, InitInv, PathsInit, PathsInvIsPathsLead, PTL DEF Spec

-----------------------------------------------------------------------------
(***************************************************************************)
(* Every array has one path, in its document and for good: that of its tag *)
(* or the one its key gives it, and that of the array it is an element of. *)
(* A header ends at an array once, as the tag of the path of the array     *)
(* remembers it, even when the tag was made for an array before it.        *)
(***************************************************************************)
PlacedIn(m, at) ==
    \A n \in 1..Len(m) :
        /\ at[n] \in Seq(Keys)
        /\ \A k \in Keys : m[n].entry[k] \in 1..Len(m) =>
                              at[m[n].entry[k]] = Append(at[n], k)
        /\ \A i \in DOMAIN m[n].item : at[m[n].item[i]] = at[n]

\* The tag of a path says that a header has ended there.
GivenIn(T, path) == path \in DOMAIN T /\ (T[path].aot \/ ~ T[path].implicit)

Places(at) ==
    /\ PlacedIn(mem, at)
    /\ \A p \in DOMAIN tags : at[tags[p].base] = p
    /\ root # 0 => at[root] = <<>>
    /\ status = "header" => at[header.ref] = header.path
    /\ \A n \in headed : GivenIn(tags, at[n])

OncePlaced ==
    /\ root \in 1..Len(mem) \cup {0}
    /\ header.hitNew => header.ref \notin headed
    /\ \E at : Places(at)

\* No new array.
LEMMA PlacedSame ==
    ASSUME NEW m, NEW m2, NEW at, PlacedIn(m, at), Len(m2) = Len(m),
           \A n \in 1..Len(m) :
             /\ m2[n].item = m[n].item
             /\ \A x \in Keys : m2[n].entry[x] = m[n].entry[x] \/ m2[n].entry[x] = Scalar
    PROVE  PlacedIn(m2, at)
<1>1. Scalar \notin 1..Len(m)
  BY DEF Scalar
<1>2. ASSUME NEW n \in 1..Len(m)
      PROVE  /\ at[n] \in Seq(Keys)
             /\ \A k \in Keys : m2[n].entry[k] \in 1..Len(m) =>
                                  at[m2[n].entry[k]] = Append(at[n], k)
             /\ \A i \in DOMAIN m2[n].item : at[m2[n].item[i]] = at[n]
  <2>1. /\ at[n] \in Seq(Keys)
        /\ \A k \in Keys : m[n].entry[k] \in 1..Len(m) =>
                             at[m[n].entry[k]] = Append(at[n], k)
        /\ \A i \in DOMAIN m[n].item : at[m[n].item[i]] = at[n]
    BY Zenon DEF PlacedIn
  <2>2. ASSUME NEW k \in Keys, m2[n].entry[k] \in 1..Len(m)
        PROVE  at[m2[n].entry[k]] = Append(at[n], k)
    <3>1. m2[n].entry[k] = m[n].entry[k]
      BY <1>1, <2>2
    <3> QED  BY <2>1, <2>2, <3>1
  <2> QED  BY <2>1, <2>2
<1> QED  BY <1>2 DEF PlacedIn

\* A new array, under a key or in a list of elements.
AddedAt(m, m2, at, path) ==
    /\ Len(m2) = Len(m) + 1
    /\ \A n \in 1..Len(m) :
         /\ \A x \in Keys :
              \/ m2[n].entry[x] = m[n].entry[x]
              \/ m2[n].entry[x] = Len(m) + 1 /\ path = Append(at[n], x)
         /\ \A i \in DOMAIN m2[n].item :
              \/ i \in DOMAIN m[n].item /\ m2[n].item[i] = m[n].item[i]
              \/ m2[n].item[i] = Len(m) + 1 /\ path = at[n]
    /\ m2[Len(m) + 1].item = <<>>
    /\ \A x \in Keys : m2[Len(m) + 1].entry[x] = Absent

Extended(m, at, path) ==
    [n \in 1..(Len(m) + 1) |-> IF n = Len(m) + 1 THEN path ELSE at[n]]

LEMMA PlacedNew ==
    ASSUME NEW m, NEW m2, NEW at, HeapOK(m), PlacedIn(m, at), NEW path \in Seq(Keys),
           AddedAt(m, m2, at, path), NEW to, to = Extended(m, at, path)
    PROVE  /\ PlacedIn(m2, to)
           /\ \A n \in 1..Len(m) : to[n] = at[n]
           /\ to[Len(m) + 1] = path /\ Len(m) + 1 \in 1..Len(m2)
<1> DEFINE v == Len(m) + 1
<1>0. /\ Len(m2) = Len(m) + 1
      /\ \A n \in 1..Len(m) :
           /\ \A x \in Keys :
                \/ m2[n].entry[x] = m[n].entry[x]
                \/ m2[n].entry[x] = v /\ path = Append(at[n], x)
           /\ \A i \in DOMAIN m2[n].item :
                \/ i \in DOMAIN m[n].item /\ m2[n].item[i] = m[n].item[i]
                \/ m2[n].item[i] = v /\ path = at[n]
      /\ m2[v].item = <<>>
      /\ \A x \in Keys : m2[v].entry[x] = Absent
  BY DEF AddedAt
<1>1. /\ Len(m) \in Nat /\ v \in 1..Len(m2) /\ v \notin 1..Len(m)
      /\ \A n \in 1..Len(m) : n \in 1..Len(m2)
      /\ \A n \in 1..Len(m2) : n \in 1..Len(m) \/ n = v
  BY <1>0, LenProperties DEF HeapOK
<1>2. to[v] = path /\ \A n \in 1..Len(m) : to[n] = at[n]
  BY <1>1 DEF Extended
<1>3. ASSUME NEW n \in 1..Len(m)
      PROVE  /\ to[n] \in Seq(Keys)
             /\ \A k \in Keys : m2[n].entry[k] \in 1..Len(m2) =>
                                  to[m2[n].entry[k]] = Append(to[n], k)
             /\ \A i \in DOMAIN m2[n].item : to[m2[n].item[i]] = to[n]
  <2>1. to[n] = at[n] /\ at[n] \in Seq(Keys)
    BY <1>2 DEF PlacedIn
  <2>2. ASSUME NEW k \in Keys, m2[n].entry[k] \in 1..Len(m2)
        PROVE  to[m2[n].entry[k]] = Append(to[n], k)
    <3>0. \/ m2[n].entry[k] = v /\ path = Append(at[n], k)
          \/ m2[n].entry[k] = m[n].entry[k]
      BY <1>0
    <3>1. CASE m2[n].entry[k] = v /\ path = Append(at[n], k)
      BY <1>2, <2>1, <3>1
    <3>2. CASE m2[n].entry[k] = m[n].entry[k]
      <4>1. m[n].entry[k] \in 1..Len(m) \cup {Absent, Scalar}
        BY DEF HeapOK
      <4>2. m[n].entry[k] \in 1..Len(m)
        BY <2>2, <3>2, <4>1, <1>1 DEF Absent, Scalar
      <4>3. at[m[n].entry[k]] = Append(at[n], k)
        BY <4>2 DEF PlacedIn
      <4> QED  BY <1>2, <2>1, <3>2, <4>2, <4>3
    <3> QED  BY <3>0, <3>1, <3>2
  <2>3. ASSUME NEW i \in DOMAIN m2[n].item
        PROVE  to[m2[n].item[i]] = to[n]
    <3>0. \/ m2[n].item[i] = v /\ path = at[n]
          \/ i \in DOMAIN m[n].item /\ m2[n].item[i] = m[n].item[i]
      BY <1>0
    <3>1. CASE m2[n].item[i] = v /\ path = at[n]
      BY <1>2, <2>1, <3>1
    <3>2. CASE i \in DOMAIN m[n].item /\ m2[n].item[i] = m[n].item[i]
      <4>1. m[n].item[i] \in 1..Len(m) /\ at[m[n].item[i]] = at[n]
        BY <3>2 DEF HeapOK, PlacedIn
      <4> QED  BY <1>2, <2>1, <3>2, <4>1
    <3> QED  BY <3>0, <3>1, <3>2
  <2> QED  BY <2>1, <2>2, <2>3
<1>4. /\ to[v] \in Seq(Keys)
      /\ \A k \in Keys : m2[v].entry[k] \notin 1..Len(m2)
      /\ DOMAIN m2[v].item = {}
  <2>1. Absent \notin 1..Len(m2)
    BY <1>1 DEF Absent
  <2>2. DOMAIN <<>> = {}
    OBVIOUS
  <2> QED  BY <1>0, <1>2, <2>1, <2>2
<1>5. to[Len(m) + 1] = path /\ Len(m) + 1 \in 1..Len(m2)
  BY <1>1, <1>2
<1> HIDE DEF v
<1> QED  BY <1>1, <1>2, <1>3, <1>4, <1>5 DEF PlacedIn

\* What was there has the path it had: all that is left to see to is what
\* the step itself does.
LEMMA PlacesStay ==
    ASSUME Inv, OncePlaced, NEW at, Places(at), NEW to, PlacedIn(mem', to),
           \A n \in 1..Len(mem) : to[n] = at[n], TagsStay,
           \A p \in DOMAIN tags' :
             p \in DOMAIN tags \/ to[tags'[p].base] = p,
           \A p \in DOMAIN tags : GivenIn(tags, p) => GivenIn(tags', p),
           root' = root \/ (root' # 0 /\ to[root'] = <<>>),
           status' = "header" => to[header'.ref] = header'.path,
           \A n \in headed' : n \in headed \/ GivenIn(tags', to[n])
    PROVE  Places(to)'
<1>1. \A p \in DOMAIN tags' : to[tags'[p].base] = p
  <2> SUFFICES ASSUME NEW p \in DOMAIN tags', p \in DOMAIN tags
               PROVE  to[tags'[p].base] = p
    OBVIOUS
  <2>1. tags'[p].base = tags[p].base /\ tags[p].base \in 1..Len(mem)
    BY DEF TagsStay, Inv, TagsOK
  <2> QED  BY <2>1 DEF Places
<1>2. root' # 0 => to[root'] = <<>>
  BY DEF Places, OncePlaced
<1>3. \A n \in headed' : GivenIn(tags', to[n])
  <2> SUFFICES ASSUME NEW n \in headed PROVE GivenIn(tags', to[n])
    OBVIOUS
  <2>1. n \in 1..Len(mem) /\ GivenIn(tags, at[n])
    BY DEF Inv, Control, Places
  <2> QED  BY <2>1 DEF GivenIn
<1> QED  BY <1>1, <1>2, <1>3 DEF Places

\* Steps that make no array and leave the tags as they are.
LEMMA QuietPlaces ==
    ASSUME Inv, OncePlaced, [Next]_vars, mem' = mem, tags' = tags, root' = root,
           headed' = headed,
           \A at : Places(at) /\ status' = "header" => at[header'.ref] = header'.path,
           header'.hitNew => header.hitNew /\ header'.ref = header.ref
    PROVE  OncePlaced'
<1>1. PICK at : Places(at)
  BY DEF OncePlaced
<1>2. PlacedIn(mem', at)
  BY <1>1 DEF Places
<1>3. TagsStay
  BY DEF TagsStay
<1>4. Places(at)'
  BY <1>1, <1>2, <1>3, PlacesStay
<1> QED  BY <1>4 DEF OncePlaced

LEMMA ParsePlaces ==
    ASSUME Inv, OncePlaced, Parse
    PROVE  OncePlaced'
<1> DEFINE e == <<>>
<1>1. /\ Len(mem) \in Nat /\ HeapOK(mem) /\ mem' = Append(mem, EmptyArray)
      /\ root' = Len(mem) + 1 /\ tags' = tags /\ headed' = headed /\ header' = header
      /\ status' = "line"
  BY LenProperties DEF Inv, HeapOK, Parse, Fresh
<1>2. /\ Len(mem') = Len(mem) + 1
      /\ \A n \in 1..Len(mem) : mem'[n] = mem[n]
      /\ mem'[Len(mem) + 1].item = <<>>
      /\ \A x \in Keys : mem'[Len(mem) + 1].entry[x] = Absent
  BY <1>1, DocumentMade
<1>3. PICK at : Places(at)
  BY DEF OncePlaced
<1>4. e \in Seq(Keys)
  BY EmptySeq
<1>e. e = <<>>
  OBVIOUS
<1> HIDE DEF e
<1>5. PICK f : f = Extended(mem, at, e)
  OBVIOUS
<1>a. AddedAt(mem, mem', at, e)
  BY <1>2 DEF AddedAt
<1>p. HeapOK(mem) /\ PlacedIn(mem, at)
  BY <1>1, <1>3 DEF Places
<1>6. /\ PlacedIn(mem', f)
      /\ \A n \in 1..Len(mem) : f[n] = at[n]
      /\ f[Len(mem) + 1] = e /\ Len(mem) + 1 \in 1..Len(mem')
  BY ONLY <1>p, <1>4, <1>5, <1>a, PlacedNew
<1>7. f[root'] = <<>> /\ root' # 0 /\ root' \in 1..Len(mem')
  BY <1>1, <1>6, <1>e
<1>8. TagsStay
  BY <1>1 DEF TagsStay
<1>9. Places(f)'
  BY <1>1, <1>3, <1>6, <1>7, <1>8, PlacesStay
<1> QED  BY <1>1, <1>7, <1>9 DEF OncePlaced

LEMMA KeyValuePlaces ==
    ASSUME Inv, OncePlaced, NEW k \in Keys, KeyValue(k)
    PROVE  OncePlaced'
<1>1. /\ Len(mem) \in Nat /\ HeapOK(mem) /\ table \in 1..Len(mem)
      /\ mem[table].entry[k] = Absent
      /\ root' = root /\ tags' = tags /\ headed' = headed /\ header' = header
      /\ status' = "line" /\ root \in 1..Len(mem)
  BY LenProperties DEF Inv, HeapOK, Control, KeyValue, Taken
<1>2. PICK at : Places(at)
  BY DEF OncePlaced
<1>3. TagsStay
  BY <1>1 DEF TagsStay
<1>4. CASE mem' = WithEntry(mem, table, k, Scalar)
  <2>1. /\ Len(mem') = Len(mem)
        /\ \A n \in 1..Len(mem) :
             /\ mem'[n].item = mem[n].item
             /\ \A x \in Keys :
                  mem'[n].entry[x] = IF n = table /\ x = k THEN Scalar ELSE mem[n].entry[x]
    BY ONLY <1>1, <1>4, ScalarGiven, k \in Keys
  <2>2. PlacedIn(mem', at)
    BY <1>2, <2>1, PlacedSame DEF Places
  <2>3. Places(at)'
    BY <1>1, <1>2, <1>3, <2>2, PlacesStay
  <2> QED  BY <1>1, <2>1, <2>3 DEF OncePlaced
<1>5. CASE mem' = Append(WithEntry(mem, table, k, Fresh), ListValue)
  <2> DEFINE a == ListValue
             path == Append(at[table], k)
  <2>1. a \in {EmptyArray, ListValue}
        /\ mem' = Append(WithEntry(mem, table, k, Len(mem) + 1), a)
    BY <1>5 DEF Fresh
  <2> HIDE DEF a
  <2>2. /\ Len(mem') = Len(mem) + 1
        /\ \A n \in 1..Len(mem) :
             /\ mem'[n].item = mem[n].item
             /\ \A x \in Keys : mem'[n].entry[x] =
                  IF n = table /\ x = k THEN Len(mem) + 1 ELSE mem[n].entry[x]
        /\ mem'[Len(mem) + 1].item = <<>>
        /\ \A x \in Keys : mem'[Len(mem) + 1].entry[x] = Absent
    BY <1>1, <2>1, ArrayGiven
  <2>3. path \in Seq(Keys)
    BY <1>1, <1>2, AppendProperties DEF Places, PlacedIn
  <2>4. \A n \in 1..Len(mem) : \A x \in Keys :
          \/ mem'[n].entry[x] = mem[n].entry[x]
          \/ mem'[n].entry[x] = Len(mem) + 1 /\ path = Append(at[n], x)
    BY <2>2
  <2> HIDE DEF path
  <2>5. PICK f : f = Extended(mem, at, path)
    OBVIOUS
  <2>a. AddedAt(mem, mem', at, path)
    BY <2>2, <2>4 DEF AddedAt
  <2>p. PlacedIn(mem, at) /\ HeapOK(mem)
    BY <1>1, <1>2 DEF Places
  <2>6. /\ PlacedIn(mem', f)
        /\ \A n \in 1..Len(mem) : f[n] = at[n]
        /\ f[Len(mem) + 1] = path /\ Len(mem) + 1 \in 1..Len(mem')
    BY ONLY <2>p, <2>3, <2>5, <2>a, PlacedNew
  <2>7. Places(f)'
    BY <1>1, <1>2, <1>3, <2>6, PlacesStay
  <2> QED  BY <1>1, <2>2, <2>7 DEF OncePlaced
<1> QED  BY <1>4, <1>5 DEF KeyValue

LEMMA KeyOfArrayPlaces ==
    ASSUME Inv, OncePlaced, NEW k \in Keys, KeyOfArray(k)
    PROVE  OncePlaced'
<1>1. /\ mem' = mem /\ tags' = tags /\ root' = root /\ headed' = headed
      /\ status = "header" /\ Behind(k) \in 1..Len(mem)
      /\ header' = [header EXCEPT
                      !.path = Path(k), !.dotCount = 0,
                      !.ref = Onward(TagOf(Path(k)), Behind(k)),
                      !.aotLength = IF TagOf(Path(k)).aot THEN @ + 1 ELSE @]
  BY DEF KeyOfArray, AtKey, Node
<1>2. header \in Header /\ header.ref \in 1..Len(mem)
  BY <1>1 DEF Inv, Control
<1>3. /\ header'.path = Path(k) /\ header'.ref = Onward(TagOf(Path(k)), Behind(k))
      /\ header'.hitNew = header.hitNew
  BY <1>1, <1>2, HeaderGoesOn
<1>4. ~ header.hitNew
  BY <1>1 DEF Behind, Inv, Control, HeaderTagged, Absent
<1>5. ASSUME NEW at, Places(at)
      PROVE  at[header'.ref] = Path(k)
  <2>1. CASE TagOf(Path(k)).aot /\ ~ TagOf(Path(k)).implicit
    <3> DEFINE t == TagOf(Path(k))
    <3>1. /\ Path(k) \in DOMAIN tags /\ t = tags[Path(k)]
          /\ t.base \in 1..Len(mem) /\ t.n = Len(mem[t.base].item) /\ t.n > 0
          /\ t \in Tag
      BY <2>1, TagOfPath DEF Inv
    <3>2. mem[t.base].item \in Seq(Nat)
      BY <3>1, ElementOfSeq, ItemsOfArray DEF Inv, HeapOK
    <3>3. t.n \in DOMAIN mem[t.base].item
      BY <3>1, <3>2, LenProperties
    <3>4. at[mem[t.base].item[t.n]] = at[t.base] /\ at[t.base] = Path(k)
      BY <1>5, <3>1, <3>3 DEF Places, PlacedIn
    <3> QED  BY <1>3, <2>1, <3>4 DEF Onward, endRef
  <2>2. CASE ~ (TagOf(Path(k)).aot /\ ~ TagOf(Path(k)).implicit)
    <3>1. header'.ref = Behind(k)
      BY <1>3, <2>2 DEF Onward
    <3>2. at[Behind(k)] = Append(at[header.ref], k)
      BY <1>1, <1>2, <1>5 DEF Places, PlacedIn, Behind
    <3> QED  BY <1>1, <1>5, <3>1, <3>2 DEF Places, Path
  <2> QED  BY <2>1, <2>2
<1>6. [Next]_vars
  BY DEF Next
<1> QED  BY <1>1, <1>3, <1>4, <1>5, <1>6, QuietPlaces

LEMMA KeyOfNothingPlaces ==
    ASSUME Inv, OncePlaced, NEW k \in Keys, KeyOfNothing(k)
    PROVE  OncePlaced'
<1> DEFINE path == Path(k)
           new == Len(mem) + 1
<1>1. /\ Len(mem) \in Nat /\ HeapOK(mem) /\ header.ref \in 1..Len(mem)
      /\ mem[header.ref].entry[k] = Absent /\ header \in Header
      /\ status = "header" /\ root' = root /\ headed' = headed
      /\ headed \subseteq 1..Len(mem) /\ root \in 1..Len(mem)
      /\ mem' = Append(WithEntry(mem, header.ref, k, new), EmptyArray)
      /\ tags' = WithTag(tags, path, Branch(path))
      /\ header' = [header EXCEPT
                    !.path = path, !.dotCount = 0, !.ref = new,
                    !.hitNew = TRUE,
                    !.aotLength = IF header.isAOT THEN @ + 1 ELSE @]
  BY LenProperties DEF Inv, HeapOK, Control, KeyOfNothing, AtKey, Behind, Fresh
<1>2. /\ Len(mem') = new
      /\ \A n \in 1..Len(mem) :
           /\ mem'[n].item = mem[n].item
           /\ \A x \in Keys : mem'[n].entry[x] =
                IF n = header.ref /\ x = k THEN new ELSE mem[n].entry[x]
      /\ mem'[new].item = <<>>
      /\ \A x \in Keys : mem'[new].entry[x] = Absent
  BY <1>1, ArrayGiven
<1>3. header.path \in Seq(Keys) /\ path \in Seq(Keys)
  BY <1>1, AppendProperties DEF Header, Path
<1>4. header'.path = path /\ header'.ref = new
  BY <1>1, HeaderGoesOn
<1>5. TagsStay
  BY <1>1 DEF TagsStay, WithTag, Branch
<1>6. PICK at : Places(at)
  BY DEF OncePlaced
<1>7. PICK f : f = Extended(mem, at, path)
  OBVIOUS
<1>8. /\ PlacedIn(mem', f)
      /\ \A n \in 1..Len(mem) : f[n] = at[n]
      /\ f[new] = path /\ new \in 1..Len(mem')
  <2>1. path = Append(at[header.ref], k)
    BY <1>1, <1>6 DEF Places, Path
  <2>2. \A n \in 1..Len(mem) : \A x \in Keys :
          \/ mem'[n].entry[x] = mem[n].entry[x]
          \/ mem'[n].entry[x] = Len(mem) + 1 /\ path = Append(at[n], x)
    BY <1>2, <2>1
  <2> HIDE DEF path
  <2>3. AddedAt(mem, mem', at, path)
    BY <1>2, <2>2 DEF AddedAt
  <2>4. PlacedIn(mem, at) /\ HeapOK(mem) /\ path \in Seq(Keys)
    BY <1>1, <1>3, <1>6 DEF Places
  <2>5. /\ PlacedIn(mem', f)
        /\ \A n \in 1..Len(mem) : f[n] = at[n]
        /\ f[Len(mem) + 1] = path /\ Len(mem) + 1 \in 1..Len(mem')
    BY ONLY <1>7, <2>3, <2>4, PlacedNew
  <2> QED  BY <2>5
<1>9. new \notin headed
  BY <1>1
<1>10. \A p \in DOMAIN tags' : p \in DOMAIN tags \/ f[tags'[p].base] = p
  BY <1>1, <1>8 DEF WithTag, Branch, Fresh
<1>11. \A p \in DOMAIN tags : GivenIn(tags, p) => GivenIn(tags', p)
  BY <1>1 DEF GivenIn, WithTag, Branch
<1> HIDE DEF path, new
<1>12. Places(f)'
  BY <1>1, <1>4, <1>5, <1>6, <1>8, <1>9, <1>10, <1>11, PlacesStay
<1>13. root' \in 1..Len(mem') \cup {0} /\ header'.ref \notin headed'
  BY <1>1, <1>2, <1>4, <1>9 DEF new
<1> QED  BY <1>12, <1>13 DEF OncePlaced

\* What the end of a header does to the tag of its path.
LEMMA HeaderGiven ==
    ASSUME Inv, EndTable \/ EndElement
    PROVE  /\ header.path \in DOMAIN tags /\ LastTag = tags[header.path]
           /\ LastTag \in Tag /\ LastTag.base \in 1..Len(mem)
           /\ header.path \in Seq(Keys)
           /\ GivenIn(tags', header.path)
           /\ \A p \in DOMAIN tags : GivenIn(tags, p) => GivenIn(tags', p)
<1>1. /\ header.hitNew \/ LastTag.implicit \/ LastTag.aot
      /\ header.hitNew => header.path \in DOMAIN tags
  BY DEF EndTable, EndElement, Inv, Control, HeaderTagged
<1>2. /\ header.path \in DOMAIN tags /\ LastTag = tags[header.path]
      /\ LastTag \in Tag /\ LastTag.base \in 1..Len(mem)
      /\ header.path \in Seq(Keys)
  BY <1>1, TagOfPath DEF LastTag, Inv
<1>3. \E t : tags' = WithTag(tags, header.path, t) /\ (t.aot \/ ~ t.implicit)
  <2>1. CASE EndTable
    <3> DEFINE e == FALSE
               t == [LastTag EXCEPT !.implicit = e]
    <3>1. tags' = WithTag(tags, header.path, t)
      BY <2>1 DEF EndTable
    <3>2. e \in BOOLEAN /\ ~ e
      OBVIOUS
    <3> HIDE DEF e
    <3>3. t.implicit = e
      BY <1>2, <3>2, TagFields
    <3> HIDE DEF t
    <3> QED  BY <3>1, <3>2, <3>3
  <2>2. CASE EndElement
    <3> DEFINE c == Counted(LastTag)
               e == c.implicit /\ ~header.hitNew
               t == [c EXCEPT !.implicit = e]
    <3>1. tags' = WithTag(tags, header.path, t)
      BY <2>2, Zenon DEF EndElement
    <3>2. c \in Tag /\ c.aot = LastTag.aot
      BY <1>2, TagFields
    <3>3. e \in BOOLEAN
      OBVIOUS
    <3> HIDE DEF c, e
    <3>4. t.aot = c.aot
      BY <3>2, <3>3, TagFields
    <3>5. LastTag.aot
      BY <2>2 DEF EndElement
    <3> HIDE DEF t
    <3> QED  BY <3>1, <3>2, <3>4, <3>5
  <2> QED  BY <2>1, <2>2
<1>4. /\ GivenIn(tags', header.path)
      /\ \A p \in DOMAIN tags : GivenIn(tags, p) => GivenIn(tags', p)
  BY <1>3 DEF WithTag, GivenIn
<1> QED  BY <1>2, <1>4

LEMMA EndTablePlaces ==
    ASSUME Inv, OncePlaced, EndTable
    PROVE  OncePlaced'
<1>1. /\ mem' = mem /\ status = "header" /\ status' = "line" /\ root' = root
      /\ headed' = headed \cup {header.ref} /\ header' = NoHeader
  BY DEF EndTable, EndAt, AtEnd
<1>2. PICK at : Places(at)
  BY DEF OncePlaced
<1>3. PlacedIn(mem', at)
  BY <1>1, <1>2 DEF Places
<1>4. TagsStay /\ DOMAIN tags' = DOMAIN tags
  <2>1. \A k \in Keys : ~ KeyOfNothing(k)
    BY <1>1 DEF KeyOfNothing
  <2> QED  BY <2>1, TagsStayMostly DEF Next
<1>5. at[header.ref] = header.path
  BY <1>1, <1>2 DEF Places
<1>6. Places(at)'
  BY <1>1, <1>2, <1>3, <1>4, <1>5, HeaderGiven, PlacesStay
<1> QED  BY <1>1, <1>6, NoHeaderFields DEF OncePlaced

LEMMA EndElementPlaces ==
    ASSUME Inv, OncePlaced, EndElement
    PROVE  OncePlaced'
<1>1. /\ mem' = Elements(LastTag) /\ status = "header" /\ status' = "line"
      /\ root' = root /\ headed' = headed \cup {Len(mem) + 1} /\ header' = NoHeader
      /\ LastTag.aot
  BY DEF EndElement, EndAt, AtEnd, Fresh
<1>2. PICK at : Places(at)
  BY DEF OncePlaced
<1>3. /\ header.path \in DOMAIN tags /\ LastTag = tags[header.path]
      /\ LastTag.base \in 1..Len(mem) /\ header.path \in Seq(Keys)
  BY HeaderGiven
<1>4. HeapOK(mem) /\ Len(mem) \in Nat /\ PlacedIn(mem, at)
  BY <1>2, LenProperties DEF Inv, HeapOK, Places
<1> DEFINE r == LastTag.base
           path == header.path
<1>5. at[r] = path /\ r \in 1..Len(mem) /\ path \in Seq(Keys)
  BY <1>2, <1>3 DEF Places
<1>6. mem' = Append(WithItem(mem, r, Len(mem) + 1), EmptyArray)
  BY <1>1 DEF Elements, Fresh
<1> HIDE DEF r, path
<1>7. /\ Len(mem') = Len(mem) + 1
      /\ \A n \in 1..Len(mem) :
           /\ \A x \in Keys : mem'[n].entry[x] = mem[n].entry[x]
           /\ \A i \in DOMAIN mem'[n].item :
                \/ i \in DOMAIN mem[n].item /\ mem'[n].item[i] = mem[n].item[i]
                \/ n = r /\ mem'[n].item[i] = Len(mem) + 1
      /\ mem'[Len(mem) + 1].item = <<>>
      /\ \A x \in Keys : mem'[Len(mem) + 1].entry[x] = Absent
  <2>1. LET m2 == Append(WithItem(mem, r, Len(mem) + 1), EmptyArray) IN
        /\ HeapOK(m2) /\ Kept(mem, m2) /\ Len(m2) = Len(mem) + 1
        /\ \A n \in 1..Len(mem) :
             /\ Len(m2[n].item) = IF n = r THEN Len(mem[n].item) + 1
                                 ELSE Len(mem[n].item)
             /\ \A x \in Keys : m2[n].entry[x] = mem[n].entry[x]
             /\ \A i \in DOMAIN m2[n].item :
                  \/ i \in DOMAIN mem[n].item /\ m2[n].item[i] = mem[n].item[i]
                  \/ n = r /\ m2[n].item[i] = Len(mem) + 1
        /\ m2[Len(mem) + 1].item = <<>>
        /\ \A x \in Keys : m2[Len(mem) + 1].entry[x] = Absent
    BY <1>4, <1>5, ElementGiven
  <2> QED  BY <1>6, <2>1
<1>8. AddedAt(mem, mem', at, path)
  BY <1>5, <1>7 DEF AddedAt
<1>9. PICK f : f = Extended(mem, at, path)
  OBVIOUS
<1>10. /\ PlacedIn(mem', f)
       /\ \A n \in 1..Len(mem) : f[n] = at[n]
       /\ f[Len(mem) + 1] = path /\ Len(mem) + 1 \in 1..Len(mem')
  BY ONLY <1>4, <1>5, <1>8, <1>9, PlacedNew
<1>11. TagsStay /\ DOMAIN tags' = DOMAIN tags
  <2>1. \A k \in Keys : ~ KeyOfNothing(k)
    BY <1>1 DEF KeyOfNothing
  <2> QED  BY <2>1, TagsStayMostly DEF Next
<1>12. /\ GivenIn(tags', f[Len(mem) + 1])
       /\ \A p \in DOMAIN tags : GivenIn(tags, p) => GivenIn(tags', p)
  BY <1>10, HeaderGiven DEF path
<1>13. Places(f)'
  BY <1>1, <1>2, <1>10, <1>11, <1>12, PlacesStay
<1> QED  BY <1>1, <1>7, <1>4, <1>13, NoHeaderFields DEF OncePlaced

LEMMA OncePlacedInit == Init => OncePlaced
<1> SUFFICES ASSUME Init PROVE OncePlaced
  OBVIOUS
<1>1. /\ Len(mem) = 0 /\ DOMAIN tags = {} /\ root = 0 /\ headed = {}
      /\ status = "idle" /\ header = NoHeader
  BY EmptySeq DEF Init
<1>2. \A at : Places(at)
  BY <1>1 DEF Places, PlacedIn
<1> QED  BY <1>1, <1>2, NoHeaderFields DEF OncePlaced

LEMMA OncePlacedStep ==
    ASSUME Inv, OncePlaced, [Next]_vars
    PROVE  OncePlaced'
<1>1. CASE Parse
  BY <1>1, ParsePlaces
<1>2. ASSUME NEW k \in Keys, KeyValue(k) \/ KeyOfArray(k) \/ KeyOfNothing(k)
      PROVE  OncePlaced'
  BY <1>2, KeyValuePlaces, KeyOfArrayPlaces, KeyOfNothingPlaces
<1>3. CASE EndTable \/ EndElement
  BY <1>3, EndTablePlaces, EndElementPlaces
<1>4. CASE OpenHeader
  <2>1. /\ mem' = mem /\ tags' = tags /\ root' = root /\ headed' = headed
        /\ header' = [NoHeader EXCEPT !.ref = root] /\ root \in Nat
        /\ root \in 1..Len(mem)
    BY <1>4 DEF OpenHeader, Inv, Control
  <2>2. header'.ref = root /\ header'.hitNew = FALSE
    BY <2>1, NoHeaderFields
  <2>3. header'.path = <<>>
    BY <2>1 DEF NoHeader
  <2>4. root # 0
    BY <2>1
  <2>5. \A at : Places(at) => at[header'.ref] = header'.path
    BY <2>2, <2>3, <2>4 DEF Places
  <2> QED  BY <2>1, <2>2, <2>5, QuietPlaces
<1>5. CASE OpenBracket \/ CloseBracket \/ Dot
  <2>1. header \in Header
    BY DEF Inv, Control
  <2>2. /\ mem' = mem /\ tags' = tags /\ root' = root /\ headed' = headed
        /\ header'.path = header.path /\ header'.ref = header.ref
        /\ header'.hitNew = header.hitNew /\ status = "header"
    BY <1>5, <2>1, HeaderTokens DEF OpenBracket, CloseBracket, Dot
  <2>3. \A at : Places(at) => at[header'.ref] = header'.path
    BY <2>2 DEF Places
  <2> QED  BY <2>2, <2>3, QuietPlaces
<1>6. CASE \/ EndOfText \/ BadToken \/ Misplaced \/ EmptyPath \/ DuplicatePath
           \/ \E k \in Keys : DuplicateKey(k) \/ KeyOfScalar(k)
  <2>1. /\ mem' = mem /\ tags' = tags /\ root' = root /\ headed' = headed
        /\ status' # "header" /\ header' \in {header, NoHeader}
    BY <1>6 DEF EndOfText, BadToken, Misplaced, EmptyPath, DuplicatePath,
          DuplicateKey, KeyOfScalar, Refuse
  <2>2. header'.hitNew => header.hitNew /\ header'.ref = header.ref
    BY <2>1, NoHeaderFields
  <2> QED  BY <2>1, <2>2, QuietPlaces
<1>7. CASE UNCHANGED vars
  <2>1. /\ mem' = mem /\ tags' = tags /\ root' = root /\ headed' = headed
        /\ status' = status /\ header' = header
    BY <1>7 DEF vars
  <2>2. \A at : Places(at) /\ status' = "header" => at[header'.ref] = header'.path
    BY <2>1 DEF Places
  <2> QED  BY <2>1, <2>2, QuietPlaces
<1> QED  BY <1>1, <1>2, <1>3, <1>4, <1>5, <1>6, <1>7 DEF Next

\* A header that is accepted ends at an array that no header ended at before,
\* in this document or an earlier one, whatever tags outlive their document.
THEOREM TablesDefinedOnce == Spec => DefinedOnce
<1>1. ASSUME Inv, OncePlaced, [Next]_vars
      PROVE  [status = "header" /\ status' = "line" => table' \notin headed]_vars
  <2> SUFFICES ASSUME status = "header", status' = "line"
               PROVE  table' \notin headed
    OBVIOUS
  <2>1. EndTable \/ EndElement
    BY <1>1 DEF Next, vars, Parse, EndOfText, BadToken, OpenHeader, OpenBracket,
          CloseBracket, Dot, Misplaced, EmptyPath, DuplicatePath, DuplicateKey,
          KeyValue, KeyOfScalar, KeyOfArray, KeyOfNothing, Refuse, AtKey
  <2>2. CASE EndElement
    <3>1. /\ table' = Len(mem) + 1 /\ headed \subseteq 1..Len(mem)
          /\ Len(mem) \in Nat
      BY <1>1, <2>2, LenProperties DEF EndElement, EndAt, Fresh, Inv, Control, HeapOK
    <3> QED  BY <3>1
  <2>3. CASE EndTable
    <3>1. /\ table' = header.ref /\ ~LastTag.aot
          /\ header.hitNew \/ LastTag.implicit
      BY <2>3 DEF EndTable, EndAt
    <3>2. header.path \in DOMAIN tags /\ LastTag = tags[header.path]
      BY <1>1, <2>3, HeaderGiven
    <3>3. CASE header.hitNew
      BY <1>1, <3>1, <3>3 DEF OncePlaced
    <3>4. CASE LastTag.implicit
      <4>1. PICK at : Places(at)
        BY <1>1 DEF OncePlaced
      <4>2. header.ref \in headed => GivenIn(tags, header.path)
        BY <4>1 DEF Places
      <4> QED  BY <3>1, <3>2, <3>4, <4>2 DEF GivenIn
    <3> QED  BY <3>1, <3>3, <3>4
  <2> QED  BY <2>1, <2>2, <2>3
<1>2. Inv /\ OncePlaced /\ [Next]_vars => Inv' /\ OncePlaced'
  BY StepInv, OncePlacedStep
<1> QED  BY <1>1, <1>2, InitInv, OncePlacedInit, PTL DEF Spec, DefinedOnce
=============================================================================

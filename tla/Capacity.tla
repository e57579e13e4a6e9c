------------------------------ MODULE Capacity ------------------------------
(***************************************************************************)
(* How much room an array that must grow asks for: the table and the       *)
(* result of next_cap_mark in src/carray_obj.c.  CapSearch has the search  *)
(* that finds it.                                                          *)
(***************************************************************************)
EXTENDS Integers, Sequences

CONSTANT CapacityMark   \* the table capacity_mark[]

\* The table rises, and its last mark is at least 2, so that past the table
\* the factor 1.5 never yields less than what was asked for.
ASSUME CapacityMarkAssumption ==
    /\ CapacityMark \in Seq(Nat)
    /\ Len(CapacityMark) > 0
    /\ CapacityMark[Len(CapacityMark)] >= 2
    /\ \A i, j \in 1..Len(CapacityMark) :
          i < j => CapacityMark[i] < CapacityMark[j]

Marks == {CapacityMark[i] : i \in 1..Len(CapacityMark)}

\* Mutant of PastTable: a factor of 1.25.
PastTable125(n) == (5 * (n - 1)) \div 4

\* (long) floor(1.5 * (n - 1)), for growth by one element at a time
PastTable(n) == (3 * (n - 1)) \div 2

\* The least mark that suffices.
NextCapMark(n) ==
    IF \E m \in Marks : m >= n
      THEN CHOOSE m \in Marks : m >= n /\ \A k \in Marks : k >= n => m <= k
      ELSE PastTable(n)

=============================================================================

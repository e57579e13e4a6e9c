----------------------------- MODULE CapSearch -----------------------------
(***************************************************************************)
(* The loop of next_cap_mark: a binary search of the table, kept in the    *)
(* half-open range lo .. hi - 1 of C indices, that stops early on an exact *)
(* match and falls through to the factor 1.5 when every mark is too small. *)
(***************************************************************************)
EXTENDS Capacity

CONSTANT Sizes      \* the sizes asked for

ASSUME SizesAssumption == Sizes \subseteq Nat

VARIABLES size, lo, hi, value, pc

searchVars == <<size, lo, hi, value, pc>>

kmax_cap_index == Len(CapacityMark)

\* capacity_mark[i] of C
Mark(i) == CapacityMark[i + 1]

mid == (lo + hi) \div 2

\* Mutant of SearchInit: the range ends one past the table.
SearchInitPastEnd ==
    /\ size \in Sizes
    /\ lo = 0
    /\ hi = kmax_cap_index + 1
    /\ value = 0
    /\ pc = "loop"

SearchInit ==
    /\ size \in Sizes
    /\ lo = 0
    /\ hi = kmax_cap_index
    /\ value = 0
    /\ pc = "loop"

\* Mutant of TooLow: a mark that is large enough is passed over.
TooLowOrEqual ==
    /\ pc = "loop" /\ hi > lo
    /\ Mark(mid) <= size
    /\ value' = Mark(mid)
    /\ lo' = mid + 1
    /\ UNCHANGED <<size, hi, pc>>

\* Mutant of TooLow: the range does not shrink.
TooLowStays ==
    /\ pc = "loop" /\ hi > lo
    /\ Mark(mid) < size
    /\ value' = Mark(mid)
    /\ lo' = mid
    /\ UNCHANGED <<size, hi, pc>>

TooLow ==
    /\ pc = "loop" /\ hi > lo
    /\ Mark(mid) < size
    /\ value' = Mark(mid)
    /\ lo' = mid + 1
    /\ UNCHANGED <<size, hi, pc>>

Exact ==
    /\ pc = "loop" /\ hi > lo
    /\ Mark(mid) = size
    /\ value' = Mark(mid)
    /\ pc' = "done"
    /\ UNCHANGED <<size, lo, hi>>

TooHigh ==
    /\ pc = "loop" /\ hi > lo
    /\ Mark(mid) > size
    /\ value' = Mark(mid)
    /\ hi' = mid
    /\ UNCHANGED <<size, lo, pc>>

Finish ==
    /\ pc = "loop" /\ hi <= lo
    /\ value' = IF lo < kmax_cap_index THEN Mark(lo) ELSE PastTable(size)
    /\ pc' = "done"
    /\ UNCHANGED <<size, lo, hi>>

SearchNext == TooLow \/ Exact \/ TooHigh \/ Finish

\* The function runs to its return.
SearchSpec == SearchInit /\ [][SearchNext]_searchVars /\ WF_searchVars(SearchNext)

-----------------------------------------------------------------------------
(***************************************************************************)
(* Properties.                                                             *)
(***************************************************************************)
SearchTypeOK ==
    /\ size \in Sizes
    /\ lo \in 0..kmax_cap_index
    /\ hi \in 0..kmax_cap_index
    /\ value \in Int
    /\ pc \in {"loop", "done"}

\* The search keeps the answer in sight: the marks below lo are too small and
\* those from hi on are large enough; lo and hi never cross, so that mid is
\* always an index of the table.
Brackets ==
    /\ lo <= hi
    /\ \A i \in 0..(lo - 1) : Mark(i) < size
    /\ \A i \in hi..(kmax_cap_index - 1) : Mark(i) > size

\* What the loop returns is the least sufficient mark, or the factor 1.5.
ReturnsNextCapMark == pc = "done" => value = NextCapMark(size)

\* The room returned is never less than the room asked for, also where the
\* table ends and the rounding of 1.5 * (size - 1) takes over.
RoomEnough == pc = "done" => value >= size

\* The search ends, for sizes on a mark, between marks and past the table.
Returns == <>(pc = "done")

=============================================================================

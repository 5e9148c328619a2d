----------------------------- MODULE RangeArray -----------------------------
(***************************************************************************)
(* src/range_array.rs: a sorted vector of half-open ranges start..end to   *)
(* which ranges are added one at a time.  Ranges that overlap or touch are *)
(* merged.  The vector is a sequence of records; positions are 1-based.    *)
(***************************************************************************)
EXTENDS Integers, Sequences

Span(s, e) == [start |-> s, end |-> e]

SpanType == [start : Int, end : Int]

(***************************************************************************)
(* The addresses a vector of ranges stands for.                            *)
(***************************************************************************)
Addresses(r) == r.start .. r.end - 1
Covered(arr) == UNION {Addresses(arr[i]) : i \in DOMAIN arr}

New == << >>
IsEmpty(arr) == arr = << >>

TakeLater(a, b) == b        \* mutant of SetMax: the comparison is dropped
SetMax(a, b) == IF a < b THEN b ELSE a

(***************************************************************************)
(* binary_search_by on the start of the ranges: the number of ranges that  *)
(* start before s.  The vector is sorted on start, so they come first.     *)
(***************************************************************************)
StartsBefore(arr, s) ==
    CHOOSE p \in 0 .. Len(arr) :
        /\ \A i \in 1 .. p : arr[i].start < s
        /\ \A i \in p + 1 .. Len(arr) : s <= arr[i].start

(***************************************************************************)
(* The range r starts at the start of a range, or in or next to the range  *)
(* before it: that range is extended.  Otherwise r is inserted.            *)
(***************************************************************************)
Slot(arr, r) ==
    LET p == StartsBefore(arr, r.start)
    IN  IF p > 0 /\ ~(p < Len(arr) /\ arr[p + 1].start = r.start)
                 /\ arr[p].end >= r.start
        THEN p ELSE p + 1

Extends(arr, r) ==
    LET k == Slot(arr, r)
    IN  k <= Len(arr) /\ arr[k].start <= r.start

Placed(arr, r) ==
    LET k == Slot(arr, r)
    IN  IF Extends(arr, r)
        THEN [arr EXCEPT ![k] = Span(@.start, SetMax(@.end, r.end))]
        ELSE SubSeq(arr, 1, k - 1) \o <<r>> \o SubSeq(arr, k, Len(arr))

(***************************************************************************)
(* The last of the ranges after position k that start no later than the    *)
(* end of the range at k: the while loop stops at the first that does.     *)
(***************************************************************************)
LastOverlapping(arr, k) ==  \* mutant of LastMerged: >= in place of >
    CHOOSE j \in k .. Len(arr) :
        /\ \A i \in k + 1 .. j : arr[i].start < arr[k].end
        /\ j < Len(arr) => arr[j + 1].start >= arr[k].end

LastMerged(arr, k) ==
    CHOOSE j \in k .. Len(arr) :
        /\ \A i \in k + 1 .. j : arr[i].start <= arr[k].end
        /\ j < Len(arr) => arr[j + 1].start > arr[k].end

(***************************************************************************)
(* The loop compares with the end the range had before the loop, and takes *)
(* over the end of the last range that reaches at least as far.            *)
(***************************************************************************)
MergedEnd(arr, k, j) ==
    LET further == {i \in k + 1 .. j : arr[i].end >= arr[k].end}
    IN  IF further = {} THEN arr[k].end
        ELSE arr[CHOOSE i \in further : \A l \in further : l <= i].end

Union(arr, r) ==
    LET k == Slot(arr, r)
        placed == Placed(arr, r)
        j == LastMerged(placed, k)
    IN  SubSeq(placed, 1, k - 1)
          \o <<Span(placed[k].start, MergedEnd(placed, k, j))>>
          \o SubSeq(placed, j + 1, Len(placed))

(***************************************************************************)
(* Sorted, and with a gap between any two neighbours: no two ranges could  *)
(* be merged.  A range may be empty (start = end).                         *)
(***************************************************************************)
WellFormed(arr) ==
    /\ \A i \in DOMAIN arr : arr[i].start <= arr[i].end
    /\ \A i, j \in DOMAIN arr : i < j => arr[i].end < arr[j].start
=============================================================================

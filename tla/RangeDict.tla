------------------------------ MODULE RangeDict ------------------------------
(***************************************************************************)
(* web/range_dict.js: which inputs of the page show which addresses.  The  *)
(* entries are sorted by the end of their range; start_min is the least    *)
(* start of an entry and all entries after it, where a search may stop.    *)
(* Entries may overlap.  Positions are 1-based.                            *)
(***************************************************************************)
EXTENDS Integers, Sequences

Entry(min, s, e, v) == [start_min |-> min, start |-> s, end |-> e, value |-> v]

(***************************************************************************)
(* The first entry whose end is higher than v.                             *)
(***************************************************************************)
FindEnd(d, v) ==
    CHOOSE p \in 1 .. Len(d) + 1 : /\ \A i \in 1 .. p - 1 : d[i].end <= v
                                   /\ \A i \in p .. Len(d) : d[i].end > v

OwnStart(d, pos, s) == s        \* mutant of StartMin: what follows is not looked at
StartMin(d, pos, s) ==
    IF pos <= Len(d) /\ d[pos].start_min < s THEN d[pos].start_min ELSE s

(***************************************************************************)
(* Entries before the new one are lowered, up to the first that is low     *)
(* enough already.                                                         *)
(***************************************************************************)
Lowered(d, pos, min) ==
    [i \in 1 .. pos - 1 |->
        IF \A k \in i .. pos - 1 : d[k].start_min > min
        THEN [d[i] EXCEPT !.start_min = min] ELSE d[i]]

Inserted(d, s, e, v) ==
    LET pos == FindEnd(d, e)
        min == StartMin(d, pos, s)
    IN  Lowered(d, pos, min) \o <<Entry(min, s, e, v)>> \o SubSeq(d, pos, Len(d))

(***************************************************************************)
(* The search stops at the first entry with start_min >= end.              *)
(***************************************************************************)
StopAtStart(d, from, e) ==      \* mutant of Stop: start in place of start_min
    CHOOSE p \in from .. Len(d) + 1 :
        /\ \A i \in from .. p - 1 : d[i].start < e
        /\ p <= Len(d) => d[p].start >= e
Stop(d, from, e) ==
    CHOOSE p \in from .. Len(d) + 1 :
        /\ \A i \in from .. p - 1 : d[i].start_min < e
        /\ p <= Len(d) => d[p].start_min >= e

(***************************************************************************)
(* The entries from p to q that are in range, in their order.              *)
(***************************************************************************)
InRange(x, s, e) == x.end > s /\ x.start < e
Results(d, p, q, s, e) ==
    LET res[k \in p - 1 .. q] ==
            IF k = p - 1 THEN << >>
            ELSE IF InRange(d[k], s, e) THEN Append(res[k - 1], d[k]) ELSE res[k - 1]
    IN  res[q]

Overlapping(d, s, e) ==
    LET pos == FindEnd(d, s) IN Results(d, pos, Stop(d, pos, e) - 1, s, e)
=============================================================================

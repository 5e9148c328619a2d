--------------------------- MODULE RangeArrayCalls --------------------------
(***************************************************************************)
(* A RangeArray under every sequence of calls, next to what it ought to    *)
(* hold.  Addresses are marks on a ruler 0 .. MaxAddress: the range s .. e  *)
(* touches the marks s .. e and covers the unit steps s .. e - 1.          *)
(***************************************************************************)
EXTENDS RangeArray

CONSTANT MaxAddress
ASSUME MaxAddressAssumption == MaxAddress \in Nat

VARIABLES
    united,   \* the RangeArray
    marks,    \* history: the marks touched since the last clear_into
    steps     \* history: the unit steps covered since the last clear_into
calledVars == <<united, marks, steps>>

UprightSpans == {r \in [start : 0 .. MaxAddress, end : 0 .. MaxAddress] :
                    r.start <= r.end}

NoCalls == /\ united = New
           /\ marks = {} /\ steps = {}

Unite(r) ==
    /\ united' = Union(united, r)
    /\ marks' = marks \cup (r.start .. r.end)
    /\ steps' = steps \cup Addresses(r)

ClearInto ==
    /\ united' = New
    /\ marks' = {} /\ steps' = {}

Call == (\E r \in UprightSpans : Unite(r)) \/ ClearInto
Calls == NoCalls /\ [][Call]_calledVars

(***************************************************************************)
(* The maximal runs: ranges whose steps are all covered, whose ends are    *)
(* touched, and which cannot be extended on either side.                   *)
(***************************************************************************)
MaximalRuns ==
    {r \in UprightSpans : /\ r.start .. r.end \subseteq marks
                          /\ Addresses(r) \subseteq steps
                          /\ r.start - 1 \notin steps
                          /\ r.end \notin steps}

Held(arr) == {arr[i] : i \in DOMAIN arr}

(***************************************************************************)
(* After any sequence of unions the vector holds exactly the maximal runs  *)
(* of everything that was added: nothing lost, nothing added, everything   *)
(* that overlaps or touches merged (RangeArray::union).                    *)
(***************************************************************************)
HoldsMaximalRuns == Held(united) = MaximalRuns

(***************************************************************************)
(* The vector stays sorted with a gap between neighbours, what the binary  *)
(* search of the next union relies on.                                     *)
(***************************************************************************)
StaysWellFormed == WellFormed(united)
=============================================================================

----------------------------- MODULE TagWalks -----------------------------
(***************************************************************************)
(* Walks over a whole list of tags at once, for the modules in which such  *)
(* a walk is part of one step; ReadPlan takes them one item at a time.     *)
(*                                                                         *)
(* Here a list is not nested: it is a function from the numbers of its     *)
(* items, in the order of the file, to the items, and each item names the  *)
(* group it is in; one in no group names what is not in the list.  Beside  *)
(* tags and groups it holds the fields, which name their register.         *)
(***************************************************************************)
EXTENDS TagTree

IsGroup(item) == "base" \in DOMAIN item
Groups(items) == {i \in DOMAIN items : IsGroup(items[i])}
TagsAmong(items) == {i \in DOMAIN items : IsTag(items[i])}

(***************************************************************************)
(* The base every walk over a list has when it comes to an item: a group   *)
(* adds its own to the one around it, in u16.                              *)
(***************************************************************************)
Bases(items) ==
    LET base[i \in DOMAIN items] ==
            IF items[i].in \notin Groups(items) THEN 0
            ELSE Wrap(InnerBase(base[items[i].in], items[items[i].in]))
    IN  base

(***************************************************************************)
(* get_register_ranges and get_bit_ranges.                                 *)
(***************************************************************************)
WithRanges(items) ==
    LET base == Bases(items)
    IN  FoldLeft(LAMBDA arr, i : Union(arr, RangeOf(base[i], items[i])), New,
                 SetToSortSeq(TagsAmong(items), <))

RangesOverflow(items) ==
    LET base == Bases(items)
    IN  \/ \E i \in TagsAmong(items) : \/ Overflows(base[i] + items[i].low)
                                       \/ Overflows(base[i] + items[i].high + 1)
        \/ \E i \in Groups(items) : Overflows(InnerBase(base[i], items[i]))

-----------------------------------------------------------------------------
(***************************************************************************)
(* What a list means: the tags with their absolute addresses, in exact     *)
(* arithmetic.                                                             *)
(***************************************************************************)
Exact(items) ==
    LET base[i \in DOMAIN items] ==
            IF items[i].in \notin Groups(items) THEN 0
            ELSE base[items[i].in] + items[items[i].in].base
    IN  base

Absolute(items) ==
    LET base == Exact(items)
    IN  [i \in TagsAmong(items) |->
            [items[i] EXCEPT !.low = @ + base[i], !.high = @ + base[i]]]

GroupBeyond(items) == \E i \in Groups(items) : Exact(items)[i] + items[i].base >= Size
=============================================================================

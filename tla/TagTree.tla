------------------------------ MODULE TagTree -------------------------------
(***************************************************************************)
(* The configured tags of one area of one device (tag_list.rs) and the     *)
(* ranges of addresses they occupy (tag_ranges.rs).                        *)
(*                                                                         *)
(* A list is a tree: a tag has its addresses relative to the group it is   *)
(* in, a group its base relative to the group around it.  A bit is a tag   *)
(* with low = high.  Nobody checks that a register range is not upside     *)
(* down (low > high).                                                      *)
(***************************************************************************)
EXTENDS Widths, RangeArray, SequencesExt

VARIABLE debug      \* arithmetic panics on overflow: a debug build

Group(base, tags) == [base |-> base, tags |-> tags]
IsTag(item) == "low" \in DOMAIN item

Overflows(n) == debug /\ n >= Size

InnerBaseOnly(base, g) == g.base    \* mutant of InnerBase: the outer base is lost
InnerBase(base, g) == base + g.base

(***************************************************************************)
(* The range get_register_ranges and get_bit_ranges make of a tag.         *)
(***************************************************************************)
ExclusiveHigh(base, t) == Span(Wrap(t.low + base), Wrap(t.high + base)) \* mutant of RangeOf
RangeOf(base, t) == Span(Wrap(t.low + base), Wrap(Wrap(t.high + base) + 1))

FitsIn(t, size) == t.low < size /\ t.high < size
Words(t) == t.low .. t.high
=============================================================================

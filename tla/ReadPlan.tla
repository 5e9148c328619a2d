------------------------------ MODULE ReadPlan ------------------------------
(***************************************************************************)
(* From a configured list of tags to the requests that poll them, for one  *)
(* device and one area (Devices::new, then ClientOp::read_sequence):       *)
(*                                                                         *)
(*   1. Tags::new walks the list with TagIter and stores initial values;   *)
(*   2. TagRanges::from unites the addresses of the tags;                  *)
(*   3. push_range cuts each united range into requests.                   *)
(*                                                                         *)
(* Addresses are u16: a release build wraps them, a debug build panics.  A *)
(* tag upside down (low > high) with an initial value is in StartUp.       *)
(***************************************************************************)
EXTENDS TagTree

CONSTANTS
    MaxLen,     \* longest request: 125 registers, 2000 bits
    Tags,       \* tags that occur in lists
    Bases,      \* group bases that occur
    Height      \* bound: of the lists, counting along items and into groups

ASSUME PlanAssumption ==
    /\ MaxLen \in Nat \ {0}
    /\ Tags \subseteq [low : 0 .. Size - 1, high : 0 .. Size - 1, initial : BOOLEAN]
    /\ \A t \in Tags : t.initial => t.low <= t.high
    /\ Bases \subseteq 0 .. Size - 1
    /\ Height \in Nat

VARIABLES
    list,       \* the configured list
    pos,        \* TagIter.pos: what is left of each open list, and its base
    visited,    \* the tags TagIter returned, with their bases
    stored,     \* the addresses initial values were stored at
    calls,      \* the calls of get_register_ranges, each with its list and base
    ranges,     \* TagRanges of the area
    left,       \* the ranges of read_sequence not yet cut
    cut,        \* push_range: start, end and length of what is left of one
    seq,        \* the requests so far
    pc
vars == <<debug, list, pos, visited, stored, calls, ranges, left, cut, seq, pc>>

(***************************************************************************)
(* A list is empty, or an item before another list; an item is a tag, or a *)
(* group of a list.                                                        *)
(***************************************************************************)
Items(lists) == Tags \cup {Group(b, l) : b \in Bases, l \in lists}
Longer(lists) == UNION {{<<item>> \o rest : rest \in lists} : item \in Items(lists)}
Lists[n \in 0 .. Height] == {<< >>} \cup IF n = 0 THEN {} ELSE Longer(Lists[n - 1])

-----------------------------------------------------------------------------
Context(rest, base) == [rest |-> rest, base |-> base]

Init ==
    /\ debug \in BOOLEAN
    /\ list \in Lists[Height]
    /\ pos = <<Context(list, 0)>> /\ visited = << >> /\ stored = {}
    /\ calls = << >> /\ ranges = New
    /\ left = << >> /\ cut = << >> /\ seq = << >>
    /\ pc = "walk"

(***************************************************************************)
(* Stop with a panic, in the middle of the step.                           *)
(***************************************************************************)
Panic ==
    pc' = "panicked"
    /\ UNCHANGED <<debug, list, pos, visited, stored, calls, ranges, left, cut, seq>>

Top(stack) == Last(stack)
Below(stack) == Front(stack)

(***************************************************************************)
(* What is open after the next item was taken, and the group on it opened. *)
(***************************************************************************)
NextItem(stack) == Head(Top(stack).rest)
Taken(stack) == Below(stack) \o <<Context(Tail(Top(stack).rest), Top(stack).base)>>
Opened(stack, base) == Taken(stack) \o <<Context(NextItem(stack).tags, base)>>

HasItem(stack) == stack # << >> /\ Top(stack).rest # << >>
AtTag(stack) == HasItem(stack) /\ IsTag(NextItem(stack))
AtGroup(stack) == HasItem(stack) /\ ~IsTag(NextItem(stack))
AtEnd(stack) == stack # << >> /\ Top(stack).rest = << >>

(***************************************************************************)
(* TagIter::next returns a tag, and Tags::new stores its initial value: a  *)
(* register value takes as many words as the tag has, and the slice of the *)
(* array panics when it runs over the end.                                 *)
(***************************************************************************)
ReachesEnd(index, count) == index + count >= Size       \* mutant of Overruns
Overruns(index, count) == index + count > Size

VisitTag ==
    /\ pc = "walk" /\ AtTag(pos)
    /\ LET t == NextItem(pos)
           base == Top(pos).base
           index == Wrap(t.low + base)
           count == t.high - t.low + 1
       IN  IF t.initial /\ (Overflows(t.low + base) \/ Overruns(index, count))
           THEN Panic
           ELSE /\ pos' = Taken(pos)
                /\ visited' = Append(visited, [tag |-> t, base |-> base])
                /\ stored' = IF t.initial THEN stored \cup (index .. index + count - 1)
                                          ELSE stored
                /\ UNCHANGED <<debug, list, calls, ranges, left, cut, seq, pc>>

EnterGroup ==
    /\ pc = "walk" /\ AtGroup(pos)
    /\ LET inner == InnerBase(Top(pos).base, NextItem(pos))
       IN  IF Overflows(inner) THEN Panic
           ELSE /\ pos' = Opened(pos, Wrap(inner))
                /\ UNCHANGED <<debug, list, visited, stored, calls, ranges, left, cut, seq, pc>>

LeaveGroup ==
    /\ pc = "walk" /\ AtEnd(pos)
    /\ pos' = Below(pos)
    /\ UNCHANGED <<debug, list, visited, stored, calls, ranges, left, cut, seq, pc>>

-----------------------------------------------------------------------------
(***************************************************************************)
(* get_register_ranges and get_bit_ranges, which call themselves for each  *)
(* group.                                                                  *)
(***************************************************************************)
GetRanges ==
    /\ pc = "walk" /\ pos = << >>
    /\ calls' = <<Context(list, 0)>> /\ pc' = "ranges"
    /\ UNCHANGED <<debug, list, pos, visited, stored, ranges, left, cut, seq>>

AddRange ==
    /\ pc = "ranges" /\ AtTag(calls)
    /\ LET t == NextItem(calls)
           base == Top(calls).base
       IN  IF Overflows(t.low + base) \/ Overflows(t.high + base + 1) THEN Panic
           ELSE /\ ranges' = Union(ranges, RangeOf(base, t))
                /\ calls' = Taken(calls)
                /\ UNCHANGED <<debug, list, pos, visited, stored, left, cut, seq, pc>>

CallForGroup ==
    /\ pc = "ranges" /\ AtGroup(calls)
    /\ LET inner == Top(calls).base + NextItem(calls).base
       IN  IF Overflows(inner) THEN Panic
           ELSE /\ calls' = Opened(calls, Wrap(inner))
                /\ UNCHANGED <<debug, list, pos, visited, stored, ranges, left, cut, seq, pc>>

Return ==
    /\ pc = "ranges" /\ AtEnd(calls)
    /\ calls' = Below(calls)
    /\ UNCHANGED <<debug, list, pos, visited, stored, ranges, left, cut, seq, pc>>

HaveRanges ==
    /\ pc = "ranges" /\ calls = << >>
    /\ left' = ranges /\ pc' = "cut"
    /\ UNCHANGED <<debug, list, pos, visited, stored, calls, ranges, cut, seq>>

(***************************************************************************)
(* push_range.  An inverted range is not read; to compute its length is an *)
(* overflow.                                                               *)
(***************************************************************************)
Uncut(length) == length             \* mutant of OpLen: without the limit
OpLen(length) == IF length < MaxLen THEN length ELSE MaxLen

StartRange ==
    /\ pc = "cut" /\ cut = << >> /\ left # << >>
    /\ LET r == Head(left)
       IN  IF debug /\ r.end < r.start THEN Panic
           ELSE /\ cut' = <<[start |-> r.start, end |-> r.end,
                             length |-> Wrap(r.end - r.start)]>>
                /\ left' = Tail(left)
                /\ UNCHANGED <<debug, list, pos, visited, stored, calls, ranges, seq, pc>>

PushOp ==
    /\ pc = "cut" /\ cut # << >> /\ cut[1].start < cut[1].end
    /\ LET n == OpLen(cut[1].length)
       IN  /\ seq' = Append(seq, [start |-> cut[1].start, length |-> n])
           /\ cut' = <<[start |-> cut[1].start + n, end |-> cut[1].end,
                         length |-> cut[1].length - n]>>
    /\ UNCHANGED <<debug, list, pos, visited, stored, calls, ranges, left, pc>>

EndRange ==
    /\ pc = "cut" /\ cut # << >> /\ cut[1].start >= cut[1].end
    /\ cut' = << >>
    /\ UNCHANGED <<debug, list, pos, visited, stored, calls, ranges, left, seq, pc>>

Ready ==
    /\ pc = "cut" /\ cut = << >> /\ left = << >>
    /\ pc' = "ready"
    /\ UNCHANGED <<debug, list, pos, visited, stored, calls, ranges, left, cut, seq>>

Finished == pc \in {"ready", "panicked"} /\ UNCHANGED vars

Next == \/ VisitTag \/ EnterGroup \/ LeaveGroup
        \/ GetRanges \/ AddRange \/ CallForGroup \/ Return \/ HaveRanges
        \/ StartRange \/ PushOp \/ EndRange \/ Ready \/ Finished
Spec == Init /\ [][Next]_vars

-----------------------------------------------------------------------------
(***************************************************************************)
(* What a list means: the tags from first to last with their absolute      *)
(* addresses, and the bases of the groups, in exact arithmetic.            *)
(***************************************************************************)
Contexts == [rest : Lists[Height], base : Nat]
Moved(t, base) == [low |-> t.low + base, high |-> t.high + base, initial |-> t.initial]

Contents[c \in Contexts] ==
    IF c.rest = << >> THEN [tags |-> << >>, bases |-> {}]
    ELSE LET item == Head(c.rest)
             behind == Contents[Context(Tail(c.rest), c.base)]
         IN  IF IsTag(item)
             THEN [tags |-> <<Moved(item, c.base)>> \o behind.tags, bases |-> behind.bases]
             ELSE LET base == c.base + item.base
                      inside == Contents[Context(item.tags, base)]
                  IN  [tags |-> inside.tags \o behind.tags,
                       bases |-> {base} \cup inside.bases \cup behind.bases]

Whole == Contents[Context(list, 0)]
Configured == Range(Whole.tags)
ReadBy(op) == op.start .. op.start + op.length - 1

(***************************************************************************)
(* The iterator returns every tag once, in the order of the file, with the *)
(* base that gives its absolute address (TagIter::next), as far as it got. *)
(***************************************************************************)
IteratorFollowsTheFile ==
    LET abs == Whole.tags
    IN  /\ pos = << >> => Len(visited) = Len(abs)
        /\ \A i \in DOMAIN visited :
               /\ i \in DOMAIN abs
               /\ Wrap(abs[i].low) = Wrap(visited[i].base + visited[i].tag.low)
               /\ abs[i].high - abs[i].low = visited[i].tag.high - visited[i].tag.low

(***************************************************************************)
(* Of tags that end before the last address, every address is read, and if *)
(* all tags do, no other is.  A tag that ends at the last address is not   *)
(* read for its own sake: the end of its range wraps to 0                  *)
(* (get_register_ranges, push_range).                                      *)
(***************************************************************************)
ReadsWhatIsConfigured ==
    pc = "ready" =>
        LET readable == {t \in Configured : FitsIn(t, Size - 1)}
            wanted == UNION {Words(t) : t \in readable}
            read == UNION {ReadBy(op) : op \in Range(seq)}
        IN  /\ wanted \subseteq read
            /\ (\A t \in Configured : FitsIn(t, Size)) => read = wanted

(***************************************************************************)
(* Requests are as long as the protocol allows, stay inside the address    *)
(* space, come in the order of the addresses, and read nothing twice.      *)
(***************************************************************************)
RequestsAreLegal ==
    /\ \A i \in DOMAIN seq : /\ seq[i].length \in 1 .. MaxLen
                             /\ seq[i].start + seq[i].length <= Size
    /\ \A i, j \in DOMAIN seq : i < j => seq[i].start + seq[i].length <= seq[j].start

(***************************************************************************)
(* The program starts up unless a tag or a group lies beyond the addresses *)
(* or, in a debug build, a tag ends at the last one or is upside down.     *)
(***************************************************************************)
StartsUp ==
    pc = "panicked" =>
        \/ \E t \in Configured : ~FitsIn(t, IF debug THEN Size - 1 ELSE Size)
        \/ debug /\ ((\E b \in Whole.bases : b >= Size) \/ \E t \in Configured : t.low > t.high)
=============================================================================

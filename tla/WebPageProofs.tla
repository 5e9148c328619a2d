---------------------------- MODULE WebPageProofs ----------------------------
(***************************************************************************)
(* The page, for any inputs, any messages and any texts.                   *)
(*                                                                         *)
(*   1. range_dict.js, for lists of any length: an insert keeps the list   *)
(*      searchable, and a search of a searchable list finds exactly the    *)
(*      entries that overlap.                                              *)
(*   2. The constructor: induction over the inputs of the page.            *)
(*   3. What FieldWord leaves of a word, the words an edit makes and what  *)
(*      update_range accumulates, on the sums of digits of DataProofs.     *)
(*   4. The invariant, and the theorems about the index and about edits.   *)
(*   5. A refresh shows every input in range that nothing disturbs, from   *)
(*      the order in which a look-up finds them.                           *)
(***************************************************************************)
EXTENDS WebPage, DataProofs

EntryType(V) == [start_min : Int, start : Int, end : Int, value : V]

(***************************************************************************)
(* Sorted by end; start_min is the least start of an entry and all entries *)
(* after it.                                                               *)
(***************************************************************************)
Searchable(d) ==
    \A i \in 1 .. Len(d) :
        /\ \A k \in i .. Len(d) : d[i].end <= d[k].end /\ d[i].start_min <= d[k].start
        /\ \E k \in i .. Len(d) : d[i].start_min = d[k].start

LEMMA EntryFields ==
  ASSUME NEW V, NEW d \in Seq(EntryType(V))
  PROVE  /\ Len(d) \in Nat /\ DOMAIN d = 1 .. Len(d)
         /\ \A i \in 1 .. Len(d) : /\ d[i] \in EntryType(V)
                                   /\ d[i].start_min \in Int /\ d[i].start \in Int
                                   /\ d[i].end \in Int
<1>1. Len(d) \in Nat /\ DOMAIN d = 1 .. Len(d) /\ \A i \in 1 .. Len(d) : d[i] \in EntryType(V)
  OBVIOUS
<1> QED BY <1>1 DEF EntryType

LEMMA EntryLemma ==
  ASSUME NEW V, NEW m \in Int, NEW s \in Int, NEW e \in Int, NEW v \in V
  PROVE  /\ Entry(m, s, e, v) \in EntryType(V)
         /\ Entry(m, s, e, v).start_min = m /\ Entry(m, s, e, v).start = s
         /\ Entry(m, s, e, v).end = e /\ Entry(m, s, e, v).value = v
BY DEF Entry, EntryType

(***************************************************************************)
(* The place where the first element with a property would be, past the    *)
(* end if there is none.                                                   *)
(***************************************************************************)
LEMMA FirstExists ==
  ASSUME NEW n \in Nat, NEW from \in 1 .. n + 1, NEW S \in SUBSET (from .. n)
  PROVE  \E p \in from .. n + 1 : /\ \A i \in from .. p - 1 : i \notin S
                                  /\ p <= n => p \in S
<1>1. CASE S = {}
  <2> WITNESS n + 1 \in from .. n + 1
  <2> QED BY <1>1
<1>2. CASE S # {}
  <2>0. S \subseteq Nat
    OBVIOUS
  <2>1. PICK p \in S : \A i \in S : p <= i
    BY <1>2, <2>0, LeastExists
  <2>2. p \in from .. n + 1 /\ \A i \in from .. p - 1 : i \notin S
    BY <2>1
  <2> QED BY <2>1, <2>2
<1> QED BY <1>1, <1>2

(***************************************************************************)
(* find_end: the binary search finds what it looks for.                    *)
(***************************************************************************)
LEMMA FindEndLemma ==
  ASSUME NEW V, NEW d \in Seq(EntryType(V)), Searchable(d), NEW v \in Int
  PROVE  /\ FindEnd(d, v) \in 1 .. Len(d) + 1
         /\ \A i \in 1 .. FindEnd(d, v) - 1 : d[i].end <= v
         /\ \A i \in FindEnd(d, v) .. Len(d) : d[i].end > v
<1> DEFINE late == {i \in 1 .. Len(d) : d[i].end > v}
           Here(p) == /\ \A i \in 1 .. p - 1 : d[i].end <= v
                      /\ \A i \in p .. Len(d) : d[i].end > v
<1>1. PICK p \in 1 .. Len(d) + 1 : /\ \A i \in 1 .. p - 1 : i \notin late
                                   /\ p <= Len(d) => p \in late
  <2>1. 1 \in 1 .. Len(d) + 1 /\ late \in SUBSET (1 .. Len(d))
    BY EntryFields
  <2> HIDE DEF late
  <2> QED BY <2>1, EntryFields, FirstExists
<1>2. \A i \in 1 .. p - 1 : d[i].end <= v
  BY <1>1, EntryFields
<1>3. \A i \in p .. Len(d) : d[i].end > v
  <2> SUFFICES ASSUME NEW i \in p .. Len(d) PROVE d[i].end > v
    OBVIOUS
  <2>1. p \in 1 .. Len(d) /\ i \in 1 .. Len(d) /\ d[p].end > v
    BY <1>1, EntryFields
  <2>2. d[p].end <= d[i].end
    BY <2>1 DEF Searchable
  <2> QED BY <2>1, <2>2, EntryFields
<1>4. \E q \in 1 .. Len(d) + 1 : Here(q)
  BY <1>2, <1>3
<1> QED BY <1>4 DEF FindEnd

(***************************************************************************)
(* The loop of overlapping: where it stops.                                *)
(***************************************************************************)
LEMMA StopLemma ==
  ASSUME NEW V, NEW d \in Seq(EntryType(V)), NEW from \in 1 .. Len(d) + 1, NEW e \in Int
  PROVE  /\ Stop(d, from, e) \in from .. Len(d) + 1
         /\ Stop(d, from, e) <= Len(d) => d[Stop(d, from, e)].start_min >= e
<1> DEFINE late == {i \in from .. Len(d) : d[i].start_min >= e}
           Here(p) == /\ \A i \in from .. p - 1 : d[i].start_min < e
                      /\ p <= Len(d) => d[p].start_min >= e
<1>1. PICK p \in from .. Len(d) + 1 : /\ \A i \in from .. p - 1 : i \notin late
                                      /\ p <= Len(d) => p \in late
  <2>1. late \in SUBSET (from .. Len(d))
    OBVIOUS
  <2> HIDE DEF late
  <2> QED BY <2>1, EntryFields, FirstExists
<1>2. \A i \in from .. p - 1 : d[i].start_min < e
  BY <1>1, EntryFields
<1>3. \E q \in from .. Len(d) + 1 : Here(q)
  BY <1>1, <1>2
<1> QED BY <1>3 DEF Stop

(***************************************************************************)
(* A look-up of [s, e) looks at every entry that overlaps it: the stop at  *)
(* the first start_min that is too high misses none (overlapping).         *)
(***************************************************************************)
THEOREM SearchMissesNone ==
  ASSUME NEW V, NEW d \in Seq(EntryType(V)), Searchable(d), NEW s \in Int, NEW e \in Int
  PROVE  \A i \in 1 .. Len(d) : d[i].end > s /\ d[i].start < e =>
             i \in FindEnd(d, s) .. Stop(d, FindEnd(d, s), e) - 1
<1> DEFINE p == FindEnd(d, s)
           q == Stop(d, p, e)
<1>1. p \in 1 .. Len(d) + 1 /\ \A i \in 1 .. p - 1 : d[i].end <= s
  BY FindEndLemma
<1> HIDE DEF p
<1>2. q \in p .. Len(d) + 1 /\ (q <= Len(d) => d[q].start_min >= e)
  BY <1>1, StopLemma
<1> HIDE DEF q
<1> SUFFICES ASSUME NEW i \in 1 .. Len(d), d[i].end > s, d[i].start < e
             PROVE  i \in p .. q - 1
  BY DEF p, q
<1>3. p <= i
  BY <1>1, EntryFields
<1>4. i < q
  <2> SUFFICES ASSUME q <= i PROVE FALSE
    BY <1>1, <1>2, EntryFields
  <2>1. q \in 1 .. Len(d) /\ i \in q .. Len(d) /\ d[q].start_min >= e
    BY <1>1, <1>2, EntryFields
  <2>2. d[q].start_min <= d[i].start
    BY <2>1 DEF Searchable
  <2> QED BY <2>1, <2>2, EntryFields
<1> QED BY <1>1, <1>2, <1>3, <1>4, EntryFields

-----------------------------------------------------------------------------
(***************************************************************************)
(* The start_min of the new entry.                                         *)
(***************************************************************************)
LEMMA StartMinLemma ==
  ASSUME NEW V, NEW d \in Seq(EntryType(V)), Searchable(d),
         NEW pos \in 1 .. Len(d) + 1, NEW s \in Int
  PROVE  /\ StartMin(d, pos, s) \in Int /\ StartMin(d, pos, s) <= s
         /\ \A k \in pos .. Len(d) : StartMin(d, pos, s) <= d[k].start
         /\ StartMin(d, pos, s) = s
            \/ \E k \in pos .. Len(d) : StartMin(d, pos, s) = d[k].start
<1>1. CASE pos <= Len(d) /\ d[pos].start_min < s
  <2>1. pos \in 1 .. Len(d) /\ StartMin(d, pos, s) = d[pos].start_min
    BY <1>1 DEF StartMin
  <2> DEFINE m == StartMin(d, pos, s)
  <2>2. /\ \A k \in pos .. Len(d) : m <= d[k].start
        /\ \E k \in pos .. Len(d) : m = d[k].start
    BY <2>1 DEF Searchable
  <2> HIDE DEF m
  <2>3. m \in Int /\ m <= s
    BY <1>1, <2>1, EntryFields DEF m
  <2> QED BY <2>2, <2>3 DEF m
<1>2. CASE ~(pos <= Len(d) /\ d[pos].start_min < s)
  <2>1. StartMin(d, pos, s) = s
    BY <1>2 DEF StartMin
  <2>2. ASSUME NEW k \in pos .. Len(d) PROVE s <= d[k].start
    <3>1. pos \in 1 .. Len(d) /\ k \in 1 .. Len(d) /\ s <= d[pos].start_min
      BY <1>2, EntryFields
    <3>2. d[pos].start_min <= d[k].start
      BY <3>1 DEF Searchable
    <3> QED BY <3>1, <3>2, EntryFields
  <2> QED BY <2>1, <2>2
<1> QED BY <1>1, <1>2

(***************************************************************************)
(* The entries before the new one: only start_min changes, and becomes the *)
(* least start of the entries from there on and of the new one, of which   *)
(* min is known to be the least from pos on.                               *)
(***************************************************************************)
LEMMA LoweredLemma ==
  ASSUME NEW V, NEW d \in Seq(EntryType(V)), Searchable(d),
         NEW pos \in 1 .. Len(d) + 1, NEW min \in Int
  PROVE  /\ Lowered(d, pos, min) \in Seq(EntryType(V)) /\ Len(Lowered(d, pos, min)) = pos - 1
         /\ \A i \in 1 .. pos - 1 :
               LET x == Lowered(d, pos, min)[i]
               IN  /\ x.end = d[i].end /\ x.start = d[i].start /\ x.value = d[i].value
                   /\ x.start_min <= min
                   /\ \A k \in i .. pos - 1 : x.start_min <= d[k].start
                   /\ x.start_min = min \/ x.start_min = d[i].start_min
<1> DEFINE low == Lowered(d, pos, min)
           Above(i) == \A k \in i .. pos - 1 : d[k].start_min > min
<1>0. Len(d) \in Nat /\ pos - 1 \in Nat /\ pos - 1 <= Len(d)
  BY EntryFields
<1>1. \A i \in 1 .. pos - 1 :
        low[i] = IF Above(i) THEN [d[i] EXCEPT !.start_min = min] ELSE d[i]
  BY DEF Lowered
<1> HIDE DEF Above
<1>2. \A x \in EntryType(V) :
        /\ [x EXCEPT !.start_min = min] \in EntryType(V)
        /\ [x EXCEPT !.start_min = min].start_min = min
        /\ [x EXCEPT !.start_min = min].start = x.start
        /\ [x EXCEPT !.start_min = min].end = x.end
        /\ [x EXCEPT !.start_min = min].value = x.value
  BY DEF EntryType
<1>3. low \in [1 .. pos - 1 -> EntryType(V)]
  <2>2. low = [i \in 1 .. pos - 1 |-> low[i]]
    BY DEF Lowered
  <2> HIDE DEF low
  <2>1. ASSUME NEW i \in 1 .. pos - 1 PROVE low[i] \in EntryType(V)
    <3>1. d[i] \in EntryType(V)
      BY <1>0, EntryFields
    <3>2. [d[i] EXCEPT !.start_min = min] \in EntryType(V)
      BY <1>2, <3>1
    <3> QED BY <1>1, <3>1, <3>2
  <2> QED BY <2>1, <2>2
<1>4. low \in Seq(EntryType(V)) /\ Len(low) = pos - 1
  <2> HIDE DEF low
  <2> QED BY <1>0, <1>3
<1>5. ASSUME NEW i \in 1 .. pos - 1
      PROVE  /\ low[i].end = d[i].end /\ low[i].start = d[i].start /\ low[i].value = d[i].value
             /\ low[i].start_min <= min
             /\ \A k \in i .. pos - 1 : low[i].start_min <= d[k].start
             /\ low[i].start_min = min \/ low[i].start_min = d[i].start_min
  <2>0. i \in 1 .. Len(d) /\ i .. pos - 1 \subseteq i .. Len(d)
    BY <1>0
  <2>1. CASE Above(i)
    <3>1. /\ low[i].end = d[i].end /\ low[i].start = d[i].start /\ low[i].value = d[i].value
          /\ low[i].start_min = min
      <4> HIDE DEF low
      <4>1. d[i] \in EntryType(V)
        BY <2>0, EntryFields
      <4>2. low[i] = [d[i] EXCEPT !.start_min = min]
        BY <1>1, <2>1
      <4> QED BY <1>2, <4>1, <4>2
    <3>2. ASSUME NEW k \in i .. pos - 1 PROVE min <= d[k].start
      <4>1. k \in 1 .. Len(d) /\ d[k].start_min > min
        BY <1>0, <2>1 DEF Above
      <4>2. d[k].start_min <= d[k].start
        BY <4>1 DEF Searchable
      <4> QED BY <4>1, <4>2, EntryFields
    <3> HIDE DEF low
    <3> QED BY <3>1, <3>2
  <2>2. CASE ~Above(i)
    <3>1. low[i] = d[i]
      BY <1>1, <2>2
    <3>2. PICK k \in i .. pos - 1 : d[k].start_min <= min
      <4>1. PICK k \in i .. pos - 1 : ~(d[k].start_min > min)
        BY <2>2 DEF Above
      <4>2. d[k].start_min \in Int
        BY <1>0, EntryFields
      <4> QED BY <4>1, <4>2
    <3>3. k \in 1 .. Len(d) /\ k \in i .. Len(d)
      BY <1>0
    <3>4. PICK m \in k .. Len(d) : d[k].start_min = d[m].start
      BY <3>3 DEF Searchable
    <3>5. d[i].start_min <= d[m].start
      BY <2>0, <3>3 DEF Searchable
    <3>6. d[i].start_min <= min
      BY <2>0, <3>2, <3>3, <3>4, <3>5, EntryFields
    <3>7. \A x \in i .. pos - 1 : d[i].start_min <= d[x].start
      BY <2>0 DEF Searchable
    <3> HIDE DEF low
    <3> QED BY <3>1, <3>6, <3>7
  <2> QED BY <2>1, <2>2
<1> HIDE DEF low
<1>6. \A i \in 1 .. pos - 1 :
        /\ low[i].end = d[i].end /\ low[i].start = d[i].start /\ low[i].value = d[i].value
        /\ low[i].start_min <= min
        /\ \A k \in i .. pos - 1 : low[i].start_min <= d[k].start
        /\ low[i].start_min = min \/ low[i].start_min = d[i].start_min
  BY <1>5
<1> QED BY <1>4, <1>6 DEF low

(***************************************************************************)
(* An insert, anywhere, of any range, keeps the list searchable (insert),  *)
(* and every other entry as it was but for its start_min.                  *)
(***************************************************************************)
Same(x, y) == x.start = y.start /\ x.end = y.end /\ x.value = y.value

THEOREM InsertKeepsSearchable ==
  ASSUME NEW V, NEW d \in Seq(EntryType(V)), Searchable(d),
         NEW s \in Int, NEW e \in Int, NEW v \in V
  PROVE  /\ Inserted(d, s, e, v) \in Seq(EntryType(V)) /\ Searchable(Inserted(d, s, e, v))
         /\ Len(Inserted(d, s, e, v)) = Len(d) + 1
         /\ \E pos \in 1 .. Len(d) + 1 :
               LET out == Inserted(d, s, e, v)
               IN  /\ out[pos].start = s /\ out[pos].end = e /\ out[pos].value = v
                   /\ \A i \in 1 .. pos - 1 : Same(out[i], d[i])
                   /\ \A i \in pos .. Len(d) : Same(out[i + 1], d[i])
<1> DEFINE pos == FindEnd(d, e)
           min == StartMin(d, pos, s)
           low == Lowered(d, pos, min)
           new == Entry(min, s, e, v)
           tail == SubSeq(d, pos, Len(d))
           out == low \o <<new>> \o tail
           n == Len(d)
<1>0. /\ n \in Nat
      /\ \A i \in 1 .. n : d[i].start_min \in Int /\ d[i].start \in Int /\ d[i].end \in Int
  BY EntryFields
<1>1. /\ pos \in 1 .. n + 1
      /\ \A i \in 1 .. pos - 1 : d[i].end <= e
      /\ \A i \in pos .. n : d[i].end > e
  BY FindEndLemma
<1> HIDE DEF pos
<1>2. /\ min \in Int /\ min <= s /\ \A k \in pos .. n : min <= d[k].start
      /\ min = s \/ \E k \in pos .. n : min = d[k].start
  BY <1>1, StartMinLemma
<1> HIDE DEF min
<1>3. /\ low \in Seq(EntryType(V)) /\ Len(low) = pos - 1
      /\ \A i \in 1 .. pos - 1 :
            /\ low[i].end = d[i].end /\ low[i].start = d[i].start /\ low[i].value = d[i].value
            /\ low[i].start_min <= min
            /\ \A k \in i .. pos - 1 : low[i].start_min <= d[k].start
            /\ low[i].start_min = min \/ low[i].start_min = d[i].start_min
  BY <1>1, <1>2, LoweredLemma
<1> HIDE DEF low
<1>4. new \in EntryType(V) /\ new.start_min = min /\ new.start = s /\ new.end = e
      /\ new.value = v
  BY <1>2, EntryLemma
<1> HIDE DEF new
<1>5. /\ tail \in Seq(EntryType(V)) /\ Len(tail) = n - pos + 1
      /\ \A i \in 1 .. n - pos + 1 : tail[i] = d[pos - 1 + i]
  BY <1>0, <1>1
<1> HIDE DEF tail
<1>6. /\ out \in Seq(EntryType(V)) /\ Len(out) = n + 1
      /\ \A i \in 1 .. pos - 1 : out[i] = low[i]
      /\ out[pos] = new
      /\ \A i \in pos .. n : out[i + 1] = d[i]
  <2> DEFINE E == EntryType(V)
  <2>0. low \in Seq(E) /\ tail \in Seq(E) /\ new \in E
    BY <1>3, <1>4, <1>5
  <2> HIDE DEF E
  <2>1. /\ out \in Seq(E) /\ Len(out) = Len(low) + 1 + Len(tail)
        /\ \A i \in 1 .. Len(low) : out[i] = low[i]
        /\ out[Len(low) + 1] = new
        /\ \A i \in 1 .. Len(tail) : out[Len(low) + 1 + i] = tail[i]
    BY ONLY <2>0, ConcatThree
  <2> HIDE DEF out
  <2>2. ASSUME NEW i \in pos .. n PROVE out[i + 1] = d[i]
    <3>1. i - pos + 1 \in 1 .. n - pos + 1
      BY <1>0, <1>1
    <3>2. out[pos - 1 + 1 + (i - pos + 1)] = d[pos - 1 + (i - pos + 1)]
      BY <1>3, <1>5, <2>1, <3>1
    <3>3. pos - 1 + 1 + (i - pos + 1) = i + 1 /\ pos - 1 + (i - pos + 1) = i
      BY <1>0, <1>1
    <3> QED BY <3>2, <3>3
  <2> QED BY <1>0, <1>1, <1>3, <1>5, <2>1, <2>2 DEF E
<1> HIDE DEF out
<1>7. ASSUME NEW i \in 1 .. pos - 1
      PROVE  /\ \A k \in i .. n + 1 : out[i].end <= out[k].end /\ out[i].start_min <= out[k].start
             /\ \E k \in i .. n + 1 : out[i].start_min = out[k].start
  <2>0. i \in 1 .. n /\ out[i] = low[i] /\ d[i].start_min \in Int
    BY <1>0, <1>1, <1>6
  <2>1. /\ i \in 1 .. n /\ out[i].end = d[i].end
        /\ out[i].start_min <= min /\ out[i].start_min \in Int
        /\ out[i].start_min = min \/ out[i].start_min = d[i].start_min
    BY <1>2, <1>3, <2>0
  <2>2. ASSUME NEW k \in i .. pos - 1
        PROVE  out[i].end <= out[k].end /\ out[i].start_min <= out[k].start
    <3>0. k \in 1 .. pos - 1 /\ out[k] = low[k] /\ out[i] = low[i]
      BY <1>1, <1>6
    <3>1. out[k].end = d[k].end /\ out[k].start = d[k].start /\ out[i].start_min <= d[k].start
      BY <1>3, <3>0
    <3>2. d[i].end <= d[k].end
      <4>1. k \in i .. n
        BY <1>0, <1>1, <2>1
      <4> QED BY <2>1, <4>1 DEF Searchable
    <3> QED BY <2>1, <3>1, <3>2
  <2>3. out[i].end <= out[pos].end /\ out[i].start_min <= out[pos].start
    <3>1. out[pos].end = e /\ out[pos].start = s
      BY <1>4, <1>6
    <3>2. d[i].end <= e
      BY <1>1
    <3> QED BY <1>2, <2>1, <3>1, <3>2
  <2>4. ASSUME NEW k \in pos .. n
        PROVE  out[i].end <= out[k + 1].end /\ out[i].start_min <= out[k + 1].start
    <3>1. out[k + 1] = d[k] /\ k \in 1 .. n /\ d[i].end <= d[k].end
      BY <1>0, <1>1, <1>6, <2>1 DEF Searchable
    <3>2. min <= d[k].start
      BY <1>2
    <3> QED BY <1>0, <1>2, <2>1, <3>1, <3>2
  <2>5. \E k \in i .. n + 1 : out[i].start_min = out[k].start
    <3>1. CASE out[i].start_min = min
      <4>1. CASE min = s
        <5>1. pos \in i .. n + 1
          BY <1>0, <1>1
        <5> QED BY <1>4, <1>6, <3>1, <4>1, <5>1
      <4>2. CASE \E k \in pos .. n : min = d[k].start
        <5>1. PICK k \in pos .. n : min = d[k].start
          BY <4>2
        <5>2. k + 1 \in i .. n + 1 /\ out[k + 1] = d[k]
          BY <1>0, <1>1, <1>6
        <5> QED BY <3>1, <5>1, <5>2
      <4> QED BY <1>2, <4>1, <4>2
    <3>2. CASE out[i].start_min = d[i].start_min
      <4>1. PICK k \in i .. n : d[i].start_min = d[k].start
        BY <2>1 DEF Searchable
      <4>2. CASE k < pos
        <5>1. k \in i .. n + 1 /\ out[k].start = d[k].start
          BY <1>0, <1>1, <1>3, <1>6, <4>2
        <5> QED BY <3>2, <4>1, <5>1
      <4>3. CASE k >= pos
        <5>1. k + 1 \in i .. n + 1 /\ out[k + 1] = d[k]
          BY <1>0, <1>1, <1>6, <4>3
        <5> QED BY <3>2, <4>1, <5>1
      <4> QED BY <1>0, <1>1, <4>2, <4>3
    <3> QED BY <2>1, <3>1, <3>2
  <2>6. ASSUME NEW k \in i .. n + 1
        PROVE  out[i].end <= out[k].end /\ out[i].start_min <= out[k].start
    <3>1. \/ k \in i .. pos - 1
          \/ k = pos
          \/ k - 1 \in pos .. n /\ k - 1 + 1 = k
      BY <1>0, <1>1
    <3> QED BY <2>2, <2>3, <2>4, <3>1
  <2> QED BY <2>5, <2>6
<1>8. /\ \A k \in pos .. n + 1 : out[pos].end <= out[k].end /\ out[pos].start_min <= out[k].start
      /\ \E k \in pos .. n + 1 : out[pos].start_min = out[k].start
  <2>1. ASSUME NEW k \in pos .. n + 1
        PROVE  out[pos].end <= out[k].end /\ out[pos].start_min <= out[k].start
    <3>1. CASE k = pos
      BY <1>2, <1>4, <1>6, <3>1
    <3>2. CASE k # pos
      <4>1. k - 1 \in pos .. n /\ k - 1 + 1 = k
        BY <1>0, <1>1, <3>2
      <4>2. out[k] = d[k - 1] /\ d[k - 1].end > e /\ min <= d[k - 1].start /\ k - 1 \in 1 .. n
        BY <1>1, <1>2, <1>6, <4>1
      <4> QED BY <1>0, <1>4, <1>6, <4>2
    <3> QED BY <3>1, <3>2
  <2>2. CASE min = s
    <3>1. pos \in pos .. n + 1
      BY <1>0, <1>1
    <3> QED BY <1>4, <1>6, <2>1, <2>2, <3>1
  <2>3. CASE \E k \in pos .. n : min = d[k].start
    <3>1. PICK k \in pos .. n : min = d[k].start
      BY <2>3
    <3>2. k + 1 \in pos .. n + 1 /\ out[k + 1] = d[k]
      BY <1>0, <1>1, <1>6
    <3> QED BY <1>4, <1>6, <2>1, <3>1, <3>2
  <2> QED BY <1>2, <2>2, <2>3
<1>9. ASSUME NEW j \in pos .. n
      PROVE  /\ \A k \in j + 1 .. n + 1 :
                   out[j + 1].end <= out[k].end /\ out[j + 1].start_min <= out[k].start
             /\ \E k \in j + 1 .. n + 1 : out[j + 1].start_min = out[k].start
  <2>1. j \in 1 .. n /\ out[j + 1] = d[j]
    BY <1>1, <1>6
  <2>2. ASSUME NEW k \in j + 1 .. n + 1
        PROVE  out[j + 1].end <= out[k].end /\ out[j + 1].start_min <= out[k].start
    <3>1. k - 1 \in j .. n /\ k - 1 \in pos .. n /\ k - 1 + 1 = k
      BY <1>0, <1>1
    <3>2. out[k] = d[k - 1]
      BY <1>6, <3>1
    <3> QED BY <2>1, <3>1, <3>2 DEF Searchable
  <2>3. PICK k \in j .. n : d[j].start_min = d[k].start
    BY <2>1 DEF Searchable
  <2>4. k + 1 \in j + 1 .. n + 1 /\ out[k + 1] = d[k]
    BY <1>0, <1>1, <1>6
  <2> QED BY <2>1, <2>2, <2>3, <2>4
<1>10. Searchable(out)
  <2> SUFFICES ASSUME NEW i \in 1 .. n + 1
               PROVE  /\ \A k \in i .. n + 1 :
                            out[i].end <= out[k].end /\ out[i].start_min <= out[k].start
                      /\ \E k \in i .. n + 1 : out[i].start_min = out[k].start
    BY <1>6 DEF Searchable
  <2>1. \/ i \in 1 .. pos - 1
        \/ i = pos
        \/ i - 1 \in pos .. n /\ i - 1 + 1 = i
    BY <1>0, <1>1
  <2>2. CASE i - 1 \in pos .. n /\ i - 1 + 1 = i
    <3> DEFINE j == i - 1
    <3>1. j \in pos .. n /\ j + 1 = i
      BY <2>2
    <3> HIDE DEF j
    <3> QED BY <1>9, <3>1
  <2> QED BY <1>7, <1>8, <2>1, <2>2
<1>11. Inserted(d, s, e, v) = out
  BY DEF Inserted, out, tail, new, low, min, pos
<1>12. /\ out[pos].start = s /\ out[pos].end = e /\ out[pos].value = v
       /\ \A i \in 1 .. pos - 1 : Same(out[i], d[i])
       /\ \A i \in pos .. n : Same(out[i + 1], d[i])
  BY <1>3, <1>4, <1>6 DEF Same
<1> QED BY <1>1, <1>6, <1>10, <1>11, <1>12

-----------------------------------------------------------------------------
(***************************************************************************)
(* The results of a look-up, collected entry by entry.                     *)
(***************************************************************************)
Collected(f, d, p, q, s, e) ==
    f = [k \in p - 1 .. q |->
            IF k = p - 1 THEN << >>
            ELSE IF InRange(d[k], s, e) THEN Append(f[k - 1], d[k]) ELSE f[k - 1]]

(***************************************************************************)
(* What is collected of d[p .. k]: the entries in range, in their order.   *)
(***************************************************************************)
Selects(res, d, p, k, s, e) ==
    /\ \A j \in p .. k : InRange(d[j], s, e) => \E i \in 1 .. Len(res) : res[i] = d[j]
    /\ \A i \in 1 .. Len(res) : \E j \in p .. k : InRange(d[j], s, e) /\ res[i] = d[j]
    /\ \A i1, i2 \in 1 .. Len(res) : i1 < i2 =>
          \E j1, j2 \in p .. k : j1 < j2 /\ res[i1] = d[j1] /\ res[i2] = d[j2]

LEMMA CollectedExists ==
  ASSUME NEW S, NEW d \in Seq(S), NEW p \in 1 .. Len(d) + 1, NEW q \in p - 1 .. Len(d),
         NEW s, NEW e
  PROVE  \E f \in [p - 1 .. q -> Seq(S)] : Collected(f, d, p, q, s, e)
<1> DEFINE T == Seq(S)
           Next1(n, r) == IF p + n <= q /\ InRange(d[p + n], s, e) THEN Append(r, d[p + n]) ELSE r
           step == [n \in Nat |-> [r \in T |-> Next1(n, r)]]
<1>1. << >> \in T
  OBVIOUS
<1>2. \A n \in Nat : \A r \in T : Next1(n, r) \in T
  <2> SUFFICES ASSUME NEW n \in Nat, NEW r \in T PROVE Next1(n, r) \in T
    OBVIOUS
  <2>1. p + n <= q => d[p + n] \in S
    OBVIOUS
  <2> QED BY <2>1
<1> HIDE DEF Next1, T
<1>3. Stepping(step, T)
  BY <1>2 DEF Stepping
<1> HIDE DEF step
<1>4. PICK g \in [Nat -> T] : g[0] = << >> /\ \A n \in Nat : g[n + 1] = step[n][g[n]]
  <2>1. \E g : Iterated(g, T, << >>, step)
    BY <1>1, <1>3, Iterates
  <2> QED BY <2>1 DEF Iterated
<1>5. \A n \in Nat : g[n + 1] = Next1(n, g[n])
  BY <1>4 DEF step
<1> DEFINE f == [k \in p - 1 .. q |-> g[k - (p - 1)]]
           Body(k) == IF k = p - 1 THEN << >>
                      ELSE IF InRange(d[k], s, e) THEN Append(f[k - 1], d[k]) ELSE f[k - 1]
<1>6. f \in [p - 1 .. q -> T]
  OBVIOUS
<1>7. ASSUME NEW k \in p - 1 .. q PROVE f[k] = Body(k)
  <2>1. CASE k = p - 1
    <3>1. k - (p - 1) = 0 /\ f[k] = g[k - (p - 1)]
      BY <2>1
    <3> QED BY <1>4, <2>1, <3>1
  <2>2. CASE k # p - 1
    <3> DEFINE n == k - p
    <3>1. /\ n \in Nat /\ p + n = k /\ k - (p - 1) = n + 1 /\ k - 1 - (p - 1) = n
          /\ k - 1 \in p - 1 .. q /\ k <= q
      BY <2>2
    <3> HIDE DEF n
    <3>2. f[k] = g[n + 1] /\ f[k - 1] = g[n]
      BY <3>1
    <3> HIDE DEF f
    <3>3. g[n + 1] = IF InRange(d[k], s, e) THEN Append(g[n], d[k]) ELSE g[n]
      BY <1>5, <3>1 DEF Next1
    <3> QED BY <2>2, <3>2, <3>3
  <2> QED BY <2>1, <2>2
<1>8. f = [k \in p - 1 .. q |-> Body(k)]
  BY <1>7
<1>9. Collected(f, d, p, q, s, e)
  BY <1>8, Zenon DEF Collected
<1> HIDE DEF f
<1> QED BY <1>6, <1>9 DEF T

LEMMA ResultsLemma ==
  ASSUME NEW S, NEW d \in Seq(S), NEW p \in 1 .. Len(d) + 1, NEW q \in p - 1 .. Len(d),
         NEW s, NEW e
  PROVE  /\ Results(d, p, q, s, e) \in Seq(S)
         /\ Selects(Results(d, p, q, s, e), d, p, q, s, e)
<1> DEFINE f == CHOOSE f : Collected(f, d, p, q, s, e)
<1>1. Results(d, p, q, s, e) = f[q]
  BY Zenon DEF Results, Collected
<1>2. PICK g \in [p - 1 .. q -> Seq(S)] : Collected(g, d, p, q, s, e)
  BY CollectedExists
<1>3. Collected(f, d, p, q, s, e)
  BY <1>2, Zenon
<1> HIDE DEF f
<1>4. \A k \in p - 1 .. q :
        f[k] = IF k = p - 1 THEN << >>
               ELSE IF InRange(d[k], s, e) THEN Append(f[k - 1], d[k]) ELSE f[k - 1]
  BY <1>3 DEF Collected
<1> DEFINE P == {n \in Nat : p - 1 + n <= q =>
                    /\ f[p - 1 + n] \in Seq(S)
                    /\ Selects(f[p - 1 + n], d, p, p - 1 + n, s, e)}
<1>5. 0 \in P
  <2>1. f[p - 1] = << >> /\ p - 1 + 0 = p - 1
    BY <1>4
  <2>2. << >> \in Seq(S) /\ Selects(<< >>, d, p, p - 1, s, e)
    BY DEF Selects
  <2> QED BY <2>1, <2>2
<1>6. \A n \in Nat : n \in P => n + 1 \in P
  <2> SUFFICES ASSUME NEW n \in Nat, n \in P, p - 1 + (n + 1) <= q
               PROVE  /\ f[p - 1 + (n + 1)] \in Seq(S)
                      /\ Selects(f[p - 1 + (n + 1)], d, p, p - 1 + (n + 1), s, e)
    OBVIOUS
  <2> DEFINE k == p + n
             r == f[k - 1]
             x == d[k]
             out == f[k]
  <2>1. k \in p .. q /\ k \in 1 .. Len(d) /\ p - 1 + (n + 1) = k /\ p - 1 + n = k - 1
    OBVIOUS
  <2>2. r \in Seq(S) /\ Selects(r, d, p, k - 1, s, e)
    BY <2>1
  <2>3. x \in S
    BY <2>1
  <2>4. out = IF InRange(x, s, e) THEN Append(r, x) ELSE r
    BY <1>4, <2>1
  <2> HIDE DEF k, r, out, P
  <2>5. CASE ~InRange(x, s, e)
    <3>0. \A j \in p .. k : InRange(d[j], s, e) => j \in p .. k - 1
      BY <2>1, <2>5
    <3>1. p .. k - 1 \subseteq p .. k
      BY <2>1
    <3> HIDE DEF x
    <3>2. \A i \in 1 .. Len(r) : \E j \in p .. k : InRange(d[j], s, e) /\ r[i] = d[j]
      BY <2>2, <3>1, Zenon DEF Selects
    <3>3. \A i1, i2 \in 1 .. Len(r) : i1 < i2 =>
             \E j1, j2 \in p .. k : j1 < j2 /\ r[i1] = d[j1] /\ r[i2] = d[j2]
      <4> SUFFICES ASSUME NEW i1 \in 1 .. Len(r), NEW i2 \in 1 .. Len(r), i1 < i2
                   PROVE  \E j1, j2 \in p .. k : j1 < j2 /\ r[i1] = d[j1] /\ r[i2] = d[j2]
        OBVIOUS
      <4>1. PICK j1 \in p .. k - 1, j2 \in p .. k - 1 :
                   j1 < j2 /\ r[i1] = d[j1] /\ r[i2] = d[j2]
        BY <2>2 DEF Selects
      <4> QED BY <3>1, <4>1, Zenon
    <3>4. \A j \in p .. k : InRange(d[j], s, e) => \E i \in 1 .. Len(r) : r[i] = d[j]
      BY <2>2, <3>0, Zenon DEF Selects
    <3>5. Selects(r, d, p, k, s, e)
      BY <3>2, <3>3, <3>4, Zenon DEF Selects
    <3> QED BY <2>1, <2>2, <2>4, <2>5, <3>5 DEF out
  <2>6. CASE InRange(x, s, e)
    <3>1. /\ out \in Seq(S) /\ Len(out) = Len(r) + 1 /\ Len(r) \in Nat
          /\ out[Len(r) + 1] = x /\ \A i \in 1 .. Len(r) : out[i] = r[i]
      BY <2>2, <2>3, <2>4, <2>6
    <3> HIDE DEF x
    <3>2. ASSUME NEW j \in p .. k, InRange(d[j], s, e)
          PROVE  \E i \in 1 .. Len(out) : out[i] = d[j]
      <4>1. CASE j = k
        <5>1. Len(r) + 1 \in 1 .. Len(out) /\ out[Len(r) + 1] = d[j]
          BY <3>1, <4>1 DEF x
        <5> QED BY <5>1
      <4>2. CASE j # k
        <5>1. PICK i \in 1 .. Len(r) : r[i] = d[j]
          BY <2>1, <2>2, <3>2, <4>2 DEF Selects
        <5>2. i \in 1 .. Len(out) /\ out[i] = d[j]
          BY <3>1, <5>1
        <5> QED BY <5>2
      <4> QED BY <4>1, <4>2
    <3>3. ASSUME NEW i \in 1 .. Len(out)
          PROVE  \E j \in p .. k : InRange(d[j], s, e) /\ out[i] = d[j]
      <4>1. CASE i = Len(r) + 1
        <5>1. k \in p .. k /\ out[i] = d[k] /\ InRange(d[k], s, e)
          BY <2>1, <2>6, <3>1, <4>1 DEF x
        <5> QED BY <5>1
      <4>2. CASE i # Len(r) + 1
        <5>1. i \in 1 .. Len(r) /\ out[i] = r[i]
          BY <3>1, <4>2
        <5>2. PICK j \in p .. k - 1 : InRange(d[j], s, e) /\ r[i] = d[j]
          BY <2>2, <5>1 DEF Selects
        <5> QED BY <2>1, <5>1, <5>2
      <4> QED BY <4>1, <4>2
    <3>4. ASSUME NEW i1 \in 1 .. Len(out), NEW i2 \in 1 .. Len(out), i1 < i2
          PROVE  \E j1, j2 \in p .. k : j1 < j2 /\ out[i1] = d[j1] /\ out[i2] = d[j2]
      <4>0. i1 \in 1 .. Len(r) /\ out[i1] = r[i1]
        BY <3>1, <3>4
      <4>1. CASE i2 = Len(r) + 1
        <5>1. PICK j1 \in p .. k - 1 : r[i1] = d[j1]
          BY <2>2, <4>0 DEF Selects
        <5>2. j1 \in p .. k /\ k \in p .. k /\ j1 < k
          BY <2>1
        <5>3. out[i1] = d[j1] /\ out[i2] = d[k]
          BY <3>1, <4>0, <4>1, <5>1 DEF x
        <5> QED BY <5>2, <5>3
      <4>2. CASE i2 # Len(r) + 1
        <5>1. i2 \in 1 .. Len(r) /\ out[i2] = r[i2]
          BY <3>1, <4>2
        <5>2. PICK j1 \in p .. k - 1, j2 \in p .. k - 1 :
                     j1 < j2 /\ r[i1] = d[j1] /\ r[i2] = d[j2]
          BY <2>2, <3>4, <4>0, <5>1 DEF Selects
        <5>3. j1 \in p .. k /\ j2 \in p .. k
          BY <2>1
        <5> QED BY <4>0, <5>1, <5>2, <5>3
      <4> QED BY <4>1, <4>2
    <3>5. Selects(out, d, p, k, s, e)
      BY <3>2, <3>3, <3>4 DEF Selects
    <3> QED BY <2>1, <3>1, <3>5 DEF out
  <2> QED BY <2>5, <2>6
<1> HIDE DEF P
<1>7. Nat \subseteq P
  BY <1>5, <1>6, InductiveSet
<1>8. q - (p - 1) \in P /\ p - 1 + (q - (p - 1)) = q
  BY <1>7
<1>9. f[q] \in Seq(S) /\ Selects(f[q], d, p, q, s, e)
  BY <1>8 DEF P
<1> QED BY <1>1, <1>9

-----------------------------------------------------------------------------
(***************************************************************************)
(* The index of a unit, built input by input.                              *)
(***************************************************************************)
Built(f, p, u) ==
    f = [k \in 0 .. Len(p) |->
            IF k = 0 THEN << >>
            ELSE IF p[k].unit = u THEN Inserted(f[k - 1], p[k].low, p[k].high + 1, k)
            ELSE f[k - 1]]

(***************************************************************************)
(* A searchable list of the first k inputs of a page, those of unit u,     *)
(* each once.                                                              *)
(***************************************************************************)
Holding(d, p, k, u) ==
    /\ d \in Seq(EntryType(Nat)) /\ Searchable(d)
    /\ \A j \in 1 .. Len(d) : /\ d[j].value \in 1 .. k /\ p[d[j].value].unit = u
                              /\ d[j].start = p[d[j].value].low
                              /\ d[j].end = p[d[j].value].high + 1
    /\ \A i \in 1 .. k : p[i].unit = u => \E j \in 1 .. Len(d) : d[j].value = i
    /\ \A j1, j2 \in 1 .. Len(d) : d[j1].value = d[j2].value => j1 = j2

LEMMA InputFields ==
  ASSUME NEW p \in Seq(InputType)
  PROVE  /\ Len(p) \in Nat /\ DOMAIN p = 1 .. Len(p)
         /\ \A i \in 1 .. Len(p) :
               /\ p[i].unit \in Units /\ p[i].encoding \in EncodingType
               /\ p[i].low \in Nat /\ p[i].high \in Nat
               /\ p[i].low \in Registers /\ p[i].high \in Registers
               /\ p[i].bits \in {<< >>} \cup (Nat \X Nat)
<1>1. /\ Len(p) \in Nat /\ DOMAIN p = 1 .. Len(p)
      /\ \A i \in 1 .. Len(p) : p[i] \in InputType
  OBVIOUS
<1>2. Registers \subseteq Nat
  BY PageAssumption DEF Registers
<1> QED BY <1>1, <1>2 DEF InputType

LEMMA InsertHolds ==
  ASSUME NEW p \in Seq(InputType), NEW k \in Nat, k + 1 <= Len(p),
         NEW u, p[k + 1].unit = u, NEW d, Holding(d, p, k, u)
  PROVE  Holding(Inserted(d, p[k + 1].low, p[k + 1].high + 1, k + 1), p, k + 1, u)
<1> DEFINE s == p[k + 1].low
           e == p[k + 1].high + 1
           out == Inserted(d, s, e, k + 1)
           n == Len(d)
<1>1. k + 1 \in 1 .. Len(p) /\ k + 1 \in Nat /\ s \in Int /\ e \in Int
  BY InputFields
<1>2. d \in Seq(EntryType(Nat)) /\ Searchable(d) /\ n \in Nat
  BY DEF Holding
<1> HIDE DEF s, e
<1>3. /\ out \in Seq(EntryType(Nat)) /\ Searchable(out) /\ Len(out) = n + 1
      /\ \E pos \in 1 .. n + 1 :
            /\ out[pos].start = s /\ out[pos].end = e /\ out[pos].value = k + 1
            /\ \A i \in 1 .. pos - 1 : Same(out[i], d[i])
            /\ \A i \in pos .. n : Same(out[i + 1], d[i])
  <2>1. PICK V, x, y, v : V = Nat /\ x = s /\ y = e /\ v = k + 1
    OBVIOUS
  <2>2. d \in Seq(EntryType(V)) /\ x \in Int /\ y \in Int /\ v \in V
    BY <1>1, <1>2, <2>1
  <2>3. /\ Inserted(d, x, y, v) \in Seq(EntryType(V)) /\ Searchable(Inserted(d, x, y, v))
        /\ Len(Inserted(d, x, y, v)) = Len(d) + 1
        /\ \E pos \in 1 .. Len(d) + 1 :
              /\ Inserted(d, x, y, v)[pos].start = x /\ Inserted(d, x, y, v)[pos].end = y
              /\ Inserted(d, x, y, v)[pos].value = v
              /\ \A i \in 1 .. pos - 1 : Same(Inserted(d, x, y, v)[i], d[i])
              /\ \A i \in pos .. Len(d) : Same(Inserted(d, x, y, v)[i + 1], d[i])
    BY ONLY <1>2, <2>2, InsertKeepsSearchable
  <2> QED BY <2>1, <2>3
<1> HIDE DEF out
<1>4. PICK pos \in 1 .. n + 1 :
            /\ out[pos].start = s /\ out[pos].end = e /\ out[pos].value = k + 1
            /\ \A i \in 1 .. pos - 1 : Same(out[i], d[i])
            /\ \A i \in pos .. n : Same(out[i + 1], d[i])
  BY <1>3
<1>5. ASSUME NEW j \in 1 .. n + 1, j # pos
      PROVE  \E m \in 1 .. n : Same(out[j], d[m]) /\ m = IF j < pos THEN j ELSE j - 1
  <2>1. CASE j < pos
    <3>1. j \in 1 .. pos - 1 /\ j \in 1 .. n
      BY <1>2, <2>1
    <3> QED BY <1>4, <2>1, <3>1
  <2>2. CASE ~(j < pos)
    <3>1. j - 1 \in pos .. n /\ j - 1 \in 1 .. n /\ j - 1 + 1 = j
      BY <1>2, <1>5, <2>2
    <3> QED BY <1>4, <2>2, <3>1
  <2> QED BY <2>1, <2>2
<1>6. \A m \in 1 .. n : /\ d[m].value \in 1 .. k /\ p[d[m].value].unit = u
                        /\ d[m].start = p[d[m].value].low
                        /\ d[m].end = p[d[m].value].high + 1
  BY DEF Holding
<1>7. ASSUME NEW j \in 1 .. n + 1
      PROVE  /\ out[j].value \in 1 .. k + 1 /\ p[out[j].value].unit = u
             /\ out[j].start = p[out[j].value].low
             /\ out[j].end = p[out[j].value].high + 1
  <2>1. CASE j = pos
    BY <1>4, <2>1 DEF s, e
  <2>2. CASE j # pos
    <3>1. PICK m \in 1 .. n : Same(out[j], d[m])
      BY <1>5, <2>2
    <3>2. d[m].value \in 1 .. k /\ out[j].value = d[m].value
          /\ out[j].start = d[m].start /\ out[j].end = d[m].end
      BY <1>6, <3>1 DEF Same
    <3> QED BY <1>6, <3>2
  <2> QED BY <2>1, <2>2
<1>8. ASSUME NEW i \in 1 .. k + 1, p[i].unit = u
      PROVE  \E j \in 1 .. n + 1 : out[j].value = i
  <2>1. CASE i = k + 1
    BY <1>4, <2>1
  <2>2. CASE i # k + 1
    <3>1. PICK m \in 1 .. n : d[m].value = i
      BY <1>8, <2>2 DEF Holding
    <3>2. CASE m < pos
      <4>1. m \in 1 .. pos - 1 /\ m \in 1 .. n + 1
        BY <1>2, <3>2
      <4> QED BY <1>4, <3>1, <4>1 DEF Same
    <3>3. CASE ~(m < pos)
      <4>1. m \in pos .. n /\ m + 1 \in 1 .. n + 1
        BY <1>2, <3>3
      <4> QED BY <1>4, <3>1, <4>1 DEF Same
    <3> QED BY <3>2, <3>3
  <2> QED BY <2>1, <2>2
<1>9. ASSUME NEW j1 \in 1 .. n + 1, NEW j2 \in 1 .. n + 1, out[j1].value = out[j2].value
      PROVE  j1 = j2
  <2>1. \A j \in 1 .. n + 1 : j # pos => out[j].value # k + 1
    <3> SUFFICES ASSUME NEW j \in 1 .. n + 1, j # pos PROVE out[j].value # k + 1
      OBVIOUS
    <3>1. PICK m \in 1 .. n : Same(out[j], d[m])
      BY <1>5
    <3>2. out[j].value \in 1 .. k
      BY <1>6, <3>1 DEF Same
    <3> QED BY <3>2
  <2>2. CASE j1 = pos \/ j2 = pos
    BY <1>4, <1>9, <2>1, <2>2
  <2>3. CASE j1 # pos /\ j2 # pos
    <3>1. PICK m1 \in 1 .. n : Same(out[j1], d[m1]) /\ m1 = IF j1 < pos THEN j1 ELSE j1 - 1
      BY <1>5, <2>3
    <3>2. PICK m2 \in 1 .. n : Same(out[j2], d[m2]) /\ m2 = IF j2 < pos THEN j2 ELSE j2 - 1
      BY <1>5, <2>3
    <3>3. m1 = m2
      <4>1. d[m1].value = d[m2].value
        BY <1>9, <3>1, <3>2 DEF Same
      <4> QED BY <4>1 DEF Holding
    <3> QED BY <2>3, <3>1, <3>2, <3>3
  <2> QED BY <2>2, <2>3
<1>10. Holding(out, p, k + 1, u)
  BY <1>3, <1>7, <1>8, <1>9 DEF Holding
<1> QED BY <1>10 DEF out, s, e

LEMMA BuiltExists ==
  ASSUME NEW p \in Seq(InputType), NEW u
  PROVE  \E f : Built(f, p, u)
<1> DEFINE T == {d \in Seq(EntryType(Nat)) : Searchable(d)}
           After(n, d) == IF n + 1 <= Len(p) /\ p[n + 1].unit = u
                          THEN Inserted(d, p[n + 1].low, p[n + 1].high + 1, n + 1) ELSE d
           step == [n \in Nat |-> [d \in T |-> After(n, d)]]
<1>1. << >> \in T
  BY DEF Searchable
<1>2. ASSUME NEW n \in Nat, NEW d \in T
      PROVE  After(n, d) \in T
  <2>1. CASE n + 1 <= Len(p) /\ p[n + 1].unit = u
    <3>1. n + 1 \in 1 .. Len(p) /\ n + 1 \in Nat
      BY <2>1, InputFields
    <3>2. p[n + 1].low \in Int /\ p[n + 1].high + 1 \in Int
      BY <3>1, InputFields
    <3> QED BY <2>1, <3>1, <3>2, InsertKeepsSearchable
  <2>2. CASE ~(n + 1 <= Len(p) /\ p[n + 1].unit = u)
    BY <2>2
  <2> QED BY <2>1, <2>2
<1> HIDE DEF T, After
<1>3. Stepping(step, T)
  BY <1>2 DEF Stepping
<1> HIDE DEF step
<1>4. PICK g \in [Nat -> T] : g[0] = << >> /\ \A n \in Nat : g[n + 1] = step[n][g[n]]
  <2>1. \E g : Iterated(g, T, << >>, step)
    BY <1>1, <1>3, Iterates
  <2> QED BY <2>1 DEF Iterated
<1>5. \A n \in Nat : g[n + 1] = After(n, g[n])
  BY <1>4 DEF step
<1> DEFINE f == [k \in 0 .. Len(p) |-> g[k]]
           Body(k) == IF k = 0 THEN << >>
                      ELSE IF p[k].unit = u THEN Inserted(f[k - 1], p[k].low, p[k].high + 1, k)
                      ELSE f[k - 1]
<1>6. ASSUME NEW k \in 0 .. Len(p) PROVE f[k] = Body(k)
  <2>1. CASE k = 0
    BY <1>4, <2>1
  <2>2. CASE k # 0
    <3>1. k - 1 \in Nat /\ k - 1 + 1 = k /\ k - 1 \in 0 .. Len(p) /\ k <= Len(p)
      BY <2>2, InputFields
    <3>2. f[k] = g[k] /\ f[k - 1] = g[k - 1]
      BY <3>1
    <3>3. g[k] = After(k - 1, g[k - 1])
      BY <1>5, <3>1
    <3> HIDE DEF f
    <3> QED BY <2>2, <3>1, <3>2, <3>3 DEF After
  <2> QED BY <2>1, <2>2
<1>7. f = [k \in 0 .. Len(p) |-> Body(k)]
  BY <1>6
<1>8. Built(f, p, u)
  BY <1>7, Zenon DEF Built
<1> QED BY <1>8

(***************************************************************************)
(* The constructor: the index of a unit holds all its inputs.              *)
(***************************************************************************)
LEMMA IndexHolds ==
  ASSUME NEW p \in Seq(InputType), NEW u
  PROVE  Holding(Index(p, u), p, Len(p), u)
<1> DEFINE f == CHOOSE f : Built(f, p, u)
<1>1. Index(p, u) = f[Len(p)]
  BY Zenon DEF Index, Built
<1>2. Built(f, p, u)
  BY BuiltExists, Zenon
<1> HIDE DEF f
<1>3. \A k \in 0 .. Len(p) :
        f[k] = IF k = 0 THEN << >>
               ELSE IF p[k].unit = u THEN Inserted(f[k - 1], p[k].low, p[k].high + 1, k)
               ELSE f[k - 1]
  BY <1>2 DEF Built
<1> DEFINE P == {k \in Nat : k <= Len(p) => Holding(f[k], p, k, u)}
<1>4. 0 \in P
  <2>1. f[0] = << >>
    BY <1>3, InputFields
  <2>2. Holding(<< >>, p, 0, u)
    BY DEF Holding, Searchable
  <2> QED BY <2>1, <2>2
<1>5. ASSUME NEW k \in Nat, k \in P
      PROVE  k + 1 \in P
  <2> SUFFICES ASSUME k + 1 <= Len(p) PROVE Holding(f[k + 1], p, k + 1, u)
    OBVIOUS
  <2>1. Holding(f[k], p, k, u)
    BY <1>5, InputFields
  <2>2. f[k + 1] = IF p[k + 1].unit = u THEN Inserted(f[k], p[k + 1].low, p[k + 1].high + 1, k + 1)
                   ELSE f[k]
    <3>1. k + 1 \in 0 .. Len(p) /\ k + 1 # 0 /\ k + 1 - 1 = k
      BY InputFields
    <3> QED BY <1>3, <3>1
  <2>3. CASE p[k + 1].unit = u
    BY <2>1, <2>2, <2>3, InsertHolds
  <2>4. CASE p[k + 1].unit # u
    <3>1. f[k + 1] = f[k]
      BY <2>2, <2>4
    <3>2. Holding(f[k], p, k + 1, u)
      <4> DEFINE d == f[k]
      <4> HIDE DEF d
      <4>1. /\ d \in Seq(EntryType(Nat)) /\ Searchable(d)
            /\ \A j1, j2 \in 1 .. Len(d) : d[j1].value = d[j2].value => j1 = j2
        BY <2>1 DEF Holding, d
      <4>2. \A j \in 1 .. Len(d) : /\ d[j].value \in 1 .. k + 1 /\ p[d[j].value].unit = u
                                   /\ d[j].start = p[d[j].value].low
                                   /\ d[j].end = p[d[j].value].high + 1
        BY <2>1 DEF Holding, d
      <4>3. \A i \in 1 .. k + 1 : p[i].unit = u => \E j \in 1 .. Len(d) : d[j].value = i
        <5>1. \A i \in 1 .. k + 1 : p[i].unit = u => i \in 1 .. k
          BY <2>4
        <5> QED BY <2>1, <5>1 DEF Holding, d
      <4> QED BY <4>1, <4>2, <4>3 DEF Holding, d
    <3> QED BY <3>1, <3>2
  <2> QED BY <2>3, <2>4
<1> HIDE DEF P
<1>6. Nat \subseteq P
  BY <1>4, <1>5, InductiveSet
<1>7. Holding(f[Len(p)], p, Len(p), u)
  BY <1>6, InputFields DEF P
<1> QED BY <1>1, <1>7

Splits(w, l, m) ==
    \E q \in Nat, f \in 0 .. m - 1, r \in 0 .. l - 1 :
        /\ w = Composed(l, m, q, f, r)
        /\ w \div (l * m) = q /\ w % l = r /\ (w \div l) % m = f

LEMMA SplitLemma ==
  ASSUME NEW l \in Nat \ {0}, NEW m \in Nat \ {0}, NEW w \in Nat
  PROVE  Splits(w, l, m)
<1>1. PICK top \in Nat, r \in 0 .. l - 1 : w = top * l + r
  BY DivideNatural, Zenon
<1>2. PICK q \in Nat, f \in 0 .. m - 1 : top = q * m + f
  BY DivideNatural, Zenon
<1>3. w = Composed(l, m, q, f, r)
  <2>1. (q * m + f) * l = (q * m) * l + f * l
    OBVIOUS
  <2>2. (q * m) * l = q * (l * m)
    OBVIOUS
  <2> QED BY <1>1, <1>2, <2>1, <2>2 DEF Composed
<1>4. w \div (l * m) = q /\ w % l = r /\ (w \div l) % m = f
  BY <1>3, ThreeParts
<1> QED BY <1>3, <1>4 DEF Splits

(***************************************************************************)
(* Setting a field of a word, and reading it.                              *)
(***************************************************************************)
LEMMA FieldParts ==
  ASSUME NEW low \in Nat, NEW high \in Nat, low <= high
  PROVE  \E l \in Nat \ {0}, m \in Nat \ {0} :
            l = Power(2, low) /\ m = Power(2, high - low + 1) /\ l * m = Power(2, high + 1)
<1>1. low \in Nat /\ high - low + 1 \in Nat /\ low + (high - low + 1) = high + 1
  OBVIOUS
<1>2. 2 \in Nat \ {0}
  OBVIOUS
<1>3. Power(2, low + (high - low + 1)) = Power(2, low) * Power(2, high - low + 1)
  BY <1>1, <1>2, PowerOfSum
<1> QED BY <1>1, <1>2, <1>3, PowerLemma

LEMMA FieldFits ==
  ASSUME NEW low \in Nat, NEW high \in Nat, low <= high, high < 2 * ByteBits
  PROVE  /\ low % IntBits = low /\ (high - low + 1) % IntBits = high - low + 1
         /\ \E K \in Nat : Word = K * Power(2, high + 1)
<1>1. PICK n \in Nat \ {0} : n = IntBits /\ high + 1 < n
  BY PageAssumption DEF IntBits
<1>2. \A x \in 0 .. n - 1 : x % n = x
  <2>1. ASSUME NEW x \in 0 .. n - 1 PROVE x % n = x
    <3>1. (0 * n + x) % n = x
      BY QuotientLemma
    <3> QED BY <3>1
  <2> QED BY <2>1
<1>3. low \in 0 .. n - 1 /\ high - low + 1 \in 0 .. n - 1
  BY <1>1
<1>4. PICK c \in Nat : c + (high + 1) = ByteBits + ByteBits
  <2>1. 2 * ByteBits - (high + 1) \in Nat
    BY PageAssumption
  <2> QED BY <2>1, PageAssumption
<1>5. 2 \in Nat \ {0} /\ high + 1 \in Nat /\ ByteBits \in Nat
  BY PageAssumption
<1>6. Power(2, c + (high + 1)) = Power(2, c) * Power(2, high + 1)
  BY <1>5, PowerOfSum
<1>7. Power(2, ByteBits + ByteBits) = Word
  BY <1>5, PowerOfSum, PageAssumption DEF Word
<1>8. Power(2, c) \in Nat
  BY <1>5, PowerLemma
<1> QED BY <1>1, <1>2, <1>3, <1>4, <1>6, <1>7, <1>8

(***************************************************************************)
(* A number with the second of its three parts set, and the other fields.  *)
(***************************************************************************)
PartSet(old, l, m, v) == (old \div (l * m)) * (l * m) + (v % m) * l + (old % l)
DiffersInPart(w, old, l, m, g) ==
    \E q \in Nat, f \in 0 .. m - 1, r \in 0 .. l - 1 :
        old = Composed(l, m, q, f, r) /\ w = Composed(l, m, q, g, r)

LEMMA PartSetLemma ==
  ASSUME NEW old \in Nat, NEW l \in Nat \ {0}, NEW m \in Nat \ {0}, NEW v \in Int
  PROVE  DiffersInPart(PartSet(old, l, m, v), old, l, m, v % m) /\ v % m \in 0 .. m - 1
<1>1. PICK q \in Nat, f \in 0 .. m - 1, r \in 0 .. l - 1 :
         /\ old = Composed(l, m, q, f, r)
         /\ old \div (l * m) = q /\ old % l = r /\ (old \div l) % m = f
  <2>1. Splits(old, l, m)
    BY SplitLemma
  <2> QED BY <2>1 DEF Splits
<1>2. PICK g \in 0 .. m - 1 : g = v % m
  BY DivideLemma
<1>3. PartSet(old, l, m, v) = Composed(l, m, q, g, r)
  BY <1>1, <1>2 DEF PartSet, Composed
<1> QED BY <1>1, <1>2, <1>3 DEF DiffersInPart

HighPart(w, M, q) == \E x \in 0 .. M - 1 : w = q * M + x
LowPart(w, l, r) == \E h \in Nat : w = h * l + r

LEMMA ComposedTwo ==
  ASSUME NEW l \in Nat \ {0}, NEW m \in Nat \ {0},
         NEW q \in Nat, NEW f \in 0 .. m - 1, NEW r \in 0 .. l - 1
  PROVE  /\ HighPart(Composed(l, m, q, f, r), l * m, q) /\ LowPart(Composed(l, m, q, f, r), l, r)
         /\ Composed(l, m, q, f, r) = (q * m + f) * l + r
<1>1. (q * m + f) * l = (q * m) * l + f * l
  OBVIOUS
<1>2. (q * m) * l = q * (l * m)
  OBVIOUS
<1>3. f * l <= (m - 1) * l /\ f * l >= 0
  OBVIOUS
<1>4. (m - 1) * l = l * m - l
  OBVIOUS
<1>5. f * l \in Nat /\ l * m \in Nat
  BY ProductLemma
<1>6. f * l + r \in 0 .. l * m - 1
  BY <1>3, <1>4, <1>5
<1>7. Composed(l, m, q, f, r) = q * (l * m) + (f * l + r)
  BY DEF Composed
<1>8. Composed(l, m, q, f, r) = (q * m + f) * l + r
  BY <1>1, <1>2 DEF Composed
<1>9. HighPart(Composed(l, m, q, f, r), l * m, q)
  BY <1>6, <1>7 DEF HighPart
<1>10. q * m + f \in Nat
  BY ProductLemma
<1>11. LowPart(Composed(l, m, q, f, r), l, r)
  BY <1>8, <1>10 DEF LowPart
<1> QED BY <1>8, <1>9, <1>11

QuotientIs(w, M, K, q) == w \div (M * K) = q \div K

LEMMA QuotientOfProduct ==
  ASSUME NEW M \in Nat \ {0}, NEW K \in Nat \ {0}, NEW q \in Nat, NEW w, HighPart(w, M, q)
  PROVE  QuotientIs(w, M, K, q)
<1>0. PICK x \in 0 .. M - 1 : w = q * M + x
  BY DEF HighPart
<1>1. PICK a \in Nat, t \in 0 .. K - 1 : q = a * K + t /\ q \div K = a
  BY DivideNatural
<1>2. Composed(M, K, a, t, x) \div (M * K) = a
  BY <1>1, ThreeParts
<1>3. Composed(M, K, a, t, x) = w
  BY <1>0, <1>1, ComposedTwo
<1> QED BY <1>1, <1>2, <1>3 DEF QuotientIs

FieldIs(w, l, m, r) == (w \div l) % m = (r \div l) % m

LEMMA FieldOfLow ==
  ASSUME NEW l \in Nat \ {0}, NEW m \in Nat \ {0}, NEW K \in Nat,
         NEW r \in Nat, NEW w, LowPart(w, (l * m) * K, r)
  PROVE  FieldIs(w, l, m, r)
<1>0. PICK h \in Nat : w = h * ((l * m) * K) + r
  BY DEF LowPart
<1>1. PICK q \in Nat, f \in 0 .. m - 1, s \in 0 .. l - 1 :
         r = Composed(l, m, q, f, s) /\ (r \div l) % m = f
  <2>1. Splits(r, l, m)
    BY SplitLemma
  <2> QED BY <2>1 DEF Splits
<1>2. PICK M \in Nat \ {0} : M = l * m
  BY ProductLemma
<1>3. h * K + q \in Nat
  BY ProductLemma
<1>4. h * (M * K) + r = Composed(l, m, h * K + q, f, s)
  <2>1. (h * K + q) * M = (h * K) * M + q * M
    BY ProductLemma
  <2>2. (h * K) * M = h * (M * K)
    OBVIOUS
  <2>3. (h * K + q) * M \in Int /\ q * M \in Int /\ f * l \in Int /\ h * (M * K) \in Int
    OBVIOUS
  <2> QED BY <1>1, <1>2, <2>1, <2>2, <2>3 DEF Composed
<1>5. (Composed(l, m, h * K + q, f, s) \div l) % m = f
  BY <1>3, ThreeParts
<1> QED BY <1>0, <1>1, <1>2, <1>4, <1>5 DEF FieldIs

(***************************************************************************)
(* FieldWord in a register: it sets the field and no field beside it.      *)
(***************************************************************************)
FitsWord(bits) == bits[1] \in Nat /\ bits[2] \in Nat /\ bits[1] <= bits[2] /\ bits[2] < 2 * ByteBits

LEMMA FieldWordIsPartSet ==
  ASSUME NEW old \in WordType, NEW bits, FitsWord(bits), NEW v \in Int
  PROVE  FieldWord(old, bits, v) = PartSet(old, Power(2, bits[1]), Power(2, bits[2] - bits[1] + 1), v)
<1>1. PICK low \in Nat, high \in Nat :
         low = bits[1] /\ high = bits[2] /\ low <= high /\ high < 2 * ByteBits
  BY DEF FitsWord
<1>2. PICK l \in Nat \ {0}, m \in Nat \ {0} :
         l = Power(2, low) /\ m = Power(2, high - low + 1) /\ l * m = Power(2, high + 1)
  BY <1>1, FieldParts
<1>3. /\ low % IntBits = low /\ (high - low + 1) % IntBits = high - low + 1
      /\ \E K \in Nat : Word = K * Power(2, high + 1)
  BY <1>1, FieldFits
<1>4. PICK K \in Nat : Word = K * (l * m)
  BY <1>2, <1>3
<1> DEFINE w == PartSet(old, l, m, v)
<1>5. FieldWord(old, bits, v) = w % Word
  <2>1. MaskBits(bits) = high - low + 1 /\ bits[1] % IntBits = low
    BY <1>1, <1>3 DEF MaskBits
  <2>2. low + (high - low + 1) = high + 1
    OBVIOUS
  <2> QED BY <1>2, <2>1, <2>2 DEF FieldWord, PartSet
<1>6. w \in 0 .. Word - 1
  <2>1. PICK M \in Nat \ {0} : M = l * m
    BY ProductLemma
  <2>2. old \in Nat /\ old < K * M
    BY <1>4, <2>1, WordFacts DEF WordType
  <2>3. DiffersInPart(w, old, l, m, v % m) /\ v % m \in 0 .. m - 1
    BY <2>2, PartSetLemma
  <2>a. PICK q \in Nat, f \in 0 .. m - 1, r \in 0 .. l - 1 :
           old = Composed(l, m, q, f, r) /\ w = Composed(l, m, q, v % m, r)
    BY <2>3 DEF DiffersInPart
  <2>b. HighPart(old, l * m, q) /\ HighPart(w, l * m, q)
    BY <2>3, <2>a, ComposedTwo
  <2>4. PICK x \in 0 .. M - 1, y \in 0 .. M - 1 : old = q * M + x /\ w = q * M + y
    BY <2>1, <2>b DEF HighPart
  <2>5. q <= K - 1
    <3>1. q >= K => q * M >= K * M
      OBVIOUS
    <3>2. q * M \in Nat /\ K * M \in Nat
      BY ProductLemma
    <3> QED BY <2>2, <2>4, <3>1, <3>2
  <2>6. q * M <= (K - 1) * M /\ (K - 1) * M = K * M - M
    BY <2>5
  <2>7. q * M \in Nat /\ K * M \in Nat
    BY ProductLemma
  <2> HIDE DEF w
  <2>8. w \in 0 .. K * M - 1
    BY <2>4, <2>6, <2>7
  <2> QED BY <1>4, <2>1, <2>8
<1> HIDE DEF w
<1>7. w % Word = w
  <2>1. PICK W \in Nat \ {0} : W = Word
    BY WordFacts
  <2>2. (0 * W + w) % W = w
    BY <1>6, <2>1, QuotientLemma
  <2>3. 0 * W + w = w
    BY <1>6, <2>1
  <2> QED BY <2>1, <2>2, <2>3
<1> QED BY <1>1, <1>2, <1>5, <1>7 DEF w

LEMMA FieldReads ==
  ASSUME NEW old \in WordType, NEW bits, FitsWord(bits), NEW v \in Int
  PROVE  Field(FieldWord(old, bits, v), bits) = v % Power(2, bits[2] - bits[1] + 1)
<1>1. PICK l \in Nat \ {0}, m \in Nat \ {0} :
         /\ l = Power(2, bits[1]) /\ m = Power(2, bits[2] - bits[1] + 1)
         /\ l * m = Power(2, bits[2] + 1)
  BY FieldParts DEF FitsWord
<1>2. old \in Nat
  BY WordFacts DEF WordType
<1>3. DiffersInPart(PartSet(old, l, m, v), old, l, m, v % m) /\ v % m \in 0 .. m - 1
  BY <1>2, PartSetLemma
<1>4. PICK q \in Nat, g \in 0 .. m - 1, r \in 0 .. l - 1 :
         g = v % m /\ PartSet(old, l, m, v) = Composed(l, m, q, g, r)
  BY <1>3 DEF DiffersInPart
<1>5. (Composed(l, m, q, g, r) \div l) % m = g
  BY ThreeParts
<1> QED BY <1>1, <1>4, <1>5, FieldWordIsPartSet DEF Field

LEMMA FieldBeside ==
  ASSUME NEW old \in WordType, NEW bits, FitsWord(bits), NEW v \in Int,
         NEW other, FitsWord(other), bits[2] < other[1] \/ other[2] < bits[1]
  PROVE  Field(FieldWord(old, bits, v), other) = Field(old, other)
<1>1. PICK l \in Nat \ {0}, m \in Nat \ {0} :
         /\ l = Power(2, bits[1]) /\ m = Power(2, bits[2] - bits[1] + 1)
         /\ l * m = Power(2, bits[2] + 1)
  BY FieldParts DEF FitsWord
<1>2. PICK a \in Nat \ {0}, b \in Nat \ {0} :
         /\ a = Power(2, other[1]) /\ b = Power(2, other[2] - other[1] + 1)
         /\ a * b = Power(2, other[2] + 1)
  BY FieldParts DEF FitsWord
<1>3. old \in Nat
  BY WordFacts DEF WordType
<1> DEFINE w == PartSet(old, l, m, v)
<1>a. DiffersInPart(w, old, l, m, v % m) /\ v % m \in 0 .. m - 1
  BY <1>3, PartSetLemma
<1>4. PICK q \in Nat, f \in 0 .. m - 1, r \in 0 .. l - 1 :
         old = Composed(l, m, q, f, r) /\ w = Composed(l, m, q, v % m, r)
  BY <1>a DEF DiffersInPart
<1>5. FieldWord(old, bits, v) = w
  BY <1>1, FieldWordIsPartSet
<1> HIDE DEF w
<1>6. 2 \in Nat \ {0}
  OBVIOUS
<1>7. CASE bits[2] < other[1]
  <2>1. PICK M \in Nat \ {0} : M = l * m
    BY ProductLemma
  <2>2. HighPart(old, M, q) /\ HighPart(w, M, q)
    <3>1. HighPart(old, l * m, q) /\ HighPart(w, l * m, q)
      BY <1>a, <1>4, ComposedTwo
    <3> QED BY <2>1, <3>1
  <2>3. PICK c \in Nat, n \in Nat : n = bits[2] + 1 /\ n + c = other[1]
    <3>1. other[1] - (bits[2] + 1) \in Nat /\ bits[2] + 1 \in Nat
      BY <1>7 DEF FitsWord
    <3>2. bits[2] + 1 + (other[1] - (bits[2] + 1)) = other[1]
      BY DEF FitsWord
    <3> QED BY <3>1, <3>2
  <2>4. PICK K \in Nat \ {0} : K = Power(2, c)
    BY <1>6, PowerLemma
  <2>5. a = M * K
    <3>1. Power(2, n + c) = Power(2, n) * Power(2, c)
      BY <1>6, PowerOfSum
    <3> QED BY <1>1, <1>2, <2>1, <2>3, <2>4, <3>1
  <2>6. QuotientIs(old, M, K, q) /\ QuotientIs(w, M, K, q)
    BY <2>2, QuotientOfProduct
  <2>7. old \div a = w \div a
    BY <2>5, <2>6 DEF QuotientIs
  <2> QED BY <1>2, <1>5, <2>7 DEF Field
<1>8. CASE other[2] < bits[1]
  <2>1. PICK c \in Nat, n \in Nat : n = other[2] + 1 /\ n + c = bits[1]
    <3>1. bits[1] - (other[2] + 1) \in Nat /\ other[2] + 1 \in Nat
      BY <1>8 DEF FitsWord
    <3>2. other[2] + 1 + (bits[1] - (other[2] + 1)) = bits[1]
      BY DEF FitsWord
    <3> QED BY <3>1, <3>2
  <2>2. PICK K \in Nat : K = Power(2, c)
    BY <1>6, PowerLemma
  <2>3. l = (a * b) * K
    <3>1. Power(2, n + c) = Power(2, n) * Power(2, c)
      BY <1>6, PowerOfSum
    <3> QED BY <1>1, <1>2, <2>1, <2>2, <3>1
  <2>4. LowPart(old, l, r) /\ LowPart(w, l, r)
    BY <1>a, <1>4, ComposedTwo
  <2>5. r \in Nat /\ LowPart(old, (a * b) * K, r) /\ LowPart(w, (a * b) * K, r)
    BY <2>3, <2>4
  <2>6. FieldIs(old, a, b, r) /\ FieldIs(w, a, b, r)
    BY <2>5, FieldOfLow
  <2>7. (old \div a) % b = (w \div a) % b
    BY <2>6 DEF FieldIs
  <2> QED BY <1>2, <1>5, <2>7 DEF Field
<1> QED BY <1>7, <1>8

-----------------------------------------------------------------------------
(***************************************************************************)
(* A register, its two bytes, and the words an edit makes.                 *)
(***************************************************************************)
TextOf(type) == CASE type = "integer" -> Int [] type = "float" -> Nat
                  [] type = "string" -> Seq(0 .. Byte - 1)

LEMMA MaskFacts ==
  ASSUME NEW bits, bits[1] \in Nat, bits[2] \in Nat
  PROVE  IntBits \in Nat \ {0} /\ MaskBits(bits) \in Nat /\ bits[1] % IntBits \in Nat
<1>1. PICK n \in Nat \ {0} : n = IntBits
  BY PageAssumption DEF IntBits
<1>2. PICK x \in Int, y \in Int : x = bits[2] - bits[1] + 1 /\ y = bits[1]
  OBVIOUS
<1>3. x % n \in 0 .. n - 1 /\ y % n \in 0 .. n - 1
  BY DivideLemma
<1> QED BY <1>1, <1>2, <1>3 DEF MaskBits

LEMMA FieldWordType ==
  ASSUME NEW old \in WordType, NEW bits, bits[1] \in Nat, bits[2] \in Nat, NEW v \in Int
  PROVE  FieldWord(old, bits, v) \in WordType
<1>1. PICK low \in Nat, n \in Nat : low = bits[1] % IntBits /\ n = MaskBits(bits)
  BY MaskFacts
<1>2. 2 \in Nat \ {0} /\ low + n \in Nat
  OBVIOUS
<1>3. PICK l \in Nat \ {0}, m \in Nat \ {0}, M \in Nat \ {0} :
         l = Power(2, low) /\ m = Power(2, n) /\ M = Power(2, low + n)
  BY <1>2, PowerLemma
<1>4. old \in Int
  BY WordFacts DEF WordType
<1>5. PICK q \in Int, g \in Int, r \in Int : q = old \div M /\ g = v % m /\ r = old % l
  <2>1. old \div M \in Int /\ v % m \in 0 .. m - 1 /\ old % l \in 0 .. l - 1
    BY <1>4, DivideLemma
  <2> QED BY <2>1
<1>6. PICK x \in Int : x = q * M + g * l + r
  OBVIOUS
<1>7. FieldWord(old, bits, v) = x % Word
  BY <1>1, <1>3, <1>5, <1>6 DEF FieldWord
<1>8. PICK W \in Nat \ {0} : W = Word
  BY WordFacts
<1>9. x % W \in 0 .. W - 1
  BY DivideLemma
<1> QED BY <1>7, <1>8, <1>9 DEF WordType

LEMMA EditedWordsType ==
  ASSUME NEW count \in Nat, NEW e \in EncodingType, NEW v \in TextOf(e.type)
  PROVE  /\ EditedWords(v, count, e) \in Seq(WordType) /\ Len(EditedWords(v, count, e)) = count
<1>0. e.type \in {"integer", "float", "string"}
  BY DEF EncodingType
<1>1. CASE e.type = "integer"
  <2>1. v \in Int /\ EditedWords(v, count, e) = Digits(v, count, e)
    BY <1>1 DEF TextOf, EditedWords
  <2> QED BY <2>1, DigitsType
<1>2. CASE e.type = "float"
  <2> DEFINE d == Digits(v, count, e)
  <2>1. v \in Int
    BY <1>2 DEF TextOf
  <2>2. d \in Seq(WordType) /\ Len(d) = count
    BY <2>1, DigitsType
  <2>3. EditedWords(v, count, e) =
          [i \in 1 .. count |-> IF e.byte_le THEN Swapped(d[i]) ELSE d[i]]
    BY <1>2 DEF EditedWords
  <2> HIDE DEF d
  <2>4. \A i \in 1 .. count : d[i] \in WordType /\ Swapped(d[i]) \in WordType
    <3>1. \A i \in 1 .. count : d[i] \in WordType
      BY <2>2
    <3> QED BY <3>1, SwappedWord
  <2>5. EditedWords(v, count, e) \in [1 .. count -> WordType]
    BY <2>3, <2>4
  <2> QED BY <2>5
<1>3. CASE e.type = "string"
  <2>1. v \in Seq(ByteType) /\ EditedWords(v, count, e) = StringWords(v, count, e)
    BY <1>3 DEF TextOf, ByteType, EditedWords
  <2> QED BY <2>1, StringWordsType
<1> QED BY <1>0, <1>1, <1>2, <1>3

(***************************************************************************)
(* A number accumulated from its digits.                                   *)
(***************************************************************************)
Accumulating(s, words) ==
    s = [k \in 0 .. Len(words) |-> IF k = 0 THEN 0 ELSE s[k - 1] * Word + words[k]]
Accumulates(s, words) ==
    /\ \A k \in 0 .. Len(words) : s[k] \in Nat
    /\ s[0] = 0
    /\ \A k \in 1 .. Len(words) : s[k] = s[k - 1] * Word + words[k]
    /\ Accumulated(words) = s[Len(words)]

LEMMA AccumulatedLemma ==
  ASSUME NEW words \in Seq(Nat)
  PROVE  \E s : Accumulates(s, words)
<1> DEFINE n == Len(words)
           After(k, x) == IF k + 1 <= n THEN x * Word + words[k + 1] ELSE x
           step == [k \in Nat |-> [x \in Nat |-> After(k, x)]]
<1>0. n \in Nat /\ \A k \in 1 .. n : words[k] \in Nat
  OBVIOUS
<1>1. ASSUME NEW k \in Nat, NEW x \in Nat PROVE After(k, x) \in Nat
  <2>1. k + 1 <= n => words[k + 1] \in Nat
    OBVIOUS
  <2>2. x * Word \in Nat
    BY ProductLemma, WordFacts
  <2> QED BY <2>1, <2>2
<1> HIDE DEF After, n
<1>2. Stepping(step, Nat)
  BY <1>1 DEF Stepping
<1> HIDE DEF step
<1>3. PICK g \in [Nat -> Nat] : g[0] = 0 /\ \A k \in Nat : g[k + 1] = step[k][g[k]]
  <2>1. \E g : Iterated(g, Nat, 0, step)
    BY <1>2, Iterates
  <2> QED BY <2>1 DEF Iterated
<1>4. \A k \in Nat : g[k + 1] = After(k, g[k])
  BY <1>3 DEF step
<1> DEFINE f == [k \in 0 .. n |-> g[k]]
           Body(k) == IF k = 0 THEN 0 ELSE f[k - 1] * Word + words[k]
<1>5. ASSUME NEW k \in 0 .. n PROVE f[k] = Body(k)
  <2>1. CASE k = 0
    BY <1>0, <1>3, <2>1
  <2>2. CASE k # 0
    <3>1. k - 1 \in Nat /\ k - 1 + 1 = k /\ k - 1 \in 0 .. n /\ k <= n
      BY <1>0, <2>2
    <3>2. f[k] = g[k] /\ f[k - 1] = g[k - 1]
      BY <3>1
    <3>3. g[k] = After(k - 1, g[k - 1])
      BY <1>4, <3>1
    <3> HIDE DEF f
    <3> QED BY <2>2, <3>1, <3>2, <3>3 DEF After
  <2> QED BY <2>1, <2>2
<1>6. f = [k \in 0 .. n |-> Body(k)]
  BY <1>5
<1>7. Accumulating(f, words)
  BY <1>6, Zenon DEF Accumulating, n
<1> DEFINE s == CHOOSE s : Accumulating(s, words)
<1>8. Accumulated(words) = s[n] /\ Accumulating(s, words)
  BY <1>7, Zenon DEF Accumulated, Accumulating, n
<1> HIDE DEF s, f
<1>9. \A k \in 0 .. n : s[k] = IF k = 0 THEN 0 ELSE s[k - 1] * Word + words[k]
  BY <1>8 DEF Accumulating, n
<1>10. s[0] = 0 /\ \A k \in 1 .. n : s[k] = s[k - 1] * Word + words[k]
  BY <1>0, <1>9
<1> DEFINE P == {k \in Nat : k <= n => s[k] \in Nat}
<1>11. 0 \in P
  BY <1>10
<1>12. ASSUME NEW k \in Nat, k \in P PROVE k + 1 \in P
  <2> SUFFICES ASSUME k + 1 <= n PROVE s[k + 1] \in Nat
    OBVIOUS
  <2>1. s[k] \in Nat /\ k + 1 \in 1 .. n /\ k + 1 - 1 = k
    BY <1>0, <1>12
  <2>2. s[k + 1] = s[k] * Word + words[k + 1]
    BY <1>10, <2>1
  <2>3. PICK y \in Nat : y = s[k] * Word
    BY <2>1, ProductLemma, WordFacts
  <2>4. PICK w \in Nat : w = words[k + 1]
    BY <1>0, <2>1
  <2>5. s[k + 1] = y + w
    BY <2>2, <2>3, <2>4, Zenon
  <2> QED BY <2>5
<1> HIDE DEF P
<1>13. Nat \subseteq P
  BY <1>11, <1>12, InductiveSet
<1>14. \A k \in 0 .. n : s[k] \in Nat
  BY <1>0, <1>13 DEF P
<1> QED BY <1>8, <1>10, <1>14 DEF Accumulates, n

LEMMA AccumulateStep ==
  ASSUME NEW a \in Nat, NEW b \in Nat, NEW w \in Nat, NEW p \in Nat
  PROVE  w * p = (a * b + w) * p - a * (b * p)
<1>1. (a * b + w) * p = (a * b) * p + w * p
  OBVIOUS
<1>2. (a * b) * p = a * (b * p)
  OBVIOUS
<1>3. a * (b * p) \in Int /\ w * p \in Int
  BY ProductLemma
<1> QED BY <1>1, <1>2, <1>3

LEMMA NumberLemma ==
  ASSUME NEW plain \in Seq(Nat), NEW e \in EncodingType
  PROVE  Total(Terms(plain, e), Len(plain)) = Number(plain, e)
<1> DEFINE n == Len(plain)
           f == Terms(plain, e)
           P(j) == Power(Word, j)
<1>0. /\ n \in Nat /\ \A k \in 1 .. n : plain[k] \in Nat
      /\ Word \in Nat /\ e.word_le \in BOOLEAN
  BY WordFacts DEF EncodingType
<1>1. P(0) = 1 /\ \A j \in Nat : P(j) \in Nat /\ P(j + 1) = Word * P(j)
  BY PowerLemma, WordFacts
<1> HIDE DEF P
<1>2. CASE ~e.word_le
  <2>1. PICK s : /\ \A k \in 0 .. n : s[k] \in Nat
                 /\ s[0] = 0
                 /\ \A k \in 1 .. n : s[k] = s[k - 1] * Word + plain[k]
                 /\ Accumulated(plain) = s[n]
    BY AccumulatedLemma DEF Accumulates
  <2> DEFINE h == [k \in 0 .. n |-> s[k] * P(n - k)]
  <2>2. \A k \in 1 .. n : f[k] = plain[k] * P(n - k)
    BY <1>2 DEF Terms, P
  <2> HIDE DEF f, n
  <2>3. \A k \in 0 .. n : h[k] \in Int
    <3> SUFFICES ASSUME NEW k \in 0 .. n PROVE h[k] \in Int
      OBVIOUS
    <3>0. n - k \in Nat
      BY <1>0
    <3>1. s[k] \in Nat /\ P(n - k) \in Nat
      BY <1>1, <2>1, <3>0
    <3> QED BY <3>1, ProductLemma
  <2>4. ASSUME NEW k \in 1 .. n PROVE f[k] = h[k] - h[k - 1]
    <3>1. k - 1 \in 0 .. n /\ k \in 0 .. n /\ n - k \in Nat /\ n - (k - 1) = n - k + 1
      BY <1>0
    <3>2. PICK a \in Nat, w \in Nat, p \in Nat :
            a = s[k - 1] /\ w = plain[k] /\ p = P(n - k)
      BY <1>0, <1>1, <2>1, <3>1
    <3>3. s[k] = a * Word + w
      BY <2>1, <3>2
    <3>4. P(n - (k - 1)) = Word * p
      BY <1>1, <3>1, <3>2
    <3>5. h[k] = (a * Word + w) * p /\ h[k - 1] = a * (Word * p)
      BY <3>1, <3>2, <3>3, <3>4
    <3>6. f[k] = w * p
      BY <2>2, <3>2
    <3> HIDE DEF h
    <3> QED BY <1>0, <3>5, <3>6, AccumulateStep
  <2>5. Telescopes(f, h, n)
    BY <2>3, <2>4 DEF Telescopes
  <2>6. Total(f, n) = h[n] - h[0]
    BY <1>0, <2>5, TotalLemma
  <2>7. s[0] = 0 /\ s[n] \in Nat /\ Number(plain, e) = s[n]
    BY <1>0, <1>2, <2>1 DEF Number
  <2>8. h[n] = s[n]
    <3>1. h[n] = s[n] * P(0)
      <4>1. n \in 0 .. n /\ n - n = 0
        BY <1>0
      <4> QED BY <4>1
    <3>2. PICK x \in Nat : x = s[n]
      BY <2>7
    <3>3. x * P(0) = x
      BY <1>1
    <3> HIDE DEF h
    <3> QED BY <3>1, <3>2, <3>3
  <2>9. h[0] = 0
    <3>1. 0 \in 0 .. n /\ n - 0 = n
      BY <1>0
    <3>2. P(n) \in Nat
      BY <1>0, <1>1
    <3> QED BY <2>7, <3>1, <3>2
  <2> HIDE DEF h
  <2> QED BY <2>6, <2>7, <2>8, <2>9 DEF f, n
<1>3. CASE e.word_le
  <2> DEFINE r == Reverse(plain)
  <2>0. r \in Seq(Nat) /\ Len(r) = n /\ \A k \in 1 .. n : r[n - k + 1] = plain[k]
    <3>1. r = [i \in 1 .. n |-> plain[(n - i) + 1]]
      BY DEF Reverse
    <3>2. \A i \in 1 .. n : plain[(n - i) + 1] \in Nat
      BY <1>0
    <3> HIDE DEF r
    <3>3. r \in [1 .. n -> Nat]
      BY <3>1, <3>2
    <3>4. r \in Seq(Nat) /\ Len(r) = n
      BY <1>0, <3>3
    <3>5. ASSUME NEW k \in 1 .. n PROVE r[n - k + 1] = plain[k]
      <4>1. n - k + 1 \in 1 .. n /\ (n - (n - k + 1)) + 1 = k
        BY <1>0
      <4> QED BY <3>1, <4>1
    <3> QED BY <3>4, <3>5
  <2>1. PICK s : /\ \A k \in 0 .. n : s[k] \in Nat
                 /\ s[0] = 0
                 /\ \A k \in 1 .. n : s[k] = s[k - 1] * Word + r[k]
                 /\ Accumulated(r) = s[n]
    <3> HIDE DEF r, n
    <3> QED BY <2>0, AccumulatedLemma DEF Accumulates
  <2> DEFINE h == [k \in 0 .. n |-> -(s[n - k] * P(k))]
  <2>2. \A k \in 1 .. n : f[k] = plain[k] * P(k - 1)
    BY <1>3 DEF Terms, P
  <2> HIDE DEF f, n, r
  <2>3. \A k \in 0 .. n : h[k] \in Int
    <3> SUFFICES ASSUME NEW k \in 0 .. n PROVE h[k] \in Int
      OBVIOUS
    <3>1. n - k \in 0 .. n /\ k \in Nat
      BY <1>0
    <3>2. s[n - k] \in Nat /\ P(k) \in Nat
      BY <1>1, <2>0, <2>1, <3>1
    <3>3. s[n - k] * P(k) \in Nat
      BY <3>2, ProductLemma
    <3> QED BY <3>3
  <2>4. ASSUME NEW k \in 1 .. n PROVE f[k] = h[k] - h[k - 1]
    <3>1. /\ k - 1 \in 0 .. n /\ k \in 0 .. n /\ k - 1 \in Nat /\ k - 1 + 1 = k
          /\ n - k \in 0 .. n /\ n - k + 1 \in 1 .. n /\ n - k + 1 - 1 = n - k
          /\ n - (k - 1) = n - k + 1
      BY <1>0
    <3>2. PICK a \in Nat, w \in Nat, p \in Nat :
            a = s[n - k] /\ w = plain[k] /\ p = P(k - 1)
      BY <1>0, <1>1, <2>0, <2>1, <3>1
    <3>3. s[n - k + 1] = a * Word + w
      <4>1. PICK m \in 1 .. n : m = n - k + 1 /\ m - 1 = n - k
        BY <3>1
      <4>2. s[m] = s[m - 1] * Word + r[m]
        BY <2>1
      <4> QED BY <2>0, <3>2, <4>1, <4>2
    <3>4. P(k) = Word * p
      BY <1>1, <3>1, <3>2
    <3>5. h[k] = -(a * (Word * p)) /\ h[k - 1] = -((a * Word + w) * p)
      BY <3>1, <3>2, <3>3, <3>4
    <3>6. f[k] = w * p
      BY <2>2, <3>2
    <3>7. w * p = (a * Word + w) * p - a * (Word * p)
      BY <1>0, AccumulateStep
    <3>8. a * (Word * p) \in Int /\ (a * Word + w) * p \in Int
      BY <1>0, ProductLemma
    <3> HIDE DEF h
    <3> QED BY <3>5, <3>6, <3>7, <3>8
  <2>5. Telescopes(f, h, n)
    BY <2>3, <2>4 DEF Telescopes
  <2>6. Total(f, n) = h[n] - h[0]
    BY <1>0, <2>5, TotalLemma
  <2>7. s[0] = 0 /\ s[n] \in Nat /\ Number(plain, e) = s[n]
    BY <1>0, <1>3, <2>0, <2>1 DEF Number, r
  <2>8. h[0] = -s[n]
    <3>1. h[0] = -(s[n] * P(0))
      <4>1. 0 \in 0 .. n /\ n - 0 = n
        BY <1>0
      <4> QED BY <4>1
    <3>2. PICK x \in Nat : x = s[n]
      BY <2>7
    <3>3. x * P(0) = x
      BY <1>1
    <3> HIDE DEF h
    <3> QED BY <3>1, <3>2, <3>3
  <2>9. h[n] = 0
    <3>1. n \in 0 .. n /\ n - n = 0
      BY <1>0
    <3>2. P(n) \in Nat
      BY <1>0, <1>1
    <3> QED BY <2>7, <3>1, <3>2
  <2> HIDE DEF h
  <2> QED BY <2>6, <2>7, <2>8, <2>9 DEF f, n
<1> QED BY <1>0, <1>2, <1>3

(***************************************************************************)
(* What the words of an edit mean, when they are a number.                 *)
(***************************************************************************)
IsNumber(e) == e.type = "float" \/ (e.type = "integer" /\ ~e.byte_le)

LEMMA EditedStraightens ==
  ASSUME NEW count \in Nat, NEW e \in EncodingType, IsNumber(e), NEW v \in Int
  PROVE  /\ EditedWords(v, count, e) \in Seq(WordType)
         /\ Straightens(EditedWords(v, count, e), Digits(v, count, e), e)
<1> DEFINE d == Digits(v, count, e)
           w == EditedWords(v, count, e)
<1>1. d \in Seq(WordType) /\ Len(d) = count /\ \A i \in 1 .. count : d[i] \in WordType
  BY DigitsType
<1>2. d \in Seq(Nat)
  BY <1>1, WordsAreNumbers
<1>3. w = IF e.byte_le THEN [i \in 1 .. count |-> Swapped(d[i])] ELSE d
  <2>1. e.type = "float" => w = [i \in 1 .. count |-> IF e.byte_le THEN Swapped(d[i]) ELSE d[i]]
    BY DEF EditedWords
  <2>2. e.type = "integer" => w = d
    BY DEF EditedWords
  <2> HIDE DEF w
  <2>3. d = [i \in 1 .. count |-> d[i]]
    BY <1>1
  <2> HIDE DEF d
  <2>4. e.byte_le \in BOOLEAN
    BY DEF EncodingType
  <2> QED BY <2>1, <2>2, <2>3, <2>4 DEF IsNumber
<1> HIDE DEF d, w
<1>4. w \in Seq(WordType) /\ Len(w) = count /\ Straightens(w, d, e)
  <2>1. CASE e.byte_le
    <3>1. \A i \in 1 .. count : Swapped(d[i]) \in WordType /\ Swapped(Swapped(d[i])) = d[i]
      BY <1>1, SwappedWord
    <3>2. w = [i \in 1 .. count |-> Swapped(d[i])]
      BY <1>3, <2>1
    <3>3. w \in Seq(WordType) /\ Len(w) = count
      BY <3>1, <3>2
    <3>4. \A i \in 1 .. count : Straight(w[i], e) = d[i]
      BY <2>1, <3>1, <3>2, StraightLemma
    <3> QED BY <1>1, <3>3, <3>4 DEF Straightens
  <2>2. CASE ~e.byte_le
    BY <1>1, <1>3, <2>2, StraightLemma DEF Straightens
  <2> QED BY <2>1, <2>2
<1> QED BY <1>4 DEF d, w

LEMMA EditedNumberMeans ==
  ASSUME NEW count \in Nat, NEW e \in EncodingType, IsNumber(e), NEW v \in Int,
         e.type = "integer" => Representable(v, count, e),
         e.type = "float" => 0 <= v /\ v < Power(Word, count)
  PROVE  Meaning(EditedWords(v, count, e), e) = v
<1> DEFINE w == EditedWords(v, count, e)
<1>1. e.type \in {"integer", "float"}
  BY DEF IsNumber
<1>2. w \in Seq(WordType) /\ Straightens(w, Digits(v, count, e), e)
  BY EditedStraightens
<1> HIDE DEF w
<1>3. Meaning(w, e) = v
  BY <1>1, <1>2, DigitsMean
<1> QED BY <1>3 DEF w

(***************************************************************************)
(* The highest word of a number tells whether it is half of what the words *)
(* can hold, or more.                                                      *)
(***************************************************************************)
Top(words) == words[1] * Power(Word, Len(words) - 1)

LEMMA DigitRoom ==
  ASSUME NEW b \in Nat \ {0}, NEW p \in Nat \ {0}, NEW t \in 0 .. p - 1, NEW w \in 0 .. b - 1
  PROVE  t * b + w \in 0 .. b * p - 1
<1>1. t * b <= (p - 1) * b /\ t * b >= 0
  OBVIOUS
<1>2. (p - 1) * b = b * p - b
  OBVIOUS
<1>3. t * b \in Nat /\ b * p \in Nat
  BY ProductLemma
<1> QED BY <1>1, <1>2, <1>3

LEMMA AccumulatedTop ==
  ASSUME NEW words \in Seq(WordType), Len(words) >= 1
  PROVE  \E t \in 0 .. Power(Word, Len(words) - 1) - 1 : Accumulated(words) = Top(words) + t
<1> DEFINE n == Len(words)
           P(j) == Power(Word, j)
<1>0. /\ n \in Nat /\ n >= 1 /\ words \in Seq(Nat)
      /\ \A k \in 1 .. n : words[k] \in Nat /\ words[k] < Word
  <2>1. words \in Seq(Nat) /\ \A k \in 1 .. n : words[k] \in WordType
    BY WordsAreNumbers
  <2> QED BY <2>1, WordFacts DEF WordType
<1>1. P(0) = 1 /\ \A j \in Nat : P(j) \in Nat \ {0} /\ P(j + 1) = Word * P(j)
  BY PowerLemma, WordFacts
<1>2. PICK s : /\ \A k \in 0 .. n : s[k] \in Nat
               /\ s[0] = 0
               /\ \A k \in 1 .. n : s[k] = s[k - 1] * Word + words[k]
               /\ Accumulated(words) = s[n]
  BY <1>0, AccumulatedLemma DEF Accumulates
<1> HIDE DEF P, n
<1>3. PICK top \in Nat : top = words[1]
  BY <1>0
<1> DEFINE Q == {k \in Nat : k + 1 <= n => \E t \in 0 .. P(k) - 1 : s[k + 1] = top * P(k) + t}
<1>4. 0 \in Q
  <2>1. s[1] = s[0] * Word + words[1]
    <3>1. 1 \in 1 .. n /\ 1 - 1 = 0
      BY <1>0
    <3> QED BY <1>2, <3>1
  <2>2. s[1] = top
    BY <1>2, <1>3, <2>1, WordFacts
  <2>3. \E t \in 0 .. 1 - 1 : s[0 + 1] = top * 1 + t
    BY <2>2
  <2>4. \E t \in 0 .. P(0) - 1 : s[0 + 1] = top * P(0) + t
    BY <1>1, <2>3, Zenon
  <2> QED BY <2>4
<1>5. ASSUME NEW k \in Nat, k \in Q PROVE k + 1 \in Q
  <2> SUFFICES ASSUME k + 1 + 1 <= n
               PROVE  \E t \in 0 .. P(k + 1) - 1 : s[k + 1 + 1] = top * P(k + 1) + t
    OBVIOUS
  <2>1. PICK t \in 0 .. P(k) - 1 : s[k + 1] = top * P(k) + t
    BY <1>0, <1>5
  <2>2. PICK w \in Nat : w = words[k + 1 + 1] /\ w < Word
    <3>1. k + 1 + 1 \in 1 .. n
      BY <1>0
    <3> QED BY <1>0, <3>1
  <2>3. s[k + 1 + 1] = s[k + 1] * Word + w
    <3>1. PICK m \in 1 .. n : m = k + 1 + 1 /\ m - 1 = k + 1
      BY <1>0
    <3> QED BY <1>2, <2>2, <3>1
  <2>4. PICK p \in Nat \ {0}, B \in Nat \ {0} : p = P(k) /\ B = Word /\ P(k + 1) = B * p
    BY <1>1, WordFacts
  <2>5. s[k + 1 + 1] = (top * p + t) * B + w
    BY <2>1, <2>3, <2>4
  <2>6. (top * p + t) * B = top * (B * p) + t * B
    <3>1. (top * p + t) * B = (top * p) * B + t * B
      OBVIOUS
    <3>2. (top * p) * B = top * (B * p)
      OBVIOUS
    <3> QED BY <3>1, <3>2
  <2>7. t * B + w \in 0 .. B * p - 1
    <3>1. t \in 0 .. p - 1 /\ w \in 0 .. B - 1
      BY <2>2, <2>4
    <3> QED BY <3>1, DigitRoom
  <2>8. s[k + 1 + 1] = top * P(k + 1) + (t * B + w)
    <3>1. t \in Nat /\ B * p \in Nat
      BY <2>4, ProductLemma
    <3>2. PICK x \in Nat, y \in Nat : x = top * (B * p) /\ y = t * B
      BY <3>1, ProductLemma
    <3>3. s[k + 1 + 1] = x + y + w
      BY <2>5, <2>6, <3>2
    <3>4. x = top * P(k + 1)
      BY <2>4, <3>2
    <3> QED BY <3>2, <3>3, <3>4
  <2> QED BY <2>4, <2>7, <2>8
<1> HIDE DEF Q
<1>6. Nat \subseteq Q
  BY <1>4, <1>5, InductiveSet
<1>7. n - 1 \in Q /\ n - 1 + 1 = n
  BY <1>0, <1>6
<1>8. \E t \in 0 .. P(n - 1) - 1 : s[n] = top * P(n - 1) + t
  BY <1>0, <1>7 DEF Q
<1> QED BY <1>2, <1>3, <1>8 DEF Top, P, n

HalfWord == Word \div 2
LEMMA HalfLemma == HalfWord \in Nat /\ Word = 2 * HalfWord
<1>1. PICK B \in Nat : B = Byte
  BY WordFacts
<1>2. PICK h \in Nat : B = 2 * h
  <2>1. PICK n \in Nat : n + 1 = ByteBits
    <3>1. ByteBits - 1 \in Nat /\ (ByteBits - 1) + 1 = ByteBits
      BY PageAssumption
    <3> QED BY <3>1
  <2>2. 2 \in Nat \ {0}
    OBVIOUS
  <2>3. Power(2, n + 1) = 2 * Power(2, n) /\ Power(2, n) \in Nat
    BY <2>2, PowerLemma
  <2> QED BY <1>1, <2>1, <2>3, PageAssumption
<1>3. PICK k \in Nat : k = h * B
  BY ProductLemma
<1>4. Word = 2 * k
  <2>1. (2 * h) * B = 2 * (h * B)
    OBVIOUS
  <2> QED BY <1>1, <1>2, <1>3, <2>1 DEF Word
<1>5. (2 * k) \div 2 = k
  OBVIOUS
<1> QED BY <1>4, <1>5 DEF HalfWord

LEMMA TopLemma ==
  ASSUME NEW words \in Seq(WordType), Len(words) >= 1, NEW e \in EncodingType
  PROVE  TopWord(words, e) >= Word \div 2 <=> 2 * Number(words, e) >= Power(Word, Len(words))
<1> DEFINE n == Len(words)
<1>0. n \in Nat /\ n >= 1 /\ e.word_le \in BOOLEAN
  BY DEF EncodingType
<1>1. PICK r \in Seq(WordType) : /\ Len(r) = n /\ r[1] = TopWord(words, e)
                                 /\ Number(words, e) = Accumulated(r)
  <2>1. CASE ~e.word_le
    BY <1>0, <2>1 DEF TopWord, Number
  <2>2. CASE e.word_le
    <3> DEFINE r == Reverse(words)
    <3>1. r = [i \in 1 .. n |-> words[(n - i) + 1]]
      BY DEF Reverse
    <3> HIDE DEF r
    <3>2. \A i \in 1 .. n : words[(n - i) + 1] \in WordType
      <4>1. \A i \in 1 .. n : (n - i) + 1 \in 1 .. n
        BY <1>0
      <4>2. \A i \in 1 .. n : words[i] \in WordType
        OBVIOUS
      <4> QED BY <4>1, <4>2
    <3>3. r \in [1 .. n -> WordType]
      BY <3>1, <3>2
    <3>4. r \in Seq(WordType) /\ Len(r) = n
      BY <1>0, <3>3
    <3>5. r[1] = words[n]
      <4>1. 1 \in 1 .. n /\ (n - 1) + 1 = n
        BY <1>0
      <4> QED BY <3>1, <4>1
    <3>6. TopWord(words, e) = words[n] /\ Number(words, e) = Accumulated(r)
      BY <2>2 DEF TopWord, Number, Last, r
    <3> QED BY <3>4, <3>5, <3>6
  <2> QED BY <1>0, <2>1, <2>2
<1>2. PICK top \in Nat : top = r[1]
  <2>1. r[1] \in WordType
    BY <1>0, <1>1
  <2> QED BY <2>1 DEF WordType
<1>3. PICK p \in Nat \ {0}, h \in Nat :
         /\ p = Power(Word, n - 1) /\ h = Word \div 2 /\ Power(Word, n) = (2 * h) * p
  <2>1. n - 1 \in Nat /\ n - 1 + 1 = n
    BY <1>0
  <2>2. Power(Word, n - 1) \in Nat \ {0} /\ Power(Word, n) = Word * Power(Word, n - 1)
    BY <2>1, PowerLemma, WordFacts
  <2> QED BY <2>2, HalfLemma DEF HalfWord
<1>4. PICK t \in 0 .. p - 1 : Number(words, e) = top * p + t
  BY <1>0, <1>1, <1>2, <1>3, AccumulatedTop DEF Top
<1>5. PICK x \in Nat : x = top * p
  BY ProductLemma
<1>6. PICK y \in Nat : y = h * p
  BY ProductLemma
<1>7. (2 * h) * p = 2 * y
  <2>1. (2 * h) * p = 2 * (h * p)
    OBVIOUS
  <2> QED BY <1>6, <2>1
<1>8. top >= h => x >= y
  BY <1>5, <1>6
<1>9. top < h => x + p <= y
  <2>1. top < h => top * p <= (h - 1) * p
    OBVIOUS
  <2>2. (h - 1) * p = h * p - p
    OBVIOUS
  <2> QED BY <1>5, <1>6, <2>1, <2>2
<1>10. top >= h <=> 2 * (x + t) >= 2 * y
  BY <1>8, <1>9
<1>11. TopWord(words, e) = top
  BY <1>1, <1>2
<1>12. Number(words, e) = x + t
  BY <1>4, <1>5
<1>13. Power(Word, n) = 2 * y
  BY <1>3, <1>7
<1> QED BY <1>3, <1>10, <1>11, <1>12, <1>13

(***************************************************************************)
(* What is shown of registers is what they mean, where nothing is thrown.  *)
(***************************************************************************)
LEMMA NumberMeans ==
  ASSUME NEW words \in Seq(WordType), NEW plain \in Seq(WordType), NEW e \in EncodingType,
         Straightens(words, plain, e)
  PROVE  Pattern(words, e) = Number(plain, e)
BY PatternLemma, NumberLemma, WordsAreNumbers

LEMMA NumberType ==
  ASSUME NEW words \in Seq(Nat), NEW e \in EncodingType
  PROVE  Number(words, e) \in Nat
<1>1. e.word_le \in BOOLEAN
  BY DEF EncodingType
<1>2. ASSUME NEW r \in Seq(Nat) PROVE Accumulated(r) \in Nat
  <2>1. PICK s : Accumulates(s, r)
    BY AccumulatedLemma
  <2>2. Len(r) \in 0 .. Len(r)
    OBVIOUS
  <2> QED BY <2>1, <2>2 DEF Accumulates
<1>3. Reverse(words) \in Seq(Nat)
  <2>1. Reverse(words) = [i \in 1 .. Len(words) |-> words[(Len(words) - i) + 1]]
    BY DEF Reverse
  <2>2. \A i \in 1 .. Len(words) : words[(Len(words) - i) + 1] \in Nat
    <3>1. \A i \in 1 .. Len(words) : (Len(words) - i) + 1 \in 1 .. Len(words)
      OBVIOUS
    <3> QED BY <3>1
  <2>3. Reverse(words) \in [1 .. Len(words) -> Nat]
    BY <2>1, <2>2
  <2> QED BY <2>3
<1> QED BY <1>1, <1>2, <1>3 DEF Number

LEMMA ShownIsMeaning ==
  ASSUME NEW words \in Seq(WordType), Len(words) >= 1, NEW e \in EncodingType, ~Throws(e)
  PROVE  ShownAs(words, e) = Meaning(words, e)
<1> DEFINE n == Len(words)
<1>0. /\ e.type \in {"integer", "float", "string"} /\ e.byte_le \in BOOLEAN
      /\ n \in Nat /\ n >= 1 /\ words \in Seq(Nat)
      /\ \A i \in 1 .. n : words[i] \in WordType
  BY WordsAreNumbers DEF EncodingType
<1>1. CASE e.type = "integer"
  <2>1. ~e.byte_le
    BY <1>0, <1>1 DEF Throws
  <2>2. Straightens(words, words, e)
    BY <1>0, <2>1, StraightLemma DEF Straightens
  <2>3. Pattern(words, e) = Number(words, e)
    BY <2>2, NumberMeans
  <2>4. TopWord(words, e) >= Word \div 2 <=> 2 * Pattern(words, e) >= Power(Word, n)
    BY <2>3, TopLemma
  <2>5. Pattern(words, e) \in Int /\ Power(Word, n) \in Int
    <3>1. Power(Word, n) \in Nat
      BY <1>0, PowerLemma, WordFacts
    <3>2. \E x \in Nat : Number(words, e) = x
      BY <1>0, NumberType
    <3> QED BY <2>3, <3>1, <3>2
  <2>6. ShownAs(words, e) =
          Pattern(words, e) - (IF e.signed /\ 2 * Pattern(words, e) >= Power(Word, n)
                               THEN Power(Word, n) ELSE 0)
    BY <1>1, <2>3, <2>4 DEF ShownAs
  <2>7. Meaning(words, e) = IF e.signed /\ 2 * Pattern(words, e) >= Power(Word, n)
                            THEN Pattern(words, e) - Power(Word, n) ELSE Pattern(words, e)
    BY <1>1 DEF Meaning
  <2> QED BY <2>5, <2>6, <2>7
<1>2. CASE e.type = "float"
  <2> DEFINE plain == [i \in DOMAIN words |-> IF e.byte_le THEN Swapped(words[i]) ELSE words[i]]
  <2>1. \A i \in 1 .. n : Swapped(words[i]) \in WordType
    BY <1>0, SwappedWord
  <2>2. plain \in [1 .. n -> WordType]
    BY <1>0, <2>1
  <2>3. plain \in Seq(WordType) /\ Len(plain) = n
    BY <1>0, <2>2
  <2>4. \A i \in 1 .. n : Straight(words[i], e) = plain[i]
    BY <1>0, StraightLemma
  <2>5. ShownAs(words, e) = Number(plain, e)
    BY <1>2 DEF ShownAs
  <2>6. Meaning(words, e) = Pattern(words, e)
    BY <1>2 DEF Meaning
  <2> HIDE DEF plain
  <2>7. Straightens(words, plain, e)
    BY <2>3, <2>4 DEF Straightens
  <2> QED BY <2>3, <2>5, <2>6, <2>7, NumberMeans
<1>3. CASE e.type = "string"
  <2>1. ~e.byte_le
    BY <1>0, <1>3 DEF Throws
  <2> DEFINE out == [j \in 1 .. 2 * n |->
                       IF j % 2 = 1 THEN words[(j + 1) \div 2] \div Byte
                                    ELSE words[j \div 2] % Byte]
             bytes == [j \in 1 .. 2 * n |->
                         BytesInOrder(words[(j + 1) \div 2], e)[IF j % 2 = 1 THEN 1 ELSE 2]]
  <2>2. ShownAs(words, e) = UpToFill(out, e.fill) /\ Meaning(words, e) = UpToFill(bytes, e.fill)
    BY <1>3 DEF ShownAs, Meaning
  <2>3. ASSUME NEW j \in 1 .. 2 * n PROVE out[j] = bytes[j]
    <3>1. BytesInOrder(words[(j + 1) \div 2], e) =
            <<words[(j + 1) \div 2] \div Byte, words[(j + 1) \div 2] % Byte>>
      BY <2>1 DEF BytesInOrder
    <3>2. j % 2 # 1 => (j + 1) \div 2 = j \div 2
      OBVIOUS
    <3>3. CASE j % 2 = 1
      BY <3>1, <3>3
    <3>4. CASE j % 2 # 1
      BY <3>1, <3>2, <3>4
    <3> QED BY <3>3, <3>4
  <2>4. out = bytes
    BY <2>3
  <2> QED BY <2>2, <2>4
<1> QED BY <1>0, <1>1, <1>2, <1>3

-----------------------------------------------------------------------------
(***************************************************************************)
(* The state of the page: the index of each unit holds its inputs, and     *)
(* what is edited is a text for its type.                                  *)
(***************************************************************************)
DeviceType == [value_map : Seq(EntryType(Nat)), mb_values : [Registers -> WordType]]

PageType ==
    /\ page \in Pages
    /\ devices \in [Units -> DeviceType]
    /\ focused \in 0 .. Len(page) /\ edited \in BOOLEAN
    /\ DOMAIN shown = Inputs

Indexed == \A u \in Units : devices[u].value_map = Index(page, u)
IsText(type, text) == \/ text = Junk /\ type # "string"
                      \/ \E v \in TextOf(type) : text = Value(v)
EditedIsText == edited => focused # 0 /\ IsText(page[focused].encoding.type, shown[focused])

IInv == PageType /\ Indexed /\ EditedIsText

LEMMA PageFacts ==
  ASSUME page \in Pages
  PROVE  /\ page \in Seq(InputType) /\ Inputs = 1 .. Len(page) /\ Len(page) \in Nat
         /\ \A i \in Inputs :
               /\ page[i].unit \in Units /\ page[i].encoding \in EncodingType
               /\ page[i].low \in Nat /\ page[i].high \in Nat /\ page[i].low <= page[i].high
               /\ page[i].low \in Registers /\ page[i].high \in Registers
               /\ IsField(i) => /\ page[i].encoding.type = "integer"
                                /\ page[i].bits[1] \in Nat /\ page[i].bits[2] \in Nat
               /\ IsCheckBox(i) => page[i].encoding.type = "integer"
<1>1. page \in Seq(InputType)
  BY PageAssumption
<1>2. Inputs = 1 .. Len(page) /\ Len(page) \in Nat
  BY <1>1 DEF Inputs
<1>3. ASSUME NEW i \in Inputs
      PROVE  /\ page[i].unit \in Units /\ page[i].encoding \in EncodingType
             /\ page[i].low \in Nat /\ page[i].high \in Nat
             /\ page[i].low \in Registers /\ page[i].high \in Registers
             /\ page[i].bits \in {<< >>} \cup (Nat \X Nat)
  BY <1>1, <1>2, InputFields
<1>4. \A i \in Inputs :
        /\ page[i].low <= page[i].high
        /\ IsField(i) => page[i].encoding.type = "integer"
        /\ IsCheckBox(i) => IsField(i)
  BY PageAssumption DEF Inputs, IsField, IsCheckBox
<1>5. \A i \in Inputs : IsField(i) => page[i].bits[1] \in Nat /\ page[i].bits[2] \in Nat
  BY <1>3 DEF IsField
<1> QED BY <1>1, <1>2, <1>3, <1>4, <1>5

LEMMA EditedInput ==
  ASSUME IInv, ChangeEvent
  PROVE  focused \in Inputs /\ page \in Pages
<1>1. page \in Pages /\ focused \in 0 .. Len(page) /\ focused # 0
  BY DEF IInv, PageType, ChangeEvent
<1>2. Inputs = 1 .. Len(page) /\ Len(page) \in Nat
  BY <1>1, PageFacts
<1> QED BY <1>1, <1>2

LEMMA WordsOfType ==
  ASSUME page \in Pages, NEW i \in Inputs, NEW mb \in [Registers -> WordType]
  PROVE  WordsOf(mb, i) \in Seq(WordType) /\ Len(WordsOf(mb, i)) >= 1 /\ Len(WordsOf(mb, i)) = Count(i)
<1>1. PICK low \in Nat, high \in Nat :
         low = page[i].low /\ high = page[i].high /\ low <= high /\ low .. high \subseteq Registers
  BY PageFacts, PageAssumption DEF Registers
<1>2. WordsOf(mb, i) = [k \in 1 .. high - low + 1 |-> mb[low + k - 1]]
  BY <1>1 DEF WordsOf, Count
<1>3. \A k \in 1 .. high - low + 1 : mb[low + k - 1] \in WordType
  BY <1>1
<1>4. WordsOf(mb, i) \in [1 .. high - low + 1 -> WordType]
  BY <1>2, <1>3
<1>5. high - low + 1 \in Nat /\ high - low + 1 >= 1
  BY <1>1
<1> QED BY <1>1, <1>4, <1>5 DEF Count

LEMMA NumberInType ==
  ASSUME NEW type, type # "string", NEW text, IsText(type, text), NEW nan \in TextOf(type)
  PROVE  NumberIn(text, nan) \in TextOf(type)
<1>1. CASE text = Junk
  BY <1>1 DEF NumberIn
<1>2. CASE text # Junk
  <2>1. PICK v \in TextOf(type) : text = Value(v)
    BY <1>2 DEF IsText
  <2> QED BY <1>2, <2>1 DEF NumberIn, Value
<1> QED BY <1>1, <1>2

LEMMA NaNType ==
  ASSUME page \in Pages, NEW i \in Inputs, IsFloat(i), HasFloat(i)
  PROVE  Count(i) \in {2, 4} /\ NaN[Count(i)] \in Nat /\ NaN[Count(i)] < Power(Word, Count(i))
BY PageAssumption DEF HasFloat

LEMMA EnteredType ==
  ASSUME page \in Pages, NEW i \in Inputs, NEW mb \in [Registers -> WordType],
         NEW text, IsText(page[i].encoding.type, text), ~Throwing(i, text)
  PROVE  Entered(i, text, mb) \in Seq(WordType) /\ Len(Entered(i, text, mb)) = Count(i)
<1> DEFINE e == page[i].encoding
           alone == IsField(i) /\ OneRegister(i)
<1>0. Count(i) \in Nat /\ e \in EncodingType
  BY PageFacts DEF Count
<1>1. CASE alone
  <2>1. /\ mb[page[i].low] \in WordType /\ page[i].bits[1] \in Nat /\ page[i].bits[2] \in Nat
        /\ e.type = "integer"
    BY <1>1, PageFacts
  <2>2. NumberIn(text, 0) \in Int
    <3>1. 0 \in TextOf(e.type) /\ TextOf(e.type) = Int
      BY <2>1 DEF TextOf
    <3> QED BY <2>1, <3>1, NumberInType
  <2>3. FieldWord(mb[page[i].low], page[i].bits, NumberIn(text, 0)) \in WordType
    BY <2>1, <2>2, FieldWordType
  <2>4. Entered(i, text, mb) = <<FieldWord(mb[page[i].low], page[i].bits, NumberIn(text, 0))>>
    BY <1>1, <2>1 DEF Entered, IsFloat
  <2>5. Count(i) = 1
    BY <1>1, PageFacts DEF OneRegister, Count
  <2> QED BY <2>3, <2>4, <2>5
<1>2. CASE ~alone /\ IsFloat(i) /\ HasFloat(i)
  <2> DEFINE v == NumberIn(text, NaN[Count(i)])
  <2>1. Entered(i, text, mb) = EditedWords(v, Count(i), e)
    BY <1>2 DEF Entered
  <2>2. NaN[Count(i)] \in TextOf(e.type) /\ e.type # "string"
    BY <1>2, NaNType DEF IsFloat, TextOf
  <2>3. v \in TextOf(e.type)
    BY <2>2, NumberInType
  <2> HIDE DEF v
  <2> QED BY <1>0, <2>1, <2>3, EditedWordsType
<1>3. CASE ~alone /\ IsFloat(i) /\ ~HasFloat(i)
  BY <1>3, WordsOfType DEF Entered
<1>4. CASE ~alone /\ ~IsFloat(i)
  <2>1. Entered(i, text, mb) = EditedWords(text.value, Count(i), e) /\ text # Junk
    BY <1>4 DEF Entered, Throwing
  <2>2. PICK v \in TextOf(e.type) : text = Value(v)
    BY <2>1 DEF IsText
  <2>3. text.value = v
    BY <2>2 DEF Value
  <2> HIDE DEF e
  <2> QED BY <1>0, <2>1, <2>3, EditedWordsType
<1> QED BY <1>1, <1>2, <1>3, <1>4

LEMMA PatchedType ==
  ASSUME NEW mb \in [Registers -> WordType], NEW start \in Nat, NEW regs \in Seq(WordType)
  PROVE  Patched(mb, start, regs) \in [Registers -> WordType]
<1>1. ASSUME NEW a \in Registers, a \in start .. start + Len(regs) - 1
      PROVE  regs[a - start + 1] \in WordType
  <2>1. a - start + 1 \in 1 .. Len(regs)
    BY <1>1
  <2> QED BY <2>1
<1> QED BY <1>1 DEF Patched

(***************************************************************************)
(* A device whose registers changed.                                       *)
(***************************************************************************)
WithRegisters(ds, u, mb) == [ds EXCEPT ![u] = [ds[u] EXCEPT !.mb_values = mb]]
OnlyRegisters(out, ds, u, mb) ==
    /\ out \in [Units -> DeviceType]
    /\ \A x \in Units : out[x].value_map = ds[x].value_map
    /\ [x \in Units |-> out[x].mb_values] = [[x \in Units |-> ds[x].mb_values] EXCEPT ![u] = mb]

LEMMA WithRegistersLemma ==
  ASSUME NEW ds \in [Units -> DeviceType], NEW u \in Units, NEW mb \in [Registers -> WordType]
  PROVE  OnlyRegisters(WithRegisters(ds, u, mb), ds, u, mb)
<1> DEFINE new == [ds[u] EXCEPT !.mb_values = mb]
           out == [ds EXCEPT ![u] = new]
<1>1. new \in DeviceType /\ new.value_map = ds[u].value_map /\ new.mb_values = mb
  <2>1. ds[u] \in DeviceType
    OBVIOUS
  <2>2. \A d \in DeviceType : /\ [d EXCEPT !.mb_values = mb] \in DeviceType
                              /\ [d EXCEPT !.mb_values = mb].value_map = d.value_map
                              /\ [d EXCEPT !.mb_values = mb].mb_values = mb
    BY DEF DeviceType
  <2> QED BY <2>1, <2>2
<1> HIDE DEF new
<1>2. out \in [Units -> DeviceType] /\ \A x \in Units : out[x] = IF x = u THEN new ELSE ds[x]
  BY <1>1
<1> HIDE DEF out
<1>3. \A x \in Units : out[x].value_map = ds[x].value_map
  BY <1>1, <1>2
<1>4. [x \in Units |-> out[x].mb_values] = [[x \in Units |-> ds[x].mb_values] EXCEPT ![u] = mb]
  BY <1>1, <1>2
<1> QED BY <1>2, <1>3, <1>4 DEF OnlyRegisters, WithRegisters, out, new

-----------------------------------------------------------------------------
LEMMA InitIInv == Init => IInv
<1> SUFFICES ASSUME Init PROVE IInv
  OBVIOUS
<1>1. page \in Pages /\ page \in Seq(InputType)
  BY PageFacts DEF Init
<1> DEFINE zero == [a \in Registers |-> 0]
<1>2. zero \in [Registers -> WordType]
  BY WordFacts DEF WordType
<1> HIDE DEF zero
<1>3. ASSUME NEW u \in Units
      PROVE  /\ devices[u] \in DeviceType /\ devices[u].value_map = Index(page, u)
             /\ devices[u].mb_values = zero
  <2>1. devices[u] = [value_map |-> Index(page, u), mb_values |-> zero]
    BY DEF Init, NewDevice, zero
  <2>2. Index(page, u) \in Seq(EntryType(Nat))
    BY <1>1, IndexHolds DEF Holding
  <2> QED BY <1>2, <2>1, <2>2 DEF DeviceType
<1>4. devices \in [Units -> DeviceType]
  <2>1. devices = [u \in Units |-> devices[u]]
    BY DEF Init
  <2> QED BY <1>3, <2>1
<1>5. PageType
  <2>1. DOMAIN shown = Inputs /\ focused = 0 /\ edited = FALSE
    BY DEF Init
  <2>2. 0 \in 0 .. Len(page)
    BY <1>1, PageFacts
  <2> QED BY <1>1, <1>4, <2>1, <2>2 DEF PageType
<1>6. Indexed
  BY <1>3 DEF Indexed
<1>7. EditedIsText
  BY DEF Init, EditedIsText
<1> QED BY <1>5, <1>6, <1>7 DEF IInv

(***************************************************************************)
(* The input with the focus keeps its text when the others are refreshed.  *)
(***************************************************************************)
LEMMA RefreshedLemma ==
  ASSUME NEW dev, NEW focus, NEW low, NEW high
  PROVE  /\ DOMAIN Refreshed(dev, focus, low, high) = Inputs
         /\ focus \in Inputs => Refreshed(dev, focus, low, high)[focus] = shown[focus]
BY DEF Refreshed

(***************************************************************************)
(* Registers written, by a message or an edit.                             *)
(***************************************************************************)
LEMMA WriteKeeps ==
  ASSUME IInv, NEW u \in Units, NEW start \in Nat, NEW regs \in Seq(WordType),
         devices' = [devices EXCEPT ![u] =
                        [devices[u] EXCEPT !.mb_values = Patched(@, start, regs)]],
         page' = page
  PROVE  /\ devices' \in [Units -> DeviceType] /\ Indexed'
         /\ \A x \in Units : devices'[x].mb_values =
               IF x = u THEN Patched(devices[u].mb_values, start, regs) ELSE devices[x].mb_values
<1> DEFINE mb == Patched(devices[u].mb_values, start, regs)
<1>1. devices \in [Units -> DeviceType] /\ Indexed
  BY DEF IInv, PageType
<1>2. devices[u].mb_values \in [Registers -> WordType]
  BY <1>1 DEF DeviceType
<1>3. mb \in [Registers -> WordType]
  BY <1>2, PatchedType
<1>4. devices' = [devices EXCEPT ![u] = [devices[u] EXCEPT !.mb_values = mb]]
  OBVIOUS
<1> HIDE DEF mb
<1>6. /\ devices' \in [Units -> DeviceType]
      /\ \A x \in Units : devices'[x].value_map = devices[x].value_map
      /\ [x \in Units |-> devices'[x].mb_values] =
             [[x \in Units |-> devices[x].mb_values] EXCEPT ![u] = mb]
  <2>1. devices' = WithRegisters(devices, u, mb)
    BY <1>4 DEF WithRegisters
  <2>2. OnlyRegisters(WithRegisters(devices, u, mb), devices, u, mb)
    BY <1>1, <1>3, WithRegistersLemma
  <2> QED BY <2>1, <2>2, Zenon DEF OnlyRegisters
<1>7. Indexed'
  BY <1>1, <1>6 DEF Indexed
<1>8. \A x \in Units : devices'[x].mb_values = IF x = u THEN mb ELSE devices[x].mb_values
  BY <1>6
<1> QED BY <1>6, <1>7, <1>8 DEF mb

LEMMA MessageType ==
  ASSUME NEW n \in 1 .. 2, NEW w \in [1 .. 2 -> Words]
  PROVE  SubSeq(w, 1, n) \in Seq(WordType)
<1>1. Words \subseteq WordType
  BY PageAssumption DEF WordType
<1>2. \A i \in 1 .. n : w[i] \in WordType
  BY <1>1
<1> QED BY <1>2, SubSeqProperties

LEMMA StepIInv == IInv /\ [Next]_vars => IInv'
<1> SUFFICES ASSUME IInv, [Next]_vars PROVE IInv'
  OBVIOUS
<1>0. /\ PageType /\ Indexed /\ EditedIsText
      /\ page \in Pages /\ Inputs = 1 .. Len(page) /\ Len(page) \in Nat
      /\ focused # 0 => focused \in Inputs
  BY PageFacts DEF IInv, PageType
<1>1. ASSUME NEW a \in Registers, NEW n \in 1 .. 2, NEW w \in [1 .. 2 -> Words],
             Message(a, SubSeq(w, 1, n))
      PROVE  IInv'
  <2> DEFINE regs == SubSeq(w, 1, n)
  <2>1. a \in Nat /\ regs \in Seq(WordType)
    BY MessageType, PageAssumption DEF Registers
  <2> HIDE DEF regs
  <2>2. /\ page' = page /\ focused' = focused /\ edited' = edited
        /\ \E dev, low, high : shown' = Refreshed(dev, focused, low, high)
    BY <1>1 DEF Message, regs
  <2>3. devices' = [devices EXCEPT !["unit"] =
                       [devices["unit"] EXCEPT !.mb_values = Patched(@, a, regs)]]
    BY <1>1 DEF Message, regs
  <2>4. "unit" \in Units
    BY DEF Units
  <2>5. devices' \in [Units -> DeviceType] /\ Indexed'
    BY <2>1, <2>2, <2>3, <2>4, WriteKeeps
  <2>6. PageType'
    BY <1>0, <2>2, <2>5, RefreshedLemma DEF PageType, Inputs
  <2>7. EditedIsText'
    BY <1>0, <2>2, RefreshedLemma DEF EditedIsText
  <2> QED BY <2>5, <2>6, <2>7 DEF IInv
<1>2. ASSUME NEW i \in Inputs, Focus(i)
      PROVE  IInv'
  <2>1. focused = 0 /\ focused' = i /\ UNCHANGED <<page, devices, shown, edited>>
    BY <1>2 DEF Focus
  <2>2. edited = FALSE
    BY <1>0, <2>1 DEF EditedIsText, PageType
  <2> QED BY <1>0, <2>1, <2>2 DEF IInv, PageType, Indexed, EditedIsText, Inputs
<1>3. ASSUME NEW text, Type(text), focused # 0, IsText(page[focused].encoding.type, text)
      PROVE  IInv'
  <2>1. /\ focused \in Inputs /\ shown' = [shown EXCEPT ![focused] = text] /\ edited' = TRUE
        /\ UNCHANGED <<page, devices, focused>>
    BY <1>0, <1>3 DEF Type
  <2>2. shown'[focused] = text /\ DOMAIN shown' = DOMAIN shown
    BY <1>0, <2>1 DEF PageType
  <2>3. EditedIsText'
    BY <1>3, <2>1, <2>2 DEF EditedIsText
  <2> QED BY <1>0, <2>1, <2>2, <2>3 DEF IInv, PageType, Indexed, Inputs
<1>4. CASE ChangeEvent
  <2>1. /\ focused \in Inputs /\ edited /\ edited' = FALSE /\ page' = page /\ focused' = focused
    BY <1>0, <1>4 DEF ChangeEvent
  <2>2. EditedIsText'
    BY <2>1 DEF EditedIsText
  <2>3. CASE Throwing(focused, shown[focused])
    <3>1. UNCHANGED <<devices, shown>>
      BY <1>4, <2>3 DEF ChangeEvent
    <3> QED BY <1>0, <2>1, <2>2, <3>1 DEF IInv, PageType, Indexed, Inputs
  <2>4. CASE ~Throwing(focused, shown[focused])
    <3> DEFINE u == page[focused].unit
               mb == devices[u].mb_values
               regs == Entered(focused, shown[focused], mb)
    <3>1. IsText(page[focused].encoding.type, shown[focused])
      BY <1>0, <2>1 DEF EditedIsText
    <3>2. u \in Units /\ page[focused].low \in Nat
      BY <1>0, <2>1, PageFacts
    <3>3. mb \in [Registers -> WordType]
      BY <1>0, <3>2 DEF PageType, DeviceType
    <3>4. regs \in Seq(WordType)
      BY <1>0, <2>1, <2>4, <3>1, <3>3, EnteredType
    <3>6. /\ devices' = [devices EXCEPT ![u] =
                            [devices[u] EXCEPT !.mb_values = Patched(@, page[focused].low, regs)]]
          /\ \E dev, low, high : shown' = Refreshed(dev, focused, low, high)
      BY <1>4, <2>4, Zenon DEF ChangeEvent
    <3> HIDE DEF u, regs
    <3>7. devices' \in [Units -> DeviceType] /\ Indexed'
      BY <2>1, <3>2, <3>4, <3>6, WriteKeeps
    <3>8. PageType'
      BY <1>0, <2>1, <3>6, <3>7, RefreshedLemma DEF PageType, Inputs
    <3> QED BY <2>2, <3>7, <3>8 DEF IInv
  <2> QED BY <2>3, <2>4
<1>5. CASE Blur
  <2>1. /\ focused' = 0 /\ edited = FALSE
        /\ \E dev, low, high : shown' = Refreshed(dev, 0, low, high)
        /\ UNCHANGED <<page, devices, edited>>
    BY <1>0, <1>5 DEF Blur, PageType
  <2>2. PageType'
    BY <1>0, <2>1, RefreshedLemma DEF PageType, Inputs
  <2> QED BY <1>0, <2>1, <2>2 DEF IInv, Indexed, EditedIsText
<1>6. CASE UNCHANGED vars
  BY <1>0, <1>6 DEF vars, IInv, PageType, Indexed, EditedIsText, Inputs
<1>7. ASSUME focused # 0, NEW text \in TextsOf(focused), Type(text)
      PROVE  IInv'
  <2> DEFINE type == page[focused].encoding.type
  <2>1. type \in {"integer", "float", "string"} /\ (IsCheckBox(focused) => type = "integer")
    BY <1>0, <1>7, PageFacts DEF EncodingType
  <2>2. CASE IsCheckBox(focused)
    <3>1. PICK v \in {0, 1} : text = Value(v)
      BY <1>7, <2>2 DEF TextsOf
    <3>2. v \in TextOf(type)
      BY <2>1, <2>2 DEF TextOf
    <3> QED BY <1>3, <1>7, <3>1, <3>2 DEF IsText
  <2>3. CASE ~IsCheckBox(focused)
    <3>1. \A v \in Texts[type] : v \in TextOf(type)
      BY <2>1, PageAssumption DEF TextOf
    <3>2. text \in {Value(v) : v \in Texts[type]} \cup (IF type = "string" THEN {} ELSE {Junk})
      BY <1>7, <2>3 DEF TextsOf
    <3>3. IsText(type, text)
      BY <3>1, <3>2 DEF IsText
    <3> QED BY <1>3, <1>7, <3>3
  <2> QED BY <2>2, <2>3
<1> QED BY <1>1, <1>2, <1>4, <1>5, <1>6, <1>7 DEF Next

LEMMA SpecIInv == Spec => []IInv
<1> QED BY InitIInv, StepIInv, PTL DEF Spec

-----------------------------------------------------------------------------
(***************************************************************************)
(* Every index stays searchable: sorted by the ends, with start_min the    *)
(* least start from there on.                                              *)
(***************************************************************************)
THEOREM IndexStaysSearchable == Spec => []StaysSearchable
<1>1. ASSUME IInv PROVE StaysSearchable
  <2> SUFFICES ASSUME NEW u \in Units
               PROVE  LET d == devices[u].value_map
                      IN  \A i \in DOMAIN d :
                             /\ i < Len(d) => d[i].end <= d[i + 1].end
                             /\ \A k \in i .. Len(d) : d[i].start_min <= d[k].start
                             /\ \E k \in i .. Len(d) : d[i].start_min = d[k].start
    BY DEF StaysSearchable
  <2> DEFINE d == devices[u].value_map
  <2>1. d \in Seq(EntryType(Nat)) /\ Searchable(d)
    BY <1>1, IndexHolds, PageFacts DEF IInv, PageType, Indexed, Holding
  <2> HIDE DEF d
  <2>2. ASSUME NEW i \in DOMAIN d
        PROVE  /\ i < Len(d) => d[i].end <= d[i + 1].end
               /\ \A k \in i .. Len(d) : d[i].start_min <= d[k].start
               /\ \E k \in i .. Len(d) : d[i].start_min = d[k].start
    <3>1. i \in 1 .. Len(d) /\ Len(d) \in Nat
      BY <2>1
    <3>2. i < Len(d) => i + 1 \in i .. Len(d)
      BY <3>1
    <3> QED BY <2>1, <3>1, <3>2 DEF Searchable
  <2> QED BY <2>2 DEF d
<1> QED BY <1>1, SpecIInv, PTL

(***************************************************************************)
(* A look-up of a list that holds inputs finds those in range, each once.  *)
(***************************************************************************)
Finds(found, p, u, s, e) ==
    /\ found \in Seq(EntryType(Nat))
    /\ {found[k].value : k \in DOMAIN found} =
           {i \in 1 .. Len(p) : p[i].unit = u /\ p[i].high >= s /\ p[i].low < e}
    /\ \A a, b \in DOMAIN found : found[a].value = found[b].value => a = b

LEMMA OverlappingLemma ==
  ASSUME NEW p \in Seq(InputType), NEW u, NEW d, Holding(d, p, Len(p), u),
         NEW s \in Int, NEW e \in Int
  PROVE  Finds(Overlapping(d, s, e), p, u, s, e)
<1> DEFINE pos == FindEnd(d, s)
           last == Stop(d, pos, e) - 1
           found == Overlapping(d, s, e)
           E == EntryType(Nat)
<1>1. d \in Seq(E) /\ Searchable(d) /\ Len(d) \in Nat
  BY DEF Holding
<1>2. pos \in 1 .. Len(d) + 1
  BY <1>1, FindEndLemma
<1>3. last \in pos - 1 .. Len(d)
  <2> HIDE DEF pos
  <2>1. Stop(d, pos, e) \in pos .. Len(d) + 1
    BY <1>1, <1>2, StopLemma
  <2> QED BY <1>1, <1>2, <2>1
<1>4. \A j \in 1 .. Len(d) : d[j].end > s /\ d[j].start < e => j \in pos .. last
  BY <1>1, SearchMissesNone
<1>5. found = Results(d, pos, last, s, e)
  BY DEF Overlapping
<1> HIDE DEF pos, last, found, E
<1>6. found \in Seq(E) /\ Selects(found, d, pos, last, s, e)
  BY <1>1, <1>2, <1>3, <1>5, ResultsLemma
<1>7. DOMAIN found = 1 .. Len(found) /\ Len(found) \in Nat /\ pos .. last \subseteq 1 .. Len(d)
  BY <1>1, <1>2, <1>3, <1>6
<1>8. \A j \in 1 .. Len(d) :
        /\ d[j].value \in 1 .. Len(p) /\ p[d[j].value].unit = u
        /\ InRange(d[j], s, e) <=> p[d[j].value].high >= s /\ p[d[j].value].low < e
  <2> SUFFICES ASSUME NEW j \in 1 .. Len(d)
               PROVE  /\ d[j].value \in 1 .. Len(p) /\ p[d[j].value].unit = u
                      /\ InRange(d[j], s, e) <=>
                           p[d[j].value].high >= s /\ p[d[j].value].low < e
    OBVIOUS
  <2>1. /\ d[j].value \in 1 .. Len(p) /\ p[d[j].value].unit = u
        /\ d[j].start = p[d[j].value].low
        /\ d[j].end = p[d[j].value].high + 1
    BY DEF Holding
  <2>2. p[d[j].value].high \in Int /\ p[d[j].value].low \in Int
    BY <2>1, InputFields
  <2> QED BY <2>1, <2>2 DEF InRange
<1>9. ASSUME NEW k \in DOMAIN found
      PROVE  found[k].value \in {i \in 1 .. Len(p) : p[i].unit = u /\ p[i].high >= s /\ p[i].low < e}
  <2>1. PICK j \in pos .. last : InRange(d[j], s, e) /\ found[k] = d[j]
    BY <1>6, <1>7 DEF Selects
  <2> QED BY <1>7, <1>8, <2>1
<1>10. ASSUME NEW i \in 1 .. Len(p), p[i].unit = u, p[i].high >= s, p[i].low < e
       PROVE  \E k \in DOMAIN found : found[k].value = i
  <2>1. PICK j \in 1 .. Len(d) : d[j].value = i
    BY <1>10 DEF Holding
  <2>2. InRange(d[j], s, e)
    BY <1>8, <1>10, <2>1
  <2>3. j \in pos .. last
    BY <1>4, <2>2 DEF InRange
  <2> QED BY <1>6, <1>7, <2>1, <2>2, <2>3 DEF Selects
<1>11. ASSUME NEW a \in DOMAIN found, NEW b \in DOMAIN found, found[a].value = found[b].value
       PROVE  a = b
  <2>1. ASSUME NEW x \in 1 .. Len(found), NEW y \in 1 .. Len(found), x < y
        PROVE  found[x].value # found[y].value
    <3>1. PICK j1 \in pos .. last, j2 \in pos .. last :
                 j1 < j2 /\ found[x] = d[j1] /\ found[y] = d[j2]
      BY <1>6, <2>1 DEF Selects
    <3>2. j1 \in 1 .. Len(d) /\ j2 \in 1 .. Len(d) /\ j1 # j2
      BY <1>7, <3>1
    <3> QED BY <3>1, <3>2 DEF Holding
  <2> QED BY <1>7, <1>11, <2>1
<1>12. {found[k].value : k \in DOMAIN found} =
         {i \in 1 .. Len(p) : p[i].unit = u /\ p[i].high >= s /\ p[i].low < e}
  BY <1>9, <1>10
<1> QED BY <1>6, <1>11, <1>12 DEF Finds, found, E

(***************************************************************************)
(* Whatever the order of the inputs in the document, a look-up finds every *)
(* input of the unit that shows an address, each once, and no other.       *)
(***************************************************************************)
THEOREM LookUpFindsOverlapping == Spec => []FindsOverlapping
<1>1. ASSUME IInv PROVE FindsOverlapping
  <2>0. page \in Seq(InputType) /\ Inputs = 1 .. Len(page)
    BY <1>1, PageFacts DEF IInv, PageType
  <2> SUFFICES ASSUME NEW u \in Units, NEW s \in Registers, NEW e \in 1 .. MaxAddress + 1, s < e
               PROVE  LET found == Overlapping(devices[u].value_map, s, e)
                      IN  /\ {found[k].value : k \in DOMAIN found} =
                               {i \in Inputs :
                                  page[i].unit = u /\ page[i].high >= s /\ page[i].low < e}
                          /\ IsInjective([k \in DOMAIN found |-> found[k].value])
    BY DEF FindsOverlapping
  <2>1. s \in Int /\ e \in Int
    BY PageAssumption DEF Registers
  <2>2. Holding(devices[u].value_map, page, Len(page), u)
    BY <1>1, <2>0, IndexHolds DEF IInv, Indexed
  <2> DEFINE found == Overlapping(devices[u].value_map, s, e)
  <2>3. Finds(found, page, u, s, e)
    BY <2>0, <2>1, <2>2, OverlappingLemma
  <2> HIDE DEF found
  <2>4. {found[k].value : k \in DOMAIN found} =
          {i \in Inputs : page[i].unit = u /\ page[i].high >= s /\ page[i].low < e}
    BY <2>0, <2>3 DEF Finds
  <2>5. IsInjective([k \in DOMAIN found |-> found[k].value])
    BY <2>3 DEF Finds, IsInjective
  <2> QED BY <2>4, <2>5 DEF found
<1> QED BY <1>1, SpecIInv, PTL

-----------------------------------------------------------------------------
(***************************************************************************)
(* The invariant of what was entered in fields: that of the theorem, and   *)
(* that only fields inside one register are remembered.                    *)
(***************************************************************************)
Entries == /\ DOMAIN entered = Inputs
           /\ \A i \in Inputs : entered[i] # Nothing => InRegister(i)
           /\ EarlierEditsStand

LEMMA InRegisterFits ==
  ASSUME page \in Pages, NEW i \in Inputs, InRegister(i)
  PROVE  /\ FitsWord(page[i].bits) /\ IsField(i) /\ OneRegister(i)
         /\ page[i].encoding.type = "integer"
BY PageFacts DEF InRegister, FitsWord

(***************************************************************************)
(* Registers written: an entry stands when it is about the field that is   *)
(* set, about other registers, or about bits beside those.                 *)
(***************************************************************************)
Stands(i, mb, entry) ==
    Field(mb[page[i].low], page[i].bits) = entry.value % Power(2, page[i].bits[2] - page[i].bits[1] + 1)

LEMMA EntriesAfterWrite ==
  ASSUME IInv, Entries, page' = page, NEW u \in Units, NEW new,
         \A x \in Units : devices'[x].mb_values = IF x = u THEN new ELSE devices[x].mb_values,
         NEW after, DOMAIN after = Inputs, entered' = after,
         \A i \in Inputs : after[i] # Nothing =>
            InRegister(i) /\ IF page[i].unit = u THEN Stands(i, new, after[i]) ELSE after[i] = entered[i]
  PROVE  Entries'
<1>1. page \in Pages
  BY DEF IInv, PageType
<1>2. ASSUME NEW i \in Inputs, after[i] # Nothing
      PROVE  InRegister(i) /\ Stands(i, devices'[page[i].unit].mb_values, after[i])
  <2>1. page[i].unit \in Units
    BY <1>1, PageFacts
  <2>2. CASE page[i].unit = u
    BY <1>2, <2>1, <2>2
  <2>3. CASE page[i].unit # u
    <3>1. after[i] = entered[i] /\ devices'[page[i].unit].mb_values = devices[page[i].unit].mb_values
      BY <1>2, <2>1, <2>3
    <3>2. Stands(i, devices[page[i].unit].mb_values, entered[i])
      BY <1>2, <3>1 DEF Entries, EarlierEditsStand, Stands
    <3> QED BY <1>2, <3>1, <3>2
  <2> QED BY <2>2, <2>3
<1>3. Inputs' = Inputs /\ DOMAIN entered' = Inputs'
  BY DEF Inputs
<1>4. EarlierEditsStand'
  BY <1>2, <1>3 DEF EarlierEditsStand, Stands
<1>5. \A i \in Inputs' : entered'[i] # Nothing => InRegister(i)'
  BY <1>2, <1>3 DEF InRegister, IsField, OneRegister
<1> QED BY <1>3, <1>4, <1>5 DEF Entries

LEMMA EntriesUnchanged ==
  ASSUME Entries, UNCHANGED <<page, devices, entered>>
  PROVE  Entries'
BY DEF Entries, EarlierEditsStand, InRegister, IsField, OneRegister, Inputs

LEMMA StepEntries == IInv /\ Entries /\ [Next]_vars => Entries'
<1> SUFFICES ASSUME IInv, Entries, [Next]_vars PROVE Entries'
  OBVIOUS
<1>0. /\ PageType /\ EditedIsText /\ page \in Pages
      /\ Inputs = 1 .. Len(page) /\ Len(page) \in Nat
  BY PageFacts DEF IInv, PageType
<1>1. ASSUME NEW a \in Registers, NEW n \in 1 .. 2, NEW w \in [1 .. 2 -> Words],
             Message(a, SubSeq(w, 1, n))
      PROVE  Entries'
  <2>1. PICK regs \in Seq(WordType) : regs = SubSeq(w, 1, n)
    BY MessageType
  <2>2. a \in Nat /\ "unit" \in Units
    BY PageAssumption DEF Registers, Units
  <2> DEFINE old == devices["unit"].mb_values
             new == Patched(old, a, regs)
             after == [i \in Inputs |->
                          IF page[i].unit = "unit" /\ page[i].low \in a .. a + Len(regs) - 1
                          THEN Nothing ELSE entered[i]]
  <2>3. /\ page' = page /\ entered' = after
        /\ devices' = [devices EXCEPT !["unit"] =
                          [devices["unit"] EXCEPT !.mb_values = Patched(@, a, regs)]]
    BY <1>1, <2>1 DEF Message
  <2>4. \A x \in Units : devices'[x].mb_values = IF x = "unit" THEN new ELSE devices[x].mb_values
    BY <2>1, <2>2, <2>3, WriteKeeps
  <2>5. ASSUME NEW i \in Inputs, after[i] # Nothing
        PROVE  /\ InRegister(i) /\ after[i] = entered[i]
               /\ page[i].unit = "unit" => Stands(i, new, after[i])
    <3>1. /\ after[i] = entered[i]
          /\ page[i].unit = "unit" => page[i].low \notin a .. a + Len(regs) - 1
      BY <2>5
    <3>2. InRegister(i) /\ Stands(i, devices[page[i].unit].mb_values, entered[i])
      BY <2>5, <3>1 DEF Entries, EarlierEditsStand, Stands
    <3>3. page[i].low \in Registers
      BY <1>0, PageFacts
    <3>4. page[i].unit = "unit" => new[page[i].low] = old[page[i].low]
      BY <3>1, <3>3 DEF Patched
    <3> QED BY <3>1, <3>2, <3>4 DEF Stands
  <2>6. DOMAIN after = Inputs
    OBVIOUS
  <2> HIDE DEF new, after
  <2> QED BY <2>2, <2>3, <2>4, <2>5, <2>6, EntriesAfterWrite
<1>2. ASSUME NEW i \in Inputs, Focus(i) PROVE Entries'
  BY <1>2, EntriesUnchanged DEF Focus
<1>3. ASSUME NEW text, Type(text) PROVE Entries'
  BY <1>3, EntriesUnchanged DEF Type
<1>4. CASE ChangeEvent /\ Throwing(focused, shown[focused])
  <2>1. UNCHANGED <<page, devices, entered>>
    BY <1>4 DEF ChangeEvent
  <2> QED BY <2>1, EntriesUnchanged
<1>5. CASE ChangeEvent /\ ~Throwing(focused, shown[focused])
  <2>1. PICK j \in Inputs : j = focused
    BY <1>5, EditedInput
  <2>2. PICK text : text = shown[j] /\ IsText(page[j].encoding.type, text) /\ ~Throwing(j, text)
    BY <1>0, <1>5, <2>1 DEF EditedIsText, ChangeEvent
  <2>3. PICK u \in Units, low \in Nat, high \in Nat :
           /\ u = page[j].unit /\ low = page[j].low /\ high = page[j].high /\ low <= high
    BY <1>0, PageFacts
  <2>4. PICK mb \in [Registers -> WordType] : mb = devices[u].mb_values
    BY <1>0 DEF PageType, DeviceType
  <2>5. PICK regs \in Seq(WordType) : regs = Entered(j, text, mb) /\ Len(regs) = high - low + 1
    BY <1>0, <2>2, <2>3, <2>4, EnteredType DEF Count
  <2> DEFINE new == Patched(mb, low, regs)
             after == AfterEntry(j, text)
  <2>6. /\ page' = page /\ entered' = after
        /\ devices' = [devices EXCEPT ![u] =
                          [devices[u] EXCEPT !.mb_values = Patched(@, low, regs)]]
    BY <1>5, <2>1, <2>2, <2>3, <2>4, <2>5, Zenon DEF ChangeEvent
  <2>a. page' = page /\ entered' = after
    BY <2>6
  <2>7. \A x \in Units : devices'[x].mb_values = IF x = u THEN new ELSE devices[x].mb_values
    <3>1. \A x \in Units : devices'[x].mb_values =
             IF x = u THEN Patched(devices[u].mb_values, low, regs) ELSE devices[x].mb_values
      BY <2>6, WriteKeeps, Zenon
    <3> QED BY <2>4, <3>1
  <2>b. DOMAIN after = Inputs
    BY DEF AfterEntry
  <2>8. \A i \in Inputs :
           after[i] = IF i = j /\ InRegister(i) THEN Value(NumberIn(text, 0))
                      ELSE IF i # j /\ Untouched(i, j) THEN entered[i] ELSE Nothing
    BY DEF AfterEntry
  <2>9. \A a \in Registers : new[a] = IF a \in low .. high THEN regs[a - low + 1] ELSE mb[a]
    <3>1. low + Len(regs) - 1 = high
      BY <2>5
    <3>2. new = [a \in Registers |-> IF a \in low .. low + Len(regs) - 1
                                     THEN regs[a - low + 1] ELSE mb[a]]
      BY Zenon DEF Patched
    <3> HIDE DEF new
    <3> QED BY <3>1, <3>2, Zenon
  <2>10. InRegister(j) =>
           /\ low = high /\ FitsWord(page[j].bits) /\ mb[low] \in WordType
           /\ NumberIn(text, 0) \in Int
           /\ new[low] = FieldWord(mb[low], page[j].bits, NumberIn(text, 0))
    <3> SUFFICES ASSUME InRegister(j)
                 PROVE  /\ low = high /\ FitsWord(page[j].bits) /\ mb[low] \in WordType
                        /\ NumberIn(text, 0) \in Int
                        /\ new[low] = FieldWord(mb[low], page[j].bits, NumberIn(text, 0))
      OBVIOUS
    <3>1. /\ low = high /\ FitsWord(page[j].bits) /\ IsField(j) /\ OneRegister(j)
          /\ page[j].encoding.type = "integer" /\ low \in Registers
      BY <1>0, <2>3, InRegisterFits, PageFacts DEF OneRegister
    <3>2. NumberIn(text, 0) \in Int
      <4>1. 0 \in TextOf("integer") /\ TextOf("integer") = Int
        BY DEF TextOf
      <4> QED BY <2>2, <3>1, <4>1, NumberInType
    <3>3. regs = <<FieldWord(mb[low], page[j].bits, NumberIn(text, 0))>>
      BY <2>3, <2>5, <3>1 DEF Entered, IsFloat
    <3>4. new[low] = regs[low - low + 1] /\ low - low + 1 = 1
      BY <2>9, <3>1
    <3> QED BY <3>1, <3>2, <3>3, <3>4
  <2> HIDE DEF new, after
  <2>11. ASSUME NEW i \in Inputs, after[i] # Nothing
         PROVE  InRegister(i) /\ IF page[i].unit = u THEN Stands(i, new, after[i])
                                                     ELSE after[i] = entered[i]
    <3>1. CASE i = j
      <4>1. InRegister(j) /\ after[j].value = NumberIn(text, 0)
        BY <2>8, <2>11, <3>1 DEF Value
      <4>2. Stands(j, new, after[j])
        BY <2>3, <2>10, <4>1, FieldReads DEF Stands
      <4> QED BY <2>3, <3>1, <4>1, <4>2
    <3>2. CASE i # j
      <4>1. Untouched(i, j) /\ after[i] = entered[i] /\ entered[i] # Nothing
        BY <2>8, <2>11, <3>2
      <4>2. InRegister(i) /\ Stands(i, devices[page[i].unit].mb_values, entered[i])
        BY <4>1 DEF Entries, EarlierEditsStand, Stands
      <4>3. FitsWord(page[i].bits) /\ page[i].low \in Registers
        BY <1>0, <4>2, InRegisterFits, PageFacts
      <4>4. CASE page[i].unit # u
        BY <4>1, <4>2, <4>4
      <4>5. CASE page[i].unit = u /\ page[i].low \notin low .. high
        <5>1. new[page[i].low] = mb[page[i].low]
          BY <2>9, <4>3, <4>5
        <5> QED BY <2>4, <4>1, <4>2, <4>5, <5>1 DEF Stands
      <4>6. CASE page[i].unit = u /\ page[i].low \in low .. high
        <5>1. InRegister(j) /\ BitsApart(i, j)
          BY <2>3, <4>1, <4>6 DEF Untouched, AddressesOf
        <5>2. page[i].low = low
          BY <2>3, <2>10, <4>6, <5>1
        <5>3. Field(new[low], page[i].bits) = Field(mb[low], page[i].bits)
          BY <2>10, <4>3, <5>1, FieldBeside DEF BitsApart
        <5> QED BY <2>4, <4>1, <4>2, <4>6, <5>2, <5>3 DEF Stands
      <4> QED BY <4>4, <4>5, <4>6
    <3> QED BY <3>1, <3>2
  <2> QED BY <2>a, <2>b, <2>7, <2>11, EntriesAfterWrite
<1>6. CASE Blur
  BY <1>6, EntriesUnchanged DEF Blur
<1>7. CASE UNCHANGED vars
  BY <1>7, EntriesUnchanged DEF vars
<1> QED BY <1>1, <1>2, <1>3, <1>4, <1>5, <1>6, <1>7 DEF Next

(***************************************************************************)
(* What was entered in a field stands in the page's copy of its register,  *)
(* whatever is entered in the fields beside it (the "change" handler), for *)
(* every page and every text, those that are no number among them.         *)
(***************************************************************************)
THEOREM EntriesStand == Spec => []EarlierEditsStand
<1>1. Init => Entries
  BY DEF Init, Entries, EarlierEditsStand
<1>2. Entries => EarlierEditsStand
  BY DEF Entries
<1> QED BY <1>1, <1>2, StepEntries, SpecIInv, PTL DEF Spec

-----------------------------------------------------------------------------
(***************************************************************************)
(* What an edit sends means what was typed, if there is room for it.       *)
(***************************************************************************)
LEMMA SentMeans ==
  ASSUME page \in Pages, NEW i \in Inputs, NEW mb \in [Registers -> WordType],
         NEW text, IsText(page[i].encoding.type, text), ~Throwing(i, text),
         NEW v, v = NumberIn(text, IF IsFloat(i) /\ HasFloat(i) THEN NaN[Count(i)] ELSE 0)
  PROVE  /\ ~IsField(i) /\ Holds(i, v) => Meaning(Entered(i, text, mb), page[i].encoding) = v
         /\ InRegister(i) /\ v \in 0 .. Power(2, page[i].bits[2] - page[i].bits[1] + 1) - 1 =>
               Field(Entered(i, text, mb)[1], page[i].bits) = v
<1> DEFINE e == page[i].encoding
           count == Count(i)
<1>1. e \in EncodingType /\ count \in Nat /\ e.type \in {"integer", "float", "string"}
  BY PageFacts DEF EncodingType, Count
<1>2. ASSUME Holds(i, v), ~IsField(i)
      PROVE  Meaning(Entered(i, text, mb), e) = v
  <2>1. Entered(i, text, mb) = EditedWords(v, count, e) /\ v \in TextOf(e.type)
    <3>1. CASE IsFloat(i)
      <4>1. HasFloat(i) /\ v = NumberIn(text, NaN[count])
        BY <1>2, <3>1 DEF Holds, IsFloat
      <4>2. NaN[count] \in TextOf(e.type) /\ e.type # "string"
        BY <3>1, <4>1, NaNType DEF IsFloat, TextOf
      <4> QED BY <1>2, <3>1, <4>1, <4>2, NumberInType DEF Entered
    <3>2. CASE ~IsFloat(i)
      <4>1. text # Junk /\ Entered(i, text, mb) = EditedWords(text.value, count, e)
        BY <1>2, <3>2 DEF Throwing, Entered
      <4>2. PICK x \in TextOf(e.type) : text = Value(x)
        BY <4>1 DEF IsText
      <4>3. v = text.value /\ text.value = x
        BY <4>1, <4>2 DEF NumberIn, Value
      <4> QED BY <4>1, <4>2, <4>3
    <3> QED BY <3>1, <3>2
  <2>2. /\ e.type = "integer" => Representable(v, count, e) /\ ~e.byte_le /\ v \in Int
        /\ e.type = "float" => v < Power(Word, count) /\ v \in Nat
        /\ e.type = "string" => /\ Len(v) <= 2 * count /\ e.fill \notin Range(v)
                                /\ v \in Seq(ByteType) /\ EditedWords(v, count, e) = StringWords(v, count, e)
    BY <1>2, <2>1 DEF Holds, TextOf, ByteType, EditedWords
  <2> HIDE DEF e, count
  <2>3. CASE e.type = "string"
    BY <1>1, <2>1, <2>2, <2>3, StringMeans
  <2>4. CASE e.type # "string"
    <3>1. IsNumber(e)
      BY <1>1, <2>2, <2>4 DEF IsNumber
    <3>2. v \in Int /\ (e.type = "float" => 0 <= v /\ v < Power(Word, count))
      BY <1>1, <2>2, <2>4
    <3> QED BY <1>1, <2>1, <2>2, <3>1, <3>2, EditedNumberMeans
  <2> QED BY <2>3, <2>4
<1>3. ASSUME InRegister(i), v \in 0 .. Power(2, page[i].bits[2] - page[i].bits[1] + 1) - 1
      PROVE  Field(Entered(i, text, mb)[1], page[i].bits) = v
  <2>1. /\ FitsWord(page[i].bits) /\ IsField(i) /\ OneRegister(i) /\ ~IsFloat(i)
        /\ mb[page[i].low] \in WordType
    BY <1>3, InRegisterFits, PageFacts DEF IsFloat
  <2>2. v = NumberIn(text, 0)
    BY <2>1
  <2>3. Entered(i, text, mb)[1] = FieldWord(mb[page[i].low], page[i].bits, v)
    BY <2>1, <2>2 DEF Entered
  <2>4. PICK m \in Nat \ {0} : m = Power(2, page[i].bits[2] - page[i].bits[1] + 1)
    BY <2>1, FieldParts DEF FitsWord
  <2>5. v \in 0 .. m - 1
    BY <1>3, <2>4
  <2>6. v % m = v
    <3>1. (0 * m + v) % m = v
      BY <2>5, QuotientLemma
    <3> QED BY <2>5, <3>1
  <2>7. v \in Int
    BY <2>5
  <2> QED BY <2>1, <2>3, <2>4, <2>6, <2>7, FieldReads
<1> QED BY <1>2, <1>3

(***************************************************************************)
(* What an edit sends means what was typed, or NaN or no bits if that is   *)
(* no number (the "change" handler), if the registers or the bits can hold *)
(* it and an integer has the high byte first: for every page, every        *)
(* history of messages and edits, and every text.                          *)
(***************************************************************************)
THEOREM EditsMean == Spec => []EditsMeanWhatIsTyped
<1>1. Init => EditsMeanWhatIsTyped
  BY DEF Init, EditsMeanWhatIsTyped
<1>2. ASSUME IInv, EditsMeanWhatIsTyped, [Next]_vars PROVE EditsMeanWhatIsTyped'
  <2>0. page' = page
    BY <1>2 DEF Next, vars, Message, Focus, Type, ChangeEvent, Blur
  <2>1. CASE sent' = sent
    BY <1>2, <2>0, <2>1 DEF EditsMeanWhatIsTyped, Holds, IsField, OneRegister, InRegister,
                            IsFloat, HasFloat, Count
  <2>2. CASE sent' # sent
    <3>1. ChangeEvent /\ ~Throwing(focused, shown[focused])
      BY <1>2, <2>2 DEF Next, vars, Message, Focus, Type, Blur, ChangeEvent
    <3>2. PICK i \in Inputs : i = focused /\ page \in Pages
      BY <1>2, <3>1, EditedInput
    <3>3. PICK text : text = shown[i] /\ IsText(page[i].encoding.type, text) /\ ~Throwing(i, text)
      BY <1>2, <3>1, <3>2 DEF IInv, EditedIsText, ChangeEvent
    <3>4. PICK mb \in [Registers -> WordType] : mb = devices[page[i].unit].mb_values
      BY <1>2, <3>2, PageFacts DEF IInv, PageType, DeviceType
    <3>5. sent' = [kind |-> "update", from |-> i, typed |-> text, regs |-> Entered(i, text, mb)]
      BY <3>1, <3>2, <3>3, <3>4 DEF ChangeEvent
    <3>6. PICK v : v = NumberIn(text, IF IsFloat(i) /\ HasFloat(i) THEN NaN[Count(i)] ELSE 0)
      OBVIOUS
    <3>7. /\ ~IsField(i) /\ Holds(i, v) => Meaning(Entered(i, text, mb), page[i].encoding) = v
          /\ InRegister(i) /\ v \in 0 .. Power(2, page[i].bits[2] - page[i].bits[1] + 1) - 1 =>
                Field(Entered(i, text, mb)[1], page[i].bits) = v
      BY <3>2, <3>3, <3>4, <3>6, SentMeans
    <3>8. text = Junk => IsFloat(i) \/ (IsField(i) /\ OneRegister(i))
      BY <3>3 DEF Throwing
    <3>9. sent'.from = i /\ sent'.typed = text /\ sent'.regs = Entered(i, text, mb)
      BY <3>5
    <3> QED BY <2>0, <3>6, <3>7, <3>8, <3>9
            DEF EditsMeanWhatIsTyped, Holds, IsField, OneRegister, InRegister, IsFloat, HasFloat, Count
  <2> QED BY <2>1, <2>2
<1> QED BY <1>1, <1>2, SpecIInv, PTL DEF Spec

-----------------------------------------------------------------------------
(***************************************************************************)
(* A refresh shows what the registers of an input mean, unless the input   *)
(* has the focus, is disturbed or is out of range; those keep their text.  *)
(***************************************************************************)
Touched(i, u, low, high) == page[i].unit = u /\ page[i].high >= low /\ page[i].low < high + 1

LEMMA PlaceLemma ==
  ASSUME NEW p, NEW u, NEW d, Holding(d, p, Len(p), u), NEW j \in 1 .. Len(d)
  PROVE  Place(d, d[j].value) = j
<1>1. DOMAIN d = 1 .. Len(d)
  BY DEF Holding
<1>2. \A k \in 1 .. Len(d) : d[k].value = d[j].value => k = j
  BY DEF Holding
<1> QED BY <1>1, <1>2 DEF Place

(***************************************************************************)
(* What a look-up finds before an input is before it in the index.         *)
(***************************************************************************)
LEMMA FoundBefore ==
  ASSUME NEW p \in Seq(InputType), NEW u, NEW d, Holding(d, p, Len(p), u),
         NEW s \in Int, NEW e \in Int
  PROVE  LET found == Overlapping(d, s, e)
         IN  \A n \in DOMAIN found : \A m \in 1 .. n :
                \E j \in 1 .. Place(d, found[n].value) : found[m] = d[j]
<1> DEFINE pos == FindEnd(d, s)
           last == Stop(d, pos, e) - 1
           found == Overlapping(d, s, e)
           E == EntryType(Nat)
<1>1. d \in Seq(E) /\ Searchable(d) /\ Len(d) \in Nat
  BY DEF Holding
<1>2. pos \in 1 .. Len(d) + 1
  BY <1>1, FindEndLemma
<1>3. last \in pos - 1 .. Len(d)
  <2> HIDE DEF pos
  <2>1. Stop(d, pos, e) \in pos .. Len(d) + 1
    BY <1>1, <1>2, StopLemma
  <2> QED BY <1>1, <1>2, <2>1
<1>4. found = Results(d, pos, last, s, e)
  BY DEF Overlapping
<1> HIDE DEF pos, last, found, E
<1>5. found \in Seq(E) /\ Selects(found, d, pos, last, s, e)
  BY <1>1, <1>2, <1>3, <1>4, ResultsLemma
<1>6. DOMAIN found = 1 .. Len(found) /\ Len(found) \in Nat /\ pos .. last \subseteq 1 .. Len(d)
  BY <1>1, <1>2, <1>3, <1>5
<1>7. ASSUME NEW n \in DOMAIN found, NEW m \in 1 .. n
      PROVE  \E j \in 1 .. Place(d, found[n].value) : found[m] = d[j]
  <2>1. CASE m = n
    <3>1. PICK j \in pos .. last : found[n] = d[j]
      BY <1>5, <1>6 DEF Selects
    <3>2. j \in 1 .. Len(d) /\ Place(d, found[n].value) = j
      BY <1>6, <3>1, PlaceLemma
    <3> QED BY <2>1, <3>1, <3>2
  <2>2. CASE m # n
    <3>1. m \in 1 .. Len(found) /\ n \in 1 .. Len(found) /\ m < n
      BY <1>6, <2>2
    <3>2. PICK j1 \in pos .. last, j2 \in pos .. last :
             j1 < j2 /\ found[m] = d[j1] /\ found[n] = d[j2]
      BY <1>5, <3>1 DEF Selects
    <3>3. j1 \in 1 .. Len(d) /\ j2 \in 1 .. Len(d) /\ Place(d, found[n].value) = j2
      BY <1>6, <3>2, PlaceLemma
    <3>4. j1 \in 1 .. j2
      BY <3>2, <3>3
    <3> QED BY <3>2, <3>3, <3>4
  <2> QED BY <2>1, <2>2
<1> QED BY <1>7 DEF found

LEMMA ViewMeans ==
  ASSUME page \in Pages, NEW i \in Inputs, NEW mb \in [Registers -> WordType],
         ~Throws(page[i].encoding), CanShow(i)
  PROVE  View(mb, i) = Means(mb, i)
<1>1. ShownAs(WordsOf(mb, i), page[i].encoding) = Meaning(WordsOf(mb, i), page[i].encoding)
  BY WordsOfType, PageFacts, ShownIsMeaning
<1>2. CASE IsField(i)
  <2>1. PICK b1 \in Nat, b2 \in Nat :
           /\ b1 = page[i].bits[1] /\ b2 = page[i].bits[2] /\ b2 - b1 + 1 \in 1 .. IntBits - 2
    BY <1>2, PageFacts DEF CanShow
  <2>2. PICK n \in Nat \ {0} : n = IntBits
    BY PageAssumption DEF IntBits
  <2>3. PICK width \in 0 .. n - 1 : width = b2 - b1 + 1 /\ width # n - 1
    BY <2>1, <2>2
  <2>4. (0 * n + width) % n = width
    BY QuotientLemma
  <2>5. MaskBits(page[i].bits) = width
    BY <2>1, <2>2, <2>3, <2>4 DEF MaskBits
  <2> QED BY <1>1, <1>2, <2>1, <2>2, <2>3, <2>5 DEF View, Means, Masked, Field
<1>3. CASE ~IsField(i)
  BY <1>1, <1>3 DEF View, Means
<1> QED BY <1>2, <1>3

LEMMA RefreshMeans ==
  ASSUME page \in Pages, NEW u \in Units, NEW dev, dev.value_map = Index(page, u),
         dev.mb_values \in [Registers -> WordType],
         NEW focus, NEW low \in Int, NEW high \in Int, NEW i \in Inputs
  PROVE  LET out == Refreshed(dev, focus, low, high)
         IN  /\ /\ Touched(i, u, low, high) /\ i # focus /\ CanShow(i)
                /\ \A j \in 1 .. Place(Index(page, u), i) :
                      ~Throws(page[Index(page, u)[j].value].encoding)
                => out[i] = Value(Means(dev.mb_values, i))
             /\ ~Touched(i, u, low, high) \/ i = focus => out[i] = shown[i]
<1> DEFINE d == Index(page, u)
           found == Overlapping(d, low, high + 1)
           Before(k) == \A m \in 1 .. k :
                           found[m].value = focus \/ ~Throws(page[found[m].value].encoding)
           fresh == {found[k].value : k \in {n \in DOMAIN found : Before(n)}} \ {focus}
           out == Refreshed(dev, focus, low, high)
<1>1. page \in Seq(InputType) /\ Inputs = 1 .. Len(page) /\ Holding(d, page, Len(page), u)
  BY PageFacts, IndexHolds
<1>2. \A x \in Inputs :
         out[x] = IF x \in fresh /\ HasFloat(x) THEN Value(View(dev.mb_values, x)) ELSE shown[x]
  BY DEF Refreshed
<1>3. /\ DOMAIN found = 1 .. Len(found) /\ Len(found) \in Nat
      /\ {found[k].value : k \in DOMAIN found} =
            {x \in 1 .. Len(page) : page[x].unit = u /\ page[x].high >= low /\ page[x].low < high + 1}
  <2> HIDE DEF d
  <2>1. high + 1 \in Int
    OBVIOUS
  <2>2. Finds(found, page, u, low, high + 1)
    BY <1>1, <2>1, OverlappingLemma
  <2> HIDE DEF found
  <2> QED BY <2>2 DEF Finds
<1>4. \A n \in DOMAIN found : \A m \in 1 .. n :
         \E j \in 1 .. Place(d, found[n].value) : found[m] = d[j]
  <2> HIDE DEF d
  <2>1. PICK e \in Int : e = high + 1
    OBVIOUS
  <2>2. \A n \in DOMAIN Overlapping(d, low, e) : \A m \in 1 .. n :
           \E j \in 1 .. Place(d, Overlapping(d, low, e)[n].value) : Overlapping(d, low, e)[m] = d[j]
    BY <1>1, FoundBefore
  <2> QED BY <2>1, <2>2
<1> HIDE DEF d, found, out
<1>5. ASSUME ~Touched(i, u, low, high) \/ i = focus PROVE out[i] = shown[i]
  <2>1. i \notin fresh
    BY <1>3, <1>5 DEF Touched
  <2> HIDE DEF fresh
  <2> QED BY <1>2, <2>1
<1>6. ASSUME Touched(i, u, low, high), i # focus, CanShow(i),
             \A j \in 1 .. Place(d, i) : ~Throws(page[d[j].value].encoding)
      PROVE  out[i] = Value(Means(dev.mb_values, i))
  <2>1. PICK n \in DOMAIN found : found[n].value = i
    BY <1>1, <1>3, <1>6 DEF Touched
  <2>2. ASSUME NEW m \in 1 .. n PROVE ~Throws(page[found[m].value].encoding)
    BY <1>4, <1>6, <2>1
  <2>3. i \in fresh
    BY <1>6, <2>1, <2>2
  <2> HIDE DEF fresh
  <2>4. out[i] = Value(View(dev.mb_values, i))
    BY <1>2, <1>6, <2>3 DEF CanShow
  <2>5. ~Throws(page[i].encoding)
    <3>1. n \in 1 .. n
      BY <1>3
    <3> QED BY <2>1, <2>2, <3>1
  <2> QED BY <1>6, <2>4, <2>5, ViewMeans
<1> QED BY <1>5, <1>6 DEF d, out

(***************************************************************************)
(* What one input shows, given the registers of its unit.                  *)
(***************************************************************************)
Fine(i, mb, text) ==
    /\ text.kind = "value" => text.value = Means(mb, i)
    /\ (\E a \in AddressesOf(i) : mb[a] # 0) => text.kind = "value"

LEMMA FineWhenShown ==
  ASSUME NEW i, NEW mb PROVE Fine(i, mb, Value(Means(mb, i)))
BY DEF Fine, Value

LEMMA FineWhenUntouched ==
  ASSUME page \in Pages, NEW i \in Inputs, NEW mb, NEW new, NEW text,
         \A a \in AddressesOf(i) : new[a] = mb[a], Fine(i, mb, text)
  PROVE  Fine(i, new, text)
<1>1. PICK low \in Nat, high \in Nat : low = page[i].low /\ high = page[i].high
  BY PageFacts
<1>2. AddressesOf(i) = low .. high
  BY <1>1 DEF AddressesOf
<1>3. ASSUME NEW k \in 1 .. high - low + 1 PROVE new[low + k - 1] = mb[low + k - 1]
  <2>1. low + k - 1 \in low .. high
    OBVIOUS
  <2> QED BY <1>2, <2>1
<1>4. WordsOf(new, i) = WordsOf(mb, i)
  BY <1>1, <1>3 DEF WordsOf, Count
<1>5. Means(new, i) = Means(mb, i)
  BY <1>4 DEF Means
<1> QED BY <1>5 DEF Fine

(***************************************************************************)
(* Registers written and the inputs over them refreshed.                   *)
(***************************************************************************)
Quiet(i) ==
    /\ CanShow(i)
    /\ \A j \in 1 .. Place(Index(page, page[i].unit), i) :
          ~Throws(page[Index(page, page[i].unit)[j].value].encoding)
AllFine == \A i \in Inputs : i # focused /\ Quiet(i) => Fine(i, devices[page[i].unit].mb_values, shown[i])

LEMMA WriteShows ==
  ASSUME IInv, AllFine, NEW u \in Units, NEW start \in Nat, NEW regs \in Seq(WordType),
         NEW high \in Int, high = start + Len(regs) - 1,
         devices' = [devices EXCEPT ![u] =
                        [devices[u] EXCEPT !.mb_values = Patched(@, start, regs)]],
         shown' = Refreshed([devices[u] EXCEPT !.mb_values = Patched(@, start, regs)],
                            focused, start, high),
         page' = page, focused' = focused
  PROVE  AllFine'
<1> DEFINE mb == Patched(devices[u].mb_values, start, regs)
           dev == [devices[u] EXCEPT !.mb_values = mb]
<1>1. /\ page \in Pages /\ devices \in [Units -> DeviceType] /\ Indexed
  BY DEF IInv, PageType
<1>2. devices[u] \in DeviceType /\ devices[u].mb_values \in [Registers -> WordType]
  BY <1>1 DEF DeviceType
<1>3. mb \in [Registers -> WordType]
  BY <1>2, PatchedType
<1>4. dev.value_map = Index(page, u) /\ dev.mb_values = mb
  <2>1. \A x \in DeviceType : /\ [x EXCEPT !.mb_values = mb].value_map = x.value_map
                              /\ [x EXCEPT !.mb_values = mb].mb_values = mb
    BY DEF DeviceType
  <2>2. devices[u].value_map = Index(page, u)
    BY <1>1 DEF Indexed
  <2> QED BY <1>2, <2>1, <2>2
<1>5. devices' = [devices EXCEPT ![u] = dev] /\ shown' = Refreshed(dev, focused, start, high)
  OBVIOUS
<1>6. \A x \in Units : devices'[x].mb_values = IF x = u THEN mb ELSE devices[x].mb_values
  <2> HIDE DEF dev
  <2> QED BY <1>1, <1>4, <1>5
<1>7. \A a \in Registers : a \notin start .. high => mb[a] = devices[u].mb_values[a]
  BY DEF Patched
<1> HIDE DEF mb, dev
<1> SUFFICES ASSUME NEW i \in Inputs, i # focused, Quiet(i)
             PROVE  Fine(i, devices'[page[i].unit].mb_values, shown'[i])
  <2> SUFFICES ASSUME NEW i \in Inputs', i # focused', Quiet(i)'
               PROVE  Fine(i, devices[page[i].unit].mb_values, shown[i])'
    BY DEF AllFine
  <2>1. i \in Inputs /\ i # focused
    BY DEF Inputs
  <2>2. Quiet(i)
    BY DEF Quiet, CanShow, HasFloat, IsFloat, Count, IsField
  <2>3. Fine(i, devices'[page[i].unit].mb_values, shown'[i])
    BY <2>1, <2>2
  <2>4. WordsOf(devices[page[i].unit].mb_values, i)' =
          WordsOf(devices'[page[i].unit].mb_values, i)
    BY DEF WordsOf, Count
  <2>5. AddressesOf(i)' = AddressesOf(i) /\ IsField(i)' = IsField(i)
    BY DEF AddressesOf, IsField
  <2>6. Means(devices[page[i].unit].mb_values, i)' = Means(devices'[page[i].unit].mb_values, i)
    BY <2>4, <2>5 DEF Means
  <2> QED BY <2>3, <2>5, <2>6 DEF Fine
<1>8. page[i].unit \in Units
  BY <1>1, PageFacts
<1>9. CASE Touched(i, u, start, high)
  <2>1. page[i].unit = u
    BY <1>9 DEF Touched
  <2>2. shown'[i] = Value(Means(mb, i))
    BY <1>1, <1>3, <1>4, <1>5, <1>9, <2>1, RefreshMeans DEF Quiet
  <2> QED BY <1>6, <2>1, <2>2, FineWhenShown
<1>10. CASE ~Touched(i, u, start, high)
  <2>1. shown'[i] = shown[i]
    BY <1>1, <1>3, <1>4, <1>5, <1>10, RefreshMeans
  <2>2. Fine(i, devices[page[i].unit].mb_values, shown[i])
    BY DEF AllFine
  <2>3. ASSUME NEW a \in AddressesOf(i)
        PROVE  devices'[page[i].unit].mb_values[a] = devices[page[i].unit].mb_values[a]
    <3>1. CASE page[i].unit = u
      <4>1. a \in Registers /\ a \notin start .. high
        <5>0. page[i].low \in Nat /\ page[i].high \in Registers /\ MaxAddress \in Nat
          BY <1>1, PageFacts, PageAssumption
        <5>1. PICK l \in Nat, h \in Nat : l = page[i].low /\ h = page[i].high /\ h <= MaxAddress
          BY <5>0 DEF Registers
        <5>2. ~(h >= start /\ l < high + 1)
          BY <1>10, <3>1, <5>1 DEF Touched
        <5>3. a \in l .. h
          BY <5>1 DEF AddressesOf
        <5>4. MaxAddress \in Nat
          BY PageAssumption
        <5>5. a \in Registers
          BY <5>1, <5>3, <5>4 DEF Registers
        <5>6. a \notin start .. high
          BY <5>2, <5>3
        <5> QED BY <5>5, <5>6
      <4> QED BY <1>6, <1>7, <1>8, <3>1, <4>1
    <3>2. CASE page[i].unit # u
      BY <1>6, <1>8, <3>2
    <3> QED BY <3>1, <3>2
  <2> QED BY <1>1, <2>1, <2>2, <2>3, FineWhenUntouched
<1> QED BY <1>9, <1>10

LEMMA InitAllFine == Init => AllFine
<1> SUFFICES ASSUME Init, NEW i \in Inputs
             PROVE  Fine(i, devices[page[i].unit].mb_values, shown[i])
  BY DEF AllFine
<1>1. page \in Pages /\ page[i].unit \in Units
  BY PageFacts DEF Init
<1>2. devices[page[i].unit].mb_values = [a \in Registers |-> 0] /\ shown[i] = Nothing
  BY <1>1 DEF Init, NewDevice
<1>3. \A a \in AddressesOf(i) : a \in Registers
  <2>1. PICK l \in Nat, h \in Nat : l = page[i].low /\ h = page[i].high /\ h <= MaxAddress
    BY <1>1, PageFacts, PageAssumption DEF Registers
  <2>2. MaxAddress \in Nat
    BY PageAssumption
  <2> QED BY <2>1, <2>2 DEF AddressesOf, Registers
<1> QED BY <1>2, <1>3 DEF Fine, Nothing

LEMMA StepAllFine == IInv /\ AllFine /\ [Next]_vars => AllFine'
<1> SUFFICES ASSUME IInv, AllFine, [Next]_vars PROVE AllFine'
  OBVIOUS
<1>0. /\ PageType /\ Indexed /\ EditedIsText
      /\ page \in Pages /\ Inputs = 1 .. Len(page) /\ Len(page) \in Nat
      /\ focused # 0 => focused \in Inputs
  BY PageFacts DEF IInv, PageType
<1>a. ASSUME page' = page, devices' = devices,
             \A i \in Inputs : i # focused' /\ Quiet(i) =>
                Fine(i, devices[page[i].unit].mb_values, shown'[i])
      PROVE  AllFine'
  BY <1>a DEF AllFine, Quiet, CanShow, HasFloat, IsFloat, Fine, Means, AddressesOf, WordsOf, Count,
              IsField, Inputs
<1>1. ASSUME NEW a \in Registers, NEW n \in 1 .. 2, NEW w \in [1 .. 2 -> Words],
             Message(a, SubSeq(w, 1, n))
      PROVE  AllFine'
  <2>1. PICK regs \in Seq(WordType) : regs = SubSeq(w, 1, n)
    BY MessageType
  <2>2. a \in Nat /\ "unit" \in Units
    BY PageAssumption DEF Registers, Units
  <2>3. PICK high \in Int : high = a + Len(regs) - 1
    BY <2>1, <2>2
  <2>4. /\ page' = page /\ focused' = focused
        /\ devices' = [devices EXCEPT !["unit"] =
                          [devices["unit"] EXCEPT !.mb_values = Patched(@, a, regs)]]
        /\ shown' = Refreshed([devices["unit"] EXCEPT !.mb_values = Patched(@, a, regs)],
                              focused, a, high)
    BY <1>1, <2>1, <2>3, Zenon DEF Message
  <2> QED BY <2>1, <2>2, <2>3, <2>4, WriteShows
<1>2. ASSUME NEW i \in Inputs, Focus(i)
      PROVE  AllFine'
  <2>1. focused = 0 /\ UNCHANGED <<page, devices, shown>>
    BY <1>2 DEF Focus
  <2>2. \A x \in Inputs : x # focused
    BY <1>0, <2>1
  <2> QED BY <1>a, <2>1, <2>2 DEF AllFine
<1>3. ASSUME NEW text, Type(text)
      PROVE  AllFine'
  <2>1. shown' = [shown EXCEPT ![focused] = text] /\ UNCHANGED <<page, devices, focused>>
    BY <1>3 DEF Type
  <2>2. \A x \in Inputs : x # focused => shown'[x] = shown[x]
    BY <1>0, <2>1 DEF PageType
  <2> QED BY <1>a, <2>1, <2>2 DEF AllFine
<1>4. CASE ChangeEvent
  <2>1. /\ focused \in Inputs /\ edited /\ page' = page /\ focused' = focused
    BY <1>0, <1>4 DEF ChangeEvent
  <2>3. CASE Throwing(focused, shown[focused])
    <3>1. UNCHANGED <<devices, shown>>
      BY <1>4, <2>3 DEF ChangeEvent
    <3> QED BY <1>a, <2>1, <3>1 DEF AllFine
  <2>4. CASE ~Throwing(focused, shown[focused])
    <3>1. PICK text : text = shown[focused] /\ IsText(page[focused].encoding.type, text)
      BY <1>0, <2>1 DEF EditedIsText
    <3>2. PICK u \in Units, low \in Nat, high \in Int :
             u = page[focused].unit /\ low = page[focused].low /\ high = page[focused].high
      BY <1>0, <2>1, PageFacts
    <3>3. PICK mb \in [Registers -> WordType] : mb = devices[u].mb_values
      BY <1>0 DEF PageType, DeviceType
    <3>4. PICK regs \in Seq(WordType) :
             regs = Entered(focused, text, mb) /\ Len(regs) = high - low + 1
      BY <1>0, <2>1, <2>4, <3>1, <3>2, EnteredType DEF Count
    <3>5. high = low + Len(regs) - 1
      BY <3>4
    <3>7. /\ devices' = [devices EXCEPT ![u] =
                            [devices[u] EXCEPT !.mb_values = Patched(@, low, regs)]]
          /\ shown' = Refreshed([devices[u] EXCEPT !.mb_values = Patched(@, low, regs)],
                                focused, low, high)
      BY <1>4, <2>4, <3>1, <3>2, <3>3, <3>4, Zenon DEF ChangeEvent
    <3> QED BY <2>1, <3>5, <3>7, WriteShows
  <2> QED BY <2>3, <2>4
<1>5. CASE Blur
  <2>1. /\ focused \in Inputs /\ focused' = 0 /\ UNCHANGED <<page, devices>>
        /\ shown' = Refreshed(devices[page[focused].unit], 0,
                              page[focused].low, page[focused].high)
    BY <1>0, <1>5 DEF Blur
  <2>2. PICK u \in Units, low \in Int, high \in Int, dev \in DeviceType :
           /\ u = page[focused].unit /\ low = page[focused].low /\ high = page[focused].high
           /\ low <= high /\ dev = devices[u]
    BY <1>0, <2>1, PageFacts DEF PageType
  <2>3. dev.value_map = Index(page, u) /\ dev.mb_values \in [Registers -> WordType]
    BY <1>0, <2>2 DEF PageType, DeviceType, Indexed
  <2>4. shown' = Refreshed(dev, 0, low, high)
    BY <2>1, <2>2
  <2>5. ASSUME NEW i \in Inputs, Quiet(i)
        PROVE  Fine(i, devices[page[i].unit].mb_values, shown'[i])
    <3>0. i # 0
      BY <1>0
    <3>1. CASE Touched(i, u, low, high)
      <4>1. page[i].unit = u
        BY <3>1 DEF Touched
      <4>2. shown'[i] = Value(Means(dev.mb_values, i))
        BY <1>0, <2>3, <2>4, <2>5, <3>0, <3>1, <4>1, RefreshMeans DEF Quiet
      <4> QED BY <2>2, <4>1, <4>2, FineWhenShown
    <3>2. CASE ~Touched(i, u, low, high)
      <4>1. i # focused
        BY <2>1, <2>2, <3>2, PageFacts, <1>0 DEF Touched
      <4>2. shown'[i] = shown[i]
        BY <1>0, <2>3, <2>4, <3>2, RefreshMeans
      <4> QED BY <2>5, <4>1, <4>2 DEF AllFine
    <3> QED BY <3>1, <3>2
  <2> QED BY <1>a, <2>1, <2>5
<1>6. CASE UNCHANGED vars
  BY <1>a, <1>6 DEF vars, AllFine
<1> QED BY <1>1, <1>2, <1>3, <1>4, <1>5, <1>6 DEF Next

(***************************************************************************)
(* An input shows what the page holds for its registers (update_range):    *)
(* for every page, whatever comes and is typed, unless it has the focus,   *)
(* the loop over the inputs throws before it, or it is a float of a        *)
(* strange length or a field too wide for the mask.                        *)
(***************************************************************************)
THEOREM InputsShowTheRegisters == Spec => []ShowsWhatItHolds
<1>1. ASSUME IInv, AllFine PROVE ShowsWhatItHolds
  <2> SUFFICES ASSUME NEW i \in Inputs, i # focused, CanShow(i), ~Disturbed(i)
               PROVE  Fine(i, devices[page[i].unit].mb_values, shown[i])
    BY DEF ShowsWhatItHolds, Fine
  <2>1. page[i].unit \in Units
    BY <1>1, PageFacts DEF IInv, PageType
  <2>2. devices[page[i].unit].value_map = Index(page, page[i].unit)
    BY <1>1, <2>1 DEF IInv, Indexed
  <2>3. Quiet(i)
    BY <2>2 DEF Quiet, Disturbed
  <2> QED BY <1>1, <2>3 DEF AllFine
<1> QED BY <1>1, InitAllFine, StepAllFine, SpecIInv, PTL DEF Spec
=============================================================================

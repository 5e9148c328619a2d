----------------------------- MODULE DataProofs ------------------------------
(***************************************************************************)
(* The data several components share, for every width of addresses.        *)
(*                                                                         *)
(*   1. Sets of numbers: the least one, induction, iteration.              *)
(*   2. RangeArray::union, for every sorted vector and every range, one    *)
(*      upside down (start > end) included, which covers nothing: a sorted *)
(*      vector that covers and touches what both covered and touched.      *)
(*   3. Addresses modulo Size, powers, numbers written in parts.           *)
(*   4. Registers: sums of digits, the order of bytes and words, strings.  *)
(*   5. register_value::parse: which values it accepts, and that the words *)
(*      it makes mean what was given, in every encoding.                   *)
(***************************************************************************)
EXTENDS RangeArray, RegisterValue, SequenceTheorems, WellFoundedInduction, TLAPS

LEMMA LeastExists ==
  ASSUME NEW S, S \subseteq Nat, S # {}
  PROVE  \E x \in S : \A y \in S : x <= y
<1> DEFINE R == OpToRel(<, Nat)
<1>1. IsWellFoundedOn(R, Nat)
  BY NatLessThanWellFounded
<1>2. \A i, j \in Nat : i < j => <<i, j>> \in R
  BY DEF OpToRel
<1> HIDE DEF R
<1>3. PICK x \in S : \A y \in S : ~ (<<y, x>> \in R)
  BY <1>1, WFMin
<1>4. \A y \in S : ~ (y < x)
  BY <1>2, <1>3
<1> QED BY <1>4

(***************************************************************************)
(* Induction over the naturals, for a set.                                 *)
(***************************************************************************)
LEMMA InductiveSet ==
  ASSUME NEW P, 0 \in P, \A n \in Nat : n \in P => n + 1 \in P
  PROVE  Nat \subseteq P
<1> DEFINE missing == {n \in Nat : n \notin P}
<1>1. SUFFICES ASSUME missing # {} PROVE FALSE
  OBVIOUS
<1>2. PICK m \in missing : \A n \in missing : m <= n
  BY <1>1, LeastExists
<1>3. m # 0 /\ m \in Nat
  OBVIOUS
<1>4. m - 1 \in Nat /\ m - 1 \notin missing
  BY <1>2, <1>3
<1> QED BY <1>3, <1>4

(***************************************************************************)
(* A step for each number, taken again and again from a first value.       *)
(***************************************************************************)
Stepping(step, S) == step \in [Nat -> [S -> S]]
Iterated(f, S, base, step) ==
    /\ f \in [Nat -> S] /\ f[0] = base
    /\ \A n \in Nat : f[n + 1] = step[n][f[n]]

LEMMA Iterates ==
  ASSUME NEW S, NEW base, base \in S, NEW step, Stepping(step, S)
  PROVE  \E f : Iterated(f, S, base, step)
<1> USE DEF Stepping
<1> DEFINE Start(f, n) == f[0] = base /\ \A k \in 0 .. n - 1 : f[k + 1] = step[k][f[k]]
           P == {n \in Nat : \E f \in [0 .. n -> S] : Start(f, n)}
<1>1. 0 \in P
  <2> DEFINE f == [k \in 0 .. 0 |-> base]
  <2>1. f \in [0 .. 0 -> S] /\ Start(f, 0)
    OBVIOUS
  <2> QED BY <2>1
<1>2. ASSUME NEW n \in Nat, n \in P
      PROVE  n + 1 \in P
  <2>1. PICK f \in [0 .. n -> S] : Start(f, n)
    BY <1>2
  <2> DEFINE g == [k \in 0 .. n + 1 |-> IF k <= n THEN f[k] ELSE step[n][f[n]]]
  <2>2. g \in [0 .. n + 1 -> S]
    OBVIOUS
  <2>3. Start(g, n + 1)
    BY <2>1
  <2> HIDE DEF g, Start
  <2> QED BY <2>2, <2>3
<1>3. Nat \subseteq P
  BY <1>1, <1>2, InductiveSet
<1>4. ASSUME NEW n \in Nat, NEW m \in Nat, NEW f, NEW g, Start(f, n), Start(g, m)
      PROVE  \A k \in 0 .. n : k <= m => f[k] = g[k]
  <2> DEFINE Q == {k \in Nat : k <= n /\ k <= m => f[k] = g[k]}
  <2>1. 0 \in Q
    BY <1>4
  <2>2. \A k \in Nat : k \in Q => k + 1 \in Q
    <3> SUFFICES ASSUME NEW k \in Nat, k \in Q, k + 1 <= n, k + 1 <= m
                 PROVE  f[k + 1] = g[k + 1]
      OBVIOUS
    <3>1. f[k] = g[k] /\ k \in 0 .. n - 1 /\ k \in 0 .. m - 1
      OBVIOUS
    <3> QED BY <1>4, <3>1
  <2> HIDE DEF Q
  <2>3. Nat \subseteq Q
    BY <2>1, <2>2, InductiveSet
  <2> QED BY <2>3 DEF Q
<1> DEFINE Part(n) == CHOOSE f \in [0 .. n -> S] : Start(f, n)
           F == [n \in Nat |-> Part(n)[n]]
<1>5. \A n \in Nat : Part(n) \in [0 .. n -> S] /\ Start(Part(n), n)
  BY <1>3
<1> HIDE DEF Part, P
<1>6. F \in [Nat -> S]
  BY <1>5
<1>7. F[0] = base
  BY <1>5
<1>8. ASSUME NEW n \in Nat
      PROVE  F[n + 1] = step[n][F[n]]
  <2>1. Start(Part(n), n) /\ Start(Part(n + 1), n + 1)
    BY <1>5
  <2> DEFINE f == Part(n)
             g == Part(n + 1)
  <2> HIDE DEF f, g, Start
  <2>2. f[n] = g[n]
    BY <1>4, <2>1 DEF f, g
  <2>3. g[n + 1] = step[n][g[n]]
    BY <2>1 DEF Start, g
  <2>4. F[n] = f[n] /\ F[n + 1] = g[n + 1]
    BY DEF f, g
  <2> QED BY <2>2, <2>3, <2>4
<1> HIDE DEF F
<1> QED BY <1>6, <1>7, <1>8 DEF Iterated

(***************************************************************************)
(* Replacing the elements after p up to q of a sequence by one element.    *)
(***************************************************************************)
LEMMA ConcatThree ==
  ASSUME NEW S, NEW a \in Seq(S), NEW b \in Seq(S), NEW x \in S
  PROVE  /\ a \o <<x>> \o b \in Seq(S)
         /\ Len(a \o <<x>> \o b) = Len(a) + 1 + Len(b)
         /\ \A i \in 1 .. Len(a) : (a \o <<x>> \o b)[i] = a[i]
         /\ (a \o <<x>> \o b)[Len(a) + 1] = x
         /\ \A i \in 1 .. Len(b) : (a \o <<x>> \o b)[Len(a) + 1 + i] = b[i]
<1> DEFINE front == a \o <<x>>
<1>1. /\ front \in Seq(S) /\ Len(front) = Len(a) + 1
      /\ \A i \in 1 .. Len(a) : front[i] = a[i]
      /\ front[Len(a) + 1] = x
  OBVIOUS
<1> HIDE DEF front
<1>2. /\ front \o b \in Seq(S) /\ Len(front \o b) = Len(front) + Len(b)
      /\ \A i \in 1 .. Len(front) : (front \o b)[i] = front[i]
      /\ \A i \in 1 .. Len(b) : (front \o b)[Len(front) + i] = b[i]
  BY <1>1
<1>3. Len(a) \in Nat /\ Len(b) \in Nat
  OBVIOUS
<1>4. \A i \in 1 .. Len(a) : (front \o b)[i] = a[i]
  BY <1>1, <1>2, <1>3
<1>5. (front \o b)[Len(a) + 1] = x
  BY <1>1, <1>2, <1>3
<1> QED BY <1>1, <1>2, <1>3, <1>4, <1>5 DEF front

Splice(s, p, x, q) == SubSeq(s, 1, p) \o <<x>> \o SubSeq(s, q + 1, Len(s))

(***************************************************************************)
(* Ranges are ordered when any two have a gap between them and start in    *)
(* the order of the vector.  With d = 1 a range stands for the addresses   *)
(* it covers, with d = 0 for the marks it touches, its end included.       *)
(***************************************************************************)
Ordered(arr) ==
    \A i, j \in DOMAIN arr :
        i < j => arr[i].start < arr[j].start /\ arr[i].end < arr[j].start
Proper(arr) == \A i \in DOMAIN arr : arr[i].start <= arr[i].end
EndsIn(arr, S) == \A i \in DOMAIN arr : arr[i].start \in S /\ arr[i].end \in S

Reach(r, d) == r.start .. r.end - d
Reached(arr, d) == UNION {Reach(arr[i], d) : i \in DOMAIN arr}

LEMMA SpliceLemma ==
  ASSUME NEW s \in Seq(SpanType), NEW p \in 0 .. Len(s), NEW q \in p .. Len(s),
         NEW x \in SpanType
  PROVE  /\ Splice(s, p, x, q) \in Seq(SpanType)
         /\ Len(Splice(s, p, x, q)) = p + 1 + Len(s) - q
         /\ \A i \in 1 .. p : Splice(s, p, x, q)[i] = s[i]
         /\ Splice(s, p, x, q)[p + 1] = x
         /\ \A i \in 1 .. Len(s) - q : Splice(s, p, x, q)[p + 1 + i] = s[q + i]
<1> DEFINE head == SubSeq(s, 1, p)
           tail == SubSeq(s, q + 1, Len(s))
<1>0. Len(s) \in Nat /\ p \in Nat /\ q \in Nat /\ p <= q /\ q <= Len(s)
  OBVIOUS
<1>1. /\ head \in Seq(SpanType) /\ Len(head) = p
      /\ \A i \in 1 .. p : head[i] = s[i]
  OBVIOUS
<1>2. /\ tail \in Seq(SpanType) /\ Len(tail) = Len(s) - q
      /\ \A i \in 1 .. Len(s) - q : tail[i] = s[q + i]
  OBVIOUS
<1> HIDE DEF head, tail
<1>3. head \in Seq(SpanType) /\ tail \in Seq(SpanType)
  BY <1>1, <1>2
<1> DEFINE out == head \o <<x>> \o tail
<1>4. /\ out \in Seq(SpanType) /\ Len(out) = Len(head) + 1 + Len(tail)
      /\ \A i \in 1 .. Len(head) : out[i] = head[i]
      /\ out[Len(head) + 1] = x
      /\ \A i \in 1 .. Len(tail) : out[Len(head) + 1 + i] = tail[i]
  BY ONLY <1>3, x \in SpanType, ConcatThree
<1> HIDE DEF out
<1>5. /\ out \in Seq(SpanType) /\ Len(out) = p + 1 + Len(s) - q
      /\ \A i \in 1 .. p : out[i] = s[i]
      /\ out[p + 1] = x
      /\ \A i \in 1 .. Len(s) - q : out[p + 1 + i] = s[q + i]
  BY <1>0, <1>1, <1>2, <1>4
<1> QED BY <1>5 DEF out, head, tail, Splice

LEMMA SpanFields == \A r \in SpanType : r.start \in Int /\ r.end \in Int
BY DEF SpanType

LEMMA SpanLemma ==
  ASSUME NEW s \in Int, NEW e \in Int
  PROVE  Span(s, e) \in SpanType /\ Span(s, e).start = s /\ Span(s, e).end = e
BY DEF SpanType, Span

(***************************************************************************)
(* binary_search_by finds its partition point in a sorted vector.          *)
(***************************************************************************)
LEMMA StartsBeforeLemma ==
  ASSUME NEW arr, arr \in Seq(SpanType), Ordered(arr), NEW s \in Int
  PROVE  /\ StartsBefore(arr, s) \in 0 .. Len(arr)
         /\ \A i \in 1 .. StartsBefore(arr, s) : arr[i].start < s
         /\ \A i \in StartsBefore(arr, s) + 1 .. Len(arr) : s <= arr[i].start
<1> DEFINE Partition(p) == /\ \A i \in 1 .. p : arr[i].start < s
                           /\ \A i \in p + 1 .. Len(arr) : s <= arr[i].start
           late == {i \in 1 .. Len(arr) : s <= arr[i].start}
<1>0. Len(arr) \in Nat /\ DOMAIN arr = 1 .. Len(arr)
      /\ \A i \in 1 .. Len(arr) : arr[i].start \in Int /\ arr[i].end \in Int
  BY SpanFields
<1>1. \E p \in 0 .. Len(arr) : Partition(p)
  <2>1. CASE late = {}
    <3>1. Partition(Len(arr))
      BY <1>0, <2>1
    <3>2. Len(arr) \in 0 .. Len(arr)
      BY <1>0
    <3> QED BY <3>1, <3>2
  <2>2. CASE late # {}
    <3>0. late \subseteq Nat
      BY <1>0
    <3>1. PICK f \in late : \A i \in late : f <= i
      BY <3>0, <2>2, LeastExists
    <3>2. f - 1 \in 0 .. Len(arr)
      BY <1>0, <3>1
    <3>3. \A i \in 1 .. f - 1 : arr[i].start < s
      BY <1>0, <3>1
    <3>4. ASSUME NEW i \in f + 1 .. Len(arr)
          PROVE  s <= arr[i].start
      <4>1. f \in 1 .. Len(arr) /\ s <= arr[f].start
        BY <3>1
      <4>2. i \in 1 .. Len(arr) /\ f < i
        BY <1>0, <4>1
      <4>3. arr[f].start < arr[i].start
        BY <1>0, <4>1, <4>2 DEF Ordered
      <4> QED BY <1>0, <4>1, <4>2, <4>3
    <3>5. \A i \in f .. Len(arr) : s <= arr[i].start
      BY <1>0, <3>1, <3>4
    <3>6. Partition(f - 1)
      BY <1>0, <3>1, <3>3, <3>5
    <3> QED BY <3>2, <3>6
  <2> QED BY <2>1, <2>2
<1> QED BY <1>1 DEF StartsBefore

(***************************************************************************)
(* The vector after r was placed and before the ranges it reaches are      *)
(* merged: sorted on start, and with gaps except behind position k.        *)
(***************************************************************************)
PlacedAt(arr, k) ==
    /\ arr \in Seq(SpanType)
    /\ k \in 1 .. Len(arr)
    /\ \A i, j \in 1 .. Len(arr) :
          i < j => arr[i].start < arr[j].start /\ (i # k => arr[i].end < arr[j].start)

(***************************************************************************)
(* A range [s, t) that starts inside [a, b], or where it starts, joined to *)
(* it.                                                                     *)
(***************************************************************************)
Meets(a, b, s, t, f) ==
    /\ a <= s /\ (s <= b \/ s = a)
    /\ b <= f /\ t <= f /\ (f = b \/ f = t)

Joined(a, b, s, t, f, d) == a .. f - d = (a .. b - d) \cup (s .. t - d)

LEMMA JoinLemma ==
  ASSUME NEW a \in Int, NEW b \in Int, NEW s \in Int, NEW t \in Int, NEW f \in Int,
         Meets(a, b, s, t, f), NEW d \in Int, d = 0 \/ d = 1
  PROVE  Joined(a, b, s, t, f, d)
<1>1. ASSUME NEW x \in Int
      PROVE  x \in a .. f - d <=> x \in a .. b - d \/ x \in s .. t - d
  BY DEF Meets
<1>2. a .. f - d \subseteq Int /\ a .. b - d \subseteq Int /\ s .. t - d \subseteq Int
  OBVIOUS
<1> QED BY <1>1, <1>2, Zenon DEF Joined

LEMMA SlotLemma ==
  ASSUME NEW arr, arr \in Seq(SpanType), Ordered(arr), NEW r \in SpanType
  PROVE  /\ PlacedAt(Placed(arr, r), Slot(arr, r))
         /\ Proper(arr) /\ r.start <= r.end => Proper(Placed(arr, r))
         /\ \A S : EndsIn(arr, S) /\ r.start \in S /\ r.end \in S => EndsIn(Placed(arr, r), S)
         /\ \A d \in {0, 1} : Reached(Placed(arr, r), d) = Reached(arr, d) \cup Reach(r, d)
<1> DEFINE k == Slot(arr, r)
           out == Placed(arr, r)
<1>n. PICK n \in Nat : n = Len(arr)
  OBVIOUS
<1>0. /\ n \in Nat /\ n = Len(arr) /\ DOMAIN arr = 1 .. n
      /\ arr \in Seq(SpanType)
      /\ \A i \in 1 .. n : arr[i].start \in Int /\ arr[i].end \in Int
      /\ r.start \in Int /\ r.end \in Int
  BY <1>n, SpanFields
<1>1. PICK p \in 0 .. n :
        /\ p = StartsBefore(arr, r.start)
        /\ \A i \in 1 .. p : arr[i].start < r.start
        /\ \A i \in p + 1 .. n : r.start <= arr[i].start
  BY <1>0, StartsBeforeLemma
<1>2. \A i, j \in 1 .. n : i < j => arr[i].start < arr[j].start /\ arr[i].end < arr[j].start
  BY <1>0 DEF Ordered
<1>3. CASE Extends(arr, r)
  <2>1. /\ k \in 1 .. n
        /\ arr[k].start <= r.start
        /\ r.start <= arr[k].end \/ r.start = arr[k].start
    BY <1>0, <1>1, <1>2, <1>3 DEF Extends, Slot
  <2>2. out = [arr EXCEPT ![k] = Span(arr[k].start, SetMax(arr[k].end, r.end))]
    BY <1>3 DEF Placed
  <2> HIDE DEF k, out
  <2> DEFINE e == SetMax(arr[k].end, r.end)
  <2>3. /\ e \in Int /\ arr[k].end <= e /\ r.end <= e
        /\ e = arr[k].end \/ e = r.end
    BY <1>0, <2>1 DEF SetMax
  <2> HIDE DEF e
  <2>4. Span(arr[k].start, e) \in SpanType
        /\ Span(arr[k].start, e).start = arr[k].start
        /\ Span(arr[k].start, e).end = e
    BY <1>0, <2>1, <2>3, SpanLemma
  <2>5. out \in Seq(SpanType) /\ Len(out) = n
        /\ out[k] = Span(arr[k].start, e)
        /\ \A i \in 1 .. n : i # k => out[i] = arr[i]
    BY <1>0, <2>1, <2>2, <2>4 DEF e
  <2>6. /\ \A i \in 1 .. n : out[i].start = arr[i].start
        /\ \A i \in 1 .. n : i # k => out[i].end = arr[i].end
        /\ out[k].end = e
        /\ DOMAIN out = 1 .. n
    BY <2>1, <2>4, <2>5
  <2>7. PlacedAt(out, k)
    BY <1>0, <1>2, <2>1, <2>5, <2>6 DEF PlacedAt
  <2>8. Proper(arr) => Proper(out)
    BY <1>0, <2>1, <2>3, <2>6 DEF Proper
  <2>s. ASSUME NEW S, EndsIn(arr, S), r.start \in S, r.end \in S
        PROVE  EndsIn(out, S)
    BY <1>0, <2>1, <2>3, <2>6, <2>s DEF EndsIn
  <2>9. ASSUME NEW d \in {0, 1}
        PROVE  Reached(out, d) = Reached(arr, d) \cup Reach(r, d)
    <3>0. /\ arr[k].start \in Int /\ arr[k].end \in Int /\ e \in Int
          /\ out[k].start = arr[k].start /\ out[k].end = e
      BY <1>0, <2>1, <2>3, <2>6
    <3>1. Reach(out[k], d) = Reach(arr[k], d) \cup Reach(r, d)
      <4>1. PICK a \in Int, b \in Int, s \in Int, t \in Int, f \in Int :
               /\ a = arr[k].start /\ b = arr[k].end /\ s = r.start /\ t = r.end /\ f = e
        BY <1>0, <2>1, <3>0
      <4>2. Meets(a, b, s, t, f)
        BY <2>1, <2>3, <4>1 DEF Meets
      <4>3. a .. f - d = (a .. b - d) \cup (s .. t - d)
        <5>1. Joined(a, b, s, t, f, d)
          BY <4>2, JoinLemma
        <5> QED BY <5>1, Zenon DEF Joined
      <4> QED BY <3>0, <4>1, <4>3 DEF Reach
    <3>2. \A i \in 1 .. n : i # k => Reach(out[i], d) = Reach(arr[i], d)
      BY <2>5
    <3>3. ASSUME NEW x \in Reached(out, d)
          PROVE  x \in Reached(arr, d) \cup Reach(r, d)
      <4>1. PICK i \in 1 .. n : x \in Reach(out[i], d)
        BY <2>6, Zenon DEF Reached
      <4>2. x \in Reach(arr[i], d) \/ x \in Reach(r, d)
        BY <3>1, <3>2, <4>1, Zenon
      <4> QED BY <1>0, <4>2, Zenon DEF Reached
    <3>4. ASSUME NEW x \in Reached(arr, d) \cup Reach(r, d)
          PROVE  x \in Reached(out, d)
      <4>1. CASE x \in Reach(r, d)
        BY <2>1, <2>6, <3>1, <4>1, Zenon DEF Reached
      <4>2. CASE x \in Reached(arr, d)
        <5>1. PICK i \in 1 .. n : x \in Reach(arr[i], d)
          BY <1>0, <4>2, Zenon DEF Reached
        <5>2. x \in Reach(out[i], d)
          BY <3>1, <3>2, <5>1, Zenon
        <5> QED BY <2>6, <5>2, Zenon DEF Reached
      <4> QED BY <3>4, <4>1, <4>2
    <3> QED BY <3>3, <3>4, Zenon
  <2> QED BY <2>5, <2>7, <2>8, <2>s, <2>9 DEF k, out
<1>4. CASE ~Extends(arr, r)
  <2>1. /\ k = p + 1
        /\ \A i \in 1 .. p : arr[i].start < r.start /\ arr[i].end < r.start
        /\ \A i \in p + 1 .. n : r.start < arr[i].start
    <3>1. k = p + 1
      BY <1>0, <1>1, <1>4 DEF Extends, Slot
    <3>2. p < n => arr[p + 1].start # r.start
      BY <1>0, <1>1, <1>4, <3>1 DEF Extends
    <3>3. p > 0 => arr[p].end < r.start
      BY <1>0, <1>1, <3>1, <3>2 DEF Slot
    <3>4. ASSUME NEW i \in 1 .. p PROVE arr[i].end < r.start
      <4>1. CASE i = p
        BY <3>3, <4>1
      <4>2. CASE i < p
        <5>1. p \in 1 .. n /\ i \in 1 .. n /\ p \in 1 .. p
          BY <4>2
        <5>2. arr[i].end < arr[p].start /\ arr[p].start < r.start
          BY <1>1, <1>2, <4>2, <5>1
        <5> QED BY <1>0, <5>1, <5>2
      <4> QED BY <4>1, <4>2
    <3>5. ASSUME NEW i \in p + 1 .. n PROVE r.start < arr[i].start
      <4>0. p + 1 \in 1 .. n /\ i \in 1 .. n /\ p + 1 \in p + 1 .. n /\ p < n
        OBVIOUS
      <4>1. r.start < arr[p + 1].start
        BY <1>0, <1>1, <3>2, <4>0
      <4>2. CASE i = p + 1
        BY <4>1, <4>2
      <4>3. CASE p + 1 < i
        <5>1. arr[p + 1].start < arr[i].start
          BY <1>2, <4>0, <4>3
        <5> QED BY <1>0, <4>0, <4>1, <5>1
      <4> QED BY <4>0, <4>2, <4>3
    <3> QED BY <1>1, <3>1, <3>4, <3>5
  <2>2. out = SubSeq(arr, 1, p) \o <<r>> \o SubSeq(arr, p + 1, n)
    <3>1. out = SubSeq(arr, 1, k - 1) \o <<r>> \o SubSeq(arr, k, n)
      BY <1>0, <1>4 DEF Placed
    <3>2. k - 1 = p
      BY <1>1, <2>1, <1>0
    <3> QED BY <3>1, <3>2, <2>1
  <2> HIDE DEF k, out
  <2>3. /\ out \in Seq(SpanType) /\ Len(out) = n + 1
        /\ \A i \in 1 .. p : out[i] = arr[i]
        /\ out[p + 1] = r
        /\ \A i \in 1 .. n - p : out[p + 1 + i] = arr[p + i]
    <3>1. p \in 0 .. Len(arr) /\ p \in p .. Len(arr)
      BY <1>0, <1>1
    <3>2. arr \in Seq(SpanType) /\ r \in SpanType
      BY <1>0
    <3>3. /\ Splice(arr, p, r, p) \in Seq(SpanType)
          /\ Len(Splice(arr, p, r, p)) = p + 1 + Len(arr) - p
          /\ \A i \in 1 .. p : Splice(arr, p, r, p)[i] = arr[i]
          /\ Splice(arr, p, r, p)[p + 1] = r
          /\ \A i \in 1 .. Len(arr) - p :
                Splice(arr, p, r, p)[p + 1 + i] = arr[p + i]
      BY ONLY <3>1, <3>2, SpliceLemma
    <3>4. p + 1 + n - p = n + 1
      OBVIOUS
    <3>5. out = Splice(arr, p, r, p)
      BY <1>0, <2>2 DEF Splice
    <3> QED BY <1>0, <3>3, <3>4, <3>5
  <2>4. /\ DOMAIN out = 1 .. n + 1
        /\ \A i \in p + 2 .. n + 1 : out[i] = arr[i - 1]
    <3>1. Len(out) = n + 1
      BY <1>0, <1>1, <2>3
    <3>2. ASSUME NEW i \in p + 2 .. n + 1
          PROVE  out[i] = arr[i - 1]
      <4>1. i - p - 1 \in 1 .. n - p /\ p + 1 + (i - p - 1) = i /\ p + (i - p - 1) = i - 1
        OBVIOUS
      <4> QED BY <4>1, <2>3
    <3> QED BY <2>3, <3>1, <3>2
  <2>5. PlacedAt(out, k)
    <3>2. ASSUME NEW i \in 1 .. n + 1, NEW j \in 1 .. n + 1, i < j
          PROVE  out[i].start < out[j].start /\ (i # k => out[i].end < out[j].start)
      <4>1. CASE j \in 1 .. p
        <5>1. i \in 1 .. p /\ i \in 1 .. n /\ j \in 1 .. n
          BY <3>2, <4>1
        <5> QED BY <1>2, <2>3, <3>2, <4>1, <5>1
      <4>2. CASE j = p + 1
        <5>1. i \in 1 .. p
          BY <3>2, <4>2
        <5> QED BY <2>1, <2>3, <4>2, <5>1
      <4>3. CASE j \in p + 2 .. n + 1
        <5>1. j - 1 \in p + 1 .. n /\ j - 1 \in 1 .. n
          BY <4>3
        <5>2. CASE i \in 1 .. p
          <6>1. i \in 1 .. n /\ i < j - 1
            BY <4>3, <5>2
          <6> QED BY <1>2, <2>3, <2>4, <4>3, <5>1, <5>2, <6>1
        <5>3. CASE i = p + 1
          BY <2>1, <2>3, <2>4, <4>3, <5>1, <5>3
        <5>4. CASE i \in p + 2 .. n + 1
          <6>1. i - 1 \in 1 .. n /\ i - 1 < j - 1
            BY <3>2, <4>3, <5>4
          <6> QED BY <1>2, <2>4, <4>3, <5>1, <5>4, <6>1
        <5> QED BY <5>2, <5>3, <5>4
      <4> QED BY <4>1, <4>2, <4>3
    <3>3. k \in 1 .. n + 1 /\ Len(out) = n + 1
      BY <1>0, <1>1, <2>1, <2>3
    <3> QED BY <2>3, <3>2, <3>3 DEF PlacedAt
  <2>6. ASSUME NEW j \in 1 .. n + 1
        PROVE  out[j] = r \/ \E i \in 1 .. n : out[j] = arr[i]
    <3>1. CASE j \in 1 .. p
      BY <2>3, <3>1
    <3>2. CASE j \in p + 2 .. n + 1
      <4>1. j - 1 \in 1 .. n
        BY <3>2
      <4> QED BY <2>4, <3>2, <4>1
    <3>3. CASE j = p + 1
      BY <2>3, <3>3
    <3> QED BY <3>1, <3>2, <3>3
  <2>7. Proper(arr) /\ r.start <= r.end => Proper(out)
    BY <1>0, <2>4, <2>6 DEF Proper
  <2>s. ASSUME NEW S, EndsIn(arr, S), r.start \in S, r.end \in S
        PROVE  EndsIn(out, S)
    BY <1>0, <2>4, <2>6, <2>s DEF EndsIn
  <2>8. ASSUME NEW d \in {0, 1}
        PROVE  Reached(out, d) = Reached(arr, d) \cup Reach(r, d)
    <3>1. ASSUME NEW i \in 1 .. n
          PROVE  \E j \in 1 .. n + 1 : out[j] = arr[i]
      <4>1. CASE i \in 1 .. p
        BY <2>3, <4>1
      <4>2. CASE i \in p + 1 .. n
        <5>1. i + 1 \in p + 2 .. n + 1 /\ i + 1 \in 1 .. n + 1 /\ i + 1 - 1 = i
          BY <4>2
        <5>2. out[i + 1] = arr[i]
          BY <2>4, <5>1
        <5> QED BY <5>1, <5>2
      <4> QED BY <4>1, <4>2
    <3>2. out[p + 1] = r /\ p + 1 \in 1 .. n + 1
      BY <2>3
    <3>4. DOMAIN arr = 1 .. n /\ DOMAIN out = 1 .. n + 1
      BY <1>0, <2>4
    <3>5. Reach(r, d) \subseteq Reached(out, d)
      BY <3>2, <3>4 DEF Reached
    <3>6. Reached(arr, d) \subseteq Reached(out, d)
      BY <3>1, <3>4 DEF Reached
    <3>7. Reached(out, d) \subseteq Reached(arr, d) \cup Reach(r, d)
      BY <2>6, <3>4 DEF Reached
    <3> QED BY <3>5, <3>6, <3>7
  <2> QED BY <2>3, <2>5, <2>7, <2>s, <2>8 DEF k, out
<1> QED BY <1>3, <1>4
(***************************************************************************)
(* The loop after the placement stops at the first range that starts       *)
(* behind the placed one.                                                  *)
(***************************************************************************)
LEMMA LastMergedLemma ==
  ASSUME NEW arr, NEW k, PlacedAt(arr, k)
  PROVE  /\ LastMerged(arr, k) \in k .. Len(arr)
         /\ \A i \in k + 1 .. LastMerged(arr, k) : arr[i].start <= arr[k].end
         /\ LastMerged(arr, k) < Len(arr)
              => arr[LastMerged(arr, k) + 1].start > arr[k].end
<1> DEFINE Stop(j) == /\ \A i \in k + 1 .. j : arr[i].start <= arr[k].end
                      /\ j < Len(arr) => arr[j + 1].start > arr[k].end
           behind == {i \in k + 1 .. Len(arr) : arr[i].start > arr[k].end}
<1>n. PICK n \in Nat : n = Len(arr)
  BY DEF PlacedAt
<1>0. /\ k \in 1 .. n /\ n = Len(arr)
      /\ \A i \in 1 .. n : arr[i].start \in Int /\ arr[i].end \in Int
  BY <1>n, SpanFields DEF PlacedAt
<1>1. \E j \in k .. n : Stop(j)
  <2>1. CASE behind = {}
    <3>1. \A i \in k + 1 .. n : arr[i].start <= arr[k].end
      BY <1>0, <2>1
    <3>2. Stop(n)
      BY <1>0, <3>1
    <3>3. n \in k .. n
      BY <1>0
    <3> QED BY <3>2, <3>3
  <2>2. CASE behind # {}
    <3>0. behind \subseteq Nat
      BY <1>0
    <3>1. PICK f \in behind : \A i \in behind : f <= i
      BY <3>0, <2>2, LeastExists
    <3>2. f \in k + 1 .. n /\ arr[f].start > arr[k].end
      BY <1>0, <3>1
    <3>3. f - 1 \in k .. n /\ f - 1 + 1 = f
      BY <1>0, <3>2
    <3>4. \A i \in k + 1 .. f - 1 : arr[i].start <= arr[k].end
      BY <1>0, <3>1, <3>2
    <3> QED BY <3>2, <3>3, <3>4
  <2> QED BY <2>1, <2>2
<1> QED BY <1>0, <1>1 DEF LastMerged

(***************************************************************************)
(* Only the last merged range can reach further than the placed one.       *)
(***************************************************************************)
LEMMA MergedEndLemma ==
  ASSUME NEW arr, NEW k, PlacedAt(arr, k)
  PROVE  LET j == LastMerged(arr, k)
             e == MergedEnd(arr, k, j)
         IN  /\ e \in Int
             /\ \A i \in k .. j : arr[i].end <= e
             /\ e = arr[k].end \/ (e = arr[j].end /\ arr[j].start <= arr[k].end)
<1> DEFINE j == LastMerged(arr, k)
           e == MergedEnd(arr, k, j)
           further == {i \in k + 1 .. j : arr[i].end >= arr[k].end}
<1>n. PICK n \in Nat : n = Len(arr)
  BY DEF PlacedAt
<1>0. /\ k \in 1 .. n /\ n = Len(arr)
      /\ \A i \in 1 .. n : arr[i].start \in Int /\ arr[i].end \in Int
  BY <1>n, SpanFields DEF PlacedAt
<1>1. /\ j \in k .. n
      /\ \A i \in k + 1 .. j : arr[i].start <= arr[k].end
  BY <1>0, LastMergedLemma
<1> HIDE DEF j
<1>2. \A i \in k + 1 .. j : i < j => arr[i].end < arr[k].end
  <2> SUFFICES ASSUME NEW i \in k + 1 .. j, i < j
               PROVE  arr[i].end < arr[k].end
    OBVIOUS
  <2>1. i \in 1 .. n /\ j \in 1 .. n /\ i # k /\ j \in k + 1 .. j
    BY <1>0, <1>1
  <2>2. arr[i].end < arr[j].start
    BY <1>0, <2>1 DEF PlacedAt
  <2> QED BY <1>0, <1>1, <2>1, <2>2
<1>3. CASE further = {}
  <2>1. e = arr[k].end
    BY <1>3 DEF MergedEnd
  <2>2. \A i \in k + 1 .. j : arr[i].end < arr[k].end
    <3> SUFFICES ASSUME NEW i \in k + 1 .. j
                 PROVE  arr[i].end < arr[k].end
      OBVIOUS
    <3>1. i \in 1 .. n
      BY <1>0, <1>1
    <3>2. ~(arr[i].end >= arr[k].end)
      BY <1>3
    <3> QED BY <1>0, <3>1, <3>2
  <2>3. \A i \in k .. j : arr[i].end <= arr[k].end
    BY <1>0, <1>1, <2>2
  <2> QED BY <1>0, <2>1, <2>3 DEF j
<1>4. CASE further # {}
  <2>1. further = {j}
    <3>1. \A i \in further : i = j
      <4> SUFFICES ASSUME NEW i \in further
                   PROVE  i = j
        OBVIOUS
      <4>1. i \in k + 1 .. j /\ arr[i].end >= arr[k].end /\ i \in 1 .. n
        BY <1>0, <1>1
      <4>2. ~(i < j)
        <5> SUFFICES ASSUME i < j PROVE FALSE
          OBVIOUS
        <5>1. arr[i].end < arr[k].end
          BY <1>2, <4>1
        <5>2. PICK x \in Int, y \in Int : x = arr[i].end /\ y = arr[k].end
          BY <1>0, <1>1, <4>1
        <5> QED BY <4>1, <5>1, <5>2
      <4> QED BY <1>0, <1>1, <4>1, <4>2
    <3> QED BY <1>4, <3>1
  <2>2. e = arr[j].end
    <3>1. (CHOOSE i \in further : \A l \in further : l <= i) = j
      <4>1. j <= j
        BY <1>0, <1>1
      <4> QED BY <2>1, <4>1
    <3> QED BY <1>4, <3>1 DEF MergedEnd
  <2>3. j \in k + 1 .. j /\ arr[j].end >= arr[k].end /\ j \in 1 .. n
    BY <1>0, <1>1, <2>1
  <2>4. \A i \in k .. j : arr[i].end <= arr[j].end
    <3> SUFFICES ASSUME NEW i \in k .. j
                 PROVE  arr[i].end <= arr[j].end
      OBVIOUS
    <3>1. i \in 1 .. n
      BY <1>0, <1>1
    <3>2. CASE i = k \/ i = j
      BY <1>0, <2>3, <3>1, <3>2
    <3>3. CASE i # k /\ i # j
      <4>1. i \in k + 1 .. j /\ i < j
        BY <1>0, <1>1, <3>3
      <4>2. arr[i].end < arr[k].end
        BY <1>2, <4>1
      <4> QED BY <1>0, <2>3, <3>1, <4>2
    <3> QED BY <3>2, <3>3
  <2>5. arr[j].start <= arr[k].end
    BY <1>1, <2>3
  <2> QED BY <1>0, <2>2, <2>3, <2>4, <2>5 DEF j
<1> QED BY <1>3, <1>4

(***************************************************************************)
(* RangeArray::union: a sorted vector stays sorted, is not empty any more  *)
(* and covers the addresses it covered and those of the new range, no more *)
(* and no less.                                                            *)
(***************************************************************************)
THEOREM UnionAny ==
  ASSUME NEW arr, arr \in Seq(SpanType), Ordered(arr), NEW r \in SpanType
  PROVE  /\ Union(arr, r) \in Seq(SpanType)
         /\ Ordered(Union(arr, r))
         /\ Union(arr, r) # New
         /\ Proper(arr) /\ r.start <= r.end => Proper(Union(arr, r))
         /\ \A S : EndsIn(arr, S) /\ r.start \in S /\ r.end \in S => EndsIn(Union(arr, r), S)
         /\ \A d \in {0, 1} : Reached(Union(arr, r), d) = Reached(arr, d) \cup Reach(r, d)
<1> DEFINE k == Slot(arr, r)
           mid == Placed(arr, r)
           j == LastMerged(mid, k)
           e == MergedEnd(mid, k, j)
           x == Span(mid[k].start, e)
           out == Union(arr, r)
<1>1. /\ PlacedAt(mid, k)
      /\ Proper(arr) /\ r.start <= r.end => Proper(mid)
      /\ \A S : EndsIn(arr, S) /\ r.start \in S /\ r.end \in S => EndsIn(mid, S)
      /\ \A d \in {0, 1} : Reached(mid, d) = Reached(arr, d) \cup Reach(r, d)
  BY SlotLemma
<1>2. /\ j \in k .. Len(mid)
      /\ \A i \in k + 1 .. j : mid[i].start <= mid[k].end
      /\ j < Len(mid) => mid[j + 1].start > mid[k].end
  BY <1>1, LastMergedLemma
<1>3. /\ e \in Int
      /\ \A i \in k .. j : mid[i].end <= e
      /\ e = mid[k].end \/ (e = mid[j].end /\ mid[j].start <= mid[k].end)
  BY <1>1, MergedEndLemma
<1>4. out = Splice(mid, k - 1, x, j)
  BY DEF Union, Splice
<1> HIDE DEF k, mid, j, e, x, out
<1>n. PICK n \in Nat : n = Len(mid)
  BY <1>1 DEF PlacedAt
<1>0. /\ k \in 1 .. n /\ j \in k .. n /\ n = Len(mid)
      /\ DOMAIN mid = 1 .. n /\ mid \in Seq(SpanType)
      /\ \A i \in 1 .. n : mid[i].start \in Int /\ mid[i].end \in Int
  BY <1>n, <1>1, <1>2, SpanFields DEF PlacedAt
<1>5. \A i, l \in 1 .. n :
         i < l => mid[i].start < mid[l].start /\ (i # k => mid[i].end < mid[l].start)
  BY <1>0, <1>1 DEF PlacedAt
<1>6. x \in SpanType /\ x.start = mid[k].start /\ x.end = e
  BY <1>0, <1>3, SpanLemma DEF x
<1>8. \A i \in j + 1 .. n : e < mid[i].start
  <2> SUFFICES ASSUME NEW i \in j + 1 .. n
               PROVE  e < mid[i].start
    OBVIOUS
  <2>1. i \in 1 .. n /\ j + 1 \in 1 .. n /\ j < n /\ j \in 1 .. n
    BY <1>0
  <2>2. mid[k].end < mid[j + 1].start
    BY <1>0, <1>2, <2>1
  <2>3. mid[j + 1].start <= mid[i].start
    <3>1. CASE i = j + 1
      BY <1>0, <2>1, <3>1
    <3>2. CASE j + 1 < i
      BY <1>0, <1>5, <2>1, <3>2
    <3> QED BY <2>1, <3>1, <3>2
  <2>4. CASE j = k
    BY <1>0, <1>3, <2>1, <2>2, <2>3, <2>4
  <2>5. CASE j # k
    <3>1. mid[j].end < mid[i].start
      BY <1>0, <1>5, <2>1, <2>5
    <3> QED BY <1>0, <1>3, <2>1, <2>2, <2>3, <3>1
  <2> QED BY <2>4, <2>5
<1>9. /\ out \in Seq(SpanType)
      /\ Len(out) = k + n - j
      /\ \A i \in 1 .. k - 1 : out[i] = mid[i]
      /\ out[k] = x
      /\ \A i \in 1 .. n - j : out[k + i] = mid[j + i]
  <2>1. k - 1 \in 0 .. Len(mid) /\ j \in k - 1 .. Len(mid)
    BY <1>0
  <2>2. /\ Splice(mid, k - 1, x, j) \in Seq(SpanType)
        /\ Len(Splice(mid, k - 1, x, j)) = k - 1 + 1 + Len(mid) - j
        /\ \A i \in 1 .. k - 1 : Splice(mid, k - 1, x, j)[i] = mid[i]
        /\ Splice(mid, k - 1, x, j)[k - 1 + 1] = x
        /\ \A i \in 1 .. Len(mid) - j :
              Splice(mid, k - 1, x, j)[k - 1 + 1 + i] = mid[j + i]
    BY ONLY <1>0, <1>6, <2>1, SpliceLemma
  <2>3. k - 1 + 1 = k
    BY <1>0
  <2> QED BY <1>0, <1>4, <2>2, <2>3
<1>10. DOMAIN out = 1 .. k + n - j /\ k \in 1 .. k + n - j /\ k + n - j \in Nat
  BY <1>0, <1>9
<1>11. \A i \in k + 1 .. k + n - j :
          i + j - k \in j + 1 .. n /\ out[i] = mid[i + j - k]
  <2> SUFFICES ASSUME NEW i \in k + 1 .. k + n - j
               PROVE  i + j - k \in j + 1 .. n /\ out[i] = mid[i + j - k]
    OBVIOUS
  <2>1. i - k \in 1 .. n - j /\ k + (i - k) = i /\ j + (i - k) = i + j - k
    BY <1>0
  <2>2. i + j - k \in j + 1 .. n
    BY <1>0, <2>1
  <2> QED BY <1>9, <2>1, <2>2
<1>12. Ordered(out)
  <2>2. ASSUME NEW i \in 1 .. k + n - j, NEW l \in 1 .. k + n - j, i < l
        PROVE  out[i].start < out[l].start /\ out[i].end < out[l].start
    <3>1. CASE i \in 1 .. k - 1 /\ l \in 1 .. k - 1
      <4>1. i \in 1 .. n /\ l \in 1 .. n /\ i # k
        BY <1>0, <3>1
      <4> QED BY <1>5, <1>9, <2>2, <3>1, <4>1
    <3>2. CASE i \in 1 .. k - 1 /\ l = k
      <4>1. i \in 1 .. n /\ k \in 1 .. n /\ i # k /\ i < k
        BY <1>0, <3>2
      <4>2. mid[i].start < mid[k].start /\ mid[i].end < mid[k].start
        BY <1>5, <4>1
      <4> QED BY <1>6, <1>9, <3>2, <4>2
    <3>3. CASE i \in 1 .. k - 1 /\ l \in k + 1 .. k + n - j
      <4>1. l + j - k \in j + 1 .. n /\ out[l] = mid[l + j - k]
        BY <1>11, <3>3
      <4>2. i \in 1 .. n /\ l + j - k \in 1 .. n /\ i # k /\ i < l + j - k
        BY <1>0, <3>3, <4>1
      <4>3. mid[i].start < mid[l + j - k].start /\ mid[i].end < mid[l + j - k].start
        BY <1>5, <4>2
      <4> QED BY <1>9, <3>3, <4>1, <4>3
    <3>4. CASE i = k /\ l \in k + 1 .. k + n - j
      <4>1. l + j - k \in j + 1 .. n /\ out[l] = mid[l + j - k]
        BY <1>11, <3>4
      <4>2. e < mid[l + j - k].start
        BY <1>8, <4>1
      <4>3. mid[k].start < mid[l + j - k].start
        <5>1. l + j - k \in 1 .. n /\ k < l + j - k
          BY <1>0, <4>1
        <5> QED BY <1>0, <1>5, <5>1
      <4> QED BY <1>6, <1>9, <3>4, <4>1, <4>2, <4>3
    <3>5. CASE i \in k + 1 .. k + n - j /\ l \in k + 1 .. k + n - j
      <4>1. /\ i + j - k \in j + 1 .. n /\ out[i] = mid[i + j - k]
            /\ l + j - k \in j + 1 .. n /\ out[l] = mid[l + j - k]
        BY <1>11, <3>5
      <4>2. /\ i + j - k \in 1 .. n /\ l + j - k \in 1 .. n
            /\ i + j - k # k /\ i + j - k < l + j - k
        BY <1>0, <2>2, <3>5, <4>1
      <4>3. /\ mid[i + j - k].start < mid[l + j - k].start
            /\ mid[i + j - k].end < mid[l + j - k].start
        BY <1>5, <4>2
      <4> QED BY <4>1, <4>3
    <3>6. \/ i \in 1 .. k - 1 /\ l \in 1 .. k - 1
          \/ i \in 1 .. k - 1 /\ l = k
          \/ i \in 1 .. k - 1 /\ l \in k + 1 .. k + n - j
          \/ i = k /\ l \in k + 1 .. k + n - j
          \/ i \in k + 1 .. k + n - j /\ l \in k + 1 .. k + n - j
      BY <1>0, <2>2
    <3> QED BY <3>1, <3>2, <3>3, <3>4, <3>5, <3>6
  <2> QED BY <1>10, <2>2 DEF Ordered
<1>13. ASSUME NEW d \in {0, 1}
       PROVE  Reached(out, d) = Reached(mid, d)
  <2>1. Reach(x, d) \subseteq Reached(mid, d)
    <3> SUFFICES ASSUME NEW a \in mid[k].start .. e - d
                 PROVE  a \in Reached(mid, d)
      BY <1>6 DEF Reach
    <3>1. mid[k].start \in Int /\ mid[k].end \in Int /\ mid[j].start \in Int
      BY <1>0
    <3>2. CASE a <= mid[k].end - d
      <4>1. a \in Reach(mid[k], d)
        BY <3>1, <3>2 DEF Reach
      <4> QED BY <1>0, <4>1 DEF Reached
    <3>3. CASE a > mid[k].end - d
      <4>0. e = mid[j].end /\ mid[j].start <= mid[k].end
        BY <1>3, <3>1, <3>3
      <4>1. a \in Reach(mid[j], d)
        BY <1>3, <3>1, <3>3, <4>0 DEF Reach
      <4>2. j \in 1 .. n
        BY <1>0
      <4> QED BY <1>0, <4>1, <4>2 DEF Reached
    <3> QED BY <1>3, <3>1, <3>2, <3>3
  <2>2. ASSUME NEW i \in 1 .. k + n - j
        PROVE  Reach(out[i], d) \subseteq Reached(mid, d)
    <3>1. CASE i \in 1 .. k - 1
      <4>1. i \in 1 .. n /\ out[i] = mid[i]
        BY <1>0, <1>9, <3>1
      <4> QED BY <1>0, <4>1 DEF Reached
    <3>2. CASE i = k
      BY <1>9, <2>1, <3>2
    <3>3. CASE i \in k + 1 .. k + n - j
      <4>1. i + j - k \in 1 .. n /\ out[i] = mid[i + j - k]
        BY <1>0, <1>11, <3>3
      <4> QED BY <1>0, <4>1 DEF Reached
    <3> QED BY <1>0, <3>1, <3>2, <3>3
  <2>3. ASSUME NEW i \in 1 .. n
        PROVE  \E l \in 1 .. k + n - j : Reach(mid[i], d) \subseteq Reach(out[l], d)
    <3>1. CASE i \in 1 .. k - 1
      <4>1. i \in 1 .. k + n - j /\ out[i] = mid[i]
        BY <1>0, <1>9, <3>1
      <4> QED BY <4>1
    <3>2. CASE i \in k .. j
      <4>1. mid[k].start <= mid[i].start
        <5>1. CASE i = k
          BY <1>0, <5>1
        <5>2. CASE i # k
          <6>1. k < i
            BY <1>0, <3>2, <5>2
          <6> QED BY <1>0, <1>5, <6>1
        <5> QED BY <5>1, <5>2
      <4>2. mid[i].end <= e
        BY <1>3, <3>2
      <4>3. /\ mid[k].start \in Int /\ mid[i].start \in Int
            /\ mid[i].end \in Int /\ e \in Int
        BY <1>0, <1>3
      <4>4. Reach(mid[i], d) \subseteq Reach(x, d)
        BY <1>6, <4>1, <4>2, <4>3 DEF Reach
      <4> QED BY <1>9, <1>10, <4>4
    <3>3. CASE i \in j + 1 .. n
      <4>1. /\ k + (i - j) \in 1 .. k + n - j /\ i - j \in 1 .. n - j
            /\ j + (i - j) = i
        BY <1>0, <3>3
      <4>2. out[k + (i - j)] = mid[i]
        BY <1>9, <4>1
      <4> QED BY <4>1, <4>2
    <3> QED BY <1>0, <3>1, <3>2, <3>3
  <2>4. Reached(out, d) \subseteq Reached(mid, d)
    BY <1>10, <2>2 DEF Reached
  <2>5. Reached(mid, d) \subseteq Reached(out, d)
    <3> SUFFICES ASSUME NEW a \in Reached(mid, d)
                 PROVE  a \in Reached(out, d)
      OBVIOUS
    <3>1. PICK i \in 1 .. n : a \in Reach(mid[i], d)
      BY <1>0 DEF Reached
    <3>2. PICK l \in 1 .. k + n - j : Reach(mid[i], d) \subseteq Reach(out[l], d)
      BY <2>3
    <3> QED BY <1>10, <3>1, <3>2 DEF Reached
  <2> QED BY <2>4, <2>5
<1>14. out # New
  BY <1>9, <1>10 DEF New
<1>15. ASSUME NEW i \in 1 .. k + n - j
       PROVE  out[i] = x \/ \E l \in 1 .. n : out[i] = mid[l]
  <2>1. CASE i \in 1 .. k - 1
    <3>1. i \in 1 .. n
      BY <1>0, <2>1
    <3> QED BY <1>9, <2>1, <3>1
  <2>2. CASE i = k
    BY <1>9, <2>2
  <2>3. CASE i \in k + 1 .. k + n - j
    <3>1. i + j - k \in 1 .. n
      BY <1>0, <1>11, <2>3
    <3> QED BY <1>11, <2>3, <3>1
  <2> QED BY <1>0, <2>1, <2>2, <2>3
<1>16. ASSUME Proper(mid)
       PROVE  Proper(out)
  <2>1. mid[k].start <= mid[k].end /\ k \in k .. j
    BY <1>0, <1>16 DEF Proper
  <2>2. x.start <= x.end
    BY <1>0, <1>3, <1>6, <2>1
  <2> QED BY <1>0, <1>10, <1>15, <1>16, <2>2 DEF Proper
<1>17. ASSUME NEW S, EndsIn(mid, S)
       PROVE  EndsIn(out, S)
  <2>1. \A i \in 1 .. n : mid[i].start \in S /\ mid[i].end \in S
    BY <1>0, <1>17 DEF EndsIn
  <2>2. x.start \in S /\ x.end \in S
    BY <1>0, <1>3, <1>6, <2>1
  <2> QED BY <1>0, <1>10, <1>15, <2>1, <2>2 DEF EndsIn
<1> QED BY <1>1, <1>9, <1>12, <1>13, <1>14, <1>16, <1>17 DEF out, mid

(***************************************************************************)
(* The same for the ranges the callers make of addresses.                  *)
(***************************************************************************)
Sorted(arr) == arr \in Seq(SpanType) /\ WellFormed(arr)

LEMMA SortedIsOrdered ==
  ASSUME NEW arr, arr \in Seq(SpanType)
  PROVE  WellFormed(arr) <=> Ordered(arr) /\ Proper(arr)
<1>1. PICK n \in Nat : n = Len(arr)
  OBVIOUS
<1>2. DOMAIN arr = 1 .. n /\ \A i \in 1 .. n : arr[i].start \in Int /\ arr[i].end \in Int
  BY <1>1, SpanFields
<1> QED BY <1>2 DEF WellFormed, Ordered, Proper

LEMMA CoveredIsReached ==
  ASSUME NEW arr, NEW r
  PROVE  Covered(arr) = Reached(arr, 1) /\ Addresses(r) = Reach(r, 1)
BY DEF Covered, Reached, Addresses, Reach

THEOREM UnionCorrect ==
  ASSUME NEW arr, Sorted(arr), NEW r \in SpanType, r.start <= r.end
  PROVE  /\ Union(arr, r) \in Seq(SpanType)
         /\ WellFormed(Union(arr, r))
         /\ Covered(Union(arr, r)) = Covered(arr) \cup Addresses(r)
         /\ Union(arr, r) # New
<1>1. arr \in Seq(SpanType) /\ Ordered(arr) /\ Proper(arr)
  BY SortedIsOrdered DEF Sorted
<1> DEFINE out == Union(arr, r)
<1>2. /\ out \in Seq(SpanType) /\ Ordered(out) /\ out # New /\ Proper(out)
      /\ \A d \in {0, 1} : Reached(out, d) = Reached(arr, d) \cup Reach(r, d)
  BY <1>1, UnionAny
<1> HIDE DEF out
<1>3. WellFormed(out)
  BY <1>2, SortedIsOrdered
<1>4. Reached(out, 1) = Reached(arr, 1) \cup Reach(r, 1)
  BY <1>2
<1>5. Covered(out) = Covered(arr) \cup Addresses(r)
  BY <1>4, CoveredIsReached
<1> QED BY <1>2, <1>3, <1>5 DEF out

-----------------------------------------------------------------------------
(***************************************************************************)
(* Addresses modulo Size.                                                  *)
(***************************************************************************)
LEMMA DivideBySize ==
  ASSUME NEW x \in Nat
  PROVE  \E q \in Nat, r \in 0 .. Size - 1 : x = Size * q + r /\ x % Size = r
<1>1. x \div Size \in Nat /\ x = Size * (x \div Size) + (x % Size)
  BY WidthAssumption
<1>2. x % Size \in 0 .. Size - 1
  BY WidthAssumption
<1> QED BY <1>1, <1>2

LEMMA RemainderOfSum ==
  ASSUME NEW q \in Nat, NEW r \in 0 .. Size - 1
  PROVE  (Size * q + r) % Size = r
BY WidthAssumption

LEMMA WrapOnce ==
  ASSUME NEW x \in Nat, NEW y \in Nat
  PROVE  Wrap(Wrap(x) + y) = Wrap(x + y)
<1>1. PICK q \in Nat, r \in 0 .. Size - 1 : x = Size * q + r /\ x % Size = r
  BY DivideBySize
<1>2. r + y \in Nat
  BY WidthAssumption
<1>3. PICK p \in Nat, m \in 0 .. Size - 1 : r + y = Size * p + m /\ (r + y) % Size = m
  BY <1>2, DivideBySize
<1>4. x + y = Size * (q + p) + m
  <2>1. x + y = Size * q + Size * p + m
    BY <1>1, <1>3, WidthAssumption
  <2>2. Size * q + Size * p = Size * (q + p)
    BY WidthAssumption
  <2> QED BY <2>1, <2>2
<1>5. (Size * (q + p) + m) % Size = m
  BY RemainderOfSum
<1> QED BY <1>1, <1>3, <1>4, <1>5 DEF Wrap

LEMMA WrapFacts ==
  ASSUME NEW x \in Nat
  PROVE  Wrap(x) \in 0 .. Size - 1 /\ Wrap(x) \in Nat /\ (x < Size => Wrap(x) = x)
BY WidthAssumption DEF Wrap

-----------------------------------------------------------------------------
(***************************************************************************)
(* Powers, and numbers written in parts.                                   *)
(***************************************************************************)
PowersTo(f, b, n) == f = [i \in 0 .. n |-> IF i = 0 THEN 1 ELSE b * f[i - 1]]

LEMMA ProductLemma ==
  ASSUME NEW a \in Nat, NEW b \in Nat
  PROVE  a * b \in Nat /\ a * b = b * a /\ (a # 0 => a * b >= b) /\ (a # 0 /\ b # 0 => a * b # 0)
OBVIOUS

LEMMA PowersExist ==
  ASSUME NEW b \in Nat
  PROVE  \E g \in [Nat -> Nat] :
            /\ g[0] = 1 /\ \A n \in Nat : g[n + 1] = b * g[n]
            /\ \A n \in Nat : Power(b, n) = g[n]
<1> DEFINE step == [n \in Nat |-> [x \in Nat |-> b * x]]
<1>1. Stepping(step, Nat)
  BY DEF Stepping
<1> HIDE DEF step
<1>2. PICK g : Iterated(g, Nat, 1, step)
  BY <1>1, Iterates
<1>3. /\ g \in [Nat -> Nat] /\ g[0] = 1
      /\ \A n \in Nat : g[n + 1] = b * g[n]
  BY <1>2 DEF Iterated, step
<1>4. ASSUME NEW n \in Nat
      PROVE  Power(b, n) = g[n]
  <2> DEFINE f == CHOOSE f : PowersTo(f, b, n)
             h == [i \in 0 .. n |-> g[i]]
             Body(i) == IF i = 0 THEN 1 ELSE b * h[i - 1]
  <2>1. Power(b, n) = f[n]
    BY Zenon DEF Power, PowersTo
  <2>2. ASSUME NEW i \in 0 .. n PROVE h[i] = Body(i)
    <3>1. i # 0 => i - 1 \in Nat /\ i - 1 + 1 = i /\ i - 1 \in 0 .. n
      OBVIOUS
    <3> QED BY <1>3, <3>1
  <2>3. h = [i \in 0 .. n |-> Body(i)]
    BY <2>2
  <2>4. PowersTo(h, b, n)
    BY <2>3, Zenon DEF PowersTo
  <2>5. PowersTo(f, b, n)
    BY <2>4, Zenon
  <2> HIDE DEF f, h
  <2>6. \A i \in 0 .. n : f[i] = IF i = 0 THEN 1 ELSE b * f[i - 1]
    BY <2>5 DEF PowersTo
  <2> DEFINE P == {i \in Nat : i <= n => f[i] = g[i]}
  <2>7. 0 \in P
    BY <1>3, <2>6
  <2>8. \A i \in Nat : i \in P => i + 1 \in P
    <3> SUFFICES ASSUME NEW i \in Nat, i \in P, i + 1 <= n
                 PROVE  f[i + 1] = g[i + 1]
      OBVIOUS
    <3>1. i + 1 \in 0 .. n /\ i + 1 # 0 /\ i + 1 - 1 = i /\ f[i] = g[i]
      OBVIOUS
    <3>2. f[i + 1] = b * f[i]
      BY <2>6, <3>1
    <3> QED BY <1>3, <3>1, <3>2
  <2> HIDE DEF P
  <2>9. n \in P
    BY <2>7, <2>8, InductiveSet
  <2> QED BY <2>1, <2>9 DEF P
<1> QED BY <1>3, <1>4

LEMMA PowerLemma ==
  ASSUME NEW b \in Nat \ {0}
  PROVE  /\ Power(b, 0) = 1
         /\ \A n \in Nat : Power(b, n + 1) = b * Power(b, n) /\ Power(b, n) \in Nat \ {0}
<1>1. PICK g \in [Nat -> Nat] :
         /\ g[0] = 1 /\ \A n \in Nat : g[n + 1] = b * g[n]
         /\ \A n \in Nat : Power(b, n) = g[n]
  BY PowersExist
<1> DEFINE P == {n \in Nat : g[n] # 0}
<1>2. 0 \in P
  BY <1>1
<1>3. ASSUME NEW n \in Nat, n \in P
      PROVE  n + 1 \in P
  <2>1. g[n] \in Nat /\ b \in Nat /\ b # 0
    OBVIOUS
  <2>2. b * g[n] # 0
    BY <1>3, <2>1, ProductLemma
  <2>3. g[n + 1] # 0 /\ n + 1 \in Nat
    BY <1>1, <2>2
  <2> QED BY <2>3
<1> HIDE DEF P
<1>4. Nat \subseteq P
  <2> HIDE DEF P
  <2> QED BY <1>2, <1>3, InductiveSet
<1> QED BY <1>1, <1>4 DEF P

LEMMA PowerOfSum ==
  ASSUME NEW b \in Nat \ {0}, NEW m \in Nat, NEW n \in Nat
  PROVE  Power(b, m + n) = Power(b, m) * Power(b, n)
<1> DEFINE P == {k \in Nat : Power(b, m + k) = Power(b, m) * Power(b, k)}
<1>1. 0 \in P
  BY PowerLemma
<1>2. ASSUME NEW k \in Nat, k \in P
      PROVE  k + 1 \in P
  <2>1. /\ Power(b, m + (k + 1)) = b * Power(b, m + k)
        /\ Power(b, k + 1) = b * Power(b, k)
        /\ Power(b, m) \in Nat /\ Power(b, k) \in Nat
    <3>1. m + k \in Nat /\ m + (k + 1) = m + k + 1
      OBVIOUS
    <3> QED BY <3>1, PowerLemma
  <2>2. \A x, y, z \in Nat : x * (y * z) = y * (x * z)
    OBVIOUS
  <2>3. Power(b, m + k) = Power(b, m) * Power(b, k)
    BY <1>2
  <2> QED BY <2>1, <2>2, <2>3
<1> HIDE DEF P
<1>3. n \in P
  BY <1>1, <1>2, InductiveSet
<1> QED BY <1>3 DEF P

LEMMA DivideLemma ==
  ASSUME NEW k \in Nat \ {0}, NEW x \in Int
  PROVE  x \div k \in Int /\ x % k \in 0 .. k - 1 /\ x = k * (x \div k) + (x % k)
OBVIOUS

LEMMA QuotientLemma ==
  ASSUME NEW k \in Nat \ {0}, NEW a \in Int, NEW t \in 0 .. k - 1
  PROVE  (a * k + t) \div k = a /\ (a * k + t) % k = t
<1> DEFINE x == a * k + t
           d == x \div k
           e == x % k
<1>1. x \in Int /\ d \in Int /\ e \in 0 .. k - 1 /\ x = k * d + e
  BY DivideLemma
<1> HIDE DEF d, e
<1>2. k * (a - d) = e - t
  BY <1>1
<1>3. ~(a - d >= 1)
  <2>1. a - d >= 1 => k * (a - d) >= k
    BY <1>1
  <2> QED BY <1>1, <1>2, <2>1
<1>4. ~(a - d <= -1)
  <2>1. a - d <= -1 => k * (a - d) <= -k
    BY <1>1
  <2> QED BY <1>1, <1>2, <2>1
<1>5. a = d
  BY <1>1, <1>3, <1>4
<1>6. e = t
  BY <1>1, <1>2, <1>5
<1> QED BY <1>5, <1>6 DEF d, e

(***************************************************************************)
(* A word of three parts, high, middle and low.                            *)
(***************************************************************************)
Composed(l, m, q, f, r) == q * (l * m) + f * l + r

LEMMA ThreeParts ==
  ASSUME NEW l \in Nat \ {0}, NEW m \in Nat \ {0},
         NEW q \in Nat, NEW f \in 0 .. m - 1, NEW r \in 0 .. l - 1
  PROVE  LET w == Composed(l, m, q, f, r)
         IN  w \in Nat /\ w \div (l * m) = q /\ w % l = r /\ (w \div l) % m = f
<1> DEFINE w == q * (l * m) + f * l + r
           top == q * m + f
           low == f * l + r
<1>1. top \in Int /\ w = top * l + r
  <2>1. (q * m) * l = q * (l * m)
    OBVIOUS
  <2>2. (q * m + f) * l = (q * m) * l + f * l
    OBVIOUS
  <2> QED BY <2>1, <2>2
<1>2. w \div l = top /\ w % l = r
  <2> HIDE DEF top, w
  <2>1. (top * l + r) \div l = top /\ (top * l + r) % l = r
    BY <1>1, QuotientLemma
  <2> QED BY <1>1, <2>1
<1>3. top % m = f
  BY QuotientLemma
<1>4. low \in 0 .. l * m - 1 /\ l * m \in Nat \ {0}
  <2>1. f * l <= (m - 1) * l /\ f * l >= 0
    OBVIOUS
  <2>2. (m - 1) * l = l * m - l
    OBVIOUS
  <2>3. l * m \in Nat \ {0}
    BY ProductLemma
  <2> QED BY <2>1, <2>2, <2>3
<1>5. w \div (l * m) = q
  <2> DEFINE k == l * m
  <2>1. w = q * k + low
    OBVIOUS
  <2>2. k \in Nat \ {0} /\ low \in 0 .. k - 1
    BY <1>4
  <2> HIDE DEF k, low, w
  <2>3. (q * k + low) \div k = q
    BY <2>2, QuotientLemma
  <2> QED BY <2>1, <2>3 DEF k
<1>6. w \in Nat
  <2>1. q * (l * m) \in Nat
    BY <1>4, ProductLemma
  <2>2. f * l \in Nat
    BY ProductLemma
  <2> QED BY <2>1, <2>2
<1> HIDE DEF w, top
<1>7. (w \div l) % m = f
  BY <1>2, <1>3
<1> QED BY <1>2, <1>5, <1>6, <1>7 DEF w, Composed

LEMMA DivideNatural ==
  ASSUME NEW k \in Nat \ {0}, NEW x \in Nat
  PROVE  \E a \in Nat, t \in 0 .. k - 1 : x = a * k + t /\ x \div k = a /\ x % k = t
<1> DEFINE d == x \div k
           e == x % k
<1>1. d \in Int /\ e \in 0 .. k - 1 /\ x = k * d + e
  BY DivideLemma
<1> HIDE DEF d, e
<1>2. d \in Nat
  <2>1. d <= -1 => k * d <= -k
    BY <1>1
  <2> QED BY <1>1, <2>1
<1>3. x = d * k + e
  BY <1>1
<1> QED BY <1>1, <1>2, <1>3 DEF d, e

-----------------------------------------------------------------------------
(***************************************************************************)
(* A register, its two bytes, and the words an edit makes.                 *)
(***************************************************************************)
LEMMA WordFacts == Byte \in Nat \ {0} /\ Word \in Nat \ {0}
<1>1. Byte \in Nat \ {0}
  BY WidthAssumption
<1> QED BY <1>1, ProductLemma DEF Word

WordType == 0 .. Word - 1
ByteType == 0 .. Byte - 1

LEMMA BytesLemma ==
  ASSUME NEW a \in ByteType, NEW b \in ByteType
  PROVE  /\ WordOf(a, b) \in WordType
         /\ WordOf(a, b) \div Byte = a /\ WordOf(a, b) % Byte = b
<1>1. Byte \in Nat \ {0} /\ a \in Nat /\ b \in 0 .. Byte - 1
  BY WordFacts DEF ByteType
<1>2. (a * Byte + b) \div Byte = a /\ (a * Byte + b) % Byte = b
  BY <1>1, QuotientLemma
<1>3. a * Byte + b \in 0 .. Byte * Byte - 1
  <2>1. a * Byte >= 0 /\ a * Byte <= (Byte - 1) * Byte
    BY <1>1 DEF ByteType
  <2>2. (Byte - 1) * Byte = Byte * Byte - Byte
    BY <1>1
  <2>3. a * Byte \in Nat /\ Byte * Byte \in Nat
    BY <1>1, ProductLemma
  <2> QED BY <1>1, <2>1, <2>2, <2>3
<1> QED BY <1>2, <1>3 DEF WordOf, WordType, Word

LEMMA SplitWord ==
  ASSUME NEW w \in WordType
  PROVE  /\ w \div Byte \in ByteType /\ w % Byte \in ByteType
         /\ w = WordOf(w \div Byte, w % Byte)
<1>1. PICK B \in Nat \ {0} : B = Byte
  BY WordFacts
<1>2. w \in Nat /\ w < B * B
  BY <1>1, WordFacts DEF WordType, Word
<1>3. PICK a \in Nat, t \in 0 .. B - 1 : w = a * B + t /\ w \div B = a /\ w % B = t
  BY <1>2, DivideNatural
<1>4. a < B
  <2>1. a >= B => a * B >= B * B
    OBVIOUS
  <2>2. a * B \in Nat /\ B * B \in Nat
    BY ProductLemma
  <2> QED BY <1>2, <1>3, <2>1, <2>2
<1> QED BY <1>1, <1>3, <1>4 DEF ByteType, WordOf

LEMMA SwappedWord ==
  ASSUME NEW w \in WordType
  PROVE  Swapped(w) \in WordType /\ Swapped(Swapped(w)) = w
<1>1. w \div Byte \in ByteType /\ w % Byte \in ByteType /\ w = WordOf(w \div Byte, w % Byte)
  BY SplitWord
<1>2. PICK a \in ByteType, b \in ByteType : a = w \div Byte /\ b = w % Byte /\ w = WordOf(a, b)
  BY <1>1
<1>3. Swapped(w) = WordOf(b, a)
  BY <1>2 DEF Swapped
<1>4. WordOf(b, a) \in WordType /\ WordOf(b, a) \div Byte = b /\ WordOf(b, a) % Byte = a
  BY BytesLemma
<1>5. Swapped(WordOf(b, a)) = WordOf(a, b)
  BY <1>4 DEF Swapped
<1> QED BY <1>2, <1>3, <1>4, <1>5

LEMMA WordsAreNumbers ==
  ASSUME NEW words \in Seq(WordType)
  PROVE  words \in Seq(Nat)
<1>1. \A i \in 1 .. Len(words) : words[i] \in Nat
  <2>1. \A i \in 1 .. Len(words) : words[i] \in WordType
    OBVIOUS
  <2> QED BY <2>1 DEF WordType
<1> QED BY <1>1

LEMMA DigitsType ==
  ASSUME NEW count \in Nat, NEW e \in EncodingType, NEW v \in Int
  PROVE  /\ Digits(v, count, e) \in Seq(WordType) /\ Len(Digits(v, count, e)) = count
<1>1. ASSUME NEW i \in 1 .. count
      PROVE  (v \div Power(Word, Significance(e, i, count))) % Word \in WordType
  <2>0. i - 1 \in Nat /\ count - i \in Nat
    OBVIOUS
  <2>1. PICK k \in Nat : k = Significance(e, i, count)
    BY <2>0, Zenon DEF Significance
  <2>2. PICK p \in Nat \ {0} : p = Power(Word, k)
    BY PowerLemma, WordFacts
  <2>3. PICK x \in Int : x = v \div p
    BY DivideLemma
  <2>4. PICK w \in Nat \ {0} : w = Word
    BY WordFacts
  <2>5. x % w \in 0 .. w - 1
    BY DivideLemma
  <2> QED BY <2>1, <2>2, <2>3, <2>4, <2>5 DEF WordType
<1>2. Digits(v, count, e) \in [1 .. count -> WordType]
  BY <1>1 DEF Digits
<1> QED BY <1>2

LEMMA StringWordsType ==
  ASSUME NEW count \in Nat, NEW e \in EncodingType, NEW text \in Seq(ByteType)
  PROVE  /\ StringWords(text, count, e) \in Seq(WordType) /\ Len(StringWords(text, count, e)) = count
<1> DEFINE b == Filled(text, count, e.fill)
<1>1. ASSUME NEW i \in 1 .. 2 * count
      PROVE  b[i] \in ByteType
  <2>1. b[i] = IF i <= Len(text) THEN text[i] ELSE e.fill
    BY DEF Filled
  <2>2. e.fill \in ByteType
    BY DEF EncodingType, ByteType
  <2>3. i <= Len(text) => text[i] \in ByteType
    BY SMT
  <2> QED BY <2>1, <2>2, <2>3
<1> HIDE DEF b
<1>2. ASSUME NEW i \in 1 .. count
      PROVE  /\ WordOf(b[2 * i], b[2 * i - 1]) \in WordType
             /\ WordOf(b[2 * i - 1], b[2 * i]) \in WordType
  <2>1. 2 * i \in 1 .. 2 * count /\ 2 * i - 1 \in 1 .. 2 * count
    OBVIOUS
  <2> QED BY <1>1, <2>1, BytesLemma
<1>3. StringWords(text, count, e) \in [1 .. count -> WordType]
  <2>1. StringWords(text, count, e) =
          [i \in 1 .. count |-> IF e.byte_le THEN WordOf(b[2 * i], b[2 * i - 1])
                                             ELSE WordOf(b[2 * i - 1], b[2 * i])]
    BY DEF StringWords, b
  <2> QED BY <1>2, <2>1
<1> QED BY <1>3

-----------------------------------------------------------------------------
(***************************************************************************)
(* A total of differences is the difference of the ends.                   *)
(***************************************************************************)
Totals(s, f, n) == s = [k \in 0 .. n |-> IF k = 0 THEN 0 ELSE s[k - 1] + f[k]]
Telescopes(f, h, n) ==
    /\ \A k \in 0 .. n : h[k] \in Int
    /\ \A k \in 1 .. n : f[k] = h[k] - h[k - 1]

LEMMA TotalLemma ==
  ASSUME NEW n \in Nat, NEW f, NEW h, Telescopes(f, h, n)
  PROVE  Total(f, n) = h[n] - h[0]
<1> DEFINE s == CHOOSE s : Totals(s, f, n)
           t == [k \in 0 .. n |-> h[k] - h[0]]
           Body(k) == IF k = 0 THEN 0 ELSE t[k - 1] + f[k]
<1>1. Total(f, n) = s[n]
  BY Zenon DEF Total, Totals
<1>2. ASSUME NEW k \in 0 .. n PROVE t[k] = Body(k)
  <2>1. CASE k = 0
    BY <2>1 DEF Telescopes
  <2>2. CASE k # 0
    <3>1. k - 1 \in 0 .. n /\ k \in 1 .. n
      BY <2>2
    <3> QED BY <2>2, <3>1 DEF Telescopes
  <2> QED BY <2>1, <2>2
<1>3. t = [k \in 0 .. n |-> Body(k)]
  BY <1>2
<1>4. Totals(t, f, n)
  BY <1>3, Zenon DEF Totals
<1>5. Totals(s, f, n)
  BY <1>4, Zenon
<1> HIDE DEF s, t
<1>6. \A k \in 0 .. n : s[k] = IF k = 0 THEN 0 ELSE s[k - 1] + f[k]
  BY <1>5 DEF Totals
<1> DEFINE P == {k \in Nat : k <= n => s[k] = h[k] - h[0]}
<1>7. 0 \in P
  BY <1>6 DEF Telescopes
<1>8. ASSUME NEW k \in Nat, k \in P
      PROVE  k + 1 \in P
  <2> SUFFICES ASSUME k + 1 <= n PROVE s[k + 1] = h[k + 1] - h[0]
    OBVIOUS
  <2>1. k \in 0 .. n /\ k + 1 \in 1 .. n /\ k + 1 \in 0 .. n /\ k + 1 - 1 = k /\ 0 \in 0 .. n
    OBVIOUS
  <2>2. s[k] = h[k] - h[0]
    BY <1>8, <2>1
  <2>3. s[k + 1] = s[k] + f[k + 1]
    BY <1>6, <2>1
  <2>4. f[k + 1] = h[k + 1] - h[k] /\ h[k + 1] \in Int /\ h[k] \in Int /\ h[0] \in Int
    BY <2>1 DEF Telescopes
  <2> QED BY <2>2, <2>3, <2>4
<1> HIDE DEF P
<1>9. n \in P
  BY <1>7, <1>8, InductiveSet
<1> QED BY <1>1, <1>9 DEF P

(***************************************************************************)
(* The terms of the sum a pattern is, for words with the high byte first.  *)
(***************************************************************************)
Terms(plain, e) ==
    [i \in 1 .. Len(plain) |->
        plain[i] * Power(Word, IF e.word_le THEN i - 1 ELSE Len(plain) - i)]

(***************************************************************************)
(* The digits of a number make up the number, but for what is beyond them. *)
(***************************************************************************)
LEMMA NestedDivide ==
  ASSUME NEW a \in Nat \ {0}, NEW b \in Nat \ {0}, NEW x \in Int
  PROVE  x \div (b * a) = (x \div a) \div b
<1>1. PICK q \in Int, r \in 0 .. a - 1 : q = x \div a /\ x = a * q + r
  BY DivideLemma
<1>2. PICK t \in Int, s \in 0 .. b - 1 : t = q \div b /\ q = b * t + s
  BY DivideLemma
<1> DEFINE k == b * a
           low == s * a + r
<1>3. x = t * k + low
  <2>1. a * (b * t + s) = a * (b * t) + a * s
    OBVIOUS
  <2>2. a * (b * t) = t * (b * a)
    OBVIOUS
  <2> QED BY <1>1, <1>2, <2>1, <2>2
<1>4. k \in Nat \ {0} /\ low \in 0 .. k - 1
  <2>1. s * a <= (b - 1) * a /\ s * a >= 0
    OBVIOUS
  <2>2. (b - 1) * a = b * a - a
    OBVIOUS
  <2>3. k \in Nat \ {0}
    BY ProductLemma
  <2> QED BY <2>1, <2>2, <2>3
<1> HIDE DEF k, low
<1>5. (t * k + low) \div k = t
  BY <1>4, QuotientLemma
<1> QED BY <1>1, <1>2, <1>3, <1>5 DEF k

Higher(v, j) == (v \div Power(Word, j)) * Power(Word, j)

LEMMA DigitLemma ==
  ASSUME NEW v \in Int, NEW j \in Nat
  PROVE  /\ Higher(v, j) \in Int
         /\ ((v \div Power(Word, j)) % Word) * Power(Word, j) = Higher(v, j) - Higher(v, j + 1)
<1>1. PICK p \in Nat \ {0}, w \in Nat \ {0} :
         p = Power(Word, j) /\ w = Word /\ Power(Word, j + 1) = w * p
  <2>1. Power(Word, j) \in Nat \ {0} /\ Power(Word, j + 1) = Word * Power(Word, j)
    BY PowerLemma, WordFacts
  <2> QED BY <2>1, WordFacts
<1>2. PICK q \in Int : q = v \div p
  BY DivideLemma
<1>3. PICK t \in Int, d \in 0 .. w - 1 : t = q \div w /\ d = q % w /\ q = w * t + d
  BY DivideLemma
<1>4. v \div (w * p) = t
  BY <1>2, <1>3, NestedDivide
<1>5. d * p = q * p - t * (w * p)
  <2>1. (w * t + d) * p = (w * t) * p + d * p
    OBVIOUS
  <2>2. (w * t) * p = t * (w * p)
    OBVIOUS
  <2>3. t * (w * p) \in Int /\ d * p \in Int
    OBVIOUS
  <2>4. q * p = (w * t + d) * p
    BY <1>3
  <2>5. q * p = t * (w * p) + d * p
    BY <2>1, <2>2, <2>4
  <2> QED BY <2>3, <2>5
<1>6. q * p \in Int
  OBVIOUS
<1> QED BY <1>1, <1>2, <1>3, <1>4, <1>5, <1>6 DEF Higher

LEMMA DigitsLemma ==
  ASSUME NEW n \in Nat, NEW e \in EncodingType, NEW v \in Int
  PROVE  Total(Terms(Digits(v, n, e), e), n) = v - Higher(v, n)
<1> DEFINE d == Digits(v, n, e)
           f == Terms(d, e)
<1>0. Len(d) = n /\ e.word_le \in BOOLEAN /\ 0 \in 0 .. n /\ n \in 0 .. n
  BY DigitsType DEF EncodingType
<1>1. Higher(v, 0) = v
  BY PowerLemma, WordFacts DEF Higher
<1>2. CASE ~e.word_le
  <2> DEFINE h == [k \in 0 .. n |-> Higher(v, n - k)]
  <2>1. \A k \in 1 .. n : f[k] = ((v \div Power(Word, n - k)) % Word) * Power(Word, n - k)
    BY <1>0, <1>2 DEF Terms, Digits, Significance
  <2> HIDE DEF f
  <2>2. \A k \in 0 .. n : h[k] \in Int
    BY DigitLemma
  <2>3. ASSUME NEW k \in 1 .. n PROVE f[k] = h[k] - h[k - 1]
    <3>1. k - 1 \in 0 .. n /\ k \in 0 .. n /\ n - k \in Nat /\ n - (k - 1) = n - k + 1
      OBVIOUS
    <3>2. h[k] = Higher(v, n - k) /\ h[k - 1] = Higher(v, n - k + 1)
      BY <3>1
    <3> HIDE DEF h
    <3> QED BY <2>1, <3>1, <3>2, DigitLemma
  <2>4. Telescopes(f, h, n)
    BY <2>2, <2>3 DEF Telescopes
  <2>5. Total(f, n) = h[n] - h[0]
    BY <2>4, TotalLemma
  <2>6. h[n] = v /\ h[0] = Higher(v, n)
    BY <1>0, <1>1
  <2> HIDE DEF h
  <2> QED BY <2>5, <2>6 DEF f
<1>3. CASE e.word_le
  <2> DEFINE h == [k \in 0 .. n |-> -Higher(v, k)]
  <2>1. \A k \in 1 .. n : f[k] = ((v \div Power(Word, k - 1)) % Word) * Power(Word, k - 1)
    BY <1>0, <1>3 DEF Terms, Digits, Significance
  <2> HIDE DEF f
  <2>2. \A k \in 0 .. n : h[k] \in Int /\ Higher(v, k) \in Int
    BY DigitLemma
  <2>3. ASSUME NEW k \in 1 .. n PROVE f[k] = h[k] - h[k - 1]
    <3>1. k - 1 \in 0 .. n /\ k \in 0 .. n /\ k - 1 \in Nat /\ k - 1 + 1 = k
      OBVIOUS
    <3>2. h[k] = -Higher(v, k) /\ h[k - 1] = -Higher(v, k - 1)
      BY <3>1
    <3>3. f[k] = Higher(v, k - 1) - Higher(v, k)
      BY <2>1, <3>1, DigitLemma
    <3>4. Higher(v, k) \in Int /\ Higher(v, k - 1) \in Int
      BY <2>2, <3>1
    <3> HIDE DEF h
    <3> QED BY <3>2, <3>3, <3>4
  <2>4. Telescopes(f, h, n)
    BY <2>2, <2>3 DEF Telescopes
  <2>5. Total(f, n) = h[n] - h[0]
    BY <2>4, TotalLemma
  <2>6. h[n] = -Higher(v, n) /\ h[0] = -v /\ Higher(v, n) \in Int
    BY <1>0, <1>1, <2>2
  <2> HIDE DEF h
  <2> QED BY <2>5, <2>6 DEF f
<1> QED BY <1>0, <1>2, <1>3

LEMMA StraightLemma ==
  ASSUME NEW w \in WordType, NEW e \in EncodingType
  PROVE  /\ e.byte_le => Straight(w, e) = Swapped(w)
         /\ ~e.byte_le => Straight(w, e) = w
<1>1. w = WordOf(w \div Byte, w % Byte)
  BY SplitWord
<1>2. e.byte_le => Straight(w, e) = WordOf(w % Byte, w \div Byte)
  BY DEF Straight, BytesInOrder
<1>3. ~e.byte_le => Straight(w, e) = WordOf(w \div Byte, w % Byte)
  BY DEF Straight, BytesInOrder
<1> QED BY <1>1, <1>2, <1>3 DEF Swapped

(***************************************************************************)
(* The pattern of words is the number of the words put straight.           *)
(***************************************************************************)
Straightens(words, plain, e) ==
    /\ Len(words) = Len(plain)
    /\ \A i \in 1 .. Len(words) : Straight(words[i], e) = plain[i]

LEMMA PatternLemma ==
  ASSUME NEW words \in Seq(WordType), NEW plain \in Seq(Nat), NEW e \in EncodingType,
         Straightens(words, plain, e)
  PROVE  Pattern(words, e) = Total(Terms(plain, e), Len(plain))
<1> DEFINE n == Len(words)
           f == [i \in 1 .. n |->
                   Straight(words[i], e) * Power(Word, IF e.word_le THEN i - 1 ELSE n - i)]
<1>1. n = Len(plain) /\ \A i \in 1 .. n : Straight(words[i], e) = plain[i]
  BY DEF Straightens
<1>2. f = Terms(plain, e)
  BY <1>1 DEF Terms
<1>3. Pattern(words, e) = Total(f, n)
  BY DEF Pattern
<1> QED BY <1>1, <1>2, <1>3

(***************************************************************************)
(* Strings: the bytes come out in the order they went in, and the fill     *)
(* ends the string.                                                        *)
(***************************************************************************)
LEMMA PairLemma ==
  ASSUME NEW a \in ByteType, NEW b \in ByteType, NEW e \in EncodingType
  PROVE  BytesInOrder(IF e.byte_le THEN WordOf(b, a) ELSE WordOf(a, b), e) = <<a, b>>
<1>1. /\ WordOf(a, b) \div Byte = a /\ WordOf(a, b) % Byte = b
      /\ WordOf(b, a) \div Byte = b /\ WordOf(b, a) % Byte = a
  BY BytesLemma
<1>2. e.byte_le \in BOOLEAN
  BY DEF EncodingType
<1> QED BY <1>1, <1>2 DEF BytesInOrder

StringIn(bytes, text, fill) ==
    /\ Len(text) <= Len(bytes)
    /\ \A i \in 1 .. Len(bytes) : bytes[i] = IF i <= Len(text) THEN text[i] ELSE fill
    /\ \A i \in 1 .. Len(text) : text[i] # fill

LEMMA UpToFillLemma ==
  ASSUME NEW S, NEW bytes \in Seq(S), NEW text \in Seq(S), NEW fill, StringIn(bytes, text, fill)
  PROVE  UpToFill(bytes, fill) = text
<1> DEFINE m == Len(bytes)
           n == Len(text)
           Here(k) == /\ \A i \in 1 .. k : bytes[i] # fill
                      /\ k < m => bytes[k + 1] = fill
<1>1. /\ m \in Nat /\ n \in Nat /\ n <= m
      /\ \A i \in 1 .. m : bytes[i] = IF i <= n THEN text[i] ELSE fill
      /\ \A i \in 1 .. n : text[i] # fill
  BY DEF StringIn
<1> HIDE DEF m, n
<1>2. n \in 0 .. m /\ Here(n)
  BY <1>1
<1>3. ASSUME NEW k \in 0 .. m, Here(k) PROVE k = n
  <2>1. ~(k < n)
    <3> SUFFICES ASSUME k < n PROVE FALSE
      OBVIOUS
    <3>1. k + 1 \in 1 .. n /\ k + 1 \in 1 .. m /\ k < m
      BY <1>1
    <3> QED BY <1>1, <1>3, <3>1
  <2>2. ~(n < k)
    <3> SUFFICES ASSUME n < k PROVE FALSE
      OBVIOUS
    <3>1. n + 1 \in 1 .. k /\ n + 1 \in 1 .. m /\ ~(n + 1 <= n)
      BY <1>1
    <3> QED BY <1>1, <1>3, <3>1
  <2> QED BY <1>1, <2>1, <2>2
<1>4. (CHOOSE k \in 0 .. m : Here(k)) = n
  <2> HIDE DEF Here
  <2> QED BY <1>2, <1>3
<1>5. UpToFill(bytes, fill) = SubSeq(bytes, 1, n)
  BY <1>4 DEF UpToFill, m
<1>6. SubSeq(bytes, 1, n) = text
  <2>1. /\ SubSeq(bytes, 1, n) \in Seq(S) /\ Len(SubSeq(bytes, 1, n)) = n
        /\ \A i \in 1 .. n : SubSeq(bytes, 1, n)[i] = bytes[i]
    BY <1>1 DEF m
  <2>2. \A i \in 1 .. n : SubSeq(bytes, 1, n)[i] = text[i]
    BY <1>1, <2>1
  <2> QED BY <2>1, <2>2 DEF n
<1> QED BY <1>5, <1>6

(***************************************************************************)
(* The bytes of a string come out of its words in the order they went in.  *)
(***************************************************************************)
LEMMA StringBytes ==
  ASSUME NEW count \in Nat, NEW e \in EncodingType, e.type = "string", NEW text \in Seq(ByteType)
  PROVE  /\ Filled(text, count, e.fill) \in [1 .. 2 * count -> ByteType]
         /\ Meaning(StringWords(text, count, e), e) =
              UpToFill(Filled(text, count, e.fill), e.fill)
<1> DEFINE b == Filled(text, count, e.fill)
           w == StringWords(text, count, e)
           out == [j \in 1 .. 2 * Len(w) |->
                     BytesInOrder(w[(j + 1) \div 2], e)[IF j % 2 = 1 THEN 1 ELSE 2]]
<1>0. Len(text) \in Nat /\ e.fill \in ByteType /\ \A i \in 1 .. Len(text) : text[i] \in ByteType
  <2> HIDE DEF ByteType
  <2>1. e.fill \in ByteType
    BY DEF EncodingType, ByteType
  <2> QED BY <2>1
<1>2. \A i \in 1 .. 2 * count : b[i] = IF i <= Len(text) THEN text[i] ELSE e.fill
  BY DEF Filled
<1>1. b \in [1 .. 2 * count -> ByteType]
  <2>1. b = [i \in 1 .. 2 * count |-> b[i]]
    BY DEF Filled
  <2> HIDE DEF b, ByteType
  <2>2. \A i \in 1 .. 2 * count : b[i] \in ByteType
    BY <1>0, <1>2
  <2> QED BY <2>1, <2>2
<1>3. /\ Len(w) = count
      /\ \A i \in 1 .. count : w[i] = IF e.byte_le THEN WordOf(b[2 * i], b[2 * i - 1])
                                                    ELSE WordOf(b[2 * i - 1], b[2 * i])
  BY DEF StringWords
<1> HIDE DEF b, w
<1>4. ASSUME NEW i \in 1 .. count
      PROVE  BytesInOrder(w[i], e)[1] = b[2 * i - 1] /\ BytesInOrder(w[i], e)[2] = b[2 * i]
  <2>1. 2 * i - 1 \in 1 .. 2 * count /\ 2 * i \in 1 .. 2 * count
    OBVIOUS
  <2>2. PICK x \in ByteType, y \in ByteType : x = b[2 * i - 1] /\ y = b[2 * i]
    BY <1>1, <2>1
  <2>3. BytesInOrder(w[i], e) = <<x, y>>
    BY <1>3, <2>2, PairLemma
  <2> QED BY <2>2, <2>3
<1>5. ASSUME NEW j \in 1 .. 2 * count PROVE out[j] = b[j]
  <2>1. PICK i \in 1 .. count : i = (j + 1) \div 2 /\ j = IF j % 2 = 1 THEN 2 * i - 1 ELSE 2 * i
    OBVIOUS
  <2>2. out[j] = BytesInOrder(w[i], e)[IF j % 2 = 1 THEN 1 ELSE 2]
    BY <1>3, <2>1
  <2> QED BY <1>4, <2>1, <2>2
<1>6. out = b
  <2>1. out = [j \in 1 .. 2 * count |-> out[j]] /\ b = [j \in 1 .. 2 * count |-> b[j]]
    BY <1>1, <1>3
  <2> HIDE DEF out
  <2> QED BY <1>5, <2>1, Zenon
<1>7. Meaning(w, e) = UpToFill(out, e.fill)
  BY DEF Meaning
<1> HIDE DEF out
<1> QED BY <1>1, <1>6, <1>7 DEF b, w

LEMMA StringMeans ==
  ASSUME NEW count \in Nat, NEW e \in EncodingType, e.type = "string",
         NEW text \in Seq(ByteType), Len(text) <= 2 * count, e.fill \notin Range(text)
  PROVE  Meaning(StringWords(text, count, e), e) = text
<1> DEFINE b == Filled(text, count, e.fill)
<1>1. /\ b \in [1 .. 2 * count -> ByteType]
      /\ Meaning(StringWords(text, count, e), e) = UpToFill(b, e.fill)
  BY StringBytes
<1>2. \A i \in 1 .. 2 * count : b[i] = IF i <= Len(text) THEN text[i] ELSE e.fill
  BY DEF Filled
<1> HIDE DEF b
<1>3. b \in Seq(ByteType) /\ Len(b) = 2 * count
  BY <1>1
<1>4. StringIn(b, text, e.fill)
  <2>1. \A i \in 1 .. Len(text) : text[i] # e.fill
    <3>1. \A i \in 1 .. Len(text) : text[i] \in Range(text)
      BY DEF Range
    <3> QED BY <3>1
  <2> QED BY <1>2, <1>3, <2>1 DEF StringIn
<1>5. UpToFill(b, e.fill) = text
  BY <1>3, <1>4, UpToFillLemma
<1> QED BY <1>1, <1>5

-----------------------------------------------------------------------------
(***************************************************************************)
(* Words that are, put straight, the digits of a number mean the number.   *)
(***************************************************************************)
LEMMA DigitsMean ==
  ASSUME NEW count \in Nat, NEW e \in EncodingType, e.type \in {"integer", "float"}, NEW v \in Int,
         NEW words \in Seq(WordType), Straightens(words, Digits(v, count, e), e),
         e.type = "integer" => Representable(v, count, e),
         e.type = "float" => 0 <= v /\ v < Power(Word, count)
  PROVE  Meaning(words, e) = v
<1> DEFINE d == Digits(v, count, e)
           x == Pattern(words, e)
<1>1. PICK p \in Nat \ {0} : p = Power(Word, count)
  BY PowerLemma, WordFacts
<1>2. Len(words) = count /\ x = v - (v \div p) * p
  <2>1. d \in Seq(WordType) /\ Len(d) = count
    BY DigitsType
  <2>2. d \in Seq(Nat)
    BY <2>1, WordsAreNumbers
  <2>3. Pattern(words, e) = Total(Terms(d, e), count)
    BY <2>1, <2>2, PatternLemma
  <2>4. Total(Terms(d, e), count) = v - Higher(v, count)
    BY DigitsLemma
  <2> HIDE DEF d
  <2> QED BY <1>1, <2>1, <2>3, <2>4 DEF Higher, Straightens, d
<1>3. 0 <= v /\ v < p => x = v
  <2>1. 0 <= v /\ v < p => (0 * p + v) \div p = 0
    BY QuotientLemma
  <2> QED BY <1>2, <2>1
<1>4. -p <= v /\ v < 0 => x = v + p
  <2>1. -p <= v /\ v < 0 => ((-1) * p + (v + p)) \div p = -1
    BY QuotientLemma
  <2>2. (-1) * p + (v + p) = v
    OBVIOUS
  <2> QED BY <1>2, <2>1, <2>2
<1> HIDE DEF x, d
<1>5. CASE e.type = "float"
  BY <1>1, <1>3, <1>5 DEF Meaning, x
<1>6. CASE e.type = "integer"
  <2>1. Meaning(words, e) = IF e.signed /\ 2 * x >= p THEN x - p ELSE x
    BY <1>1, <1>2, <1>6 DEF Meaning, x
  <2>2. IF e.signed THEN -p <= 2 * v /\ 2 * v < p ELSE 0 <= v /\ v < p
    BY <1>1, <1>6 DEF Representable
  <2>3. CASE v >= 0
    <3>1. x = v
      BY <1>3, <2>2, <2>3
    <3> QED BY <2>1, <2>2, <3>1
  <2>4. CASE v < 0
    <3>1. e.signed /\ -p <= 2 * v
      BY <2>2, <2>4
    <3>2. -p <= v
      BY <2>4, <3>1
    <3>3. x = v + p
      BY <1>4, <2>4, <3>2
    <3> QED BY <2>1, <3>1, <3>3
  <2> QED BY <2>3, <2>4
<1> QED BY <1>5, <1>6

(***************************************************************************)
(* The bytes of a number are its digits; those of its opposite are what    *)
(* Negated makes of them.                                                  *)
(***************************************************************************)
RestOf(f, v, n) == f = [i \in 0 .. n |-> IF i = 0 THEN v ELSE f[i - 1] \div Byte]
Divided(f, v, n) ==
    /\ f[0] = v /\ \A i \in 0 .. n : f[i] \in Int
    /\ \A i \in 1 .. n : f[i] = f[i - 1] \div Byte

LEMMA BytesOf ==
  ASSUME NEW v \in Int, NEW n \in Nat
  PROVE  \E f : /\ Divided(f, v, n)
                /\ BytesLe(v, n) = [i \in 1 .. n |-> f[i - 1] % Byte]
<1> DEFINE step == [k \in Nat |-> [x \in Int |-> x \div Byte]]
<1>1. Stepping(step, Int)
  <2>1. \A x \in Int : x \div Byte \in Int
    BY WidthAssumption
  <2> QED BY <2>1 DEF Stepping
<1> HIDE DEF step
<1>2. PICK g : Iterated(g, Int, v, step)
  BY <1>1, Iterates
<1>3. /\ g \in [Nat -> Int] /\ g[0] = v
      /\ \A k \in Nat : g[k + 1] = g[k] \div Byte
  BY <1>2 DEF Iterated, step
<1> DEFINE h == [i \in 0 .. n |-> g[i]]
           f == CHOOSE f : RestOf(f, v, n)
           Body(i) == IF i = 0 THEN v ELSE h[i - 1] \div Byte
<1>4. ASSUME NEW i \in 0 .. n PROVE h[i] = Body(i)
  <2>1. i # 0 => i - 1 \in Nat /\ i - 1 + 1 = i /\ i - 1 \in 0 .. n
    OBVIOUS
  <2> QED BY <1>3, <2>1
<1>5. h = [i \in 0 .. n |-> Body(i)]
  BY <1>4
<1>6. RestOf(h, v, n)
  BY <1>5, Zenon DEF RestOf
<1>7. RestOf(f, v, n)
  BY <1>6, Zenon
<1>8. BytesLe(v, n) = [i \in 1 .. n |-> f[i - 1] % Byte]
  BY Zenon DEF BytesLe, RestOf
<1> HIDE DEF f, h
<1>9. \A i \in 0 .. n : f[i] = IF i = 0 THEN v ELSE f[i - 1] \div Byte
  BY <1>7 DEF RestOf
<1> DEFINE P == {i \in Nat : i <= n => f[i] \in Int}
<1>10. 0 \in P
  BY <1>9
<1>11. \A i \in Nat : i \in P => i + 1 \in P
  <2> SUFFICES ASSUME NEW i \in Nat, i \in P, i + 1 <= n
               PROVE  f[i + 1] \in Int
    OBVIOUS
  <2>1. i + 1 \in 0 .. n /\ i + 1 # 0 /\ i + 1 - 1 = i /\ f[i] \in Int
    OBVIOUS
  <2>2. f[i + 1] = f[i] \div Byte
    BY <1>9, <2>1
  <2> QED BY <2>1, <2>2, WidthAssumption
<1> HIDE DEF P
<1>12. Nat \subseteq P
  BY <1>10, <1>11, InductiveSet
<1>13. Divided(f, v, n)
  <2>1. \A i \in 0 .. n : f[i] \in Int
    BY <1>12 DEF P
  <2>2. \A i \in 1 .. n : f[i] = f[i - 1] \div Byte
    BY <1>9
  <2>3. f[0] = v
    BY <1>9
  <2> QED BY <2>1, <2>2, <2>3 DEF Divided
<1> QED BY <1>8, <1>13

LEMMA NegatedBytes ==
  ASSUME NEW m \in Int, NEW n \in Nat
  PROVE  Negated(BytesLe(m, n)) = BytesLe(-m, n)
<1>1. PICK f : Divided(f, m, n) /\ BytesLe(m, n) = [i \in 1 .. n |-> f[i - 1] % Byte]
  BY BytesOf
<1>2. PICK g : Divided(g, -m, n) /\ BytesLe(-m, n) = [i \in 1 .. n |-> g[i - 1] % Byte]
  <2>1. -m \in Int
    OBVIOUS
  <2> QED BY <2>1, BytesOf
<1>3. PICK B \in Nat \ {0} : B = Byte
  BY WidthAssumption
<1> DEFINE b == BytesLe(m, n)
           Nonzero(i) == \E k \in 1 .. i : b[k] # 0
           P == {i \in Nat : i <= n => g[i] = -f[i] - (IF Nonzero(i) THEN 1 ELSE 0)}
<1>4. /\ f[0] = m /\ g[0] = -m
      /\ \A i \in 0 .. n : f[i] \in Int /\ g[i] \in Int
      /\ \A i \in 1 .. n : f[i] = f[i - 1] \div B /\ g[i] = g[i - 1] \div B
  BY <1>1, <1>2, <1>3 DEF Divided
<1>5. \A i \in 1 .. n : b[i] = f[i - 1] % B
  BY <1>1, <1>3
<1> HIDE DEF b
<1>6. ASSUME NEW i \in 1 .. n, i - 1 \in P
      PROVE  /\ i \in P
             /\ g[i - 1] % B = IF Nonzero(i - 1) THEN B - 1 - b[i]
                               ELSE IF b[i] = 0 THEN 0 ELSE B - b[i]
  <2>1. i \in Nat /\ i - 1 \in 0 .. n /\ i \in 0 .. n /\ i - 1 <= n
    OBVIOUS
  <2>2. PICK x \in Int, d \in 0 .. B - 1 : x = f[i] /\ d = b[i] /\ f[i - 1] = B * x + d
    <3>1. PICK y \in Int : y = f[i - 1]
      BY <1>4, <2>1
    <3>2. y \div B \in Int /\ y % B \in 0 .. B - 1 /\ y = B * (y \div B) + (y % B)
      BY DivideLemma
    <3> QED BY <1>4, <1>5, <3>1, <3>2
  <2>3. g[i - 1] = -(B * x + d) - (IF Nonzero(i - 1) THEN 1 ELSE 0)
    BY <1>6, <2>1, <2>2
  <2>4. g[i] = g[i - 1] \div B
    BY <1>4
  <2>5. Nonzero(i) <=> Nonzero(i - 1) \/ d # 0
    <3>1. \A k \in 1 .. i : k = i \/ k \in 1 .. i - 1
      OBVIOUS
    <3>2. \A k \in 1 .. i - 1 : k \in 1 .. i
      OBVIOUS
    <3>3. i \in 1 .. i
      OBVIOUS
    <3> QED BY <2>2, <3>1, <3>2, <3>3
  <2> HIDE DEF Nonzero
  <2>6. CASE Nonzero(i - 1)
    <3>1. -x - 1 \in Int /\ B - 1 - d \in 0 .. B - 1
      OBVIOUS
    <3>2. ((-x - 1) * B + (B - 1 - d)) \div B = -x - 1 /\ ((-x - 1) * B + (B - 1 - d)) % B = B - 1 - d
      BY <3>1, QuotientLemma
    <3>3. (-x - 1) * B + (B - 1 - d) = -(B * x + d) - 1
      OBVIOUS
    <3>4. g[i - 1] = (-x - 1) * B + (B - 1 - d)
      BY <2>3, <2>6, <3>3
    <3> QED BY <2>1, <2>2, <2>4, <2>5, <2>6, <3>2, <3>4
  <2>7. CASE ~Nonzero(i - 1) /\ d = 0
    <3>1. -x \in Int /\ 0 \in 0 .. B - 1
      OBVIOUS
    <3>2. ((-x) * B + 0) \div B = -x /\ ((-x) * B + 0) % B = 0
      BY <3>1, QuotientLemma
    <3>3. (-x) * B + 0 = -(B * x + d)
      BY <2>7
    <3>4. g[i - 1] = (-x) * B + 0
      BY <2>3, <2>7, <3>3
    <3> QED BY <2>1, <2>2, <2>4, <2>5, <2>7, <3>2, <3>4
  <2>8. CASE ~Nonzero(i - 1) /\ d # 0
    <3>1. -x - 1 \in Int /\ B - d \in 0 .. B - 1
      BY <2>8
    <3>2. ((-x - 1) * B + (B - d)) \div B = -x - 1 /\ ((-x - 1) * B + (B - d)) % B = B - d
      BY <3>1, QuotientLemma
    <3>3. (-x - 1) * B + (B - d) = -(B * x + d)
      OBVIOUS
    <3>4. g[i - 1] = (-x - 1) * B + (B - d)
      BY <2>3, <2>8, <3>3
    <3> QED BY <2>1, <2>2, <2>4, <2>5, <2>8, <3>2, <3>4
  <2> QED BY <2>6, <2>7, <2>8
<1>7. 0 \in P
  <2>1. ~Nonzero(0)
    OBVIOUS
  <2> QED BY <1>4, <2>1
<1>8. \A i \in Nat : i \in P => i + 1 \in P
  <2> SUFFICES ASSUME NEW i \in Nat, i \in P, i + 1 <= n PROVE i + 1 \in P
    OBVIOUS
  <2>1. i + 1 \in 1 .. n /\ i + 1 - 1 = i
    OBVIOUS
  <2> HIDE DEF P
  <2> QED BY <1>6, <2>1
<1> HIDE DEF P
<1>9. Nat \subseteq P
  BY <1>7, <1>8, InductiveSet
<1>10. \A i \in 1 .. n : g[i - 1] % B = IF Nonzero(i - 1) THEN B - 1 - b[i]
                                        ELSE IF b[i] = 0 THEN 0 ELSE B - b[i]
  <2>1. \A i \in 1 .. n : i - 1 \in Nat
    OBVIOUS
  <2> QED BY <1>6, <1>9, <2>1
<1>11. DOMAIN b = 1 .. n
  BY <1>1 DEF b
<1>12. Negated(b) = [i \in 1 .. n |-> IF Nonzero(i - 1) THEN B - 1 - b[i]
                                      ELSE IF b[i] = 0 THEN 0 ELSE B - b[i]]
  BY <1>3, <1>11 DEF Negated
<1> HIDE DEF Nonzero
<1>13. Negated(b) = [i \in 1 .. n |-> g[i - 1] % B]
  BY <1>10, <1>12
<1> QED BY <1>2, <1>3, <1>13 DEF b

LEMMA BytesAreDigits ==
  ASSUME NEW v \in Int, NEW n \in Nat
  PROVE  BytesLe(v, n) = [i \in 1 .. n |-> (v \div Power(Byte, i - 1)) % Byte]
<1>1. PICK f : Divided(f, v, n) /\ BytesLe(v, n) = [i \in 1 .. n |-> f[i - 1] % Byte]
  BY BytesOf
<1> DEFINE P == {i \in Nat : i <= n => f[i] = v \div Power(Byte, i)}
<1>2. 0 \in P
  <2>1. Power(Byte, 0) = 1
    BY PowerLemma, WordFacts
  <2>2. v \div 1 = v
    OBVIOUS
  <2>3. f[0] = v
    BY <1>1 DEF Divided
  <2> QED BY <2>1, <2>2, <2>3
<1>3. ASSUME NEW i \in Nat, i \in P PROVE i + 1 \in P
  <2> SUFFICES ASSUME i + 1 <= n PROVE f[i + 1] = v \div Power(Byte, i + 1)
    OBVIOUS
  <2>1. i + 1 \in 1 .. n /\ i + 1 - 1 = i /\ f[i] = v \div Power(Byte, i)
    BY <1>3
  <2>2. f[i + 1] = f[i] \div Byte
    BY <1>1, <2>1 DEF Divided
  <2>3. PICK p \in Nat \ {0}, B \in Nat \ {0} :
           p = Power(Byte, i) /\ B = Byte /\ Power(Byte, i + 1) = B * p
    <3>1. Power(Byte, i) \in Nat \ {0} /\ Power(Byte, i + 1) = Byte * Power(Byte, i)
      BY PowerLemma, WordFacts
    <3> QED BY <3>1, WordFacts
  <2>4. v \div (B * p) = (v \div p) \div B
    BY NestedDivide
  <2> QED BY <2>1, <2>2, <2>3, <2>4
<1> HIDE DEF P
<1>4. Nat \subseteq P
  BY <1>2, <1>3, InductiveSet
<1>5. \A i \in 1 .. n : f[i - 1] = v \div Power(Byte, i - 1)
  <2>1. \A i \in 1 .. n : i - 1 \in Nat /\ i - 1 <= n
    OBVIOUS
  <2> QED BY <1>4, <2>1 DEF P
<1> QED BY <1>1, <1>5

LEMMA PowerOfBytes ==
  ASSUME NEW n \in Nat
  PROVE  Power(Byte, 2 * n) = Power(Word, n)
<1> DEFINE P == {k \in Nat : Power(Byte, 2 * k) = Power(Word, k)}
<1>1. 0 \in P
  BY PowerLemma, WordFacts
<1>2. ASSUME NEW k \in Nat, k \in P PROVE k + 1 \in P
  <2>1. /\ Power(Byte, 2 * k + 1) = Byte * Power(Byte, 2 * k)
        /\ Power(Byte, 2 * k + 1 + 1) = Byte * Power(Byte, 2 * k + 1)
        /\ Power(Word, k + 1) = Word * Power(Word, k)
    <3>1. 2 * k \in Nat /\ 2 * k + 1 \in Nat
      OBVIOUS
    <3>2. \A b \in Nat \ {0}, i \in Nat : Power(b, i + 1) = b * Power(b, i)
      BY PowerLemma
    <3> QED BY <3>1, <3>2, WordFacts
  <2>2. PICK p \in Nat, B \in Nat : p = Power(Byte, 2 * k) /\ p = Power(Word, k) /\ B = Byte
    BY <1>2, PowerLemma, WordFacts
  <2>3. B * (B * p) = (B * B) * p
    OBVIOUS
  <2>4. 2 * (k + 1) = 2 * k + 1 + 1
    OBVIOUS
  <2> QED BY <2>1, <2>2, <2>3, <2>4 DEF Word
<1> HIDE DEF P
<1>3. n \in P
  BY <1>1, <1>2, InductiveSet
<1> QED BY <1>3 DEF P

(***************************************************************************)
(* Two of the bytes of a number are a digit of it.                         *)
(***************************************************************************)
LEMMA TwoBytes ==
  ASSUME NEW v \in Int, NEW n \in Nat, NEW j \in 0 .. n - 1
  PROVE  /\ BytesLe(v, 2 * n)[2 * j + 1] \in ByteType /\ BytesLe(v, 2 * n)[2 * j + 2] \in ByteType
         /\ WordOf(BytesLe(v, 2 * n)[2 * j + 2], BytesLe(v, 2 * n)[2 * j + 1]) =
              (v \div Power(Word, j)) % Word
<1>1. PICK B \in Nat \ {0}, p \in Nat \ {0} :
         /\ B = Byte /\ Word = B * B /\ p = Power(Word, j)
         /\ Power(Byte, 2 * j) = p /\ Power(Byte, 2 * j + 1) = B * p
  <2>1. j \in Nat /\ 2 * j \in Nat
    OBVIOUS
  <2>2. Byte \in Nat \ {0} /\ Word \in Nat \ {0} /\ Word = Byte * Byte
    BY WordFacts DEF Word
  <2>3. Power(Byte, 2 * j) = Power(Word, j) /\ Power(Word, j) \in Nat \ {0}
    BY <2>1, <2>2, PowerLemma, PowerOfBytes
  <2>4. Power(Byte, 2 * j + 1) = Byte * Power(Word, j)
    BY <2>1, <2>2, <2>3, PowerLemma
  <2> QED BY <2>2, <2>3, <2>4
<1>2. 2 * j + 1 \in 1 .. 2 * n /\ 2 * j + 2 \in 1 .. 2 * n /\ 2 * n \in Nat
      /\ 2 * j + 1 - 1 = 2 * j /\ 2 * j + 2 - 1 = 2 * j + 1
  OBVIOUS
<1>3. /\ BytesLe(v, 2 * n)[2 * j + 1] = (v \div p) % B
      /\ BytesLe(v, 2 * n)[2 * j + 2] = (v \div (B * p)) % B
  <2>1. BytesLe(v, 2 * n) = [i \in 1 .. 2 * n |-> (v \div Power(Byte, i - 1)) % Byte]
    BY <1>2, BytesAreDigits
  <2> QED BY <1>1, <1>2, <2>1
<1>4. PICK x \in Int : x = v \div p
  BY DivideLemma
<1>5. PICK y \in Int, d \in 0 .. B - 1 : y = x \div B /\ d = x % B /\ x = B * y + d
  BY DivideLemma
<1>6. PICK z \in Int, h \in 0 .. B - 1 : z = y \div B /\ h = y % B /\ y = B * z + h
  BY DivideLemma
<1>7. v \div (B * p) = y
  BY <1>4, <1>5, NestedDivide
<1>8. d \in ByteType /\ h \in ByteType
  BY <1>1 DEF ByteType
<1>9. WordOf(h, d) \in 0 .. B * B - 1 /\ WordOf(h, d) = h * B + d
  BY <1>1, <1>8, BytesLemma DEF WordType, WordOf
<1>10. x = z * (B * B) + (h * B + d)
  <2>1. B * (B * z + h) = B * (B * z) + B * h
    OBVIOUS
  <2>2. B * (B * z) = z * (B * B) /\ B * h = h * B
    OBVIOUS
  <2>3. B * y = B * (B * z + h)
    BY <1>6
  <2>4. B * y = z * (B * B) + h * B
    BY <2>1, <2>2, <2>3
  <2>5. z * (B * B) \in Int /\ h * B \in Int /\ B * y \in Int
    OBVIOUS
  <2> QED BY <1>5, <2>4, <2>5
<1>11. PICK k \in Nat \ {0} : k = B * B
  BY ProductLemma
<1>12. PICK t \in 0 .. k - 1 : t = h * B + d
  BY <1>9, <1>11
<1>13. x % k = t
  <2>1. (z * k + t) % k = t
    BY QuotientLemma
  <2> QED BY <1>10, <1>11, <1>12, <2>1
<1> QED BY <1>1, <1>3, <1>4, <1>5, <1>6, <1>7, <1>8, <1>9, <1>11, <1>12, <1>13

(***************************************************************************)
(* The words made of the bytes of a number are, put straight, its digits.  *)
(***************************************************************************)
LEMMA BuildsDigits ==
  ASSUME NEW v \in Int, NEW n \in Nat, NEW e \in EncodingType
  PROVE  LET words == BuildWordsFromLe(BytesLe(v, 2 * n), e)
         IN  /\ words \in Seq(WordType) /\ Len(words) = n
             /\ Straightens(words, Digits(v, n, e), e)
<1> DEFINE bytes == BytesLe(v, 2 * n)
           b == IF e.word_le THEN bytes ELSE Reverse(bytes)
           words == BuildWordsFromLe(bytes, e)
           digits == Digits(v, n, e)
           Low(j) == bytes[2 * j + 1]
           High(j) == bytes[2 * j + 2]
<1>0. e.byte_le \in BOOLEAN /\ e.word_le \in BOOLEAN
  BY DEF EncodingType
<1>1. DOMAIN bytes = 1 .. 2 * n /\ bytes = [i \in 1 .. 2 * n |-> bytes[i]]
  <2>1. 2 * n \in Nat
    OBVIOUS
  <2> QED BY <2>1, BytesAreDigits
<1>2. \A j \in 0 .. n - 1 : /\ Low(j) \in ByteType /\ High(j) \in ByteType
                            /\ WordOf(High(j), Low(j)) = (v \div Power(Word, j)) % Word
  BY TwoBytes
<1> HIDE DEF bytes
<1>3. Len(bytes) = 2 * n
  BY <1>1
<1>4. /\ Len(b) = 2 * n
      /\ \A i \in 1 .. 2 * n : b[i] = bytes[IF e.word_le THEN i ELSE 2 * n + 1 - i]
  <2>1. Reverse(bytes) = [i \in 1 .. Len(bytes) |-> bytes[(Len(bytes) - i) + 1]]
    BY DEF Reverse
  <2>2. \A i \in 1 .. 2 * n : 2 * n - i + 1 = 2 * n + 1 - i
    OBVIOUS
  <2>3. Reverse(bytes) = [i \in 1 .. 2 * n |-> bytes[2 * n + 1 - i]]
    BY <1>3, <2>1, <2>2
  <2> QED BY <1>0, <1>3, <2>3
<1>5. words = [i \in 1 .. n |-> IF HighFirst(e) THEN WordOf(b[2 * i - 1], b[2 * i])
                                                 ELSE WordOf(b[2 * i], b[2 * i - 1])]
  <2>1. (2 * n) \div 2 = n
    OBVIOUS
  <2> QED BY <1>4, <2>1 DEF BuildWordsFromLe
<1> HIDE DEF b, words
<1>6. ASSUME NEW i \in 1 .. n
      PROVE  words[i] \in WordType /\ Straight(words[i], e) = digits[i]
  <2>1. PICK j \in 0 .. n - 1 : j = IF e.word_le THEN i - 1 ELSE n - i
    BY <1>0
  <2>2. /\ 2 * i - 1 \in 1 .. 2 * n /\ 2 * i \in 1 .. 2 * n
        /\ e.word_le => 2 * i - 1 = 2 * j + 1 /\ 2 * i = 2 * j + 2
        /\ ~e.word_le => 2 * n + 1 - (2 * i - 1) = 2 * j + 2 /\ 2 * n + 1 - 2 * i = 2 * j + 1
    BY <2>1
  <2>3. /\ b[2 * i - 1] = IF e.word_le THEN Low(j) ELSE High(j)
        /\ b[2 * i] = IF e.word_le THEN High(j) ELSE Low(j)
    BY <1>0, <1>4, <2>2
  <2>4. PICK l \in ByteType, h \in ByteType : l = Low(j) /\ h = High(j)
    BY <1>2
  <2>5. words[i] = IF e.byte_le THEN WordOf(l, h) ELSE WordOf(h, l)
    BY <1>0, <1>5, <2>3, <2>4 DEF HighFirst
  <2>6. /\ WordOf(l, h) \in WordType /\ WordOf(h, l) \in WordType
        /\ Swapped(WordOf(l, h)) = WordOf(h, l)
    BY BytesLemma DEF Swapped
  <2>7. Straight(words[i], e) = WordOf(h, l)
    BY <1>0, <2>5, <2>6, StraightLemma
  <2>8. digits[i] = (v \div Power(Word, j)) % Word
    BY <1>0, <2>1 DEF Digits, Significance
  <2> QED BY <1>0, <1>2, <2>4, <2>5, <2>6, <2>7, <2>8
<1>7. words \in [1 .. n -> WordType]
  BY <1>5, <1>6
<1>8. Len(words) = n /\ words \in Seq(WordType)
  BY <1>7
<1>9. Len(digits) = n
  BY DigitsType
<1> HIDE DEF digits
<1>10. Straightens(words, digits, e)
  BY <1>6, <1>8, <1>9 DEF Straightens
<1> QED BY <1>8, <1>10 DEF words, digits, bytes

LEMMA PowersGrow ==
  ASSUME NEW b \in Nat \ {0, 1}
  PROVE  /\ \A m, n \in Nat : m <= n => Power(b, m) <= Power(b, n)
         /\ \A n \in Nat : n < Power(b, n)
<1>1. ASSUME NEW m \in Nat, NEW n \in Nat, m <= n
      PROVE  Power(b, m) <= Power(b, n)
  <2>1. n - m \in Nat /\ m + (n - m) = n
    BY <1>1
  <2>2. Power(b, n) = Power(b, m) * Power(b, n - m)
    BY <2>1, PowerOfSum
  <2>3. PICK x \in Nat \ {0}, y \in Nat \ {0} : x = Power(b, m) /\ y = Power(b, n - m)
    BY <2>1, PowerLemma
  <2>4. x * y = y * x /\ y * x >= x
    BY ProductLemma
  <2> QED BY <2>2, <2>3, <2>4
<1> DEFINE P == {n \in Nat : n < Power(b, n)}
<1>2. 0 \in P
  BY PowerLemma
<1>3. ASSUME NEW n \in Nat, n \in P PROVE n + 1 \in P
  <2>1. PICK x \in Nat \ {0} : x = Power(b, n) /\ Power(b, n + 1) = b * x
    BY PowerLemma
  <2>2. b * x >= 2 * x
    OBVIOUS
  <2> QED BY <1>3, <2>1, <2>2
<1> HIDE DEF P
<1>4. Nat \subseteq P
  BY <1>2, <1>3, InductiveSet
<1> QED BY <1>1, <1>4 DEF P

LEMMA ByteLengthLemma ==
  ASSUME NEW m \in Nat, NEW n \in Nat
  PROVE  /\ ByteLength(m) \in Nat
         /\ ByteLength(m) <= n <=> 0 < n /\ m < Power(Byte, n)
<1> DEFINE Fits(k) == /\ m < Power(Byte, k)
                      /\ k > 1 => m >= Power(Byte, k - 1)
           S == {k \in Nat : k >= 1 /\ m < Power(Byte, k)}
<1>0. Byte \in Nat \ {0, 1}
  BY WidthAssumption
<1>1. m + 1 \in S
  <2>1. m + 1 < Power(Byte, m + 1)
    BY <1>0, PowersGrow
  <2>2. Power(Byte, m + 1) \in Nat
    BY PowerLemma, WordFacts
  <2> QED BY <2>1, <2>2
<1>2. PICK k \in S : \A l \in S : k <= l
  BY <1>1, LeastExists
<1>3. k \in 1 .. m + 1 /\ Fits(k)
  <2>1. k \in Nat /\ k >= 1 /\ k <= m + 1
    BY <1>1, <1>2
  <2>2. k > 1 => k - 1 \in Nat /\ k - 1 >= 1 /\ ~(k <= k - 1)
    BY <2>1
  <2>3. k > 1 => ~(m < Power(Byte, k - 1)) /\ Power(Byte, k - 1) \in Nat
    BY <1>2, <2>2, PowerLemma, WordFacts
  <2> QED BY <2>1, <2>3
<1>4. ByteLength(m) = CHOOSE l \in 1 .. m + 1 : Fits(l)
  BY DEF ByteLength
<1>5. PICK c \in 1 .. m + 1 : c = ByteLength(m) /\ Fits(c)
  <2> HIDE DEF Fits
  <2> QED BY <1>3, <1>4
<1>6. ASSUME c <= n PROVE 0 < n /\ m < Power(Byte, n)
  <2>1. c \in Nat /\ Byte \in Nat \ {0}
    BY <1>0
  <2>2. Power(Byte, c) <= Power(Byte, n)
    BY <1>0, <1>6, <2>1, PowersGrow
  <2>3. Power(Byte, c) \in Nat /\ Power(Byte, n) \in Nat
    BY <2>1, PowerLemma
  <2> QED BY <2>2, <2>3, <1>5, <1>6, <2>1
<1>7. ASSUME 0 < n, m < Power(Byte, n), n < c PROVE FALSE
  <2>1. c - 1 \in Nat /\ n <= c - 1 /\ c > 1
    BY <1>7
  <2>2. Power(Byte, n) <= Power(Byte, c - 1) /\ Power(Byte, c - 1) \in Nat /\ Power(Byte, n) \in Nat
    BY <1>0, <2>1, PowersGrow, PowerLemma
  <2> QED BY <1>5, <1>7, <2>1, <2>2
<1> QED BY <1>5, <1>6, <1>7

(***************************************************************************)
(* parse: when it accepts a value, and what the words mean then.           *)
(***************************************************************************)
WordsFor(words, count) == words \in Seq(WordType) /\ Len(words) = count

(***************************************************************************)
(* An integer is accepted if and only if it has a sign only where one is   *)
(* allowed and its magnitude fits into the bytes there are (a u16 counts); *)
(* and then the words mean the integer, in every order of bytes and words, *)
(* unless it is a signed one that the registers cannot represent (parse).  *)
(***************************************************************************)
THEOREM IntegerParsed ==
  ASSUME NEW count \in Nat, NEW e \in EncodingType, e.type = "integer", NEW v \in Int
  PROVE  LET r == Parse(v, count, e)
         IN  /\ r.ok <=> /\ v < 0 => e.signed
                         /\ 0 < Wrap(2 * count) /\ Magnitude(v) < Power(Byte, Wrap(2 * count))
             /\ r.ok => /\ WordsFor(r.words, count)
                        /\ Representable(v, count, e) => Meaning(r.words, e) = v
<1> DEFINE m == Magnitude(v)
           bytes == BytesLe(m, 2 * count)
           n == Wrap(2 * count)
           taken == IF v < 0 THEN Negated(bytes) ELSE bytes
           r == Parse(v, count, e)
           words == BuildWordsFromLe(taken, e)
<1>1. m \in Nat /\ (v < 0 => -m = v) /\ (~(v < 0) => m = v)
  BY DEF Magnitude
<1>2. n \in Nat /\ 2 * count \in Nat
  BY WidthAssumption DEF Wrap
<1>3. r = IF (v < 0 /\ ~e.signed) \/ ByteLength(m) > n THEN Rejected ELSE Parsed(words)
  BY DEF Parse, ParseInteger
<1>4. /\ ByteLength(m) \in Nat
      /\ ByteLength(m) <= n <=> 0 < n /\ m < Power(Byte, n)
  BY <1>1, <1>2, ByteLengthLemma
<1>5. taken = BytesLe(v, 2 * count)
  <2>1. CASE v < 0
    <3>1. Negated(BytesLe(m, 2 * count)) = BytesLe(-m, 2 * count)
      BY <1>1, <1>2, NegatedBytes
    <3> QED BY <1>1, <2>1, <3>1
  <2>2. CASE ~(v < 0)
    BY <1>1, <2>2
  <2> QED BY <2>1, <2>2
<1>6. /\ words \in Seq(WordType) /\ Len(words) = count
      /\ Straightens(words, Digits(v, count, e), e)
  <2> DEFINE built == BuildWordsFromLe(BytesLe(v, 2 * count), e)
  <2>1. /\ built \in Seq(WordType) /\ Len(built) = count
        /\ Straightens(built, Digits(v, count, e), e)
    BY BuildsDigits
  <2>2. words = built
    BY <1>5, Zenon
  <2> QED BY <2>1, <2>2, Zenon
<1> HIDE DEF m, n, words, taken
<1>7. ByteLength(m) > n <=> ~(0 < n /\ m < Power(Byte, n))
  BY <1>2, <1>4
<1>8. Representable(v, count, e) => Meaning(words, e) = v
  BY <1>6, DigitsMean
<1> HIDE DEF r
<1> QED BY <1>3, <1>6, <1>7, <1>8 DEF Parsed, Rejected, WordsFor, m, n, r

LEMMA FloatParsed ==
  ASSUME NEW count \in Nat, NEW e \in EncodingType, e.type = "float",
         NEW v \in Nat, v < Power(Word, count)
  PROVE  LET r == Parse(v, count, e)
         IN  /\ r.ok <=> count \in {2, 4}
             /\ r.ok => WordsFor(r.words, count) /\ Meaning(r.words, e) = v
<1> DEFINE words == BuildWordsFromLe(BytesLe(v, 2 * count), e)
           r == Parse(v, count, e)
<1>1. r = IF count \notin {2, 4} THEN Rejected ELSE Parsed(words)
  BY DEF Parse, ParseFloat
<1>2. /\ words \in Seq(WordType) /\ Len(words) = count
      /\ Straightens(words, Digits(v, count, e), e)
  BY BuildsDigits
<1> HIDE DEF words
<1>3. Meaning(words, e) = v
  BY <1>2, DigitsMean
<1> HIDE DEF r
<1> QED BY <1>1, <1>2, <1>3 DEF Parsed, Rejected, WordsFor, r

LEMMA StringParsed ==
  ASSUME NEW count \in Nat, NEW e \in EncodingType, e.type = "string", NEW v \in Seq(ByteType)
  PROVE  LET r == Parse(v, count, e)
         IN  /\ r.ok /\ WordsFor(r.words, count)
             /\ Meaning(r.words, e) = UpToFill(Filled(v, count, e.fill), e.fill)
<1>1. Parse(v, count, e) = Parsed(StringWords(v, count, e))
  BY DEF Parse
<1> QED BY <1>1, StringWordsType, StringBytes DEF Parsed, WordsFor
=============================================================================

--------------------------- MODULE ReadPlanProofs ---------------------------
(***************************************************************************)
(* The requests of a client, for every size of addresses, every longest    *)
(* request, and lists of tags of any height.                               *)
(***************************************************************************)
EXTENDS ReadPlan, DataProofs

-----------------------------------------------------------------------------
(***************************************************************************)
(* The lists: the recursive definition defines them, they are sequences,   *)
(* and what is behind or inside the first item is a list one less high.    *)
(***************************************************************************)
ListsTo(f, h) ==
    f = [n \in 0 .. h |-> {<< >>} \cup IF n = 0 THEN {} ELSE Longer(f[n - 1])]

LEMMA ListsExist == \A h \in Nat : \E f : ListsTo(f, h)
<1> DEFINE P == {h \in Nat : \E f : ListsTo(f, h)}
<1>1. 0 \in P
  <2> DEFINE f == [n \in 0 .. 0 |-> {<< >>} \cup {}]
  <2>1. f = [n \in 0 .. 0 |-> {<< >>} \cup IF n = 0 THEN {} ELSE Longer(f[n - 1])]
    OBVIOUS
  <2>2. ListsTo(f, 0)
    BY <2>1, Zenon DEF ListsTo
  <2> QED BY <2>2
<1>2. ASSUME NEW h \in Nat, h \in P
      PROVE  h + 1 \in P
  <2>1. PICK f : ListsTo(f, h)
    BY <1>2
  <2> DEFINE g == [n \in 0 .. h + 1 |-> IF n <= h THEN f[n] ELSE {<< >>} \cup Longer(f[h])]
             body(n) == {<< >>} \cup IF n = 0 THEN {} ELSE Longer(g[n - 1])
  <2>2. ASSUME NEW n \in 0 .. h + 1
        PROVE  g[n] = body(n)
    <3>1. CASE n <= h
      <4>1. g[n] = f[n] /\ n \in 0 .. h
        BY <3>1
      <4>2. f[n] = {<< >>} \cup IF n = 0 THEN {} ELSE Longer(f[n - 1])
        BY <2>1, <4>1 DEF ListsTo
      <4>3. n # 0 => g[n - 1] = f[n - 1]
        BY <3>1
      <4> QED BY <4>1, <4>2, <4>3, Zenon
    <3>2. CASE n = h + 1
      BY <3>2
    <3> QED BY <3>1, <3>2
  <2>3. g = [n \in 0 .. h + 1 |-> body(n)]
    BY <2>2
  <2>4. ListsTo(g, h + 1)
    BY <2>3, Zenon DEF ListsTo
  <2> QED BY <2>4
<1>3. Nat \subseteq P
  BY <1>1, <1>2, InductiveSet
<1> QED BY <1>3

LEMMA ListsEquation ==
  \A n \in 0 .. Height :
     Lists[n] = {<< >>} \cup IF n = 0 THEN {} ELSE Longer(Lists[n - 1])
<1>1. \E f : ListsTo(f, Height)
  BY ListsExist, PlanAssumption
<1>2. Lists = CHOOSE f : ListsTo(f, Height)
  BY Zenon DEF Lists, ListsTo
<1>3. ListsTo(Lists, Height)
  BY <1>1, <1>2, Zenon
<1> QED BY <1>3 DEF ListsTo

Everything == UNION {Items(Lists[n]) : n \in 0 .. Height}

LEMMA LongerList ==
  ASSUME NEW S, NEW T, T \subseteq Seq(S), NEW item \in S, NEW rest \in T
  PROVE  /\ <<item>> \o rest \in Seq(S) /\ <<item>> \o rest # << >>
         /\ Head(<<item>> \o rest) = item /\ Tail(<<item>> \o rest) = rest
<1>1. rest \in Seq(S) /\ <<item>> \in Seq(S)
  OBVIOUS
<1>2. <<item>> \o rest \in Seq(S) /\ Len(<<item>> \o rest) = 1 + Len(rest)
  BY <1>1
<1>3. Head(<<item>> \o rest) = item /\ Tail(<<item>> \o rest) = rest
  BY <1>1
<1> QED BY <1>2, <1>3

LEMMA ListsAreSequences == \A n \in 0 .. Height : Lists[n] \subseteq Seq(Everything)
<1> DEFINE P == {n \in Nat : n <= Height => Lists[n] \subseteq Seq(Everything)}
<1>1. 0 \in P
  <2>1. Height >= 0 => Lists[0] = {<< >>}
    BY ListsEquation, PlanAssumption
  <2>2. << >> \in Seq(Everything)
    OBVIOUS
  <2> QED BY <2>1, <2>2
<1>2. ASSUME NEW n \in Nat, n \in P
      PROVE  n + 1 \in P
  <2> SUFFICES ASSUME n + 1 <= Height, NEW l \in Lists[n + 1]
               PROVE  l \in Seq(Everything)
    OBVIOUS
  <2>0. Lists[n] \subseteq Seq(Everything) /\ n \in 0 .. Height /\ n + 1 \in 0 .. Height
        /\ n + 1 # 0 /\ n + 1 - 1 = n
    BY <1>2, PlanAssumption
  <2>1. Lists[n + 1] = {<< >>} \cup Longer(Lists[n])
    BY <2>0, ListsEquation
  <2>2. CASE l = << >>
    BY <2>2
  <2>3. CASE l \in Longer(Lists[n])
    <3>1. PICK item \in Items(Lists[n]), rest \in Lists[n] : l = <<item>> \o rest
      BY <2>3, Zenon DEF Longer
    <3>2. item \in Everything
      BY <2>0 DEF Everything
    <3> QED BY <2>0, <3>1, <3>2, LongerList
  <2> QED BY <2>1, <2>2, <2>3
<1>3. Nat \subseteq P
  BY <1>1, <1>2, InductiveSet
<1> QED BY <1>3, PlanAssumption

LEMMA ListParts ==
  ASSUME NEW n \in 0 .. Height, NEW l \in Lists[n], l # << >>
  PROVE  /\ n # 0 /\ n - 1 \in 0 .. Height
         /\ Head(l) \in Items(Lists[n - 1])
         /\ Tail(l) \in Lists[n - 1]
         /\ l = <<Head(l)>> \o Tail(l)
<1>0. n - 1 \in 0 .. Height \/ n = 0
  BY PlanAssumption
<1>1. n # 0 /\ l \in Longer(Lists[n - 1])
  BY ListsEquation, Zenon
<1>2. PICK item \in Items(Lists[n - 1]), rest \in Lists[n - 1] : l = <<item>> \o rest
  BY <1>1, Zenon DEF Longer
<1>3. Lists[n - 1] \subseteq Seq(Everything) /\ item \in Everything
  BY <1>0, <1>1, ListsAreSequences DEF Everything
<1>4. Head(l) = item /\ Tail(l) = rest
  BY <1>2, <1>3, LongerList
<1> QED BY <1>0, <1>1, <1>2, <1>4

LEMMA ListsGrow == \A n \in 0 .. Height : Lists[n] \subseteq Lists[Height]
<1> DEFINE P == {n \in Nat : n + 1 <= Height => Lists[n] \subseteq Lists[n + 1]}
<1>1. 0 \in P
  BY ListsEquation, PlanAssumption
<1>2. ASSUME NEW n \in Nat, n \in P
      PROVE  n + 1 \in P
  <2> SUFFICES ASSUME n + 1 + 1 <= Height
               PROVE  Lists[n + 1] \subseteq Lists[n + 1 + 1]
    OBVIOUS
  <2>1. Lists[n] \subseteq Lists[n + 1]
    BY <1>2, PlanAssumption
  <2>2. /\ Lists[n + 1] = {<< >>} \cup Longer(Lists[n])
        /\ Lists[n + 1 + 1] = {<< >>} \cup Longer(Lists[n + 1])
    <3>1. /\ n + 1 \in 0 .. Height /\ n + 1 + 1 \in 0 .. Height
          /\ n + 1 # 0 /\ n + 1 + 1 # 0 /\ n + 1 - 1 = n /\ n + 1 + 1 - 1 = n + 1
      BY PlanAssumption
    <3> QED BY <3>1, ListsEquation
  <2>3. Longer(Lists[n]) \subseteq Longer(Lists[n + 1])
    <3> SUFFICES ASSUME NEW l \in Longer(Lists[n])
                 PROVE  l \in Longer(Lists[n + 1])
      OBVIOUS
    <3>1. PICK item \in Items(Lists[n]), rest \in Lists[n] : l = <<item>> \o rest
      BY Zenon DEF Longer
    <3>2. item \in Items(Lists[n + 1]) /\ rest \in Lists[n + 1]
      BY <2>1 DEF Items
    <3> DEFINE StartingWith(i) == {<<i>> \o r : r \in Lists[n + 1]}
    <3>3. l \in StartingWith(item)
      BY <3>1, <3>2, Zenon
    <3>4. Longer(Lists[n + 1]) = UNION {StartingWith(i) : i \in Items(Lists[n + 1])}
      BY DEF Longer
    <3> HIDE DEF StartingWith
    <3> QED BY <3>2, <3>3, <3>4
  <2> QED BY <2>2, <2>3
<1>3. Nat \subseteq P
  BY <1>1, <1>2, InductiveSet
<1> DEFINE Q == {m \in Nat : m <= Height => Lists[Height - m] \subseteq Lists[Height]}
<1>4. 0 \in Q
  BY PlanAssumption
<1>5. ASSUME NEW m \in Nat, m \in Q
      PROVE  m + 1 \in Q
  <2> SUFFICES ASSUME m + 1 <= Height
               PROVE  Lists[Height - (m + 1)] \subseteq Lists[Height]
    OBVIOUS
  <2>1. Lists[Height - m] \subseteq Lists[Height]
    BY <1>5, PlanAssumption
  <2>2. Height - (m + 1) \in P /\ Height - (m + 1) + 1 = Height - m
    BY <1>3, PlanAssumption
  <2>3. Lists[Height - (m + 1)] \subseteq Lists[Height - m]
    BY <2>2, PlanAssumption
  <2> QED BY <2>1, <2>3
<1>6. Nat \subseteq Q
  BY <1>4, <1>5, InductiveSet
<1> SUFFICES ASSUME NEW n \in 0 .. Height
             PROVE  Lists[n] \subseteq Lists[Height]
  OBVIOUS
<1>7. Height - n \in Nat /\ Height - n <= Height /\ Height - (Height - n) = n
  BY PlanAssumption
<1> QED BY <1>6, <1>7

(***************************************************************************)
(* All together, and the types of what is in a list.                       *)
(***************************************************************************)
TagType == [low : 0 .. Size - 1, high : 0 .. Size - 1, initial : BOOLEAN]

LEMMA ItemType ==
  ASSUME NEW L, NEW item \in Items(L)
  PROVE  \/ IsTag(item) /\ item \in Tags /\ item \in TagType
         \/ ~IsTag(item) /\ item.base \in 0 .. Size - 1 /\ item.tags \in L
<1>1. CASE item \in Tags
  BY <1>1, PlanAssumption DEF IsTag, TagType
<1>2. CASE item \in {Group(b, l) : b \in Bases, l \in L}
  <2>1. PICK b \in Bases, l \in L : item = [base |-> b, tags |-> l]
    BY <1>2 DEF Group
  <2>2. ~IsTag(item) /\ item.base = b /\ item.tags = l
    BY <2>1 DEF IsTag
  <2> QED BY <2>2, PlanAssumption
<1> QED BY <1>1, <1>2 DEF Items

LEMMA ListsClosed ==
  ASSUME NEW l \in Lists[Height]
  PROVE  /\ l \in Seq(Everything)
         /\ l # << >> =>
              /\ l = <<Head(l)>> \o Tail(l)
              /\ Tail(l) \in Lists[Height]
              /\ IF IsTag(Head(l)) THEN Head(l) \in Tags /\ Head(l) \in TagType
                 ELSE Head(l).base \in 0 .. Size - 1 /\ Head(l).tags \in Lists[Height]
<1>1. Height \in 0 .. Height
  BY PlanAssumption
<1>2. l \in Seq(Everything)
  BY <1>1, ListsAreSequences
<1>3. ASSUME l # << >>
      PROVE  /\ l = <<Head(l)>> \o Tail(l)
             /\ Tail(l) \in Lists[Height]
             /\ IF IsTag(Head(l)) THEN Head(l) \in Tags /\ Head(l) \in TagType
                ELSE Head(l).base \in 0 .. Size - 1 /\ Head(l).tags \in Lists[Height]
  <2>1. /\ Height - 1 \in 0 .. Height
        /\ Head(l) \in Items(Lists[Height - 1])
        /\ Tail(l) \in Lists[Height - 1]
        /\ l = <<Head(l)>> \o Tail(l)
    BY <1>1, <1>3, ListParts
  <2>2. Lists[Height - 1] \subseteq Lists[Height]
    BY <2>1, ListsGrow
  <2> QED BY <2>1, <2>2, ItemType
<1> QED BY <1>2, <1>3

-----------------------------------------------------------------------------
(***************************************************************************)
(* The recursive definition of Contents defines it.                        *)
(***************************************************************************)
TagAt == [low : Nat, high : Nat, initial : BOOLEAN]
ContentType == [tags : Seq(TagAt), bases : SUBSET Nat]

Content(f, c) ==
    IF c.rest = << >> THEN [tags |-> << >>, bases |-> {}]
    ELSE LET item == Head(c.rest)
             behind == f[Context(Tail(c.rest), c.base)]
         IN  IF IsTag(item)
             THEN [tags |-> <<Moved(item, c.base)>> \o behind.tags, bases |-> behind.bases]
             ELSE LET base == c.base + item.base
                      inside == f[Context(item.tags, base)]
                  IN  [tags |-> inside.tags \o behind.tags,
                       bases |-> {base} \cup inside.bases \cup behind.bases]

LEMMA ContextFacts ==
  /\ \A l \in Lists[Height], b \in Nat : Context(l, b) \in Contexts
  /\ \A l, b : Context(l, b).rest = l /\ Context(l, b).base = b
  /\ \A c \in Contexts : c.rest \in Lists[Height] /\ c.base \in Nat
                         /\ c = Context(c.rest, c.base)
BY DEF Context, Contexts

LEMMA MovedType ==
  ASSUME NEW t \in TagType, NEW base \in Nat
  PROVE  /\ Moved(t, base) \in TagAt
         /\ Moved(t, base).low = t.low + base /\ Moved(t, base).high = t.high + base
<1>1. t.low \in Nat /\ t.high \in Nat /\ t.initial \in BOOLEAN
  BY WidthAssumption DEF TagType
<1> QED BY <1>1 DEF Moved, TagAt

LEMMA ContentHasType ==
  ASSUME NEW f \in [Contexts -> ContentType], NEW c \in Contexts
  PROVE  Content(f, c) \in ContentType
<1>0. c.rest \in Lists[Height] /\ c.base \in Nat
  BY ContextFacts
<1>1. CASE c.rest = << >>
  BY <1>1 DEF Content, ContentType
<1>2. CASE c.rest # << >> /\ IsTag(Head(c.rest))
  <2>1. Tail(c.rest) \in Lists[Height] /\ Head(c.rest) \in TagType
    BY <1>0, <1>2, ListsClosed
  <2>2. f[Context(Tail(c.rest), c.base)] \in ContentType
    BY <1>0, <2>1, ContextFacts
  <2>3. Moved(Head(c.rest), c.base) \in TagAt
    BY <1>0, <2>1, MovedType
  <2> DEFINE behind == f[Context(Tail(c.rest), c.base)]
             x == Moved(Head(c.rest), c.base)
  <2>4. Content(f, c) = [tags |-> <<x>> \o behind.tags, bases |-> behind.bases]
    BY <1>2 DEF Content
  <2> HIDE DEF behind, x
  <2>5. behind.tags \in Seq(TagAt) /\ behind.bases \in SUBSET Nat
    BY <2>2 DEF ContentType, behind
  <2>6. <<x>> \o behind.tags \in Seq(TagAt)
    BY <2>3, <2>5 DEF x
  <2> QED BY <2>4, <2>5, <2>6 DEF ContentType
<1>3. CASE c.rest # << >> /\ ~IsTag(Head(c.rest))
  <2>1. /\ Tail(c.rest) \in Lists[Height]
        /\ Head(c.rest).base \in 0 .. Size - 1 /\ Head(c.rest).tags \in Lists[Height]
    BY <1>0, <1>3, ListsClosed
  <2> DEFINE behind == f[Context(Tail(c.rest), c.base)]
             base == c.base + Head(c.rest).base
             inside == f[Context(Head(c.rest).tags, base)]
  <2>2. base \in Nat
    BY <1>0, <2>1, WidthAssumption
  <2>3. Content(f, c) = [tags |-> inside.tags \o behind.tags,
                         bases |-> {base} \cup inside.bases \cup behind.bases]
    BY <1>3 DEF Content
  <2> HIDE DEF base
  <2>4. behind \in ContentType /\ inside \in ContentType
    BY <1>0, <2>1, <2>2, ContextFacts
  <2> HIDE DEF behind, inside
  <2>5. /\ behind.tags \in Seq(TagAt) /\ behind.bases \in SUBSET Nat
        /\ inside.tags \in Seq(TagAt) /\ inside.bases \in SUBSET Nat
    BY <2>4 DEF ContentType
  <2> QED BY <2>2, <2>3, <2>5 DEF ContentType
<1> QED BY <1>1, <1>2, <1>3

LEMMA ContentAgrees ==
  ASSUME NEW f, NEW g, NEW n \in 0 .. Height,
         \A c \in Contexts : n # 0 /\ c.rest \in Lists[n - 1] => f[c] = g[c],
         NEW c \in Contexts, c.rest \in Lists[n]
  PROVE  Content(f, c) = Content(g, c)
<1>0. c.rest \in Lists[Height] /\ c.base \in Nat
  BY ContextFacts
<1>1. CASE c.rest = << >>
  BY <1>1 DEF Content
<1>2. CASE c.rest # << >>
  <2>1. n # 0 /\ Tail(c.rest) \in Lists[n - 1] /\ Head(c.rest) \in Items(Lists[n - 1])
        /\ n - 1 \in 0 .. Height
    BY <1>2, ListParts
  <2>2. Lists[n - 1] \subseteq Lists[Height]
    BY <2>1, ListsGrow
  <2>3. f[Context(Tail(c.rest), c.base)] = g[Context(Tail(c.rest), c.base)]
    <3>1. PICK d : d = Context(Tail(c.rest), c.base)
      OBVIOUS
    <3>2. d \in Contexts /\ d.rest = Tail(c.rest)
      BY <1>0, <2>1, <2>2, <3>1, ContextFacts
    <3> QED BY <2>1, <3>1, <3>2
  <2>4. CASE IsTag(Head(c.rest))
    BY <1>2, <2>3, <2>4, Zenon DEF Content
  <2>5. CASE ~IsTag(Head(c.rest))
    <3> DEFINE base == c.base + Head(c.rest).base
    <3>1. Head(c.rest).tags \in Lists[n - 1] /\ base \in Nat
      BY <1>0, <2>1, <2>5, ItemType, WidthAssumption
    <3>2. f[Context(Head(c.rest).tags, base)] = g[Context(Head(c.rest).tags, base)]
      BY <2>1, <2>2, <3>1, ContextFacts
    <3> QED BY <1>2, <2>3, <2>5, <3>2, Zenon DEF Content
  <2> QED BY <2>4, <2>5
<1> QED BY <1>1, <1>2

LEMMA ContentsExist == \E f \in [Contexts -> ContentType] : f = [c \in Contexts |-> Content(f, c)]
<1> DEFINE Right(f, n) == \A c \in Contexts : c.rest \in Lists[n] => f[c] = Content(f, c)
           P == {n \in Nat : n <= Height => \E f \in [Contexts -> ContentType] : Right(f, n)}
<1>2. 0 \in P
  <2> SUFFICES \E f \in [Contexts -> ContentType] : Right(f, 0)
    BY Zenon
  <2> DEFINE f == [c \in Contexts |-> [tags |-> << >>, bases |-> {}]]
  <2>1. f \in [Contexts -> ContentType]
    BY DEF ContentType
  <2>2. ASSUME NEW c \in Contexts, c.rest \in Lists[0]
        PROVE  f[c] = Content(f, c)
    <3>1. c.rest = << >>
      BY <2>2, ListsEquation, PlanAssumption
    <3> QED BY <3>1 DEF Content
  <2> QED BY <2>1, <2>2
<1>3. ASSUME NEW n \in Nat, n \in P
      PROVE  n + 1 \in P
  <2> SUFFICES ASSUME n + 1 <= Height
               PROVE  \E g \in [Contexts -> ContentType] : Right(g, n + 1)
    OBVIOUS
  <2>0. n \in 0 .. Height /\ n + 1 \in 0 .. Height /\ n + 1 - 1 = n
    BY PlanAssumption
  <2>1. PICK f \in [Contexts -> ContentType] : Right(f, n)
    BY <1>3, <2>0
  <2> DEFINE g == [c \in Contexts |-> Content(f, c)]
  <2>2. g \in [Contexts -> ContentType]
    BY ContentHasType
  <2>3. \A c \in Contexts : c.rest \in Lists[n] => f[c] = g[c]
    BY <2>1
  <2>4. ASSUME NEW c \in Contexts, c.rest \in Lists[n + 1]
        PROVE  g[c] = Content(g, c)
    <3>1. g[c] = Content(f, c)
      OBVIOUS
    <3> HIDE DEF g
    <3>2. PICK m \in 0 .. Height : m = n + 1 /\ m - 1 = n
      BY <2>0
    <3>3. \A d \in Contexts : m # 0 /\ d.rest \in Lists[m - 1] => f[d] = g[d]
      BY <2>3, <3>2
    <3>4. Content(f, c) = Content(g, c)
      <4>1. c.rest \in Lists[m]
        BY <2>4, <3>2
      <4> QED BY ONLY <3>3, <4>1, m \in 0 .. Height, c \in Contexts, ContentAgrees
    <3> QED BY <3>1, <3>4
  <2> QED BY <2>2, <2>4
<1>4. Nat \subseteq P
  BY <1>2, <1>3, InductiveSet
<1>5. PICK f \in [Contexts -> ContentType] : Right(f, Height)
  BY <1>4, PlanAssumption
<1>6. \A c \in Contexts : f[c] = Content(f, c)
  BY <1>5, ContextFacts
<1>7. f = [c \in Contexts |-> Content(f, c)]
  BY <1>6
<1> QED BY <1>7

LEMMA ContentsEquation ==
  /\ Contents \in [Contexts -> ContentType]
  /\ \A c \in Contexts : Contents[c] = Content(Contents, c)
<1>1. Contents = CHOOSE f : f = [c \in Contexts |-> Content(f, c)]
  BY Zenon DEF Contents, Content
<1>2. \E f : f = [c \in Contexts |-> Content(f, c)]
  BY ContentsExist
<1>3. Contents = [c \in Contexts |-> Content(Contents, c)]
  BY <1>1, <1>2, Zenon
<1>4. PICK f \in [Contexts -> ContentType] : \A c \in Contexts : f[c] = Content(f, c)
  BY ContentsExist
<1>5. \A c \in Contexts : Contents[c] = Content(Contents, c)
  BY <1>3
<1> DEFINE P == {n \in Nat : n <= Height => \A c \in Contexts : c.rest \in Lists[n] => Contents[c] = f[c]}
<1>6. 0 \in P
  <2> SUFFICES ASSUME NEW c \in Contexts, c.rest \in Lists[0]
               PROVE  Contents[c] = f[c]
    OBVIOUS
  <2>1. Content(Contents, c) = Content(f, c)
    BY ContentAgrees, PlanAssumption
  <2> QED BY <1>4, <1>5, <2>1
<1>7. ASSUME NEW n \in Nat, n \in P
      PROVE  n + 1 \in P
  <2> SUFFICES ASSUME n + 1 <= Height, NEW c \in Contexts, c.rest \in Lists[n + 1]
               PROVE  Contents[c] = f[c]
    OBVIOUS
  <2>0. n \in 0 .. Height /\ n + 1 \in 0 .. Height /\ n + 1 - 1 = n
    BY PlanAssumption
  <2>1. \A d \in Contexts : d.rest \in Lists[n] => Contents[d] = f[d]
    BY <1>7, <2>0
  <2>2. Content(Contents, c) = Content(f, c)
    <3>1. PICK m \in 0 .. Height : m = n + 1 /\ m - 1 = n
      BY <2>0
    <3>2. \A d \in Contexts : m # 0 /\ d.rest \in Lists[m - 1] => Contents[d] = f[d]
      BY <2>1, <3>1
    <3> QED BY <3>1, <3>2, ContentAgrees
  <2> QED BY <1>4, <1>5, <2>2
<1>8. Nat \subseteq P
  BY <1>6, <1>7, InductiveSet
<1>9. \A c \in Contexts : Contents[c] = f[c]
  BY <1>8, ContextFacts, PlanAssumption
<1>10. Contents \in [Contexts -> ContentType]
  <2>1. DOMAIN Contents = Contexts
    BY <1>3
  <2>2. Contents = [c \in Contexts |-> Contents[c]]
    BY <1>3
  <2>3. \A c \in Contexts : Contents[c] \in ContentType
    BY <1>4, <1>9
  <2> QED BY <2>2, <2>3
<1> QED BY <1>5, <1>10

LEMMA ContentsCases ==
  ASSUME NEW l \in Lists[Height], NEW b \in Nat
  PROVE  /\ Contents[Context(l, b)] \in ContentType
         /\ l = << >> => Contents[Context(l, b)] = [tags |-> << >>, bases |-> {}]
         /\ l # << >> /\ IsTag(Head(l)) =>
              Contents[Context(l, b)] =
                [tags |-> <<Moved(Head(l), b)>> \o Contents[Context(Tail(l), b)].tags,
                 bases |-> Contents[Context(Tail(l), b)].bases]
         /\ l # << >> /\ ~IsTag(Head(l)) =>
              Contents[Context(l, b)] =
                [tags |-> Contents[Context(Head(l).tags, b + Head(l).base)].tags
                          \o Contents[Context(Tail(l), b)].tags,
                 bases |-> {b + Head(l).base}
                           \cup Contents[Context(Head(l).tags, b + Head(l).base)].bases
                           \cup Contents[Context(Tail(l), b)].bases]
<1>1. Context(l, b) \in Contexts /\ Context(l, b).rest = l /\ Context(l, b).base = b
  BY ContextFacts
<1>2. Contents[Context(l, b)] \in ContentType
  BY <1>1, ContentsEquation
<1>3. Contents[Context(l, b)] = Content(Contents, Context(l, b))
  BY <1>1, ContentsEquation
<1>4. CASE l = << >>
  BY <1>1, <1>2, <1>3, <1>4, Zenon DEF Content
<1>5. CASE l # << >> /\ IsTag(Head(l))
  BY <1>1, <1>2, <1>3, <1>5, Zenon DEF Content
<1>6. CASE l # << >> /\ ~IsTag(Head(l))
  BY <1>1, <1>2, <1>3, <1>6, Zenon DEF Content
<1> QED BY <1>4, <1>5, <1>6

LEMMA ConcatTwo ==
  ASSUME NEW S, NEW a \in Seq(S), NEW b \in Seq(S)
  PROVE  /\ Len(a \o b) = Len(a) + Len(b)
         /\ \A j \in 1 .. Len(a) : (a \o b)[j] = a[j]
         /\ \A j \in 1 .. Len(b) : (a \o b)[Len(a) + j] = b[j]
OBVIOUS

-----------------------------------------------------------------------------
(***************************************************************************)
(* An open context with the exact base of its list: what is left of it is  *)
(* the meaning of the whole list from one tag to another.                  *)
(***************************************************************************)
InPlace(c, base, from, to, whole, checked) ==
    LET inside == Contents[Context(c.rest, base)]
    IN  /\ c.base = Wrap(base) /\ (checked => c.base = base)
        /\ to = from + Len(inside.tags) /\ to <= Len(whole.tags)
        /\ \A j \in 1 .. Len(inside.tags) : whole.tags[from + j] = inside.tags[j]
        /\ inside.bases \subseteq whole.bases

LEMMA InPlaceEnd ==
  ASSUME NEW whole, NEW checked, NEW c \in Contexts, NEW base \in Nat,
         NEW from \in Nat, NEW to \in Nat,
         InPlace(c, base, from, to, whole, checked), c.rest = << >>
  PROVE  to = from
<1>1. c.rest \in Lists[Height]
  BY ContextFacts
<1>2. Contents[Context(c.rest, base)] = [tags |-> << >>, bases |-> {}]
  BY <1>1, ContentsCases
<1> QED BY <1>2 DEF InPlace

LEMMA InPlaceTag ==
  ASSUME NEW whole \in ContentType, NEW checked, NEW c \in Contexts, NEW base \in Nat,
         NEW from \in Nat, NEW to \in Nat,
         InPlace(c, base, from, to, whole, checked),
         c.rest # << >>, IsTag(Head(c.rest))
  PROVE  /\ from + 1 \in DOMAIN whole.tags
         /\ whole.tags[from + 1] = Moved(Head(c.rest), base)
         /\ Context(Tail(c.rest), c.base) \in Contexts
         /\ InPlace(Context(Tail(c.rest), c.base), base, from + 1, to, whole, checked)
<1>1. c.rest \in Lists[Height] /\ c.base \in Nat
  BY ContextFacts
<1>2. Tail(c.rest) \in Lists[Height] /\ Head(c.rest) \in TagType
  BY <1>1, ListsClosed
<1>3. /\ Context(Tail(c.rest), c.base) \in Contexts
      /\ Context(Tail(c.rest), c.base).rest = Tail(c.rest)
      /\ Context(Tail(c.rest), c.base).base = c.base
  BY <1>1, <1>2, ContextFacts
<1> DEFINE all == Contents[Context(c.rest, base)]
           behind == Contents[Context(Tail(c.rest), base)]
           x == Moved(Head(c.rest), base)
<1>4. all = [tags |-> <<x>> \o behind.tags, bases |-> behind.bases]
  BY <1>1, ContentsCases
<1>5. behind \in ContentType /\ x \in TagAt
  BY <1>2, ContentsCases, MovedType
<1>6. /\ c.base = Wrap(base) /\ (checked => c.base = base)
      /\ to = from + Len(all.tags) /\ to <= Len(whole.tags)
      /\ \A j \in 1 .. Len(all.tags) : whole.tags[from + j] = all.tags[j]
      /\ all.bases \subseteq whole.bases
  BY DEF InPlace
<1> HIDE DEF all, behind, x
<1>7. behind.tags \in Seq(TagAt) /\ whole.tags \in Seq(TagAt)
  BY <1>5 DEF ContentType
<1>8. /\ Len(all.tags) = 1 + Len(behind.tags)
      /\ all.tags[1] = x
      /\ \A j \in 1 .. Len(behind.tags) : all.tags[j + 1] = behind.tags[j]
      /\ all.bases = behind.bases
  BY <1>4, <1>5, <1>7
<1>n. PICK n \in Nat, m \in Nat : n = Len(behind.tags) /\ m = Len(whole.tags)
  BY <1>7
<1>a. Len(all.tags) = n + 1 /\ to = from + (n + 1) /\ to <= m
  BY <1>6, <1>8, <1>n
<1>9. whole.tags[from + 1] = x /\ from + 1 \in DOMAIN whole.tags
  <2>1. 1 \in 1 .. Len(all.tags) /\ from + 1 \in 1 .. Len(whole.tags)
    BY <1>a, <1>n
  <2>2. DOMAIN whole.tags = 1 .. Len(whole.tags)
    BY <1>7
  <2> QED BY <1>6, <1>8, <2>1, <2>2
<1>10. /\ to = from + 1 + Len(behind.tags)
       /\ \A j \in 1 .. Len(behind.tags) : whole.tags[from + 1 + j] = behind.tags[j]
  <2>1. to = from + 1 + Len(behind.tags)
    <3>1. to = from + 1 + n
      BY <1>a
    <3> QED BY <1>n, <3>1, Zenon
  <2>2. ASSUME NEW j \in 1 .. Len(behind.tags)
        PROVE  whole.tags[from + 1 + j] = behind.tags[j]
    <3>1. j + 1 \in 1 .. Len(all.tags) /\ from + (j + 1) = from + 1 + j
      BY <1>a, <1>n
    <3> QED BY <1>6, <1>8, <3>1
  <2> QED BY <2>1, <2>2
<1> QED BY <1>3, <1>6, <1>8, <1>9, <1>10 DEF InPlace, x, behind

LEMMA InPlaceGroup ==
  ASSUME NEW whole \in ContentType, NEW checked, NEW c \in Contexts, NEW base \in Nat,
         NEW from \in Nat, NEW to \in Nat,
         InPlace(c, base, from, to, whole, checked),
         c.rest # << >>, ~IsTag(Head(c.rest)), NEW sum, sum = c.base + Head(c.rest).base
  PROVE  /\ sum \in Nat
         /\ base + Head(c.rest).base \in Nat
         /\ base + Head(c.rest).base \in whole.bases
         /\ checked => base + Head(c.rest).base = sum
         /\ (checked => sum < Size) =>
               \E mid \in Nat :
                  /\ InPlace(Context(Tail(c.rest), c.base), base, mid, to, whole, checked)
                  /\ InPlace(Context(Head(c.rest).tags, Wrap(sum)), base + Head(c.rest).base,
                             from, mid, whole, checked)
         /\ Context(Tail(c.rest), c.base) \in Contexts
         /\ Context(Head(c.rest).tags, Wrap(sum)) \in Contexts
<1>1. c.rest \in Lists[Height] /\ c.base \in Nat
  BY ContextFacts
<1>2. /\ Tail(c.rest) \in Lists[Height] /\ Head(c.rest).tags \in Lists[Height]
      /\ Head(c.rest).base \in Nat
  <2>1. /\ Tail(c.rest) \in Lists[Height] /\ Head(c.rest).tags \in Lists[Height]
        /\ Head(c.rest).base \in 0 .. Size - 1
    BY <1>1, ListsClosed
  <2> QED BY <2>1
<1> DEFINE deep == base + Head(c.rest).base
           all == Contents[Context(c.rest, base)]
           behind == Contents[Context(Tail(c.rest), base)]
           inside == Contents[Context(Head(c.rest).tags, deep)]
           after == Context(Tail(c.rest), c.base)
           inner == Context(Head(c.rest).tags, Wrap(sum))
<1>3. sum \in Nat /\ deep \in Nat
  BY <1>1, <1>2
<1>4. /\ after \in Contexts /\ after.rest = Tail(c.rest) /\ after.base = c.base
      /\ inner \in Contexts /\ inner.rest = Head(c.rest).tags /\ inner.base = Wrap(sum)
  BY <1>1, <1>2, <1>3, ContextFacts, WrapFacts
<1>5. all = [tags |-> inside.tags \o behind.tags,
             bases |-> {deep} \cup inside.bases \cup behind.bases]
  BY <1>1, ContentsCases
<1>6. behind \in ContentType /\ inside \in ContentType
  BY <1>2, <1>3, ContentsCases
<1>7. /\ c.base = Wrap(base) /\ (checked => c.base = base)
      /\ to = from + Len(all.tags) /\ to <= Len(whole.tags)
      /\ \A j \in 1 .. Len(all.tags) : whole.tags[from + j] = all.tags[j]
      /\ all.bases \subseteq whole.bases
  BY DEF InPlace
<1>8. Wrap(sum) = Wrap(deep) /\ (checked => sum = deep)
  <2>1. PICK y \in Nat : y = Head(c.rest).base
    BY <1>2
  <2>2. Wrap(Wrap(base) + y) = Wrap(base + y)
    BY WrapOnce
  <2> QED BY <1>7, <2>1, <2>2
<1>9. /\ InPlace(after, base, from + Len(inside.tags), to, whole, checked)
      /\ (checked => sum < Size) => InPlace(inner, deep, from, from + Len(inside.tags), whole, checked)
      /\ from + Len(inside.tags) \in Nat /\ deep \in whole.bases
  <2> HIDE DEF all, behind, inside, deep, after, inner
  <2>1. behind.tags \in Seq(TagAt) /\ whole.tags \in Seq(TagAt) /\ inside.tags \in Seq(TagAt)
    BY <1>6 DEF ContentType
  <2>n. PICK n \in Nat, m \in Nat : n = Len(inside.tags) /\ m = Len(behind.tags)
    BY <2>1
  <2>2. /\ Len(all.tags) = n + m
        /\ \A j \in 1 .. n : all.tags[j] = inside.tags[j]
        /\ \A j \in 1 .. m : all.tags[n + j] = behind.tags[j]
        /\ all.bases = {deep} \cup inside.bases \cup behind.bases
    <3>1. all.tags = inside.tags \o behind.tags
          /\ all.bases = {deep} \cup inside.bases \cup behind.bases
      BY <1>5
    <3>2. PICK a \in Seq(TagAt), b \in Seq(TagAt) : a = inside.tags /\ b = behind.tags
      BY <2>1
    <3>3. /\ Len(a \o b) = Len(a) + Len(b)
          /\ \A j \in 1 .. Len(a) : (a \o b)[j] = a[j]
          /\ \A j \in 1 .. Len(b) : (a \o b)[Len(a) + j] = b[j]
      BY ConcatTwo
    <3> QED BY <2>n, <3>1, <3>2, <3>3
  <2>3. to = from + n + m /\ from + n <= Len(whole.tags)
    BY <1>7, <2>1, <2>2
  <2>4. \A j \in 1 .. n : whole.tags[from + j] = inside.tags[j]
    BY <1>7, <2>2
  <2>5. ASSUME NEW j \in 1 .. m
        PROVE  whole.tags[from + n + j] = behind.tags[j]
    <3>1. n + j \in 1 .. Len(all.tags) /\ from + (n + j) = from + n + j
      BY <2>2
    <3> QED BY <1>7, <2>2, <3>1
  <2>6. InPlace(after, base, from + n, to, whole, checked)
    BY <1>4, <1>7, <2>n, <2>2, <2>3, <2>5 DEF InPlace, behind
  <2>7. ASSUME checked => sum < Size
        PROVE  InPlace(inner, deep, from, from + n, whole, checked)
    <3>1. inner.base = Wrap(deep) /\ (checked => inner.base = deep)
      BY <1>3, <1>4, <1>8, <2>7, WrapFacts
    <3> QED BY <1>4, <1>7, <2>n, <2>2, <2>3, <2>4, <3>1 DEF InPlace, inside
  <2>8. from + n \in Nat /\ deep \in whole.bases
    BY <1>7, <2>2
  <2> QED BY <2>n, <2>6, <2>7, <2>8
<1> QED BY <1>3, <1>4, <1>8, <1>9

-----------------------------------------------------------------------------
(***************************************************************************)
(* A stack of contexts is open at the n-th tag when the innermost is in    *)
(* place from that tag on, the one below it from where that ends, and so   *)
(* on, the outermost up to the last tag.                                   *)
(***************************************************************************)
OpenWith(stack, n, whole, checked, e, b) ==
    /\ e \in [1 .. Len(stack) + 1 -> Nat] /\ b \in [1 .. Len(stack) -> Nat]
    /\ e[1] = Len(whole.tags) /\ e[Len(stack) + 1] = n
    /\ \A k \in 1 .. Len(stack) : InPlace(stack[k], b[k], e[k + 1], e[k], whole, checked)

OpenAt(stack, n, whole, checked) == \E e, b : OpenWith(stack, n, whole, checked, e, b)

LEMMA StackParts ==
  ASSUME NEW stack, stack \in Seq(Contexts), NEW m \in Nat, m = Len(stack), stack # << >>
  PROVE  /\ m > 0 /\ Top(stack) = stack[m] /\ Top(stack) \in Contexts
         /\ Below(stack) \in Seq(Contexts) /\ Len(Below(stack)) = m - 1
         /\ \A k \in 1 .. m - 1 : Below(stack)[k] = stack[k]
<1>1. m > 0 /\ Top(stack) = stack[m] /\ Top(stack) \in Contexts
  BY DEF Top, Last
<1>2. /\ Below(stack) \in Seq(Contexts) /\ Len(Below(stack)) = m - 1
      /\ \A k \in 1 .. m - 1 : Below(stack)[k] = stack[k]
  BY <1>1 DEF Below, Front
<1> QED BY <1>1, <1>2

LEMMA StackPush ==
  ASSUME NEW stack, stack \in Seq(Contexts), NEW m \in Nat, m = Len(stack),
         NEW d, d \in Contexts, NEW pushed, pushed = stack \o <<d>>
  PROVE  /\ pushed \in Seq(Contexts) /\ Len(pushed) = m + 1 /\ pushed[m + 1] = d
         /\ \A k \in 1 .. m : pushed[k] = stack[k]
<1>1. <<d>> \in Seq(Contexts) /\ Len(<<d>>) = 1 /\ <<d>>[1] = d
  OBVIOUS
<1>2. \A T : \A x \in Seq(T), y \in Seq(T) :
         /\ x \o y \in Seq(T) /\ Len(x \o y) = Len(x) + Len(y)
         /\ \A k \in 1 .. Len(x) : (x \o y)[k] = x[k]
         /\ \A k \in 1 .. Len(y) : (x \o y)[Len(x) + k] = y[k]
  BY ConcatTwo
<1> QED BY <1>1, <1>2

LEMMA StackTaken ==
  ASSUME NEW stack, stack \in Seq(Contexts), stack # << >>, NEW d, d \in Contexts
  PROVE  /\ Below(stack) \o <<d>> \in Seq(Contexts)
         /\ Len(Below(stack) \o <<d>>) = Len(stack)
         /\ (Below(stack) \o <<d>>)[Len(stack)] = d
         /\ \A k \in 1 .. Len(stack) - 1 : (Below(stack) \o <<d>>)[k] = stack[k]
<1>0. PICK m \in Nat : m = Len(stack)
  OBVIOUS
<1>1. /\ m > 0 /\ Below(stack) \in Seq(Contexts) /\ Len(Below(stack)) = m - 1
      /\ \A k \in 1 .. m - 1 : Below(stack)[k] = stack[k]
  BY <1>0, StackParts
<1>2. PICK p \in Nat : m = p + 1
  <2>1. m - 1 \in Nat /\ m = m - 1 + 1
    BY <1>1
  <2> QED BY <2>1
<1>3. PICK below, taken : below = Below(stack) /\ taken = below \o <<d>>
  OBVIOUS
<1>4. below \in Seq(Contexts) /\ p = Len(below)
  BY <1>1, <1>2, <1>3
<1>5. /\ taken \in Seq(Contexts) /\ Len(taken) = p + 1 /\ taken[p + 1] = d
      /\ \A k \in 1 .. p : taken[k] = below[k]
  BY <1>3, <1>4, StackPush
<1> QED BY <1>0, <1>1, <1>2, <1>3, <1>5

LEMMA OpenStart ==
  ASSUME NEW l \in Lists[Height], NEW checked
  PROVE  /\ <<Context(l, 0)>> \in Seq(Contexts)
         /\ OpenAt(<<Context(l, 0)>>, 0, Contents[Context(l, 0)], checked)
<1> DEFINE c == Context(l, 0)
           whole == Contents[c]
<1>1. c \in Contexts /\ c.rest = l /\ c.base = 0 /\ whole \in ContentType
  BY ContextFacts, ContentsCases
<1>2. 0 = Wrap(0)
  BY WrapFacts, WidthAssumption
<1> HIDE DEF c
<1>3. PICK n \in Nat : n = Len(whole.tags)
  BY <1>1 DEF ContentType
<1>4. Contents[Context(c.rest, 0)] = whole
  BY <1>1 DEF c
<1>5. InPlace(c, 0, 0, n, whole, checked)
  BY <1>1, <1>2, <1>3, <1>4 DEF InPlace
<1> DEFINE e == [k \in 1 .. 2 |-> IF k = 1 THEN n ELSE 0]
           b == [k \in 1 .. 1 |-> 0]
<1>6. OpenWith(<<c>>, 0, whole, checked, e, b)
  <2>1. Len(<<c>>) = 1 /\ <<c>>[1] = c
    OBVIOUS
  <2>2. e \in [1 .. 2 -> Nat] /\ b \in [1 .. 1 -> Nat] /\ e[1] = n /\ e[2] = 0 /\ b[1] = 0
    BY <1>3
  <2> QED BY <1>3, <1>5, <2>1, <2>2 DEF OpenWith
<1>7. <<c>> \in Seq(Contexts)
  BY <1>1
<1> QED BY <1>6, <1>7 DEF OpenAt, c

LEMMA OpenDone ==
  ASSUME NEW n, NEW whole, NEW checked, OpenAt(<< >>, n, whole, checked)
  PROVE  n = Len(whole.tags)
BY DEF OpenAt, OpenWith

LEMMA OpenEnd ==
  ASSUME NEW stack, stack \in Seq(Contexts), NEW n, NEW whole, NEW checked,
         OpenAt(stack, n, whole, checked), AtEnd(stack)
  PROVE  Below(stack) \in Seq(Contexts) /\ OpenAt(Below(stack), n, whole, checked)
<1>0. PICK m \in Nat : m = Len(stack)
  OBVIOUS
<1>1. PICK e, b : OpenWith(stack, n, whole, checked, e, b)
  BY DEF OpenAt
<1>2. /\ m > 0 /\ Top(stack) = stack[m] /\ Top(stack) \in Contexts
      /\ Below(stack) \in Seq(Contexts) /\ Len(Below(stack)) = m - 1
      /\ \A k \in 1 .. m - 1 : Below(stack)[k] = stack[k]
  BY <1>0, StackParts DEF AtEnd
<1>3. /\ e \in [1 .. m + 1 -> Nat] /\ b \in [1 .. m -> Nat]
      /\ e[1] = Len(whole.tags) /\ e[m + 1] = n
      /\ \A k \in 1 .. m : InPlace(stack[k], b[k], e[k + 1], e[k], whole, checked)
  BY <1>0, <1>1 DEF OpenWith
<1>4. e[m] = n
  <2>1. Top(stack).rest = << >>
    BY DEF AtEnd
  <2>2. InPlace(Top(stack), b[m], e[m + 1], e[m], whole, checked)
        /\ b[m] \in Nat /\ e[m + 1] \in Nat /\ e[m] \in Nat
    BY <1>2, <1>3
  <2> QED BY <1>2, <1>3, <2>1, <2>2, InPlaceEnd
<1> DEFINE f == [k \in 1 .. m |-> e[k]]
           a == [k \in 1 .. m - 1 |-> b[k]]
<1>5. OpenWith(Below(stack), n, whole, checked, f, a)
  <2>1. f \in [1 .. m -> Nat] /\ a \in [1 .. m - 1 -> Nat] /\ m - 1 + 1 = m
    <3>1. \A k \in 1 .. m : e[k] \in Nat
      BY <1>3
    <3>2. \A k \in 1 .. m - 1 : b[k] \in Nat
      BY <1>3
    <3> QED BY <3>1, <3>2
  <2>2. f[1] = Len(whole.tags) /\ f[m] = n
    BY <1>2, <1>3, <1>4
  <2>3. ASSUME NEW k \in 1 .. m - 1
        PROVE  InPlace(Below(stack)[k], a[k], f[k + 1], f[k], whole, checked)
    <3>1. a[k] = b[k] /\ f[k + 1] = e[k + 1] /\ f[k] = e[k] /\ k \in 1 .. m
          /\ Below(stack)[k] = stack[k]
      BY <1>2
    <3> HIDE DEF f, a
    <3> QED BY <1>3, <3>1
  <2> HIDE DEF f, a
  <2> QED BY <1>2, <2>1, <2>2, <2>3 DEF OpenWith
<1> QED BY <1>2, <1>5 DEF OpenAt

LEMMA OpenTag ==
  ASSUME NEW stack, stack \in Seq(Contexts), NEW n, NEW whole \in ContentType, NEW checked,
         OpenAt(stack, n, whole, checked), AtTag(stack)
  PROVE  /\ NextItem(stack) \in Tags /\ NextItem(stack) \in TagType
         /\ Top(stack).base \in Nat
         /\ Taken(stack) \in Seq(Contexts)
         /\ OpenAt(Taken(stack), n + 1, whole, checked)
         /\ n \in Nat /\ n + 1 \in DOMAIN whole.tags
         /\ \E base \in Nat :
              /\ Top(stack).base = Wrap(base) /\ (checked => Top(stack).base = base)
              /\ whole.tags[n + 1] = Moved(NextItem(stack), base)
<1>0. PICK m \in Nat : m = Len(stack)
  OBVIOUS
<1>1. PICK e, b : OpenWith(stack, n, whole, checked, e, b)
  BY DEF OpenAt
<1> DEFINE c == Top(stack)
           after == Context(Tail(c.rest), c.base)
<1>2. stack # << >> /\ c.rest # << >> /\ IsTag(Head(c.rest)) /\ NextItem(stack) = Head(c.rest)
      /\ Taken(stack) = Below(stack) \o <<after>>
  BY DEF AtTag, HasItem, NextItem, Taken
<1>3. m > 0 /\ c = stack[m] /\ c \in Contexts
  BY <1>0, <1>2, StackParts
<1>4. /\ e \in [1 .. m + 1 -> Nat] /\ b \in [1 .. m -> Nat]
      /\ e[1] = Len(whole.tags) /\ e[m + 1] = n
      /\ \A k \in 1 .. m : InPlace(stack[k], b[k], e[k + 1], e[k], whole, checked)
  BY <1>0, <1>1 DEF OpenWith
<1>5. n \in Nat /\ e[m] \in Nat /\ b[m] \in Nat
      /\ InPlace(c, b[m], n, e[m], whole, checked)
  <2>1. m \in 1 .. m /\ m + 1 \in 1 .. m + 1 /\ m \in 1 .. m + 1
    BY <1>3
  <2> QED BY <1>3, <1>4, <2>1
<1> HIDE DEF c
<1>6. PICK base \in Nat, to \in Nat : base = b[m] /\ to = e[m]
  BY <1>5
<1>7. /\ n + 1 \in DOMAIN whole.tags
      /\ whole.tags[n + 1] = Moved(Head(c.rest), base)
      /\ after \in Contexts
      /\ InPlace(after, base, n + 1, to, whole, checked)
  BY <1>2, <1>3, <1>5, <1>6, InPlaceTag
<1>8. c.rest \in Lists[Height] /\ c.base \in Nat
  BY <1>3, ContextFacts
<1>9. Head(c.rest) \in Tags /\ Head(c.rest) \in TagType
  BY <1>2, <1>8, ListsClosed
<1> HIDE DEF after
<1>10. /\ Taken(stack) \in Seq(Contexts) /\ Len(Taken(stack)) = m /\ Taken(stack)[m] = after
       /\ \A k \in 1 .. m - 1 : Taken(stack)[k] = stack[k]
  <2>1. PICK d : d = after
    OBVIOUS
  <2>2. d \in Contexts /\ Taken(stack) = Below(stack) \o <<d>> /\ stack # << >>
    BY <1>2, <1>7, <2>1
  <2>3. /\ Below(stack) \o <<d>> \in Seq(Contexts)
        /\ Len(Below(stack) \o <<d>>) = Len(stack)
        /\ (Below(stack) \o <<d>>)[Len(stack)] = d
        /\ \A k \in 1 .. Len(stack) - 1 : (Below(stack) \o <<d>>)[k] = stack[k]
    BY ONLY <2>2, stack \in Seq(Contexts), StackTaken
  <2> QED BY ONLY <1>0, <2>1, <2>2, <2>3
<1> DEFINE f == [k \in 1 .. m + 1 |-> IF k = m + 1 THEN n + 1 ELSE e[k]]
<1>11. OpenWith(Taken(stack), n + 1, whole, checked, f, b)
  <2>1. f \in [1 .. m + 1 -> Nat] /\ f[1] = Len(whole.tags) /\ f[m + 1] = n + 1
    BY <1>3, <1>4, <1>5
  <2>2. ASSUME NEW k \in 1 .. m
        PROVE  InPlace(Taken(stack)[k], b[k], f[k + 1], f[k], whole, checked)
    <3>1. f[k] = e[k]
      BY <1>3
    <3>2. CASE k = m
      <4>1. f[k + 1] = n + 1
        BY <3>2
      <4> HIDE DEF f
      <4> QED BY <1>6, <1>7, <1>10, <3>1, <3>2, <4>1
    <3>3. CASE k # m
      <4>1. f[k + 1] = e[k + 1] /\ k \in 1 .. m - 1
        BY <3>3
      <4> HIDE DEF f
      <4> QED BY <1>4, <1>10, <3>1, <4>1
    <3> QED BY <3>2, <3>3
  <2> HIDE DEF f
  <2> QED BY <1>4, <1>10, <2>1, <2>2 DEF OpenWith
<1>12. c.base = Wrap(base) /\ (checked => c.base = base)
  BY <1>5, <1>6 DEF InPlace
<1> QED BY <1>2, <1>5, <1>7, <1>8, <1>9, <1>10, <1>11, <1>12 DEF OpenAt, c

LEMMA OpenGroup ==
  ASSUME NEW stack, stack \in Seq(Contexts), NEW n, NEW whole \in ContentType, NEW checked,
         OpenAt(stack, n, whole, checked), AtGroup(stack),
         NEW sum, sum = Top(stack).base + NextItem(stack).base
  PROVE  /\ sum \in Nat
         /\ checked => sum \in whole.bases
         /\ (checked => sum < Size) =>
              /\ Opened(stack, Wrap(sum)) \in Seq(Contexts)
              /\ OpenAt(Opened(stack, Wrap(sum)), n, whole, checked)
<1>0. PICK m \in Nat : m = Len(stack)
  OBVIOUS
<1>1. PICK e, b : OpenWith(stack, n, whole, checked, e, b)
  BY DEF OpenAt
<1> DEFINE c == Top(stack)
           after == Context(Tail(c.rest), c.base)
           inner == Context(Head(c.rest).tags, Wrap(sum))
<1>2. stack # << >> /\ c.rest # << >> /\ ~IsTag(Head(c.rest))
      /\ sum = c.base + Head(c.rest).base
      /\ Opened(stack, Wrap(sum)) = (Below(stack) \o <<after>>) \o <<inner>>
  BY DEF AtGroup, HasItem, NextItem, Taken, Opened
<1>3. m > 0 /\ c = stack[m] /\ c \in Contexts
  BY <1>0, <1>2, StackParts
<1>4. /\ e \in [1 .. m + 1 -> Nat] /\ b \in [1 .. m -> Nat]
      /\ e[1] = Len(whole.tags) /\ e[m + 1] = n
      /\ \A k \in 1 .. m : InPlace(stack[k], b[k], e[k + 1], e[k], whole, checked)
  BY <1>0, <1>1 DEF OpenWith
<1>5. n \in Nat /\ e[m] \in Nat /\ b[m] \in Nat
      /\ InPlace(c, b[m], n, e[m], whole, checked)
  <2>1. m \in 1 .. m /\ m + 1 \in 1 .. m + 1 /\ m \in 1 .. m + 1
    BY <1>3
  <2> QED BY <1>3, <1>4, <2>1
<1> HIDE DEF c
<1>6. PICK base \in Nat, to \in Nat : base = b[m] /\ to = e[m]
  BY <1>5
<1> DEFINE deep == base + Head(c.rest).base
<1>7. /\ sum \in Nat /\ deep \in Nat /\ deep \in whole.bases
      /\ checked => deep = sum
      /\ (checked => sum < Size) =>
            \E mid \in Nat :
               /\ InPlace(after, base, mid, to, whole, checked)
               /\ InPlace(inner, deep, n, mid, whole, checked)
      /\ after \in Contexts /\ inner \in Contexts
  <2>1. InPlace(c, base, n, to, whole, checked)
    BY <1>5, <1>6
  <2> QED BY <1>2, <1>3, <1>5, <2>1, InPlaceGroup
<1> HIDE DEF after, inner, deep
<1>8. ASSUME checked => sum < Size
      PROVE  /\ Opened(stack, Wrap(sum)) \in Seq(Contexts)
             /\ OpenAt(Opened(stack, Wrap(sum)), n, whole, checked)
  <2>1. PICK mid \in Nat : /\ InPlace(after, base, mid, to, whole, checked)
                           /\ InPlace(inner, deep, n, mid, whole, checked)
    BY <1>7, <1>8
  <2>2. PICK taken : taken = Below(stack) \o <<after>>
    OBVIOUS
  <2>3. PICK opened : opened = taken \o <<inner>>
    OBVIOUS
  <2>4. /\ taken[m] = after
        /\ \A k \in 1 .. m - 1 : taken[k] = stack[k]
        /\ opened \in Seq(Contexts) /\ Len(opened) = m + 1
        /\ opened[m + 1] = inner
        /\ \A k \in 1 .. m : opened[k] = taken[k]
    <3>1. /\ taken \in Seq(Contexts) /\ Len(taken) = m /\ taken[m] = after
          /\ \A k \in 1 .. m - 1 : taken[k] = stack[k]
      <4>1. PICK d : d = after
        OBVIOUS
      <4>2. d \in Contexts /\ taken = Below(stack) \o <<d>> /\ stack # << >>
        BY <1>2, <1>7, <2>2, <4>1
      <4>3. /\ Below(stack) \o <<d>> \in Seq(Contexts)
            /\ Len(Below(stack) \o <<d>>) = Len(stack)
            /\ (Below(stack) \o <<d>>)[Len(stack)] = d
            /\ \A k \in 1 .. Len(stack) - 1 : (Below(stack) \o <<d>>)[k] = stack[k]
        BY ONLY <4>2, stack \in Seq(Contexts), StackTaken
      <4> QED BY ONLY <1>0, <4>1, <4>2, <4>3
    <3> QED BY <1>7, <2>3, <3>1, StackPush
  <2> DEFINE f == [k \in 1 .. m + 2 |-> IF k = m + 2 THEN n ELSE IF k = m + 1 THEN mid ELSE e[k]]
             a == [k \in 1 .. m + 1 |-> IF k = m + 1 THEN deep ELSE b[k]]
  <2>5. OpenWith(opened, n, whole, checked, f, a)
    <3>1. f \in [1 .. m + 2 -> Nat] /\ f[1] = Len(whole.tags) /\ f[m + 2] = n
          /\ a \in [1 .. m + 1 -> Nat] /\ m + 1 + 1 = m + 2
      <4>1. \A k \in 1 .. m + 1 : e[k] \in Nat
        BY <1>4
      <4>2. \A k \in 1 .. m : b[k] \in Nat
        BY <1>4
      <4>3. f[1] = e[1] /\ f[m + 2] = n
        BY <1>3
      <4>4. f \in [1 .. m + 2 -> Nat]
        <5> SUFFICES ASSUME NEW k \in 1 .. m + 2 PROVE f[k] \in Nat
          OBVIOUS
        <5>1. CASE k \in 1 .. m
          BY <4>1, <5>1
        <5>2. CASE k = m + 1 \/ k = m + 2
          BY <1>5, <5>2
        <5> QED BY <5>1, <5>2
      <4>5. a \in [1 .. m + 1 -> Nat]
        BY <1>7, <4>2
      <4>6. m + 1 + 1 = m + 2
        OBVIOUS
      <4> HIDE DEF f, a
      <4> QED BY <1>4, <4>3, <4>4, <4>5, <4>6
    <3>2. ASSUME NEW k \in 1 .. m + 1
          PROVE  InPlace(opened[k], a[k], f[k + 1], f[k], whole, checked)
      <4>1. CASE k = m + 1
        <5>1. a[k] = deep /\ f[k + 1] = n /\ f[k] = mid
          BY <4>1
        <5> HIDE DEF f, a
        <5> QED BY <2>1, <2>4, <4>1, <5>1
      <4>2. CASE k = m
        <5>1. a[k] = base /\ f[k + 1] = mid /\ f[k] = to
          BY <4>2, <1>3, <1>6
        <5>2. opened[k] = after
          BY <2>4, <4>2, <1>3
        <5> HIDE DEF f, a
        <5> QED BY <2>1, <5>1, <5>2
      <4>3. CASE k \in 1 .. m - 1
        <5>1. a[k] = b[k] /\ f[k + 1] = e[k + 1] /\ f[k] = e[k] /\ k \in 1 .. m
          BY <4>3
        <5> HIDE DEF f, a
        <5> QED BY <1>4, <2>4, <4>3, <5>1
      <4> QED BY <4>1, <4>2, <4>3
    <3> HIDE DEF f, a
    <3> QED BY <2>4, <3>1, <3>2 DEF OpenWith
  <2>6. Opened(stack, Wrap(sum)) = opened
    BY <1>2, <2>2, <2>3
  <2> QED BY <2>4, <2>5, <2>6 DEF OpenAt
<1> QED BY <1>7, <1>8

-----------------------------------------------------------------------------
(***************************************************************************)
(* The inductive invariant, in parts: what stays, where TagIter is, where  *)
(* get_register_ranges is, and where push_range is.                        *)
(***************************************************************************)
Visit == [tag : TagType, base : Nat]
Follows(v, t) ==
    /\ Wrap(t.low) = Wrap(v.base + v.tag.low)
    /\ t.high - t.low = v.tag.high - v.tag.low

Given == debug \in BOOLEAN /\ list \in Lists[Height]

IteratorInPlace ==
    /\ pos \in Seq(Contexts) /\ visited \in Seq(Visit)
    /\ OpenAt(pos, Len(visited), Whole, debug)
    /\ \A i \in DOMAIN visited :
          i \in DOMAIN Whole.tags /\ Follows(visited[i], Whole.tags[i])

LEMMA WholeType ==
  ASSUME Given
  PROVE  /\ Whole \in ContentType /\ Whole.tags \in Seq(TagAt)
         /\ \A i \in DOMAIN Whole.tags :
              Whole.tags[i].low \in Nat /\ Whole.tags[i].high \in Nat
<1>1. Whole \in ContentType
  BY ContextFacts, ContentsEquation DEF Given, Whole
<1>2. Whole.tags \in Seq(TagAt)
  BY <1>1 DEF ContentType
<1>3. \A i \in DOMAIN Whole.tags : Whole.tags[i] \in TagAt
  BY <1>2
<1>4. \A t \in TagAt : t.low \in Nat /\ t.high \in Nat
  BY DEF TagAt
<1> QED BY <1>1, <1>2, <1>3, <1>4

LEMMA IteratorStarts == Init => Given /\ IteratorInPlace
<1> SUFFICES ASSUME Init PROVE Given /\ IteratorInPlace
  OBVIOUS
<1>1. Given /\ pos = <<Context(list, 0)>> /\ visited = << >>
  BY DEF Init, Given
<1>2. pos \in Seq(Contexts) /\ OpenAt(pos, 0, Whole, debug)
  BY <1>1, OpenStart DEF Given, Whole
<1>3. visited \in Seq(Visit) /\ Len(visited) = 0 /\ DOMAIN visited = {}
  BY <1>1
<1> QED BY <1>1, <1>2, <1>3 DEF IteratorInPlace

LEMMA Unchanging ==
  ASSUME Given, [Next]_vars
  PROVE  Given' /\ debug' = debug /\ list' = list /\ Whole' = Whole
<1>1. debug' = debug /\ list' = list
  BY DEF Next, vars, Panic, VisitTag, EnterGroup, LeaveGroup, GetRanges, AddRange,
         CallForGroup, Return, HaveRanges, StartRange, PushOp, EndRange, Ready, Finished
<1> QED BY <1>1 DEF Given, Whole

LEMMA WalkStep ==
  ASSUME Given, IteratorInPlace, [Next]_vars
  PROVE  IteratorInPlace'
<1>0. debug' = debug /\ Whole' = Whole /\ Whole \in ContentType
  BY Unchanging, WholeType
<1>1. ASSUME pos' = pos, visited' = visited
      PROVE  IteratorInPlace'
  BY <1>0, <1>1 DEF IteratorInPlace
<1>2. CASE VisitTag
  <2>1. CASE Panic
    BY <1>1, <2>1 DEF Panic
  <2>2. CASE ~Panic
    <3> DEFINE t == NextItem(pos)
               v == [tag |-> t, base |-> Top(pos).base]
    <3>1. AtTag(pos) /\ pos' = Taken(pos) /\ visited' = Append(visited, v)
      BY <1>2, <2>2 DEF VisitTag
    <3>2. PICK n \in Nat : n = Len(visited)
      BY DEF IteratorInPlace
    <3>3. OpenAt(pos, n, Whole, debug)
      BY <3>2 DEF IteratorInPlace
    <3>4. /\ t \in TagType /\ Top(pos).base \in Nat
          /\ Taken(pos) \in Seq(Contexts)
          /\ OpenAt(Taken(pos), n + 1, Whole, debug)
          /\ n + 1 \in DOMAIN Whole.tags
      BY <1>0, <3>1, <3>3, OpenTag DEF IteratorInPlace
    <3>5. PICK base \in Nat :
             /\ Top(pos).base = Wrap(base)
             /\ Whole.tags[n + 1] = Moved(t, base)
      BY <1>0, <3>1, <3>3, OpenTag DEF IteratorInPlace
    <3>6. v \in Visit /\ v.tag = t /\ v.base = Wrap(base)
      BY <3>4, <3>5 DEF Visit
    <3>7. Follows(v, Whole.tags[n + 1])
      <4>1. t.low \in Nat /\ t.high \in Nat
        BY <3>4 DEF TagType
      <4>2. Moved(t, base).low = t.low + base /\ Moved(t, base).high = t.high + base
        BY DEF Moved
      <4>3. Wrap(Wrap(base) + t.low) = Wrap(base + t.low) /\ base + t.low = t.low + base
        BY <4>1, WrapOnce
      <4> HIDE DEF t, v
      <4> QED BY <3>5, <3>6, <4>1, <4>2, <4>3 DEF Follows
    <3> HIDE DEF t, v
    <3>8. /\ visited' \in Seq(Visit) /\ Len(visited') = n + 1
          /\ visited'[n + 1] = v
          /\ \A i \in DOMAIN visited' : i # n + 1 => i \in DOMAIN visited /\ visited'[i] = visited[i]
      BY <3>1, <3>2, <3>6 DEF IteratorInPlace
    <3>9. \A i \in DOMAIN visited' :
             i \in DOMAIN Whole.tags /\ Follows(visited'[i], Whole.tags[i])
      <4> SUFFICES ASSUME NEW i \in DOMAIN visited'
                   PROVE  i \in DOMAIN Whole.tags /\ Follows(visited'[i], Whole.tags[i])
        OBVIOUS
      <4>1. CASE i = n + 1
        BY <3>4, <3>7, <3>8, <4>1
      <4>2. CASE i # n + 1
        BY <3>8, <4>2 DEF IteratorInPlace
      <4> QED BY <4>1, <4>2
    <3> QED BY <1>0, <3>1, <3>4, <3>8, <3>9 DEF IteratorInPlace
  <2> QED BY <2>1, <2>2
<1>3. CASE EnterGroup
  <2>1. CASE Panic
    BY <1>1, <2>1 DEF Panic
  <2>2. CASE ~Panic
    <3>1. PICK sum : sum = Top(pos).base + NextItem(pos).base
      OBVIOUS
    <3>2. AtGroup(pos) /\ ~Overflows(sum) /\ pos' = Opened(pos, Wrap(sum)) /\ visited' = visited
      BY <1>3, <2>2, <3>1 DEF EnterGroup, InnerBase
    <3>3. sum \in Nat
      BY <1>0, <3>1, <3>2, OpenGroup DEF IteratorInPlace
    <3>4. debug => sum < Size
      BY <3>2, <3>3, WidthAssumption DEF Overflows
    <3>5. Opened(pos, Wrap(sum)) \in Seq(Contexts)
          /\ OpenAt(Opened(pos, Wrap(sum)), Len(visited), Whole, debug)
      BY <1>0, <3>1, <3>2, <3>4, OpenGroup DEF IteratorInPlace
    <3> QED BY <1>0, <3>2, <3>5 DEF IteratorInPlace
  <2> QED BY <2>1, <2>2
<1>4. CASE LeaveGroup
  <2>1. AtEnd(pos) /\ pos' = Below(pos) /\ visited' = visited
    BY <1>4 DEF LeaveGroup
  <2>2. Below(pos) \in Seq(Contexts) /\ OpenAt(Below(pos), Len(visited), Whole, debug)
    BY <2>1, OpenEnd DEF IteratorInPlace
  <2> QED BY <1>0, <2>1, <2>2 DEF IteratorInPlace
<1>5. ASSUME ~VisitTag, ~EnterGroup, ~LeaveGroup
      PROVE  pos' = pos /\ visited' = visited
  BY <1>5 DEF Next, vars, Panic, GetRanges, AddRange,
              CallForGroup, Return, HaveRanges, StartRange, PushOp, EndRange, Ready, Finished
<1> QED BY <1>1, <1>2, <1>3, <1>4, <1>5

LEMMA IteratorFollows ==
  Given /\ IteratorInPlace => IteratorFollowsTheFile
<1> SUFFICES ASSUME IteratorInPlace PROVE IteratorFollowsTheFile
  OBVIOUS
<1>1. pos = << >> => Len(visited) = Len(Whole.tags)
  BY OpenDone DEF IteratorInPlace
<1> QED BY <1>1 DEF IteratorInPlace, IteratorFollowsTheFile, Follows

-----------------------------------------------------------------------------
(***************************************************************************)
(* What get_register_ranges has united: the ranges of the tags so far.     *)
(***************************************************************************)
Covers(arr, a) == \E i \in DOMAIN arr : a \in Reach(arr[i], 1)
RangesOf(tags, n, a) == \E i \in 1 .. n : a \in Reach(RangeOf(0, tags[i]), 1)
Collected(arr, tags, n) == \A a : Covers(arr, a) <=> RangesOf(tags, n, a)

Upright == \A t \in Configured : t.low <= t.high

RangesInPlace ==
    /\ calls \in Seq(Contexts)
    /\ ranges \in Seq(SpanType) /\ Ordered(ranges) /\ EndsIn(ranges, 0 .. Size - 1)
    /\ debug /\ Upright => Proper(ranges)
    /\ pc = "walk" => ranges = New
    /\ pc = "ranges" => \E n \in Nat : /\ n <= Len(Whole.tags)
                                       /\ OpenAt(calls, n, Whole, debug)
                                       /\ Collected(ranges, Whole.tags, n)
    /\ pc \in {"cut", "ready"} => Collected(ranges, Whole.tags, Len(Whole.tags))

LEMMA RangeType ==
  ASSUME NEW x \in Nat, NEW y \in Nat, NEW r, r = Span(Wrap(x), Wrap(Wrap(y) + 1))
  PROVE  /\ r \in SpanType /\ r.start = Wrap(x) /\ r.end = Wrap(Wrap(y) + 1)
         /\ r.start \in 0 .. Size - 1 /\ r.end \in 0 .. Size - 1
<1>1. PICK s \in 0 .. Size - 1 : s = Wrap(x)
  BY WrapFacts
<1>2. Wrap(y) + 1 \in Nat
  BY WrapFacts
<1>3. PICK e \in 0 .. Size - 1 : e = Wrap(Wrap(y) + 1)
  BY <1>2, WrapFacts
<1> QED BY <1>1, <1>3, SpanLemma

LEMMA RangeOfTag ==
  ASSUME NEW t \in TagType, NEW base \in Nat
  PROVE  /\ RangeOf(Wrap(base), t) = RangeOf(0, Moved(t, base))
         /\ RangeOf(0, Moved(t, base)) \in SpanType
         /\ RangeOf(0, Moved(t, base)).start \in 0 .. Size - 1
         /\ RangeOf(0, Moved(t, base)).end \in 0 .. Size - 1
         /\ t.low + base + 0 < Size /\ t.high + base + 1 < Size =>
              /\ RangeOf(0, Moved(t, base)).start = t.low + base
              /\ RangeOf(0, Moved(t, base)).end = t.high + base + 1
<1>0. t.low \in Nat /\ t.high \in Nat
  BY DEF TagType
<1>1. Moved(t, base).low = t.low + base /\ Moved(t, base).high = t.high + base
  BY DEF Moved
<1>2. PICK x \in Nat, y \in Nat : x = t.low + base /\ y = t.high + base
  BY <1>0
<1>3. Wrap(t.low + Wrap(base)) = Wrap(x) /\ Wrap(t.high + Wrap(base)) = Wrap(y)
  <2>1. PICK w \in Nat : w = Wrap(base)
    BY WrapFacts
  <2>2. t.low + w = w + t.low /\ t.high + w = w + t.high
        /\ x = base + t.low /\ y = base + t.high
    BY <1>0, <1>2
  <2>3. Wrap(w + t.low) = Wrap(base + t.low) /\ Wrap(w + t.high) = Wrap(base + t.high)
    BY <1>0, <2>1, WrapOnce
  <2> QED BY <2>1, <2>2, <2>3
<1>4. RangeOf(Wrap(base), t) = Span(Wrap(x), Wrap(Wrap(y) + 1))
  BY <1>3 DEF RangeOf
<1>5. RangeOf(0, Moved(t, base)) = Span(Wrap(x), Wrap(Wrap(y) + 1))
  <2>1. Moved(t, base).low + 0 = x /\ Moved(t, base).high + 0 = y
    BY <1>1, <1>2
  <2> QED BY <2>1 DEF RangeOf
<1>6. PICK r : r = RangeOf(0, Moved(t, base))
  OBVIOUS
<1>7. /\ r \in SpanType /\ r.start = Wrap(x) /\ r.end = Wrap(Wrap(y) + 1)
      /\ r.start \in 0 .. Size - 1 /\ r.end \in 0 .. Size - 1
  BY <1>5, <1>6, RangeType
<1>8. ASSUME x < Size, y + 1 < Size
      PROVE  Wrap(x) = x /\ Wrap(Wrap(y) + 1) = y + 1
  <2>1. y < Size
    BY <1>8, WidthAssumption
  <2>2. Wrap(x) = x /\ Wrap(y) = y /\ Wrap(y + 1) = y + 1
    BY <1>8, <2>1, WrapFacts
  <2> QED BY <2>2
<1>9. t.low + base + 0 = x /\ t.high + base + 1 = y + 1
  BY <1>0, <1>2
<1> QED BY <1>2, <1>4, <1>5, <1>6, <1>7, <1>8, <1>9

LEMMA CollectOne ==
  ASSUME NEW arr, arr \in Seq(SpanType), Ordered(arr), EndsIn(arr, 0 .. Size - 1),
         NEW tags, NEW n \in Nat, Collected(arr, tags, n),
         NEW r \in SpanType, r = RangeOf(0, tags[n + 1]),
         r.start \in 0 .. Size - 1, r.end \in 0 .. Size - 1
  PROVE  /\ Union(arr, r) \in Seq(SpanType) /\ Ordered(Union(arr, r))
         /\ EndsIn(Union(arr, r), 0 .. Size - 1)
         /\ Collected(Union(arr, r), tags, n + 1)
         /\ Proper(arr) /\ r.start <= r.end => Proper(Union(arr, r))
<1>1. /\ Union(arr, r) \in Seq(SpanType) /\ Ordered(Union(arr, r))
      /\ Proper(arr) /\ r.start <= r.end => Proper(Union(arr, r))
      /\ \A S : EndsIn(arr, S) /\ r.start \in S /\ r.end \in S => EndsIn(Union(arr, r), S)
      /\ \A d \in {0, 1} : Reached(Union(arr, r), d) = Reached(arr, d) \cup Reach(r, d)
  BY UnionAny
<1>2. PICK out : out = Union(arr, r)
  OBVIOUS
<1>3. EndsIn(out, 0 .. Size - 1)
  BY <1>1, <1>2, Zenon
<1>4. Reached(out, 1) = Reached(arr, 1) \cup Reach(r, 1)
  BY <1>1, <1>2
<1>5. \A a : a \in Reached(out, 1) <=> Covers(out, a)
  BY Zenon DEF Reached, Covers
<1>6. \A a : a \in Reached(arr, 1) <=> Covers(arr, a)
  BY Zenon DEF Reached, Covers
<1>7. \A a : RangesOf(tags, n + 1, a) <=> RangesOf(tags, n, a) \/ a \in Reach(r, 1)
  <2>1. \A i : i \in 1 .. n + 1 <=> i \in 1 .. n \/ i = n + 1
    OBVIOUS
  <2> QED BY <2>1, Zenon DEF RangesOf
<1>8. Collected(out, tags, n + 1)
  BY <1>4, <1>5, <1>6, <1>7 DEF Collected
<1> QED BY <1>1, <1>2, <1>3, <1>8

LEMMA RangesStart == Init => RangesInPlace
<1> SUFFICES ASSUME Init PROVE RangesInPlace
  OBVIOUS
<1>1. calls = << >> /\ ranges = << >> /\ pc = "walk"
  BY DEF Init, New
<1>2. calls \in Seq(Contexts) /\ ranges \in Seq(SpanType) /\ DOMAIN ranges = {}
  BY <1>1
<1> QED BY <1>1, <1>2 DEF RangesInPlace, Ordered, EndsIn, Proper, New

LEMMA RangesStep ==
  ASSUME Given, RangesInPlace, [Next]_vars
  PROVE  RangesInPlace'
<1>0. /\ debug' = debug /\ list' = list /\ Whole' = Whole
      /\ Whole \in ContentType /\ Whole.tags \in Seq(TagAt)
  BY Unchanging, WholeType
<1>u. Upright' = Upright
  BY <1>0 DEF Upright, Configured
<1>1. ASSUME calls' = calls, ranges' = ranges, pc' = pc
      PROVE  RangesInPlace'
  BY <1>0, <1>u, <1>1 DEF RangesInPlace
<1>2. ASSUME calls' = calls, ranges' = ranges, pc' \notin {"walk", "ranges", "cut", "ready"}
      PROVE  RangesInPlace'
  BY <1>0, <1>u, <1>2 DEF RangesInPlace
<1>3. CASE GetRanges
  <2>1. calls' = <<Context(list, 0)>> /\ ranges' = ranges /\ pc' = "ranges" /\ ranges = New
    BY <1>3 DEF GetRanges, RangesInPlace
  <2>2. calls' \in Seq(Contexts) /\ OpenAt(calls', 0, Whole, debug)
    BY <2>1, OpenStart DEF Given, Whole
  <2>3. Collected(ranges, Whole.tags, 0)
    BY <2>1 DEF New, Collected, Covers, RangesOf
  <2>4. 0 <= Len(Whole.tags)
    BY <1>0
  <2> QED BY <1>0, <1>u, <2>1, <2>2, <2>3, <2>4 DEF RangesInPlace
<1>4. CASE AddRange
  <2>1. CASE Panic
    BY <1>2, <2>1 DEF Panic
  <2>2. CASE ~Panic
    <3> DEFINE t == NextItem(calls)
               base == Top(calls).base
    <3>1. /\ pc = "ranges" /\ AtTag(calls)
          /\ ~Overflows(t.low + base) /\ ~Overflows(t.high + base + 1)
          /\ ranges' = Union(ranges, RangeOf(base, t)) /\ calls' = Taken(calls) /\ pc' = pc
      BY <1>4, <2>2 DEF AddRange
    <3>2. PICK n \in Nat : /\ n <= Len(Whole.tags)
                           /\ OpenAt(calls, n, Whole, debug)
                           /\ Collected(ranges, Whole.tags, n)
      BY <3>1 DEF RangesInPlace
    <3>3. /\ t \in TagType /\ base \in Nat
          /\ Taken(calls) \in Seq(Contexts)
          /\ OpenAt(Taken(calls), n + 1, Whole, debug)
          /\ n + 1 \in DOMAIN Whole.tags
      BY <1>0, <3>1, <3>2, OpenTag DEF RangesInPlace
    <3>4. PICK b \in Nat :
             /\ base = Wrap(b) /\ (debug => base = b)
             /\ Whole.tags[n + 1] = Moved(t, b)
      BY <1>0, <3>1, <3>2, OpenTag DEF RangesInPlace
    <3> HIDE DEF t
    <3>5. PICK r : r = RangeOf(0, Moved(t, b))
      OBVIOUS
    <3>6. /\ RangeOf(base, t) = r
          /\ r \in SpanType /\ r.start \in 0 .. Size - 1 /\ r.end \in 0 .. Size - 1
          /\ t.low + b + 0 < Size /\ t.high + b + 1 < Size =>
               r.start = t.low + b /\ r.end = t.high + b + 1
      BY <3>3, <3>4, <3>5, RangeOfTag
    <3>7. r = RangeOf(0, Whole.tags[n + 1])
      BY <3>4, <3>5
    <3>8. /\ ranges' \in Seq(SpanType) /\ Ordered(ranges')
          /\ EndsIn(ranges', 0 .. Size - 1)
          /\ Collected(ranges', Whole.tags, n + 1)
          /\ Proper(ranges) /\ r.start <= r.end => Proper(ranges')
      BY <3>1, <3>2, <3>6, <3>7, CollectOne DEF RangesInPlace
    <3>9. ASSUME debug, Upright
          PROVE  Proper(ranges')
      <4>1. t.low \in Nat /\ t.high \in Nat
        BY <3>3 DEF TagType
      <4>2. t.low + b < Size /\ t.high + b + 1 < Size
        BY <3>1, <3>4, <3>9, <4>1, WidthAssumption DEF Overflows
      <4>3. Moved(t, b) \in Configured
        BY <3>3, <3>4 DEF Configured, Range
      <4>4. t.low + b <= t.high + b
        BY <3>9, <4>3 DEF Upright, Moved
      <4>5. r.start <= r.end
        BY <3>6, <4>1, <4>2, <4>4
      <4>6. Proper(ranges)
        BY <3>9 DEF RangesInPlace
      <4> QED BY <3>8, <4>5, <4>6
    <3>10. n + 1 \in Nat /\ n + 1 <= Len(Whole.tags)
      BY <1>0, <3>3
    <3>11. pc' = "ranges" /\ calls' \in Seq(Contexts) /\ OpenAt(calls', n + 1, Whole, debug)
      BY <3>1, <3>3
    <3> QED BY <1>0, <1>u, <3>8, <3>9, <3>10, <3>11 DEF RangesInPlace
  <2> QED BY <2>1, <2>2
<1>5. CASE CallForGroup
  <2>1. CASE Panic
    BY <1>2, <2>1 DEF Panic
  <2>2. CASE ~Panic
    <3>1. PICK sum : sum = Top(calls).base + NextItem(calls).base
      OBVIOUS
    <3>2. /\ pc = "ranges" /\ pc' = pc /\ AtGroup(calls) /\ ~Overflows(sum)
          /\ calls' = Opened(calls, Wrap(sum)) /\ ranges' = ranges
      BY <1>5, <2>2, <3>1 DEF CallForGroup
    <3>3. PICK n \in Nat : /\ n <= Len(Whole.tags)
                           /\ OpenAt(calls, n, Whole, debug)
                           /\ Collected(ranges, Whole.tags, n)
      BY <3>2 DEF RangesInPlace
    <3>4. sum \in Nat
      BY <1>0, <3>1, <3>2, <3>3, OpenGroup DEF RangesInPlace
    <3>5. debug => sum < Size
      BY <3>2, <3>4, WidthAssumption DEF Overflows
    <3>6. calls' \in Seq(Contexts) /\ OpenAt(calls', n, Whole, debug)
      BY <1>0, <3>1, <3>2, <3>3, <3>5, OpenGroup DEF RangesInPlace
    <3> QED BY <1>0, <1>u, <3>2, <3>3, <3>6 DEF RangesInPlace
  <2> QED BY <2>1, <2>2
<1>6. CASE Return
  <2>1. /\ pc = "ranges" /\ pc' = pc /\ AtEnd(calls)
        /\ calls' = Below(calls) /\ ranges' = ranges
    BY <1>6 DEF Return
  <2>2. PICK n \in Nat : /\ n <= Len(Whole.tags)
                         /\ OpenAt(calls, n, Whole, debug)
                         /\ Collected(ranges, Whole.tags, n)
    BY <2>1 DEF RangesInPlace
  <2>3. calls' \in Seq(Contexts) /\ OpenAt(calls', n, Whole, debug)
    BY <2>1, <2>2, OpenEnd DEF RangesInPlace
  <2> QED BY <1>0, <1>u, <2>1, <2>2, <2>3 DEF RangesInPlace
<1>7. CASE HaveRanges
  <2>1. pc = "ranges" /\ pc' = "cut" /\ calls = << >> /\ calls' = calls /\ ranges' = ranges
    BY <1>7 DEF HaveRanges
  <2>2. PICK n \in Nat : /\ OpenAt(calls, n, Whole, debug)
                         /\ Collected(ranges, Whole.tags, n)
    BY <2>1 DEF RangesInPlace
  <2>3. n = Len(Whole.tags)
    BY <2>1, <2>2, OpenDone
  <2> QED BY <1>0, <1>u, <2>1, <2>2, <2>3 DEF RangesInPlace
<1>8. CASE Ready
  <2>1. pc = "cut" /\ pc' = "ready" /\ calls' = calls /\ ranges' = ranges
    BY <1>8 DEF Ready
  <2> QED BY <1>0, <1>u, <2>1 DEF RangesInPlace
<1>9. ASSUME ~GetRanges, ~AddRange, ~CallForGroup, ~Return, ~HaveRanges, ~Ready
      PROVE  calls' = calls /\ ranges' = ranges /\ (pc' = pc \/ pc' = "panicked")
  BY <1>9 DEF Next, vars, Panic, VisitTag, EnterGroup, LeaveGroup,
              StartRange, PushOp, EndRange, Finished
<1> QED BY <1>1, <1>2, <1>3, <1>4, <1>5, <1>6, <1>7, <1>8, <1>9

-----------------------------------------------------------------------------
(***************************************************************************)
(* push_range: what is requested, then what is left of the range in hand,  *)
(* then the ranges left, in the order of the addresses.                    *)
(***************************************************************************)
Cut == [start : Nat, end : 0 .. Size - 1, length : Int]
Op == [start : Nat, length : Nat]

CutInOrder ==
    /\ left \in Seq(SpanType) /\ Ordered(left) /\ EndsIn(left, 0 .. Size - 1)
    /\ debug /\ Upright => Proper(left)
    /\ cut \in Seq(Cut) /\ Len(cut) <= 1
    /\ cut # << >> =>
          /\ cut[1].start < cut[1].end => cut[1].length = cut[1].end - cut[1].start
          /\ \A k \in DOMAIN left :
                cut[1].start < left[k].start /\ cut[1].end < left[k].start
    /\ pc \in {"walk", "ranges"} => seq = << >> /\ cut = << >>

RequestsInOrder ==
    /\ seq \in Seq(Op) /\ RequestsAreLegal
    /\ \A i \in DOMAIN seq :
          /\ cut # << >> => seq[i].start + seq[i].length <= cut[1].start
          /\ \A k \in DOMAIN left : seq[i].start + seq[i].length <= left[k].start

Requested(a) == \E i \in DOMAIN seq : a \in ReadBy(seq[i])
InHand(a) == cut # << >> /\ a \in cut[1].start .. cut[1].end - 1

NothingIsLost ==
    /\ pc \in {"cut", "ready"} =>
          \A a : Requested(a) \/ InHand(a) \/ Covers(left, a) <=> Covers(ranges, a)
    /\ pc = "ready" => cut = << >> /\ left = << >>

LEMMA HeadAndTail ==
  ASSUME NEW arr, arr \in Seq(SpanType), arr # << >>, Ordered(arr)
  PROVE  /\ Head(arr) = arr[1] /\ Head(arr) \in SpanType /\ 1 \in DOMAIN arr
         /\ Tail(arr) \in Seq(SpanType) /\ Ordered(Tail(arr))
         /\ \A S : EndsIn(arr, S) => /\ EndsIn(Tail(arr), S)
                                     /\ Head(arr).start \in S /\ Head(arr).end \in S
         /\ Proper(arr) => Proper(Tail(arr)) /\ Head(arr).start <= Head(arr).end
         /\ \A k \in DOMAIN Tail(arr) : k + 1 \in DOMAIN arr /\ Tail(arr)[k] = arr[k + 1]
         /\ \A k \in DOMAIN Tail(arr) : /\ Head(arr).start < Tail(arr)[k].start
                                        /\ Head(arr).end < Tail(arr)[k].start
         /\ \A a : Covers(arr, a) <=> a \in Reach(Head(arr), 1) \/ Covers(Tail(arr), a)
<1>1. PICK n \in Nat : n = Len(arr)
  OBVIOUS
<1>2. n > 0 /\ Head(arr) = arr[1] /\ DOMAIN arr = 1 .. n /\ 1 \in DOMAIN arr
  BY <1>1
<1>3. Head(arr) \in SpanType
  BY <1>2
<1>4. PICK behind : behind = Tail(arr)
  OBVIOUS
<1>5. /\ behind \in Seq(SpanType) /\ DOMAIN behind = 1 .. n - 1
      /\ \A k \in 1 .. n - 1 : behind[k] = arr[k + 1]
  BY <1>1, <1>2, <1>4
<1>6. \A k \in DOMAIN behind : k + 1 \in DOMAIN arr /\ behind[k] = arr[k + 1]
  BY <1>2, <1>5
<1>7. Ordered(behind)
  <2> SUFFICES ASSUME NEW i \in DOMAIN behind, NEW j \in DOMAIN behind, i < j
               PROVE  behind[i].start < behind[j].start /\ behind[i].end < behind[j].start
    BY DEF Ordered
  <2>1. i + 1 < j + 1
    BY <1>5
  <2> QED BY <1>6, <2>1 DEF Ordered
<1>8. \A S : EndsIn(arr, S) => /\ EndsIn(behind, S)
                               /\ Head(arr).start \in S /\ Head(arr).end \in S
  BY <1>2, <1>6 DEF EndsIn
<1>9. Proper(arr) => Proper(behind) /\ Head(arr).start <= Head(arr).end
  BY <1>2, <1>6 DEF Proper
<1>10. \A k \in DOMAIN behind : /\ Head(arr).start < behind[k].start
                                /\ Head(arr).end < behind[k].start
  <2> SUFFICES ASSUME NEW k \in DOMAIN behind
               PROVE  Head(arr).start < behind[k].start /\ Head(arr).end < behind[k].start
    OBVIOUS
  <2>1. 1 < k + 1 /\ k + 1 \in DOMAIN arr /\ behind[k] = arr[k + 1]
    BY <1>5, <1>6
  <2> QED BY <1>2, <2>1 DEF Ordered
<1>11. \A a : Covers(arr, a) <=> a \in Reach(Head(arr), 1) \/ Covers(behind, a)
  <2> SUFFICES ASSUME NEW a
               PROVE  Covers(arr, a) <=> a \in Reach(Head(arr), 1) \/ Covers(behind, a)
    OBVIOUS
  <2>1. ASSUME NEW i \in DOMAIN arr, i # 1
        PROVE  i - 1 \in DOMAIN behind /\ behind[i - 1] = arr[i]
    BY <1>2, <1>5, <2>1
  <2>2. Covers(arr, a) => a \in Reach(Head(arr), 1) \/ Covers(behind, a)
    BY <1>2, <2>1 DEF Covers
  <2>3. a \in Reach(Head(arr), 1) \/ Covers(behind, a) => Covers(arr, a)
    BY <1>2, <1>6 DEF Covers
  <2> QED BY <2>2, <2>3
<1> QED BY <1>2, <1>3, <1>4, <1>5, <1>6, <1>7, <1>8, <1>9, <1>10, <1>11

LEMMA CutStart == Init => CutInOrder /\ RequestsInOrder /\ NothingIsLost
<1> SUFFICES ASSUME Init PROVE CutInOrder /\ RequestsInOrder /\ NothingIsLost
  OBVIOUS
<1>1. left = << >> /\ cut = << >> /\ seq = << >> /\ pc = "walk"
  BY DEF Init
<1>2. left \in Seq(SpanType) /\ cut \in Seq(Cut) /\ Len(cut) = 0 /\ seq \in Seq(Op)
      /\ DOMAIN left = {} /\ DOMAIN seq = {}
  BY <1>1
<1>3. Ordered(left) /\ EndsIn(left, 0 .. Size - 1) /\ Proper(left) /\ RequestsAreLegal
  BY <1>2 DEF Ordered, EndsIn, Proper, RequestsAreLegal
<1> QED BY <1>1, <1>2, <1>3 DEF CutInOrder, RequestsInOrder, NothingIsLost

LEMMA CutStep ==
  ASSUME Given, RangesInPlace, CutInOrder, RequestsInOrder, NothingIsLost, [Next]_vars
  PROVE  CutInOrder' /\ RequestsInOrder' /\ NothingIsLost'
<1>0. debug' = debug /\ list' = list /\ Whole' = Whole
  BY Unchanging
<1>u. Upright' = Upright
  BY <1>0 DEF Upright, Configured
<1>1. ASSUME left' = left, cut' = cut, seq' = seq, ranges' = ranges, pc' = pc
      PROVE  CutInOrder' /\ RequestsInOrder' /\ NothingIsLost'
  BY <1>0, <1>u, <1>1
     DEF CutInOrder, RequestsInOrder, NothingIsLost, RequestsAreLegal, Requested, InHand
<1>2. ASSUME left' = left, cut' = cut, seq' = seq,
             pc' \notin {"cut", "ready"}, pc' = "panicked" \/ pc \in {"walk", "ranges"}
      PROVE  CutInOrder' /\ RequestsInOrder' /\ NothingIsLost'
  <2>1. NothingIsLost'
    BY <1>2 DEF NothingIsLost
  <2>2. RequestsInOrder'
    BY <1>2 DEF RequestsInOrder, RequestsAreLegal
  <2>3. CutInOrder'
    BY <1>0, <1>u, <1>2 DEF CutInOrder
  <2> QED BY <2>1, <2>2, <2>3
<1>3. CASE HaveRanges
  <2>1. /\ pc = "ranges" /\ pc' = "cut" /\ left' = ranges /\ ranges' = ranges
        /\ cut' = cut /\ seq' = seq /\ cut = << >> /\ seq = << >>
    BY <1>3 DEF HaveRanges, CutInOrder
  <2>2. DOMAIN seq = {}
    BY <2>1
  <2>3. CutInOrder'
    BY <1>0, <1>u, <2>1 DEF CutInOrder, RangesInPlace
  <2>4. RequestsInOrder'
    BY <2>1, <2>2 DEF RequestsInOrder, RequestsAreLegal
  <2>5. NothingIsLost'
    BY <2>1, <2>2 DEF NothingIsLost, Requested, InHand
  <2> QED BY <2>3, <2>4, <2>5
<1>4. CASE StartRange
  <2>1. CASE Panic
    BY <1>2, <2>1 DEF Panic
  <2>2. CASE ~Panic
    <3>1. PICK r : r = Head(left)
      OBVIOUS
    <3>2. PICK c : c = [start |-> r.start, end |-> r.end, length |-> Wrap(r.end - r.start)]
      OBVIOUS
    <3>3. /\ pc = "cut" /\ pc' = pc /\ cut = << >> /\ left # << >>
          /\ cut' = <<c>> /\ left' = Tail(left) /\ seq' = seq /\ ranges' = ranges
      BY <1>4, <2>2, <3>1, <3>2 DEF StartRange
    <3>4. /\ r = left[1] /\ 1 \in DOMAIN left
          /\ left' \in Seq(SpanType) /\ Ordered(left') /\ EndsIn(left', 0 .. Size - 1)
          /\ r.start \in 0 .. Size - 1 /\ r.end \in 0 .. Size - 1
          /\ debug /\ Upright => Proper(left')
          /\ \A k \in DOMAIN left' : k + 1 \in DOMAIN left /\ left'[k] = left[k + 1]
          /\ \A k \in DOMAIN left' : r.start < left'[k].start /\ r.end < left'[k].start
          /\ \A a : Covers(left, a) <=> a \in Reach(r, 1) \/ Covers(left', a)
      BY <3>1, <3>3, HeadAndTail DEF CutInOrder
    <3>5. c.start = r.start /\ c.end = r.end /\ c.length = Wrap(r.end - r.start)
      BY <3>2
    <3>6. c \in Cut /\ (c.start < c.end => c.length = c.end - c.start)
      <4>1. r.end - r.start \in Int /\ Wrap(r.end - r.start) \in Int
        BY <3>4, WidthAssumption DEF Wrap
      <4>2. r.start < r.end => Wrap(r.end - r.start) = r.end - r.start
        BY <3>4, WrapFacts, WidthAssumption
      <4>3. c \in Cut
        BY <3>2, <3>4, <4>1 DEF Cut
      <4> QED BY <3>5, <4>2, <4>3
    <3>7. cut' \in Seq(Cut) /\ Len(cut') = 1 /\ cut'[1] = c /\ cut' # << >>
      BY <3>3, <3>6
    <3>8. CutInOrder'
      BY <1>0, <1>u, <3>3, <3>4, <3>5, <3>6, <3>7 DEF CutInOrder
    <3>9. RequestsInOrder'
      <4>1. \A i \in DOMAIN seq : \A k \in DOMAIN left : seq[i].start + seq[i].length <= left[k].start
        BY DEF RequestsInOrder
      <4>2. RequestsAreLegal' /\ seq' \in Seq(Op)
        BY <3>3 DEF RequestsInOrder, RequestsAreLegal
      <4> QED BY <3>3, <3>4, <3>5, <3>7, <4>1, <4>2 DEF RequestsInOrder
    <3>10. NothingIsLost'
      <4>1. \A a : Requested(a)' <=> Requested(a)
        BY <3>3 DEF Requested
      <4>2. \A a : InHand(a)' <=> a \in Reach(r, 1)
        BY <3>5, <3>7 DEF InHand, Reach
      <4>3. \A a : ~InHand(a)
        BY <3>3 DEF InHand
      <4>4. \A a : Requested(a) \/ InHand(a) \/ Covers(left, a) <=> Covers(ranges, a)
        BY <3>3 DEF NothingIsLost
      <4>5. \A a : Requested(a)' \/ InHand(a)' \/ Covers(left', a) <=> Covers(ranges, a)
        BY <3>4, <4>1, <4>2, <4>3, <4>4
      <4> QED BY <3>3, <4>5 DEF NothingIsLost
    <3> QED BY <3>8, <3>9, <3>10
  <2> QED BY <2>1, <2>2
<1>6. CASE EndRange
  <2>1. /\ pc = "cut" /\ pc' = pc /\ cut # << >> /\ cut[1].start >= cut[1].end
        /\ cut' = << >> /\ left' = left /\ seq' = seq /\ ranges' = ranges
    BY <1>6 DEF EndRange
  <2>2. cut' \in Seq(Cut) /\ Len(cut') = 0
    BY <2>1
  <2>3. CutInOrder'
    BY <1>0, <1>u, <2>1, <2>2 DEF CutInOrder
  <2>4. RequestsInOrder'
    BY <2>1 DEF RequestsInOrder, RequestsAreLegal
  <2>5. NothingIsLost'
    <3>1. cut[1] \in Cut
      BY <2>1 DEF CutInOrder
    <3>2. cut[1].start \in Int /\ cut[1].end \in Int
      BY <3>1 DEF Cut
    <3>3. \A a : ~InHand(a) /\ ~InHand(a)'
      BY <2>1, <3>2 DEF InHand
    <3> QED BY <2>1, <3>3 DEF NothingIsLost, Requested
  <2> QED BY <2>3, <2>4, <2>5
<1>7. CASE Ready
  <2>1. /\ pc = "cut" /\ pc' = "ready" /\ cut = << >> /\ left = << >>
        /\ cut' = cut /\ left' = left /\ seq' = seq /\ ranges' = ranges
    BY <1>7 DEF Ready
  <2>2. CutInOrder'
    BY <1>0, <1>u, <2>1 DEF CutInOrder
  <2>3. RequestsInOrder'
    BY <2>1 DEF RequestsInOrder, RequestsAreLegal
  <2>4. NothingIsLost'
    BY <2>1 DEF NothingIsLost, Requested, InHand
  <2> QED BY <2>2, <2>3, <2>4
<1>5. CASE PushOp
  <2>1. PICK c : c = cut[1]
    OBVIOUS
  <2>2. PICK n : n = OpLen(c.length)
    OBVIOUS
  <2>3. PICK op, rest : /\ op = [start |-> c.start, length |-> n]
                        /\ rest = [start |-> c.start + n, end |-> c.end, length |-> c.length - n]
    OBVIOUS
  <2>4. /\ pc = "cut" /\ pc' = pc /\ cut # << >> /\ c.start < c.end
        /\ seq' = Append(seq, op) /\ cut' = <<rest>>
        /\ left' = left /\ ranges' = ranges
    BY <1>5, <2>1, <2>2, <2>3 DEF PushOp
  <2>5. c \in Cut
    BY <2>1, <2>4 DEF CutInOrder
  <2>6. c.start \in Nat /\ c.end \in 0 .. Size - 1 /\ c.length = c.end - c.start
        /\ c.end \in Nat /\ c.end <= Size
    BY <2>1, <2>4, <2>5, WidthAssumption DEF Cut, CutInOrder
  <2>7. n \in 1 .. MaxLen /\ n \in Nat /\ n <= c.end - c.start
    BY <2>2, <2>4, <2>6, PlanAssumption DEF OpLen
  <2>8. op.start = c.start /\ op.length = n /\ op \in Op
        /\ rest.start = c.start + n /\ rest.end = c.end /\ rest.length = c.length - n
    BY <2>3, <2>6, <2>7 DEF Op
  <2>9. rest \in Cut
    BY <2>3, <2>6, <2>7 DEF Cut
  <2>10. cut' \in Seq(Cut) /\ Len(cut') = 1 /\ cut'[1] = rest /\ cut' # << >>
    BY <2>4, <2>9
  <2>11. \A k \in DOMAIN left : left[k].start \in Int /\ c.end < left[k].start
    BY <2>1, <2>4, SpanFields DEF CutInOrder
  <2>12. CutInOrder'
    <3>1. \A k \in DOMAIN left : rest.start < left[k].start /\ rest.end < left[k].start
      BY <2>6, <2>7, <2>8, <2>11
    <3>2. rest.start < rest.end => rest.length = rest.end - rest.start
      BY <2>6, <2>7, <2>8
    <3> QED BY <1>0, <1>u, <2>4, <2>10, <3>1, <3>2 DEF CutInOrder
  <2>13. PICK m \in Nat : m = Len(seq)
    BY DEF RequestsInOrder
  <2>14. /\ seq' \in Seq(Op) /\ DOMAIN seq' = 1 .. m + 1 /\ DOMAIN seq = 1 .. m
         /\ seq'[m + 1] = op /\ \A i \in 1 .. m : seq'[i] = seq[i]
    BY <2>4, <2>8, <2>13 DEF RequestsInOrder
  <2>15. \A i \in 1 .. m : /\ seq[i].start \in Nat /\ seq[i].length \in Nat
                           /\ seq[i].length \in 1 .. MaxLen
                           /\ seq[i].start + seq[i].length <= Size
                           /\ seq[i].start + seq[i].length <= c.start
    <3> SUFFICES ASSUME NEW i \in 1 .. m
                 PROVE  /\ seq[i].start \in Nat /\ seq[i].length \in Nat
                        /\ seq[i].length \in 1 .. MaxLen
                        /\ seq[i].start + seq[i].length <= Size
                        /\ seq[i].start + seq[i].length <= c.start
      OBVIOUS
    <3>1. seq[i] \in Op
      BY <2>14 DEF RequestsInOrder
    <3>2. seq[i].start \in Nat /\ seq[i].length \in Nat
      BY <3>1 DEF Op
    <3>3. seq[i].length \in 1 .. MaxLen /\ seq[i].start + seq[i].length <= Size
      BY <2>14 DEF RequestsInOrder, RequestsAreLegal
    <3>4. seq[i].start + seq[i].length <= c.start
      BY <2>1, <2>4, <2>14 DEF RequestsInOrder
    <3> QED BY <3>2, <3>3, <3>4
  <2>16. RequestsInOrder'
    <3>1. \A i \in 1 .. m + 1 : /\ seq'[i].length \in 1 .. MaxLen
                                /\ seq'[i].start + seq'[i].length <= Size
                                /\ seq'[i].start + seq'[i].length <= rest.start
      <4> SUFFICES ASSUME NEW i \in 1 .. m + 1
                   PROVE  /\ seq'[i].length \in 1 .. MaxLen
                          /\ seq'[i].start + seq'[i].length <= Size
                          /\ seq'[i].start + seq'[i].length <= rest.start
        OBVIOUS
      <4>1. CASE i = m + 1
        <5>1. seq'[i].start = c.start /\ seq'[i].length = n
          BY <2>8, <2>14, <4>1
        <5>2. c.start + n <= Size
          <6>1. PICK x \in Nat, y \in Nat : x = c.start /\ y = c.end
            BY <2>6
          <6>2. n <= y - x /\ y <= Size
            BY <2>6, <2>7, <6>1
          <6>3. x + n <= Size
            BY <2>7, <6>2, WidthAssumption
          <6> QED BY <6>1, <6>3
        <5>3. rest.start = c.start + n
          BY <2>8
        <5>4. c.start + n <= c.start + n
          BY <2>6, <2>7
        <5> QED BY <2>7, <5>1, <5>2, <5>3, <5>4
      <4>2. CASE i \in 1 .. m
        BY <2>6, <2>7, <2>8, <2>14, <2>15, <4>2
      <4> QED BY <4>1, <4>2
    <3>2. \A i, j \in 1 .. m + 1 : i < j => seq'[i].start + seq'[i].length <= seq'[j].start
      <4> SUFFICES ASSUME NEW i \in 1 .. m + 1, NEW j \in 1 .. m + 1, i < j
                   PROVE  seq'[i].start + seq'[i].length <= seq'[j].start
        OBVIOUS
      <4>1. i \in 1 .. m /\ seq'[i] = seq[i]
        BY <2>14
      <4>2. CASE j = m + 1
        BY <2>8, <2>14, <2>15, <4>1, <4>2
      <4>3. CASE j \in 1 .. m
        <5>1. seq[i].start + seq[i].length <= seq[j].start
          BY <2>14, <4>1, <4>3 DEF RequestsInOrder, RequestsAreLegal
        <5> QED BY <2>14, <4>1, <4>3, <5>1
      <4> QED BY <4>2, <4>3
    <3>3. \A i \in 1 .. m + 1 : \A k \in DOMAIN left :
             seq'[i].start + seq'[i].length <= left[k].start
      <4> SUFFICES ASSUME NEW i \in 1 .. m + 1, NEW k \in DOMAIN left
                   PROVE  seq'[i].start + seq'[i].length <= left[k].start
        OBVIOUS
      <4>1. CASE i = m + 1
        BY <2>6, <2>7, <2>8, <2>11, <2>14, <4>1
      <4>2. CASE i \in 1 .. m
        BY <2>14, <4>2 DEF RequestsInOrder
      <4> QED BY <4>1, <4>2
    <3>4. RequestsAreLegal'
      BY <2>14, <3>1, <3>2 DEF RequestsAreLegal
    <3> QED BY <2>4, <2>10, <2>14, <3>1, <3>3, <3>4 DEF RequestsInOrder
  <2>17. NothingIsLost'
    <3>1. \A a : Requested(a)' <=> Requested(a) \/ a \in ReadBy(op)
      <4>1. \A i : i \in 1 .. m + 1 <=> i \in 1 .. m \/ i = m + 1
        BY <2>13
      <4> QED BY <2>14, <4>1 DEF Requested
    <3>2. \A a : InHand(a) <=> a \in c.start .. c.end - 1
      BY <2>1, <2>4 DEF InHand
    <3>3. \A a : InHand(a)' <=> a \in c.start + n .. c.end - 1
      BY <2>8, <2>10 DEF InHand
    <3>4. \A a : a \in c.start .. c.end - 1 <=>
                   a \in ReadBy(op) \/ a \in c.start + n .. c.end - 1
      BY <2>6, <2>7, <2>8 DEF ReadBy
    <3>5. \A a : Requested(a)' \/ InHand(a)' \/ Covers(left, a)
                   <=> Requested(a) \/ InHand(a) \/ Covers(left, a)
      BY <3>1, <3>2, <3>3, <3>4, Zenon
    <3> QED BY <2>4, <3>5 DEF NothingIsLost
  <2> QED BY <2>12, <2>16, <2>17
<1>8. ASSUME ~HaveRanges, ~StartRange, ~PushOp, ~EndRange, ~Ready
      PROVE  /\ left' = left /\ cut' = cut /\ seq' = seq
             /\ \/ ranges' = ranges /\ pc' = pc
                \/ pc' = "panicked"
                \/ pc \in {"walk", "ranges"} /\ pc' \notin {"cut", "ready"}
  BY <1>8 DEF Next, vars, Panic, VisitTag, EnterGroup, LeaveGroup,
              GetRanges, AddRange, CallForGroup, Return, Finished
<1> QED BY <1>1, <1>2, <1>3, <1>4, <1>5, <1>6, <1>7, <1>8

-----------------------------------------------------------------------------
(***************************************************************************)
(* Every panic has one of the reasons StartsUp names.                      *)
(***************************************************************************)
Excused ==
    \/ \E t \in Configured : ~FitsIn(t, IF debug THEN Size - 1 ELSE Size)
    \/ debug /\ ((\E b \in Whole.bases : b >= Size) \/ \E t \in Configured : t.low > t.high)

LEMMA TagsAreConfigured ==
  ASSUME Given
  PROVE  /\ \A i \in DOMAIN Whole.tags : Whole.tags[i] \in Configured
         /\ \A t \in Configured : /\ t.low \in Nat /\ t.high \in Nat
                                  /\ \E i \in DOMAIN Whole.tags : t = Whole.tags[i]
BY WholeType DEF Configured, Range

LEMMA VisitPanics ==
  ASSUME Given, IteratorInPlace, VisitTag, pc' = "panicked"
  PROVE  Excused
<1> DEFINE t == NextItem(pos)
           base == Top(pos).base
           index == Wrap(t.low + base)
           count == t.high - t.low + 1
<1>1. AtTag(pos) /\ t.initial /\ (Overflows(t.low + base) \/ Overruns(index, count))
  BY DEF VisitTag
<1>2. PICK n \in Nat : n = Len(visited)
  BY DEF IteratorInPlace
<1>3. OpenAt(pos, n, Whole, debug) /\ Whole \in ContentType
  BY <1>2, WholeType DEF IteratorInPlace
<1>4. t \in Tags /\ t \in TagType /\ n + 1 \in DOMAIN Whole.tags
  BY <1>1, <1>3, OpenTag DEF IteratorInPlace
<1>5. PICK b \in Nat : /\ base = Wrap(b) /\ (debug => base = b)
                       /\ Whole.tags[n + 1] = Moved(t, b)
  BY <1>1, <1>3, OpenTag DEF IteratorInPlace
<1>6. t.low \in Nat /\ t.high \in Nat /\ t.low <= t.high
  BY <1>1, <1>4, PlanAssumption DEF TagType
<1>7. PICK at : at \in Configured /\ at.low = t.low + b /\ at.high = t.high + b
  <2>1. Moved(t, b) \in Configured
    BY <1>4, <1>5, TagsAreConfigured
  <2>2. Moved(t, b).low = t.low + b /\ Moved(t, b).high = t.high + b
    BY DEF Moved
  <2> QED BY <2>1, <2>2
<1> HIDE DEF t
<1>8. CASE debug
  <2>1. base = b /\ base \in Nat /\ t.low + base \in Nat
    BY <1>5, <1>6, <1>8
  <2>2. t.low + b >= Size \/ Overruns(Wrap(t.low + b), count)
    BY <1>1, <2>1 DEF Overflows
  <2>3. t.low + b < Size => Wrap(t.low + b) = t.low + b
    BY <1>6, WrapFacts
  <2>4. t.low + b >= Size \/ t.low + b + count > Size
    <3>1. PICK x \in Nat : x = t.low + b
      BY <1>6
    <3>k. PICK k : k = count
      OBVIOUS
    <3>2. x >= Size \/ (Wrap(x) = x /\ Overruns(Wrap(x), k))
      BY <2>2, <2>3, <3>1, <3>k, WidthAssumption
    <3>3. x >= Size \/ x + k > Size
      BY <3>2 DEF Overruns
    <3> QED BY <3>1, <3>k, <3>3
  <2>5. at.high >= Size
    BY <1>6, <1>7, <2>4, WidthAssumption
  <2>6. ~FitsIn(at, Size - 1)
    BY <1>6, <1>7, <2>5, WidthAssumption DEF FitsIn
  <2> QED BY <1>7, <1>8, <2>6 DEF Excused
<1>9. CASE ~debug
  <2>1. Overruns(index, count)
    BY <1>1, <1>9 DEF Overflows
  <2>2. ASSUME FitsIn(at, Size)
        PROVE  FALSE
    <3>1. t.low + b < Size /\ t.high + b < Size
      BY <1>7, <2>2 DEF FitsIn
    <3>2. b < Size
      BY <1>6, <3>1, WidthAssumption
    <3>3. base = b /\ Wrap(t.low + b) = t.low + b
      BY <1>5, <1>6, <3>1, <3>2, WrapFacts
    <3>4. t.low + b + count > Size
      BY <2>1, <3>3 DEF Overruns
    <3> QED BY <1>6, <3>1, <3>4, WidthAssumption
  <2> QED BY <1>7, <1>9, <2>2 DEF Excused
<1> QED BY <1>8, <1>9

LEMMA EnterPanics ==
  ASSUME Given, IteratorInPlace, EnterGroup, pc' = "panicked"
  PROVE  Excused
<1>1. PICK sum : sum = Top(pos).base + NextItem(pos).base
  OBVIOUS
<1>2. AtGroup(pos) /\ debug /\ sum >= Size
  BY <1>1 DEF EnterGroup, InnerBase, Overflows
<1>3. sum \in Whole.bases
  BY <1>1, <1>2, OpenGroup, WholeType DEF IteratorInPlace
<1> QED BY <1>2, <1>3 DEF Excused

LEMMA AddPanics ==
  ASSUME Given, RangesInPlace, AddRange, pc' = "panicked"
  PROVE  Excused
<1> DEFINE t == NextItem(calls)
           base == Top(calls).base
<1>1. /\ pc = "ranges" /\ AtTag(calls) /\ debug
      /\ t.low + base >= Size \/ t.high + base + 1 >= Size
  BY DEF AddRange, Overflows
<1>2. PICK n \in Nat : OpenAt(calls, n, Whole, debug)
  BY <1>1 DEF RangesInPlace
<1>3. Whole \in ContentType
  BY WholeType
<1>4. t \in TagType /\ n + 1 \in DOMAIN Whole.tags
  BY <1>1, <1>2, <1>3, OpenTag DEF RangesInPlace
<1>5. PICK b \in Nat : base = b /\ Whole.tags[n + 1] = Moved(t, b)
  BY <1>1, <1>2, <1>3, OpenTag DEF RangesInPlace
<1>6. t.low \in Nat /\ t.high \in Nat
  BY <1>4 DEF TagType
<1>7. PICK at : at \in Configured /\ at.low = t.low + b /\ at.high = t.high + b
  <2>1. Moved(t, b) \in Configured
    BY <1>4, <1>5, TagsAreConfigured
  <2>2. Moved(t, b).low = t.low + b /\ Moved(t, b).high = t.high + b
    BY DEF Moved
  <2> QED BY <2>1, <2>2
<1> HIDE DEF t
<1>8. ~FitsIn(at, Size - 1)
  <2>1. t.low + b >= Size \/ t.high + b + 1 >= Size
    BY <1>1, <1>5
  <2>2. at.low >= Size - 1 \/ at.high >= Size - 1
    BY <1>6, <1>7, <2>1, WidthAssumption
  <2> QED BY <1>6, <1>7, <2>2, WidthAssumption DEF FitsIn
<1> QED BY <1>1, <1>7, <1>8 DEF Excused

LEMMA CallPanics ==
  ASSUME Given, RangesInPlace, CallForGroup, pc' = "panicked"
  PROVE  Excused
<1>1. PICK sum : sum = Top(calls).base + NextItem(calls).base
  OBVIOUS
<1>2. pc = "ranges" /\ AtGroup(calls) /\ debug /\ sum >= Size
  BY <1>1 DEF CallForGroup, Overflows
<1>3. PICK n \in Nat : OpenAt(calls, n, Whole, debug)
  BY <1>2 DEF RangesInPlace
<1>4. sum \in Whole.bases
  BY <1>1, <1>2, <1>3, OpenGroup, WholeType DEF RangesInPlace
<1> QED BY <1>2, <1>4 DEF Excused

LEMMA CutPanics ==
  ASSUME Given, CutInOrder, StartRange, pc' = "panicked"
  PROVE  Excused
<1>1. debug /\ left # << >> /\ Head(left).end < Head(left).start
  BY DEF StartRange
<1>2. /\ left \in Seq(SpanType) /\ Ordered(left) /\ (Upright => Proper(left))
  BY <1>1 DEF CutInOrder
<1>3. Head(left) \in SpanType /\ (Proper(left) => Head(left).start <= Head(left).end)
  BY <1>1, <1>2, HeadAndTail
<1>4. ~Upright
  BY <1>1, <1>2, <1>3, SpanFields
<1> QED BY <1>1, <1>4, TagsAreConfigured DEF Upright, Excused

LEMMA PanicStep ==
  ASSUME Given, IteratorInPlace, RangesInPlace, CutInOrder, StartsUp, [Next]_vars
  PROVE  StartsUp'
<1>1. debug' = debug /\ Whole' = Whole
  BY Unchanging
<1>2. Excused' = Excused
  BY <1>1 DEF Excused, Configured
<1>3. StartsUp <=> (pc = "panicked" => Excused)
  BY DEF StartsUp, Excused
<1>4. StartsUp' <=> (pc' = "panicked" => Excused')
  BY DEF StartsUp, Excused
<1> SUFFICES ASSUME pc' = "panicked" PROVE Excused
  BY <1>2, <1>4
<1>5. CASE pc = "panicked"
  BY <1>3, <1>5
<1>6. CASE pc # "panicked"
  <2>1. VisitTag \/ EnterGroup \/ AddRange \/ CallForGroup \/ StartRange
    BY <1>6 DEF Next, vars, LeaveGroup, GetRanges, Return, HaveRanges, PushOp, EndRange,
                Ready, Finished
  <2> QED BY <2>1, VisitPanics, EnterPanics, AddPanics, CallPanics, CutPanics
<1> QED BY <1>5, <1>6

-----------------------------------------------------------------------------
(***************************************************************************)
(* What is read when the sequence is ready.                                *)
(***************************************************************************)
LEMMA ReadableRange ==
  ASSUME NEW t \in TagAt, FitsIn(t, Size - 1)
  PROVE  Reach(RangeOf(0, t), 1) = Words(t)
<1>1. PICK x \in Nat, y \in Nat : x = t.low /\ y = t.high
  BY DEF TagAt
<1>2. x < Size - 1 /\ y < Size - 1
  BY <1>1 DEF FitsIn
<1>3. Wrap(x) = x /\ Wrap(y) = y /\ Wrap(y + 1) = y + 1
  BY <1>2, WrapFacts, WidthAssumption
<1>4. RangeOf(0, t) = Span(x, y + 1)
  <2>1. t.low + 0 = x /\ t.high + 0 = y
    BY <1>1
  <2> QED BY <1>3, <2>1 DEF RangeOf
<1>5. PICK r : r = RangeOf(0, t) /\ r.start = x /\ r.end = y + 1
  BY <1>4, SpanLemma
<1> QED BY <1>1, <1>5 DEF Reach, Words

LEMMA LastAddressRange ==
  ASSUME NEW t \in TagAt, FitsIn(t, Size), ~FitsIn(t, Size - 1)
  PROVE  Reach(RangeOf(0, t), 1) = {}
<1>1. PICK x \in Nat, y \in Nat : x = t.low /\ y = t.high
  BY DEF TagAt
<1>2. x < Size /\ y < Size /\ (x = Size - 1 \/ y = Size - 1)
  BY <1>1, WidthAssumption DEF FitsIn
<1>3. Wrap(x) = x /\ Wrap(y) = y
  BY <1>2, WrapFacts
<1>4. y < Size - 1 => Wrap(y + 1) = y + 1
  BY WrapFacts, WidthAssumption
<1>5. y = Size - 1 => Wrap(y + 1) = 0
  <2>1. (Size * 1 + 0) % Size = 0 /\ Size * 1 + 0 = Size
    BY RemainderOfSum, WidthAssumption
  <2> QED BY <2>1, WidthAssumption DEF Wrap
<1>6. PICK e \in Nat : e = Wrap(y + 1) /\ e <= x
  BY <1>2, <1>4, <1>5, WidthAssumption
<1>7. RangeOf(0, t) = Span(x, e)
  <2>1. t.low + 0 = x /\ t.high + 0 = y
    BY <1>1
  <2> QED BY <1>3, <1>6, <2>1 DEF RangeOf
<1>8. PICK r : r = RangeOf(0, t) /\ r.start = x /\ r.end = e
  BY <1>7, SpanLemma
<1>9. \A a : a \notin x .. e - 1
  BY <1>6
<1> QED BY <1>8, <1>9 DEF Reach

LEMMA ReadsAll ==
  ASSUME Given, RangesInPlace, CutInOrder, NothingIsLost
  PROVE  ReadsWhatIsConfigured
<1> DEFINE readable == {t \in Configured : FitsIn(t, Size - 1)}
           wanted == UNION {Words(t) : t \in readable}
           read == UNION {ReadBy(op) : op \in Range(seq)}
<1> SUFFICES ASSUME pc = "ready"
             PROVE  /\ wanted \subseteq read
                    /\ (\A t \in Configured : FitsIn(t, Size)) => read = wanted
  BY DEF ReadsWhatIsConfigured
<1>1. \A a : Requested(a) <=> Covers(ranges, a)
  <2>1. cut = << >> /\ left = << >> /\ DOMAIN left = {}
    BY DEF NothingIsLost
  <2> QED BY <2>1 DEF NothingIsLost, InHand, Covers
<1>2. \A a : Covers(ranges, a) <=> RangesOf(Whole.tags, Len(Whole.tags), a)
  BY DEF RangesInPlace, Collected
<1>3. \A a : RangesOf(Whole.tags, Len(Whole.tags), a)
                <=> \E t \in Configured : a \in Reach(RangeOf(0, t), 1)
  <2>1. DOMAIN Whole.tags = 1 .. Len(Whole.tags)
    BY WholeType
  <2>2. Configured = {Whole.tags[i] : i \in DOMAIN Whole.tags}
    BY DEF Configured, Range
  <2> QED BY <2>1, <2>2, Zenon DEF RangesOf
<1>4. \A a : a \in read <=> Requested(a)
  <2>1. Range(seq) = {seq[i] : i \in DOMAIN seq}
    BY DEF Range
  <2> QED BY <2>1, Zenon DEF Requested
<1>5. \A a : a \in read <=> \E t \in Configured : a \in Reach(RangeOf(0, t), 1)
  BY <1>1, <1>2, <1>3, <1>4
<1>6. \A a : a \in wanted <=> \E t \in readable : a \in Words(t)
  BY Zenon
<1>7. \A t \in Configured : t \in TagAt
  BY WholeType DEF Configured, Range
<1>8. \A t \in readable : Reach(RangeOf(0, t), 1) = Words(t)
  BY <1>7, ReadableRange
<1> HIDE DEF read, wanted
<1>9. wanted \subseteq read
  BY <1>5, <1>6, <1>8
<1>10. ASSUME \A t \in Configured : FitsIn(t, Size)
       PROVE  read \subseteq wanted
  <2> SUFFICES ASSUME NEW a \in read PROVE a \in wanted
    OBVIOUS
  <2>1. PICK t \in Configured : a \in Reach(RangeOf(0, t), 1)
    BY <1>5
  <2>2. t \in readable
    BY <1>7, <1>10, <2>1, LastAddressRange
  <2> QED BY <1>6, <1>8, <2>1, <2>2
<1> QED BY <1>9, <1>10

-----------------------------------------------------------------------------
IInv ==
    /\ Given /\ IteratorInPlace /\ RangesInPlace
    /\ CutInOrder /\ RequestsInOrder /\ NothingIsLost
    /\ StartsUp

LEMMA InvariantHolds == Spec => []IInv
<1>1. Init => IInv
  <2>1. Init => StartsUp
    BY DEF Init, StartsUp
  <2> QED BY <2>1, IteratorStarts, RangesStart, CutStart DEF IInv
<1>2. IInv /\ [Next]_vars => IInv'
  BY Unchanging, WalkStep, RangesStep, CutStep, PanicStep DEF IInv
<1> QED BY <1>1, <1>2, PTL DEF Spec

(***************************************************************************)
(* The iterator returns every tag once, in the order of the file, with the *)
(* base that gives its absolute address (TagIter::next).                   *)
(***************************************************************************)
THEOREM IteratorOrder == Spec => []IteratorFollowsTheFile
<1>1. IInv => IteratorFollowsTheFile
  BY IteratorFollows DEF IInv
<1> QED BY <1>1, InvariantHolds, PTL

(***************************************************************************)
(* Requests are no longer than the protocol allows, stay inside the        *)
(* address space, come in the order of the addresses, and read nothing     *)
(* twice (ModbusClient::read_sequence, push_range).                        *)
(***************************************************************************)
THEOREM LegalRequests == Spec => []RequestsAreLegal
<1>1. IInv => RequestsAreLegal
  BY DEF IInv, RequestsInOrder
<1> QED BY <1>1, InvariantHolds, PTL

(***************************************************************************)
(* The requests read every address of every tag that ends before the last  *)
(* address, and no other address when all tags are inside the address      *)
(* space (TagRanges::from, push_range).                                    *)
(***************************************************************************)
THEOREM EverythingIsRead == Spec => []ReadsWhatIsConfigured
<1>1. IInv => ReadsWhatIsConfigured
  BY ReadsAll DEF IInv
<1> QED BY <1>1, InvariantHolds, PTL

(***************************************************************************)
(* The program stops at start-up only for a tag or a group beyond the      *)
(* addresses or, in a debug build, a tag that ends at the last one or is   *)
(* upside down.                                                            *)
(***************************************************************************)
THEOREM StartUpSucceeds == Spec => []StartsUp
<1>1. IInv => StartsUp
  BY DEF IInv
<1> QED BY <1>1, InvariantHolds, PTL
=============================================================================

--------------------------- MODULE StartUpProofs ----------------------------
(***************************************************************************)
(* The start of the program, for every width of addresses above one, every *)
(* set of files and options and documents of any size: which documents are *)
(* read and as what, what the arrays hold before anyone else writes to     *)
(* them, what a start can end with, and the inputs of the page.            *)
(*                                                                         *)
(* The operators of the parse and of the walks are functions over numbered *)
(* nodes, each value defined from the value at an earlier number, so the   *)
(* first section shows that such a definition defines a function and what  *)
(* it is, by induction over sets of numbers.                               *)
(***************************************************************************)
EXTENDS StartUp, DataProofs

-----------------------------------------------------------------------------
(***************************************************************************)
(* Induction over a set of numbers.                                        *)
(***************************************************************************)
LEMMA StrongInduction ==
  ASSUME NEW D \in SUBSET Nat, NEW P,
         \A i \in D : (\A j \in D : j < i => j \in P) => i \in P
  PROVE  D \subseteq P
<1> DEFINE missing == {i \in D : i \notin P}
<1>1. SUFFICES ASSUME missing # {} PROVE FALSE
  OBVIOUS
<1>2. PICK m \in missing : \A n \in missing : m <= n
  BY <1>1, LeastExists
<1>3. \A j \in D : j < m => j \in P
  <2> SUFFICES ASSUME NEW j \in D, j < m, j \notin P PROVE FALSE
    OBVIOUS
  <2>1. m <= j
    BY <1>2
  <2> QED BY <2>1
<1> QED BY <1>3

(***************************************************************************)
(* A function that is defined from its own value at an earlier place.      *)
(***************************************************************************)
Recursion(D, V, up, first, step) ==
    /\ D \subseteq Nat
    /\ \A i \in D : up[i] \in D => up[i] < i
    /\ first \in [D -> V] /\ step \in [D -> [V -> V]]
Obeys(f, D, V, up, first, step) ==
    \A i \in D : IF up[i] \in D THEN f[up[i]] \in V => f[i] = step[i][f[up[i]]]
                                ELSE f[i] = first[i]

LEMMA RecursionType ==
  ASSUME NEW D, NEW V, NEW up, NEW first, NEW step, Recursion(D, V, up, first, step),
         NEW f, Obeys(f, D, V, up, first, step)
  PROVE  \A i \in D : f[i] \in V
<1> DEFINE P == {i \in D : f[i] \in V}
<1>1. D \subseteq Nat
  BY DEF Recursion
<1>2. ASSUME NEW i \in D, \A j \in D : j < i => j \in P
      PROVE  i \in P
  <2>1. first[i] \in V /\ step[i] \in [V -> V]
    BY DEF Recursion
  <2>2. up[i] \in D => f[up[i]] \in V
    BY <1>2 DEF Recursion
  <2> QED BY <2>1, <2>2 DEF Obeys
<1> HIDE DEF P
<1>3. D \subseteq P
  BY <1>1, <1>2, StrongInduction
<1> QED BY <1>3 DEF P

LEMMA RecursionExists ==
  ASSUME NEW D, NEW V, NEW up, NEW first, NEW step, Recursion(D, V, up, first, step)
  PROVE  \E f \in [D -> V] : Obeys(f, D, V, up, first, step)
<1> DEFINE F == [D -> V]
           Next1(g, n) == IF up[n] \in D THEN step[n][g[up[n]]] ELSE first[n]
           more == [n \in Nat |-> [g \in F |-> IF n \in D THEN [g EXCEPT ![n] = Next1(g, n)] ELSE g]]
<1>0. /\ D \subseteq Nat /\ first \in F
      /\ \A i \in D : /\ first[i] \in V /\ step[i] \in [V -> V]
                      /\ up[i] \in D => up[i] < i
  BY DEF Recursion
<1>1. \A g \in F, n \in D : Next1(g, n) \in V
  BY <1>0
<1>2. Stepping(more, F)
  <2>1. \A g \in F, n \in D : [g EXCEPT ![n] = Next1(g, n)] \in F
    BY <1>1
  <2> QED BY <2>1 DEF Stepping
<1> HIDE DEF more
<1>3. PICK G : Iterated(G, F, first, more)
  BY <1>0, <1>2, Iterates
<1>4. /\ \A n \in Nat : G[n] \in F
      /\ \A n \in Nat : n \notin D => G[n + 1] = G[n]
      /\ \A n \in D : G[n + 1] = [G[n] EXCEPT ![n] = Next1(G[n], n)]
  <2> HIDE DEF Next1
  <2> QED BY <1>0, <1>3 DEF Iterated, more
<1> DEFINE f == [i \in D |-> G[i + 1][i]]
<1>5. ASSUME NEW i \in D PROVE \A n \in Nat : n > i => G[n][i] = f[i]
  <2> DEFINE P == {k \in Nat : k > i => G[k][i] = f[i]}
  <2>1. i \in Nat
    BY <1>0
  <2>2. 0 \in P
    BY <2>1
  <2>3. ASSUME NEW k \in Nat, k \in P PROVE k + 1 \in P
    <3>1. CASE k < i
      BY <2>1, <3>1
    <3>2. CASE k = i
      BY <3>2
    <3>3. CASE k > i
      <4>1. G[k + 1][i] = G[k][i]
        <5> HIDE DEF Next1, F
        <5>1. CASE k \notin D
          BY <1>4, <5>1
        <5>2. CASE k \in D
          <6>1. PICK g \in F : g = G[k]
            BY <1>4
          <6>2. G[k + 1] = [g EXCEPT ![k] = Next1(g, k)]
            BY <1>4, <5>2, <6>1
          <6>3. DOMAIN g = D /\ i # k
            BY <1>0, <3>3 DEF F
          <6> QED BY <6>1, <6>2, <6>3
        <5> QED BY <5>1, <5>2
      <4> QED BY <2>3, <3>3, <4>1
    <3> QED BY <2>1, <3>1, <3>2, <3>3
  <2> HIDE DEF P
  <2>4. Nat \subseteq P
    BY <2>2, <2>3, InductiveSet
  <2> QED BY <2>4 DEF P
<1>6. ASSUME NEW i \in D PROVE f[i] = Next1(f, i)
  <2>1. f[i] = Next1(G[i], i)
    <3> HIDE DEF Next1, F
    <3>1. i \in Nat
      BY <1>0
    <3>2. PICK g : g = G[i]
      OBVIOUS
    <3>3. i \in DOMAIN g
      BY <1>4, <3>1, <3>2 DEF F
    <3>4. G[i + 1] = [g EXCEPT ![i] = Next1(g, i)]
      BY <1>4, <3>2
    <3>5. G[i + 1][i] = Next1(g, i)
      BY <3>3, <3>4
    <3> QED BY <3>2, <3>5
  <2>2. up[i] \in D => G[i][up[i]] = f[up[i]]
    <3> HIDE DEF f
    <3> QED BY <1>0, <1>5
  <2> HIDE DEF f
  <2> QED BY <2>1, <2>2
<1>7. f \in F
  BY <1>0, <1>4
<1> HIDE DEF f
<1>8. Obeys(f, D, V, up, first, step)
  BY <1>6 DEF Obeys
<1> QED BY <1>7, <1>8

-----------------------------------------------------------------------------
(***************************************************************************)
(* A document: its numbers, and the functions defined from node to node.   *)
(***************************************************************************)
LEMMA DocumentFacts ==
  ASSUME NEW doc, IsDocument(doc)
  PROVE  /\ Len(doc) \in Nat /\ DOMAIN doc = 1 .. Len(doc)
         /\ \A i \in 1 .. Len(doc) : /\ IsNode(doc[i]) /\ doc[i].in \in 0 .. i - 1
                                     /\ doc[i].in \in 0 .. Len(doc) /\ doc[i].in < i
                                     /\ doc[i].in # 0 => /\ doc[i].in \in 1 .. Len(doc)
                                                         /\ doc[doc[i].in].is = "element"
<1>1. doc \in Seq(Range(doc))
  BY DEF IsDocument
<1>2. Len(doc) \in Nat /\ DOMAIN doc = 1 .. Len(doc)
  BY <1>1
<1>3. ASSUME NEW i \in 1 .. Len(doc)
      PROVE  /\ IsNode(doc[i]) /\ doc[i].in \in 0 .. i - 1
             /\ doc[i].in # 0 => doc[doc[i].in].is = "element"
  BY <1>2 DEF IsDocument
<1>4. ASSUME NEW i \in 1 .. Len(doc)
      PROVE  /\ doc[i].in \in 0 .. Len(doc) /\ doc[i].in < i
             /\ doc[i].in # 0 => doc[i].in \in 1 .. Len(doc)
  BY <1>2, <1>3
<1> QED BY <1>2, <1>3, <1>4

Up(doc) == [i \in 0 .. Len(doc) |-> IF i = 0 THEN -1 ELSE doc[i].in]

(***************************************************************************)
(* A function over the nodes of a document, from its value at the root and *)
(* what it makes, at a node, of its value around it.                       *)
(***************************************************************************)
NodeByNode(doc, V, first, step) ==
    /\ first \in V /\ step \in [0 .. Len(doc) -> [V -> V]]
FromAround(f, doc, V, first, step) ==
    /\ f[0] = first
    /\ \A i \in 1 .. Len(doc) : f[doc[i].in] \in V => f[i] = step[i][f[doc[i].in]]

LEMMA NodesObey ==
  ASSUME NEW doc, IsDocument(doc), NEW V, NEW first, NEW step, NodeByNode(doc, V, first, step)
  PROVE  LET D == 0 .. Len(doc)
             firsts == [i \in D |-> first]
         IN  /\ Recursion(D, V, Up(doc), firsts, step)
             /\ \A f : Obeys(f, D, V, Up(doc), firsts, step) <=> FromAround(f, doc, V, first, step)
<1> DEFINE D == 0 .. Len(doc)
           firsts == [i \in D |-> first]
<1>1. /\ Len(doc) \in Nat
      /\ \A i \in 1 .. Len(doc) : doc[i].in \in 0 .. Len(doc) /\ doc[i].in < i
  BY DocumentFacts
<1>2. /\ Up(doc)[0] = -1 /\ \A i \in 1 .. Len(doc) : Up(doc)[i] = doc[i].in
      /\ 0 \in D /\ \A i \in D : i = 0 \/ i \in 1 .. Len(doc)
      /\ \A i \in 1 .. Len(doc) : i \in D
  BY <1>1 DEF Up
<1>3. Recursion(D, V, Up(doc), firsts, step)
  <2>1. \A i \in D : Up(doc)[i] \in D => Up(doc)[i] < i
    BY <1>1, <1>2
  <2>2. D \subseteq Nat
    OBVIOUS
  <2> QED BY <2>1, <2>2 DEF Recursion, NodeByNode
<1>4. ASSUME NEW f
      PROVE  Obeys(f, D, V, Up(doc), firsts, step) <=> FromAround(f, doc, V, first, step)
  <2>1. ~(Up(doc)[0] \in D) /\ \A i \in 1 .. Len(doc) : Up(doc)[i] \in D
    BY <1>1, <1>2
  <2>2. \A i \in D : firsts[i] = first
    OBVIOUS
  <2> HIDE DEF D, firsts
  <2>3. ASSUME Obeys(f, D, V, Up(doc), firsts, step)
        PROVE  FromAround(f, doc, V, first, step)
    BY <1>2, <2>1, <2>2, <2>3 DEF Obeys, FromAround
  <2>4. ASSUME FromAround(f, doc, V, first, step)
        PROVE  Obeys(f, D, V, Up(doc), firsts, step)
    BY <1>2, <2>1, <2>2, <2>4 DEF Obeys, FromAround
  <2> QED BY <2>3, <2>4
<1> QED BY <1>3, <1>4

LEMMA NodesFollow ==
  ASSUME NEW doc, IsDocument(doc), NEW V, NEW first, NEW step, NodeByNode(doc, V, first, step)
  PROVE  /\ \E f \in [0 .. Len(doc) -> V] : FromAround(f, doc, V, first, step)
         /\ \A f : FromAround(f, doc, V, first, step) => \A i \in 0 .. Len(doc) : f[i] \in V
<1> DEFINE D == 0 .. Len(doc)
           firsts == [i \in D |-> first]
<1>1. /\ Recursion(D, V, Up(doc), firsts, step)
      /\ \A f : Obeys(f, D, V, Up(doc), firsts, step) <=> FromAround(f, doc, V, first, step)
  BY NodesObey
<1> HIDE DEF D, firsts
<1>2. \E f \in [D -> V] : FromAround(f, doc, V, first, step)
  BY <1>1, RecursionExists
<1>3. \A f : FromAround(f, doc, V, first, step) => \A i \in D : f[i] \in V
  BY <1>1, RecursionType
<1> QED BY <1>2, <1>3 DEF D

ParserNames == {"none", "device_list", "tag_list", "registers", "bits", "register", "field"}

LEMMA ParserInType ==
  ASSUME NEW p \in ParserNames, NEW n
  PROVE  ParserIn(p, n) \in ParserNames
BY DEF ParserIn, ParserNames

ParsersTo(f, doc) ==
    f = [i \in 0 .. Len(doc) |->
            IF i = 0 THEN "device_list" ELSE ParserIn(f[doc[i].in], doc[i])]

LEMMA ParsersEquation ==
  ASSUME NEW doc, IsDocument(doc)
  PROVE  /\ Parsers(doc)[0] = "device_list"
         /\ \A i \in 1 .. Len(doc) : Parsers(doc)[i] = ParserIn(Parsers(doc)[doc[i].in], doc[i])
         /\ \A i \in 0 .. Len(doc) : Parsers(doc)[i] \in ParserNames
<1> DEFINE step == [i \in 0 .. Len(doc) |-> [p \in ParserNames |-> ParserIn(p, doc[i])]]
           first == "device_list"
           c == CHOOSE f : ParsersTo(f, doc)
<1>1. NodeByNode(doc, ParserNames, first, step)
  <2>1. first \in ParserNames
    BY DEF ParserNames
  <2>2. step \in [0 .. Len(doc) -> [ParserNames -> ParserNames]]
    BY ParserInType
  <2> QED BY <2>1, <2>2 DEF NodeByNode
<1>2. \A i \in 1 .. Len(doc), p \in ParserNames : step[i][p] = ParserIn(p, doc[i])
  BY DocumentFacts
<1> HIDE DEF step
<1>3. PICK f \in [0 .. Len(doc) -> ParserNames] : FromAround(f, doc, ParserNames, first, step)
  BY <1>1, NodesFollow
<1>4. ParsersTo(f, doc)
  <2> DEFINE Body(i) == IF i = 0 THEN "device_list" ELSE ParserIn(f[doc[i].in], doc[i])
  <2>1. ASSUME NEW i \in 0 .. Len(doc) PROVE f[i] = Body(i)
    <3>1. CASE i = 0
      BY <1>3, <3>1 DEF FromAround
    <3>2. CASE i # 0
      <4>1. i \in 1 .. Len(doc) /\ doc[i].in \in 0 .. Len(doc)
        BY <3>2, DocumentFacts
      <4>2. f[doc[i].in] \in ParserNames
        BY <4>1
      <4> QED BY <1>2, <1>3, <3>2, <4>1, <4>2 DEF FromAround
    <3> QED BY <3>1, <3>2
  <2>2. f = [i \in 0 .. Len(doc) |-> Body(i)]
    <3> HIDE DEF Body
    <3> QED BY <2>1
  <2> QED BY <2>2, Zenon DEF ParsersTo
<1>5. ParsersTo(c, doc)
  BY <1>4, Zenon
<1>6. Parsers(doc) = c
  BY Zenon DEF Parsers, ParsersTo
<1> HIDE DEF c
<1>7. \A i \in 0 .. Len(doc) : c[i] = IF i = 0 THEN "device_list" ELSE ParserIn(c[doc[i].in], doc[i])
  BY <1>5 DEF ParsersTo
<1>8. c[0] = "device_list" /\ \A i \in 1 .. Len(doc) : c[i] = ParserIn(c[doc[i].in], doc[i])
  BY <1>7, DocumentFacts
<1>9. FromAround(c, doc, ParserNames, first, step)
  BY <1>2, <1>8 DEF FromAround
<1>10. \A i \in 0 .. Len(doc) : c[i] \in ParserNames
  BY <1>1, <1>9, NodesFollow
<1> QED BY <1>6, <1>8, <1>10

AroundTo(f, doc) ==
    f = [i \in 0 .. Len(doc) |-> IF i = 0 THEN {} ELSE {doc[i].in} \cup f[doc[i].in]]

LEMMA AroundEquation ==
  ASSUME NEW doc, IsDocument(doc)
  PROVE  /\ Around(doc)[0] = {}
         /\ \A i \in 1 .. Len(doc) : Around(doc)[i] = {doc[i].in} \cup Around(doc)[doc[i].in]
         /\ \A i \in 0 .. Len(doc) : Around(doc)[i] \in SUBSET (0 .. Len(doc))
<1> DEFINE Names == SUBSET (0 .. Len(doc))
           step == [i \in 0 .. Len(doc) |->
                      [a \in Names |-> IF i = 0 THEN a ELSE {doc[i].in} \cup a]]
           c == CHOOSE f : AroundTo(f, doc)
<1>1. NodeByNode(doc, Names, {}, step)
  <2>1. ASSUME NEW i \in 0 .. Len(doc), NEW a \in Names
        PROVE  (IF i = 0 THEN a ELSE {doc[i].in} \cup a) \in Names
    <3>1. CASE i = 0
      BY <3>1
    <3>2. CASE i # 0
      <4>1. i \in 1 .. Len(doc)
        BY <3>2, DocumentFacts
      <4>2. doc[i].in \in 0 .. Len(doc)
        BY <4>1, DocumentFacts
      <4> QED BY <3>2, <4>2
    <3> QED BY <3>1, <3>2
  <2>2. step \in [0 .. Len(doc) -> [Names -> Names]]
    BY <2>1
  <2> QED BY <2>2 DEF NodeByNode
<1>2. \A i \in 1 .. Len(doc), a \in Names : step[i][a] = {doc[i].in} \cup a
  BY DocumentFacts
<1> HIDE DEF step, Names
<1>3. PICK f \in [0 .. Len(doc) -> Names] : FromAround(f, doc, Names, {}, step)
  BY <1>1, NodesFollow
<1>4. AroundTo(f, doc)
  <2> DEFINE Body(i) == IF i = 0 THEN {} ELSE {doc[i].in} \cup f[doc[i].in]
  <2>1. ASSUME NEW i \in 0 .. Len(doc) PROVE f[i] = Body(i)
    <3>1. CASE i = 0
      BY <1>3, <3>1 DEF FromAround
    <3>2. CASE i # 0
      <4>1. i \in 1 .. Len(doc) /\ doc[i].in \in 0 .. Len(doc)
        BY <3>2, DocumentFacts
      <4>2. f[doc[i].in] \in Names
        BY <4>1
      <4> QED BY <1>2, <1>3, <3>2, <4>1, <4>2 DEF FromAround
    <3> QED BY <3>1, <3>2
  <2>2. f = [i \in 0 .. Len(doc) |-> Body(i)]
    <3> HIDE DEF Body
    <3> QED BY <2>1
  <2> QED BY <2>2, Zenon DEF AroundTo
<1>5. AroundTo(c, doc)
  BY <1>4, Zenon
<1>6. Around(doc) = c
  BY Zenon DEF Around, AroundTo
<1> HIDE DEF c
<1>7. \A i \in 0 .. Len(doc) : c[i] = IF i = 0 THEN {} ELSE {doc[i].in} \cup c[doc[i].in]
  BY <1>5 DEF AroundTo
<1>8. c[0] = {} /\ \A i \in 1 .. Len(doc) : c[i] = {doc[i].in} \cup c[doc[i].in]
  <2>1. 0 \in 0 .. Len(doc) /\ \A i \in 1 .. Len(doc) : i \in 0 .. Len(doc) /\ i # 0
    BY DocumentFacts
  <2>2. c[0] = {}
    BY <1>7, <2>1
  <2>3. ASSUME NEW i \in 1 .. Len(doc) PROVE c[i] = {doc[i].in} \cup c[doc[i].in]
    BY <1>7, <2>1, Zenon
  <2> QED BY <2>2, <2>3
<1>9. FromAround(c, doc, Names, {}, step)
  BY <1>2, <1>8 DEF FromAround
<1>10. \A i \in 0 .. Len(doc) : c[i] \in Names
  BY <1>1, <1>9, NodesFollow
<1> QED BY <1>6, <1>8, <1>10 DEF Names

ContextNames == {"root", "device", "registers", "bits", "register", "field", "any"}
ContextIn(c, n) ==
    IF n.is = "element" /\ c \in DOMAIN InContext /\ n.tag \in DOMAIN InContext[c]
    THEN InContext[c][n.tag] ELSE "any"

LEMMA InContextCases ==
  /\ DOMAIN InContext = {"root", "device", "registers", "bits", "register", "field"}
  /\ DOMAIN InContext["root"] = {"device"} /\ InContext["root"]["device"] = "device"
  /\ DOMAIN InContext["device"] = Areas
  /\ \A a \in Areas : InContext["device"][a] = IF a \in RegisterAreas THEN "registers" ELSE "bits"
  /\ DOMAIN InContext["registers"] = Registers \cup {"group"}
  /\ \A t \in Registers : InContext["registers"][t] = "register"
  /\ InContext["registers"]["group"] = "registers"
  /\ DOMAIN InContext["bits"] = {"bit", "group"}
  /\ InContext["bits"]["bit"] = "any" /\ InContext["bits"]["group"] = "bits"
  /\ DOMAIN InContext["register"] = {"field", "enum"}
  /\ InContext["register"]["field"] = "field" /\ InContext["register"]["enum"] = "any"
  /\ DOMAIN InContext["field"] = {"enum"} /\ InContext["field"]["enum"] = "any"
BY DEF InContext, Registers

LEMMA ContextInType ==
  ASSUME NEW c \in ContextNames, NEW n
  PROVE  ContextIn(c, n) \in ContextNames
<1> SUFFICES ASSUME c \in DOMAIN InContext, n.tag \in DOMAIN InContext[c]
             PROVE  InContext[c][n.tag] \in ContextNames
  BY DEF ContextIn, ContextNames
<1> QED BY InContextCases DEF ContextNames

ContextsTo(f, doc) ==
    f = [i \in 0 .. Len(doc) |->
            IF i = 0 THEN "root"
            ELSE LET around == f[doc[i].in]
                 IN  IF doc[i].is = "element" /\ around \in DOMAIN InContext
                        /\ doc[i].tag \in DOMAIN InContext[around]
                     THEN InContext[around][doc[i].tag] ELSE "any"]

LEMMA ContextsEquation ==
  ASSUME NEW doc, IsDocument(doc)
  PROVE  /\ Contexts(doc)[0] = "root"
         /\ \A i \in 1 .. Len(doc) : Contexts(doc)[i] = ContextIn(Contexts(doc)[doc[i].in], doc[i])
         /\ \A i \in 0 .. Len(doc) : Contexts(doc)[i] \in ContextNames
<1> DEFINE step == [i \in 0 .. Len(doc) |-> [p \in ContextNames |-> ContextIn(p, doc[i])]]
           first == "root"
           c == CHOOSE f : ContextsTo(f, doc)
<1>1. NodeByNode(doc, ContextNames, first, step)
  <2>1. first \in ContextNames
    BY DEF ContextNames
  <2>2. step \in [0 .. Len(doc) -> [ContextNames -> ContextNames]]
    BY ContextInType
  <2> QED BY <2>1, <2>2 DEF NodeByNode
<1>2. \A i \in 1 .. Len(doc), p \in ContextNames : step[i][p] = ContextIn(p, doc[i])
  BY DocumentFacts
<1> HIDE DEF step
<1>3. PICK f \in [0 .. Len(doc) -> ContextNames] : FromAround(f, doc, ContextNames, first, step)
  BY <1>1, NodesFollow
<1>4. \A g : ContextsTo(g, doc) <=>
         g = [i \in 0 .. Len(doc) |-> IF i = 0 THEN "root" ELSE ContextIn(g[doc[i].in], doc[i])]
  BY Zenon DEF ContextsTo, ContextIn
<1>5. ContextsTo(f, doc)
  <2> DEFINE Body(i) == IF i = 0 THEN "root" ELSE ContextIn(f[doc[i].in], doc[i])
  <2>1. ASSUME NEW i \in 0 .. Len(doc) PROVE f[i] = Body(i)
    <3>1. CASE i = 0
      BY <1>3, <3>1 DEF FromAround
    <3>2. CASE i # 0
      <4>1. i \in 1 .. Len(doc) /\ doc[i].in \in 0 .. Len(doc)
        BY <3>2, DocumentFacts
      <4>2. f[doc[i].in] \in ContextNames
        BY <4>1
      <4> QED BY <1>2, <1>3, <3>2, <4>1, <4>2 DEF FromAround
    <3> QED BY <3>1, <3>2
  <2>2. f = [i \in 0 .. Len(doc) |-> Body(i)]
    <3> HIDE DEF Body
    <3> QED BY <2>1
  <2> QED BY <1>4, <2>2, Zenon
<1>6. ContextsTo(c, doc)
  BY <1>5, Zenon
<1>7. Contexts(doc) = c
  BY Zenon DEF Contexts, ContextsTo
<1> HIDE DEF c
<1>8. \A i \in 0 .. Len(doc) : c[i] = IF i = 0 THEN "root" ELSE ContextIn(c[doc[i].in], doc[i])
  <2>1. c = [i \in 0 .. Len(doc) |-> IF i = 0 THEN "root" ELSE ContextIn(c[doc[i].in], doc[i])]
    BY <1>4, <1>6, Zenon
  <2> QED BY <2>1
<1>9. c[0] = "root" /\ \A i \in 1 .. Len(doc) : c[i] = ContextIn(c[doc[i].in], doc[i])
  BY <1>8, DocumentFacts
<1>10. FromAround(c, doc, ContextNames, first, step)
  BY <1>2, <1>9 DEF FromAround
<1>11. \A i \in 0 .. Len(doc) : c[i] \in ContextNames
  BY <1>1, <1>10, NodesFollow
<1> QED BY <1>7, <1>9, <1>11

-----------------------------------------------------------------------------
(***************************************************************************)
(* Results, and the first bad one among them.                              *)
(***************************************************************************)
Bads(results) == {i \in DOMAIN results : ~results[i].ok}
Values(results) == [i \in DOMAIN results |-> results[i].value]
FirstOr(results, good) == IF Bads(results) = {} THEN good ELSE results[Min(Bads(results))]

LEMMA FirstOrLemma ==
  ASSUME NEW results, DOMAIN results \subseteq Nat, NEW good, good.ok
  PROVE  LET w == FirstOr(results, good)
         IN  /\ w.ok <=> \A i \in DOMAIN results : results[i].ok
             /\ w.ok => w = good
             /\ ~w.ok => \E i \in DOMAIN results : ~results[i].ok /\ w = results[i]
<1>1. CASE Bads(results) = {}
  BY <1>1 DEF Bads, FirstOr
<1>2. CASE Bads(results) # {}
  <2>1. Bads(results) \subseteq Nat
    BY DEF Bads
  <2>2. Min(Bads(results)) \in Bads(results)
    BY <1>2, <2>1, LeastExists DEF Min
  <2> QED BY <1>2, <2>2 DEF Bads, FirstOr
<1> QED BY <1>1, <1>2

(***************************************************************************)
(* Attributes.                                                             *)
(***************************************************************************)
Negates(t) == t.kind = "number" /\ 2 * t.value = -Size
NegatesIn(n) == \E name \in DOMAIN n.attr : Negates(n.attr[name])

LEMMA SizeFacts == Size \in Nat \ {0} /\ Byte \in Nat \ {0}
BY WidthAssumption

(***************************************************************************)
(* What makes of a result a number, or why there is none.                  *)
(***************************************************************************)
LEMMA U16Lemma ==
  ASSUME NEW t, IsText(t)
  PROVE  /\ U16(t).ok => /\ t.kind = "number" /\ t.value \in Numbers16
                         /\ U16(t).value = Wrap(t.value) /\ U16(t).value \in 0 .. Size - 1
         /\ t.kind = "number" /\ t.value \in Numbers16 /\ ~U16(t).ok
               => U16(t).error = "panic"
         /\ ~U16(t).ok /\ U16(t).error = "panic" => debug /\ Negates(t)
<1>1. t.kind = "number" => t.value \in Int
  BY DEF IsText
<1>2. t.kind = "number" => Wrap(t.value) \in 0 .. Size - 1
  BY <1>1, SizeFacts DEF Wrap
<1> QED BY <1>1, <1>2 DEF U16, Numbers16, Good, Bad, Negates

LEMMA U8Lemma ==
  ASSUME NEW t, IsText(t)
  PROVE  /\ U8(t).ok <=> t.kind = "number" /\ t.value \in Numbers8
         /\ U8(t).ok => U8(t).value = t.value
         /\ ~U8(t).ok => U8(t).error # "panic"
BY DEF U8, Numbers8, Good, Bad

LEMMA F32Lemma ==
  ASSUME NEW t, IsText(t)
  PROVE  /\ F32(t).ok <=> t.kind = "number" \/ Is(t, "NaN")
         /\ F32(t).ok => F32(t).value = t
         /\ ~F32(t).ok => F32(t).error # "panic"
BY DEF F32, Good, Bad

LEMMA BooleanLemma ==
  ASSUME NEW t, IsText(t)
  PROVE  /\ Boolean(t).ok <=> \/ t.kind = "number" /\ t.value \in {0, 1}
                              \/ t.kind = "word" /\ t.value \in {"true", "false"}
         /\ Boolean(t).ok => Boolean(t).value \in {0, 1}
         /\ ~Boolean(t).ok => Boolean(t).error # "panic"
BY DEF Boolean, Good, Bad, Is, IsText

LEMMA LittleLemma ==
  ASSUME NEW t, IsText(t)
  PROVE  /\ LittleFirst(t).ok <=> t.kind = "word" /\ t.begins \in Orders
         /\ LittleFirst(t).ok => LittleFirst(t).value \in BOOLEAN
         /\ ~LittleFirst(t).ok => LittleFirst(t).error # "panic"
BY DEF LittleFirst, Good, Bad, IsText, Orders

LEMMA SignedLemma ==
  ASSUME NEW t, IsText(t)
  PROVE  /\ Signed(t).ok <=> t.kind = "word" /\ t.value \in {"signed", "unsigned"}
         /\ Signed(t).ok => Signed(t).value \in BOOLEAN
         /\ ~Signed(t).ok => Signed(t).error # "panic"
BY DEF Signed, Good, Bad, Is

(***************************************************************************)
(* An element, with attributes that are texts.                             *)
(***************************************************************************)
IsElement(n) == n.is = "element" /\ n.known \in BOOLEAN
                /\ \A name \in DOMAIN n.attr : IsText(n.attr[name])

LEMMA PresentationTaken ==
  ASSUME NEW n, IsElement(n)
  PROVE  LET r == ParsePresentation(n)
         IN  /\ r.ok <=> /\ Shown(n)
                         /\ Has(n, "scale") => IsNumber(n, "scale", Int) \/ IsWord(n, "scale", {"NaN"})
             /\ r.ok => /\ r.value.kind \in {"number", "word"}
                        /\ r.value.kind = "number" => r.value.value \in Int
             /\ ~r.ok => r.error # "panic"
<1> DEFINE scale == Optional(n, "scale", F32, Num(1))
           unit == Optional(n, "unit", Str, Num(0))
           radix == Optional(n, "radix", U8, 10)
           decimals == Optional(n, "decimals", U8, 2)
           R == <<scale, unit, radix, decimals>>
<1>1. ParsePresentation(n) = FirstOr(R, Good(Values(R)[1]))
  BY DEF ParsePresentation, With, FirstOr, Bads, Values
<1>2. /\ scale.ok <=> (Has(n, "scale") => IsNumber(n, "scale", Int) \/ IsWord(n, "scale", {"NaN"}))
      /\ scale.ok => /\ scale.value.kind \in {"number", "word"}
                     /\ scale.value.kind = "number" => scale.value.value \in Int
      /\ ~scale.ok => scale.error # "panic"
  <2>1. CASE Has(n, "scale")
    <3>1. IsText(n.attr["scale"])
      BY <2>1 DEF Has, IsElement
    <3> QED BY <2>1, <3>1, F32Lemma DEF Optional, IsNumber, IsWord, Is, IsText
  <2>2. CASE ~Has(n, "scale")
    BY <2>2 DEF Optional, Good, Num
  <2> QED BY <2>1, <2>2
<1>3. unit.ok
  BY DEF Optional, Str, Good
<1>4. /\ radix.ok <=> IsNumber(n, "radix", Numbers8)
      /\ ~radix.ok => radix.error # "panic"
  BY U8Lemma DEF Optional, IsNumber, Has, IsElement, Good
<1>5. /\ decimals.ok <=> IsNumber(n, "decimals", Numbers8)
      /\ ~decimals.ok => decimals.error # "panic"
  BY U8Lemma DEF Optional, IsNumber, Has, IsElement, Good
<1> HIDE DEF scale, unit, radix, decimals
<1>6. /\ DOMAIN R \subseteq Nat
      /\ (\A i \in DOMAIN R : R[i].ok) <=> (scale.ok /\ unit.ok /\ radix.ok /\ decimals.ok)
  OBVIOUS
<1>7. \A i \in DOMAIN R : ~R[i].ok => R[i].error # "panic"
  BY <1>2, <1>3, <1>4, <1>5
<1>8. R[1] = scale /\ Values(R)[1] = scale.value
  BY DEF Values
<1> DEFINE g == Good(Values(R)[1])
<1>9. g.ok /\ g.value = scale.value
  BY <1>8 DEF Good
<1> HIDE DEF R, g
<1>10. LET w == FirstOr(R, g)
       IN  /\ w.ok <=> \A i \in DOMAIN R : R[i].ok
           /\ w.ok => w = g
           /\ ~w.ok => \E i \in DOMAIN R : ~R[i].ok /\ w = R[i]
  BY <1>6, <1>9, FirstOrLemma
<1>11. ParsePresentation(n) = FirstOr(R, g)
  BY <1>1 DEF g
<1>12. Shown(n) <=> IsNumber(n, "radix", Numbers8) /\ IsNumber(n, "decimals", Numbers8)
  BY DEF Shown
<1> HIDE DEF FirstOr
<1> QED BY <1>2, <1>3, <1>4, <1>5, <1>6, <1>7, <1>9, <1>10, <1>11, <1>12

LEMMA FirstOf1 ==
  ASSUME NEW a, NEW good, good.ok
  PROVE  LET w == FirstOr(<<a>>, good)
         IN  /\ w.ok <=> a.ok
             /\ w.ok => w = good
             /\ ~w.ok => w = a
<1> DEFINE R == <<a>>
<1>1. /\ DOMAIN R \subseteq Nat /\ DOMAIN R = {1} /\ R[1] = a
  OBVIOUS
<1> HIDE DEF R
<1>2. LET w == FirstOr(R, good)
      IN  /\ w.ok <=> \A i \in DOMAIN R : R[i].ok
          /\ w.ok => w = good
          /\ ~w.ok => \E i \in DOMAIN R : ~R[i].ok /\ w = R[i]
  BY <1>1, FirstOrLemma
<1>3. LET w == FirstOr(R, good)
      IN  /\ w.ok <=> a.ok
          /\ w.ok => w = good
          /\ ~w.ok => w = a
  BY <1>1, <1>2
<1> QED BY <1>3 DEF R

LEMMA FirstOf2 ==
  ASSUME NEW a, NEW b, NEW good, good.ok
  PROVE  LET w == FirstOr(<<a, b>>, good)
         IN  /\ w.ok <=> a.ok /\ b.ok
             /\ w.ok => w = good
             /\ ~w.ok => (~a.ok /\ w = a) \/ (~b.ok /\ w = b)
<1> DEFINE R == <<a, b>>
<1>1. DOMAIN R \subseteq Nat /\ DOMAIN R = {1, 2} /\ R[1] = a /\ R[2] = b
  OBVIOUS
<1> HIDE DEF R
<1>2. LET w == FirstOr(R, good)
      IN  /\ w.ok <=> \A i \in DOMAIN R : R[i].ok
          /\ w.ok => w = good
          /\ ~w.ok => \E i \in DOMAIN R : ~R[i].ok /\ w = R[i]
  BY <1>1, FirstOrLemma
<1>3. LET w == FirstOr(R, good)
      IN  /\ w.ok <=> a.ok /\ b.ok
          /\ w.ok => w = good
          /\ ~w.ok => (~a.ok /\ w = a) \/ (~b.ok /\ w = b)
  BY <1>1, <1>2
<1> QED BY <1>3 DEF R

LEMMA FirstOf3 ==
  ASSUME NEW a, NEW b, NEW c, NEW good, good.ok
  PROVE  LET w == FirstOr(<<a, b, c>>, good)
         IN  /\ w.ok <=> a.ok /\ b.ok /\ c.ok
             /\ w.ok => w = good
             /\ ~w.ok => (~a.ok /\ w = a) \/ (~b.ok /\ w = b) \/ (~c.ok /\ w = c)
<1> DEFINE R == <<a, b, c>>
<1>1. DOMAIN R \subseteq Nat /\ DOMAIN R = {1, 2, 3} /\ R[1] = a /\ R[2] = b /\ R[3] = c
  OBVIOUS
<1> HIDE DEF R
<1>2. LET w == FirstOr(R, good)
      IN  /\ w.ok <=> \A i \in DOMAIN R : R[i].ok
          /\ w.ok => w = good
          /\ ~w.ok => \E i \in DOMAIN R : ~R[i].ok /\ w = R[i]
  BY <1>1, FirstOrLemma
<1>3. LET w == FirstOr(R, good)
      IN  /\ w.ok <=> a.ok /\ b.ok /\ c.ok
          /\ w.ok => w = good
          /\ ~w.ok => (~a.ok /\ w = a) \/ (~b.ok /\ w = b) \/ (~c.ok /\ w = c)
  BY <1>1, <1>2
<1> QED BY <1>3 DEF R

LEMMA FirstOf5 ==
  ASSUME NEW a, NEW b, NEW c, NEW d, NEW e, NEW good, good.ok
  PROVE  LET w == FirstOr(<<a, b, c, d, e>>, good)
         IN  /\ w.ok <=> a.ok /\ b.ok /\ c.ok /\ d.ok /\ e.ok
             /\ w.ok => w = good
             /\ ~w.ok => \/ (~a.ok /\ w = a) \/ (~b.ok /\ w = b) \/ (~c.ok /\ w = c)
                         \/ (~d.ok /\ w = d) \/ (~e.ok /\ w = e)
<1> DEFINE R == <<a, b, c, d, e>>
<1>1. /\ DOMAIN R \subseteq Nat /\ DOMAIN R = {1, 2, 3, 4, 5}
      /\ R[1] = a /\ R[2] = b /\ R[3] = c /\ R[4] = d /\ R[5] = e
  OBVIOUS
<1> HIDE DEF R
<1>2. LET w == FirstOr(R, good)
      IN  /\ w.ok <=> \A i \in DOMAIN R : R[i].ok
          /\ w.ok => w = good
          /\ ~w.ok => \E i \in DOMAIN R : ~R[i].ok /\ w = R[i]
  BY <1>1, FirstOrLemma
<1>3. LET w == FirstOr(R, good)
      IN  /\ w.ok <=> a.ok /\ b.ok /\ c.ok /\ d.ok /\ e.ok
          /\ w.ok => w = good
          /\ ~w.ok => \/ (~a.ok /\ w = a) \/ (~b.ok /\ w = b) \/ (~c.ok /\ w = c)
                      \/ (~d.ok /\ w = d) \/ (~e.ok /\ w = e)
  BY <1>1, <1>2
<1> QED BY <1>3 DEF R

LEMMA FirstOf6 ==
  ASSUME NEW a, NEW b, NEW c, NEW d, NEW e, NEW f, NEW good, good.ok
  PROVE  LET w == FirstOr(<<a, b, c, d, e, f>>, good)
         IN  /\ w.ok <=> a.ok /\ b.ok /\ c.ok /\ d.ok /\ e.ok /\ f.ok
             /\ w.ok => w = good
             /\ ~w.ok => \/ (~a.ok /\ w = a) \/ (~b.ok /\ w = b) \/ (~c.ok /\ w = c)
                         \/ (~d.ok /\ w = d) \/ (~e.ok /\ w = e) \/ (~f.ok /\ w = f)
<1> DEFINE R == <<a, b, c, d, e, f>>
<1>1. /\ DOMAIN R \subseteq Nat /\ DOMAIN R = {1, 2, 3, 4, 5, 6}
      /\ R[1] = a /\ R[2] = b /\ R[3] = c /\ R[4] = d /\ R[5] = e /\ R[6] = f
  OBVIOUS
<1> HIDE DEF R
<1>2. LET w == FirstOr(R, good)
      IN  /\ w.ok <=> \A i \in DOMAIN R : R[i].ok
          /\ w.ok => w = good
          /\ ~w.ok => \E i \in DOMAIN R : ~R[i].ok /\ w = R[i]
  BY <1>1, FirstOrLemma
<1>3. LET w == FirstOr(R, good)
      IN  /\ w.ok <=> a.ok /\ b.ok /\ c.ok /\ d.ok /\ e.ok /\ f.ok
          /\ w.ok => w = good
          /\ ~w.ok => \/ (~a.ok /\ w = a) \/ (~b.ok /\ w = b) \/ (~c.ok /\ w = c)
                      \/ (~d.ok /\ w = d) \/ (~e.ok /\ w = e) \/ (~f.ok /\ w = f)
  BY <1>1, <1>2
<1> QED BY <1>3 DEF R

(***************************************************************************)
(* What reads an attribute or a node: right where it succeeds, and where   *)
(* it fails on what is right, a number -32768 made a debug build panic.    *)
(***************************************************************************)
Fails(r, n) == ~r.ok /\ r.error = "panic" => debug /\ NegatesIn(n)

LEMMA Required16 ==
  ASSUME NEW n, IsElement(n), NEW name
  PROVE  LET r == Required(n, name, U16)
         IN  /\ r.ok => /\ Has(n, name) /\ IsNumber(n, name, Numbers16)
                        /\ r.value = Number16(n, name) /\ r.value \in 0 .. Size - 1
             /\ Has(n, name) /\ IsNumber(n, name, Numbers16) /\ ~r.ok => r.error = "panic"
             /\ Fails(r, n)
<1>1. CASE Has(n, name)
  <2>1. IsText(n.attr[name]) /\ name \in DOMAIN n.attr
    BY <1>1 DEF Has, IsElement
  <2>2. Required(n, name, U16) = U16(n.attr[name])
    BY <1>1 DEF Required
  <2> QED BY <1>1, <2>1, <2>2, U16Lemma DEF IsNumber, Number16, Fails, NegatesIn
<1>2. CASE ~Has(n, name)
  BY <1>2 DEF Required, Bad, Fails
<1> QED BY <1>1, <1>2

LEMMA Optional16 ==
  ASSUME NEW n, IsElement(n), NEW name
  PROVE  LET r == Optional(n, name, U16, 0)
         IN  /\ r.ok => /\ IsNumber(n, name, Numbers16)
                        /\ r.value = Number16(n, name) /\ r.value \in 0 .. Size - 1
             /\ IsNumber(n, name, Numbers16) /\ ~r.ok => r.error = "panic"
             /\ Fails(r, n)
<1>1. CASE Has(n, name)
  <2>1. IsText(n.attr[name]) /\ name \in DOMAIN n.attr
    BY <1>1 DEF Has, IsElement
  <2>2. Optional(n, name, U16, 0) = U16(n.attr[name])
    BY <1>1 DEF Optional
  <2> QED BY <1>1, <2>1, <2>2, U16Lemma DEF IsNumber, Number16, Fails, NegatesIn
<1>2. CASE ~Has(n, name)
  <2>1. 0 \in 0 .. Size - 1
    BY SizeFacts
  <2> QED BY <1>2, <2>1 DEF Optional, Good, Fails, IsNumber, Number16
<1> QED BY <1>1, <1>2

LEMMA Optional8 ==
  ASSUME NEW n, IsElement(n), NEW name, NEW default
  PROVE  LET r == Optional(n, name, U8, default)
         IN  /\ r.ok <=> IsNumber(n, name, Numbers8)
             /\ r.ok /\ Has(n, name) => r.value = n.attr[name].value
             /\ r.ok /\ ~Has(n, name) => r.value = default
             /\ ~r.ok => r.error # "panic"
BY U8Lemma DEF Optional, IsNumber, Has, IsElement, Good

LEMMA OptionalLittle ==
  ASSUME NEW n, IsElement(n), NEW name
  PROVE  LET r == Optional(n, name, LittleFirst, FALSE)
         IN  /\ r.ok <=> IsOrder(n, name)
             /\ r.ok => r.value \in BOOLEAN
             /\ ~r.ok => r.error # "panic"
<1>1. CASE Has(n, name)
  <2>1. IsText(n.attr[name])
    BY <1>1 DEF Has, IsElement
  <2> QED BY <1>1, <2>1, LittleLemma DEF Optional, IsOrder
<1>2. CASE ~Has(n, name)
  BY <1>2 DEF Optional, IsOrder, Good
<1> QED BY <1>1, <1>2

LEMMA OptionalSign ==
  ASSUME NEW n, IsElement(n)
  PROVE  LET r == Optional(n, "sign", Signed, FALSE)
         IN  /\ r.ok <=> IsWord(n, "sign", {"signed", "unsigned"})
             /\ r.ok => r.value \in BOOLEAN
             /\ ~r.ok => r.error # "panic"
<1>1. CASE Has(n, "sign")
  <2>1. IsText(n.attr["sign"])
    BY <1>1 DEF Has, IsElement
  <2> QED BY <1>1, <2>1, SignedLemma DEF Optional, IsWord
<1>2. CASE ~Has(n, "sign")
  BY <1>2 DEF Optional, IsWord, Good
<1> QED BY <1>1, <1>2

TypeWritten(n) ==
    /\ IsWord(n, "value-type", {"integer", "float", "string"})
    /\ IsWord(n, "value-type", {"integer"}) => IsWord(n, "sign", {"signed", "unsigned"})
    /\ Has(n, "value-type") /\ IsWord(n, "value-type", {"string"}) => IsNumber(n, "fill", Numbers8)
TypeValue(v) == /\ v.type \in {"integer", "float", "string"}
                /\ v.signed \in BOOLEAN /\ v.fill \in 0 .. Byte - 1

LEMMA TypeTaken ==
  ASSUME NEW n, IsElement(n)
  PROVE  LET r == ValueType(n)
         IN  /\ r.ok <=> TypeWritten(n)
             /\ r.ok => TypeValue(r.value)
             /\ ~r.ok => r.error # "panic"
<1> DEFINE type == IF Has(n, "value-type") THEN n.attr["value-type"]
                   ELSE [kind |-> "word", value |-> "integer"]
           Typed(name, signed, fill) == [type |-> name, signed |-> signed, fill |-> fill]
           sign == Optional(n, "sign", Signed, FALSE)
           fill0 == Optional(n, "fill", U8, 0)
<1>0. 0 \in 0 .. Byte - 1
  BY SizeFacts
<1>1. CASE Is(type, "integer")
  <2> DEFINE g == Good(Typed("integer", Values(<<sign>>)[1], 0))
  <2>1. ValueType(n) = FirstOr(<<sign>>, g)
    BY <1>1 DEF ValueType, With, FirstOr, Bads, Values
  <2>2. g.ok /\ g.value.type = "integer" /\ g.value.signed = sign.value /\ g.value.fill = 0
    <3> HIDE DEF sign
    <3>1. Values(<<sign>>)[1] = sign.value
      BY DEF Values
    <3> QED BY <3>1 DEF Good
  <2>3. TypeWritten(n) <=> IsWord(n, "sign", {"signed", "unsigned"})
    BY <1>1 DEF TypeWritten, IsWord, Is
  <2> HIDE DEF g, sign
  <2>4. LET w == FirstOr(<<sign>>, g)
        IN  (w.ok <=> sign.ok) /\ (w.ok => w = g) /\ (~w.ok => w = sign)
    BY <2>2, FirstOf1
  <2> QED BY <1>0, <2>1, <2>2, <2>3, <2>4, OptionalSign DEF TypeValue, sign
<1>2. CASE Is(type, "float")
  BY <1>0, <1>2 DEF ValueType, Is, Good, TypeWritten, IsWord, TypeValue
<1>3. CASE Is(type, "string")
  <2> DEFINE g == Good(Typed("string", FALSE, Values(<<fill0>>)[1]))
  <2>1. ValueType(n) = FirstOr(<<fill0>>, g)
    BY <1>3 DEF ValueType, With, FirstOr, Bads, Values, Is
  <2>2. g.ok /\ g.value.type = "string" /\ g.value.signed = FALSE /\ g.value.fill = fill0.value
    BY DEF Good, Values
  <2>3. TypeWritten(n) <=> IsNumber(n, "fill", Numbers8)
    BY <1>3 DEF TypeWritten, IsWord, Is
  <2> HIDE DEF g, fill0
  <2>4. LET w == FirstOr(<<fill0>>, g)
        IN  (w.ok <=> fill0.ok) /\ (w.ok => w = g) /\ (~w.ok => w = fill0)
    BY <2>2, FirstOf1
  <2>5. /\ fill0.ok <=> IsNumber(n, "fill", Numbers8)
        /\ fill0.ok => fill0.value \in 0 .. Byte - 1
        /\ ~fill0.ok => fill0.error # "panic"
    BY <1>0, Optional8 DEF fill0, IsNumber, Numbers8
  <2> QED BY <2>1, <2>2, <2>3, <2>4, <2>5 DEF TypeValue
<1>4. CASE ~(Is(type, "integer") \/ Is(type, "float") \/ Is(type, "string"))
  BY <1>4 DEF ValueType, Is, Bad, TypeWritten, IsWord
<1> QED BY <1>1, <1>2, <1>3, <1>4

EncodingWritten(n) ==
    IsOrder(n, "byte-order") /\ IsOrder(n, "word-order") /\ TypeWritten(n)

LEMMA EncodingTaken ==
  ASSUME NEW n, IsElement(n)
  PROVE  LET r == ParseEncoding(n)
         IN  /\ r.ok <=> EncodingWritten(n)
             /\ r.ok => r.value \in EncodingType
             /\ ~r.ok => r.error # "panic"
<1> DEFINE bytes == Optional(n, "byte-order", LittleFirst, FALSE)
           words == Optional(n, "word-order", LittleFirst, FALSE)
           type == ValueType(n)
           r == Values(<<bytes, words, type>>)
           g == Good([type |-> r[3].type, signed |-> r[3].signed, fill |-> r[3].fill,
                      byte_le |-> r[1], word_le |-> r[2]])
<1>1. ParseEncoding(n) = FirstOr(<<bytes, words, type>>, g)
  BY DEF ParseEncoding, With, FirstOr, Bads, Values
<1>2. /\ bytes.ok <=> IsOrder(n, "byte-order")
      /\ bytes.ok => bytes.value \in BOOLEAN
      /\ ~bytes.ok => bytes.error # "panic"
  BY OptionalLittle
<1>3. /\ words.ok <=> IsOrder(n, "word-order")
      /\ words.ok => words.value \in BOOLEAN
      /\ ~words.ok => words.error # "panic"
  BY OptionalLittle
<1>4. /\ type.ok <=> TypeWritten(n)
      /\ type.ok => TypeValue(type.value)
      /\ ~type.ok => type.error # "panic"
  BY TypeTaken
<1> HIDE DEF bytes, words, type
<1>5. /\ r[1] = bytes.value /\ r[2] = words.value /\ r[3] = type.value
  BY DEF Values
<1> HIDE DEF r
<1>6. /\ g.ok
      /\ bytes.ok /\ words.ok /\ type.ok => g.value \in EncodingType
  BY <1>2, <1>3, <1>4, <1>5 DEF Good, EncodingType, TypeValue
<1> HIDE DEF g
<1>7. LET w == FirstOr(<<bytes, words, type>>, g)
      IN  /\ w.ok <=> bytes.ok /\ words.ok /\ type.ok
          /\ w.ok => w = g
          /\ ~w.ok => (~bytes.ok /\ w = bytes) \/ (~words.ok /\ w = words) \/ (~type.ok /\ w = type)
  BY <1>6, FirstOf3
<1> QED BY <1>1, <1>2, <1>3, <1>4, <1>6, <1>7 DEF EncodingWritten

-----------------------------------------------------------------------------
(***************************************************************************)
(* The items of a list, and what else is taken.                            *)
(***************************************************************************)
RegisterShape(t) ==
    /\ DOMAIN t = {"in", "low", "high", "scale", "initial", "value", "encoding"}
    /\ t.low \in 0 .. Size - 1 /\ t.high \in 0 .. Size - 1
    /\ t.scale.kind \in {"number", "word"} /\ (t.scale.kind = "number" => t.scale.value \in Int)
    /\ t.initial \in BOOLEAN /\ (t.initial => IsText(t.value))
    /\ t.encoding \in EncodingType
BitShape(t) ==
    /\ DOMAIN t = {"in", "low", "high", "initial", "bit"}
    /\ t.low \in 0 .. Size - 1 /\ t.high = t.low
    /\ t.initial = TRUE /\ t.bit \in {0, 1}
GroupShape(g) == DOMAIN g = {"in", "base"} /\ g.base \in 0 .. Size - 1
FieldShape(f) == DOMAIN f = {"in", "bit_low", "bit_high"}

PresentationWritten(n) ==
    Shown(n) /\ (Has(n, "scale") => IsNumber(n, "scale", Int) \/ IsWord(n, "scale", {"NaN"}))

LEMMA WrittenByTag ==
  ASSUME NEW n
  PROVE  /\ n.tag = "device" =>
               (WellWritten(n) <=> Has(n, "addr") /\ IsNumber(n, "addr", Numbers8))
         /\ n.tag \in Areas => WellWritten(n)
         /\ n.tag = "group" => (WellWritten(n) <=> IsNumber(n, "base-addr", Numbers16))
         /\ n.tag = "bit" =>
               (WellWritten(n) <=> /\ Has(n, "addr") /\ IsNumber(n, "addr", Numbers16)
                                   /\ \/ IsNumber(n, "initial-value", {0, 1})
                                      \/ IsWord(n, "initial-value", {"true", "false"}))
         /\ n.tag = "enum" =>
               (WellWritten(n) <=> /\ Has(n, "label") /\ Has(n, "value")
                                   /\ IsNumber(n, "value", Numbers16))
         /\ n.tag = "field" =>
               (WellWritten(n) <=>
                   /\ \A name \in {"bit", "bit-low", "bit-high"} : IsNumber(n, name, Numbers8)
                   /\ Has(n, "bit") # Has(n, "bit-low") /\ Has(n, "bit-low") = Has(n, "bit-high")
                   /\ PresentationWritten(n))
         /\ n.tag = "register" =>
               (WellWritten(n) <=> /\ Has(n, "addr") /\ IsNumber(n, "addr", Numbers16)
                                   /\ PresentationWritten(n) /\ EncodingWritten(n))
         /\ n.tag = "register-range" =>
               (WellWritten(n) <=> /\ Has(n, "addr-low") /\ IsNumber(n, "addr-low", Numbers16)
                                   /\ Has(n, "addr-high") /\ IsNumber(n, "addr-high", Numbers16)
                                   /\ PresentationWritten(n) /\ EncodingWritten(n))
<1>1. n.tag = "device" => Needs(n) = {"addr"}
  BY DEF Needs
<1>2. n.tag \in Areas \cup {"group", "field"} => Needs(n) = {}
  BY DEF Needs, Areas, RegisterAreas, BitAreas
<1>3. n.tag \in {"bit", "register"} => Needs(n) = {"addr"}
  BY DEF Needs
<1>4. n.tag = "enum" => Needs(n) = {"label", "value"}
  BY DEF Needs
<1>5. n.tag = "register-range" => Needs(n) = {"addr-low", "addr-high"}
  BY DEF Needs
<1>6. n.tag = "device" =>
         (WellWritten(n) <=> Has(n, "addr") /\ IsNumber(n, "addr", Numbers8))
  BY <1>1 DEF WellWritten, Has
<1>7. n.tag \in Areas => WellWritten(n)
  BY <1>2 DEF WellWritten, Areas, RegisterAreas, BitAreas
<1>8. n.tag = "group" => (WellWritten(n) <=> IsNumber(n, "base-addr", Numbers16))
  BY <1>2 DEF WellWritten
<1>9. n.tag = "bit" =>
         (WellWritten(n) <=> /\ Has(n, "addr") /\ IsNumber(n, "addr", Numbers16)
                             /\ \/ IsNumber(n, "initial-value", {0, 1})
                                \/ IsWord(n, "initial-value", {"true", "false"}))
  BY <1>3 DEF WellWritten, Has
<1>10. n.tag = "enum" =>
         (WellWritten(n) <=> /\ Has(n, "label") /\ Has(n, "value")
                             /\ IsNumber(n, "value", Numbers16))
  BY <1>4 DEF WellWritten, Has
<1>11. n.tag = "field" =>
         (WellWritten(n) <=>
             /\ \A name \in {"bit", "bit-low", "bit-high"} : IsNumber(n, name, Numbers8)
             /\ Has(n, "bit") # Has(n, "bit-low") /\ Has(n, "bit-low") = Has(n, "bit-high")
             /\ PresentationWritten(n))
  BY <1>2 DEF WellWritten, PresentationWritten
<1>12. n.tag = "register" =>
         (WellWritten(n) <=> /\ Has(n, "addr") /\ IsNumber(n, "addr", Numbers16)
                             /\ PresentationWritten(n) /\ EncodingWritten(n))
  BY <1>3 DEF WellWritten, PresentationWritten, EncodingWritten, TypeWritten, Has
<1>13. n.tag = "register-range" =>
         (WellWritten(n) <=> /\ Has(n, "addr-low") /\ IsNumber(n, "addr-low", Numbers16)
                             /\ Has(n, "addr-high") /\ IsNumber(n, "addr-high", Numbers16)
                             /\ PresentationWritten(n) /\ EncodingWritten(n))
  BY <1>5 DEF WellWritten, PresentationWritten, EncodingWritten, TypeWritten, Has
<1> QED BY <1>6, <1>7, <1>8, <1>9, <1>10, <1>11, <1>12, <1>13

LEMMA RegisterTaken ==
  ASSUME NEW n, IsElement(n), n.tag \in Registers
  PROVE  LET r == ParseRegister(n)
         IN  /\ r.ok => /\ WellWritten(n)
                        /\ r.value.in = n.in /\ Says(r.value, n) /\ RegisterShape(r.value)
             /\ WellWritten(n) /\ ~r.ok => r.error = "panic"
             /\ Fails(r, n)
<1> DEFINE lowName == IF n.tag = "register" THEN "addr" ELSE "addr-low"
           highName == IF n.tag = "register" THEN "addr" ELSE "addr-high"
           low == Required(n, lowName, U16)
           high == Required(n, highName, U16)
           label == Optional(n, "label", Str, Num(0))
           shown == ParsePresentation(n)
           encoding == ParseEncoding(n)
           v == Values(<<low, high, label, shown, encoding>>)
           g == Good([in |-> n.in, low |-> v[1], high |-> v[2], scale |-> v[4],
                      initial |-> Has(n, "initial-value"),
                      value |-> IF Has(n, "initial-value")
                                THEN n.attr["initial-value"] ELSE Num(0),
                      encoding |-> v[5]])
<1>1. ParseRegister(n) = FirstOr(<<low, high, label, shown, encoding>>, g)
  BY DEF ParseRegister, With, FirstOr, Bads, Values
<1>2. /\ low.ok => /\ Has(n, lowName) /\ IsNumber(n, lowName, Numbers16)
                   /\ low.value = Number16(n, lowName) /\ low.value \in 0 .. Size - 1
      /\ Has(n, lowName) /\ IsNumber(n, lowName, Numbers16) /\ ~low.ok => low.error = "panic"
      /\ Fails(low, n)
  <2> HIDE DEF lowName
  <2> QED BY Required16
<1>3. /\ high.ok => /\ Has(n, highName) /\ IsNumber(n, highName, Numbers16)
                    /\ high.value = Number16(n, highName) /\ high.value \in 0 .. Size - 1
      /\ Has(n, highName) /\ IsNumber(n, highName, Numbers16) /\ ~high.ok => high.error = "panic"
      /\ Fails(high, n)
  <2> HIDE DEF highName
  <2> QED BY Required16
<1>4. label.ok
  BY DEF Optional, Str, Good
<1>5. /\ shown.ok <=> PresentationWritten(n)
      /\ shown.ok => /\ shown.value.kind \in {"number", "word"}
                     /\ shown.value.kind = "number" => shown.value.value \in Int
      /\ ~shown.ok => shown.error # "panic"
  BY PresentationTaken DEF PresentationWritten
<1>6. /\ encoding.ok <=> EncodingWritten(n)
      /\ encoding.ok => encoding.value \in EncodingType
      /\ ~encoding.ok => encoding.error # "panic"
  BY EncodingTaken
<1>7. WellWritten(n) <=> /\ Has(n, lowName) /\ IsNumber(n, lowName, Numbers16)
                         /\ Has(n, highName) /\ IsNumber(n, highName, Numbers16)
                         /\ PresentationWritten(n) /\ EncodingWritten(n)
  <2>1. CASE n.tag = "register"
    BY <2>1, WrittenByTag
  <2>2. CASE n.tag = "register-range"
    BY <2>2, WrittenByTag
  <2> QED BY <2>1, <2>2 DEF Registers
<1>8. \A x : x.low = Number16(n, lowName) /\ x.high = Number16(n, highName) => Says(x, n)
  <2>1. CASE n.tag = "register"
    BY <2>1 DEF Says
  <2>2. CASE n.tag = "register-range"
    BY <2>2 DEF Says
  <2> QED BY <2>1, <2>2 DEF Registers
<1> HIDE DEF low, high, label, shown, encoding, lowName, highName
<1>9. v[1] = low.value /\ v[2] = high.value /\ v[4] = shown.value /\ v[5] = encoding.value
  BY DEF Values
<1>10. Has(n, "initial-value") => IsText(n.attr["initial-value"])
  BY DEF Has, IsElement
<1> HIDE DEF v
<1>11. g.ok /\ g.value.in = n.in /\ g.value.low = low.value /\ g.value.high = high.value
  BY <1>9 DEF Good
<1>12. low.ok /\ high.ok /\ shown.ok /\ encoding.ok => RegisterShape(g.value)
  <2>1. DOMAIN g.value = {"in", "low", "high", "scale", "initial", "value", "encoding"}
    BY DEF Good
  <2>2. /\ g.value.scale = shown.value /\ g.value.encoding = encoding.value
        /\ g.value.initial = Has(n, "initial-value")
        /\ g.value.initial => g.value.value = n.attr["initial-value"]
    BY <1>9 DEF Good
  <2>3. g.value.initial \in BOOLEAN
    <3> HIDE DEF g
    <3>1. Has(n, "initial-value") \in BOOLEAN
      BY DEF Has
    <3> QED BY <2>2, <3>1
  <2> HIDE DEF g
  <2> QED BY <1>2, <1>3, <1>5, <1>6, <1>10, <1>11, <2>1, <2>2, <2>3 DEF RegisterShape
<1> HIDE DEF g
<1>13. LET w == FirstOr(<<low, high, label, shown, encoding>>, g)
       IN  /\ w.ok <=> low.ok /\ high.ok /\ label.ok /\ shown.ok /\ encoding.ok
           /\ w.ok => w = g
           /\ ~w.ok => \/ (~low.ok /\ w = low) \/ (~high.ok /\ w = high) \/ (~label.ok /\ w = label)
                       \/ (~shown.ok /\ w = shown) \/ (~encoding.ok /\ w = encoding)
  BY <1>11, FirstOf5
<1>14. low.ok /\ high.ok => Says(g.value, n)
  BY <1>2, <1>3, <1>8, <1>11
<1> QED BY <1>1, <1>2, <1>3, <1>4, <1>5, <1>6, <1>7, <1>11, <1>12, <1>13, <1>14 DEF Fails

LEMMA BitTaken ==
  ASSUME NEW n, IsElement(n), n.tag = "bit"
  PROVE  LET r == ParseBit(n)
         IN  /\ r.ok => /\ WellWritten(n)
                        /\ r.value.in = n.in /\ Says(r.value, n) /\ BitShape(r.value)
             /\ WellWritten(n) /\ ~r.ok => r.error = "panic"
             /\ Fails(r, n)
<1> DEFINE addr == Required(n, "addr", U16)
           label == Optional(n, "label", Str, Num(0))
           start == Optional(n, "initial-value", Boolean, 0)
           v == Values(<<addr, label, start>>)
           g == Good([in |-> n.in, low |-> v[1], high |-> v[1], initial |-> TRUE, bit |-> v[3]])
           right == \/ IsNumber(n, "initial-value", {0, 1})
                    \/ IsWord(n, "initial-value", {"true", "false"})
<1>1. ParseBit(n) = FirstOr(<<addr, label, start>>, g)
  BY DEF ParseBit, With, FirstOr, Bads, Values
<1>2. /\ addr.ok => /\ Has(n, "addr") /\ IsNumber(n, "addr", Numbers16)
                    /\ addr.value = Number16(n, "addr") /\ addr.value \in 0 .. Size - 1
      /\ Has(n, "addr") /\ IsNumber(n, "addr", Numbers16) /\ ~addr.ok => addr.error = "panic"
      /\ Fails(addr, n)
  BY Required16
<1>3. label.ok
  BY DEF Optional, Str, Good
<1>4. /\ start.ok <=> right
      /\ start.ok => start.value \in {0, 1}
      /\ ~start.ok => start.error # "panic"
  <2>1. CASE Has(n, "initial-value")
    <3>1. IsText(n.attr["initial-value"])
      BY <2>1 DEF Has, IsElement
    <3> QED BY <2>1, <3>1, BooleanLemma DEF Optional, IsNumber, IsWord
  <2>2. CASE ~Has(n, "initial-value")
    BY <2>2 DEF Optional, Good, IsNumber
  <2> QED BY <2>1, <2>2
<1>5. WellWritten(n) <=> Has(n, "addr") /\ IsNumber(n, "addr", Numbers16) /\ right
  BY WrittenByTag
<1> HIDE DEF addr, label, start, right
<1>6. v[1] = addr.value /\ v[3] = start.value
  BY DEF Values
<1> HIDE DEF v
<1>7. g.ok /\ g.value.in = n.in /\ g.value.low = addr.value /\ g.value.high = addr.value
  BY <1>6 DEF Good
<1>8. addr.ok /\ start.ok => BitShape(g.value)
  BY <1>2, <1>4, <1>6 DEF Good, BitShape
<1> HIDE DEF g
<1>9. addr.ok => Says(g.value, n)
  BY <1>2, <1>7 DEF Says
<1>10. LET w == FirstOr(<<addr, label, start>>, g)
       IN  /\ w.ok <=> addr.ok /\ label.ok /\ start.ok
           /\ w.ok => w = g
           /\ ~w.ok => (~addr.ok /\ w = addr) \/ (~label.ok /\ w = label) \/ (~start.ok /\ w = start)
  BY <1>7, FirstOf3
<1> QED BY <1>1, <1>2, <1>3, <1>4, <1>5, <1>7, <1>8, <1>9, <1>10 DEF Fails

LEMMA GroupTaken ==
  ASSUME NEW n, IsElement(n), n.tag = "group"
  PROVE  LET r == ParseGroup(n)
         IN  /\ r.ok => /\ WellWritten(n)
                        /\ r.value.in = n.in /\ Says(r.value, n) /\ GroupShape(r.value)
             /\ WellWritten(n) /\ ~r.ok => r.error = "panic"
             /\ Fails(r, n)
<1> DEFINE addr == Optional(n, "base-addr", U16, 0)
           label == Optional(n, "label", Str, Num(0))
           v == Values(<<addr, label>>)
           g == Good([in |-> n.in, base |-> v[1]])
<1>1. ParseGroup(n) = FirstOr(<<addr, label>>, g)
  BY DEF ParseGroup, With, FirstOr, Bads, Values
<1>2. /\ addr.ok => /\ IsNumber(n, "base-addr", Numbers16)
                    /\ addr.value = Number16(n, "base-addr") /\ addr.value \in 0 .. Size - 1
      /\ IsNumber(n, "base-addr", Numbers16) /\ ~addr.ok => addr.error = "panic"
      /\ Fails(addr, n)
  BY Optional16
<1>3. label.ok
  BY DEF Optional, Str, Good
<1>4. WellWritten(n) <=> IsNumber(n, "base-addr", Numbers16)
  BY WrittenByTag
<1> HIDE DEF addr, label
<1>5. v[1] = addr.value
  BY DEF Values
<1> HIDE DEF v
<1>6. g.ok /\ g.value.in = n.in /\ g.value.base = addr.value
  BY <1>5 DEF Good
<1>7. addr.ok => GroupShape(g.value)
  BY <1>2, <1>5 DEF Good, GroupShape
<1> HIDE DEF g
<1>8. addr.ok => Says(g.value, n)
  BY <1>2, <1>6 DEF Says
<1>9. LET w == FirstOr(<<addr, label>>, g)
      IN  /\ w.ok <=> addr.ok /\ label.ok
          /\ w.ok => w = g
          /\ ~w.ok => (~addr.ok /\ w = addr) \/ (~label.ok /\ w = label)
  BY <1>6, FirstOf2
<1> QED BY <1>1, <1>2, <1>3, <1>4, <1>6, <1>7, <1>8, <1>9 DEF Fails

LEMMA EnumTaken ==
  ASSUME NEW n, IsElement(n), n.tag = "enum"
  PROVE  LET r == ParseEnum(n)
         IN  /\ r.ok => WellWritten(n)
             /\ WellWritten(n) /\ ~r.ok => r.error = "panic"
             /\ Fails(r, n)
<1> DEFINE label == Required(n, "label", Str)
           number == Required(n, "value", U16)
           g == Good([enum |-> Values(<<label, number>>)[2]])
<1>1. ParseEnum(n) = FirstOr(<<label, number>>, g)
  BY DEF ParseEnum, With, FirstOr, Bads, Values
<1>2. /\ number.ok => Has(n, "value") /\ IsNumber(n, "value", Numbers16)
      /\ Has(n, "value") /\ IsNumber(n, "value", Numbers16) /\ ~number.ok => number.error = "panic"
      /\ Fails(number, n)
  BY Required16
<1>3. (label.ok <=> Has(n, "label")) /\ (~label.ok => label.error # "panic")
  BY DEF Required, Str, Good, Bad
<1>4. WellWritten(n) <=> Has(n, "label") /\ Has(n, "value") /\ IsNumber(n, "value", Numbers16)
  BY WrittenByTag
<1>5. g.ok
  BY DEF Good
<1> HIDE DEF label, number, g
<1>6. LET w == FirstOr(<<label, number>>, g)
      IN  /\ w.ok <=> label.ok /\ number.ok
          /\ w.ok => w = g
          /\ ~w.ok => (~label.ok /\ w = label) \/ (~number.ok /\ w = number)
  BY <1>5, FirstOf2
<1> QED BY <1>1, <1>2, <1>3, <1>4, <1>6 DEF Fails

LEMMA FieldTaken ==
  ASSUME NEW n, IsElement(n), n.tag = "field"
  PROVE  LET r == ParseRegisterField(n)
         IN  /\ r.ok => /\ WellWritten(n)
                        /\ r.value.in = n.in /\ Says(r.value, n) /\ FieldShape(r.value)
             /\ WellWritten(n) /\ ~r.ok => r.error = "panic"
             /\ Fails(r, n)
<1> DEFINE bit == Optional(n, "bit", U8, 0)
           low == Optional(n, "bit-low", U8, 0)
           high == Optional(n, "bit-high", U8, 0)
           label == Optional(n, "label", Str, Num(0))
           place == BitRange(n)
           shown == ParsePresentation(n)
           v == Values(<<bit, low, high, label, place, shown>>)
           g == Good([in |-> n.in, bit_low |-> IF v[5] = "bit" THEN v[1] ELSE v[2],
                      bit_high |-> IF v[5] = "bit" THEN v[1] ELSE v[3]])
<1>1. ParseRegisterField(n) = FirstOr(<<bit, low, high, label, place, shown>>, g)
  BY DEF ParseRegisterField, With, FirstOr, Bads, Values
<1>2. /\ bit.ok <=> IsNumber(n, "bit", Numbers8)
      /\ bit.ok /\ Has(n, "bit") => bit.value = n.attr["bit"].value
      /\ ~bit.ok => bit.error # "panic"
  BY Optional8
<1>3. /\ low.ok <=> IsNumber(n, "bit-low", Numbers8)
      /\ low.ok /\ Has(n, "bit-low") => low.value = n.attr["bit-low"].value
      /\ ~low.ok => low.error # "panic"
  BY Optional8
<1>4. /\ high.ok <=> IsNumber(n, "bit-high", Numbers8)
      /\ high.ok /\ Has(n, "bit-high") => high.value = n.attr["bit-high"].value
      /\ ~high.ok => high.error # "panic"
  BY Optional8
<1>5. label.ok
  BY DEF Optional, Str, Good
<1>6. /\ place.ok <=> Has(n, "bit") # Has(n, "bit-low") /\ Has(n, "bit-low") = Has(n, "bit-high")
      /\ place.ok => IF Has(n, "bit") THEN place.value = "bit"
                     ELSE place.value = "low" /\ Has(n, "bit-low") /\ Has(n, "bit-high")
      /\ ~place.ok => place.error # "panic"
  <2> DEFINE given == {name \in {"bit", "bit-low", "bit-high"} : Has(n, name)}
  <2>1. /\ given = {"bit"} <=> Has(n, "bit") /\ ~Has(n, "bit-low") /\ ~Has(n, "bit-high")
        /\ given = {"bit-low", "bit-high"} <=>
              ~Has(n, "bit") /\ Has(n, "bit-low") /\ Has(n, "bit-high")
    OBVIOUS
  <2>2. /\ given = {"bit"} => place = Good("bit")
        /\ given # {"bit"} /\ given = {"bit-low", "bit-high"} => place = Good("low")
        /\ given # {"bit"} /\ given # {"bit-low", "bit-high"} => place = Bad("BitRange")
    BY DEF BitRange
  <2> HIDE DEF given, place
  <2> QED BY <2>1, <2>2 DEF Good, Bad, Has
<1>7. /\ shown.ok <=> PresentationWritten(n)
      /\ ~shown.ok => shown.error # "panic"
  BY PresentationTaken DEF PresentationWritten
<1>8. WellWritten(n) <=>
         /\ IsNumber(n, "bit", Numbers8) /\ IsNumber(n, "bit-low", Numbers8)
         /\ IsNumber(n, "bit-high", Numbers8)
         /\ Has(n, "bit") # Has(n, "bit-low") /\ Has(n, "bit-low") = Has(n, "bit-high")
         /\ PresentationWritten(n)
  BY WrittenByTag
<1> HIDE DEF bit, low, high, label, place, shown
<1>9. v[1] = bit.value /\ v[2] = low.value /\ v[3] = high.value /\ v[5] = place.value
  BY DEF Values
<1> HIDE DEF v
<1>10. /\ g.ok /\ g.value.in = n.in /\ FieldShape(g.value)
       /\ g.value.bit_low = IF place.value = "bit" THEN bit.value ELSE low.value
       /\ g.value.bit_high = IF place.value = "bit" THEN bit.value ELSE high.value
  BY <1>9 DEF Good, FieldShape
<1> HIDE DEF g
<1>11. bit.ok /\ low.ok /\ high.ok /\ place.ok => Says(g.value, n)
  BY <1>2, <1>3, <1>4, <1>6, <1>10 DEF Says
<1>12. LET w == FirstOr(<<bit, low, high, label, place, shown>>, g)
       IN  /\ w.ok <=> bit.ok /\ low.ok /\ high.ok /\ label.ok /\ place.ok /\ shown.ok
           /\ w.ok => w = g
           /\ ~w.ok => \/ (~bit.ok /\ w = bit) \/ (~low.ok /\ w = low) \/ (~high.ok /\ w = high)
                       \/ (~label.ok /\ w = label) \/ (~place.ok /\ w = place) \/ (~shown.ok /\ w = shown)
  BY <1>10, FirstOf6
<1> QED BY <1>1, <1>2, <1>3, <1>4, <1>5, <1>6, <1>7, <1>8, <1>10, <1>11, <1>12 DEF Fails

-----------------------------------------------------------------------------
(***************************************************************************)
(* The parser of a node belongs to its context.                            *)
(***************************************************************************)
Matches(p, c) ==
    \/ p = "device_list" /\ c = "root"
    \/ p = "tag_list" /\ c = "device"
    \/ p \in {"registers", "bits", "register", "field"} /\ c = p
    \/ p = "none" /\ c = "any"
NodeValid(c, n) ==
    c # "any" => IF n.is = "text" THEN n.blank
                 ELSE n.known /\ n.tag \in DOMAIN InContext[c] /\ WellWritten(n)
ItemRead(x, n) ==
    /\ x.in = n.in /\ Says(x, n)
    /\ n.tag \in Registers \cup {"bit", "group", "field"}
    /\ n.tag \in Registers => RegisterShape(x)
    /\ n.tag = "bit" => BitShape(x)
    /\ n.tag = "group" => GroupShape(x)
    /\ n.tag = "field" => FieldShape(x)
ListItem(p, n) ==
    \/ p \in {"registers", "bits"}
    \/ p = "register" /\ n.tag = "field"

Taking(p, c, n, r) ==
    /\ r.ok => n.tag \in DOMAIN InContext[c] /\ WellWritten(n)
    /\ n.tag \in DOMAIN InContext[c] /\ WellWritten(n) /\ ~r.ok => r.error = "panic"
    /\ Fails(r, n)
    /\ n.tag \in DOMAIN InContext[c] => Matches(ParserIn(p, n), ContextIn(c, n))
    /\ r.ok /\ ListItem(p, n) => ItemRead(r.value, n)
    /\ r.ok /\ p = "device_list" => n.tag = "device" /\ r.value = n.attr["addr"].value
    /\ r.ok /\ p = "tag_list" => n.tag \in Areas

LEMMA Unexpected ==
  ASSUME NEW n, NEW p, NEW c, NEW r, r = Bad("UnexpectedElement"), n.tag \notin DOMAIN InContext[c]
  PROVE  Taking(p, c, n, r)
BY DEF Taking, Bad, Fails

LEMMA ElementLemma ==
  ASSUME NEW n, IsElement(n), NEW p, NEW c, Matches(p, c), p # "none"
  PROVE  Taking(p, c, n, ElementTaken(p, n))
<1> DEFINE r == ElementTaken(p, n)
<1>0. n.is = "element"
  BY DEF IsElement
<1>1. CASE p = "device_list"
  <2>1. c = "root" /\ DOMAIN InContext[c] = {"device"} /\ c \in DOMAIN InContext
        /\ InContext[c]["device"] = "device"
    BY <1>1, InContextCases DEF Matches
  <2>2. CASE n.tag = "device"
    <3>1. r = Required(n, "addr", U8)
      BY <1>1, <2>2 DEF ElementTaken
    <3>2. /\ r.ok <=> Has(n, "addr") /\ IsNumber(n, "addr", Numbers8)
          /\ r.ok => r.value = n.attr["addr"].value
          /\ ~r.ok => r.error # "panic"
      BY <3>1, U8Lemma DEF Required, IsNumber, Has, IsElement, Bad
    <3>3. WellWritten(n) <=> Has(n, "addr") /\ IsNumber(n, "addr", Numbers8)
      BY <2>2, WrittenByTag
    <3>4. ParserIn(p, n) = "tag_list" /\ ContextIn(c, n) = "device"
      <4>1. ParserIn(p, n) = "tag_list"
        BY <1>0, <1>1, <2>1, <2>2 DEF ParserIn, Areas, RegisterAreas, BitAreas, Registers
      <4>2. ContextIn(c, n) = "device"
        BY <1>0, <1>1, <2>1, <2>2 DEF ContextIn
      <4> QED BY <4>1, <4>2
    <3> QED BY <1>1, <2>1, <2>2, <3>2, <3>3, <3>4 DEF Taking, Fails, Matches, ListItem
  <2>3. CASE n.tag # "device"
    <3>1. r = Bad("UnexpectedElement")
      BY <1>1, <2>3 DEF ElementTaken
    <3> QED BY <2>1, <2>3, <3>1, Unexpected
  <2> QED BY <2>2, <2>3
<1>2. CASE p = "tag_list"
  <2>1. /\ c = "device" /\ DOMAIN InContext[c] = Areas /\ c \in DOMAIN InContext
        /\ \A a \in Areas : InContext[c][a] = IF a \in RegisterAreas THEN "registers" ELSE "bits"
    BY <1>2, InContextCases DEF Matches
  <2>2. CASE n.tag \in Areas
    <3>1. r = Good(n.tag)
      BY <1>2, <2>2 DEF ElementTaken
    <3>2. WellWritten(n)
      BY <2>2, WrittenByTag
    <3>3. n.tag \in RegisterAreas => ParserIn(p, n) = "registers" /\ ContextIn(c, n) = "registers"
      <4>1. n.tag \in RegisterAreas => ParserIn(p, n) = "registers"
        BY <1>0, <1>2, <2>1, <2>2 DEF ParserIn, Areas, RegisterAreas, BitAreas, Registers
      <4>2. n.tag \in RegisterAreas => ContextIn(c, n) = "registers"
        BY <1>0, <1>2, <2>1, <2>2 DEF ContextIn
      <4> QED BY <4>1, <4>2
    <3>4. n.tag \notin RegisterAreas => ParserIn(p, n) = "bits" /\ ContextIn(c, n) = "bits"
      <4>1. n.tag \notin RegisterAreas => ParserIn(p, n) = "bits"
        BY <1>0, <1>2, <2>1, <2>2 DEF ParserIn, Areas, RegisterAreas, BitAreas, Registers
      <4>2. n.tag \notin RegisterAreas => ContextIn(c, n) = "bits"
        BY <1>0, <1>2, <2>1, <2>2 DEF ContextIn
      <4> QED BY <4>1, <4>2
    <3> QED BY <1>2, <2>1, <2>2, <3>1, <3>2, <3>3, <3>4 DEF Taking, Fails, Matches, ListItem, Good
  <2>3. CASE n.tag \notin Areas
    <3>1. r = Bad("UnexpectedElement")
      BY <1>2, <2>3 DEF ElementTaken
    <3> QED BY <2>1, <2>3, <3>1, Unexpected
  <2> QED BY <2>2, <2>3
<1>3. CASE p \in {"registers", "bits"}
  <2>1. /\ c = p /\ c \in DOMAIN InContext
        /\ p = "registers" => /\ DOMAIN InContext[c] = Registers \cup {"group"}
                              /\ \A t \in Registers : InContext[c][t] = "register"
                              /\ InContext[c]["group"] = "registers"
        /\ p = "bits" => /\ DOMAIN InContext[c] = {"bit", "group"}
                         /\ InContext[c]["bit"] = "any" /\ InContext[c]["group"] = "bits"
    BY <1>3, InContextCases DEF Matches
  <2>2. CASE n.tag = "group"
    <3>1. r = ParseGroup(n)
      BY <1>3, <2>2 DEF ElementTaken, Registers
    <3>2. ParserIn(p, n) = p /\ ContextIn(c, n) = p
      <4>1. ParserIn(p, n) = p
        BY <1>0, <1>3, <2>1, <2>2 DEF ParserIn, Areas, RegisterAreas, BitAreas, Registers
      <4>2. ContextIn(c, n) = p
        BY <1>0, <1>3, <2>1, <2>2 DEF ContextIn
      <4> QED BY <4>1, <4>2
    <3>3. n.tag \in DOMAIN InContext[c]
      BY <1>3, <2>1, <2>2
    <3>4. Matches(p, p)
      BY <1>3 DEF Matches
    <3>5. /\ r.ok => /\ WellWritten(n)
                     /\ r.value.in = n.in /\ Says(r.value, n) /\ GroupShape(r.value)
          /\ WellWritten(n) /\ ~r.ok => r.error = "panic"
          /\ Fails(r, n)
      BY <2>2, <3>1, GroupTaken
    <3>6. r.ok => ItemRead(r.value, n)
      BY <2>2, <3>5 DEF ItemRead, Registers
    <3> QED BY <1>3, <2>2, <3>2, <3>3, <3>4, <3>5, <3>6 DEF Taking
  <2>3. CASE p = "registers" /\ n.tag \in Registers
    <3>1. r = ParseRegister(n)
      BY <2>3 DEF ElementTaken, Registers, Areas, RegisterAreas, BitAreas
    <3>2. ParserIn(p, n) = "register" /\ ContextIn(c, n) = "register"
      <4>1. ParserIn(p, n) = "register"
        BY <1>0, <2>1, <2>3 DEF ParserIn, Areas, RegisterAreas, BitAreas, Registers
      <4>2. ContextIn(c, n) = "register"
        BY <1>0, <2>1, <2>3 DEF ContextIn
      <4> QED BY <4>1, <4>2
    <3>3. n.tag \in DOMAIN InContext[c]
      BY <2>1, <2>3
    <3>4. Matches("register", "register")
      BY DEF Matches
    <3>5. /\ r.ok => /\ WellWritten(n)
                     /\ r.value.in = n.in /\ Says(r.value, n) /\ RegisterShape(r.value)
          /\ WellWritten(n) /\ ~r.ok => r.error = "panic"
          /\ Fails(r, n)
      BY <2>3, <3>1, RegisterTaken
    <3>6. r.ok => ItemRead(r.value, n)
      BY <2>3, <3>5 DEF ItemRead, Registers
    <3> QED BY <1>3, <2>3, <3>2, <3>3, <3>4, <3>5, <3>6 DEF Taking
  <2>4. CASE p = "bits" /\ n.tag = "bit"
    <3>1. r = ParseBit(n)
      BY <2>4 DEF ElementTaken, Registers, Areas, RegisterAreas, BitAreas
    <3>2. ParserIn(p, n) = "none" /\ ContextIn(c, n) = "any"
      <4>1. ParserIn(p, n) = "none"
        BY <1>0, <2>1, <2>4 DEF ParserIn, Areas, RegisterAreas, BitAreas, Registers
      <4>2. ContextIn(c, n) = "any"
        BY <1>0, <2>1, <2>4 DEF ContextIn
      <4> QED BY <4>1, <4>2
    <3>3. n.tag \in DOMAIN InContext[c]
      BY <2>1, <2>4
    <3>4. Matches("none", "any")
      BY DEF Matches
    <3>5. /\ r.ok => /\ WellWritten(n)
                     /\ r.value.in = n.in /\ Says(r.value, n) /\ BitShape(r.value)
          /\ WellWritten(n) /\ ~r.ok => r.error = "panic"
          /\ Fails(r, n)
      BY <2>4, <3>1, BitTaken
    <3>6. r.ok => ItemRead(r.value, n)
      BY <2>4, <3>5 DEF ItemRead, Registers
    <3> QED BY <1>3, <2>4, <3>2, <3>3, <3>4, <3>5, <3>6 DEF Taking
  <2>5. CASE /\ n.tag # "group" /\ ~(p = "registers" /\ n.tag \in Registers)
             /\ ~(p = "bits" /\ n.tag = "bit")
    <3>1. r = Bad("UnexpectedElement")
      BY <1>3, <2>5 DEF ElementTaken
    <3>2. n.tag \notin DOMAIN InContext[c]
      BY <1>3, <2>1, <2>5
    <3> QED BY <3>1, <3>2, Unexpected
  <2> QED BY <2>2, <2>3, <2>4, <2>5
<1>4. CASE p \in {"register", "field"}
  <2>1. /\ c = p /\ c \in DOMAIN InContext
        /\ p = "register" => /\ DOMAIN InContext[c] = {"field", "enum"}
                             /\ InContext[c]["field"] = "field" /\ InContext[c]["enum"] = "any"
        /\ p = "field" => DOMAIN InContext[c] = {"enum"} /\ InContext[c]["enum"] = "any"
    BY <1>4, InContextCases DEF Matches
  <2>2. CASE p = "register" /\ n.tag = "field"
    <3>1. r = ParseRegisterField(n)
      BY <2>2 DEF ElementTaken
    <3>2. ParserIn(p, n) = "field" /\ ContextIn(c, n) = "field"
      <4>1. ParserIn(p, n) = "field"
        BY <1>0, <2>1, <2>2 DEF ParserIn, Areas, RegisterAreas, BitAreas, Registers
      <4>2. ContextIn(c, n) = "field"
        BY <1>0, <2>1, <2>2 DEF ContextIn
      <4> QED BY <4>1, <4>2
    <3>3. n.tag \in DOMAIN InContext[c]
      BY <2>1, <2>2
    <3>4. Matches("field", "field")
      BY DEF Matches
    <3>5. /\ r.ok => /\ WellWritten(n)
                     /\ r.value.in = n.in /\ Says(r.value, n) /\ FieldShape(r.value)
          /\ WellWritten(n) /\ ~r.ok => r.error = "panic"
          /\ Fails(r, n)
      BY <2>2, <3>1, FieldTaken
    <3>6. r.ok => ItemRead(r.value, n)
      BY <2>2, <3>5 DEF ItemRead, Registers
    <3> QED BY <1>4, <2>2, <3>2, <3>3, <3>4, <3>5, <3>6 DEF Taking
  <2>3. CASE n.tag = "enum"
    <3>1. r = ParseEnum(n)
      BY <1>4, <2>3 DEF ElementTaken
    <3>2. ParserIn(p, n) = "none" /\ ContextIn(c, n) = "any"
      <4>1. ParserIn(p, n) = "none"
        BY <1>0, <1>4, <2>1, <2>3 DEF ParserIn, Areas, RegisterAreas, BitAreas, Registers
      <4>2. ContextIn(c, n) = "any"
        BY <1>0, <1>4, <2>1, <2>3 DEF ContextIn
      <4> QED BY <4>1, <4>2
    <3>3. n.tag \in DOMAIN InContext[c]
      BY <1>4, <2>1, <2>3
    <3>4. Matches("none", "any")
      BY DEF Matches
    <3>5. /\ r.ok => WellWritten(n)
          /\ WellWritten(n) /\ ~r.ok => r.error = "panic"
          /\ Fails(r, n)
      BY <2>3, <3>1, EnumTaken
    <3> QED BY <1>4, <2>3, <3>2, <3>3, <3>4, <3>5 DEF Taking, ListItem
  <2>4. CASE ~(p = "register" /\ n.tag = "field") /\ n.tag # "enum"
    <3>1. r = Bad("UnexpectedElement")
      BY <1>4, <2>4 DEF ElementTaken
    <3>2. n.tag \notin DOMAIN InContext[c]
      BY <1>4, <2>1, <2>4
    <3> QED BY <3>1, <3>2, Unexpected
  <2> QED BY <2>2, <2>3, <2>4
<1> QED BY <1>1, <1>2, <1>3, <1>4 DEF Matches

LEMMA NodeLemma ==
  ASSUME NEW n, IsNode(n), NEW p, NEW c, Matches(p, c)
  PROVE  LET r == NodeTaken(p, n)
         IN  /\ r.ok => NodeValid(c, n)
             /\ NodeValid(c, n) /\ ~r.ok => r.error = "panic"
             /\ ~r.ok /\ r.error = "panic" => n.is = "element" /\ debug /\ NegatesIn(n)
             /\ n.is = "element" /\ NodeValid(c, n) => Matches(ParserIn(p, n), ContextIn(c, n))
             /\ n.is = "element" /\ r.ok /\ p # "none" =>
                   /\ ListItem(p, n) => ItemRead(r.value, n)
                   /\ p = "device_list" => n.tag = "device" /\ r.value = n.attr["addr"].value
                   /\ p = "tag_list" => n.tag \in Areas
<1> DEFINE r == NodeTaken(p, n)
<1>1. CASE p = "none"
  <2>1. c = "any"
    BY <1>1 DEF Matches
  <2>2. "any" \notin DOMAIN InContext
    BY InContextCases
  <2>3. ContextIn(c, n) = "any" /\ ParserIn(p, n) = "none"
    BY <1>1, <2>1, <2>2 DEF ContextIn, ParserIn
  <2> QED BY <1>1, <2>1, <2>3 DEF NodeTaken, Good, NodeValid, Matches
<1>2. CASE p # "none" /\ n.is = "text"
  BY <1>2 DEF NodeTaken, NodeValid, Good, Bad, Matches
<1>3. CASE p # "none" /\ n.is # "text"
  <2>1. n.is = "element" /\ IsElement(n) /\ c # "any"
    BY <1>3 DEF IsNode, IsElement, Matches
  <2>2. CASE ~n.known
    BY <1>3, <2>1, <2>2 DEF NodeTaken, NodeValid, Bad
  <2>3. CASE n.known
    <3>1. r = ElementTaken(p, n)
      BY <1>3, <2>3 DEF NodeTaken
    <3>2. Taking(p, c, n, r)
      BY <1>3, <2>1, <3>1, ElementLemma
    <3>3. NodeValid(c, n) <=> n.tag \in DOMAIN InContext[c] /\ WellWritten(n)
      BY <2>1, <2>3 DEF NodeValid
    <3> HIDE DEF r
    <3>4. /\ r.ok => NodeValid(c, n)
          /\ NodeValid(c, n) /\ ~r.ok => r.error = "panic"
          /\ ~r.ok /\ r.error = "panic" => n.is = "element" /\ debug /\ NegatesIn(n)
          /\ n.is = "element" /\ NodeValid(c, n) => Matches(ParserIn(p, n), ContextIn(c, n))
          /\ n.is = "element" /\ r.ok /\ p # "none" =>
                /\ ListItem(p, n) => ItemRead(r.value, n)
                /\ p = "device_list" => n.tag = "device" /\ r.value = n.attr["addr"].value
                /\ p = "tag_list" => n.tag \in Areas
      BY <2>1, <3>2, <3>3 DEF Taking, Fails
    <3> QED BY <3>4 DEF r
  <2> QED BY <2>2, <2>3
<1> QED BY <1>1, <1>2, <1>3

LEMMA GreatestExists ==
  ASSUME NEW n \in Nat, NEW S, S \subseteq 0 .. n, S # {}
  PROVE  Max(S) \in S /\ \A y \in S : y <= Max(S)
<1> DEFINE R == {n - x : x \in S}
<1>0. \A y \in S : y \in Int /\ 0 <= y /\ y <= n
  <2> SUFFICES ASSUME NEW y \in S PROVE y \in 0 .. n
    OBVIOUS
  <2> QED OBVIOUS
<1>1. R \subseteq Nat /\ R # {}
  <2>1. \A y \in S : n - y \in Nat
    BY <1>0
  <2> QED BY <2>1
<1>2. PICK m \in R : \A y \in R : m <= y
  BY <1>1, LeastExists
<1>3. PICK x \in S : m = n - x
  BY <1>2
<1>4. \A y \in S : x >= y
  <2> SUFFICES ASSUME NEW y \in S PROVE x >= y
    OBVIOUS
  <2>1. n - y \in R
    OBVIOUS
  <2>2. n - x <= n - y /\ x \in 0 .. n /\ y \in 0 .. n
    BY <1>2, <1>3, <2>1
  <2> QED BY <2>2
<1>5. Max(S) \in S /\ \A y \in S : Max(S) >= y
  BY <1>4 DEF Max
<1> QED BY <1>0, <1>5

ContextAround(doc, i) == Contexts(doc)[doc[i].in]
ParserAround(doc, i) == Parsers(doc)[doc[i].in]
TakenAt(doc, i) == NodeTaken(ParserAround(doc, i), doc[i])
ValidAt(doc, i) == NodeValid(ContextAround(doc, i), doc[i])
MatchAt(doc, i) == Matches(Parsers(doc)[i], Contexts(doc)[i])

LEMMA NodesMatch ==
  ASSUME NEW doc, IsDocument(doc),
         \A i \in 1 .. Len(doc) : TakenAt(doc, i).ok \/ ValidAt(doc, i)
  PROVE  /\ \A i \in 0 .. Len(doc) : i = 0 \/ doc[i].is = "element" => MatchAt(doc, i)
         /\ \A i \in 1 .. Len(doc) : Matches(ParserAround(doc, i), ContextAround(doc, i))
<1> DEFINE D == {i \in 0 .. Len(doc) : i = 0 \/ doc[i].is = "element"}
           P == {i \in D : MatchAt(doc, i)}
<1>1. D \in SUBSET Nat /\ 0 \in D
  BY DocumentFacts
<1>2. \A i \in 1 .. Len(doc) : doc[i].in \in D /\ doc[i].in < i
  BY DocumentFacts
<1>3. ASSUME NEW i \in D, \A j \in D : j < i => j \in P
      PROVE  i \in P
  <2>1. CASE i = 0
    <3>1. Parsers(doc)[0] = "device_list" /\ Contexts(doc)[0] = "root"
      BY ParsersEquation, ContextsEquation
    <3> QED BY <2>1, <3>1, <1>1 DEF MatchAt, Matches
  <2>2. CASE i # 0
    <3>1. i \in 1 .. Len(doc) /\ doc[i].is = "element" /\ IsNode(doc[i])
      BY <2>2, DocumentFacts
    <3>2. Matches(ParserAround(doc, i), ContextAround(doc, i))
      BY <1>2, <1>3, <3>1 DEF MatchAt, ParserAround, ContextAround
    <3>3. NodeValid(ContextAround(doc, i), doc[i])
      BY <3>1, <3>2, NodeLemma DEF TakenAt, ValidAt
    <3>4. Matches(ParserIn(ParserAround(doc, i), doc[i]), ContextIn(ContextAround(doc, i), doc[i]))
      BY <3>1, <3>2, <3>3, NodeLemma
    <3>5. /\ Parsers(doc)[i] = ParserIn(ParserAround(doc, i), doc[i])
          /\ Contexts(doc)[i] = ContextIn(ContextAround(doc, i), doc[i])
      BY <3>1, ParsersEquation, ContextsEquation DEF ParserAround, ContextAround
    <3> QED BY <3>4, <3>5 DEF MatchAt
  <2> QED BY <2>1, <2>2
<1> HIDE DEF P, D
<1>4. D \subseteq P
  BY <1>1, <1>3, StrongInduction
<1>5. \A i \in D : MatchAt(doc, i)
  BY <1>4 DEF P
<1>6. \A i \in 1 .. Len(doc) : Matches(ParserAround(doc, i), ContextAround(doc, i))
  BY <1>2, <1>5 DEF MatchAt, ParserAround, ContextAround
<1> QED BY <1>5, <1>6 DEF D

LEMMA ValidEverywhere ==
  ASSUME NEW doc, IsDocument(doc)
  PROVE  Valid(doc) <=> \A i \in 1 .. Len(doc) : ValidAt(doc, i)
BY DocumentFacts DEF Valid, ValidAt, NodeValid, ContextAround

LEMMA DocumentResult ==
  ASSUME NEW doc, IsDocument(doc)
  PROVE  LET r == ParseDeviceList(doc)
         IN  /\ r.ok <=> \A i \in 1 .. Len(doc) : TakenAt(doc, i).ok
             /\ r.ok => r.value = DeviceList(doc, Values(NodesTaken(doc)))
             /\ ~r.ok => \E i \in 1 .. Len(doc) : ~TakenAt(doc, i).ok /\ r = TakenAt(doc, i)
             /\ \A i \in 1 .. Len(doc) : Values(NodesTaken(doc))[i] = TakenAt(doc, i).value
<1> DEFINE R == NodesTaken(doc)
           g == Good(DeviceList(doc, Values(R)))
<1>1. ParseDeviceList(doc) = FirstOr(R, g)
  BY DEF ParseDeviceList, With, FirstOr, Bads, Values
<1>2. R = [i \in DOMAIN doc |-> TakenAt(doc, i)]
  BY DEF NodesTaken, TakenAt, ParserAround
<1>3. DOMAIN doc = 1 .. Len(doc) /\ Len(doc) \in Nat
  BY DocumentFacts
<1> HIDE DEF R
<1>4. DOMAIN R = 1 .. Len(doc) /\ \A i \in 1 .. Len(doc) : R[i] = TakenAt(doc, i)
  BY <1>2, <1>3
<1>5. g.ok /\ g.value = DeviceList(doc, Values(R))
  BY DEF Good
<1>6. \A i \in 1 .. Len(doc) : Values(R)[i] = TakenAt(doc, i).value
  BY <1>4 DEF Values
<1> HIDE DEF g
<1>7. DOMAIN R \subseteq Nat
  BY <1>3, <1>4
<1>8. LET w == FirstOr(R, g)
      IN  /\ w.ok <=> \A i \in DOMAIN R : R[i].ok
          /\ w.ok => w = g
          /\ ~w.ok => \E i \in DOMAIN R : ~R[i].ok /\ w = R[i]
  BY <1>5, <1>7, FirstOrLemma
<1>9. /\ LET r == FirstOr(R, g)
         IN  /\ r.ok <=> \A i \in 1 .. Len(doc) : TakenAt(doc, i).ok
             /\ r.ok => r.value = DeviceList(doc, Values(R))
             /\ ~r.ok => \E i \in 1 .. Len(doc) : ~TakenAt(doc, i).ok /\ r = TakenAt(doc, i)
      /\ \A i \in 1 .. Len(doc) : Values(R)[i] = TakenAt(doc, i).value
  BY <1>4, <1>5, <1>6, <1>8
<1> QED BY <1>1, <1>9 DEF R

(***************************************************************************)
(* A document that keeps to the grammar is refused only by a panic.        *)
(***************************************************************************)
LEMMA TakenIfValid ==
  ASSUME NEW doc, IsDocument(doc), Valid(doc), ~ParseDeviceList(doc).ok
  PROVE  ParseDeviceList(doc).error = "panic"
<1>1. \A i \in 1 .. Len(doc) : ValidAt(doc, i)
  BY ValidEverywhere
<1>2. PICK i \in 1 .. Len(doc) : ~TakenAt(doc, i).ok /\ ParseDeviceList(doc) = TakenAt(doc, i)
  BY DocumentResult
<1>3. Matches(ParserAround(doc, i), ContextAround(doc, i)) /\ IsNode(doc[i])
  BY <1>1, NodesMatch, DocumentFacts
<1>4. TakenAt(doc, i).error = "panic"
  BY <1>1, <1>2, <1>3, NodeLemma DEF TakenAt, ValidAt
<1> QED BY <1>2, <1>4

NodePanics(n) == n.is = "element" /\ debug /\ NegatesIn(n)

(***************************************************************************)
(* What a parser panics at, whatever it is given before.                   *)
(***************************************************************************)
LEMMA PanicAtNode ==
  ASSUME NEW n, IsNode(n), NEW p \in ParserNames,
         ~NodeTaken(p, n).ok, NodeTaken(p, n).error = "panic"
  PROVE  NodePanics(n)
<1>1. \E c : Matches(p, c)
  <2>1. \/ Matches(p, "root") \/ Matches(p, "device") \/ Matches(p, p) \/ Matches(p, "any")
    BY DEF ParserNames, Matches
  <2> QED BY <2>1
<1> QED BY <1>1, NodeLemma DEF NodePanics

LEMMA PanicIfNegates ==
  ASSUME NEW doc, IsDocument(doc), ~ParseDeviceList(doc).ok, ParseDeviceList(doc).error = "panic"
  PROVE  \E i \in 1 .. Len(doc) : NodePanics(doc[i])
<1>1. PICK i \in 1 .. Len(doc) : ~TakenAt(doc, i).ok /\ ParseDeviceList(doc) = TakenAt(doc, i)
  BY DocumentResult
<1>2. IsNode(doc[i]) /\ doc[i].in \in 0 .. Len(doc)
  BY DocumentFacts
<1>3. ParserAround(doc, i) \in ParserNames
  BY <1>2, ParsersEquation DEF ParserAround
<1> QED BY <1>1, <1>2, <1>3, PanicAtNode DEF TakenAt

-----------------------------------------------------------------------------
(***************************************************************************)
(* What a document says, for any document.                                 *)
(***************************************************************************)
UnitsIn(doc) == {doc[i].attr["addr"].value : i \in ElementsIn(doc, 0)}
DevicesAt(doc, u) == {i \in ElementsIn(doc, 0) : doc[i].attr["addr"].value = u}
DeviceIn(doc, u) == Max(DevicesAt(doc, u))
SectionsIn(doc, u, a) == {i \in ElementsIn(doc, DeviceIn(doc, u)) : doc[i].tag = a}
SectionIn(doc, u, a) == Max(SectionsIn(doc, u, a))
ItemsIn(doc, u, a) ==
    {i \in DOMAIN doc :
        /\ SectionsIn(doc, u, a) # {} /\ SectionIn(doc, u, a) \in Around(doc)[i]
        /\ doc[i].is = "element" /\ doc[i].tag # "enum" /\ ContextAround(doc, i) # "any"}
ListRead(doc, u, a, items) ==
    /\ DOMAIN items = ItemsIn(doc, u, a)
    /\ \A i \in DOMAIN items :
          /\ i \in 1 .. Len(doc) /\ ItemRead(items[i], doc[i])
          /\ doc[i].tag = "field" => doc[i].in \in DOMAIN items /\ doc[doc[i].in].tag \in Registers
Read(doc, devs) ==
    /\ Valid(doc)
    /\ DOMAIN devs = UnitsIn(doc) /\ UnitsIn(doc) \subseteq Numbers8
    /\ \A u \in UnitsIn(doc) : DOMAIN devs[u] = Areas
    /\ \A u \in UnitsIn(doc), a \in Areas : ListRead(doc, u, a, devs[u][a])

Inside == {"registers", "bits", "register", "field", "none"}

LEMMA InsideStays ==
  ASSUME NEW p \in Inside, NEW c, Matches(p, c), NEW n,
         c # "any" => n.tag \in DOMAIN InContext[c]
  PROVE  /\ ParserIn(p, n) \in Inside
         /\ ListItem(p, n) <=> n.tag # "enum" /\ c # "any"
         /\ n.tag = "field" /\ c # "any" => p = "register"
<1>1. CASE p = "none"
  BY <1>1 DEF ParserIn, Inside, Matches, ListItem
<1>2. CASE p # "none"
  <2>1. c = p /\ n.tag \in DOMAIN InContext[p] /\ c # "any"
    BY <1>2 DEF Matches, Inside
  <2>2. \/ p = "registers" /\ n.tag \in {"register", "register-range", "group"}
        \/ p = "bits" /\ n.tag \in {"bit", "group"}
        \/ p = "register" /\ n.tag \in {"field", "enum"}
        \/ p = "field" /\ n.tag \in {"enum"}
    BY <1>2, <2>1, InContextCases DEF Inside, Registers
  <2>3. ParserIn(p, n) \in Inside
    BY <1>2, <2>2 DEF ParserIn, Inside, RegisterAreas, BitAreas, Registers
  <2> QED BY <2>1, <2>2, <2>3 DEF ListItem
<1> QED BY <1>1, <1>2

LEMMA RegisterAbove ==
  ASSUME NEW p, NEW c, Matches(p, c), NEW n, c # "any" => n.tag \in DOMAIN InContext[c],
         ParserIn(p, n) = "register"
  PROVE  n.tag \in Registers /\ c # "any"
<1>1. p # "none" /\ c # "any"
  BY DEF ParserIn, Matches
<1>2. p = "register" => n.tag \in {"field", "enum"}
  BY <1>1, InContextCases DEF Matches
<1>3. p # "register" => n.tag \in Registers
  <2>1. CASE n.tag = "device"
    BY <1>1, <2>1 DEF ParserIn, RegisterAreas, BitAreas, Registers
  <2>2. CASE n.tag \in RegisterAreas
    BY <1>1, <2>2 DEF ParserIn, RegisterAreas, BitAreas, Registers
  <2>3. CASE n.tag \in BitAreas
    BY <1>1, <2>3 DEF ParserIn, RegisterAreas, BitAreas, Registers
  <2>4. CASE n.tag \notin {"device"} \cup RegisterAreas \cup BitAreas
    BY <1>1, <2>4 DEF ParserIn, RegisterAreas, BitAreas, Registers
  <2> QED BY <2>1, <2>2, <2>3, <2>4
<1>4. p = "register" => n.tag \in Registers
  BY <1>1, <1>2 DEF ParserIn, RegisterAreas, BitAreas, Registers
<1> QED BY <1>1, <1>3, <1>4

LEMMA BelowSection ==
  ASSUME NEW doc, IsDocument(doc), \A i \in 1 .. Len(doc) : ValidAt(doc, i),
         NEW s \in 1 .. Len(doc), Parsers(doc)[s] \in {"registers", "bits"}
  PROVE  \A i \in 1 .. Len(doc) : s \in Around(doc)[i] => ParserAround(doc, i) \in Inside
<1> DEFINE D == {i \in 0 .. Len(doc) : i = 0 \/ doc[i].is = "element"}
           P == {i \in D : i = s \/ s \in Around(doc)[i] => Parsers(doc)[i] \in Inside}
<1>1. D \in SUBSET Nat /\ s # 0
  BY DocumentFacts
<1>2. \A i \in 1 .. Len(doc) : /\ doc[i].in \in D /\ doc[i].in < i
                               /\ Around(doc)[i] = {doc[i].in} \cup Around(doc)[doc[i].in]
                               /\ Parsers(doc)[i] = ParserIn(ParserAround(doc, i), doc[i])
                               /\ Matches(ParserAround(doc, i), ContextAround(doc, i))
  BY DocumentFacts, AroundEquation, ParsersEquation, NodesMatch DEF ParserAround
<1>3. Around(doc)[0] = {}
  BY AroundEquation
<1>4. ASSUME NEW i \in D, \A j \in D : j < i => j \in P
      PROVE  i \in P
  <2>1. CASE i = s
    BY <2>1 DEF Inside
  <2>2. CASE i # s /\ s \notin Around(doc)[i]
    BY <2>2
  <2>3. CASE i # s /\ s \in Around(doc)[i]
    <3>1. i \in 1 .. Len(doc) /\ doc[i].is = "element"
      BY <1>3, <2>3, DocumentFacts
    <3>2. ParserAround(doc, i) \in Inside
      BY <1>2, <1>4, <2>3, <3>1 DEF ParserAround
    <3>3. ContextAround(doc, i) # "any" => doc[i].tag \in DOMAIN InContext[ContextAround(doc, i)]
      BY <3>1 DEF ValidAt, NodeValid
    <3>4. Parsers(doc)[i] \in Inside
      BY <1>2, <3>1, <3>2, <3>3, InsideStays
    <3> QED BY <3>4
  <2> QED BY <2>1, <2>2, <2>3
<1> HIDE DEF P, D
<1>5. D \subseteq P
  BY <1>1, <1>4, StrongInduction
<1>6. \A i \in D : i = s \/ s \in Around(doc)[i] => Parsers(doc)[i] \in Inside
  BY <1>5 DEF P
<1> QED BY <1>2, <1>6 DEF ParserAround

(***************************************************************************)
(* A section that counts, and the device it is in.                         *)
(***************************************************************************)
LEMMA SectionFacts ==
  ASSUME NEW doc, IsDocument(doc), \A i \in 1 .. Len(doc) : ValidAt(doc, i) /\ TakenAt(doc, i).ok,
         NEW u \in UnitsIn(doc), NEW a \in Areas
  PROVE  /\ u \in Numbers8
         /\ SectionsIn(doc, u, a) # {} =>
               /\ SectionIn(doc, u, a) \in 1 .. Len(doc)
               /\ Parsers(doc)[SectionIn(doc, u, a)] \in {"registers", "bits"}
<1> DEFINE d == DeviceIn(doc, u)
           s == SectionIn(doc, u, a)
<1>0. /\ Len(doc) \in Nat /\ DOMAIN doc = 1 .. Len(doc)
      /\ \A i \in 1 .. Len(doc) : Matches(ParserAround(doc, i), ContextAround(doc, i)) /\ IsNode(doc[i])
  BY NodesMatch, DocumentFacts
<1>1. d \in DevicesAt(doc, u)
  <2>1. DevicesAt(doc, u) \subseteq 0 .. Len(doc)
    BY <1>0 DEF DevicesAt, ElementsIn
  <2>2. DevicesAt(doc, u) # {}
    BY DEF UnitsIn, DevicesAt
  <2> QED BY <1>0, <2>1, <2>2, GreatestExists DEF DeviceIn
<1>2. d \in 1 .. Len(doc) /\ doc[d].is = "element" /\ doc[d].in = 0 /\ doc[d].attr["addr"].value = u
  BY <1>0, <1>1 DEF DevicesAt, ElementsIn
<1> HIDE DEF d
<1>3. ParserAround(doc, d) = "device_list"
  BY <1>2, ParsersEquation DEF ParserAround
<1>4. doc[d].tag = "device"
  BY <1>0, <1>2, <1>3, NodeLemma DEF TakenAt
<1>5. u \in Numbers8
  <2>1. ContextAround(doc, d) # "any"
    BY <1>0, <1>2, <1>3 DEF Matches
  <2>2. WellWritten(doc[d])
    BY <1>2, <2>1 DEF ValidAt, NodeValid
  <2> QED BY <1>2, <1>4, <2>2, WrittenByTag DEF IsNumber
<1>6. ASSUME SectionsIn(doc, u, a) # {}
      PROVE  s \in 1 .. Len(doc) /\ Parsers(doc)[s] \in {"registers", "bits"}
  <2>1. s \in SectionsIn(doc, u, a)
    <3>1. SectionsIn(doc, u, a) \subseteq 0 .. Len(doc)
      BY <1>0 DEF SectionsIn, ElementsIn
    <3> QED BY <1>0, <1>6, <3>1, GreatestExists DEF SectionIn
  <2>2. s \in 1 .. Len(doc) /\ doc[s].is = "element" /\ doc[s].in = d /\ doc[s].tag = a
    BY <1>0, <2>1 DEF SectionsIn, ElementsIn, d
  <2> HIDE DEF s
  <2>3. Parsers(doc)[d] = "tag_list"
    <3>1. Parsers(doc)[d] = ParserIn("device_list", doc[d])
      BY <1>2, <1>3, ParsersEquation DEF ParserAround
    <3> QED BY <1>4, <3>1 DEF ParserIn, RegisterAreas, BitAreas, Registers
  <2>4. Parsers(doc)[s] = ParserIn("tag_list", doc[s])
    BY <2>2, <2>3, ParsersEquation
  <2>5. Parsers(doc)[s] \in {"registers", "bits"}
    BY <2>2, <2>4 DEF ParserIn, RegisterAreas, BitAreas, Registers, Areas
  <2> QED BY <2>2, <2>5
<1> QED BY <1>5, <1>6

LEMMA ListOfReads ==
  ASSUME NEW doc, IsDocument(doc), \A i \in 1 .. Len(doc) : ValidAt(doc, i) /\ TakenAt(doc, i).ok,
         NEW u \in UnitsIn(doc), NEW a \in Areas, SectionsIn(doc, u, a) # {},
         NEW r, \A i \in 1 .. Len(doc) : r[i] = TakenAt(doc, i).value
  PROVE  ListRead(doc, u, a, ListOf(doc, r, SectionIn(doc, u, a)))
<1> DEFINE s == SectionIn(doc, u, a)
           items == ListOf(doc, r, s)
<1>0. /\ Len(doc) \in Nat /\ DOMAIN doc = 1 .. Len(doc)
      /\ \A i \in 1 .. Len(doc) : Matches(ParserAround(doc, i), ContextAround(doc, i)) /\ IsNode(doc[i])
  BY NodesMatch, DocumentFacts
<1>1. s \in 1 .. Len(doc) /\ Parsers(doc)[s] \in {"registers", "bits"}
  BY SectionFacts
<1> HIDE DEF s
<1>2. \A i \in 1 .. Len(doc) : s \in Around(doc)[i] => ParserAround(doc, i) \in Inside
  BY <1>1, BelowSection
<1>3. ASSUME NEW i \in 1 .. Len(doc), s \in Around(doc)[i], doc[i].is = "element"
      PROVE  /\ ParserAround(doc, i) \in Inside
             /\ ContextAround(doc, i) # "any" => doc[i].tag \in DOMAIN InContext[ContextAround(doc, i)]
             /\ ListItem(ParserAround(doc, i), doc[i])
                   <=> doc[i].tag # "enum" /\ ContextAround(doc, i) # "any"
             /\ doc[i].tag = "field" /\ ContextAround(doc, i) # "any" => ParserAround(doc, i) = "register"
  <2>1. ContextAround(doc, i) # "any" => doc[i].tag \in DOMAIN InContext[ContextAround(doc, i)]
    BY <1>3 DEF ValidAt, NodeValid
  <2>2. ParserAround(doc, i) \in Inside /\ Matches(ParserAround(doc, i), ContextAround(doc, i))
    BY <1>0, <1>2, <1>3
  <2> QED BY <2>1, <2>2, InsideStays
<1>4. /\ DOMAIN items = {i \in 1 .. Len(doc) : /\ doc[i].is = "element" /\ s \in Around(doc)[i]
                                               /\ ListItem(ParserAround(doc, i), doc[i])}
      /\ \A i \in DOMAIN items : items[i] = r[i]
  BY <1>0 DEF ListOf, ListItem, ParserAround
<1> HIDE DEF items
<1>5. DOMAIN items = ItemsIn(doc, u, a)
  <2>1. ASSUME NEW i PROVE i \in DOMAIN items <=> i \in ItemsIn(doc, u, a)
    BY <1>0, <1>3, <1>4 DEF ItemsIn, s
  <2> QED BY <2>1
<1>6. ASSUME NEW i \in DOMAIN items
      PROVE  /\ i \in 1 .. Len(doc) /\ ItemRead(items[i], doc[i])
             /\ doc[i].tag = "field" => doc[i].in \in DOMAIN items /\ doc[doc[i].in].tag \in Registers
  <2>1. /\ i \in 1 .. Len(doc) /\ doc[i].is = "element" /\ s \in Around(doc)[i]
        /\ ListItem(ParserAround(doc, i), doc[i])
    BY <1>4
  <2>2. ParserAround(doc, i) # "none"
    BY <2>1 DEF ListItem
  <2>3. items[i] = TakenAt(doc, i).value
    BY <1>4, <2>1
  <2>4. ItemRead(items[i], doc[i])
    BY <1>0, <2>1, <2>2, <2>3, NodeLemma DEF TakenAt
  <2>5. ASSUME doc[i].tag = "field"
        PROVE  doc[i].in \in DOMAIN items /\ doc[doc[i].in].tag \in Registers
    <3> DEFINE j == doc[i].in
    <3>1. ParserAround(doc, i) = "register"
      BY <1>3, <2>1, <2>5
    <3>2. Parsers(doc)[j] = "register"
      BY <3>1 DEF ParserAround
    <3>3. j # 0
      BY <3>2, ParsersEquation
    <3>4. j \in 1 .. Len(doc) /\ doc[j].is = "element"
      BY <2>1, <3>3, DocumentFacts
    <3>5. s # j /\ Around(doc)[i] = {j} \cup Around(doc)[j]
      BY <1>1, <2>1, <3>2, AroundEquation
    <3> HIDE DEF j
    <3>6. s \in Around(doc)[j]
      BY <2>1, <3>5
    <3>7. ParserIn(ParserAround(doc, j), doc[j]) = "register"
      BY <3>2, <3>4, ParsersEquation DEF ParserAround
    <3>8. doc[j].tag \in Registers /\ ContextAround(doc, j) # "any"
      BY <1>0, <1>3, <3>4, <3>6, <3>7, RegisterAbove
    <3>9. ListItem(ParserAround(doc, j), doc[j])
      BY <1>3, <3>4, <3>6, <3>8 DEF Registers
    <3> QED BY <1>4, <3>4, <3>6, <3>8, <3>9 DEF j
  <2> QED BY <2>1, <2>4, <2>5
<1>7. ListRead(doc, u, a, items)
  BY <1>5, <1>6 DEF ListRead
<1> QED BY <1>7 DEF items, s

LEMMA ReadIfTaken ==
  ASSUME NEW doc, IsDocument(doc), ParseDeviceList(doc).ok
  PROVE  Read(doc, ParseDeviceList(doc).value)
<1> DEFINE r == Values(NodesTaken(doc))
           devs == ParseDeviceList(doc).value
<1>1. /\ \A i \in 1 .. Len(doc) : TakenAt(doc, i).ok
      /\ devs = DeviceList(doc, r)
      /\ \A i \in 1 .. Len(doc) : r[i] = TakenAt(doc, i).value
  BY DocumentResult
<1>2. /\ Len(doc) \in Nat /\ DOMAIN doc = 1 .. Len(doc)
      /\ \A i \in 1 .. Len(doc) : Matches(ParserAround(doc, i), ContextAround(doc, i)) /\ IsNode(doc[i])
  BY <1>1, NodesMatch, DocumentFacts
<1>3. \A i \in 1 .. Len(doc) : ValidAt(doc, i) /\ TakenAt(doc, i).ok
  BY <1>1, <1>2, NodeLemma DEF TakenAt, ValidAt
<1> HIDE DEF r, devs
<1>4. ASSUME NEW i \in ElementsIn(doc, 0)
      PROVE  r[i] = doc[i].attr["addr"].value
  <2>1. i \in 1 .. Len(doc) /\ doc[i].is = "element" /\ doc[i].in = 0
    BY <1>2 DEF ElementsIn
  <2>2. ParserAround(doc, i) = "device_list"
    BY <2>1, ParsersEquation DEF ParserAround
  <2>3. Matches("device_list", ContextAround(doc, i)) /\ IsNode(doc[i])
    BY <1>2, <2>1, <2>2
  <2>4. NodeTaken("device_list", doc[i]).ok /\ r[i] = NodeTaken("device_list", doc[i]).value
    BY <1>1, <2>1, <2>2 DEF TakenAt
  <2>5. NodeTaken("device_list", doc[i]).value = doc[i].attr["addr"].value
    BY <2>1, <2>3, <2>4, NodeLemma
  <2> QED BY <2>4, <2>5
<1>5. UnitsIn(doc) = {r[i] : i \in ElementsIn(doc, 0)}
  BY <1>4 DEF UnitsIn
<1>6. \A u : DevicesAt(doc, u) = {i \in ElementsIn(doc, 0) : r[i] = u}
  BY <1>4 DEF DevicesAt
<1>7. devs = [u \in UnitsIn(doc) |-> TagList(doc, r, DeviceIn(doc, u))]
  <2>1. \A u : DeviceIn(doc, u) = Max({i \in ElementsIn(doc, 0) : r[i] = u})
    BY <1>6 DEF DeviceIn
  <2> QED BY <1>1, <1>5, <2>1 DEF DeviceList
<1>8. \A u \in UnitsIn(doc), a \in Areas :
         devs[u][a] = IF SectionsIn(doc, u, a) = {} THEN << >>
                      ELSE ListOf(doc, r, SectionIn(doc, u, a))
  BY <1>7 DEF TagList, SectionsIn, SectionIn
<1>9. DOMAIN devs = UnitsIn(doc) /\ \A u \in UnitsIn(doc) : DOMAIN devs[u] = Areas
  BY <1>7 DEF TagList
<1>10. ASSUME NEW u \in UnitsIn(doc), NEW a \in Areas
       PROVE  ListRead(doc, u, a, devs[u][a])
  <2>1. CASE SectionsIn(doc, u, a) = {}
    <3>1. devs[u][a] = << >> /\ DOMAIN << >> = {} /\ ItemsIn(doc, u, a) = {}
      BY <1>8, <2>1 DEF ItemsIn
    <3> QED BY <3>1 DEF ListRead
  <2>2. CASE SectionsIn(doc, u, a) # {}
    <3>1. devs[u][a] = ListOf(doc, r, SectionIn(doc, u, a))
      BY <1>8, <2>2
    <3> QED BY <1>1, <1>3, <2>2, <3>1, ListOfReads
  <2> QED BY <2>1, <2>2
<1>11. UnitsIn(doc) \subseteq Numbers8
  <2> SUFFICES ASSUME NEW u \in UnitsIn(doc) PROVE u \in Numbers8
    OBVIOUS
  <2>1. "coils" \in Areas
    BY DEF Areas, BitAreas
  <2> QED BY <1>3, <2>1, SectionFacts
<1>12. Valid(doc)
  BY <1>3, ValidEverywhere
<1>13. Read(doc, devs)
  BY <1>9, <1>10, <1>11, <1>12 DEF Read
<1> QED BY <1>13 DEF devs

-----------------------------------------------------------------------------
(***************************************************************************)
(* A list of items as it is read.                                          *)
(***************************************************************************)
TagShape(t) == RegisterShape(t) \/ BitShape(t)
ItemShape(x) == TagShape(x) \/ GroupShape(x) \/ FieldShape(x)
Numbered(items) == \E n \in Nat : DOMAIN items \subseteq 1 .. n
ListShape(items) ==
    /\ Numbered(items)
    /\ \A i \in DOMAIN items : /\ items[i].in \in Nat /\ items[i].in < i
                               /\ ItemShape(items[i])
                               /\ FieldShape(items[i]) => items[i].in \in TagsAmong(items)

LEMMA ShapeKinds ==
  ASSUME NEW x
  PROVE  /\ TagShape(x) => IsTag(x) /\ ~IsGroup(x) /\ ~FieldShape(x)
         /\ GroupShape(x) => IsGroup(x) /\ ~IsTag(x) /\ ~FieldShape(x)
         /\ FieldShape(x) => ~IsGroup(x) /\ ~IsTag(x)
         /\ BitShape(x) => "bit" \in DOMAIN x
         /\ RegisterShape(x) => "bit" \notin DOMAIN x
<1>1. RegisterShape(x) => IsTag(x) /\ ~IsGroup(x) /\ ~FieldShape(x) /\ "bit" \notin DOMAIN x
  BY DEF RegisterShape, IsTag, IsGroup, FieldShape
<1>2. BitShape(x) => IsTag(x) /\ ~IsGroup(x) /\ ~FieldShape(x) /\ "bit" \in DOMAIN x
  BY DEF BitShape, IsTag, IsGroup, FieldShape
<1>3. GroupShape(x) => IsGroup(x) /\ ~IsTag(x) /\ ~FieldShape(x)
  BY DEF GroupShape, IsTag, IsGroup, FieldShape
<1>4. FieldShape(x) => ~IsGroup(x) /\ ~IsTag(x)
  BY DEF IsTag, IsGroup, FieldShape
<1> QED BY <1>1, <1>2, <1>3, <1>4 DEF TagShape

LEMMA ListReadShape ==
  ASSUME NEW doc, IsDocument(doc), NEW u, NEW a, NEW items, ListRead(doc, u, a, items)
  PROVE  ListShape(items)
<1>1. \A i \in DOMAIN items :
         /\ i \in 1 .. Len(doc) /\ ItemRead(items[i], doc[i])
         /\ doc[i].tag = "field" => doc[i].in \in DOMAIN items /\ doc[doc[i].in].tag \in Registers
  BY DEF ListRead
<1>2. Numbered(items)
  BY <1>1, DocumentFacts DEF Numbered
<1>3. ASSUME NEW i \in DOMAIN items
      PROVE  /\ items[i].in \in Nat /\ items[i].in < i
             /\ ItemShape(items[i])
             /\ FieldShape(items[i]) => items[i].in \in TagsAmong(items)
  <2>1. i \in 1 .. Len(doc) /\ ItemRead(items[i], doc[i])
    BY <1>1
  <2>2. items[i].in = doc[i].in /\ doc[i].in \in Nat /\ doc[i].in < i
    <3>1. items[i].in = doc[i].in
      BY <2>1 DEF ItemRead
    <3>2. doc[i].in \in 0 .. Len(doc) /\ doc[i].in < i
      BY <2>1, DocumentFacts
    <3> QED BY <3>1, <3>2
  <2>3. ItemShape(items[i])
    BY <2>1 DEF ItemRead, ItemShape, TagShape
  <2>4. ASSUME FieldShape(items[i]) PROVE items[i].in \in TagsAmong(items)
    <3>1. doc[i].tag = "field"
      BY <2>1, <2>4, ShapeKinds DEF ItemRead, TagShape
    <3> DEFINE j == doc[i].in
    <3>2. j \in DOMAIN items /\ doc[j].tag \in Registers
      BY <1>1, <3>1
    <3> HIDE DEF j
    <3>3. RegisterShape(items[j])
      BY <1>1, <3>2 DEF ItemRead
    <3>4. j \in TagsAmong(items)
      BY <3>2, <3>3, ShapeKinds DEF TagShape, TagsAmong
    <3> QED BY <2>2, <3>4 DEF j
  <2> QED BY <2>2, <2>3, <2>4
<1> QED BY <1>2, <1>3 DEF ListShape

LEMMA ShapeFacts ==
  ASSUME NEW items, ListShape(items)
  PROVE  /\ DOMAIN items \subseteq Nat \ {0}
         /\ \A i \in DOMAIN items : /\ items[i].in \in Nat /\ items[i].in < i
                                    /\ ItemShape(items[i])
         /\ Groups(items) \subseteq DOMAIN items /\ TagsAmong(items) \subseteq DOMAIN items
         /\ \A i \in Groups(items) : GroupShape(items[i]) /\ i \notin TagsAmong(items)
         /\ \A i \in TagsAmong(items) : TagShape(items[i]) /\ i \notin Groups(items)
         /\ \A i \in DOMAIN items \ (Groups(items) \cup TagsAmong(items)) :
               FieldShape(items[i]) /\ items[i].in \in TagsAmong(items)
<1>1. \A i \in DOMAIN items : /\ items[i].in \in Nat /\ items[i].in < i
                              /\ ItemShape(items[i])
                              /\ FieldShape(items[i]) => items[i].in \in TagsAmong(items)
  BY DEF ListShape
<1>2. DOMAIN items \subseteq Nat \ {0}
  <2>1. PICK n \in Nat : DOMAIN items \subseteq 1 .. n
    BY DEF ListShape, Numbered
  <2> QED BY <2>1
<1>3. Groups(items) \subseteq DOMAIN items /\ TagsAmong(items) \subseteq DOMAIN items
  BY DEF Groups, TagsAmong
<1>4. \A i \in Groups(items) : GroupShape(items[i]) /\ i \notin TagsAmong(items)
  BY <1>1, ShapeKinds DEF Groups, TagsAmong, ItemShape
<1>5. \A i \in TagsAmong(items) : TagShape(items[i]) /\ i \notin Groups(items)
  BY <1>1, ShapeKinds DEF Groups, TagsAmong, ItemShape
<1>6. \A i \in DOMAIN items \ (Groups(items) \cup TagsAmong(items)) :
         FieldShape(items[i]) /\ items[i].in \in TagsAmong(items)
  BY <1>1, ShapeKinds DEF Groups, TagsAmong, ItemShape
<1> QED BY <1>1, <1>2, <1>3, <1>4, <1>5, <1>6

(***************************************************************************)
(* A function over a list, from its value at the group an item is in.      *)
(***************************************************************************)
FromGroup(f, items, V, step) ==
    \A i \in DOMAIN items :
        IF items[i].in \notin Groups(items) THEN f[i] = 0
        ELSE f[items[i].in] \in V => f[i] = step[i][f[items[i].in]]

LEMMA GroupsFollow ==
  ASSUME NEW items, ListShape(items), NEW V, 0 \in V, NEW step \in [DOMAIN items -> [V -> V]]
  PROVE  /\ \E f \in [DOMAIN items -> V] : FromGroup(f, items, V, step)
         /\ \A f : FromGroup(f, items, V, step) => \A i \in DOMAIN items : f[i] \in V
<1> DEFINE D == DOMAIN items
           up == [i \in D |-> IF items[i].in \in Groups(items) THEN items[i].in ELSE -1]
           firsts == [i \in D |-> 0]
<1>1. /\ D \subseteq Nat /\ \A i \in D : items[i].in < i
      /\ Groups(items) \subseteq D
  BY ShapeFacts
<1>2. /\ \A i \in D : up[i] \in D <=> items[i].in \in Groups(items)
      /\ \A i \in D : items[i].in \in Groups(items) => up[i] = items[i].in
  <2>1. -1 \notin D
    BY <1>1
  <2> QED BY <1>1, <2>1
<1>3. Recursion(D, V, up, firsts, step)
  BY <1>1, <1>2 DEF Recursion
<1>4. \A i \in D : firsts[i] = 0
  OBVIOUS
<1> HIDE DEF up, firsts, D
<1>5. ASSUME NEW f
      PROVE  Obeys(f, D, V, up, firsts, step) <=> FromGroup(f, items, V, step)
  BY <1>2, <1>4 DEF Obeys, FromGroup, D
<1>6. \E f \in [D -> V] : FromGroup(f, items, V, step)
  BY <1>3, <1>5, RecursionExists
<1>7. \A f : FromGroup(f, items, V, step) => \A i \in D : f[i] \in V
  BY <1>3, <1>5, RecursionType
<1> QED BY <1>6, <1>7 DEF D

BasesTo(f, items) ==
    f = [i \in DOMAIN items |->
            IF items[i].in \notin Groups(items) THEN 0
            ELSE Wrap(InnerBase(f[items[i].in], items[items[i].in]))]

LEMMA BasesEquation ==
  ASSUME NEW items, ListShape(items)
  PROVE  \A i \in DOMAIN items :
            /\ Bases(items)[i] \in 0 .. Size - 1
            /\ Bases(items)[i] = IF items[i].in \notin Groups(items) THEN 0
                                 ELSE Wrap(Bases(items)[items[i].in] + items[items[i].in].base)
<1> DEFINE D == DOMAIN items
           V == 0 .. Size - 1
           Inner(i, v) == Wrap(InnerBase(v, items[items[i].in]))
           step == [i \in D |-> [v \in V |->
                      IF items[i].in \notin Groups(items) THEN v ELSE Inner(i, v)]]
           c == CHOOSE f : BasesTo(f, items)
<1>0. /\ 0 \in V
      /\ \A i \in Groups(items) : items[i].base \in V
      /\ Groups(items) \subseteq D
  BY SizeFacts, ShapeFacts DEF GroupShape
<1>1. ASSUME NEW i \in D, items[i].in \in Groups(items), NEW v \in V
      PROVE  Inner(i, v) \in V
  <2>1. v \in Nat /\ items[items[i].in].base \in Nat
    BY <1>0, <1>1
  <2>2. v + items[items[i].in].base \in Nat
    BY <2>1
  <2> QED BY <2>2, WrapFacts DEF InnerBase
<1> HIDE DEF Inner
<1>2. step \in [D -> [V -> V]]
  BY <1>1
<1>3. \A i \in D, v \in V : items[i].in \in Groups(items) => step[i][v] = Inner(i, v)
  OBVIOUS
<1> HIDE DEF step, V, D
<1>4. PICK f \in [D -> V] : FromGroup(f, items, V, step)
  BY <1>0, <1>2, GroupsFollow DEF D
<1>5. BasesTo(f, items)
  <2> DEFINE Body(i) == IF items[i].in \notin Groups(items) THEN 0 ELSE Inner(i, f[items[i].in])
  <2>1. ASSUME NEW i \in D PROVE f[i] = Body(i)
    <3>1. items[i].in \in Groups(items) => f[items[i].in] \in V
      BY <1>0
    <3> QED BY <1>3, <1>4, <3>1 DEF FromGroup, D
  <2>2. f = [i \in D |-> Body(i)]
    <3> HIDE DEF Body
    <3> QED BY <2>1
  <2> QED BY <2>2, Zenon DEF BasesTo, D, Inner
<1>6. BasesTo(c, items)
  BY <1>5, Zenon
<1>7. Bases(items) = c
  BY Zenon DEF Bases, BasesTo
<1> HIDE DEF c
<1>8. \A i \in D : c[i] = IF items[i].in \notin Groups(items) THEN 0 ELSE Inner(i, c[items[i].in])
  <2>1. c = [i \in D |-> IF items[i].in \notin Groups(items) THEN 0 ELSE Inner(i, c[items[i].in])]
    BY <1>6, Zenon DEF BasesTo, D, Inner
  <2> QED BY <2>1
<1>9. FromGroup(c, items, V, step)
  BY <1>3, <1>8 DEF FromGroup, D
<1>10. \A i \in D : c[i] \in V
  BY <1>0, <1>2, <1>9, GroupsFollow DEF D
<1> QED BY <1>7, <1>8, <1>10 DEF Inner, InnerBase, V, D

ExactTo(f, items) ==
    f = [i \in DOMAIN items |->
            IF items[i].in \notin Groups(items) THEN 0
            ELSE f[items[i].in] + items[items[i].in].base]

LEMMA ExactEquation ==
  ASSUME NEW items, ListShape(items)
  PROVE  \A i \in DOMAIN items :
            /\ Exact(items)[i] \in Nat
            /\ Exact(items)[i] = IF items[i].in \notin Groups(items) THEN 0
                                 ELSE Exact(items)[items[i].in] + items[items[i].in].base
<1> DEFINE D == DOMAIN items
           V == Nat
           Inner(i, v) == v + items[items[i].in].base
           step == [i \in D |-> [v \in V |->
                      IF items[i].in \notin Groups(items) THEN v ELSE Inner(i, v)]]
           c == CHOOSE f : ExactTo(f, items)
<1>0. /\ 0 \in V
      /\ \A i \in Groups(items) : items[i].base \in Nat
      /\ Groups(items) \subseteq D
  BY SizeFacts, ShapeFacts DEF GroupShape
<1>1. ASSUME NEW i \in D, items[i].in \in Groups(items), NEW v \in V
      PROVE  Inner(i, v) \in V
  BY <1>0, <1>1
<1> HIDE DEF Inner
<1>2. step \in [D -> [V -> V]]
  BY <1>1
<1>3. \A i \in D, v \in V : items[i].in \in Groups(items) => step[i][v] = Inner(i, v)
  OBVIOUS
<1> HIDE DEF step, V, D
<1>4. PICK f \in [D -> V] : FromGroup(f, items, V, step)
  BY <1>0, <1>2, GroupsFollow DEF D
<1>5. ExactTo(f, items)
  <2> DEFINE Body(i) == IF items[i].in \notin Groups(items) THEN 0 ELSE Inner(i, f[items[i].in])
  <2>1. ASSUME NEW i \in D PROVE f[i] = Body(i)
    <3>1. items[i].in \in Groups(items) => f[items[i].in] \in V
      BY <1>0
    <3> QED BY <1>3, <1>4, <3>1 DEF FromGroup, D
  <2>2. f = [i \in D |-> Body(i)]
    <3> HIDE DEF Body
    <3> QED BY <2>1
  <2> QED BY <2>2, Zenon DEF ExactTo, D, Inner
<1>6. ExactTo(c, items)
  BY <1>5, Zenon
<1>7. Exact(items) = c
  BY Zenon DEF Exact, ExactTo
<1> HIDE DEF c
<1>8. \A i \in D : c[i] = IF items[i].in \notin Groups(items) THEN 0 ELSE Inner(i, c[items[i].in])
  <2>1. c = [i \in D |-> IF items[i].in \notin Groups(items) THEN 0 ELSE Inner(i, c[items[i].in])]
    BY <1>6, Zenon DEF ExactTo, D, Inner
  <2> QED BY <2>1
<1>9. FromGroup(c, items, V, step)
  BY <1>3, <1>8 DEF FromGroup, D
<1>10. \A i \in D : c[i] \in V
  BY <1>0, <1>2, <1>9, GroupsFollow DEF D
<1> QED BY <1>7, <1>8, <1>10 DEF Inner, V, D

(***************************************************************************)
(* A walk in u16 and the exact addresses.                                  *)
(***************************************************************************)
LEMMA BasesAreExact ==
  ASSUME NEW items, ListShape(items)
  PROVE  \A i \in DOMAIN items : /\ Bases(items)[i] = Wrap(Exact(items)[i])
                                 /\ Bases(items)[i] <= Exact(items)[i]
<1> DEFINE D == DOMAIN items
           P == {i \in D : Bases(items)[i] = Wrap(Exact(items)[i])}
<1>1. D \in SUBSET Nat /\ Groups(items) \subseteq D /\ \A i \in D : items[i].in < i
  BY ShapeFacts
<1>2. ASSUME NEW i \in D, \A j \in D : j < i => j \in P
      PROVE  i \in P
  <2>1. CASE items[i].in \notin Groups(items)
    <3>1. Bases(items)[i] = 0 /\ Exact(items)[i] = 0
      BY <2>1, BasesEquation, ExactEquation
    <3>2. Wrap(0) = 0
      BY SizeFacts, WrapFacts
    <3> QED BY <3>1, <3>2
  <2>2. CASE items[i].in \in Groups(items)
    <3> DEFINE j == items[i].in
    <3>1. j \in D /\ j < i /\ Bases(items)[j] = Wrap(Exact(items)[j])
      BY <1>1, <1>2, <2>2
    <3>2. Exact(items)[j] \in Nat /\ items[j].base \in Nat
      <4>1. GroupShape(items[j])
        BY <2>2, ShapeFacts
      <4> QED BY <3>1, <4>1, ExactEquation, SizeFacts DEF GroupShape
    <3>3. /\ Bases(items)[i] = Wrap(Bases(items)[j] + items[j].base)
          /\ Exact(items)[i] = Exact(items)[j] + items[j].base
      BY <2>2, BasesEquation, ExactEquation
    <3> HIDE DEF j
    <3>4. Wrap(Wrap(Exact(items)[j]) + items[j].base) = Wrap(Exact(items)[j] + items[j].base)
      BY <3>2, WrapOnce
    <3> QED BY <3>1, <3>3, <3>4
  <2> QED BY <2>1, <2>2
<1> HIDE DEF P, D
<1>3. D \subseteq P
  BY <1>1, <1>2, StrongInduction
<1>4. \A i \in D : Bases(items)[i] = Wrap(Exact(items)[i])
  BY <1>3 DEF P
<1>5. \A x \in Nat : Wrap(x) <= x
  <2> SUFFICES ASSUME NEW x \in Nat PROVE Wrap(x) <= x
    OBVIOUS
  <2>1. x < Size => Wrap(x) = x
    BY WrapFacts
  <2>2. Wrap(x) \in 0 .. Size - 1
    BY WrapFacts
  <2> QED BY <2>1, <2>2, SizeFacts
<1>6. \A i \in D : Exact(items)[i] \in Nat
  BY ExactEquation DEF D
<1> QED BY <1>4, <1>5, <1>6 DEF D

(***************************************************************************)
(* A tag at its absolute address, and where the program takes it to be.    *)
(***************************************************************************)
LEMMA AbsoluteFacts ==
  ASSUME NEW items, ListShape(items)
  PROVE  /\ DOMAIN Absolute(items) = TagsAmong(items)
         /\ \A i \in TagsAmong(items) :
               LET t == items[i]
                   abs == Absolute(items)[i]
                   base == Bases(items)[i]
               IN  /\ DOMAIN abs = DOMAIN t
                   /\ \A key \in DOMAIN t \ {"low", "high"} : abs[key] = t[key]
                   /\ t.low \in Nat /\ t.high \in Nat /\ base \in Nat
                   /\ abs.low \in Nat /\ abs.high \in Nat
                   /\ WordCount(abs) = WordCount(t) /\ WordCount(t) \in Int
                   /\ (abs.low > abs.high <=> t.low > t.high)
                   /\ t.low + base <= abs.low /\ t.high + base <= abs.high
                   /\ Wrap(t.low + base) = Wrap(abs.low)
                   /\ Wrap(t.high + base) = Wrap(abs.high)
<1>1. /\ TagsAmong(items) \subseteq DOMAIN items
      /\ \A i \in TagsAmong(items) : TagShape(items[i])
  BY ShapeFacts
<1>2. DOMAIN Absolute(items) = TagsAmong(items)
  BY DEF Absolute
<1>3. ASSUME NEW i \in TagsAmong(items)
      PROVE  LET t == items[i]
                 abs == Absolute(items)[i]
                 base == Bases(items)[i]
             IN  /\ DOMAIN abs = DOMAIN t
                 /\ \A key \in DOMAIN t \ {"low", "high"} : abs[key] = t[key]
                 /\ t.low \in Nat /\ t.high \in Nat /\ base \in Nat
                 /\ abs.low \in Nat /\ abs.high \in Nat
                 /\ WordCount(abs) = WordCount(t) /\ WordCount(t) \in Int
                 /\ (abs.low > abs.high <=> t.low > t.high)
                 /\ t.low + base <= abs.low /\ t.high + base <= abs.high
                 /\ Wrap(t.low + base) = Wrap(abs.low)
                 /\ Wrap(t.high + base) = Wrap(abs.high)
  <2> DEFINE t == items[i]
             abs == Absolute(items)[i]
             base == Bases(items)[i]
             x == Exact(items)[i]
  <2>1. /\ t.low \in Nat /\ t.high \in Nat
        /\ "low" \in DOMAIN t /\ "high" \in DOMAIN t
    BY <1>1, SizeFacts DEF TagShape, RegisterShape, BitShape
  <2>2. abs = [t EXCEPT !.low = @ + x, !.high = @ + x]
    BY DEF Absolute
  <2>3. x \in Nat /\ base \in Nat /\ base = Wrap(x) /\ base <= x
    <3>1. i \in DOMAIN items
      BY <1>1
    <3>2. base \in 0 .. Size - 1
      BY <3>1, BasesEquation
    <3> QED BY <3>1, <3>2, SizeFacts, ExactEquation, BasesAreExact
  <2> HIDE DEF t, abs, x, base
  <2>4. /\ DOMAIN abs = DOMAIN t
        /\ \A key \in DOMAIN t \ {"low", "high"} : abs[key] = t[key]
        /\ abs.low = t.low + x /\ abs.high = t.high + x
    BY <2>1, <2>2
  <2>5. WordCount(abs) = WordCount(t) /\ WordCount(t) \in Int
    BY <2>1, <2>3, <2>4 DEF WordCount
  <2>6. Wrap(t.low + base) = Wrap(abs.low) /\ Wrap(t.high + base) = Wrap(abs.high)
    <3>1. \A y \in Nat : Wrap(y + base) = Wrap(y + x)
      <4> SUFFICES ASSUME NEW y \in Nat PROVE Wrap(y + base) = Wrap(y + x)
        OBVIOUS
      <4>1. Wrap(Wrap(x) + y) = Wrap(x + y)
        BY <2>3, WrapOnce
      <4>2. y + base = Wrap(x) + y /\ y + x = x + y
        BY <2>3
      <4> QED BY <4>1, <4>2
    <3> QED BY <2>1, <2>4, <3>1
  <2>7. /\ DOMAIN abs = DOMAIN t
        /\ \A key \in DOMAIN t \ {"low", "high"} : abs[key] = t[key]
        /\ t.low \in Nat /\ t.high \in Nat /\ base \in Nat
        /\ abs.low \in Nat /\ abs.high \in Nat
        /\ WordCount(abs) = WordCount(t) /\ WordCount(t) \in Int
        /\ (abs.low > abs.high <=> t.low > t.high)
        /\ t.low + base <= abs.low /\ t.high + base <= abs.high
        /\ Wrap(t.low + base) = Wrap(abs.low)
        /\ Wrap(t.high + base) = Wrap(abs.high)
    BY <2>1, <2>3, <2>4, <2>5, <2>6
  <2> QED BY <2>7 DEF t, abs, base
<1> QED BY <1>2, <1>3

-----------------------------------------------------------------------------
(***************************************************************************)
(* The words an initial value is stored as.                                *)
(***************************************************************************)
StoredWords(t) == IF "bit" \in DOMAIN t THEN <<t.bit>> ELSE InitialWords(t).words

LEMMA WrapInt ==
  ASSUME NEW x \in Int
  PROVE  Wrap(x) \in 0 .. Size - 1 /\ Wrap(x) \in Nat
BY SizeFacts DEF Wrap

LEMMA CountFacts ==
  ASSUME NEW t, TagShape(t)
  PROVE  /\ WordCount(t) \in Int /\ Count(t) \in Nat /\ Count(t) < Size
         /\ BitShape(t) => Count(t) = 1
<1>1. t.low \in Int /\ t.high \in Int
  BY SizeFacts DEF TagShape, RegisterShape, BitShape
<1>2. WordCount(t) \in Int
  BY <1>1 DEF WordCount
<1>3. Count(t) \in 0 .. Size - 1
  BY <1>2, WrapInt DEF Count
<1>4. BitShape(t) => WordCount(t) = 1
  BY <1>1 DEF BitShape, WordCount
<1>5. Wrap(1) = 1
  BY StartAssumption, WrapFacts
<1> QED BY <1>2, <1>3, <1>4, <1>5, SizeFacts DEF Count

LEMMA FloatPatternType ==
  ASSUME NEW t, t.kind = "number" => t.value \in Int, NEW count \in Nat
  PROVE  FloatPattern(t, count) \in Nat /\ FloatPattern(t, count) < Power(Word, count)
<1> DEFINE v == IF t.kind = "number" THEN t.value ELSE -1
           p == Power(Word, count)
<1>1. v \in Int
  OBVIOUS
<1>2. p \in Nat \ {0}
  BY WordFacts, PowerLemma
<1>3. FloatPattern(t, count) = v % p
  BY DEF FloatPattern
<1> HIDE DEF v, p
<1>4. v % p \in 0 .. p - 1
  BY <1>1, <1>2
<1>5. v % p \in Nat /\ v % p < p
  BY <1>2, <1>4
<1> QED BY <1>3, <1>5 DEF p

LEMMA RegisterWords ==
  ASSUME NEW t, RegisterShape(t), t.initial
  PROVE  /\ InitialWords(t).ok <=> Acceptable(t)
         /\ InitialWords(t).ok => /\ WordsFor(InitialWords(t).words, Count(t))
                                  /\ Stands(t, InitialWords(t).words)
<1> DEFINE e == t.encoding
           count == Count(t)
<1>1. /\ e \in EncodingType /\ "bit" \notin DOMAIN t /\ IsText(t.value)
      /\ t.scale.kind = "number" => t.scale.value \in Int
  BY DEF RegisterShape
<1>2. count \in Nat
  BY CountFacts DEF TagShape
<1>3. /\ t.value.kind \in {"number", "word"} /\ (t.value.kind = "number" => t.value.value \in Int)
      /\ t.value.bytes \in Seq(ByteType)
  BY <1>1 DEF IsText, ByteType
<1>4. e.type \in {"integer", "float", "string"}
  BY <1>1 DEF EncodingType
<1>5. CASE e.type = "string"
  <2> DEFINE r == Parse(t.value.bytes, count, e)
  <2>1. InitialWords(t) = r
    BY <1>5 DEF InitialWords
  <2>2. Acceptable(t)
    BY <1>5 DEF Acceptable
  <2>3. /\ r.ok /\ WordsFor(r.words, count)
        /\ Meaning(r.words, e) = UpToFill(Filled(t.value.bytes, count, e.fill), e.fill)
    BY <1>1, <1>2, <1>3, <1>5, StringParsed
  <2> HIDE DEF r
  <2>4. Stands(t, r.words)
    BY <1>1, <1>5, <2>3 DEF Stands
  <2> QED BY <2>1, <2>2, <2>3, <2>4
<1>6. CASE e.type = "float"
  <2> DEFINE r == Parse(FloatPattern(t.value, count), count, e)
             known == t.value.kind = "number" \/ Is(t.value, "NaN")
  <2>1. InitialWords(t) = IF known THEN r ELSE Rejected
    BY <1>6 DEF InitialWords
  <2>2. Acceptable(t) <=> known /\ count \in {2, 4}
    BY <1>6 DEF Acceptable
  <2>3. FloatPattern(t.value, count) \in Nat /\ FloatPattern(t.value, count) < Power(Word, count)
    BY <1>2, <1>3, FloatPatternType
  <2>4. /\ r.ok <=> count \in {2, 4}
        /\ r.ok => WordsFor(r.words, count) /\ Meaning(r.words, e) = FloatPattern(t.value, count)
    BY <1>1, <1>2, <1>6, <2>3, FloatParsed
  <2> HIDE DEF r, known
  <2>5. r.ok => Stands(t, r.words)
    BY <1>1, <1>6, <2>4 DEF Stands
  <2>6. ~Rejected.ok
    BY DEF Rejected
  <2> QED BY <2>1, <2>2, <2>4, <2>5, <2>6
<1>7. CASE e.type = "integer"
  <2> DEFINE v == t.value.value * t.scale.value
             r == Parse(v, count, e)
             known == t.value.kind = "number" /\ t.scale.kind = "number"
             fits == /\ v < 0 => e.signed
                     /\ 0 < Wrap(2 * count) /\ Magnitude(v) < Power(Byte, Wrap(2 * count))
  <2>1. InitialWords(t) = IF known THEN r ELSE Rejected
    BY <1>7 DEF InitialWords
  <2>2. Acceptable(t) <=> known /\ fits
    BY <1>7 DEF Acceptable, Value
  <2>3. ASSUME known
        PROVE  /\ r.ok <=> fits
               /\ r.ok => /\ WordsFor(r.words, count)
                          /\ Representable(v, count, e) => Meaning(r.words, e) = v
    <3>1. v \in Int
      BY <1>1, <1>3, <2>3
    <3> HIDE DEF v
    <3> QED BY <1>1, <1>2, <1>7, <3>1, IntegerParsed
  <2>4. Value(t) = v
    BY DEF Value
  <2> HIDE DEF r, known, v, fits
  <2>5. known /\ r.ok => Stands(t, r.words)
    BY <1>1, <1>7, <2>3, <2>4 DEF Stands
  <2>6. ~Rejected.ok
    BY DEF Rejected
  <2> QED BY <2>1, <2>2, <2>3, <2>5, <2>6
<1> QED BY <1>4, <1>5, <1>6, <1>7

(***************************************************************************)
(* A tag and the same tag elsewhere.                                       *)
(***************************************************************************)
SameBut(abs, t) ==      \* alike, but for the addresses
    /\ DOMAIN abs = DOMAIN t /\ \A key \in DOMAIN t \ {"low", "high"} : abs[key] = t[key]
    /\ WordCount(abs) = WordCount(t)

LEMMA AlikeTags ==
  ASSUME NEW t, TagShape(t), NEW abs, SameBut(abs, t)
  PROVE  /\ Count(abs) = Count(t) /\ abs.initial = t.initial
         /\ ("bit" \in DOMAIN abs <=> "bit" \in DOMAIN t)
         /\ ("scale" \in DOMAIN abs <=> "scale" \in DOMAIN t)
         /\ "scale" \in DOMAIN t => abs.scale = t.scale
         /\ Sets(abs) <=> Sets(t)
         /\ \A words : Stands(abs, words) <=> Stands(t, words)
<1>1. /\ DOMAIN abs = DOMAIN t /\ Count(abs) = Count(t)
      /\ \A key \in DOMAIN t \ {"low", "high"} : abs[key] = t[key]
  BY DEF SameBut, Count
<1>2. CASE RegisterShape(t)
  <2>1. /\ abs.value = t.value /\ abs.scale = t.scale /\ abs.encoding = t.encoding
        /\ abs.initial = t.initial /\ "bit" \notin DOMAIN t
    BY <1>1, <1>2 DEF RegisterShape
  <2>2. Acceptable(abs) <=> Acceptable(t)
    BY <1>1, <2>1 DEF Acceptable, Value
  <2>3. \A words : Stands(abs, words) <=> Stands(t, words)
    BY <1>1, <2>1 DEF Stands, Value
  <2> QED BY <1>1, <2>1, <2>2, <2>3 DEF Sets
<1>3. CASE BitShape(t)
  <2>1. abs.bit = t.bit /\ abs.initial = t.initial /\ "bit" \in DOMAIN t /\ "scale" \notin DOMAIN t
    BY <1>1, <1>3 DEF BitShape
  <2> QED BY <1>1, <2>1 DEF Sets, Stands
<1> QED BY <1>2, <1>3 DEF TagShape

LEMMA SettingWords ==
  ASSUME NEW t, TagShape(t), Sets(t)
  PROVE  WordsFor(StoredWords(t), Count(t)) /\ Stands(t, StoredWords(t))
<1>1. CASE RegisterShape(t)
  <2>1. "bit" \notin DOMAIN t
    BY <1>1, ShapeKinds
  <2>2. t.initial /\ Acceptable(t)
    BY <2>1 DEF Sets
  <2> QED BY <1>1, <2>1, <2>2, RegisterWords DEF StoredWords
<1>2. CASE BitShape(t)
  <2>1. "bit" \in DOMAIN t /\ t.bit \in {0, 1} /\ Count(t) = 1
    BY <1>2, ShapeKinds, CountFacts DEF BitShape, TagShape
  <2>2. 0 \in WordType /\ 1 \in WordType
    <3>1. Word >= 2
      <4>1. Byte \in Nat /\ Byte >= 2
        BY WidthAssumption
      <4>2. Byte * Byte >= Byte
        BY <4>1, ProductLemma
      <4> QED BY <4>1, <4>2 DEF Word
    <3> QED BY <3>1, WordFacts DEF WordType
  <2>3. <<t.bit>> \in Seq(WordType) /\ Len(<<t.bit>>) = 1
    BY <2>1, <2>2
  <2> QED BY <2>1, <2>3 DEF WordsFor, Stands, StoredWords
<1> QED BY <1>1, <1>2 DEF TagShape

Arrays == [0 .. Size - 1 -> WordType]
TagTrouble(t) == \/ ~FitsIn(t, Size - 1) \/ t.low > t.high
                 \/ RunsOver(t) \/ 2 * WordCount(t) >= Size
Trouble(items, error) ==
    \/ error = "aborted" /\ \E i \in TagsAmong(items) : RunsOver(Absolute(items)[i])
    \/ /\ error = "panicked" /\ debug
       /\ GroupBeyond(items) \/ \E i \in TagsAmong(items) : TagTrouble(Absolute(items)[i])

(***************************************************************************)
(* One item: what it does to the array, or why it does not.                *)
(***************************************************************************)
Overwritten(array, abs, words) ==
    [x \in 0 .. Size - 1 |-> IF x \in At(abs) THEN words[x - Wrap(abs.low) + 1] ELSE array[x]]
VisitOf(items, i, array, r) ==
    /\ r.ok => r \in {Good(a) : a \in Arrays}
    /\ r.ok /\ ~(i \in TagsAmong(items) /\ Sets(Absolute(items)[i])) => r.value = array
    /\ r.ok /\ i \in TagsAmong(items) /\ Sets(Absolute(items)[i]) =>
          /\ Wrap(Absolute(items)[i].low) + Count(Absolute(items)[i]) <= Size
          /\ r.value = Overwritten(array, Absolute(items)[i], StoredWords(items[i]))
    /\ ~r.ok => r \in {Bad("panicked"), Bad("aborted")} /\ Trouble(items, r.error)

LEMMA TroubleAt ==
  ASSUME NEW items, NEW i \in TagsAmong(items)
  PROVE  /\ debug /\ TagTrouble(Absolute(items)[i]) => Trouble(items, "panicked")
         /\ RunsOver(Absolute(items)[i]) => Trouble(items, "aborted")
BY DEF Trouble

LEMMA StoredLemma ==
  ASSUME NEW array \in Arrays, NEW abs, NEW words, Wrap(abs.low) \in 0 .. Size - 1,
         WordsFor(words, Count(abs)), Count(abs) \in Nat
  PROVE  LET r == Stored(array, Wrap(abs.low), words)
         IN  /\ r.ok <=> Wrap(abs.low) + Count(abs) <= Size
             /\ r.ok => r = Good(Overwritten(array, abs, words)) /\ r.value \in Arrays
             /\ ~r.ok => r = Bad("aborted")
<1> DEFINE r == Stored(array, Wrap(abs.low), words)
           low == Wrap(abs.low)
           count == Count(abs)
<1>1. Len(words) = count /\ words \in Seq(WordType) /\ DOMAIN array = 0 .. Size - 1
  BY DEF WordsFor, Arrays
<1>2. At(abs) = low .. low + count - 1
  BY DEF At
<1>3. CASE low + count > Size
  <2>1. r = Bad("aborted")
    BY <1>1, <1>3 DEF Stored
  <2> QED BY <1>3, <2>1, SizeFacts DEF Bad
<1>4. CASE ~(low + count > Size)
  <2>1. r = Good([a \in 0 .. Size - 1 |-> IF a \in low .. low + count - 1
                                          THEN words[a - low + 1] ELSE array[a]])
    BY <1>1, <1>4 DEF Stored
  <2>2. r = Good(Overwritten(array, abs, words))
    BY <1>2, <2>1 DEF Overwritten
  <2>3. Overwritten(array, abs, words) \in Arrays
    <3>1. ASSUME NEW x \in At(abs) PROVE words[x - low + 1] \in WordType
      <4>1. x \in low .. low + count - 1 /\ low \in Int /\ count \in Nat
        BY <1>2, <3>1
      <4>2. x - low + 1 \in 1 .. count
        BY <4>1
      <4> QED BY <1>1, <4>2
    <3> HIDE DEF low
    <3>2. \A x \in 0 .. Size - 1 : array[x] \in WordType
      BY DEF Arrays
    <3> QED BY <3>1, <3>2 DEF Overwritten, Arrays, low
  <2>4. low + count <= Size
    BY <1>4, SizeFacts
  <2> QED BY <2>2, <2>3, <2>4 DEF Good
<1> QED BY <1>3, <1>4

LEMMA VisitRegister ==
  ASSUME NEW items, ListShape(items), NEW i \in TagsAmong(items), RegisterShape(items[i]),
         NEW array \in Arrays
  PROVE  VisitOf(items, i, array, ItemVisited(Good(array), items[i], Bases(items)[i]))
<1> DEFINE t == items[i]
           abs == Absolute(items)[i]
           base == Bases(items)[i]
           r == ItemVisited(Good(array), t, base)
<1>1. /\ IsTag(t) /\ ~IsGroup(t) /\ "bit" \notin DOMAIN t /\ TagShape(t)
  BY ShapeKinds DEF TagShape
<1>2. r = RegisterStored(array, t, base)
  BY <1>1 DEF ItemVisited, Good
<1>3. /\ SameBut(abs, t) /\ WordCount(t) \in Int
      /\ t.low \in Nat /\ base \in Nat /\ abs.low \in Nat /\ abs.high \in Nat
      /\ (abs.low > abs.high <=> t.low > t.high)
      /\ t.low + base <= abs.low
      /\ Wrap(t.low + base) = Wrap(abs.low)
  BY AbsoluteFacts DEF SameBut
<1>4. /\ Count(abs) = Count(t) /\ abs.initial = t.initial /\ (Sets(abs) <=> Sets(t))
  BY <1>1, <1>3, AlikeTags
<1>5. Wrap(abs.low) \in 0 .. Size - 1 /\ Count(t) \in Nat
  BY <1>1, <1>3, WrapFacts, CountFacts
<1>6. Sets(t) <=> t.initial /\ Acceptable(t)
  BY <1>1 DEF Sets
<1>7. t.initial => (InitialWords(t).ok <=> Acceptable(t))
  BY RegisterWords
<1>8. StoredWords(t) = InitialWords(t).words
  BY <1>1 DEF StoredWords
<1>9. t.low \in Int /\ t.high \in Int
  BY SizeFacts DEF RegisterShape
<1> HIDE DEF t, abs, base, r
<1>10. Good(array).ok /\ Good(array).value = array /\ Good(array) \in {Good(a) : a \in Arrays}
  BY DEF Good
<1>11. CASE ~t.initial \/ (~CountOverflows(t) /\ ~InitialWords(t).ok)
  <2>1. r = Good(array)
    BY <1>2, <1>11 DEF RegisterStored
  <2>2. ~Sets(abs)
    BY <1>4, <1>6, <1>7, <1>11
  <2> QED BY <1>10, <2>1, <2>2 DEF VisitOf, abs, t, r, base
<1>12. CASE t.initial /\ CountOverflows(t)
  <2>1. r = Bad("panicked")
    BY <1>2, <1>12 DEF RegisterStored
  <2>2. debug /\ (t.low > t.high \/ 2 * WordCount(t) >= Size)
    <3>1. WordCount(t) = Size => 2 * WordCount(t) >= Size
      BY SizeFacts
    <3>2. WordCount(t) < 1 => t.low > t.high
      BY <1>9 DEF WordCount
    <3> QED BY <1>12, <3>1, <3>2 DEF CountOverflows
  <2>3. TagTrouble(abs)
    BY <1>3, <2>2 DEF TagTrouble, SameBut
  <2>4. Trouble(items, "panicked")
    BY <2>2, <2>3, TroubleAt DEF abs
  <2> QED BY <2>1, <2>4 DEF VisitOf, abs, t, r, base, Bad
<1>13. CASE t.initial /\ ~CountOverflows(t) /\ InitialWords(t).ok
  <2>1. Sets(abs)
    BY <1>4, <1>6, <1>7, <1>13
  <2>2. WordsFor(StoredWords(t), Count(t))
    BY <1>1, <1>4, <2>1, SettingWords
  <2>3. CASE Overflows(t.low + base)
    <3>1. r = Bad("panicked")
      BY <1>2, <1>13, <2>3 DEF RegisterStored
    <3>2. debug /\ ~FitsIn(abs, Size - 1)
      BY <1>3, <2>3, SizeFacts DEF Overflows, FitsIn
    <3>3. Trouble(items, "panicked")
      BY <3>2, TroubleAt DEF abs, TagTrouble
    <3> QED BY <3>1, <3>3 DEF VisitOf, abs, t, r, base, Bad
  <2>4. CASE ~Overflows(t.low + base)
    <3> DEFINE s == Stored(array, Wrap(abs.low), StoredWords(t))
    <3>1. r = s
      BY <1>2, <1>3, <1>8, <1>13, <2>4 DEF RegisterStored
    <3>2. /\ s.ok <=> Wrap(abs.low) + Count(abs) <= Size
          /\ s.ok => s = Good(Overwritten(array, abs, StoredWords(t))) /\ s.value \in Arrays
          /\ ~s.ok => s = Bad("aborted")
      BY <1>4, <1>5, <2>2, StoredLemma
    <3> HIDE DEF s
    <3>3. ~s.ok => Trouble(items, "aborted")
      <4>1. ~s.ok => RunsOver(abs)
        BY <1>4, <1>5, <1>13, <3>2, SizeFacts DEF RunsOver
      <4> QED BY <4>1, TroubleAt DEF abs
    <3>4. s.ok => s.value = Overwritten(array, abs, StoredWords(t)) /\ s \in {Good(a) : a \in Arrays}
      BY <3>2 DEF Good
    <3>5. ~s.ok => s \in {Bad("panicked"), Bad("aborted")} /\ Trouble(items, s.error)
      BY <3>2, <3>3 DEF Bad
    <3> QED BY <2>1, <3>1, <3>2, <3>4, <3>5 DEF VisitOf, abs, t, r, base
  <2> QED BY <2>3, <2>4
<1> QED BY <1>11, <1>12, <1>13

LEMMA VisitBit ==
  ASSUME NEW items, ListShape(items), NEW i \in TagsAmong(items), BitShape(items[i]),
         NEW array \in Arrays
  PROVE  VisitOf(items, i, array, ItemVisited(Good(array), items[i], Bases(items)[i]))
<1> DEFINE t == items[i]
           abs == Absolute(items)[i]
           base == Bases(items)[i]
           r == ItemVisited(Good(array), t, base)
<1>1. /\ IsTag(t) /\ ~IsGroup(t) /\ "bit" \in DOMAIN t /\ TagShape(t)
  BY ShapeKinds DEF TagShape
<1>2. r = BitStored(array, t, base)
  BY <1>1 DEF ItemVisited, Good
<1>3. /\ SameBut(abs, t)
      /\ t.low \in Nat /\ base \in Nat /\ abs.low \in Nat /\ abs.high \in Nat
      /\ t.low + base <= abs.low
      /\ Wrap(t.low + base) = Wrap(abs.low)
  BY AbsoluteFacts DEF SameBut
<1>4. /\ Count(abs) = Count(t) /\ abs.initial = t.initial /\ (Sets(abs) <=> Sets(t))
  BY <1>1, <1>3, AlikeTags
<1>5. Wrap(abs.low) \in 0 .. Size - 1 /\ Count(t) \in Nat /\ Count(t) = 1
  BY <1>1, <1>3, WrapFacts, CountFacts
<1>6. Sets(t) /\ StoredWords(t) = <<t.bit>>
  BY <1>1 DEF Sets, StoredWords
<1>7. WordsFor(StoredWords(t), Count(t))
  BY <1>1, <1>6, SettingWords
<1> HIDE DEF t, abs, base, r
<1>8. CASE Overflows(t.low + base)
  <2>1. r = Bad("panicked")
    BY <1>2, <1>8 DEF BitStored
  <2>2. debug /\ ~FitsIn(abs, Size - 1)
    BY <1>3, <1>8, SizeFacts DEF Overflows, FitsIn
  <2>3. Trouble(items, "panicked")
    BY <2>2, TroubleAt DEF abs, TagTrouble
  <2> QED BY <2>1, <2>3 DEF VisitOf, abs, t, r, base, Bad
<1>9. CASE ~Overflows(t.low + base)
  <2> DEFINE s == Stored(array, Wrap(abs.low), StoredWords(t))
  <2>1. r = s
    BY <1>2, <1>3, <1>6, <1>9 DEF BitStored
  <2>2. /\ s.ok <=> Wrap(abs.low) + Count(abs) <= Size
        /\ s.ok => s = Good(Overwritten(array, abs, StoredWords(t))) /\ s.value \in Arrays
    BY <1>4, <1>5, <1>7, StoredLemma
  <2> HIDE DEF s
  <2>3. s.ok
    BY <1>4, <1>5, <2>2, SizeFacts
  <2>4. s.value = Overwritten(array, abs, StoredWords(t)) /\ s \in {Good(a) : a \in Arrays}
    BY <2>2, <2>3 DEF Good
  <2> QED BY <1>4, <1>6, <2>1, <2>2, <2>3, <2>4 DEF VisitOf, abs, t, r, base
<1> QED BY <1>8, <1>9

LEMMA VisitOther ==
  ASSUME NEW items, ListShape(items), NEW i \in DOMAIN items \ TagsAmong(items),
         NEW array \in Arrays
  PROVE  VisitOf(items, i, array, ItemVisited(Good(array), items[i], Bases(items)[i]))
<1> DEFINE g == items[i]
           base == Bases(items)[i]
           r == ItemVisited(Good(array), g, base)
<1>1. ~IsTag(g) /\ (IsGroup(g) <=> i \in Groups(items))
  BY DEF TagsAmong, Groups
<1>2. r = IF IsGroup(g) /\ Overflows(InnerBase(base, g)) THEN Bad("panicked") ELSE Good(array)
  BY <1>1 DEF ItemVisited, Good
<1>3. /\ Good(array).ok /\ Good(array).value = array /\ Good(array) \in {Good(a) : a \in Arrays}
      /\ ~Bad("panicked").ok /\ Bad("panicked").error = "panicked"
  BY DEF Good, Bad
<1>4. ASSUME IsGroup(g), Overflows(InnerBase(base, g))
      PROVE  Trouble(items, "panicked")
  <2>1. i \in Groups(items) /\ GroupShape(g)
    BY <1>1, <1>4, ShapeFacts
  <2>2. base \in Nat /\ Exact(items)[i] \in Nat /\ base <= Exact(items)[i] /\ g.base \in Nat
    <3>1. base \in 0 .. Size - 1
      BY BasesEquation
    <3> QED BY <2>1, <3>1, BasesAreExact, ExactEquation, SizeFacts DEF GroupShape
  <2>3. debug /\ base + g.base >= Size
    BY <1>4 DEF Overflows, InnerBase
  <2>4. Exact(items)[i] + g.base >= Size
    BY <2>2, <2>3, SizeFacts
  <2>5. GroupBeyond(items)
    BY <2>1, <2>4 DEF GroupBeyond
  <2> QED BY <2>3, <2>5 DEF Trouble
<1> HIDE DEF g, base, r
<1> QED BY <1>2, <1>3, <1>4 DEF VisitOf, r, g, base

LEMMA VisitAny ==
  ASSUME NEW items, ListShape(items), NEW i \in DOMAIN items, NEW array \in Arrays
  PROVE  VisitOf(items, i, array, ItemVisited(Good(array), items[i], Bases(items)[i]))
<1>1. i \in TagsAmong(items) => RegisterShape(items[i]) \/ BitShape(items[i])
  BY ShapeFacts DEF TagShape
<1> QED BY <1>1, VisitRegister, VisitBit, VisitOther

LEMMA LastItemFacts ==
  ASSUME NEW items, ListShape(items)
  PROVE  LastItem(items) \in Nat /\ \A i \in DOMAIN items : i <= LastItem(items) /\ i \in 1 .. LastItem(items)
<1>1. PICK m \in Nat : DOMAIN items \subseteq 1 .. m
  BY DEF ListShape, Numbered
<1> DEFINE S == {0} \cup DOMAIN items
<1>2. S \subseteq 0 .. m /\ S # {}
  BY <1>1
<1>3. Max(S) \in S /\ \A y \in S : y <= Max(S)
  BY <1>2, GreatestExists
<1>4. LastItem(items) = Max(S)
  BY DEF LastItem
<1>5. \A i \in DOMAIN items : i \in S /\ i \in Nat /\ i > 0
  BY <1>1
<1>7. \A y \in S : y \in Nat
  BY <1>1
<1> HIDE DEF S
<1>6. Max(S) \in Nat
  BY <1>3, <1>7
<1> QED BY <1>3, <1>4, <1>5, <1>6

Outcomes == {Good(a) : a \in Arrays} \cup {Bad("panicked"), Bad("aborted")}
Empty == Good([a \in 0 .. Size - 1 |-> 0])
After(v, items, i) == IF i \in DOMAIN items THEN ItemVisited(v, items[i], Bases(items)[i]) ELSE v

LEMMA OutcomeFacts ==
  /\ Empty \in Outcomes /\ Empty.ok /\ Empty.value = [a \in 0 .. Size - 1 |-> 0]
  /\ \A v \in Outcomes : v.ok => v.value \in Arrays /\ v = Good(v.value)
<1>1. [a \in 0 .. Size - 1 |-> 0] \in Arrays
  BY WordFacts DEF Arrays, WordType
<1>2. Empty \in Outcomes /\ Empty.ok /\ Empty.value = [a \in 0 .. Size - 1 |-> 0]
  <2> DEFINE z == [a \in 0 .. Size - 1 |-> 0]
  <2>1. Empty = Good(z) /\ z \in Arrays
    BY <1>1 DEF Empty
  <2> HIDE DEF z
  <2>2. Empty.ok /\ Empty.value = z
    BY <2>1 DEF Good
  <2>3. Empty \in Outcomes
    BY <2>1 DEF Outcomes
  <2> QED BY <2>2, <2>3 DEF z
<1>3. ASSUME NEW v \in Outcomes, v.ok PROVE v.value \in Arrays /\ v = Good(v.value)
  <2>1. v # Bad("panicked") /\ v # Bad("aborted")
    BY <1>3 DEF Bad
  <2>2. PICK a \in Arrays : v = Good(a)
    BY <2>1 DEF Outcomes
  <2>3. v.value = a
    BY <2>2 DEF Good
  <2> QED BY <2>2, <2>3
<1> QED BY <1>2, <1>3

LEMMA AfterType ==
  ASSUME NEW items, ListShape(items), NEW v \in Outcomes, NEW i
  PROVE  /\ After(v, items, i) \in Outcomes
         /\ ~v.ok => After(v, items, i) = v
         /\ i \in DOMAIN items /\ v.ok => VisitOf(items, i, v.value, After(v, items, i))
<1>1. CASE i \notin DOMAIN items
  BY <1>1 DEF After
<1>2. CASE i \in DOMAIN items /\ ~v.ok
  BY <1>2 DEF After, ItemVisited
<1>3. CASE i \in DOMAIN items /\ v.ok
  <2> DEFINE r == After(v, items, i)
  <2>1. v.value \in Arrays /\ v = Good(v.value)
    BY <1>3, OutcomeFacts
  <2>2. r = ItemVisited(Good(v.value), items[i], Bases(items)[i])
    BY <1>3, <2>1 DEF After
  <2>3. VisitOf(items, i, v.value, r)
    BY <1>3, <2>1, <2>2, VisitAny
  <2> HIDE DEF r
  <2>4. r \in Outcomes
    BY <2>3 DEF VisitOf, Outcomes
  <2> QED BY <1>3, <2>3, <2>4 DEF r
<1> QED BY <1>1, <1>2, <1>3

VisitsTo(f, items) ==
    f = [i \in 0 .. LastItem(items) |->
            IF i = 0 THEN Good([a \in 0 .. Size - 1 |-> 0])
            ELSE IF i \in DOMAIN items THEN ItemVisited(f[i - 1], items[i], Bases(items)[i])
            ELSE f[i - 1]]

LEMMA VisitsEquation ==
  ASSUME NEW items, ListShape(items)
  PROVE  /\ Visits(items)[0] = Empty
         /\ \A i \in 1 .. LastItem(items) : Visits(items)[i] = After(Visits(items)[i - 1], items, i)
         /\ \A i \in 0 .. LastItem(items) : Visits(items)[i] \in Outcomes
<1> DEFINE D == 0 .. LastItem(items)
           V == Outcomes
           up == [i \in D |-> i - 1]
           firsts == [i \in D |-> Empty]
           step == [i \in D |-> [v \in V |-> After(v, items, i)]]
           c == CHOOSE f : VisitsTo(f, items)
<1>0. LastItem(items) \in Nat
  BY LastItemFacts
<1>1. Recursion(D, V, up, firsts, step)
  <2>1. D \subseteq Nat /\ \A i \in D : up[i] < i
    BY <1>0
  <2>2. firsts \in [D -> V]
    BY OutcomeFacts
  <2>3. step \in [D -> [V -> V]]
    BY AfterType
  <2> HIDE DEF D, V, up, firsts, step
  <2> QED BY <2>1, <2>2, <2>3 DEF Recursion
<1>2. /\ 0 \in D /\ up[0] \notin D
      /\ \A i \in 1 .. LastItem(items) : i \in D /\ up[i] = i - 1 /\ up[i] \in D
      /\ \A i \in D : i = 0 \/ i \in 1 .. LastItem(items)
      /\ \A i \in D : firsts[i] = Empty /\ \A v \in V : step[i][v] = After(v, items, i)
  BY <1>0
<1> HIDE DEF D, V, up, firsts, step
<1>3. PICK f \in [D -> V] : Obeys(f, D, V, up, firsts, step)
  BY <1>1, RecursionExists
<1>4. VisitsTo(f, items)
  <2> DEFINE Body(i) == IF i = 0 THEN Empty ELSE After(f[i - 1], items, i)
  <2>1. ASSUME NEW i \in D PROVE f[i] = Body(i)
    <3>1. CASE i = 0
      BY <1>2, <1>3, <3>1 DEF Obeys
    <3>2. CASE i # 0
      <4>1. i \in 1 .. LastItem(items) /\ up[i] = i - 1 /\ i - 1 \in D
        BY <1>2, <3>2
      <4>2. f[i - 1] \in V
        BY <4>1
      <4> QED BY <1>2, <1>3, <3>2, <4>1, <4>2 DEF Obeys
    <3> QED BY <3>1, <3>2
  <2>2. f = [i \in D |-> Body(i)]
    <3> HIDE DEF Body
    <3> QED BY <2>1
  <2> QED BY <2>2, Zenon DEF VisitsTo, D, Empty, After
<1>5. VisitsTo(c, items)
  BY <1>4, Zenon
<1>6. Visits(items) = c
  BY Zenon DEF Visits, VisitsTo
<1> HIDE DEF c
<1>7. \A i \in D : c[i] = IF i = 0 THEN Empty ELSE After(c[i - 1], items, i)
  <2>1. c = [i \in D |-> IF i = 0 THEN Empty ELSE After(c[i - 1], items, i)]
    BY <1>5, Zenon DEF VisitsTo, D, Empty, After
  <2> QED BY <2>1
<1>8. c[0] = Empty /\ \A i \in 1 .. LastItem(items) : c[i] = After(c[i - 1], items, i)
  <2>1. c[0] = Empty
    BY <1>2, <1>7
  <2>2. ASSUME NEW i \in 1 .. LastItem(items) PROVE c[i] = After(c[i - 1], items, i)
    <3>1. i \in D /\ i # 0
      BY <1>2
    <3> QED BY <1>7, <3>1
  <2> QED BY <2>1, <2>2
<1>9. Obeys(c, D, V, up, firsts, step)
  <2> SUFFICES ASSUME NEW i \in D
               PROVE  IF up[i] \in D THEN c[up[i]] \in V => c[i] = step[i][c[up[i]]]
                      ELSE c[i] = firsts[i]
    BY DEF Obeys
  <2>1. CASE i = 0
    BY <1>2, <1>8, <2>1
  <2>2. CASE i \in 1 .. LastItem(items)
    BY <1>2, <1>8, <2>2
  <2> QED BY <1>2, <2>1, <2>2
<1>10. \A i \in D : c[i] \in V
  BY <1>1, <1>9, RecursionType
<1> QED BY <1>6, <1>8, <1>10 DEF V, D

-----------------------------------------------------------------------------
(***************************************************************************)
(* What an array holds after the first items.                              *)
(***************************************************************************)
Setters(items, k, x) ==
    {j \in TagsAmong(items) : j <= k /\ Sets(Absolute(items)[j]) /\ x \in At(Absolute(items)[j])}
HoldsUpTo(items, k, array) ==
    /\ \A x \in 0 .. Size - 1 : Setters(items, k, x) = {} => array[x] = 0
    /\ \A j \in TagsAmong(items) : j <= k /\ Sets(Absolute(items)[j]) =>
          /\ Wrap(Absolute(items)[j].low) + Count(Absolute(items)[j]) <= Size
          /\ \A x \in At(Absolute(items)[j]) :
                (\A m \in Setters(items, k, x) : m <= j) =>
                    array[x] = StoredWords(items[j])[x - Wrap(Absolute(items)[j].low) + 1]

LEMMA AtFacts ==
  ASSUME NEW items, ListShape(items), NEW j \in TagsAmong(items),
         Wrap(Absolute(items)[j].low) + Count(Absolute(items)[j]) <= Size
  PROVE  At(Absolute(items)[j]) \subseteq 0 .. Size - 1
<1> DEFINE abs == Absolute(items)[j]
<1>1. abs.low \in Nat /\ SameBut(abs, items[j])
  BY AbsoluteFacts DEF SameBut
<1>2. TagShape(items[j])
  BY ShapeFacts
<1>3. Count(abs) \in Nat
  BY <1>1, <1>2, AlikeTags, CountFacts
<1>4. Wrap(abs.low) \in Nat
  BY <1>1, WrapFacts
<1> HIDE DEF abs
<1>5. Wrap(abs.low) + Count(abs) <= Size
  BY DEF abs
<1>6. At(abs) = Wrap(abs.low) .. Wrap(abs.low) + Count(abs) - 1
  BY DEF At
<1> HIDE DEF Wrap
<1>7. At(abs) \subseteq 0 .. Size - 1
  BY <1>3, <1>4, <1>5, <1>6, SizeFacts
<1> QED BY <1>7 DEF abs

LEMMA HoldsAfterVisit ==
  ASSUME NEW items, ListShape(items), NEW k \in Nat, NEW array, HoldsUpTo(items, k, array),
         NEW r, r.ok, k + 1 \in DOMAIN items, VisitOf(items, k + 1, array, r)
  PROVE  HoldsUpTo(items, k + 1, r.value)
<1> DEFINE tags == TagsAmong(items)
           Abs(j) == Absolute(items)[j]
           i == k + 1
<1>0. tags \subseteq DOMAIN items /\ DOMAIN items \subseteq Nat
  BY ShapeFacts
<1>1. \A j \in tags : j <= i <=> j <= k \/ j = i
  BY <1>0
<1>2. CASE ~(i \in tags /\ Sets(Abs(i)))
  <2>1. r.value = array
    BY <1>2 DEF VisitOf
  <2>2. \A j \in tags : Sets(Abs(j)) => (j <= i <=> j <= k)
    BY <1>1, <1>2
  <2>3. \A x : Setters(items, i, x) = Setters(items, k, x)
    BY <2>2 DEF Setters
  <2> HIDE DEF i, Abs
  <2> QED BY <2>1, <2>2, <2>3 DEF HoldsUpTo, Abs, i
<1>3. CASE i \in tags /\ Sets(Abs(i))
  <2>1. /\ Wrap(Abs(i).low) + Count(Abs(i)) <= Size
        /\ r.value = Overwritten(array, Abs(i), StoredWords(items[i]))
    BY <1>3 DEF VisitOf
  <2>2. \A x \in 0 .. Size - 1 : r.value[x] = IF x \in At(Abs(i))
                                              THEN StoredWords(items[i])[x - Wrap(Abs(i).low) + 1]
                                              ELSE array[x]
    BY <2>1 DEF Overwritten
  <2>3. \A x : Setters(items, i, x) = Setters(items, k, x) \cup (IF x \in At(Abs(i)) THEN {i} ELSE {})
    BY <1>1, <1>3 DEF Setters
  <2>4. ASSUME NEW x \in 0 .. Size - 1, Setters(items, i, x) = {}
        PROVE  r.value[x] = 0
    <3>1. x \notin At(Abs(i)) /\ Setters(items, k, x) = {}
      BY <2>3, <2>4
    <3> QED BY <2>2, <3>1 DEF HoldsUpTo
  <2>5. ASSUME NEW j \in tags, j <= i, Sets(Abs(j))
        PROVE  /\ Wrap(Abs(j).low) + Count(Abs(j)) <= Size
               /\ \A x \in At(Abs(j)) :
                     (\A m \in Setters(items, i, x) : m <= j) =>
                         r.value[x] = StoredWords(items[j])[x - Wrap(Abs(j).low) + 1]
    <3>1. CASE j = i
      <4>1. At(Abs(i)) \subseteq 0 .. Size - 1
        BY <1>3, <2>1, AtFacts
      <4> HIDE DEF i, Abs
      <4> QED BY <2>1, <2>2, <3>1, <4>1
    <3>2. CASE j <= k
      <4>1. /\ Wrap(Abs(j).low) + Count(Abs(j)) <= Size
            /\ \A x \in At(Abs(j)) :
                  (\A m \in Setters(items, k, x) : m <= j) =>
                      array[x] = StoredWords(items[j])[x - Wrap(Abs(j).low) + 1]
        BY <2>5, <3>2 DEF HoldsUpTo
      <4>2. At(Abs(j)) \subseteq 0 .. Size - 1
        BY <4>1, AtFacts
      <4>3. ~(i <= j)
        BY <1>0, <3>2
      <4> HIDE DEF i, Abs
      <4>4. ASSUME NEW x \in At(Abs(j)), \A m \in Setters(items, i, x) : m <= j
            PROVE  r.value[x] = StoredWords(items[j])[x - Wrap(Abs(j).low) + 1]
        <5>1. x \notin At(Abs(i)) /\ \A m \in Setters(items, k, x) : m <= j
          BY <2>3, <4>3, <4>4
        <5> QED BY <2>2, <4>1, <4>2, <5>1
      <4> QED BY <4>1, <4>4
    <3> QED BY <1>1, <2>5, <3>1, <3>2
  <2> HIDE DEF i, Abs
  <2>6. HoldsUpTo(items, i, r.value)
    BY <2>4, <2>5 DEF HoldsUpTo, Abs
  <2> QED BY <2>6 DEF i
<1> QED BY <1>2, <1>3

LEMMA VisitsHold ==
  ASSUME NEW items, ListShape(items)
  PROVE  LET r == AreaStored(items)
         IN  /\ r \in Outcomes
             /\ r.ok => HoldsUpTo(items, LastItem(items), r.value)
             /\ ~r.ok => Trouble(items, r.error)
<1> DEFINE n == LastItem(items)
           v == Visits(items)
           P == {k \in Nat : k <= n => /\ v[k].ok => HoldsUpTo(items, k, v[k].value)
                                       /\ ~v[k].ok => Trouble(items, v[k].error)}
<1>0. n \in Nat /\ (\A i \in DOMAIN items : i \in 1 .. n) /\ TagsAmong(items) \subseteq DOMAIN items
  BY LastItemFacts, ShapeFacts
<1>1. /\ v[0] = Empty
      /\ \A i \in 1 .. n : v[i] = After(v[i - 1], items, i)
      /\ \A i \in 0 .. n : v[i] \in Outcomes
  BY VisitsEquation
<1> HIDE DEF n, v
<1>2. 0 \in P
  <2>1. \A j \in TagsAmong(items) : ~(j <= 0)
    BY <1>0
  <2>2. \A x \in 0 .. Size - 1 : Empty.value[x] = 0
    BY OutcomeFacts
  <2>3. HoldsUpTo(items, 0, Empty.value)
    BY <2>1, <2>2 DEF HoldsUpTo
  <2> QED BY <1>1, <2>3, OutcomeFacts
<1>3. ASSUME NEW k \in Nat, k \in P PROVE k + 1 \in P
  <2> SUFFICES ASSUME k + 1 <= n
               PROVE  /\ v[k + 1].ok => HoldsUpTo(items, k + 1, v[k + 1].value)
                      /\ ~v[k + 1].ok => Trouble(items, v[k + 1].error)
    OBVIOUS
  <2>1. /\ k <= n /\ k \in 0 .. n /\ k + 1 \in 1 .. n /\ (k + 1) - 1 = k
    BY <1>0
  <2>2. v[k] \in Outcomes /\ v[k + 1] = After(v[k], items, k + 1)
    BY <1>1, <2>1
  <2>3. CASE ~v[k].ok
    <3>1. v[k + 1] = v[k]
      BY <2>2, <2>3, AfterType
    <3> QED BY <1>3, <2>1, <2>3, <3>1
  <2>4. CASE v[k].ok /\ k + 1 \in DOMAIN items
    <3>1. VisitOf(items, k + 1, v[k].value, v[k + 1])
      BY <2>2, <2>4, AfterType
    <3>2. HoldsUpTo(items, k, v[k].value)
      BY <1>3, <2>1, <2>4
    <3>3. v[k + 1].ok => HoldsUpTo(items, k + 1, v[k + 1].value)
      BY <2>4, <3>1, <3>2, HoldsAfterVisit
    <3>4. ~v[k + 1].ok => Trouble(items, v[k + 1].error)
      BY <3>1 DEF VisitOf
    <3> QED BY <3>3, <3>4
  <2>5. CASE v[k].ok /\ k + 1 \notin DOMAIN items
    <3>1. v[k + 1] = v[k]
      BY <2>2, <2>5 DEF After
    <3>2. HoldsUpTo(items, k, v[k].value)
      BY <1>3, <2>1, <2>5
    <3>3. \A j \in TagsAmong(items) : j <= k + 1 <=> j <= k
      BY <1>0, <2>5
    <3>4. \A x : Setters(items, k + 1, x) = Setters(items, k, x)
      BY <3>3 DEF Setters
    <3>5. HoldsUpTo(items, k + 1, v[k].value)
      BY <3>2, <3>3, <3>4 DEF HoldsUpTo
    <3> QED BY <2>5, <3>1, <3>5
  <2> QED BY <2>3, <2>4, <2>5
<1> HIDE DEF P
<1>4. Nat \subseteq P
  BY <1>2, <1>3, InductiveSet
<1>5. /\ v[n].ok => HoldsUpTo(items, n, v[n].value)
      /\ ~v[n].ok => Trouble(items, v[n].error)
  BY <1>0, <1>4 DEF P
<1>6. AreaStored(items) = v[n]
  BY DEF AreaStored, v, n
<1>7. v[n] \in Outcomes
  BY <1>0, <1>1
<1> QED BY <1>5, <1>6, <1>7 DEF n

(***************************************************************************)
(* The array of an area as InitialValuesAreStored has it.                  *)
(***************************************************************************)
AreaHolds(tags, array) ==
    LET setter == [x \in DOMAIN array |-> {i \in DOMAIN tags : Sets(tags[i]) /\ x \in At(tags[i])}]
    IN  /\ \A x \in DOMAIN array : setter[x] = {} => array[x] = 0
        /\ \A i \in DOMAIN tags :
              Sets(tags[i]) /\ (\A x \in At(tags[i]) : Max(setter[x]) = i) =>
                  Stands(tags[i], [k \in 1 .. Count(tags[i]) |->
                                      array[Wrap(tags[i].low) + k - 1]])

LEMMA AreaHoldsWhenStored ==
  ASSUME NEW items, ListShape(items), NEW array \in Arrays,
         HoldsUpTo(items, LastItem(items), array)
  PROVE  AreaHolds(Absolute(items), array)
<1> DEFINE tags == Absolute(items)
           n == LastItem(items)
           setter == [x \in DOMAIN array |-> {i \in DOMAIN tags : Sets(tags[i]) /\ x \in At(tags[i])}]
<1>0. /\ DOMAIN tags = TagsAmong(items) /\ DOMAIN array = 0 .. Size - 1
      /\ n \in Nat /\ \A i \in DOMAIN tags : i <= n /\ i \in 0 .. n
  BY AbsoluteFacts, LastItemFacts, ShapeFacts DEF Arrays
<1> HIDE DEF n, tags
<1>1. \A x : Setters(items, n, x) = {i \in DOMAIN tags : Sets(tags[i]) /\ x \in At(tags[i])}
  BY <1>0 DEF Setters, tags
<1>2. \A x \in 0 .. Size - 1 : setter[x] = Setters(items, n, x)
  BY <1>0, <1>1
<1> HIDE DEF setter
<1>3. \A x \in DOMAIN array : setter[x] = {} => array[x] = 0
  BY <1>0, <1>2 DEF HoldsUpTo, n
<1>4. ASSUME NEW i \in DOMAIN tags, Sets(tags[i]), \A x \in At(tags[i]) : Max(setter[x]) = i
      PROVE  Stands(tags[i], [k \in 1 .. Count(tags[i]) |-> array[Wrap(tags[i].low) + k - 1]])
  <2> DEFINE low == Wrap(tags[i].low)
             count == Count(tags[i])
             words == StoredWords(items[i])
  <2>1. /\ i \in TagsAmong(items) /\ TagShape(items[i]) /\ SameBut(tags[i], items[i])
        /\ tags[i].low \in Nat
    BY <1>0, ShapeFacts, AbsoluteFacts DEF tags, SameBut
  <2>2. /\ count = Count(items[i]) /\ Sets(items[i])
        /\ \A w : Stands(tags[i], w) <=> Stands(items[i], w)
    BY <1>4, <2>1, AlikeTags
  <2>3. WordsFor(words, count) /\ Stands(tags[i], words)
    BY <2>1, <2>2, SettingWords
  <2>4. low \in Nat /\ count \in Nat
    BY <2>1, <2>2, WrapFacts, CountFacts
  <2>5. /\ low + count <= Size
        /\ \A x \in At(tags[i]) :
              (\A m \in Setters(items, n, x) : m <= i) => array[x] = words[x - low + 1]
    BY <1>0, <1>4, <2>1 DEF HoldsUpTo, tags, n
  <2>6. At(tags[i]) \subseteq 0 .. Size - 1
    BY <2>1, <2>5, AtFacts DEF tags
  <2>7. At(tags[i]) = low .. low + count - 1
    BY DEF At
  <2> HIDE DEF low, count, words
  <2>8. ASSUME NEW x \in At(tags[i])
        PROVE  array[x] = words[x - low + 1]
    <3>1. Setters(items, n, x) \subseteq 0 .. n /\ i \in Setters(items, n, x)
      BY <1>0, <1>1, <1>4, <2>8
    <3>2. \A m \in Setters(items, n, x) : m <= Max(Setters(items, n, x))
      BY <1>0, <3>1, GreatestExists
    <3>3. Max(Setters(items, n, x)) = i
      BY <1>2, <1>4, <2>6, <2>8
    <3> QED BY <2>5, <3>2, <3>3
  <2>9. ASSUME NEW k \in 1 .. count
        PROVE  array[low + k - 1] = words[k]
    <3>1. low + k - 1 \in low .. low + count - 1 /\ (low + k - 1) - low + 1 = k
      BY <2>4
    <3> QED BY <2>7, <2>8, <3>1
  <2>10. words = [k \in 1 .. count |-> words[k]]
    BY <2>3 DEF WordsFor
  <2>11. [k \in 1 .. count |-> array[low + k - 1]] = words
    BY <2>9, <2>10
  <2> QED BY <2>3, <2>11 DEF low, count
<1>5. AreaHolds(tags, array)
  BY <1>3, <1>4 DEF AreaHolds, setter
<1> QED BY <1>5 DEF tags

-----------------------------------------------------------------------------
(***************************************************************************)
(* The devices: arrays that hold the initial values, or trouble.           *)
(***************************************************************************)
NotOver(checked, items) ==      \* get_register_ranges and get_bit_ranges do not overflow
    checked => /\ \A i \in TagsAmong(items) : ~(Bases(items)[i] + items[i].low >= Size)
                                              /\ ~(Bases(items)[i] + items[i].high + 1 >= Size)
               /\ \A i \in Groups(items) : ~(InnerBase(Bases(items)[i], items[i]) >= Size)

LEMMA RangesTrouble ==
  ASSUME NEW items, ListShape(items)
  PROVE  /\ RangesOverflow(items) => Trouble(items, "panicked")
         /\ ~RangesOverflow(items) => NotOver(debug, items)
<1>1. ASSUME NEW i \in TagsAmong(items), debug,
             \/ Bases(items)[i] + items[i].low >= Size
             \/ Bases(items)[i] + items[i].high + 1 >= Size
      PROVE  Trouble(items, "panicked")
  <2> DEFINE t == items[i]
             abs == Absolute(items)[i]
             base == Bases(items)[i]
  <2>1. /\ t.low \in Nat /\ t.high \in Nat /\ base \in Nat
        /\ abs.low \in Nat /\ abs.high \in Nat
        /\ t.low + base <= abs.low /\ t.high + base <= abs.high
    BY AbsoluteFacts
  <2> HIDE DEF t, abs, base
  <2>2. base + t.low >= Size \/ base + t.high + 1 >= Size
    BY <1>1 DEF t, base
  <2>3. ~FitsIn(abs, Size - 1)
    BY <2>1, <2>2, SizeFacts DEF FitsIn
  <2> QED BY <1>1, <2>3, TroubleAt DEF TagTrouble, abs
<1>2. ASSUME NEW i \in Groups(items), debug, InnerBase(Bases(items)[i], items[i]) >= Size
      PROVE  Trouble(items, "panicked")
  <2> DEFINE base == Bases(items)[i]
             x == Exact(items)[i]
             b == items[i].base
  <2>1. i \in DOMAIN items /\ GroupShape(items[i])
    BY ShapeFacts
  <2>2. base <= x /\ base \in 0 .. Size - 1 /\ x \in Nat /\ b \in Nat
    BY <2>1, BasesAreExact, BasesEquation, ExactEquation, SizeFacts DEF GroupShape
  <2>3. base + b >= Size
    BY <1>2 DEF InnerBase
  <2> HIDE DEF base, x, b
  <2>4. x + b >= Size
    BY <2>2, <2>3, SizeFacts
  <2> QED BY <1>2, <2>4 DEF Trouble, GroupBeyond, x, b
<1>3. RangesOverflow(items) => Trouble(items, "panicked")
  BY <1>1, <1>2 DEF RangesOverflow, Overflows
<1>4. ~RangesOverflow(items) => NotOver(debug, items)
  BY DEF RangesOverflow, Overflows, NotOver
<1> QED BY <1>3, <1>4

DeviceShape(tags) == \A a \in Areas : ListShape(tags[a])
DeviceHolds(tags, arrays) ==
    \A a \in Areas : AreaHolds(Absolute(tags[a]), arrays[a])
DeviceNotOver(checked, tags) == \A a \in Areas : NotOver(checked, tags[a])
DeviceTrouble(tags, error) == \E a \in Areas : Trouble(tags[a], error)

LEMMA InOrderFacts ==
  /\ DOMAIN InOrder = 1 .. 4 /\ \A i \in 1 .. 4 : InOrder[i] \in Areas
  /\ \A r : \A a \in Areas : \E i \in 1 .. 4 : InOrder[i] = a /\ ByArea(r)[a] = r[i]
  /\ \A r : DOMAIN ByArea(r) = Areas
<1>1. DOMAIN InOrder = 1 .. 4 /\ \A i \in 1 .. 4 : InOrder[i] \in Areas
  BY DEF InOrder, Areas, RegisterAreas, BitAreas
<1>2. ASSUME NEW a \in Areas PROVE \E i \in DOMAIN InOrder : InOrder[i] = a
  <2>1. /\ InOrder[1] = "holding-registers" /\ InOrder[2] = "input-registers"
        /\ InOrder[3] = "coils" /\ InOrder[4] = "discrete-inputs"
    BY DEF InOrder
  <2>2. 1 \in DOMAIN InOrder /\ 2 \in DOMAIN InOrder /\ 3 \in DOMAIN InOrder /\ 4 \in DOMAIN InOrder
    BY <1>1
  <2>3. \/ a = "holding-registers" \/ a = "input-registers"
        \/ a = "coils" \/ a = "discrete-inputs"
    BY DEF Areas, RegisterAreas, BitAreas
  <2> QED BY <2>1, <2>2, <2>3
<1>3. ASSUME NEW r, NEW a \in Areas
      PROVE  \E i \in 1 .. 4 : InOrder[i] = a /\ ByArea(r)[a] = r[i]
  <2> DEFINE i == CHOOSE j \in DOMAIN InOrder : InOrder[j] = a
  <2>1. i \in DOMAIN InOrder /\ InOrder[i] = a
    BY <1>2
  <2>2. ByArea(r)[a] = r[i]
    BY DEF ByArea
  <2> HIDE DEF i
  <2> QED BY <1>1, <2>1, <2>2
<1>4. \A r : DOMAIN ByArea(r) = Areas
  BY DEF ByArea
<1> QED BY <1>1, <1>3, <1>4

LEMMA TagsMade ==
  ASSUME NEW tags, DeviceShape(tags)
  PROVE  LET r == NewTags(tags)
         IN  /\ r.ok => DeviceHolds(tags, r.value)
             /\ ~r.ok => DeviceTrouble(tags, r.error)
<1> DEFINE R == [i \in DOMAIN InOrder |-> AreaStored(tags[InOrder[i]])]
           g == Good(ByArea(Values(R)))
<1>1. NewTags(tags) = FirstOr(R, g)
  BY DEF NewTags, With, FirstOr, Bads, Values
<1>2. DOMAIN R = 1 .. 4 /\ \A i \in 1 .. 4 : R[i] = AreaStored(tags[InOrder[i]])
  BY InOrderFacts
<1> HIDE DEF R
<1>3. g.ok /\ g.value = ByArea(Values(R)) /\ \A i \in 1 .. 4 : Values(R)[i] = R[i].value
  BY <1>2 DEF Good, Values
<1> HIDE DEF g
<1>4. LET w == FirstOr(R, g)
      IN  /\ w.ok <=> \A i \in DOMAIN R : R[i].ok
          /\ w.ok => w = g
          /\ ~w.ok => \E i \in DOMAIN R : ~R[i].ok /\ w = R[i]
  <2>1. DOMAIN R \subseteq Nat
    BY <1>2
  <2> QED BY <1>3, <2>1, FirstOrLemma
<1>5. \A i \in 1 .. 4 : /\ InOrder[i] \in Areas /\ R[i] \in Outcomes
                        /\ R[i].ok => AreaHolds(Absolute(tags[InOrder[i]]), R[i].value)
                        /\ ~R[i].ok => Trouble(tags[InOrder[i]], R[i].error)
  <2> SUFFICES ASSUME NEW i \in 1 .. 4
               PROVE  /\ InOrder[i] \in Areas /\ R[i] \in Outcomes
                      /\ R[i].ok => AreaHolds(Absolute(tags[InOrder[i]]), R[i].value)
                      /\ ~R[i].ok => Trouble(tags[InOrder[i]], R[i].error)
    OBVIOUS
  <2> DEFINE items == tags[InOrder[i]]
  <2>1. InOrder[i] \in Areas /\ ListShape(items) /\ R[i] = AreaStored(items)
    BY <1>2, InOrderFacts DEF DeviceShape
  <2> HIDE DEF items
  <2>2. /\ R[i] \in Outcomes
        /\ R[i].ok => HoldsUpTo(items, LastItem(items), R[i].value)
        /\ ~R[i].ok => Trouble(items, R[i].error)
    BY <2>1, VisitsHold
  <2>3. R[i].ok => AreaHolds(Absolute(items), R[i].value)
    BY <2>1, <2>2, OutcomeFacts, AreaHoldsWhenStored
  <2> QED BY <2>1, <2>2, <2>3 DEF items
<1>6. ASSUME FirstOr(R, g).ok PROVE DeviceHolds(tags, FirstOr(R, g).value)
  <2>1. FirstOr(R, g) = g /\ \A i \in 1 .. 4 : R[i].ok
    BY <1>2, <1>4, <1>6
  <2>2. ASSUME NEW a \in Areas PROVE AreaHolds(Absolute(tags[a]), ByArea(Values(R))[a])
    <3>1. PICK i \in 1 .. 4 : InOrder[i] = a /\ ByArea(Values(R))[a] = Values(R)[i]
      BY InOrderFacts
    <3> QED BY <1>3, <1>5, <2>1, <3>1
  <2> QED BY <1>3, <2>1, <2>2 DEF DeviceHolds
<1>7. ASSUME ~FirstOr(R, g).ok PROVE DeviceTrouble(tags, FirstOr(R, g).error)
  BY <1>2, <1>4, <1>5, <1>7 DEF DeviceTrouble
<1> QED BY <1>1, <1>6, <1>7

LEMMA DeviceMade ==
  ASSUME NEW tags, DeviceShape(tags)
  PROVE  LET r == NewDevice(tags)
         IN  /\ r.ok => DeviceHolds(tags, r.value) /\ DeviceNotOver(debug, tags)
             /\ ~r.ok => DeviceTrouble(tags, r.error)
<1> DEFINE over == \E a \in Areas : RangesOverflow(tags[a])
           second == IF over THEN Bad("panicked") ELSE Good(tags)
           R == <<NewTags(tags), second>>
           g == Good(Values(R)[1])
<1>1. NewDevice(tags) = FirstOr(R, g)
  BY DEF NewDevice, With, FirstOr, Bads, Values
<1>2. DOMAIN R = 1 .. 2 /\ R[1] = NewTags(tags) /\ R[2] = second
  OBVIOUS
<1>3. /\ over => ~second.ok /\ second.error = "panicked"
      /\ ~over => second.ok
  BY DEF Good, Bad
<1>4. over => DeviceTrouble(tags, "panicked")
  BY RangesTrouble DEF DeviceShape, DeviceTrouble
<1>5. ~over => DeviceNotOver(debug, tags)
  BY RangesTrouble DEF DeviceShape, DeviceNotOver
<1> HIDE DEF over, second, R
<1>6. g.ok /\ g.value = NewTags(tags).value
  BY <1>2 DEF Good, Values
<1> HIDE DEF g
<1>7. LET w == FirstOr(R, g)
      IN  /\ w.ok <=> \A i \in DOMAIN R : R[i].ok
          /\ w.ok => w = g
          /\ ~w.ok => \E i \in DOMAIN R : ~R[i].ok /\ w = R[i]
  <2>1. DOMAIN R \subseteq Nat
    BY <1>2
  <2> QED BY <1>6, <2>1, FirstOrLemma
<1>8. /\ NewTags(tags).ok => DeviceHolds(tags, NewTags(tags).value)
      /\ ~NewTags(tags).ok => DeviceTrouble(tags, NewTags(tags).error)
  BY TagsMade
<1>9. ASSUME FirstOr(R, g).ok
      PROVE  DeviceHolds(tags, FirstOr(R, g).value) /\ DeviceNotOver(debug, tags)
  <2>1. R[1].ok /\ R[2].ok /\ FirstOr(R, g) = g
    BY <1>2, <1>7, <1>9
  <2> QED BY <1>2, <1>3, <1>5, <1>6, <1>8, <2>1
<1>10. ASSUME ~FirstOr(R, g).ok PROVE DeviceTrouble(tags, FirstOr(R, g).error)
  <2>1. PICK i \in 1 .. 2 : ~R[i].ok /\ FirstOr(R, g) = R[i]
    BY <1>2, <1>7, <1>10
  <2>2. i = 1 \/ i = 2
    OBVIOUS
  <2> QED BY <1>2, <1>3, <1>4, <1>8, <2>1, <2>2
<1> QED BY <1>1, <1>9, <1>10

Made(devs) == With([u \in DOMAIN devs |-> NewDevice(devs[u])], Good)

LEMMA DevicesMade ==
  ASSUME NEW devs, DOMAIN devs \subseteq Nat, \A u \in DOMAIN devs : DeviceShape(devs[u])
  PROVE  LET r == Made(devs)
         IN  /\ r.ok => \A u \in DOMAIN devs : /\ DeviceHolds(devs[u], r.value[u])
                                               /\ DeviceNotOver(debug, devs[u])
             /\ ~r.ok => \E u \in DOMAIN devs : DeviceTrouble(devs[u], r.error)
<1> DEFINE R == [u \in DOMAIN devs |-> NewDevice(devs[u])]
           g == Good(Values(R))
<1>1. Made(devs) = FirstOr(R, g)
  BY DEF Made, With, FirstOr, Bads, Values
<1>2. DOMAIN R = DOMAIN devs /\ \A u \in DOMAIN devs : R[u] = NewDevice(devs[u])
  OBVIOUS
<1> HIDE DEF R
<1>3. g.ok /\ g.value = Values(R) /\ \A u \in DOMAIN devs : Values(R)[u] = R[u].value
  BY <1>2 DEF Good, Values
<1> HIDE DEF g
<1>4. LET w == FirstOr(R, g)
      IN  /\ w.ok <=> \A i \in DOMAIN R : R[i].ok
          /\ w.ok => w = g
          /\ ~w.ok => \E i \in DOMAIN R : ~R[i].ok /\ w = R[i]
  BY <1>2, <1>3, FirstOrLemma
<1>5. \A u \in DOMAIN devs :
         /\ R[u].ok => DeviceHolds(devs[u], R[u].value) /\ DeviceNotOver(debug, devs[u])
         /\ ~R[u].ok => DeviceTrouble(devs[u], R[u].error)
  BY <1>2, DeviceMade
<1> QED BY <1>1, <1>2, <1>3, <1>4, <1>5

-----------------------------------------------------------------------------
(***************************************************************************)
(* The page: an input for every tag and field, unless a scale is not a     *)
(* number.                                                                 *)
(***************************************************************************)
Named(items, inputs) ==
    /\ DOMAIN inputs = DOMAIN items \ Groups(items)
    /\ \A i \in DOMAIN inputs : /\ inputs[i].low = Wrap(TagAt(items, i).low)
                                /\ inputs[i].high = Wrap(TagAt(items, i).high)
LacksScale(t) == "scale" \in DOMAIN t /\ t.scale.kind # "number"
LackingScale(items) == \E i \in TagsAmong(items) : LacksScale(Absolute(items)[i])

Built(items, i) ==
    IF IsGroup(items[i]) THEN BuildGroup(Bases(items)[i], items[i])
    ELSE IF IsTag(items[i]) THEN BuildTag(Bases(items)[i], items[i])
    ELSE BuildField(Bases(items)[items[i].in], items[items[i].in], items[i])

LEMMA TagBuilt ==
  ASSUME NEW items, ListShape(items), NotOver(debug, items), NEW i \in TagsAmong(items)
  PROVE  LET r == BuildTag(Bases(items)[i], items[i])
         IN  /\ r.ok => /\ r.value.low = Wrap(Absolute(items)[i].low)
                        /\ r.value.high = Wrap(Absolute(items)[i].high)
             /\ ~r.ok => LackingScale(items)
<1> DEFINE t == items[i]
           abs == Absolute(items)[i]
           base == Bases(items)[i]
           r == BuildTag(base, t)
           input == [low |-> Wrap(t.low + base), high |-> Wrap(t.high + base)]
           full == [low |-> input.low, high |-> input.high,
                    encoding |-> t.encoding, scale |-> t.scale.value]
<1>1. /\ t.low \in Nat /\ t.high \in Nat /\ base \in Nat
      /\ DOMAIN abs = DOMAIN t
      /\ \A key \in DOMAIN t \ {"low", "high"} : abs[key] = t[key]
      /\ Wrap(t.low + base) = Wrap(abs.low)
      /\ Wrap(t.high + base) = Wrap(abs.high)
  BY AbsoluteFacts
<1>2. TagShape(t)
  BY ShapeFacts
<1>3. ~Overflows(t.low + base) /\ ~Overflows(t.high + base)
  <2>1. debug => ~(base + t.low >= Size) /\ ~(base + t.high + 1 >= Size)
    BY DEF NotOver
  <2> HIDE DEF t, base
  <2> QED BY <1>1, <2>1, SizeFacts DEF Overflows
<1> HIDE DEF t, base, abs
<1>4. /\ input.low = Wrap(abs.low) /\ input.high = Wrap(abs.high)
      /\ full.low = input.low /\ full.high = input.high
  BY <1>1
<1>5. CASE "bit" \in DOMAIN t
  <2>1. r = Good(input)
    BY <1>3, <1>5 DEF BuildTag
  <2> HIDE DEF input
  <2>2. r.ok /\ r.value = input
    BY <2>1 DEF Good
  <2> QED BY <1>4, <2>2 DEF t, base, abs
<1>6. CASE "bit" \notin DOMAIN t
  <2>1. "scale" \in DOMAIN t /\ abs.scale = t.scale
    <3>1. RegisterShape(t)
      BY <1>2, <1>6, ShapeKinds DEF TagShape
    <3>2. "scale" \in DOMAIN t
      BY <3>1 DEF RegisterShape
    <3> QED BY <1>1, <3>2
  <2>2. CASE t.scale.kind = "number"
    <3>1. r = Good(full)
      BY <1>3, <1>6, <2>2 DEF BuildTag
    <3> HIDE DEF full, input
    <3>2. r.ok /\ r.value = full
      BY <3>1 DEF Good
    <3> QED BY <1>4, <3>2 DEF t, base, abs
  <2>3. CASE t.scale.kind # "number"
    <3>1. r = Bad("panic")
      BY <1>3, <1>6, <2>3 DEF BuildTag
    <3>2. ~r.ok
      BY <3>1 DEF Bad
    <3>3. LacksScale(abs)
      BY <1>1, <2>1, <2>3 DEF LacksScale
    <3> QED BY <3>2, <3>3 DEF LackingScale, t, base, abs
  <2> QED BY <2>2, <2>3
<1> QED BY <1>5, <1>6

LEMMA ItemBuilt ==
  ASSUME NEW items, ListShape(items), NotOver(debug, items), NEW i \in DOMAIN items
  PROVE  /\ Built(items, i).ok /\ i \notin Groups(items) =>
               /\ Built(items, i).value.low = Wrap(TagAt(items, i).low)
               /\ Built(items, i).value.high = Wrap(TagAt(items, i).high)
         /\ ~Built(items, i).ok => LackingScale(items)
<1>1. CASE i \in Groups(items)
  <2>1. ~Overflows(InnerBase(Bases(items)[i], items[i]))
    BY <1>1 DEF NotOver, Overflows
  <2>2. Built(items, i) = Good("group")
    BY <1>1, <2>1 DEF Built, BuildGroup, Groups
  <2> QED BY <1>1, <2>2 DEF Good
<1>2. CASE i \in TagsAmong(items)
  <2>1. ~IsGroup(items[i]) /\ IsTag(items[i])
    BY <1>2, ShapeFacts, ShapeKinds
  <2>2. Built(items, i) = BuildTag(Bases(items)[i], items[i])
    BY <2>1 DEF Built
  <2>3. TagAt(items, i) = Absolute(items)[i]
    BY <2>1 DEF TagAt
  <2> QED BY <1>2, <2>2, <2>3, TagBuilt
<1>3. CASE i \notin Groups(items) \cup TagsAmong(items)
  <2> DEFINE j == items[i].in
             input == [low |-> Wrap(items[j].low + Bases(items)[j]),
                       high |-> Wrap(items[j].high + Bases(items)[j]),
                       bit_low |-> items[i].bit_low, bit_high |-> items[i].bit_high]
  <2>1. FieldShape(items[i]) /\ j \in TagsAmong(items)
    BY <1>3, ShapeFacts
  <2>2. ~IsGroup(items[i]) /\ ~IsTag(items[i])
    BY <2>1, ShapeKinds
  <2>3. Built(items, i) = Good(input)
    BY <2>2 DEF Built, BuildField
  <2>4. TagAt(items, i) = Absolute(items)[j]
    BY <2>2 DEF TagAt
  <2>5. /\ input.low = Wrap(Absolute(items)[j].low)
        /\ input.high = Wrap(Absolute(items)[j].high)
    <3> HIDE DEF j
    <3> QED BY <2>1, AbsoluteFacts
  <2> HIDE DEF input
  <2>6. Built(items, i).ok /\ Built(items, i).value = input
    BY <2>3 DEF Good
  <2> QED BY <2>4, <2>5, <2>6
<1> QED BY <1>1, <1>2, <1>3

LEMMA SubListBuilt ==
  ASSUME NEW items, ListShape(items), NotOver(debug, items)
  PROVE  LET r == BuildSubList(items)
         IN  /\ r.ok => Named(items, r.value)
             /\ ~r.ok => LackingScale(items)
<1> DEFINE R == [i \in DOMAIN items |-> Built(items, i)]
           g == Good([i \in DOMAIN items \ Groups(items) |-> Values(R)[i]])
<1>1. BuildSubList(items) = FirstOr(R, g)
  BY DEF BuildSubList, With, FirstOr, Bads, Values, Built
<1>2. DOMAIN R = DOMAIN items /\ \A i \in DOMAIN items : R[i] = Built(items, i)
  OBVIOUS
<1> HIDE DEF R
<1>3. /\ g.ok /\ DOMAIN g.value = DOMAIN items \ Groups(items)
      /\ \A i \in DOMAIN items \ Groups(items) : g.value[i] = R[i].value
  BY <1>2 DEF Good, Values
<1> HIDE DEF g
<1>4. LET w == FirstOr(R, g)
      IN  /\ w.ok <=> \A i \in DOMAIN R : R[i].ok
          /\ w.ok => w = g
          /\ ~w.ok => \E i \in DOMAIN R : ~R[i].ok /\ w = R[i]
  <2>1. DOMAIN R \subseteq Nat
    BY <1>2, ShapeFacts
  <2> QED BY <1>3, <2>1, FirstOrLemma
<1>5. ASSUME FirstOr(R, g).ok PROVE Named(items, FirstOr(R, g).value)
  <2>1. FirstOr(R, g) = g /\ \A i \in DOMAIN items : R[i].ok
    BY <1>2, <1>4, <1>5
  <2>2. ASSUME NEW i \in DOMAIN items \ Groups(items)
        PROVE  /\ g.value[i].low = Wrap(TagAt(items, i).low)
               /\ g.value[i].high = Wrap(TagAt(items, i).high)
    BY <1>2, <1>3, <2>1, ItemBuilt
  <2> QED BY <1>3, <2>1, <2>2 DEF Named
<1>6. ASSUME ~FirstOr(R, g).ok PROVE LackingScale(items)
  BY <1>2, <1>4, <1>6, ItemBuilt
<1> QED BY <1>1, <1>5, <1>6

DeviceNamed(tags, inputs) ==
    DOMAIN inputs = Areas /\ \A a \in Areas : Named(tags[a], inputs[a])
DeviceLacking(tags) == \E a \in Areas : LackingScale(tags[a])

LEMMA DeviceBuilt ==
  ASSUME NEW tags, DeviceShape(tags), DeviceNotOver(debug, tags)
  PROVE  LET r == BuildDevice(tags)
         IN  /\ r.ok => DeviceNamed(tags, r.value)
             /\ ~r.ok => DeviceLacking(tags)
<1> DEFINE R == [i \in DOMAIN InOrder |-> BuildSubList(tags[InOrder[i]])]
           g == Good(ByArea(Values(R)))
<1>1. BuildDevice(tags) = FirstOr(R, g)
  BY DEF BuildDevice, With, FirstOr, Bads, Values
<1>2. DOMAIN R = 1 .. 4 /\ \A i \in 1 .. 4 : R[i] = BuildSubList(tags[InOrder[i]])
  BY InOrderFacts
<1> HIDE DEF R
<1>3. g.ok /\ g.value = ByArea(Values(R)) /\ \A i \in 1 .. 4 : Values(R)[i] = R[i].value
  BY <1>2 DEF Good, Values
<1> HIDE DEF g
<1>4. LET w == FirstOr(R, g)
      IN  /\ w.ok <=> \A i \in DOMAIN R : R[i].ok
          /\ w.ok => w = g
          /\ ~w.ok => \E i \in DOMAIN R : ~R[i].ok /\ w = R[i]
  <2>1. DOMAIN R \subseteq Nat
    BY <1>2
  <2> QED BY <1>3, <2>1, FirstOrLemma
<1>5. \A i \in 1 .. 4 : /\ InOrder[i] \in Areas
                        /\ R[i].ok => Named(tags[InOrder[i]], R[i].value)
                        /\ ~R[i].ok => LackingScale(tags[InOrder[i]])
  <2> SUFFICES ASSUME NEW i \in 1 .. 4
               PROVE  /\ InOrder[i] \in Areas
                      /\ R[i].ok => Named(tags[InOrder[i]], R[i].value)
                      /\ ~R[i].ok => LackingScale(tags[InOrder[i]])
    OBVIOUS
  <2>1. InOrder[i] \in Areas /\ R[i] = BuildSubList(tags[InOrder[i]])
    BY <1>2, InOrderFacts
  <2>2. ListShape(tags[InOrder[i]]) /\ NotOver(debug, tags[InOrder[i]])
    BY <2>1 DEF DeviceShape, DeviceNotOver
  <2> QED BY <2>1, <2>2, SubListBuilt
<1>6. ASSUME FirstOr(R, g).ok PROVE DeviceNamed(tags, FirstOr(R, g).value)
  <2>1. FirstOr(R, g) = g /\ \A i \in 1 .. 4 : R[i].ok
    BY <1>2, <1>4, <1>6
  <2>2. ASSUME NEW a \in Areas PROVE Named(tags[a], ByArea(Values(R))[a])
    <3>1. PICK i \in 1 .. 4 : InOrder[i] = a /\ ByArea(Values(R))[a] = Values(R)[i]
      BY InOrderFacts
    <3> QED BY <1>3, <1>5, <2>1, <3>1
  <2> QED BY <1>3, <2>1, <2>2, InOrderFacts DEF DeviceNamed
<1>7. ASSUME ~FirstOr(R, g).ok PROVE DeviceLacking(tags)
  BY <1>2, <1>4, <1>5, <1>7 DEF DeviceLacking
<1> QED BY <1>1, <1>6, <1>7

PageOf(devs) == With([u \in DOMAIN devs |-> BuildDevice(devs[u])], Good)

LEMMA PageBuilt ==
  ASSUME NEW devs, DOMAIN devs \subseteq Nat, \A u \in DOMAIN devs : DeviceShape(devs[u]),
         \A u \in DOMAIN devs : DeviceNotOver(debug, devs[u])
  PROVE  LET r == PageOf(devs)
         IN  /\ r.ok => /\ DOMAIN r.value = DOMAIN devs
                        /\ \A u \in DOMAIN devs : DeviceNamed(devs[u], r.value[u])
             /\ ~r.ok => \E u \in DOMAIN devs : DeviceLacking(devs[u])
<1> DEFINE R == [u \in DOMAIN devs |-> BuildDevice(devs[u])]
           g == Good(Values(R))
<1>1. PageOf(devs) = FirstOr(R, g)
  BY DEF PageOf, With, FirstOr, Bads, Values
<1>2. DOMAIN R = DOMAIN devs /\ \A u \in DOMAIN devs : R[u] = BuildDevice(devs[u])
  OBVIOUS
<1> HIDE DEF R
<1>3. /\ g.ok /\ g.value = Values(R) /\ DOMAIN Values(R) = DOMAIN devs
      /\ \A u \in DOMAIN devs : Values(R)[u] = R[u].value
  BY <1>2 DEF Good, Values
<1> HIDE DEF g
<1>4. LET w == FirstOr(R, g)
      IN  /\ w.ok <=> \A i \in DOMAIN R : R[i].ok
          /\ w.ok => w = g
          /\ ~w.ok => \E i \in DOMAIN R : ~R[i].ok /\ w = R[i]
  BY <1>2, <1>3, FirstOrLemma
<1>5. \A u \in DOMAIN devs : /\ R[u].ok => DeviceNamed(devs[u], R[u].value)
                             /\ ~R[u].ok => DeviceLacking(devs[u])
  BY <1>2, DeviceBuilt
<1> QED BY <1>1, <1>2, <1>3, <1>4, <1>5

-----------------------------------------------------------------------------
(***************************************************************************)
(* The inductive invariant: at every place of main, what the list, the     *)
(* arrays, the page and the end of the process are.  It mentions the build *)
(* only as an argument (checked), and says of the list that it is what the *)
(* document reads as (Read), from which all addresses and types follow.    *)
(***************************************************************************)
Texted(doc) == UNION {Range(doc[i].attr) : i \in {j \in DOMAIN doc : doc[j].is = "element"}}
TaggedIn(devs) == UNION {Range(Absolute(devs[u][a])) : u \in DOMAIN devs, a \in Areas}
Known(how, f, checked, devs) ==
    /\ how = "aborted" => \E t \in TaggedIn(devs) : RunsOver(t)
    /\ how = "panicked" =>
          \/ f.is = "unreadable"
          \/ /\ checked
             /\ \/ \E t \in Texted(f.nodes) : Negates(t)
                \/ \E t \in TaggedIn(devs) : TagTrouble(t)
                \/ \E u \in DOMAIN devs, a \in Areas : GroupBeyond(devs[u][a])
Held(devs, arrays) ==
    \A u \in DOMAIN devs, a \in Areas : AreaHolds(Absolute(devs[u][a]), arrays[u][a])
NothingOver(checked, devs) == \A u \in DOMAIN devs : DeviceNotOver(checked, devs[u])
PageNames(devs, inputs) ==
    \A u \in DOMAIN inputs, a \in Areas : Named(devs[u][a], inputs[u][a])
Lacking(devs) == \E u \in DOMAIN devs : DeviceLacking(devs[u])

Places == {"open", "parse", "devices", "spawn", "web", "select"}
KnowsFile ==
    /\ debug \in BOOLEAN /\ file \in Files /\ pc \in Places
    /\ pc # "open" => file.is = "document"
    /\ pc \in {"open", "parse"} => list = Nobody
    /\ pc \notin {"open", "parse"} => Read(file.nodes, list)
    /\ pc = "parse" /\ exit = "failure" => ~Valid(file.nodes)
KnowsDevices ==
    /\ pc = "spawn" => Held(list, devices)
    /\ pc \in {"spawn", "web", "select"} => NothingOver(debug, list)
KnowsPage ==
    /\ bound \/ request # None \/ page # Nobody => pc = "select"
    /\ PageNames(list, page)
    /\ request = "lost" => Lacking(list)
StartInv == KnowsFile /\ KnowsDevices /\ KnowsPage /\ Known(exit, file, debug, list)

LEMMA InitHolds == Init => StartInv
<1> SUFFICES ASSUME Init PROVE StartInv
  OBVIOUS
<1>1. /\ debug \in BOOLEAN /\ file \in Files /\ pc = "open" /\ list = Nobody
      /\ bound = FALSE /\ request = None /\ page = Nobody /\ exit = "running"
  BY DEF Init
<1>2. KnowsFile
  BY <1>1 DEF KnowsFile, Places
<1>3. KnowsDevices
  BY <1>1 DEF KnowsDevices
<1>4. KnowsPage
  <2>1. PageNames(list, Nobody)
    BY DEF PageNames, Nobody
  <2> QED BY <1>1, <2>1 DEF KnowsPage, None
<1>5. Known(exit, file, debug, list)
  BY <1>1 DEF Known
<1> QED BY <1>2, <1>3, <1>4, <1>5 DEF StartInv

LEMMA DocumentRead ==
  ASSUME StartInv, pc # "open"
  PROVE  IsDocument(file.nodes)
BY StartAssumption DEF StartInv, KnowsFile

LEMMA ReadShape ==
  ASSUME NEW doc, IsDocument(doc), NEW devs, Read(doc, devs)
  PROVE  DOMAIN devs \subseteq Nat /\ \A u \in DOMAIN devs : DeviceShape(devs[u])
<1>1. /\ DOMAIN devs = UnitsIn(doc) /\ UnitsIn(doc) \subseteq Numbers8
      /\ \A u \in UnitsIn(doc), a \in Areas : ListRead(doc, u, a, devs[u][a])
  BY DEF Read
<1>2. Numbers8 \subseteq Nat
  BY SizeFacts DEF Numbers8
<1>3. \A u \in UnitsIn(doc), a \in Areas : ListShape(devs[u][a])
  BY <1>1, ListReadShape
<1> QED BY <1>1, <1>2, <1>3 DEF DeviceShape

LEMMA TaggedLemma ==
  ASSUME NEW devs, \A u \in DOMAIN devs : DeviceShape(devs[u]),
         NEW u \in DOMAIN devs, NEW a \in Areas, NEW i \in TagsAmong(devs[u][a])
  PROVE  Absolute(devs[u][a])[i] \in TaggedIn(devs)
<1>1. DOMAIN Absolute(devs[u][a]) = TagsAmong(devs[u][a])
  BY AbsoluteFacts DEF DeviceShape
<1>2. Absolute(devs[u][a])[i] \in Range(Absolute(devs[u][a]))
  BY <1>1 DEF Range
<1> QED BY <1>2 DEF TaggedIn

LEMMA TroubleKnown ==
  ASSUME NEW devs, \A u \in DOMAIN devs : DeviceShape(devs[u]),
         NEW u \in DOMAIN devs, NEW error, DeviceTrouble(devs[u], error), NEW f
  PROVE  Known(error, f, debug, devs)
<1>1. PICK a \in Areas : Trouble(devs[u][a], error)
  BY DEF DeviceTrouble
<1>2. ASSUME error = "aborted" PROVE \E t \in TaggedIn(devs) : RunsOver(t)
  BY <1>1, <1>2, TaggedLemma DEF Trouble
<1>3. ASSUME error = "panicked"
      PROVE  /\ debug
             /\ \/ \E t \in TaggedIn(devs) : TagTrouble(t)
                \/ \E v \in DOMAIN devs, b \in Areas : GroupBeyond(devs[v][b])
  <2>1. debug /\ (GroupBeyond(devs[u][a]) \/ \E i \in TagsAmong(devs[u][a]) :
                                                 TagTrouble(Absolute(devs[u][a])[i]))
    BY <1>1, <1>3 DEF Trouble
  <2> QED BY <2>1, TaggedLemma
<1> QED BY <1>2, <1>3 DEF Known

-----------------------------------------------------------------------------
(***************************************************************************)
(* The steps.                                                              *)
(***************************************************************************)
LEMMA Stays ==
  ASSUME StartInv, UNCHANGED vars
  PROVE  StartInv'
BY DEF StartInv, KnowsFile, KnowsDevices, KnowsPage, vars, None, Nobody, Places

LEMMA Exits ==
  ASSUME StartInv, NEW how, Exit(how), UNCHANGED <<debug, file, options>>,
         Known(how, file, debug, list), pc = "parse" /\ how = "failure" => ~Valid(file.nodes)
  PROVE  StartInv'
BY DEF StartInv, KnowsFile, KnowsDevices, KnowsPage, Exit, None, Nobody, Places

LEMMA OpenKeeps ==
  ASSUME StartInv, Running, UNCHANGED <<debug, file, options>>, Open
  PROVE  StartInv'
<1>2. pc = "open" /\ file.is \in {"missing", "unreadable", "document"}
  BY StartAssumption DEF Open, StartInv, KnowsFile
<1>3. CASE file.is = "missing"
  <2>1. Exit("failure")
    BY <1>3 DEF Open
  <2>2. Known("failure", file, debug, list)
    BY DEF Known
  <2> QED BY <1>2, <2>1, <2>2, Exits
<1>4. CASE file.is = "unreadable"
  <2>1. Exit("panicked")
    BY <1>4 DEF Open
  <2>2. Known("panicked", file, debug, list)
    BY <1>4 DEF Known
  <2> QED BY <1>2, <2>1, <2>2, Exits
<1>5. CASE file.is = "document"
  <2>1. pc' = "parse" /\ UNCHANGED <<list, devices, modbus, bound, request, page, exit>>
    BY <1>5 DEF Open, GoTo
  <2>2. exit = "running" /\ list = Nobody
    BY <1>2 DEF Running, StartInv, KnowsFile
  <2>3. KnowsFile'
    BY <1>2, <1>5, <2>1, <2>2 DEF StartInv, KnowsFile, Places, Nobody
  <2>4. KnowsDevices'
    BY <2>1 DEF KnowsDevices
  <2>5. KnowsPage'
    BY <1>2, <2>1 DEF StartInv, KnowsPage, None, Nobody
  <2>6. Known(exit, file, debug, list)'
    BY <2>1, <2>2 DEF Known
  <2> QED BY <2>3, <2>4, <2>5, <2>6 DEF StartInv
<1> QED BY <1>2, <1>3, <1>4, <1>5

LEMMA ParsingKeeps ==
  ASSUME StartInv, Running, UNCHANGED <<debug, file, options>>, Parsing
  PROVE  StartInv'
<1> DEFINE r == ParseDeviceList(file.nodes)
<1>1. pc = "parse" /\ IsDocument(file.nodes) /\ exit = "running"
  BY DocumentRead DEF Parsing, Running
<1>2. CASE ~r.ok
  <2> DEFINE how == IF r.error = "panic" THEN "panicked" ELSE "failure"
  <2>1. Exit(how)
    BY <1>2 DEF Parsing
  <2>2. Known(how, file, debug, list)
    <3>1. CASE r.error = "panic"
      <4>1. PICK i \in 1 .. Len(file.nodes) : NodePanics(file.nodes[i])
        BY <1>1, <1>2, <3>1, PanicIfNegates
      <4>2. PICK name \in DOMAIN file.nodes[i].attr : Negates(file.nodes[i].attr[name])
        BY <4>1 DEF NodePanics, NegatesIn
      <4>3. i \in DOMAIN file.nodes /\ file.nodes[i].is = "element" /\ debug
        BY <1>1, <4>1, DocumentFacts DEF NodePanics
      <4>4. file.nodes[i].attr[name] \in Range(file.nodes[i].attr)
        BY <4>2 DEF Range
      <4>5. file.nodes[i].attr[name] \in Texted(file.nodes)
        BY <4>3, <4>4 DEF Texted
      <4> QED BY <3>1, <4>2, <4>3, <4>5 DEF Known
    <3>2. CASE r.error # "panic"
      BY <3>2 DEF Known
    <3> QED BY <3>1, <3>2
  <2>3. how = "failure" => ~Valid(file.nodes)
    BY <1>1, <1>2, TakenIfValid
  <2> HIDE DEF how
  <2> QED BY <2>1, <2>2, <2>3, Exits
<1>3. CASE r.ok
  <2>1. /\ list' = r.value /\ pc' = "devices"
        /\ UNCHANGED <<devices, modbus, bound, request, page, exit>>
    BY <1>3 DEF Parsing, GoTo
  <2>2. Read(file.nodes, r.value)
    BY <1>1, <1>3, ReadIfTaken
  <2> HIDE DEF r
  <2>3. KnowsFile'
    BY <1>1, <2>1, <2>2 DEF StartInv, KnowsFile, Places
  <2>4. KnowsDevices'
    BY <2>1 DEF KnowsDevices
  <2>5. KnowsPage'
    <3>1. ~bound /\ request = None /\ page = Nobody
      BY <1>1 DEF StartInv, KnowsPage
    <3>2. \A devs : PageNames(devs, Nobody)
      BY DEF PageNames, Nobody
    <3> QED BY <2>1, <3>1, <3>2 DEF KnowsPage, None, Nobody
  <2>6. Known(exit, file, debug, list)'
    BY <1>1, <2>1 DEF Known
  <2> QED BY <2>3, <2>4, <2>5, <2>6 DEF StartInv
<1> QED BY <1>2, <1>3

LEMMA NewDevicesKeeps ==
  ASSUME StartInv, Running, UNCHANGED <<debug, file, options>>, NewDevices
  PROVE  StartInv'
<1> DEFINE made == Made(list)
<1>1. /\ pc = "devices" /\ exit = "running"
      /\ IF ~made.ok THEN Exit(made.error)
         ELSE /\ devices' = made.value /\ pc' = "spawn"
              /\ UNCHANGED <<list, modbus, bound, request, page, exit>>
  BY DEF NewDevices, Running, Made, GoTo
<1>2. IsDocument(file.nodes) /\ Read(file.nodes, list)
  BY <1>1, DocumentRead DEF StartInv, KnowsFile
<1>3. DOMAIN list \subseteq Nat /\ \A u \in DOMAIN list : DeviceShape(list[u])
  BY <1>2, ReadShape
<1>4. /\ made.ok => \A u \in DOMAIN list : /\ DeviceHolds(list[u], made.value[u])
                                           /\ DeviceNotOver(debug, list[u])
      /\ ~made.ok => \E u \in DOMAIN list : DeviceTrouble(list[u], made.error)
  BY <1>3, DevicesMade
<1> HIDE DEF made
<1>5. CASE ~made.ok
  <2>1. Known(made.error, file, debug, list)
    BY <1>3, <1>4, <1>5, TroubleKnown
  <2> QED BY <1>1, <1>5, <2>1, Exits
<1>6. CASE made.ok
  <2>1. /\ devices' = made.value /\ pc' = "spawn"
        /\ UNCHANGED <<list, modbus, bound, request, page, exit>>
    BY <1>1, <1>6
  <2>2. Held(list, made.value) /\ NothingOver(debug, list)
    BY <1>4, <1>6 DEF Held, NothingOver, DeviceHolds
  <2>3. KnowsFile'
    BY <1>1, <1>2, <2>1 DEF StartInv, KnowsFile, Places
  <2>4. KnowsDevices'
    BY <2>1, <2>2 DEF KnowsDevices
  <2>5. KnowsPage'
    BY <1>1, <2>1 DEF StartInv, KnowsPage, None, Nobody
  <2>6. Known(exit, file, debug, list)'
    BY <1>1, <2>1 DEF Known
  <2> QED BY <2>3, <2>4, <2>5, <2>6 DEF StartInv
<1> QED BY <1>5, <1>6

LEMMA FailureExits ==
  ASSUME StartInv, NEW how \in {"success", "failure"}, pc # "parse", Exit(how),
         UNCHANGED <<debug, file, options>>
  PROVE  StartInv'
<1>1. Known(how, file, debug, list)
  BY DEF Known
<1> QED BY <1>1, Exits

LEMMA MainKeeps ==
  ASSUME StartInv, UNCHANGED <<debug, file, options>>,
         \/ SpawnModbus \/ SerialPortFails \/ SetUpWeb \/ BindOrAcceptFails \/ Join
  PROVE  StartInv'
<1>1. CASE SpawnModbus
  <2>1. /\ pc = "spawn" /\ pc' = "web"
        /\ UNCHANGED <<list, devices, bound, request, page, exit>>
    BY <1>1 DEF SpawnModbus, GoTo
  <2> QED BY <2>1 DEF StartInv, KnowsFile, KnowsDevices, KnowsPage, None, Nobody, Places
<1>2. CASE SerialPortFails
  BY <1>2, FailureExits DEF SerialPortFails
<1>3. CASE SetUpWeb
  <2>1. /\ pc = "web" /\ pc' = "select"
        /\ UNCHANGED <<list, devices, bound, request, page, exit>>
    BY <1>3 DEF SetUpWeb, GoTo
  <2> QED BY <2>1 DEF StartInv, KnowsFile, KnowsDevices, KnowsPage, None, Nobody, Places
<1>4. CASE BindOrAcceptFails
  BY <1>4, FailureExits DEF BindOrAcceptFails
<1>5. CASE Join
  BY <1>5, FailureExits DEF Join
<1> QED BY <1>1, <1>2, <1>3, <1>4, <1>5

LEMMA HandleKeeps ==
  ASSUME StartInv, Running, UNCHANGED <<debug, file, options>>, Handle
  PROVE  StartInv'
<1> DEFINE built == PageOf(list)
<1>1. /\ request \in Requests
      /\ request' = IF Answer(request, built) = "lost" THEN "lost" ELSE None
      /\ page' = IF request = "page" /\ built.ok THEN built.value ELSE page
      /\ UNCHANGED <<pc, list, devices, modbus, bound, exit>>
  BY DEF Handle, BuildPage, PageOf
<1>2. pc = "select"
  BY <1>1 DEF StartInv, KnowsPage, Requests, None
<1>3. IsDocument(file.nodes) /\ Read(file.nodes, list) /\ NothingOver(debug, list)
  BY <1>2, DocumentRead DEF StartInv, KnowsFile, KnowsDevices
<1>4. DOMAIN list \subseteq Nat /\ \A u \in DOMAIN list : DeviceShape(list[u])
  BY <1>3, ReadShape
<1>5. /\ built.ok => /\ DOMAIN built.value = DOMAIN list
                     /\ \A u \in DOMAIN list : DeviceNamed(list[u], built.value[u])
      /\ ~built.ok => \E u \in DOMAIN list : DeviceLacking(list[u])
  BY <1>3, <1>4, PageBuilt DEF NothingOver
<1> HIDE DEF built
<1>6. built.ok => PageNames(list, built.value)
  BY <1>5 DEF PageNames, DeviceNamed
<1>7. Answer(request, built) = "lost" => Lacking(list)
  <2>1. built.ok => Answer(request, built) # "lost"
    BY <1>1 DEF Answer, Requests
  <2> QED BY <1>5, <2>1 DEF Lacking
<1>8. KnowsPage'
  <2>1. PageNames(list, page) /\ PageNames(list, page')
    BY <1>1, <1>6 DEF StartInv, KnowsPage
  <2>2. request' = "lost" => Lacking(list)
    BY <1>1, <1>7 DEF None
  <2> QED BY <1>1, <1>2, <2>1, <2>2 DEF KnowsPage
<1> QED BY <1>1, <1>8 DEF StartInv, KnowsFile, KnowsDevices, Places, Nobody

LEMMA WebKeeps ==
  ASSUME StartInv, UNCHANGED <<debug, file, options>>,
         \/ Bind \/ ModbusEnds \/ Reconnect \/ \E r \in Requests : Ask(r)
  PROVE  StartInv'
<1>1. /\ UNCHANGED <<pc, list, devices, page, exit>>
      /\ \/ bound' /\ pc = "select" /\ request' = request
         \/ bound' = bound /\ request' = request
         \/ bound' = bound /\ request' = None
         \/ bound' = bound /\ bound /\ request' \in Requests
  BY DEF Bind, ModbusEnds, Reconnect, Ask
<1>2. KnowsFile' /\ KnowsDevices' /\ Known(exit, file, debug, list)'
  BY <1>1 DEF StartInv, KnowsFile, KnowsDevices, Places, Nobody
<1>3. KnowsPage'
  <2>1. "lost" \notin Requests
    BY DEF Requests
  <2>2. request' = "lost" => request = "lost"
    BY <1>1, <2>1 DEF None
  <2> QED BY <1>1, <2>2 DEF StartInv, KnowsPage, None, Nobody
<1> QED BY <1>2, <1>3 DEF StartInv

LEMMA NextKeeps ==
  ASSUME StartInv, [Next]_vars
  PROVE  StartInv'
<1>1. CASE UNCHANGED vars
  BY <1>1, Stays
<1>2. CASE Next /\ Running
  <2>1. UNCHANGED <<debug, file, options>>
    BY <1>2 DEF Next
  <2>2. \/ Open \/ Parsing \/ NewDevices \/ SpawnModbus \/ SerialPortFails \/ SetUpWeb
        \/ Bind \/ BindOrAcceptFails \/ Join
        \/ ModbusEnds
        \/ Handle \/ Reconnect \/ \E r \in Requests : Ask(r)
    BY <1>2 DEF Next
  <2> QED BY <1>2, <2>1, <2>2, OpenKeeps, ParsingKeeps, NewDevicesKeeps, MainKeeps, HandleKeeps, WebKeeps
<1>3. CASE Next /\ ~Running
  BY <1>3, Stays DEF Next
<1> QED BY <1>1, <1>2, <1>3

(***************************************************************************)
(* The invariant holds from the start of the process to its end.           *)
(***************************************************************************)
THEOREM StartUpIsKept == Spec => []StartInv
<1>1. Init => StartInv
  BY InitHolds
<1>2. StartInv /\ [Next]_vars => StartInv'
  BY NextKeeps
<1> QED BY <1>1, <1>2, PTL DEF Spec

-----------------------------------------------------------------------------
(***************************************************************************)
(* The invariant says what the runs check.                                 *)
(***************************************************************************)
LEMMA InvariantReads == StartInv => ReadsTheDocument
<1> SUFFICES ASSUME StartInv PROVE ReadsTheDocument
  OBVIOUS
<1>1. Units = UnitsIn(Document)
  BY DEF Units, UnitsIn, UnitOf
<1>2. \A u, a : SectionsOf(u, a) = SectionsIn(Document, u, a)
  BY DEF SectionsOf, SectionsIn, DeviceOf, DeviceIn, DevicesAt, UnitOf
<1>3. \A u, a : ElementsOf(u, a) = ItemsIn(Document, u, a)
  BY <1>2 DEF ElementsOf, ItemsIn, SectionIn, ContextAround
<1>4. pc = "parse" /\ exit = "failure" => ~Valid(Document)
  BY DEF StartInv, KnowsFile, Document
<1>5. ASSUME pc = "devices"
      PROVE  /\ Valid(Document)
             /\ DOMAIN list = Units
             /\ \A u \in Units, a \in Areas :
                   /\ DOMAIN list[u][a] = ElementsOf(u, a)
                   /\ \A i \in ElementsOf(u, a) : /\ list[u][a][i].in = Document[i].in
                                                  /\ Says(list[u][a][i], Document[i])
  <2>1. Read(Document, list)
    BY <1>5 DEF StartInv, KnowsFile, Document
  <2>2. \A u \in Units, a \in Areas : ListRead(Document, u, a, list[u][a])
    BY <1>1, <2>1 DEF Read
  <2>3. \A u \in Units, a \in Areas :
           /\ DOMAIN list[u][a] = ElementsOf(u, a)
           /\ \A i \in ElementsOf(u, a) : /\ list[u][a][i].in = Document[i].in
                                          /\ Says(list[u][a][i], Document[i])
    BY <1>3, <2>2 DEF ListRead, ItemRead
  <2> QED BY <1>1, <2>1, <2>3 DEF Read
<1> QED BY <1>4, <1>5 DEF ReadsTheDocument

LEMMA InvariantStores == StartInv => InitialValuesAreStored
<1>1. Held(list, devices) <=>
         \A u \in DOMAIN list, a \in Areas :
            LET tags == TagsOf(u, a)
                array == devices[u][a]
                setter == [x \in DOMAIN array |-> {i \in DOMAIN tags : Sets(tags[i]) /\ x \in At(tags[i])}]
            IN  /\ \A x \in DOMAIN array : setter[x] = {} => array[x] = 0
                /\ \A i \in DOMAIN tags :
                      Sets(tags[i]) /\ (\A x \in At(tags[i]) : Max(setter[x]) = i) =>
                          Stands(tags[i], [k \in 1 .. Count(tags[i]) |->
                                              array[Wrap(tags[i].low) + k - 1]])
  BY DEF Held, AreaHolds, TagsOf
<1> QED BY <1>1 DEF StartInv, KnowsDevices, InitialValuesAreStored

LEMMA InvariantPanics == StartInv => PanicsAreKnown
<1>1. Tagged = TaggedIn(list)
  BY DEF Tagged, TaggedIn, TagsOf
<1>2. Texts = Texted(file.nodes)
  BY DEF Texts, Texted, Document
<1> QED BY <1>1, <1>2 DEF StartInv, Known, PanicsAreKnown, TagTrouble, Negates

LEMMA InvariantNames == StartInv => PageNamesEveryTag
<1> SUFFICES ASSUME StartInv PROVE PageNamesEveryTag
  OBVIOUS
<1>1. Tagged = TaggedIn(list)
  BY DEF Tagged, TaggedIn, TagsOf
<1>2. ASSUME request = "lost"
      PROVE  \E t \in Tagged : "scale" \in DOMAIN t /\ t.scale.kind # "number"
  <2>1. pc = "select" /\ Lacking(list)
    BY <1>2 DEF StartInv, KnowsPage, None
  <2>2. IsDocument(file.nodes) /\ Read(file.nodes, list)
    BY <2>1, DocumentRead DEF StartInv, KnowsFile
  <2>3. \A u \in DOMAIN list : DeviceShape(list[u])
    BY <2>2, ReadShape
  <2>4. PICK u \in DOMAIN list, a \in Areas : LackingScale(list[u][a])
    BY <2>1 DEF Lacking, DeviceLacking
  <2>5. PICK i \in TagsAmong(list[u][a]) : LacksScale(Absolute(list[u][a])[i])
    BY <2>4 DEF LackingScale
  <2>6. Absolute(list[u][a])[i] \in Tagged
    BY <1>1, <2>3, TaggedLemma
  <2> QED BY <2>5, <2>6 DEF LacksScale
<1>3. PageNames(list, page)
  BY DEF StartInv, KnowsPage
<1> QED BY <1>2, <1>3 DEF PageNames, Named, PageNamesEveryTag

(***************************************************************************)
(* A document is read if and only if it keeps to the grammar at every      *)
(* depth, and what is read is its groups, tags and fields, each in the     *)
(* group or tag it is in and at the address it has there                   *)
(* (parse_device_list).                                                    *)
(***************************************************************************)
THEOREM DocumentIsRead == Spec => []ReadsTheDocument
BY StartUpIsKept, InvariantReads, PTL

(***************************************************************************)
(* After Devices::new an element holds what the last tag with an           *)
(* acceptable initial value says, as the encoding of that tag means it,    *)
(* or 0.                                                                   *)
(***************************************************************************)
THEOREM InitialValuesStored == Spec => []InitialValuesAreStored
BY StartUpIsKept, InvariantStores, PTL

(***************************************************************************)
(* The program does not start, without an error message, only for a file   *)
(* that is not XML, an initial value over the end of the addresses and, in *)
(* a debug build, the known overflows (main, Devices::new).                *)
(***************************************************************************)
THEOREM OnlyKnownPanics == Spec => []PanicsAreKnown
BY StartUpIsKept, InvariantPanics, PTL

(***************************************************************************)
(* The page has an input for every tag and field at the address that is    *)
(* polled for it, and a browser is left without an answer only because of  *)
(* a scale that is not a number (build_page).                              *)
(***************************************************************************)
THEOREM PageNamesTags == Spec => []PageNamesEveryTag
BY StartUpIsKept, InvariantNames, PTL
=============================================================================

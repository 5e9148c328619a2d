----------------------------- MODULE MCStartUp ------------------------------
(***************************************************************************)
(* Documents for StartUp: every list of up to two of some twenty tags and  *)
(* groups, good and bad, and documents of more devices and areas.          *)
(***************************************************************************)
EXTENDS StartUp

(***************************************************************************)
(* Documents are written nested here.                                      *)
(***************************************************************************)
RECURSIVE Flat(_, _, _)
Flat(elements, parent, before) ==     \* in document order, after `before` other nodes
    FoldLeft(LAMBDA nodes, x :
                 LET number == before + Len(nodes) + 1
                     node == [key \in ({"in"} \cup DOMAIN x) \ {"children"} |->
                                 IF key = "in" THEN parent ELSE x[key]]
                 IN  nodes \o <<node>> \o
                     (IF x.is = "text" THEN << >> ELSE Flat(x.children, number, number)),
             << >>, elements)

Node(tag, attr, children) ==
    [is |-> "element", known |-> TRUE, tag |-> tag, attr |-> attr, children |-> children]
Text(blank) == [is |-> "text", blank |-> blank]
N(number) == [kind |-> "number", value |-> number, begins |-> "neither", bytes |-> <<1>>]
Begins == [little |-> "little", big |-> "big"]
          @@ ("little-endian" :> "little") @@ ("big-endian" :> "big")
W(word) == [kind |-> "word", value |-> word, bytes |-> <<1, 3, 2>>,
            begins |-> IF word \in DOMAIN Begins THEN Begins[word] ELSE "neither"]
NoAttr == << >>

Register(addr, attr) == Node("register", ("addr" :> N(addr)) @@ attr, << >>)
RegRange(low, high, attr) ==
    Node("register-range", ("addr-low" :> N(low)) @@ ("addr-high" :> N(high)) @@ attr, << >>)
Reg(addr, children) == Node("register", "addr" :> N(addr), children)
GroupOf(base, items) == Node("group", "base-addr" :> N(base), items)
Bit(addr, attr) == Node("bit", ("addr" :> N(addr)) @@ attr, << >>)
Starts(v) == "initial-value" :> N(v)
FieldOf(attr, children) == Node("field", attr, children)
Enum(attr) == Node("enum", attr, << >>)

Little == ("byte-order" :> W("little")) @@ ("word-order" :> W("little"))
IsSigned == "sign" :> W("signed")
Kind(type) == "value-type" :> W(type)

GoodItems == {
    Register(1, Starts(3)),
    Register(1, NoAttr),
    RegRange(2, 3, Starts(-4) @@ IsSigned @@ ("word-order" :> W("little"))),
    RegRange(1, 2, Starts(99) @@ ("scale" :> N(2)) @@ ("byte-order" :> W("little-endian"))
                 @@ ("word-order" :> W("big-endian"))),
    RegRange(3, 5, ("initial-value" :> W("abc")) @@ Kind("string") @@ ("fill" :> N(2)) @@ Little),
    RegRange(6, 7, Starts(77) @@ Kind("float")),
    RegRange(4, 2, Starts(5)),
    RegRange(0, 3, Starts(1000) @@ Kind("float") @@ Little),
    Register(0, Starts(-1)),
    Register(2, Starts(16)),
    Register(2, Starts(12) @@ IsSigned),
    Register(5, Starts(1) @@ ("scale" :> W("NaN"))),
    Register(-4, NoAttr),
    GroupOf(3, <<RegRange(1, 2, Starts(50)), Text(TRUE), GroupOf(1, <<Register(0, Starts(7))>>)>>),
    GroupOf(3, <<RegRange(4, 5, Starts(6))>>),
    GroupOf(7, <<GroupOf(3, << >>)>>),
    Reg(1, <<FieldOf("bit" :> N(1), << >>),
             FieldOf(("bit-low" :> N(0)) @@ ("bit-high" :> N(2)),
                   <<Enum(("label" :> W("on")) @@ ("value" :> N(1)))>>)>>)}
BadItems == {
    Text(FALSE),
    [Register(1, NoAttr) EXCEPT !.known = FALSE],
    Bit(1, NoAttr),
    Register(8, NoAttr),
    Node("register-range", "addr-low" :> N(1), << >>),
    Register(1, Kind("double")),
    Register(1, "sign" :> W("minus")),
    Register(1, "word-order" :> W("middle")),
    Register(1, "radix" :> W("ten")),
    GroupOf(1, <<Reg(1, <<FieldOf("bit-low" :> N(1), << >>)>>)>>),
    Reg(1, <<FieldOf(("bit" :> N(1)) @@ ("bit-low" :> N(1)) @@ ("bit-high" :> N(2)), << >>)>>),
    Reg(1, <<FieldOf("bit" :> N(1), <<Enum("value" :> N(1))>>)>>)}

Device(addr, sections) == Node("device", "addr" :> N(addr), sections)
Area(area, items) == Node(area, NoAttr, items)
DocumentOf(units) == [is |-> "document", nodes |-> Flat(units, 0, 0)]
Holding(items) == DocumentOf(<<Device(1, <<Area("holding-registers", items)>>)>>)
Simple == Register(1, Starts(3))
Coils == Area("coils", <<Bit(1, Starts(1)), GroupOf(2, <<Bit(1, "initial-value" :> W("true")), Bit(2, NoAttr)>>)>>)

ListDocuments ==
    {Holding(items) :
        items \in BoundedSeq(GoodItems, 2) \cup {<<g, b>> : g \in {Simple}, b \in BadItems}
                  \cup {<<b, g>> : g \in {Simple}, b \in BadItems}}
OtherDocuments == {
    DocumentOf(<< >>),
    DocumentOf(<<Text(TRUE), Device(1, << >>)>>),
    DocumentOf(<<Node("unit", "addr" :> N(1), << >>)>>),
    DocumentOf(<<Node("device", NoAttr, << >>)>>),
    DocumentOf(<<Device(4, << >>)>>),
    Holding(<<RegRange(0, 4, Starts(3))>>),
    Holding(<<GroupOf(4, <<RegRange(4, 2, Starts(3))>>)>>),
    Holding(<<RegRange(0, 7, ("initial-value" :> W("abc")) @@ Kind("string"))>>),
    Holding(<<RegRange(0, 1, ("initial-value" :> W("NaN")) @@ Kind("float")), Simple>>),
    DocumentOf(<<Device(1, <<Area("coils", <<Node("bit", "addr" :> N(2),
                     <<Text(FALSE), Bit(3, Starts(1)), Node("group", NoAttr, <<Simple>>)>>)>>)>>)>>),
    DocumentOf(<<Device(1, <<Area("registers", <<Simple>>)>>)>>),
    DocumentOf(<<Device(1, <<Coils, Area("discrete-inputs", <<Bit(7, Starts(1))>>)>>)>>),
    DocumentOf(<<Device(1, <<Area("coils", <<Simple>>)>>)>>),
    DocumentOf(<<Device(1, <<Area("coils", <<Bit(1, Starts(2))>>)>>)>>),
    DocumentOf(<<Device(1, <<Area("input-registers", <<Simple>>), Text(TRUE), Coils,
                           Area("input-registers", <<Register(2, NoAttr)>>)>>)>>),
    DocumentOf(<<Device(2, <<Area("input-registers", <<Simple>>)>>), Device(1, <<Coils>>)>>),
    DocumentOf(<<Device(1, <<Area("input-registers", <<Simple>>)>>), Device(1, <<Coils>>)>>)}

MCFiles == {[is |-> "missing"], [is |-> "unreadable"]} \cup ListDocuments \cup OtherDocuments

MCOptions == [server : BOOLEAN, serial : BOOLEAN]
=============================================================================

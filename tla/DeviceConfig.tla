---------------------------- MODULE DeviceConfig ----------------------------
(***************************************************************************)
(* From the XML document to the list of devices: device_list_xml.rs,       *)
(* tag_list_xml.rs, xml_common.rs, device_list.rs.                         *)
(*                                                                         *)
(* A document is what roxmltree makes of it: the sequence of its nodes, in *)
(* the order they start in, each with the number of the node it is in, or  *)
(* 0 in the root.  A node is an element with its attributes, or a text.    *)
(* The text of an attribute is [kind, value, begins, bytes]: a "number"    *)
(* written in any of the accepted ways, or another "word", which may begin *)
(* with "little" or "big".  Comments are left out: they are skipped like   *)
(* blank text.                                                             *)
(*                                                                         *)
(* Every parser returns Good(value) or Bad(error).  The code returns at    *)
(* the first error; the parsers here have no effects, so looking for the   *)
(* first error among all results is the same.                              *)
(***************************************************************************)
EXTENDS TagTree

Orders == {"little", "big"}
IsText(t) == /\ t.kind \in {"number", "word"} /\ (t.kind = "number" => t.value \in Int)
             /\ t.begins \in Orders \cup {"neither"}
             /\ t.begins \in Orders => t.kind = "word"
             /\ t.kind = "word" /\ t.value \in Orders => t.begins = t.value
             /\ t.bytes \in Seq(0 .. Byte - 1)
IsNode(n) ==
    CASE n.is = "element" -> n.known \in BOOLEAN /\ \A name \in DOMAIN n.attr : IsText(n.attr[name])
      [] n.is = "text"    -> n.blank \in BOOLEAN
      [] OTHER            -> FALSE
IsDocument(doc) ==
    /\ doc \in Seq(Range(doc))
    /\ \A i \in DOMAIN doc : /\ IsNode(doc[i]) /\ doc[i].in \in 0 .. i - 1
                             /\ doc[i].in # 0 => doc[doc[i].in].is = "element"

(***************************************************************************)
(* The nodes around each node.                                             *)
(***************************************************************************)
Around(doc) ==
    LET around[i \in 0 .. Len(doc)] ==
            IF i = 0 THEN {} ELSE {doc[i].in} \cup around[doc[i].in]
    IN  around

-----------------------------------------------------------------------------
Num(v) == [kind |-> "number", value |-> v]
Is(text, word) == text.kind = "word" /\ text.value = word

Good(v) == [ok |-> TRUE, value |-> v]
Bad(e) == [ok |-> FALSE, error |-> e]

With(results, Then(_)) ==
    LET bad == {i \in DOMAIN results : ~results[i].ok}
    IN  IF bad = {} THEN Then([i \in DOMAIN results |-> results[i].value])
        ELSE results[Min(bad)]

-----------------------------------------------------------------------------
(***************************************************************************)
(* FromStr of the types of attributes.  ParsedU16 negates the digits as an *)
(* i16: -32768 overflows, every other number is taken modulo 2^16.         *)
(***************************************************************************)
Str(text) == Good(text)
U8(text) ==
    IF text.kind = "number" /\ text.value \in 0 .. Byte - 1
    THEN Good(text.value) ELSE Bad("ParseAttribute")
F32(text) ==
    IF text.kind = "number" \/ Is(text, "NaN") THEN Good(text) ELSE Bad("ParseAttribute")
Boolean(text) ==
    IF text.kind = "number" /\ text.value \in {0, 1} THEN Good(text.value)
    ELSE IF Is(text, "true") THEN Good(1)
    ELSE IF Is(text, "false") THEN Good(0) ELSE Bad("ParseAttribute")
U16(text) ==
    IF text.kind = "number" /\ text.value \in 1 - Size .. Size - 1
    THEN IF debug /\ 2 * text.value = -Size THEN Bad("panic") ELSE Good(Wrap(text.value))
    ELSE Bad("ParseAttribute")

LittleFirst(text) ==            \* starts_with, for the bytes and for the words
    CASE text.begins = "little"  -> Good(TRUE)
      [] text.begins = "big"     -> Good(FALSE)
      [] text.begins = "neither" -> Bad("InvalidByteOrder")
Signed(text) ==
    IF Is(text, "signed") THEN Good(TRUE)
    ELSE IF Is(text, "unsigned") THEN Good(FALSE) ELSE Bad("InvalidSign")

Has(node, name) == name \in DOMAIN node.attr
Required(node, name, Parse(_)) ==
    IF Has(node, name) THEN Parse(node.attr[name]) ELSE Bad("MissingAttribute")
Optional(node, name, Parse(_), default) ==
    IF Has(node, name) THEN Parse(node.attr[name]) ELSE Good(default)

(***************************************************************************)
(* Of the presentation only the scale has a meaning, the other attributes  *)
(* must parse.                                                             *)
(***************************************************************************)
ParsePresentation(node) ==
    With(<<Optional(node, "scale", F32, Num(1)), Optional(node, "unit", Str, Num(0)),
           Optional(node, "radix", U8, 10), Optional(node, "decimals", U8, 2)>>,
         LAMBDA r : Good(r[1]))

ValueType(node) ==
    LET type == IF Has(node, "value-type") THEN node.attr["value-type"]
                ELSE [kind |-> "word", value |-> "integer"]
        Typed(name, signed, fill) == [type |-> name, signed |-> signed, fill |-> fill]
    IN  IF Is(type, "integer")
        THEN With(<<Optional(node, "sign", Signed, FALSE)>>,
                  LAMBDA r : Good(Typed("integer", r[1], 0)))
        ELSE IF Is(type, "float") THEN Good(Typed("float", FALSE, 0))
        ELSE IF Is(type, "string")
        THEN With(<<Optional(node, "fill", U8, 0)>>,
                  LAMBDA r : Good(Typed("string", FALSE, r[1])))
        ELSE Bad("InvalidValueType")

ParseEncoding(node) ==
    With(<<Optional(node, "byte-order", LittleFirst, FALSE),
           Optional(node, "word-order", LittleFirst, FALSE), ValueType(node)>>,
         LAMBDA r : Good([type |-> r[3].type, signed |-> r[3].signed, fill |-> r[3].fill,
                          byte_le |-> r[1], word_le |-> r[2]]))

ParseEnum(node) ==
    With(<<Required(node, "label", Str), Required(node, "value", U16)>>,
         LAMBDA r : Good([enum |-> r[2]]))

BitOrLow(node) ==       \* mutant of BitRange: bit wins over bit-low and bit-high
    IF Has(node, "bit") THEN Good("bit")
    ELSE IF Has(node, "bit-low") /\ Has(node, "bit-high") THEN Good("low") ELSE Bad("BitRange")
BitRange(node) ==
    LET given == {name \in {"bit", "bit-low", "bit-high"} : Has(node, name)}
    IN  IF given = {"bit"} THEN Good("bit")
        ELSE IF given = {"bit-low", "bit-high"} THEN Good("low")
        ELSE Bad("BitRange")

ParseRegisterField(node) ==
    With(<<Optional(node, "bit", U8, 0), Optional(node, "bit-low", U8, 0),
           Optional(node, "bit-high", U8, 0), Optional(node, "label", Str, Num(0)),
           BitRange(node), ParsePresentation(node)>>,
         LAMBDA r : Good([in |-> node.in, bit_low |-> IF r[5] = "bit" THEN r[1] ELSE r[2],
                          bit_high |-> IF r[5] = "bit" THEN r[1] ELSE r[3]]))

ParseRegister(node) ==
    LET low == IF node.tag = "register" THEN "addr" ELSE "addr-low"
        high == IF node.tag = "register" THEN "addr" ELSE "addr-high"
    IN  With(<<Required(node, low, U16), Required(node, high, U16),
               Optional(node, "label", Str, Num(0)), ParsePresentation(node),
               ParseEncoding(node)>>,
             LAMBDA r : Good([in |-> node.in, low |-> r[1], high |-> r[2], scale |-> r[4],
                              initial |-> Has(node, "initial-value"),
                              value |-> IF Has(node, "initial-value")
                                        THEN node.attr["initial-value"] ELSE Num(0),
                              encoding |-> r[5]]))

ParseBit(node) ==
    With(<<Required(node, "addr", U16), Optional(node, "label", Str, Num(0)),
           Optional(node, "initial-value", Boolean, 0)>>,
         LAMBDA r : Good([in |-> node.in, low |-> r[1], high |-> r[1], initial |-> TRUE,
                          bit |-> r[3]]))

ParseGroup(node) ==
    With(<<Optional(node, "base-addr", U16, 0), Optional(node, "label", Str, Num(0))>>,
         LAMBDA r : Good([in |-> node.in, base |-> r[1]]))

-----------------------------------------------------------------------------
(***************************************************************************)
(* Each parser looks at the attributes of its node and then at the nodes   *)
(* in it: it takes elements it knows and skips blank text.                 *)
(***************************************************************************)
RegisterAreas == {"holding-registers", "input-registers"}
BitAreas == {"discrete-inputs", "coils"}
Areas == RegisterAreas \cup BitAreas
Registers == {"register", "register-range"}

ElementTaken(parser, n) ==
    CASE parser = "device_list" /\ n.tag = "device" -> Required(n, "addr", U8)
      [] parser = "tag_list" /\ n.tag \in Areas -> Good(n.tag)
      [] parser = "registers" /\ n.tag \in Registers -> ParseRegister(n)
      [] parser = "bits" /\ n.tag = "bit" -> ParseBit(n)
      [] parser \in {"registers", "bits"} /\ n.tag = "group" -> ParseGroup(n)
      [] parser = "register" /\ n.tag = "field" -> ParseRegisterField(n)
      [] parser \in {"register", "field"} /\ n.tag = "enum" -> ParseEnum(n)
      [] OTHER -> Bad("UnexpectedElement")

NodeTaken(parser, n) ==
    IF parser = "none" THEN Good("ignored")
    ELSE IF n.is = "text" THEN (IF n.blank THEN Good("skipped") ELSE Bad("UnexpectedText"))
    ELSE IF ~n.known THEN Bad("WrongNamespace")
    ELSE ElementTaken(parser, n)

(***************************************************************************)
(* The parser of the nodes in each node.  Nobody looks into a bit or an    *)
(* enum.                                                                   *)
(***************************************************************************)
ParserIn(parser, n) ==
    IF parser = "none" THEN "none"
    ELSE CASE n.tag = "device"        -> "tag_list"
           [] n.tag \in RegisterAreas -> "registers"
           [] n.tag \in BitAreas      -> "bits"
           [] n.tag = "group"         -> parser
           [] n.tag \in Registers     -> "register"
           [] n.tag = "field"         -> "field"
           [] OTHER                   -> "none"
Parsers(doc) ==
    LET parser[i \in 0 .. Len(doc)] ==
            IF i = 0 THEN "device_list" ELSE ParserIn(parser[doc[i].in], doc[i])
    IN  parser

NodesTaken(doc) ==
    LET parser == Parsers(doc)
    IN  [i \in DOMAIN doc |-> NodeTaken(parser[doc[i].in], doc[i])]

(***************************************************************************)
(* The list of a section: its groups, its tags and their fields, by the    *)
(* numbers of their nodes.                                                 *)
(***************************************************************************)
ElementsIn(doc, i) == {j \in DOMAIN doc : doc[j].is = "element" /\ doc[j].in = i}
ListOf(doc, r, section) ==
    [j \in {k \in DOMAIN doc : /\ doc[k].is = "element" /\ section \in Around(doc)[k]
                              /\ \/ Parsers(doc)[doc[k].in] \in {"registers", "bits"}
                                 \/ Parsers(doc)[doc[k].in] = "register" /\ doc[k].tag = "field"}
        |-> r[j]]

(***************************************************************************)
(* A section that occurs again replaces the one before, and so does a      *)
(* device with the same address (BTreeMap::insert).                        *)
(***************************************************************************)
TagList(doc, r, device) ==
    [a \in Areas |->
        LET sections == {i \in ElementsIn(doc, device) : doc[i].tag = a}
        IN  IF sections = {} THEN << >> ELSE ListOf(doc, r, Max(sections))]
DeviceList(doc, r) ==
    [u \in {r[i] : i \in ElementsIn(doc, 0)} |->
        TagList(doc, r, Max({i \in ElementsIn(doc, 0) : r[i] = u}))]
ParseDeviceList(doc) == With(NodesTaken(doc), LAMBDA r : Good(DeviceList(doc, r)))

-----------------------------------------------------------------------------
(***************************************************************************)
(* What a document has to be: the grammar, by element and context.  For an *)
(* order config-schema_v2.xsd lists the words big and little; the grammar  *)
(* here is wider, and takes every word that begins with one of them.       *)
(***************************************************************************)
InContext ==
    [root |-> [device |-> "device"],
     device |-> [a \in Areas |-> IF a \in RegisterAreas THEN "registers" ELSE "bits"],
     registers |-> [t \in Registers \cup {"group"} |->
                       IF t = "group" THEN "registers" ELSE "register"],
     bits |-> [bit |-> "any", group |-> "bits"],
     register |-> [field |-> "field", enum |-> "any"],
     field |-> [enum |-> "any"]]
Contexts(doc) ==
    LET context[i \in 0 .. Len(doc)] ==
            IF i = 0 THEN "root"
            ELSE LET around == context[doc[i].in]
                 IN  IF doc[i].is = "element" /\ around \in DOMAIN InContext
                        /\ doc[i].tag \in DOMAIN InContext[around]
                     THEN InContext[around][doc[i].tag] ELSE "any"
    IN  context

IsNumber(node, name, numbers) ==
    Has(node, name) => node.attr[name].kind = "number" /\ node.attr[name].value \in numbers
IsWord(node, name, words) ==
    Has(node, name) => node.attr[name].kind = "word" /\ node.attr[name].value \in words
IsOrder(node, name) ==
    Has(node, name) => node.attr[name].kind = "word" /\ node.attr[name].begins \in Orders

Numbers16 == 1 - Size .. Size - 1
Numbers8 == 0 .. Byte - 1
Needs(node) ==
    CASE node.tag = "device"   -> {"addr"}      [] node.tag = "register" -> {"addr"}
      [] node.tag = "enum"     -> {"label", "value"} [] node.tag = "bit" -> {"addr"}
      [] node.tag = "register-range" -> {"addr-low", "addr-high"}
      [] OTHER -> {}
Shown(node) == \A name \in {"radix", "decimals"} : IsNumber(node, name, Numbers8)
WellWritten(node) ==
    /\ Needs(node) \subseteq DOMAIN node.attr
    /\ node.tag \in {"register", "bit"} => IsNumber(node, "addr", Numbers16)
    /\ node.tag = "device" => IsNumber(node, "addr", Numbers8)
    /\ node.tag = "group" => IsNumber(node, "base-addr", Numbers16)
    /\ node.tag = "enum" => IsNumber(node, "value", Numbers16)
    /\ node.tag = "bit" => \/ IsNumber(node, "initial-value", {0, 1})
                           \/ IsWord(node, "initial-value", {"true", "false"})
    /\ node.tag = "field" =>
          /\ \A name \in {"bit", "bit-low", "bit-high"} : IsNumber(node, name, Numbers8)
          /\ Has(node, "bit") # Has(node, "bit-low") /\ Has(node, "bit-low") = Has(node, "bit-high")
    /\ node.tag \in {"register", "register-range", "field"} =>
          /\ Shown(node)
          /\ Has(node, "scale") => IsNumber(node, "scale", Int) \/ IsWord(node, "scale", {"NaN"})
    /\ node.tag = "register-range" =>
          IsNumber(node, "addr-low", Numbers16) /\ IsNumber(node, "addr-high", Numbers16)
    /\ node.tag \in {"register", "register-range"} =>
          /\ IsOrder(node, "byte-order") /\ IsOrder(node, "word-order")
          /\ IsWord(node, "value-type", {"integer", "float", "string"})
          /\ IsWord(node, "value-type", {"integer"}) =>
                IsWord(node, "sign", {"signed", "unsigned"})
          /\ Has(node, "value-type") /\ IsWord(node, "value-type", {"string"}) =>
                IsNumber(node, "fill", Numbers8)

Valid(doc) ==
    \A i \in DOMAIN doc :
        LET n == doc[i]
            context == Contexts(doc)[n.in]
        IN  context # "any" =>
               IF n.is = "text" THEN n.blank
               ELSE n.known /\ n.tag \in DOMAIN InContext[context] /\ WellWritten(n)
=============================================================================

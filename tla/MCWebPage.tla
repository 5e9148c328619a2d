------------------------------ MODULE MCWebPage ------------------------------
(***************************************************************************)
(* Pages for WebPage: every three integers in any places, for the index;   *)
(* and pairs of inputs of every encoding, with the fields of a register.   *)
(***************************************************************************)
EXTENDS WebPage

Encoding(type, signed, byte_le, word_le) ==
    [type |-> type, signed |-> signed, byte_le |-> byte_le, word_le |-> word_le, fill |-> 0]
Plain == Encoding("integer", FALSE, FALSE, FALSE)

InputAt(low, high, encoding) ==
    [unit |-> "unit", low |-> low, high |-> high, encoding |-> encoding, bits |-> << >>]
FieldAt(unit, low, high, bits) ==
    [unit |-> unit, low |-> low, high |-> high, encoding |-> Plain, bits |-> bits]

AnyPlace == {InputAt(r[1], r[2], Plain) : r \in {x \in Registers \X Registers : x[1] <= x[2]}}
IndexPages == [1 .. 3 -> AnyPlace]

Encodings == {Encoding(type, FALSE, b, w) : type \in {"integer", "float", "string"}, b, w \in BOOLEAN}
             \cup {Encoding("integer", TRUE, FALSE, w) : w \in BOOLEAN}
EncodingPages ==
    {<<InputAt(0, 1, e), InputAt(1, 1, Plain)>> : e \in Encodings}
    \cup {<<InputAt(0, high, Encoding("float", FALSE, FALSE, FALSE)), InputAt(0, 0, Plain)>> :
             high \in {0, 2}}

(***************************************************************************)
(* Fields that fit, of as many bits as a mask has, of one less, beyond the *)
(* register, and upside down.                                              *)
(***************************************************************************)
FieldPages == {
    <<InputAt(0, 0, Plain), FieldAt("unit", 0, 0, <<0, 0>>), FieldAt("NaN", 0, 0, <<0, 0>>),
      FieldAt("unit", 0, 0, <<1, 1>>)>>,
    <<InputAt(0, 1, Plain), FieldAt("unit", 0, 1, <<1, 2>>)>>,
    <<FieldAt("unit", 0, 1, <<0, 3>>), FieldAt("unit", 0, 2, <<1, 3>>)>>,
    <<FieldAt("unit", 0, 0, <<1, 2>>), FieldAt("unit", 0, 0, <<0, 0>>)>>,
    <<FieldAt("unit", 0, 0, <<1, 0>>), FieldAt("unit", 0, 0, <<5, 5>>)>>}

MCPages == IndexPages \cup EncodingPages \cup FieldPages
MCTexts == [integer |-> {-3, 1, 6}, float |-> {0, 6, 11},
            string |-> {<<1>>, <<1, 1, 1>>, << >>}]
MCNaN == [n \in {2, 4} |-> 7]
=============================================================================

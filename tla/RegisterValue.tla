---------------------------- MODULE RegisterValue ---------------------------
(***************************************************************************)
(* What the registers of a tag hold for a value, and the way back.  There  *)
(* are two encoders, register_value.rs for the initial values of the       *)
(* configuration and the "change" handler of web/modbus.js for edits, and   *)
(* one decoder, update_range of web/modbus.js.                             *)
(*                                                                         *)
(* An integer is an Int, a float the number its bit pattern is, a string   *)
(* the sequence of its bytes.  The conversions to and from decimal text    *)
(* are not modelled, nor is the scale both sides apply to it.  An encoding *)
(* says what the words are of, and in which order its bytes and words are. *)
(***************************************************************************)
EXTENDS Widths, SequencesExt

Word == Byte * Byte     \* number of values of a register
EncodingType == [type : {"integer", "float", "string"}, signed : BOOLEAN,
                 byte_le : BOOLEAN, word_le : BOOLEAN, fill : 0 .. Byte - 1]

(***************************************************************************)
(* b ^ n, for n >= 0, which the provers know nothing of.                   *)
(***************************************************************************)
Power(b, n) ==
    LET p[i \in 0 .. n] == IF i = 0 THEN 1 ELSE b * p[i - 1]
    IN  p[n]

WordOf(high, low) == high * Byte + low
Swapped(w) == WordOf(w % Byte, w \div Byte)
BytesLe(v, count) ==
    LET rest[i \in 0 .. count] == IF i = 0 THEN v ELSE rest[i - 1] \div Byte
    IN  [i \in 1 .. count |-> rest[i - 1] % Byte]

-----------------------------------------------------------------------------
(***************************************************************************)
(* register_value.rs.                                                      *)
(***************************************************************************)
ByteOrderOnly(e) == ~e.byte_le      \* mutant of HighFirst: not turned round for little words
HighFirst(e) == e.byte_le = e.word_le

BuildWordsFromLe(bytes, e) ==
    LET b == IF e.word_le THEN bytes ELSE Reverse(bytes)
    IN  [i \in 1 .. Len(b) \div 2 |->
            IF HighFirst(e) THEN WordOf(b[2 * i - 1], b[2 * i])
                            ELSE WordOf(b[2 * i], b[2 * i - 1])]

(***************************************************************************)
(* Two's complement, byte by byte: the carry lives until the first byte    *)
(* that is not 0.                                                          *)
(***************************************************************************)
Negated(bytes) ==
    [i \in DOMAIN bytes |->
        IF \E k \in 1 .. i - 1 : bytes[k] # 0 THEN Byte - 1 - bytes[i]
        ELSE IF bytes[i] = 0 THEN 0 ELSE Byte - bytes[i]]

Magnitude(v) == IF v < 0 THEN -v ELSE v
ByteLength(v) == CHOOSE k \in 1 .. v + 1 : /\ v < Power(Byte, k)
                                           /\ k > 1 => v >= Power(Byte, k - 1)

(***************************************************************************)
(* parse: the words, or an error, which Tags::new logs and forgets.        *)
(***************************************************************************)
Parsed(words) == [ok |-> TRUE, words |-> words]
Rejected == [ok |-> FALSE, words |-> << >>]

ParseInteger(v, count, e) ==
    LET bytes == BytesLe(Magnitude(v), 2 * count)
    IN  IF \/ v < 0 /\ ~e.signed                              \* Negative
           \/ ByteLength(Magnitude(v)) > Wrap(2 * count)      \* TooBig
        THEN Rejected
        ELSE Parsed(BuildWordsFromLe(IF v < 0 THEN Negated(bytes) ELSE bytes, e))

ParseFloat(pattern, count, e) ==
    IF count \notin {2, 4} THEN Rejected                      \* InvalidFloatLength
    ELSE Parsed(BuildWordsFromLe(BytesLe(pattern, 2 * count), e))

Filled(text, count, fill) ==
    [i \in 1 .. 2 * count |-> IF i <= Len(text) THEN text[i] ELSE fill]
StringWords(text, count, e) ==
    LET b == Filled(text, count, e.fill)
    IN  [i \in 1 .. count |-> IF e.byte_le THEN WordOf(b[2 * i], b[2 * i - 1])
                                           ELSE WordOf(b[2 * i - 1], b[2 * i])]

Parse(text, count, e) ==
    CASE e.type = "integer" -> ParseInteger(text, count, e)
      [] e.type = "float"   -> ParseFloat(text, count, e)
      [] e.type = "string"  -> Parsed(StringWords(text, count, e))

-----------------------------------------------------------------------------
(***************************************************************************)
(* The "change" handler.  An integer is masked and shifted out word by     *)
(* word; its bytes are never swapped, because `this` is the input and has   *)
(* no nativeBigEndian.  u16_to_dataview and its inverse do floats right.    *)
(***************************************************************************)
HighestFirst(e, i, count) == count - i      \* mutant of Significance: word order ignored
Significance(e, i, count) == IF e.word_le THEN i - 1 ELSE count - i

Digits(v, count, e) ==
    [i \in 1 .. count |-> (v \div Power(Word, Significance(e, i, count))) % Word]
EditedWords(v, count, e) ==
    CASE e.type = "integer" -> Digits(v, count, e)
      [] e.type = "float"   -> [i \in 1 .. count |->
                                  IF e.byte_le THEN Swapped(Digits(v, count, e)[i])
                                               ELSE Digits(v, count, e)[i]]
      [] e.type = "string"  -> StringWords(v, count, e)

(***************************************************************************)
(* update_range.  swap16 is a static method called as a function, and the  *)
(* second byte of a string with the low byte first is a call of undefined: *)
(* both throw, out of the loop over the inputs.                            *)
(***************************************************************************)
Throws(e) == e.byte_le /\ e.type \in {"integer", "string"}

Accumulated(words) ==       \* acc_int, word by word
    LET sum[k \in 0 .. Len(words)] == IF k = 0 THEN 0 ELSE sum[k - 1] * Word + words[k]
    IN  sum[Len(words)]
Number(words, e) ==
    Accumulated(IF e.word_le THEN Reverse(words) ELSE words)
TopWord(words, e) == IF e.word_le THEN Last(words) ELSE Head(words)

UpToFill(bytes, fill) ==
    SubSeq(bytes, 1, (CHOOSE k \in 0 .. Len(bytes) :
                        /\ \A i \in 1 .. k : bytes[i] # fill
                        /\ k < Len(bytes) => bytes[k + 1] = fill))
ShownAs(words, e) ==
    CASE e.type = "integer" ->
            Number(words, e) - (IF e.signed /\ TopWord(words, e) >= Word \div 2
                                THEN Power(Word, Len(words)) ELSE 0)
      [] e.type = "float"   ->
            Number([i \in DOMAIN words |-> IF e.byte_le THEN Swapped(words[i]) ELSE words[i]], e)
      [] e.type = "string"  ->
            UpToFill([j \in 1 .. 2 * Len(words) |->
                         IF j % 2 = 1 THEN words[(j + 1) \div 2] \div Byte
                                      ELSE words[j \div 2] % Byte], e.fill)

-----------------------------------------------------------------------------
(***************************************************************************)
(* What the words mean, from the comments of config-schema_v2.xsd: the     *)
(* first register has the highest bits or, with word-order little, the     *)
(* lowest; with byte-order little the low byte of a register comes first.  *)
(***************************************************************************)
BytesInOrder(w, e) == IF e.byte_le THEN <<w % Byte, w \div Byte>>
                                   ELSE <<w \div Byte, w % Byte>>
Straight(w, e) == WordOf(BytesInOrder(w, e)[1], BytesInOrder(w, e)[2])
Total(f, n) ==
    LET sum[k \in 0 .. n] == IF k = 0 THEN 0 ELSE sum[k - 1] + f[k] IN sum[n]
Pattern(words, e) ==
    LET n == Len(words)
    IN  Total([i \in 1 .. n |->
                 Straight(words[i], e) * Power(Word, IF e.word_le THEN i - 1 ELSE n - i)], n)

Meaning(words, e) ==
    CASE e.type = "integer" ->
            IF e.signed /\ 2 * Pattern(words, e) >= Power(Word, Len(words))
            THEN Pattern(words, e) - Power(Word, Len(words)) ELSE Pattern(words, e)
      [] e.type = "float"   -> Pattern(words, e)
      [] e.type = "string"  ->
            UpToFill([j \in 1 .. 2 * Len(words) |->
                         BytesInOrder(words[(j + 1) \div 2], e)[IF j % 2 = 1 THEN 1 ELSE 2]],
                     e.fill)

(***************************************************************************)
(* The integers an encoding can hold.                                      *)
(***************************************************************************)
Representable(v, count, e) ==
    IF e.signed THEN -(Power(Word, count)) <= 2 * v /\ 2 * v < Power(Word, count)
                ELSE 0 <= v /\ v < Power(Word, count)
=============================================================================

------------------------------- MODULE WebPage -------------------------------
(***************************************************************************)
(* The page in the browser (web/modbus.js, RegisterAreaUpdater): a copy of *)
(* the registers of each unit, inputs that show parts of it, a user who    *)
(* edits them, and messages that update it.                                *)
(*                                                                         *)
(* This is the page alone, with any messages.  In this program none ever   *)
(* comes, which is a matter of the server (WsSession).                     *)
(*                                                                         *)
(* Scales, radix and fractions in integers are left out; BitAreaUpdater,   *)
(* for coils, is the same with one bit for a word and one address for a    *)
(* range.                                                                  *)
(***************************************************************************)
EXTENDS RangeDict, RegisterValue

CONSTANTS
    Pages,      \* sequences of inputs [unit, low, high, encoding, bits]
    Words,      \* bound: words the server sends
    Texts,      \* Texts[type]: what a user may type, as values; no text is 0
    ByteBits,   \* 8 in the code
    NaN,        \* the bit pattern of NaN as a float of 2 and of 4 registers
    MaxAddress, \* bound on the addresses
    MaxSteps    \* bound: messages and edits
VARIABLES
    page,       \* the elements of class mb_value, in document order
    devices,    \* unit -> [value_map, mb_values]
    shown,      \* what each input shows
    focused,    \* focusedElement, 0 for null
    edited,     \* the focused input was edited since its last change event
    sent,       \* the last message sent
    entered,    \* history: the number each field was last given, until another
                \*   message or edit is about the same bits
    steps       \* history: messages and edits
vars == <<page, devices, shown, focused, edited, sent, entered, steps>>

(***************************************************************************)
(* The check box beside a field of one bit has no mb:unit-addr: its unit   *)
(* is NaN, a device of its own.                                            *)
(***************************************************************************)
Units == {"unit", "NaN"}
Registers == 0 .. MaxAddress
InputType == [unit : Units, low : Registers, high : Registers, encoding : EncodingType,
              bits : {<< >>} \cup (Nat \X Nat)]

(***************************************************************************)
(* A field has no encoding of its own, and so is an integer (build_field); *)
(* only a field has a check box.  Tags that are upside down are left out.  *)
(***************************************************************************)
ASSUME PageAssumption ==
    /\ MaxAddress \in Nat /\ MaxSteps \in Nat
    /\ ByteBits \in Nat \ {0} /\ Byte = Power(2, ByteBits)
    /\ Pages \subseteq Seq(InputType)
    /\ \A p \in Pages : \A i \in DOMAIN p :
          /\ p[i].low <= p[i].high
          /\ p[i].bits # << >> => p[i].encoding.type = "integer"
          /\ p[i].unit = "NaN" => p[i].bits # << >>
    /\ Words \subseteq 0 .. Word - 1
    /\ NaN \in [{2, 4} -> Nat] /\ \A n \in {2, 4} : NaN[n] < Power(Word, n)
    /\ Texts.integer \subseteq Int /\ Texts.float \subseteq Nat
    /\ Texts.string \subseteq Seq(0 .. Byte - 1)

Inputs == DOMAIN page
AddressesOf(i) == page[i].low .. page[i].high
Count(i) == page[i].high - page[i].low + 1
IsField(i) == page[i].bits # << >>
OneRegister(i) == page[i].low = page[i].high
IsFloat(i) == page[i].encoding.type = "float"
HasFloat(i) == IsFloat(i) => Count(i) \in {2, 4}     \* other lengths are passed over

Nothing == [kind |-> "nothing"]     \* shown by an input of a new page
Junk == [kind |-> "junk"]           \* a text that is no number
Value(v) == [kind |-> "value", value |-> v]

-----------------------------------------------------------------------------
WordsOf(mb, i) == [k \in 1 .. Count(i) |-> mb[page[i].low + k - 1]]

(***************************************************************************)
(* The mask of a field is (1 << width) - 1, where << takes the width       *)
(* modulo the 32 bits of its result: 32 bits give the mask 0, and 31 bits  *)
(* one of all bits but bit 31, the higher ones included.                   *)
(***************************************************************************)
IntBits == 4 * ByteBits
MaskBits(bits) == (bits[2] - bits[1] + 1) % IntBits
Masked(v, n) ==
    IF n = IntBits - 1 THEN v - ((v \div Power(2, n)) % 2) * Power(2, n) ELSE v % Power(2, n)

View(mb, i) ==
    LET all == ShownAs(WordsOf(mb, i), page[i].encoding)
        bits == page[i].bits
    IN  IF IsField(i) THEN Masked(all \div Power(2, bits[1]), MaskBits(bits)) ELSE all

(***************************************************************************)
(* update_range: an input that throws ends the loop; the focused one is    *)
(* passed over before it can.                                              *)
(***************************************************************************)
Refreshed(dev, focus, low, high) ==
    LET found == Overlapping(dev.value_map, low, high + 1)
        Reached(k) == \A n \in 1 .. k :
                         found[n].value = focus \/ ~Throws(page[found[n].value].encoding)
        fresh == {found[k].value : k \in {n \in DOMAIN found : Reached(n)}} \ {focus}
    IN  [i \in Inputs |-> IF i \in fresh /\ HasFloat(i) THEN Value(View(dev.mb_values, i)) ELSE shown[i]]

-----------------------------------------------------------------------------
(***************************************************************************)
(* The constructor inserts the inputs in the order of the document.        *)
(***************************************************************************)
Index(p, u) ==
    LET dict[k \in 0 .. Len(p)] ==
            IF k = 0 THEN << >>
            ELSE IF p[k].unit = u THEN Inserted(dict[k - 1], p[k].low, p[k].high + 1, k)
            ELSE dict[k - 1]
    IN  dict[Len(p)]
NewDevice(p, u) == [value_map |-> Index(p, u), mb_values |-> [a \in Registers |-> 0]]

Init ==
    /\ page \in Pages
    /\ devices = [u \in Units |-> NewDevice(page, u)]
    /\ shown = [i \in Inputs |-> Nothing]
    /\ focused = 0 /\ edited = FALSE
    /\ sent = Nothing
    /\ entered = [i \in Inputs |-> Nothing]
    /\ steps = 0

Patched(mb, start, regs) ==
    [a \in Registers |-> IF a \in start .. start + Len(regs) - 1
                         THEN regs[a - start + 1] ELSE mb[a]]

(***************************************************************************)
(* onmessage, update_values.                                               *)
(***************************************************************************)
Message(start, regs) ==
    LET dev == [devices["unit"] EXCEPT !.mb_values = Patched(@, start, regs)]
    IN  /\ steps < MaxSteps /\ steps' = steps + 1
        /\ devices' = [devices EXCEPT !["unit"] = dev]
        /\ shown' = Refreshed(dev, focused, start, start + Len(regs) - 1)
        /\ entered' = [i \in Inputs |->
                           IF page[i].unit = "unit"
                              /\ page[i].low \in start .. start + Len(regs) - 1
                           THEN Nothing ELSE entered[i]]
        /\ UNCHANGED <<page, focused, edited, sent>>

Focus(i) ==
    /\ focused = 0 /\ focused' = i
    /\ UNCHANGED <<page, devices, shown, edited, sent, entered, steps>>

(***************************************************************************)
(* A check box is 0 or 1.  Every text is a string.                         *)
(***************************************************************************)
IsCheckBox(i) == page[i].unit = "NaN"
TextsOf(i) ==
    IF IsCheckBox(i) THEN {Value(0), Value(1)}
    ELSE {Value(v) : v \in Texts[page[i].encoding.type]}
         \cup (IF page[i].encoding.type = "string" THEN {} ELSE {Junk})
Type(text) ==
    /\ focused # 0
    /\ shown' = [shown EXCEPT ![focused] = text] /\ edited' = TRUE
    /\ UNCHANGED <<page, devices, focused, sent, entered, steps>>

(***************************************************************************)
(* A field of one register is set in the page's copy of it.  The masks are *)
(* of 32 bits and the register takes what is in its own bits.              *)
(***************************************************************************)
FieldAlone(old, bits, v) ==     \* mutant of FieldWord: the other bits are cleared
    ((v % Power(2, MaskBits(bits))) * Power(2, bits[1] % IntBits)) % Word
FieldWord(old, bits, v) ==
    LET low == bits[1] % IntBits
        next == low + MaskBits(bits)
    IN  ((old \div Power(2, next)) * Power(2, next)
            + (v % Power(2, MaskBits(bits))) * Power(2, low) + (old % Power(2, low))) % Word

(***************************************************************************)
(* The "change" handler: the text as registers of the copy, sent.  Bits    *)
(* are respected only in one register.  A text that is no number is NaN:   *)
(* no bits are set in a field, a float takes it, and an integer throws.    *)
(* (An input of type number makes an empty text of it, which is 0.)  The   *)
(* copy of a float of a strange length is sent as it is.                   *)
(***************************************************************************)
NumberIn(text, nan) == IF text = Junk THEN nan ELSE text.value
Entered(i, text, mb) ==
    CASE IsField(i) /\ OneRegister(i) ->
            <<FieldWord(mb[page[i].low], page[i].bits, NumberIn(text, 0))>>
      [] IsFloat(i) ->
            IF HasFloat(i) THEN EditedWords(NumberIn(text, NaN[Count(i)]), Count(i), page[i].encoding)
                           ELSE WordsOf(mb, i)
      [] OTHER -> EditedWords(text.value, Count(i), page[i].encoding)
Throwing(i, text) == text = Junk /\ ~IsFloat(i) /\ ~(IsField(i) /\ OneRegister(i))

(***************************************************************************)
(* The fields of one register with all their bits in it, and what an edit  *)
(* of input i leaves of the numbers that were entered before.              *)
(***************************************************************************)
InRegister(i) == /\ IsField(i) /\ OneRegister(i)
                 /\ page[i].bits[1] <= page[i].bits[2] /\ page[i].bits[2] < 2 * ByteBits
BitsApart(i, j) == page[i].bits[2] < page[j].bits[1] \/ page[j].bits[2] < page[i].bits[1]
Untouched(i, j) == \/ page[i].unit # page[j].unit
                   \/ page[i].low \notin AddressesOf(j)
                   \/ InRegister(i) /\ InRegister(j) /\ BitsApart(i, j)
AfterEntry(i, text) ==
    [j \in Inputs |-> IF j = i /\ InRegister(i) THEN Value(NumberIn(text, 0))
                      ELSE IF j # i /\ Untouched(j, i) THEN entered[j] ELSE Nothing]

ChangeEvent ==
    /\ focused # 0 /\ edited /\ edited' = FALSE
    /\ steps < MaxSteps /\ steps' = steps + 1
    /\ UNCHANGED <<page, focused>>
    /\ \/ /\ Throwing(focused, shown[focused])
          /\ UNCHANGED <<devices, shown, sent, entered>>
       \/ /\ ~Throwing(focused, shown[focused])
          /\ LET u == page[focused].unit
                 regs == Entered(focused, shown[focused], devices[u].mb_values)
                 dev == [devices[u] EXCEPT !.mb_values = Patched(@, page[focused].low, regs)]
             IN  /\ devices' = [devices EXCEPT ![u] = dev]
                 /\ sent' = [kind |-> "update", from |-> focused,
                             typed |-> shown[focused], regs |-> regs]
                 /\ shown' = Refreshed(dev, focused, page[focused].low, page[focused].high)
                 /\ entered' = AfterEntry(focused, shown[focused])

(***************************************************************************)
(* A browser has fired the change event before.                            *)
(***************************************************************************)
BlurOnly ==     \* mutant of Blur: what came while the input had the focus is not shown
    /\ focused # 0 /\ ~edited /\ focused' = 0
    /\ UNCHANGED <<page, devices, shown, edited, sent, entered, steps>>
Blur ==
    /\ focused # 0 /\ ~edited /\ focused' = 0
    /\ shown' = Refreshed(devices[page[focused].unit], 0, page[focused].low, page[focused].high)
    /\ UNCHANGED <<page, devices, edited, sent, entered, steps>>

Next ==
    \/ \E a \in Registers, n \in 1 .. 2, w \in [1 .. 2 -> Words] :
          a + n - 1 \in Registers /\ Message(a, SubSeq(w, 1, n))
    \/ \E i \in Inputs : Focus(i)
    \/ \E text \in IF focused = 0 THEN {} ELSE TextsOf(focused) : Type(text)
    \/ ChangeEvent \/ Blur
Spec == Init /\ [][Next]_vars
-----------------------------------------------------------------------------
(***************************************************************************)
(* An input without the focus shows what the page holds for its registers, *)
(* as its encoding means it, if it shows anything; and it shows something  *)
(* when a register of its own is not 0.  But not where the handler throws, *)
(* nor in the inputs after such a one in the order of the index, nor in a  *)
(* float that is not of 2 or 4 registers, nor in a field of no bits or of  *)
(* 31 bits and more.                                                       *)
(***************************************************************************)
Field(w, bits) == (w \div Power(2, bits[1])) % Power(2, bits[2] - bits[1] + 1)
Means(mb, i) ==
    LET all == Meaning(WordsOf(mb, i), page[i].encoding)
    IN  IF IsField(i) THEN Field(all, page[i].bits) ELSE all
CanShow(i) == /\ HasFloat(i)
              /\ IsField(i) => page[i].bits[2] - page[i].bits[1] + 1 \in 1 .. IntBits - 2
Place(index, i) == CHOOSE k \in DOMAIN index : index[k].value = i
Disturbed(i) ==
    LET index == devices[page[i].unit].value_map
    IN  \E k \in 1 .. Place(index, i) : Throws(page[index[k].value].encoding)

ShowsWhatItHolds ==
    \A i \in Inputs :
        LET mb == devices[page[i].unit].mb_values
        IN  i # focused /\ CanShow(i) /\ ~Disturbed(i) =>
                /\ shown[i].kind = "value" => shown[i].value = Means(mb, i)
                /\ (\E a \in AddressesOf(i) : mb[a] # 0) => shown[i].kind = "value"

(***************************************************************************)
(* What an edit sends means what was typed, if the registers or the bits   *)
(* of a field can hold it; not for an integer with the low byte first,     *)
(* which is sent as if it had the high byte first.  A text that is no      *)
(* number is sent too, as NaN in a float and as 0 in a field, but never    *)
(* from an integer of whole registers (the "change" handler).              *)
(***************************************************************************)
Holds(i, v) ==
    CASE page[i].encoding.type = "integer" ->
            /\ Representable(v, Count(i), page[i].encoding)
            /\ ~page[i].encoding.byte_le
      [] page[i].encoding.type = "float"   -> HasFloat(i) /\ v < Power(Word, Count(i))
      [] page[i].encoding.type = "string"  ->
            /\ Len(v) <= 2 * Count(i)
            /\ page[i].encoding.fill \notin Range(v)
EditsMeanWhatIsTyped ==
    sent # Nothing =>
        LET i == sent.from
            v == NumberIn(sent.typed, IF IsFloat(i) /\ HasFloat(i) THEN NaN[Count(i)] ELSE 0)
        IN  /\ ~IsField(i) /\ Holds(i, v) => Meaning(sent.regs, page[i].encoding) = v
            /\ InRegister(i) /\ v \in 0 .. Power(2, page[i].bits[2] - page[i].bits[1] + 1) - 1 =>
                  Field(sent.regs[1], page[i].bits) = v
            /\ sent.typed = Junk => IsFloat(i) \/ (IsField(i) /\ OneRegister(i))

(***************************************************************************)
(* What the user has entered in a field stands in the page's copy of the   *)
(* register, which the next edit of another field of it sends along, for   *)
(* as long as no message and no other edit is about its bits: no edit of   *)
(* the fields beside it takes it back (the "change" handler).              *)
(***************************************************************************)
EarlierEditsStand ==
    \A i \in Inputs :
        entered[i] # Nothing =>
            Field(devices[page[i].unit].mb_values[page[i].low], page[i].bits) =
                entered[i].value % Power(2, page[i].bits[2] - page[i].bits[1] + 1)

-----------------------------------------------------------------------------
(***************************************************************************)
(* Whatever the order of the inputs in the document, a look-up of any      *)
(* range of addresses finds every input of the unit that shows one of      *)
(* them, each once, and no other (overlapping).                            *)
(***************************************************************************)
FindsOverlapping ==
    \A u \in Units, s \in Registers, e \in 1 .. MaxAddress + 1 : s < e =>
        LET found == Overlapping(devices[u].value_map, s, e)
        IN  /\ {found[k].value : k \in DOMAIN found} =
                   {i \in Inputs : page[i].unit = u /\ page[i].high >= s /\ page[i].low < e}
            /\ IsInjective([k \in DOMAIN found |-> found[k].value])

(***************************************************************************)
(* The order the binary search of find_end needs, and the exact meaning of *)
(* start_min (insert).                                                     *)
(***************************************************************************)
StaysSearchable ==
    \A u \in Units : LET dict == devices[u].value_map IN
        \A i \in DOMAIN dict :
            /\ i < Len(dict) => dict[i].end <= dict[i + 1].end
            /\ \A k \in i .. Len(dict) : dict[i].start_min <= dict[k].start
            /\ \E k \in i .. Len(dict) : dict[i].start_min = dict[k].start
=============================================================================

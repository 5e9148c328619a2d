------------------------------ MODULE StartUp -------------------------------
(***************************************************************************)
(* The life of the process (main.rs), from the file it is given to its     *)
(* exit code: main reads the configuration, makes the devices, spawns the  *)
(* Modbus task and then waits, in a select!, for the web server, for the   *)
(* Modbus task and for the browser it starts.  Connections of the web      *)
(* server are served meanwhile (web_server.rs, template.rs,                *)
(* tag_list_json.rs), one after the other here.                            *)
(*                                                                         *)
(* What the Modbus task does is in ModbusClient and ModbusServer; here it  *)
(* runs and may end.  The templates are embedded and parse, setup_server   *)
(* does nothing that fails: the error paths of both are never taken.       *)
(***************************************************************************)
EXTENDS DeviceConfig, TagWalks, RegisterValue

CONSTANTS
    Files,      \* what can be at the path: [is, nodes]
    Options     \* command lines: [server, serial]
ASSUME StartAssumption ==
    /\ \A f \in Files : \/ f.is \in {"missing", "unreadable"}
                        \/ f.is = "document" /\ IsDocument(f.nodes)
    /\ Options \subseteq [server : BOOLEAN, serial : BOOLEAN]
    /\ Size > 1             \* a tag of one register does not wrap to none

VARIABLES
    file,       \* at args.tag_list_conf
    options,    \* args
    pc,         \* where main is
    list,       \* the DeviceDefList: unit -> area -> list of tags (TagWalks)
    devices,    \* Devices: unit -> area -> array
    modbus,     \* the Modbus task
    bound,      \* whether the web server listens
    request,    \* what a connection of the web server waits for
    page,       \* the inputs of the last page that was sent
    exit        \* how the process ended
vars == <<debug, file, options, pc, list, devices, modbus, bound, request, page, exit>>

None == "none"
Nobody == << >>     \* no unit, and no page

Init ==
    /\ debug \in BOOLEAN
    /\ file \in Files /\ options \in Options
    /\ pc = "open" /\ list = Nobody /\ devices = Nobody
    /\ modbus = "none" /\ bound = FALSE
    /\ request = None /\ page = Nobody
    /\ exit = "running"

Running == exit = "running"
Exit(how) ==
    exit' = how /\ UNCHANGED <<pc, list, devices, modbus, bound, request, page>>
GoTo(place) == pc' = place /\ UNCHANGED exit

-----------------------------------------------------------------------------
(***************************************************************************)
(* A file that is not UTF-8 or not XML is an unwrap.                       *)
(***************************************************************************)
Open ==
    /\ pc = "open"
    /\ CASE file.is = "missing"    -> Exit("failure")
         [] file.is = "unreadable" -> Exit("panicked")
         [] file.is = "document"   -> /\ GoTo("parse")
                                      /\ UNCHANGED <<list, devices, modbus, bound, request, page>>

Parsing ==
    /\ pc = "parse"
    /\ LET r == ParseDeviceList(file.nodes)
       IN  IF ~r.ok THEN Exit(IF r.error = "panic" THEN "panicked" ELSE "failure")
           ELSE /\ list' = r.value /\ GoTo("devices")
                /\ UNCHANGED <<devices, modbus, bound, request, page>>

-----------------------------------------------------------------------------
(***************************************************************************)
(* A slice over the end panics under the lock of the array, and dropping   *)
(* the handles of Tags::new then panics again (ObservableArray).           *)
(***************************************************************************)
StoredBelow(array, index, words) ==     \* mutant of Stored: the last address cannot be set
    IF index + Len(words) >= Size THEN Bad("aborted")
    ELSE Good([a \in DOMAIN array |-> IF a \in index .. index + Len(words) - 1
                                      THEN words[a - index + 1] ELSE array[a]])
Stored(array, index, words) ==
    IF index + Len(words) > Size THEN Bad("aborted")
    ELSE Good([a \in DOMAIN array |-> IF a \in index .. index + Len(words) - 1
                                      THEN words[a - index + 1] ELSE array[a]])

WordCount(t) == t.high - t.low + 1
CountOverflows(t) ==
    debug /\ \/ WordCount(t) < 1 \/ WordCount(t) = Size
             \/ /\ t.encoding.type = "integer" /\ 2 * WordCount(t) >= Size
                /\ t.value.kind = "number" /\ t.scale.kind = "number"
                /\ t.value.value * t.scale.value < 0 => t.encoding.signed

(***************************************************************************)
(* register_value::parse, given the text of the attribute.  The bit        *)
(* pattern of a float is any number of that width, another for NaN.        *)
(***************************************************************************)
Count(t) == Wrap(WordCount(t))
FloatPattern(text, count) ==
    (IF text.kind = "number" THEN text.value ELSE -1) % Power(Word, count)
InitialWords(t) ==
    LET e == t.encoding
    IN  IF e.type = "string" THEN Parse(t.value.bytes, Count(t), e)
        ELSE IF e.type = "float" /\ (t.value.kind = "number" \/ Is(t.value, "NaN"))
        THEN Parse(FloatPattern(t.value, Count(t)), Count(t), e)
        ELSE IF e.type = "integer" /\ t.value.kind = "number" /\ t.scale.kind = "number"
        THEN Parse(t.value.value * t.scale.value, Count(t), e)
        ELSE Rejected

RegisterStored(array, t, base) ==
    IF ~t.initial THEN Good(array)
    ELSE IF CountOverflows(t) THEN Bad("panicked")
    ELSE IF ~InitialWords(t).ok THEN Good(array)
    ELSE IF Overflows(t.low + base) THEN Bad("panicked")
    ELSE Stored(array, Wrap(t.low + base), InitialWords(t).words)

BitStored(array, t, base) ==
    IF Overflows(t.low + base) THEN Bad("panicked")
    ELSE Stored(array, Wrap(t.low + base), <<t.bit>>)

(***************************************************************************)
(* Tags::new: what TagIter comes to, item by item, and the array of an     *)
(* area after each.                                                        *)
(***************************************************************************)
ItemVisited(sofar, item, base) ==
    IF ~sofar.ok THEN sofar
    ELSE IF IsGroup(item) /\ Overflows(InnerBase(base, item)) THEN Bad("panicked")
    ELSE IF ~IsTag(item) THEN sofar
    ELSE IF "bit" \in DOMAIN item THEN BitStored(sofar.value, item, base)
    ELSE RegisterStored(sofar.value, item, base)

LastItem(items) == Max({0} \cup DOMAIN items)
Visits(items) ==
    LET base == Bases(items)
        after[i \in 0 .. LastItem(items)] ==
            IF i = 0 THEN Good([a \in 0 .. Size - 1 |-> 0])
            ELSE IF i \in DOMAIN items THEN ItemVisited(after[i - 1], items[i], base[i])
            ELSE after[i - 1]
    IN  after
AreaStored(items) == Visits(items)[LastItem(items)]

InOrder == <<"holding-registers", "input-registers", "coils", "discrete-inputs">>
ByArea(r) == [a \in Areas |-> r[CHOOSE i \in DOMAIN InOrder : InOrder[i] = a]]
NewTags(tags) ==
    With([i \in DOMAIN InOrder |-> AreaStored(tags[InOrder[i]])], LAMBDA r : Good(ByArea(r)))

(***************************************************************************)
(* Devices::new, in the order of the addresses.                            *)
(***************************************************************************)
NewDevice(tags) ==
    With(<<NewTags(tags), IF \E a \in Areas : RangesOverflow(tags[a])
                          THEN Bad("panicked") ELSE Good(tags)>>,
         LAMBDA r : Good(r[1]))

NewDevices ==
    /\ pc = "devices"
    /\ LET made == With([u \in DOMAIN list |-> NewDevice(list[u])], Good)
       IN  IF ~made.ok THEN Exit(made.error)
           ELSE /\ devices' = made.value
                /\ GoTo("spawn")
                /\ UNCHANGED <<list, modbus, bound, request, page>>

-----------------------------------------------------------------------------
SpawnModbus ==
    /\ pc = "spawn"
    /\ modbus' = "running" /\ GoTo("web")
    /\ UNCHANGED <<list, devices, bound, request, page>>

SerialPortFails == pc = "spawn" /\ options.serial /\ Exit("failure")

(***************************************************************************)
(* How the task can end.  A client starts with the reads of read_sequence, *)
(* and there is an unwrap on the first of them; in a debug build an        *)
(* inverted range overflows before that.  A client has no other end: no    *)
(* error of a read is the io::Error that client_poll looks for.  A serial  *)
(* server serves in the task itself, and panics with the read of a known   *)
(* unit up to its last address (ModbusServer).                             *)
(***************************************************************************)
RangesOf(a) == UNION {Range(WithRanges(list[u][a])) : u \in DOMAIN list}
AllRanges == UNION {RangesOf(a) : a \in Areas}
ClientPanics ==
    \/ \A r \in AllRanges : r.start >= r.end
    \/ debug /\ \E r \in AllRanges : r.start > r.end

ServicePanics == options.serial /\ DOMAIN list # {}
Ends ==
    IF options.server
    THEN {"ok", "error"} \cup (IF ServicePanics THEN {"panicked"} ELSE {})
    ELSE IF ClientPanics THEN {"panicked"} ELSE {}
ModbusEnds ==
    /\ modbus = "running"
    /\ modbus' \in Ends
    /\ UNCHANGED <<pc, list, devices, bound, request, page, exit>>

(***************************************************************************)
(* The socket is bound when the select! first polls the server.  The third *)
(* branch, which starts a browser, never ends.                             *)
(***************************************************************************)
SetUpWeb ==
    /\ pc = "web" /\ GoTo("select")
    /\ UNCHANGED <<list, devices, modbus, bound, request, page>>

Bind ==
    /\ pc = "select" /\ ~bound
    /\ bound' = TRUE
    /\ UNCHANGED <<pc, list, devices, modbus, request, page, exit>>

BindOrAcceptFails == pc = "select" /\ Exit("failure")

JoinPanic ==        \* mutant of Join: only a panic is noticed
    /\ pc = "select" /\ modbus = "panicked"
    /\ Exit("failure")
Join ==
    /\ pc = "select" /\ modbus \in {"ok", "error", "panicked"}
    /\ Exit(IF modbus = "ok" THEN "success" ELSE "failure")

-----------------------------------------------------------------------------
(***************************************************************************)
(* tag_list_json.rs: the inputs of the page.  A scale that is not a number *)
(* cannot be written to JSON: an unwrap.                                   *)
(***************************************************************************)
BuildField(base, t, field) ==
    Good([low |-> Wrap(t.low + base), high |-> Wrap(t.high + base),
          bit_low |-> field.bit_low, bit_high |-> field.bit_high])
BuildTag(base, t) ==
    LET input == [low |-> Wrap(t.low + base), high |-> Wrap(t.high + base)]
    IN  IF Overflows(t.low + base) \/ Overflows(t.high + base) THEN Bad("panic")
        ELSE IF "bit" \in DOMAIN t THEN Good(input)
        ELSE IF t.scale.kind # "number" THEN Bad("panic")
        ELSE Good([low |-> input.low, high |-> input.high,
                   encoding |-> t.encoding, scale |-> t.scale.value])
BuildGroup(base, g) ==
    IF Overflows(InnerBase(base, g)) THEN Bad("panic") ELSE Good("group")

BuildSubList(items) ==
    LET base == Bases(items)
        Build(i) == IF IsGroup(items[i]) THEN BuildGroup(base[i], items[i])
                    ELSE IF IsTag(items[i]) THEN BuildTag(base[i], items[i])
                    ELSE BuildField(base[items[i].in], items[items[i].in], items[i])
    IN  With([i \in DOMAIN items |-> Build(i)],
             LAMBDA r : Good([i \in DOMAIN items \ Groups(items) |-> r[i]]))

BuildDevice(tags) ==
    With([i \in DOMAIN InOrder |-> BuildSubList(tags[InOrder[i]])], LAMBDA r : Good(ByArea(r)))
BuildPage == With([u \in DOMAIN list |-> BuildDevice(list[u])], Good)

(***************************************************************************)
(* handle().  The page is built before its template is looked up.  When    *)
(* the page panics, so does the task of the connection: no answer.  Left   *)
(* out is an upgrade without a key, which hyper_tungstenite refuses.       *)
(***************************************************************************)
Requests == {"page", "no template", "upgrade", "no upgrade", "resource", "no resource", "post"}
Answer(r, built) ==
    CASE r \in {"page", "no template"} /\ ~built.ok -> "lost"
      [] r = "page" /\ built.ok        -> "200"
      [] r = "no template" /\ built.ok -> "500"
      [] r = "upgrade"                 -> "101"
      [] r = "no upgrade"              -> "400"
      [] r = "resource"                -> "200"
      [] r = "no resource"             -> "404"
      [] r = "post"                    -> "405"

Ask(r) ==
    /\ bound /\ request = None
    /\ request' = r
    /\ UNCHANGED <<pc, list, devices, modbus, bound, page, exit>>

Handle ==
    /\ request \in Requests
    /\ request' = IF Answer(request, BuildPage) = "lost" THEN "lost" ELSE None
    /\ page' = IF request = "page" /\ BuildPage.ok THEN BuildPage.value ELSE page
    /\ UNCHANGED <<pc, list, devices, modbus, bound, exit>>

(***************************************************************************)
(* The browser that lost its connection makes a new one.                   *)
(***************************************************************************)
Reconnect ==
    /\ request = "lost" /\ request' = None
    /\ UNCHANGED <<pc, list, devices, modbus, bound, page, exit>>

Next ==
    \/ /\ Running /\ UNCHANGED <<debug, file, options>>
       /\ \/ Open \/ Parsing \/ NewDevices \/ SpawnModbus \/ SerialPortFails \/ SetUpWeb
          \/ Bind \/ BindOrAcceptFails \/ Join
          \/ ModbusEnds
          \/ Handle \/ Reconnect \/ \E r \in Requests : Ask(r)
    \/ ~Running /\ UNCHANGED vars

(***************************************************************************)
(* main runs until it waits, and is woken when the Modbus task ends.  A    *)
(* step of main is told by what it changes, which is cheaper to find       *)
(* possible than a whole parse.                                            *)
(***************************************************************************)
MainMoves ==
    /\ Running /\ pc # "select"
    /\ pc' \in {pc, "parse", "devices", "spawn", "web", "select"}
    /\ exit' \in {exit, "failure", "panicked", "aborted"}
Joins == Running /\ UNCHANGED <<debug, file, options>> /\ Join
Fairness == WF_<<pc, exit>>(MainMoves) /\ WF_vars(Joins)
Spec == Init /\ [][Next]_vars /\ Fairness
-----------------------------------------------------------------------------
(***************************************************************************)
(* What the document says, if it repeats no address and no area.  If it    *)
(* does, the last of the elements counts (see DuplicatesAreRejected).      *)
(***************************************************************************)
Document == file.nodes
Number16(node, name) == IF Has(node, name) THEN Wrap(node.attr[name].value) ELSE 0
UnitOf(i) == Document[i].attr["addr"].value
Units == {UnitOf(i) : i \in ElementsIn(Document, 0)}
DeviceOf(u) == Max({i \in ElementsIn(Document, 0) : UnitOf(i) = u})
SectionsOf(u, a) == {i \in ElementsIn(Document, DeviceOf(u)) : Document[i].tag = a}
ElementsOf(u, a) ==
    {i \in DOMAIN Document :
        /\ SectionsOf(u, a) # {} /\ Max(SectionsOf(u, a)) \in Around(Document)[i]
        /\ Document[i].is = "element" /\ Document[i].tag # "enum"
        /\ Contexts(Document)[Document[i].in] # "any"}

Says(item, n) ==
    CASE n.tag \in {"register", "bit"} ->
            item.low = Number16(n, "addr") /\ item.high = Number16(n, "addr")
      [] n.tag = "register-range" ->
            item.low = Number16(n, "addr-low") /\ item.high = Number16(n, "addr-high")
      [] n.tag = "group" -> item.base = Number16(n, "base-addr")
      [] n.tag = "field" ->
            /\ item.bit_low = n.attr[IF Has(n, "bit") THEN "bit" ELSE "bit-low"].value
            /\ item.bit_high = n.attr[IF Has(n, "bit") THEN "bit" ELSE "bit-high"].value

(***************************************************************************)
(* A document is read if and only if it keeps to the grammar at every      *)
(* depth, and what is read is the groups, tags and fields of the document, *)
(* each in the group or tag it is in and at the address it has there       *)
(* (parse_device_list and below).                                          *)
(***************************************************************************)
ReadsTheDocument ==
    /\ pc = "parse" /\ exit = "failure" => ~Valid(Document)
    /\ pc = "devices" =>
          /\ Valid(Document)
          /\ DOMAIN list = Units
          /\ \A u \in Units, a \in Areas :
                /\ DOMAIN list[u][a] = ElementsOf(u, a)
                /\ \A i \in ElementsOf(u, a) : /\ list[u][a][i].in = Document[i].in
                                               /\ Says(list[u][a][i], Document[i])

(***************************************************************************)
(* A document that gives two devices an address, or a device two sections  *)
(* of an area, is rejected: so say the schema, where a section occurs at   *)
(* most once, and the message of DuplicateAddr.  It does not hold: nothing *)
(* raises that error, and BTreeMap::insert and the Options of              *)
(* parse_tag_list replace what was there (device_list.rs).                 *)
(***************************************************************************)
DuplicatesAreRejected ==
    pc = "devices" =>
        \A i, j \in DOMAIN Document :
            /\ i # j /\ Document[i].is = "element" /\ Document[j].is = "element"
            /\ Document[i].in = Document[j].in
            /\ Contexts(Document)[Document[i].in] \in {"root", "device"}
            => IF Document[i].tag = "device" THEN UnitOf(i) # UnitOf(j)
               ELSE Document[i].tag # Document[j].tag

(***************************************************************************)
(* Initial values: after Devices::new an element holds what the last tag   *)
(* with an acceptable initial value says, as the encoding of that tag      *)
(* means it, or 0.  Not acceptable: what is no number, is negative without *)
(* a sign, or needs more bytes than the tag has, which are counted in u16. *)
(* A signed value may be one bit too long for what it stores to mean it.   *)
(***************************************************************************)
TagsOf(u, a) == Absolute(list[u][a])
Value(t) == t.value.value * t.scale.value
Acceptable(t) ==
    CASE t.encoding.type = "string"  -> TRUE
      [] t.encoding.type = "float"   ->
            (t.value.kind = "number" \/ Is(t.value, "NaN")) /\ Count(t) \in {2, 4}
      [] t.encoding.type = "integer" ->
            /\ t.value.kind = "number" /\ t.scale.kind = "number"
            /\ Value(t) < 0 => t.encoding.signed
            /\ 0 < Wrap(2 * Count(t)) /\ Magnitude(Value(t)) < Power(Byte, Wrap(2 * Count(t)))
Sets(t) == "bit" \in DOMAIN t \/ (t.initial /\ Acceptable(t))
At(t) == Wrap(t.low) .. Wrap(t.low) + Count(t) - 1

Stands(t, words) ==
    IF "bit" \in DOMAIN t THEN words = <<t.bit>>
    ELSE CASE t.encoding.type = "float"   ->
                 Meaning(words, t.encoding) = FloatPattern(t.value, Count(t))
           [] t.encoding.type = "string"  ->
                 Meaning(words, t.encoding) =
                     UpToFill(Filled(t.value.bytes, Count(t), t.encoding.fill), t.encoding.fill)
           [] t.encoding.type = "integer" ->
                 Representable(Value(t), Count(t), t.encoding) =>
                     Meaning(words, t.encoding) = Value(t)

InitialValuesAreStored ==
    pc = "spawn" => \A u \in DOMAIN list, a \in Areas :
        LET tags == TagsOf(u, a)
            array == devices[u][a]
            setter == [x \in DOMAIN array |-> {i \in DOMAIN tags : Sets(tags[i]) /\ x \in At(tags[i])}]
        IN  /\ \A x \in DOMAIN array : setter[x] = {} => array[x] = 0
            /\ \A i \in DOMAIN tags :
                  Sets(tags[i]) /\ (\A x \in At(tags[i]) : Max(setter[x]) = i) =>
                      Stands(tags[i], [k \in 1 .. Count(tags[i]) |->
                                          array[Wrap(tags[i].low) + k - 1]])

(***************************************************************************)
(* The program does not start, without an error message, only for: a file  *)
(* that is not XML; an initial value over the end of the addresses; in a   *)
(* debug build, addresses that do not fit u16, the end of a range          *)
(* included, a number -32768, or a tag upside down or, with a number as    *)
(* initial value, half as long as there are addresses.                     *)
(***************************************************************************)
Texts == UNION {Range(Document[i].attr) :
                    i \in {j \in DOMAIN Document : Document[j].is = "element"}}
Tagged == UNION {Range(TagsOf(u, a)) : u \in DOMAIN list, a \in Areas}
RunsOver(t) == t.initial /\ Wrap(t.low) + Count(t) > Size

PanicsAreKnown ==
    /\ exit = "aborted" => \E t \in Tagged : RunsOver(t)
    /\ exit = "panicked" =>
          \/ file.is = "unreadable"
          \/ /\ debug
             /\ \/ \E t \in Texts : t.kind = "number" /\ 2 * t.value = -Size
                \/ \E t \in Tagged : \/ ~FitsIn(t, Size - 1) \/ t.low > t.high
                                     \/ RunsOver(t) \/ 2 * WordCount(t) >= Size
                \/ \E u \in DOMAIN list, a \in Areas : GroupBeyond(list[u][a])

(***************************************************************************)
(* The page has an input for every tag and every field, at the address     *)
(* that is polled for the tag; and a browser that asks for it is left      *)
(* without an answer only because of a scale that is not a number          *)
(* (build_page).                                                           *)
(***************************************************************************)
TagAt(items, i) ==      \* the tag whose input i is, or a part of it
    IF IsTag(items[i]) THEN Absolute(items)[i] ELSE Absolute(items)[items[i].in]
PageNamesEveryTag ==
    /\ \A u \in DOMAIN page, a \in Areas :
          LET items == list[u][a]
          IN  /\ DOMAIN page[u][a] = DOMAIN items \ Groups(items)
              /\ \A i \in DOMAIN page[u][a] : /\ page[u][a][i].low = Wrap(TagAt(items, i).low)
                                              /\ page[u][a][i].high = Wrap(TagAt(items, i).high)
    /\ request = "lost" => \E t \in Tagged : "scale" \in DOMAIN t /\ t.scale.kind # "number"

(***************************************************************************)
(* The program does not outlive its Modbus task (the select! of main).     *)
(***************************************************************************)
EndsWithModbus == modbus \in {"ok", "error", "panicked"} ~> ~Running
=============================================================================

# mb-tool, formally

mb-tool talks Modbus: as a *client* it polls the registers of devices and sends
them changes, as a *server* it plays the devices itself. In both roles the
registers are on a web page, where they can be changed. This directory holds
TLA+ models of the program, TLC configurations, and TLAPS proofs. Paths below
are relative to the repository (`src/` is its crate, `web/` its page).

## 1. The system

All state a run of the program changes is in arrays: for each configured device
four `ObservableArray`s of 65536 elements (holding registers, input registers,
coils, discrete inputs). Tasks share them through *handles*. The page in the
browser keeps a copy.

| Component | State | Operations | Hard part |
|---|---|---|---|
| `range_array.rs` | sorted vector of half-open ranges | `union`, `clear_into` | merging, off-by-one |
| `observable_array.rs` | array, observers with changed ranges, a `Notify` each, one `RwLock` | `clone`, `drop`, `update`, `updated().await`, `get_array`, `len` | wake-ups, cancellation, slot reuse, poisoning |
| `device_list*.rs`, `tag_list_xml.rs`, `xml_common.rs` | the configuration | parsing | rejecting what is wrong, duplicates |
| `tag_list.rs`, `tag_ranges.rs`, `tags.rs`, `push_range` | the tree of tags; ranges; read sequence | `tag_iter`, `TagRanges::from`, `Tags::new`, `read_sequence` | 16-bit arithmetic, nesting |
| `register_value.rs` | none | `parse` | widths, signs, byte and word order |
| `modbus_connection.rs`, client | position in the read sequence, unit of the connection, request in flight, changes taken and not sent | `client_poll`, `execute`, `handle_poll`, `client_tcp` | reads racing with users, `select!`, time-outs, reconnects, partial failures |
| `modbus_connection.rs`, server | one task per connection | `call`, `server_read`, `server_write` | the lock, recursive reads, panics |
| `main.rs`, start-up | how far it is, the exit code | `main` | panics, two halves in one `select!` |
| `main.rs`, sessions | a `ws_client` task and an update task per page | `connected`, `handle_receive`, `handle_updates` | lifetimes, panics, messages |
| `web_server.rs`, `template.rs`, `tag_list_json.rs` | one task per HTTP connection | `handle`, building of the page | panics while answering |
| `web/range_dict.js` | sorted list with `start_min` | `insert`, `overlapping` | pruning of the search |
| `web/modbus.js` | copy of the values, inputs, focus | `update_values`, edits | encodings, exceptions, stale copies |

How they interact:

```
 XML -> DeviceDefList -> Devices (arrays, TagRanges) -> JSON -> page (GET)
                           |  cloned handles
   client task ------------+------------ ws_client task  <---- page (modbus.js)
   or server tasks         |             update task     -x--> page
        |                  |
   Modbus devices     RwLock, Notify, observers
```

A write through one handle is recorded in the observer of every other handle,
and notifies it. The client task sends what others wrote; the update tasks
would tell pages, but see finding 3. `main` waits for whichever of the Modbus
task and the web server ends first.

The correctness of each part, in a sentence: no write is lost between handles;
what is configured is what is parsed, polled and shown; a user's change reaches
its device or is lost for a known reason; a Modbus client gets right answers; a
failure stays with who caused it, and the exceptions are listed (`ModbusServer`); the page shows
what it holds and sends what was typed.

## 2. Modules

| Module | Models | Builds on |
|---|---|---|
| `RangeArray` | `range_array.rs` as operators | |
| `RangeArrayCalls` | every sequence of `union` and `clear_into` | `RangeArray` |
| `ChangeFeed` | abstract: what an observable array promises | |
| `ObservableArray` | `observable_array.rs`, one lock acquisition or one `Notify` call per step | `RangeArray`; refines `ChangeFeed` |
| `Widths` | `u8` and `u16` as `Byte` and `Size` | |
| `TagTree` | tags, groups with relative bases, the range of a tag | `RangeArray`, `Widths` |
| `TagWalks` | walks over a whole list as one operator each | `TagTree` |
| `ReadPlan` | `TagIter`, `Tags::new`, `TagRanges::from`, `push_range` | `TagTree` |
| `RegisterValue` | the two encoders and the decoder of registers | `Widths` |
| `DeviceConfig` | the XML parsers; the grammar | `TagTree` |
| `StartUp` | `main` from the file to the exit code; HTTP requests | `DeviceConfig`, `TagWalks`, `RegisterValue` |
| `ModbusClient` | the client task and its environment | |
| `ModbusServer` | server tasks at the level of the lock | |
| `WsSession` | sessions, update tasks, pages | |
| `RangeDict` | `range_dict.js` as operators | |
| `WebPage` | `RegisterAreaUpdater` of `modbus.js` with a user and messages | `RangeDict`, `RegisterValue` |
| `DataProofs` | lemmas about ranges, numbers and registers | `RangeArray`, `RegisterValue` |
| other `*Proofs` | theorems (section 4) | the module of that name, `DataProofs` |

`MC*` modules give constants their values. Definitions marked "mutant of" are
not part of a model: each is a plausible bug, and the property it is listed
with in PROJECT.json fails when it replaces the definition it follows.

### RangeArray, RangeArrayCalls
A vector is a sequence of `[start, end]`. The loop of `union` is a closed form:
`Slot` is where the binary search and the first `match` leave `p`, `Placed` the
vector after it, `LastMerged` where the `while` stops, `MergedEnd` the end it
leaves. `RangeArrayCalls` runs it against two history sets: the marks touched
and the unit steps covered. Both are needed because empty ranges are kept
(`update` with an empty slice records one).

### ObservableArray, ChangeFeed
The critical sections are the actions: `Clone` (`get_observer`), `Drop`
(`release`), `Update`, `TakeUpdates` (the block inside the loop of `updated`).
`AwaitNotified` is the first poll of `notified()`, where a stored permit is
consumed; `NotifyOne` follows tokio: it wakes a waiter or stores a permit. The
future is polled only when it is new or woken. `Cancel` drops it between polls,
as `select!` and `select_all` do, and a notification received but not used
goes back. `UpdateOutOfBounds` is the panic under the write guard.
`ChangeFeed` says the same without slots, ranges, permits and polls: a set of
addresses per handle, an `Answer` that empties it. It says what is told and how
often (`KeepsFeedSafety`); that it is told at all is a property of
`ObservableArray`, `Delivery`.

### ReadPlan
The iterator's stack is `pos`, its three arms `VisitTag`, `EnterGroup`,
`LeaveGroup`. `VisitTag` also stores the initial value, because `Tags::new` is
the loop around it. The recursion of `get_register_ranges` and
`get_bit_ranges` is a stack of `calls` too, one item per step (`GetRanges`,
`AddRange`, `CallForGroup`, `Return`, `HaveRanges`); `StartRange`, `PushOp`,
`EndRange` are `push_range`. All addresses are computed modulo `Size`; in a
debug build (`debug`) an overflow panics. The meaning to compare with is
`Whole`, in exact arithmetic. `Lists[Height]` is every list of the given
`Tags` and of groups with the given `Bases`, bounded along the items and into
the groups together. `StartUp`, where a whole walk is part of one step, takes
the walks from `TagWalks`. Recursion is by recursive functions only, in all
modules that are proved about.

### RegisterValue
`Parse` is `register_value::parse` (bytes from the lowest, negated byte by byte,
then put into words by `BuildWordsFromLe`); `EditedWords` is
the "change" handler of the page, `ShownAs` and `Throws` its `update_range`.
`Meaning` is the reference all three are compared with: what
`config-schema_v2.xsd` says of byte order and word order. A decimal text is the
number it says, a float the number its bit pattern is. `Power` takes the place of
`^`, which TLAPS does not know.

### DeviceConfig
A document is the sequence of its nodes in document order, each with the number
of the node it is in: elements with attributes, and texts; an attribute is a
number or a word. `Parsers` says which parser looks at the nodes in each node, as
the recursion of the code does, and `NodesTaken` what it makes of each: there is
one operator per element, returning `Good(value)` or `Bad(error)`, with the checks
of the code and its defaults. Of a byte or word order only the beginning counts,
as in the code, in the parsers and in the grammar: a word has what it `begins`
with. `ParseDeviceList` is the first error, or the list
made of the values. A list of tags is not nested either: a function from the
numbers of its items to the items, each naming the group it is in (`TagWalks`).
`Valid` is the grammar, written as a table of what may be in what and what each
element needs. Sections and devices that repeat replace the earlier ones
(finding 4).

### StartUp
`pc` follows `main`. `NewDevices` runs `Tags::new` for the four areas of every
device in the order of the code, so that the first panic is the one that counts.
`Ends` is how the Modbus task can end for the given options and document, the
serial server's own panic included (it runs its service in the joined task);
`Handle` is `handle()` of the web server with all its branches, and `BuildPage`
the tree of inputs. A panic there kills the connection, not the process.

### ModbusClient
`pc` follows the task: `op` (about to call `execute`), `reading`, `select`
(first poll of the `select!`), `waiting`, `writing` (the loop of
`handle_poll`), `sending`, and `connecting`/`retry` of `client_tcp`. A read has
two moments, the server taking the values (`ServeRead`) and the answer being
stored (`ReadAnswered`), because users write in between. The four areas are
values of `Area`; `Writable` are those `handle_poll` sends. `client_poll` never
returns: it would on an `io::Error` of kind `BrokenPipe`, but what is in the box
is an error of tokio-modbus 0.17, and the downcast (`modbus_connection.rs:420`)
never succeeds. So `ReadFails` goes on polling also when the connection is
broken (`linked`), and `connecting` and `retry` come before the first
connection only (finding 2). `touched` and `due` are history variables.
Observers are as in `ChangeFeed`, of which `ObservableArray` is shown to be an
implementation; `FirstRange` is the first range of the merged vector
(`RangeArrayCalls!HoldsMaximalRuns`).

### ModbusServer
A `server_read` takes the read guard of `get_array`, and in it another one for
`array.len()`. Waiting for the lock is a state, and so is holding it between
two steps: that makes the deadlock visible. The slice is computed as the code
does, in `Width` bits. `Others` are the tasks of browser sessions, which look at
and write the same arrays through `handle_receive`: they ask for ranges over the
end and for units that do not exist too. A panic unwinds the task, which drops its handle, and
`Drop` locks the array with `unwrap()`: after a panic under the write guard
that is a second panic during the first, and the process aborts.

### WsSession
`client` is the life of `ws_client`, `task` of the update task, `wire` what the
page sent, `unseen` what is recorded for the update task. `Outcome` is what
`handle_receive` comes to; what its failures mean to others is shown in
`ModbusServer`, where they share the lock. The channel to the page does not
appear: no message ever enters it (finding 3), and its sender lives in the update task, so the two
branches of `ws_client` that receive from it are never taken.

### RangeDict, WebPage
The binary search and the two loops of `RangeDict` are `CHOOSE`s of the position
they stop at, and `Results` is what the second gathers. `WebPage` inserts the inputs in document order, one index per unit
(`Index`; a check box has unit NaN, a device of its own), and then lets messages, focus,
typing, the change event and blur come in any order a browser allows: `Blur`
only after the change event. `Refreshed` is the loop over the inputs found, up to
the first that throws. The mask of a field is made with a shift of 32 bits
(`MaskBits`, `Masked`, `FieldWord`; a byte has `ByteBits` bits and the mask four
bytes), floats of other than 2 or 4 registers are passed over. A text may be
`Junk`, no number: in an integer of whole registers that throws (`Throwing`), a
field of one register takes it as 0 and a float as NaN, and both are sent
(`Entered`). `entered` is a history variable: what was typed into a field, until
a message or another edit is about its bits. It is checked with any messages; that none arrives in
this program is a matter of the server.

## 3. Runs

| Run | Question | Bounds |
|---|---|---|
| `range_array_calls` | does the vector always hold the maximal runs of what was added | ranges in 0..6: three separate ranges with gaps, and one that spans all |
| `observable_array` | slots, wake-ups; each write told once to each other handle, and told | 2 handles, 3 addresses, slices of 1 and 2: one in the array, one over its end, ranges with a gap (57 605 states). More handles, empty slices: the theorems |
| `client` | what ends the life of a user's change; is anything sent nobody changed, and to which unit; does polling go on, are units served in turn; do arrays and devices agree in the end | two devices: one with two ranges that are sent, so that a write fails between them, one with an input register; a connection that may break (106 368 states) |
| `client_reconnect` | finding 2 | the same |
| `client_wrong_unit` | finding 1 | the same |
| `server` | answers, panics, aborts, deadlocks | 2 connections and 1 browser session: a reader inside a reader needs one writer; `Width = 2` reaches the overflow, 0 to 2 registers (1 133 467 states) |
| `read_plan` | is what is polled what is configured | every list of five kinds of tags (single, adjoining, overlapping, up to the last address, upside down) and of groups, of height 3, in both builds; 8 addresses, requests of 2 (303 210 states) |
| `start_up` | are exactly the valid documents read; what do the registers hold; how does the program end | about 345 documents: each pair of some twenty tags and groups, each attribute once wrong or missing, orders of bytes and words spelt in full, several devices and sections; 8 addresses, bytes of 2 bits; both builds, both roles, TCP and serial (149 736 states) |
| `start_up_duplicates` | finding 4 | the same documents |
| `web_page` | do look-ups find the right inputs, do inputs show and edits send the right value | every three integers in any places of 3 addresses (in any order: entries between, around and equal to others), a pair of inputs in every encoding, floats of 1 and 3 registers, fields of a register and up to as wide as a mask, beyond the register and upside down, texts that are no number; 2 messages or edits, any focus and typing between (468 629 states); bytes of 1 bit, so that a word has 4 values and a mask 4 bits |
| `ws_sessions` | do stale update tasks end | 2 sessions, 1 address, 1 message under way (73 669 states) |
| `ws_page` | finding 3 | 1 session |

What the properties say, beyond "it works":

* `NoLostWakeup`, `Delivery`: the comment in `updated()` about registering
  before reading is right, for every interleaving and with cancellation.
* `DueIsRemembered`: a user's change that was recorded ends in exactly three ways:
  a unit executes the write, the write fails, or a read is answered after the
  change with what the device had before. (What is written before there is a
  connection is recorded for nobody.) `Converges`: arrays and devices agree
  again afterwards.
* `WritesFollowReads`: the unit that executes a write is the one read last,
  which is the right one when there is one device, and finding 1 when not.
* `KeepsPolling`, `UnitsInTurn`: reads that fail or are not answered, also on a
  connection that is broken, stop no other; only changes of units with a lower
  number hold up those of a unit.
* `ModbusServer!PanicsAreKnown`, `AbortsAreKnown`, `OnlyNestedReadsBlock`: a read
  up to the last address panics its connection (the sum does not fit a `u16`), a
  browser that names an unknown unit or a range over the end panics its session;
  a write that runs over the end, of a Modbus client or a browser, aborts the
  process; and one deadlock exists, a nested read behind a waiting writer. These
  properties state that there are no others.
* `ReadsWhatIsConfigured`, `StartsUp`: a tag that ends at address 65535 is not
  polled by a release build; a debug build panics at start-up.
* `ReadsTheDocument`: the parsers, each with its own list of what it takes,
  accept together exactly the grammar, and the result has the elements of the
  document at the addresses their groups give them. Where a document repeats a
  device or a section it states which one counts, the last; that such documents
  are accepted at all is finding 4.
* `InitialValuesAreStored`: a register holds what the last tag with an acceptable
  initial value says. The length of a tag counts modulo 65536, as in
  `register_value.rs:72`: in a release build the value of an upside-down tag is
  stored in as many registers as that makes, from its first address on. Not
  required: a signed value of one bit too many, which
  `TooBig` lets through (`register_value.rs:104` looks at the magnitude).
* `StartUp!PanicsAreKnown`: the complete list of documents that stop the program
  without an error message. `EndsWithModbus`: it does not serve frozen values.
* `PageNamesEveryTag`: the page addresses what the client polls; a scale that is
  not a number is the only reason a browser gets no answer.
* `ShowsWhatItHolds`: no input goes stale, whatever the order of messages, focus
  and edits, except those that throw (`swap16` and a second-byte call in
  `update_range`) and those behind one in the index, floats of other than 2 or 4
  registers, which are never shown, and fields of no bits or of 31 and more,
  whose mask is wrong.
* `EditsMeanWhatIsTyped`: except integers with the low byte first, which are sent
  with the high byte first. A text that is no number is sent as NaN from a float
  and as 0 from a field of one register, and from nothing else.
* `EarlierEditsStand`: fields of one register may be edited one after the other;
  what was entered in one stays in the copy that the edits of the others send
  along. Not that bits changed elsewhere survive: the page sends whole registers
  of a copy that nobody updates.
* `StaleTasksEnd`: the update task of a closed page ends with the next change,
  and not before: without changes tasks and observers pile up.

### Findings

1. `client_wrong_unit`: `handle_poll` does not select the unit it writes to. With
   several devices, a change goes to the unit that was read last.
2. `client_reconnect`: a connection that broke is never replaced, because
   `client_poll` looks for an `io::Error` where there is an error of
   tokio-modbus. `client_tcp` is written to connect again after two seconds.
3. `ws_page`: `let _ = mb_send.send(...)` drops the future of an asynchronous
   send. No page is ever told anything.
4. `start_up_duplicates`: two devices of one address, or two sections of one area
   in a device, are accepted, and the earlier one is forgotten. The schema
   allows a section once, and `DuplicateAddr` has a message
   (`device_list_xml.rs:40`) and is never raised.

Smaller disagreements met on the way, which the properties state as exceptions
or the models do not reach, and for which there is no run:

* Listening on port 0, the program prints and opens the URL with port 0, not the
  one it got (`main.rs:433`, `web_server.rs:284`).
* Any word that begins with `little` or `big` is an order of bytes or words
  (`tag_list_xml.rs:70-84`); the schema knows those two only.
* A wrong word order is reported as a wrong byte order.
* `modbus.js`: the mask of a field has 32 bits (`modbus.js:243`), so that a field of
  32 bits always shows 0; edits of integers ignore the byte order; fields of several
  registers ignore their bits in edits; a check box has no unit, so that the
  server drops its message; several devices on one page have elements with the
  same id, and only the first device's inputs are wired (`templates/main`).
* A write is not cut to the 123 registers a request may have
  (`modbus_connection.rs:383`), reads are.

### Fairness

* `ObservableArray`: weak fairness on polls, as the runtime polls a future that
  is new or woken. None on writes, cancellations, clones and drops.
* `ModbusClient`: weak fairness on every step of the task (`TaskFairness`): it is
  scheduled, sleeps end, `tokio::time::timeout` ends reads. `WorldFairness` is
  not the code's doing: a write is answered or fails (the code has no timeout
  for it, see the hazard), and with strong fairness a server tried for ever is
  reached. Nothing is assumed of a connection that broke. `Converges` assumes more, in its text:
  from some time on nobody disturbs.
* `StartUp`: weak fairness on `main` until it waits, and on its being woken when
  the Modbus task has ended. None on the Modbus task, which may run for ever, and
  none on browsers.
* `WsSession`: weak fairness on the two tasks; users owe nothing.
* `WebPage`, `ModbusServer`, `ReadPlan`, `RangeArrayCalls`: none, only safety.

## 4. Proofs

Eight modules of theorems, about operators or about `Spec`, for every value of
the constants that satisfies the named assumptions (`ArrayAssumption`,
`NoObserverAssumption`, `ServerAssumption`, `OpsAssumption`, `WidthAssumption`,
`PlanAssumption`, `PageAssumption`, `StartAssumption`, ...), which TLC evaluates
on each run.

**`DataProofs`** proves `UnionCorrect`: for a well-formed vector and a range
of integers, `Union` is well-formed and covers exactly what both covered. The
argument follows the code: where `Slot` is, what `Placed` does to the
neighbours, that the ranges merged are consecutive, what the end becomes.
`UnionAny` says the same without asking that the new range is the right way up,
which `ReadPlan` needs (nobody checks low <= high of a tag, and the end of a
range may have wrapped to 0); what is covered is stated both of the marks
touched and of the unit steps, because an empty range has one and not the other.
The end of `ObservableArrayProofs` lifts it to every sequence of calls:
`CallsKeepItWellFormed` (`StaysWellFormed`), `CallsLoseNothing`, and
`CallsHoldMaximalRuns` (`HoldsMaximalRuns`): the vector holds exactly the
maximal runs of what was added. It needs both marks and steps in the
invariant: a mark alone is a run when an empty range was added there.

`DataProofs` also has the arithmetic of registers, for any number of words. A
pattern is a sum of words times powers; `TotalLemma` sums whatever telescopes, so
that `DigitsLemma` (the digits of a number make up the number, but for what is
beyond the registers) holds for either order of the words, and `StraightLemma`
undoes the order of the bytes. On these rest the edits of the page and
`IntegerParsed`, `FloatParsed` and `StringParsed`: what `register_value::parse`
accepts, and that the words it makes mean it. `NegatedBytes` follows the carry of
the negation, byte by byte.

**`ObservableArrayProofs`** proves, for any set of handles, any size, any values
and lengths:

* `TypeCorrect` (`TypeOK`), `SlotsAreOwned` (`SlotOwnership`), `NoWakeupIsLost`
  (`NoLostWakeup`). None is inductive alone: the wake-up argument needs that the
  Notify found in a slot is that of the slot's owner, and ownership needs types.
  The invariant is `IInv`, their conjunction with: the ranges of each
  observer are well-formed (so that `UnionCorrect` applies), and only handles
  that exist have futures.
* `FeedIsImplemented` (`KeepsFeedSafety`): `Init` implies `Feed!Init`, and from
  `IInv` each step is a step of `ChangeFeed` or leaves its variables alone.
  `Update` is the step that needs `UnionCorrect`: covering what was recorded
  and what was written is `unseen \cup written`.

**`ModbusServerProofs`** proves `TypeCorrect`, `AnswersCorrect`, `NoOtherPanics`,
`NoOtherAborts` and `NoOtherDeadlocks` for any number of connections and browser
sessions and any width. The invariant adds to the types: a task inside `get_array` holds a guard
(`ReadersHoldGuards`), each task does what its request asks
(`DoesWhatItIsAsked`), and the lock is poisoned by a task that is still
unwinding or has aborted the process (`CulpritUnwinds`), without which neither
the aborts nor the poisoned panics can be attributed.

**`ModbusClientProofs`** proves four theorems for any devices, any read sequence
and any values. `TInv` (types, which call is in progress, what was taken is being
handled) is inductive alone and gives `TypeCorrect` and, with the property
itself, `OnlyChangesAreSent` (`SendsOnlyWhatChanged`). `DInv` adds that what is
due can be sent, and gives `ChangesAreRemembered` (`DueIsRemembered`). `UInv` adds
that from a read to the next one the unit that was selected stays selected, and
gives `UnitOfTheLastRead` (`WritesFollowReads`).

**`WsSessionProofs`** proves `TypeCorrect` for any number of sessions, units and
addresses.

**`ReadPlanProofs`** proves the four properties of `ReadPlan` for lists of any
height, any tags, bases, limit and size of addresses: `IteratorOrder`
(`IteratorFollowsTheFile`), `LegalRequests` (`RequestsAreLegal`),
`EverythingIsRead` (`ReadsWhatIsConfigured`) and `StartUpSucceeds` (`StartsUp`).
The invariant has a part for each stage of the pipeline:

* `IteratorInPlace`: each context on the stack is *in place*. It stands for a
  stretch of the tags of the whole document, from where the context above it
  ends, and its base is congruent to the exact one (equal to it in a debug
  build). What is on top starts at the tag to be visited next. This is what
  makes the iterator's stack agree with the nesting of the groups.
* `RangesInPlace`: the same of the calls of `get_register_ranges`, with what is
  united so far: the ranges of the tags before that one (`UnionAny`).
* `CutInOrder`, `RequestsInOrder`: the range in hand lies before those left, the
  requests before both, and `length` is what is left of the range in hand.
* `NothingIsLost`: every address of a united range is requested, in hand, or left.
* `Given`, and `StartsUp` itself, which has one lemma per action that can panic.

That the last address is read only for another tag's sake is where wrapped
ranges matter: the range of a tag that ends there is upside down, covers
nothing, and must do no harm to the ranges it is united with.

**`WebPageProofs`** proves of the index, for lists of any length,
`InsertKeepsSearchable` (an insert of any range at any place keeps the order by
end and the exact meaning of `start_min`) and `SearchMissesNone` (in such a list
every overlapping entry lies where `overlapping` looks), and of the page, for any
inputs, messages and texts:

* `IndexStaysSearchable` (`StaysSearchable`) and `LookUpFindsOverlapping`
  (`FindsOverlapping`), by induction over the inputs of the page (`Holding`: the
  list is searchable and has the inputs of the unit so far, each once) and over
  the entries `Results` passes.
* `EntriesStand` (`EarlierEditsStand`). It needs the invariant `IInv`: the types,
  the indexes never change, and an edited input holds a text of its type
  (`EditedIsText`); and `Entries`: only fields with all their bits in one register
  have an entry. The arithmetic: `FieldWordIsPartSet` takes the masks of 32 bits
  away, `FieldReads` says that the bits that were set are read back, and
  `FieldBeside` that bits below and above are as they were (`PartSetLemma`,
  `QuotientOfProduct`).
* `EditsMean` (`EditsMeanWhatIsTyped`), for any number of registers, from the sums
  of digits of `DataProofs`. `EditedNumberMeans` adds the sign, and
  `UpToFillLemma` finds the end of a string.
* `InputsShowTheRegisters` (`ShowsWhatItHolds`). `ShownIsMeaning`: what
  `update_range` accumulates is that sum (`NumberLemma`), and the half of the
  highest word decides the sign (`TopLemma`); it needs every register of the
  page's copy to be a word, which `FieldWordType` and `EditedWordsType` keep;
  `MaskFacts` is the mask of a field the property is about. The
  invariant is `AllFine`, the property with `Index(page, unit)` for the index.
  `FoundBefore` (what a look-up finds before an input is before it in the index)
  shows that an input nothing disturbs is refreshed whenever one of its
  registers is written (`RefreshMeans`), and `FineWhenUntouched` is the rest.

`PageAssumption` asks that tags are not upside down, that a field is an integer,
and that only a field has a check box, as in the pages the server builds; the
bits of a field may be any. The NaN of a float fits its registers. A byte has
2^`ByteBits` values, so that half of the highest word decides the sign.

**`StartUpProofs`** proves the four invariants of `StartUp` for documents of any
size, any files, options and widths with more than one address
(`StartAssumption`: a tag of one register has one register, modulo `Size`):

* `DocumentIsRead` (`ReadsTheDocument`). The parser of a node and the context the
  grammar has for it go together (`Matches`), by induction along the document
  (`NodesMatch`). `NodeLemma` then says of one node, whatever its tag, that its
  parser succeeds if and only if the grammar allows it, or else panics at a
  -32768; it rests on one lemma per kind of element, and those on one per kind
  of attribute. The grammar is an `IF` of every node and the parse ends at the first
  error, so `TakenIfValid` and `ReadIfTaken` are the two directions. `Read` says
  what is read, and is what everything later rests on.
* `InitialValuesStored` (`InitialValuesAreStored`). `BasesAreExact`: the base a
  walk has at an item is the exact one modulo `Size`. `VisitAny`: one item
  overwrites the elements it is at with words that mean its value (from
  `IntegerParsed`, `FloatParsed`, `StringParsed`), or leaves the array alone.
  `HoldsAfterVisit` and `VisitsHold` take that along the list: an element holds
  what the last item so far that sets it says.
* `OnlyKnownPanics` (`PanicsAreKnown`): each way to fail on these walks is
  `Trouble`, from the same lemmas, and `PanicIfNegates` is the parse.
* `PageNamesTags` (`PageNamesEveryTag`): that the ranges of the tags did not
  overflow when the devices were made (`NotOver`) is remembered until a page is
  built, and means that its addresses do not either.

The invariant, `StartInv`, says for each place of `main` that the list is what the
document reads as, that the arrays hold the initial values (`Held`), that nothing
overflows (`NothingOver`), and that nobody asks for a page before there is a web
server.

Induction over data. The induction theorems of the library take an operator as a
parameter, which the provers cannot instantiate. `InductiveSet` (a set with 0 and
every successor has every number) and `Iterates` (a function that starts with a
value and goes on by a table of steps exists) say what is needed with sets and
functions alone, and `RecursionExists` the same for a function over any set of
numbers, whose value at each is made of the value at an earlier one: the nodes of a
document, the items of a list. A recursive function is shown to satisfy its
definition first (`ListsEquation`, `Built`, `PowersExist`, `ParsersEquation`,
`BasesEquation`, `VisitsEquation`), and then what it computes.

Model-checked only:

* everything under fairness: `Delivery`, all liveness of the
  client, `StaleTasksEnd`, `EndsWithModbus`.

## 5. Not modelled

* Decimal and hexadecimal texts as such, and float arithmetic: a text is the
  number it says. Scale and radix on the page. An `input type=number` hands the
  handler an empty text for junk, which is the number 0.
* `BitAreaUpdater`: `RegisterAreaUpdater` with one bit for a word.
* The text of pages, headers, MIME types. `tag_list_xhtml.rs` and
  `build_main_page.rs` make pages that `main` does not serve any more.
* Arguments, serial parameters, opening of ports, starting the browser.
* Transaction ids, framing, CRC: tokio-modbus, which is not in the repository.
  An answer that arrives after its request timed out is therefore never taken
  for another's.
* `update_channel.rs` is commented out in `lib.rs`.
* Memory ordering: the lock and tokio give sequentially consistent steps.
* A reply and an update swapped on the way to a page: nothing is ever on that
  way (finding 3). When it is repaired, `WsSession` and `WebPage` can be composed.

## 6. What could follow

1. `ModbusClient` over `ObservableArray` itself instead of `ChangeFeed`'s sets,
   with smaller bounds: it would multiply two of the larger state spaces.
2. `BitAreaUpdater` and scales in `WebPage`.
3. `ReadPlan` and `TagWalks` are two models of the same walks, one item at a time
   and all at once; that they agree is shown only through what each is proved to
   mean.

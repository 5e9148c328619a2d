---------------------------- MODULE ModbusServer ----------------------------
(***************************************************************************)
(* The server side of src/modbus_connection.rs, down to the RwLock of one  *)
(* ObservableArray.  Each connection is served by a task of its own, and   *)
(* other tasks use the same array: a browser session that reads or writes  *)
(* it, or polls updated().  Every task runs on a thread of its own while   *)
(* it waits for the lock: these waits block.                               *)
(*                                                                         *)
(* The lock is std::sync::RwLock: a waiting writer keeps new readers out,  *)
(* whether or not their thread already holds a read guard.                 *)
(***************************************************************************)
EXTENDS Integers, FiniteSets

CONSTANTS
    Connections,   \* tasks that serve a Modbus client
    Others,        \* tasks of browser sessions: one guard at a time
    Width,         \* bits of an address: 16 in the code
    Size,          \* length of the array: 65536 in the code
    Counts,        \* bound: lengths that are requested
    Wraps          \* u16 addition wraps (release) or panics (debug)

Tasks == Connections \cup Others
Overflow == 2 ^ Width
Starts == 0 .. Overflow - 1

ASSUME ServerAssumption ==
    /\ Connections \cap Others = {}
    /\ Width \in Nat /\ Size \in Nat /\ Size = Overflow /\ Counts \subseteq 0 .. Overflow - 1
    /\ Wraps \in BOOLEAN

(***************************************************************************)
(* Four of the functions read and four write; they differ in the array.    *)
(* "any" is every other function.  A browser session asks for the same     *)
(* things (MbCommands), and its "any" is a poll of updated().  Where they   *)
(* are of no importance, start and count are left out.                     *)
(***************************************************************************)
NoRequest == [function |-> "any", known |-> FALSE, start |-> 0, count |-> 0]
Requests ==
    [function : {"read", "write"}, known : {TRUE}, start : Starts, count : Counts]
    \cup [function : {"read", "write"}, known : {FALSE}, start : {0}, count : {0}]
    \cup {NoRequest}
Outcomes == {"none", "data", "written", "IllegalDataAddress", "IllegalFunction",
             "ServerDeviceFailure", "panic"}

VARIABLES
    pc,        \* what each task is about to do
    request,   \* what a task was asked last
    outcome,   \* and what came of it
    reading,   \* the tasks that hold a read guard between two steps
    poisoned,  \* the lock
    aborted    \* the process
vars == <<pc, request, outcome, reading, poisoned, aborted>>

(***************************************************************************)
(* get_array: wants the read guard of server_read                          *)
(* len:       holds it, wants another one to look at the length            *)
(* slice:     holds it and knows the length                                *)
(* check:     server_write wants a read guard to look at the length        *)
(* update:    wants the write guard          look: wants one read guard    *)
(* join, leave, unwind: want the write guard to clone the handle for a new *)
(*            connection, to drop it, to drop it because the task panicked *)
(***************************************************************************)
WantsRead(t) == pc[t] \in {"get_array", "len", "check", "look"}
WantsWrite(t) == pc[t] \in {"update", "join", "leave", "unwind"}
MayRead == \A t \in Tasks : ~WantsWrite(t)
MayWrite == reading = {}

Init ==
    /\ pc = [t \in Tasks |-> "idle"]
    /\ request = [t \in Tasks |-> NoRequest]
    /\ outcome = [t \in Tasks |-> "none"]
    /\ reading = {} /\ poisoned = FALSE /\ aborted = FALSE

Step(t, to) == pc' = [pc EXCEPT ![t] = to]
Finish(t, how) == Step(t, IF how = "panic" THEN "unwind" ELSE "idle")
                  /\ outcome' = [outcome EXCEPT ![t] = how]

(***************************************************************************)
(* Service::call.                                                          *)
(***************************************************************************)
Call(t, r) ==
    /\ pc[t] = "idle"
    /\ request' = [request EXCEPT ![t] = r]
    /\ IF r.function = "any" THEN Finish(t, "IllegalFunction")
       ELSE IF ~r.known THEN Finish(t, "ServerDeviceFailure")
       ELSE /\ Step(t, IF r.function = "read" THEN "get_array" ELSE "check")
            /\ outcome' = [outcome EXCEPT ![t] = "none"]
    /\ UNCHANGED <<reading, poisoned, aborted>>

EnterGetArray(t) ==
    /\ pc[t] = "get_array" /\ MayRead
    /\ IF poisoned THEN Finish(t, "panic") /\ UNCHANGED reading
       ELSE Step(t, "len") /\ reading' = reading \cup {t} /\ UNCHANGED outcome
    /\ UNCHANGED <<request, poisoned, aborted>>

ReadLength(t) ==
    /\ pc[t] = "len" /\ MayRead
    /\ Step(t, "slice")
    /\ UNCHANGED <<request, outcome, reading, poisoned, aborted>>

(***************************************************************************)
(* start..(start + count) as usize: the sum is a u16.                      *)
(***************************************************************************)
StrictlyInRange(r) ==          \* mutant of InRange: < in place of <=
    r.start + r.count < Size
InRange(r) == r.start + r.count <= Size
WrongCode(r) ==                \* mutant of SliceOutcome: another exception code
    IF InRange(r) THEN "data" ELSE "IllegalDataValue"
SliceOutcome(r) ==
    LET sum == r.start + r.count
    IN  IF ~InRange(r) THEN "IllegalDataAddress"
        ELSE IF sum >= Overflow /\ ~Wraps THEN "panic"
        ELSE IF r.start > sum % Overflow THEN "panic"
        ELSE "data"
MutexSlice(t) ==               \* mutant of Slice: the guard of a Mutex, which poisons
    /\ pc[t] = "slice"
    /\ Finish(t, SliceOutcome(request[t]))
    /\ reading' = reading \ {t}
    /\ poisoned' = (poisoned \/ SliceOutcome(request[t]) = "panic")
    /\ UNCHANGED <<request, aborted>>
Slice(t) ==
    /\ pc[t] = "slice"
    /\ Finish(t, SliceOutcome(request[t]))
    /\ reading' = reading \ {t}
    /\ UNCHANGED <<request, poisoned, aborted>>

KeepGuard(t) ==                \* mutant of CheckWrite: update within get_array
    /\ pc[t] = "check" /\ MayRead
    /\ Step(t, "update") /\ reading' = reading \cup {t}
    /\ UNCHANGED <<request, outcome, poisoned, aborted>>
CheckWrite(t) ==
    /\ pc[t] = "check" /\ MayRead
    /\ IF poisoned THEN Finish(t, "panic")
       ELSE IF request[t].start < Size THEN Step(t, "update") /\ UNCHANGED outcome
       ELSE Finish(t, "IllegalDataAddress")
    /\ UNCHANGED <<request, reading, poisoned, aborted>>

(***************************************************************************)
(* ObservableArray::update by server_write.  The length of the data was    *)
(* not looked at: the slice expression panics under the write guard.       *)
(***************************************************************************)
Overruns(r) == r.start + r.count > Size
KeepsLock(t) == UNCHANGED poisoned   \* mutant of Poisons: a lock without poisoning
Poisons(t) == poisoned' = (poisoned \/ Overruns(request[t]))
ServerUpdate(t) ==
    /\ t \in Connections /\ pc[t] = "update" /\ MayWrite
    /\ Finish(t, IF poisoned \/ Overruns(request[t]) THEN "panic" ELSE "written")
    /\ Poisons(t)
    /\ UNCHANGED <<request, reading, aborted>>

(***************************************************************************)
(* A connection owns a handle: server_tcp clones it, on the task that      *)
(* accepts, and the end of the connection's task drops it, whether the     *)
(* client left or the task panicked.  Drop locks the array with unwrap():  *)
(* when the lock is poisoned that is a panic, and a panic in a destructor  *)
(* that runs because of a panic aborts the process.                        *)
(***************************************************************************)
Accept(t) ==
    /\ t \in Connections /\ pc[t] = "dead"
    /\ Step(t, "join")
    /\ request' = [request EXCEPT ![t] = NoRequest]
    /\ outcome' = [outcome EXCEPT ![t] = "none"]
    /\ UNCHANGED <<reading, poisoned, aborted>>

Join(t) ==
    /\ pc[t] = "join" /\ MayWrite
    /\ Step(t, IF poisoned THEN "unwind" ELSE "idle")
    /\ UNCHANGED <<request, outcome, reading, poisoned, aborted>>

Disconnect(t) ==
    /\ t \in Connections /\ pc[t] = "idle"
    /\ Step(t, "leave")
    /\ UNCHANGED <<request, outcome, reading, poisoned, aborted>>

Leave(t) ==
    /\ pc[t] = "leave" /\ MayWrite
    /\ Step(t, "dead")
    /\ UNCHANGED <<request, outcome, reading, poisoned, aborted>>

Unwind(t) ==
    /\ pc[t] = "unwind" /\ MayWrite
    /\ Step(t, "dead")
    /\ aborted' = poisoned
    /\ UNCHANGED <<request, outcome, reading, poisoned>>

(***************************************************************************)
(* The tasks of a browser session: ws_request takes a read guard, update() *)
(* and the polls of updated() a write guard, and they hold none when they  *)
(* ask for one.  handle_receive unwraps the error of an unknown unit, and  *)
(* nobody looks whether a range is within the array: its slice panics,     *)
(* under the read guard of get_array or the write guard of update.         *)
(***************************************************************************)
Ask(t, r) ==
    /\ t \in Others /\ pc[t] = "idle"
    /\ request' = [request EXCEPT ![t] = r]
    /\ IF r.function # "any" /\ ~r.known THEN Finish(t, "panic")
       ELSE /\ Step(t, IF r.function = "read" THEN "look" ELSE "update")
            /\ outcome' = [outcome EXCEPT ![t] = "none"]
    /\ UNCHANGED <<reading, poisoned, aborted>>

RunsOver(t) == request[t].function # "any" /\ Overruns(request[t])
Use(t) ==
    /\ t \in Others
    /\ \/ pc[t] = "look" /\ MayRead
       \/ pc[t] = "update" /\ MayWrite
    /\ Finish(t, IF poisoned \/ RunsOver(t) THEN "panic"
                 ELSE IF pc[t] = "look" THEN "data" ELSE "written")
    /\ poisoned' = (poisoned \/ (pc[t] = "update" /\ RunsOver(t)))
    /\ UNCHANGED <<request, reading, aborted>>

Serve(t) == \/ \E r \in Requests : Call(t, r)
            \/ EnterGetArray(t) \/ ReadLength(t) \/ Slice(t)
            \/ CheckWrite(t) \/ ServerUpdate(t)
            \/ Accept(t) \/ Join(t) \/ Disconnect(t) \/ Leave(t)
Next == /\ ~aborted
        /\ \/ \E t \in Connections : Serve(t)
           \/ \E t \in Others : Use(t) \/ \E r \in Requests : Ask(t, r)
           \/ \E t \in Tasks : Unwind(t)
Spec == Init /\ [][Next]_vars
-----------------------------------------------------------------------------
TypeOK ==
    /\ pc \in [Tasks -> {"idle", "get_array", "len", "slice", "check", "update",
                         "look", "join", "leave", "unwind", "dead"}]
    /\ request \in [Tasks -> Requests]
    /\ outcome \in [Tasks -> Outcomes]
    /\ reading \subseteq Tasks /\ poisoned \in BOOLEAN /\ aborted \in BOOLEAN

(***************************************************************************)
(* What a client is told is right, in arithmetic that does not wrap: data  *)
(* for addresses the array has, a refusal only for others, nothing written *)
(* beyond the end.                                                         *)
(***************************************************************************)
AnswersAreRight ==
    \A t \in Connections :
        LET r == request[t] IN
        /\ outcome[t] \in {"data", "written"} => r.start + r.count <= Size
        /\ outcome[t] = "IllegalDataAddress" => r.start + r.count > Size

(***************************************************************************)
(* A task panics because the lock is poisoned or for what it was asked     *)
(* itself, never for what others do.  That of a Modbus client: it reads up *)
(* to and including the last address, and start + count does not fit a u16 *)
(* (server_read).  That of a browser: the unit is unknown or the range     *)
(* runs over the end (handle_receive).                                     *)
(***************************************************************************)
PanicsAreKnown ==
    \A t \in Tasks :
        LET r == request[t] IN
        outcome[t] = "panic" =>
            \/ poisoned
            \/ t \in Connections /\ r.function = "read" /\ r.start + r.count = Overflow
            \/ t \in Others /\ r.function # "any" /\ (~r.known \/ Overruns(r))

(***************************************************************************)
(* One thing ends the whole program: a write that runs over the end of the *)
(* array, from a Modbus client (server_write looks at its start only) or   *)
(* from a browser (handle_receive looks at nothing).  Every other panic,   *)
(* that of a read at or over the end included, costs its own connection or *)
(* session and nothing else (Drop for ObservableArray).                    *)
(***************************************************************************)
AbortsAreKnown ==
    poisoned \/ aborted =>
        \E t \in Tasks : /\ outcome[t] = "panic"
                         /\ request[t].function = "write"
                         /\ Overruns(request[t])

(***************************************************************************)
(* The tasks wait for each other in a circle in one case only: a           *)
(* server_read that holds the lock asks for it again, in array.len(),      *)
(* behind a writer that waits for the first guard.                         *)
(***************************************************************************)
Busy(t) == pc[t] \notin {"idle", "dead"}
Blocked(t) == (WantsRead(t) /\ ~MayRead) \/ (WantsWrite(t) /\ ~MayWrite)
Stuck == /\ \E t \in Tasks : Busy(t)
         /\ \A t \in Tasks : Busy(t) => Blocked(t)
OnlyNestedReadsBlock ==
    Stuck => \E t \in Connections : pc[t] = "len" /\ t \in reading
=============================================================================

----------------------------- MODULE WsSession ------------------------------
(***************************************************************************)
(* Browser sessions: the page and its WebSocket, ws_client, which feeds    *)
(* what the page sends to handle_receive, and the update task connected()  *)
(* spawns, which turns changes into messages for the page (main.rs,        *)
(* web_server.rs).  One area of each device, of which an element remembers *)
(* who wrote it last; what the update task has not been told yet is the    *)
(* unseen set of ChangeFeed.                                               *)
(*                                                                         *)
(* Messages for the page go through an mpsc channel: every sender calls    *)
(*     let _ = mb_send.send(...)                                           *)
(* which makes a future and drops it unpolled.  Nothing enters the         *)
(* channel, so ws_client never takes anything out of it, and while the     *)
(* task lives, its sender keeps the channel from ending: of the branches   *)
(* of its select only those of the stream are ever taken.                  *)
(***************************************************************************)
EXTENDS Integers, Sequences

CONSTANTS
    Sessions,     \* page loads
    Units,        \* unit numbers of the configured devices
    Unknown,      \* a unit number no device has
    Size,         \* addresses of the area
    MaxWire       \* bound: messages of the page under way
ASSUME SessionAssumption ==
    /\ Units \subseteq Nat /\ Unknown \notin Units
    /\ Size \in Nat /\ MaxWire \in Nat \ {0}

VARIABLES
    array,      \* who wrote each element of each device last
    client,     \* ws_client of each session
    task,       \* its update task
    unseen,     \* the changes recorded for the update task
    wire,       \* what the page sent and ws_client has not handled
    page,       \* what the page shows
    aborted     \* the process
vars == <<array, client, task, unseen, wire, page, aborted>>

Addrs == 0 .. Size - 1
Writers == {"initial", "modbus"} \cup Sessions
Everything == [u \in Units |-> 0 .. Size]    \* mutant of Nothing: a new observer knows nothing
Nothing == [u \in Units |-> {}]
Fresh == [u \in Units |-> [a \in Addrs |-> "initial"]]

(***************************************************************************)
(* MbCommands, as far as a client sends them.  "other" stands for Echo,    *)
(* ListUnitAddresses and messages that do not parse: nothing comes of them *)
(* but a message to the page.                                              *)
(***************************************************************************)
Commands ==
    [kind : {"update", "request"}, unit : Units \cup {Unknown},
     start : 0 .. Size, length : 1 .. Size]
    \cup {[kind |-> "other"]}
Names(c, u) == c.start .. c.start + c.length - 1

Init ==
    /\ array = Fresh
    /\ client = [s \in Sessions |-> "absent"]
    /\ task = [s \in Sessions |-> "none"]
    /\ unseen = [s \in Sessions |-> Nothing]
    /\ wire = [s \in Sessions |-> << >>]
    /\ page = [s \in Sessions |-> Fresh]
    /\ aborted = FALSE

Become(s, state) == client' = [client EXCEPT ![s] = state]
Gone(s) == client[s] \in {"closed", "crashed"}

(***************************************************************************)
(* handle() answers the upgrade and spawns ws_client, which waits for the  *)
(* upgrade.  connected() clones the devices for the update task, before it *)
(* spawns it, and for the receiver.                                        *)
(***************************************************************************)
Upgrade(s) ==
    /\ client[s] = "absent" /\ Become(s, "upgrading")
    /\ UNCHANGED <<array, task, unseen, wire, page, aborted>>

UpgradeFails(s) ==
    /\ client[s] = "upgrading" /\ Become(s, "closed")
    /\ UNCHANGED <<array, task, unseen, wire, page, aborted>>

Connected(s) ==
    /\ client[s] = "upgrading" /\ Become(s, "open")
    /\ task' = [task EXCEPT ![s] = "waiting"]
    /\ unseen' = [unseen EXCEPT ![s] = Nothing]
    /\ wire' = [wire EXCEPT ![s] = <<[kind |-> "other"]>>]      \* ws.onopen
    /\ UNCHANGED <<array, page, aborted>>

(***************************************************************************)
(* The page sends; a change made by its user it shows at once.             *)
(***************************************************************************)
PageSends(s, c) ==
    /\ client[s] = "open" /\ Len(wire[s]) < MaxWire
    /\ wire' = [wire EXCEPT ![s] = Append(@, c)]
    /\ page' = IF c.kind = "update" /\ c.unit \in Units
               THEN [page EXCEPT ![s][c.unit] =
                        [a \in Addrs |-> IF a \in Names(c, c.unit) THEN s ELSE @[a]]]
               ELSE page
    /\ UNCHANGED <<array, client, task, unseen, aborted>>

(***************************************************************************)
(* A write is recorded for every handle but the one it was made through;   *)
(* an update task has a handle of its own.                                 *)
(***************************************************************************)
Write(u, addrs, who) ==
    /\ array' = [array EXCEPT ![u] = [a \in Addrs |-> IF a \in addrs THEN who ELSE @[a]]]
    /\ unseen' = [s \in Sessions |->
                    IF task[s] \in {"waiting", "updated"}
                    THEN [unseen[s] EXCEPT ![u] = @ \cup addrs] ELSE unseen[s]]

(***************************************************************************)
(* What handle_receive comes to.  unwrap() on UnitNotAvailable, and a      *)
(* slice that runs over the end, panic on the task of this session; under  *)
(* the write guard of update() the panic poisons the lock, and the drop of *)
(* the receiver's handle makes it an abort (ModbusServer).                 *)
(***************************************************************************)
Outcome(c) ==
    IF c.kind = "other" THEN "handled"
    ELSE IF c.unit = Unknown THEN "crash"
    ELSE IF c.start + c.length <= Size THEN "handled"
    ELSE IF c.kind = "request" THEN "crash" ELSE "abort"

Receive(s) ==
    /\ client[s] \in {"open", "closing"} /\ wire[s] # << >>
    /\ LET c == Head(wire[s]) IN
       /\ wire' = [wire EXCEPT ![s] = Tail(@)]
       /\ aborted' = (Outcome(c) = "abort")
       /\ IF Outcome(c) = "crash" THEN Become(s, "crashed") ELSE UNCHANGED client
       /\ IF c.kind = "update" /\ Outcome(c) = "handled"
          THEN Write(c.unit, Names(c, c.unit), s)
          ELSE UNCHANGED <<array, unseen>>
       /\ UNCHANGED <<task, page>>

(***************************************************************************)
(* The page is closed, and what it sent before is still handled; or the    *)
(* connection breaks, and it is not.                                       *)
(***************************************************************************)
PageCloses(s) ==
    /\ client[s] = "open" /\ Become(s, "closing")
    /\ UNCHANGED <<array, task, unseen, wire, page, aborted>>

EndOfStream(s) ==
    /\ \/ client[s] = "closing" /\ wire[s] = << >>
       \/ client[s] = "open"
    /\ Become(s, "closed")
    /\ wire' = [wire EXCEPT ![s] = << >>]
    /\ UNCHANGED <<array, task, unseen, page, aborted>>

(***************************************************************************)
(* The update task.  It takes the changes of the first unit that has some; *)
(* only then does it look whether ws_client, which owns the receiving end, *)
(* is still there.  handle_updates reads the array and sends nothing.      *)
(***************************************************************************)
Updated(s) ==
    /\ task[s] = "waiting"
    /\ \E u \in Units : /\ unseen[s][u] # {}
                        /\ \A v \in Units : v < u => unseen[s][v] = {}
                        /\ unseen' = [unseen EXCEPT ![s][u] = {}]
    /\ task' = [task EXCEPT ![s] = "updated"]
    /\ UNCHANGED <<array, client, wire, page, aborted>>

CarryOn(s) ==           \* mutant of AfterUpdate: without the is_closed
    /\ task[s] = "updated"
    /\ task' = [task EXCEPT ![s] = "waiting"]
    /\ UNCHANGED <<array, client, unseen, wire, page, aborted>>
AfterUpdate(s) ==
    /\ task[s] = "updated"
    /\ task' = [task EXCEPT ![s] = IF Gone(s) THEN "ended" ELSE "waiting"]
    /\ unseen' = IF Gone(s) THEN [unseen EXCEPT ![s] = Nothing] ELSE unseen
    /\ UNCHANGED <<array, client, wire, page, aborted>>

(***************************************************************************)
(* The Modbus side writes what it read, or what it was told.               *)
(***************************************************************************)
ModbusWrites(u, a) ==
    /\ Write(u, {a}, "modbus")
    /\ UNCHANGED <<client, task, wire, page, aborted>>

Serve(s) == Connected(s) \/ Receive(s)
Update(s) == Updated(s) \/ AfterUpdate(s)
Next ==
    /\ ~aborted
    /\ \/ \E s \in Sessions :
             \/ Upgrade(s) \/ UpgradeFails(s) \/ PageCloses(s) \/ EndOfStream(s)
             \/ Serve(s) \/ Update(s)
             \/ \E c \in Commands : PageSends(s, c)
       \/ \E u \in Units, a \in Addrs : ModbusWrites(u, a)

(***************************************************************************)
(* tokio runs both tasks when there is something for them to do.  Nobody   *)
(* needs to write, to send, to open a page or to close it.                 *)
(***************************************************************************)
Fairness == \A s \in Sessions : WF_vars(Serve(s)) /\ WF_vars(Update(s))
Spec == Init /\ [][Next]_vars /\ Fairness
-----------------------------------------------------------------------------
TypeOK ==
    /\ array \in [Units -> [Addrs -> Writers]]
    /\ client \in [Sessions -> {"absent", "upgrading", "open", "closing", "closed", "crashed"}]
    /\ task \in [Sessions -> {"none", "waiting", "updated", "ended"}]
    /\ unseen \in [Sessions -> [Units -> SUBSET Addrs]]
    /\ \A s \in Sessions : wire[s] \in Seq(Commands) /\ Len(wire[s]) <= MaxWire
    /\ page \in [Sessions -> [Units -> [Addrs -> Writers]]]
    /\ aborted \in BOOLEAN

(***************************************************************************)
(* The task of a session that is gone, and with it its four observers per  *)
(* device, does not outlive the next change (update_send.is_closed()).     *)
(***************************************************************************)
StaleTasksEnd ==
    \A s \in Sessions :
        Gone(s) /\ unseen[s] # Nothing ~> task[s] = "ended" \/ aborted

(***************************************************************************)
(* modbus.js: "Receive updates".  An open page does not go on showing for  *)
(* ever something else than what an element holds all the time.            *)
(***************************************************************************)
PageReceivesUpdates ==
    \A s \in Sessions, u \in Units, a \in Addrs, w \in Writers :
        ~ <>[](client[s] = "open" /\ ~aborted
               /\ array[u][a] = w /\ page[s][u][a] # w)
=============================================================================

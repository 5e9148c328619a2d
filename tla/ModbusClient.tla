---------------------------- MODULE ModbusClient ----------------------------
(***************************************************************************)
(* The client side of src/modbus_connection.rs: one task that reads the    *)
(* configured registers of the devices in turn, one request at a time, and *)
(* between two reads sends what somebody else wrote into its arrays.       *)
(*                                                                         *)
(* A cell <<u, a, i>> is address i of area a of unit u.  Each area is an   *)
(* ObservableArray; of its observer only the set of changed addresses is   *)
(* kept, as in ChangeFeed, and the ranges the code iterates over are the   *)
(* runs of that set (RangeArrayCalls!HoldsMaximalRuns).                    *)
(***************************************************************************)
EXTENDS Integers, Sequences, FiniteSetsExt

CONSTANTS
    Cells,       \* the cells that are modelled
    Writable,    \* the areas that are sent to the server: holding, coils
    Values,
    Initial,     \* what Tags::new puts into every cell
    Ops,         \* ClientOp::read_sequence: the cells of each read, in order
    Tcp,         \* client_tcp or client_rtu
    Nothing

Unit(c) == c[1]
Area(c) == c[2]
Address(c) == c[3]
Units == {Unit(c) : c \in Cells}
OneArray(S) == \A c, d \in S : Unit(c) = Unit(d) /\ Area(c) = Area(d)

ASSUME CellAssumption ==
    /\ Cells \subseteq Nat \X STRING \X Nat
    /\ 0 \notin Units
ASSUME OpsAssumption ==   \* iter.next().unwrap() panics when nothing is configured
    /\ Ops \in Seq((SUBSET Cells) \ {{}}) /\ Ops # << >>
    /\ \A k \in DOMAIN Ops : OneArray(Ops[k])
ASSUME ValueAssumption == Initial \in Values /\ Nothing \notin Values
ASSUME ModeAssumption == Tcp \in BOOLEAN

VARIABLES
    local,     \* the arrays of the program
    remote,    \* the registers of the devices behind the server
    linked,    \* whether the connection still works
    pc,        \* where the task is
    next,      \* position in Ops
    slave,     \* the unit requests are addressed to: Context::set_slave
    call,      \* the request in flight
    changed,   \* recorded for the handles of the task
    pending,   \* the cells handle_poll has not sent yet
    touched,   \* history: written by others and not yet sent, given up or ignored
    due        \* history: what others want in a cell, while nothing went wrong
vars == <<local, remote, linked, pc, next, slave, call, changed, pending, touched, due>>

ClientStates == {"connecting", "retry", "op", "reading", "select", "waiting",
                 "writing", "sending"}

NoCall == [cells |-> {}, data |-> << >>, done |-> FALSE]
UnitOf(S) == Unit(CHOOSE c \in S : TRUE)

(***************************************************************************)
(* client_poll runs on handles of its own, cloned before it starts.        *)
(***************************************************************************)
Polling == pc \notin {"connecting", "retry"}

Init ==
    /\ local = [c \in Cells |-> Initial]
    /\ remote \in [Cells -> Values]
    /\ linked = ~Tcp
    /\ pc = IF Tcp THEN "connecting" ELSE "op"
    /\ next = 1 /\ slave = 0 /\ call = NoCall
    /\ changed = {} /\ pending = {} /\ touched = {}
    /\ due = [c \in Cells |-> Nothing]
-----------------------------------------------------------------------------
Connect ==
    /\ pc = "connecting"
    /\ pc' = "op" /\ linked' = TRUE
    /\ next' = 1 /\ slave' = 0
    /\ UNCHANGED <<local, remote, call, changed, pending, touched, due>>

ConnectFails ==
    /\ pc = "connecting"
    /\ pc' = "retry"
    /\ UNCHANGED <<local, remote, linked, next, slave, call, changed, pending, touched, due>>

Sleep2s ==
    /\ pc = "retry"
    /\ pc' = "connecting"
    /\ UNCHANGED <<local, remote, linked, next, slave, call, changed, pending, touched, due>>

KeepSlave(u) == UNCHANGED slave     \* mutant of SetSlave: the unit of the connection
SetSlave(u) == slave' = u
ReadRequest ==
    /\ pc = "op"
    /\ SetSlave(UnitOf(Ops[next]))
    /\ call' = [NoCall EXCEPT !.cells = Ops[next]]
    /\ pc' = "reading"
    /\ UNCHANGED <<local, remote, linked, next, changed, pending, touched, due>>

(***************************************************************************)
(* The server takes the values at one moment, the client gets them later.  *)
(***************************************************************************)
ServeRead ==
    /\ pc = "reading" /\ linked /\ ~call.done
    /\ call' = [call EXCEPT !.data = [c \in call.cells |-> remote[c]], !.done = TRUE]
    /\ UNCHANGED <<local, remote, linked, pc, next, slave, changed, pending, touched, due>>

NoCycle == next' = next + 1            \* mutants of Advance: without cycle(),
FirstAgain == next' = 1                \* and a new iterator for every read
Advance == next' = (next % Len(Ops)) + 1

(***************************************************************************)
(* The values go into the array through the handle of the task, which      *)
(* records nothing for that handle.  What somebody wrote in the meantime   *)
(* is overwritten, though it is still recorded as a change to be sent.     *)
(***************************************************************************)
ChangesOf(cells) == cells     \* mutant of OwnChanges: exclude is ignored
OwnChanges(cells) == {}
ReadAnswered ==
    /\ pc = "reading" /\ call.done
    /\ local' = [c \in Cells |-> IF c \in call.cells THEN call.data[c] ELSE local[c]]
    /\ due' = [c \in Cells |-> IF c \in call.cells /\ call.data[c] # due[c]
                               THEN Nothing ELSE due[c]]
    /\ changed' = changed \cup OwnChanges(call.cells)
    /\ call' = NoCall
    /\ pc' = "select" /\ Advance
    /\ UNCHANGED <<remote, linked, slave, pending, touched>>

(***************************************************************************)
(* A timeout, an exception, or an error of the connection.  client_poll    *)
(* looks for an io::Error that tells of a broken pipe, to return it, but   *)
(* what execute boxes is an error of tokio_modbus, an exception code or an *)
(* Elapsed: the downcast never succeeds, and client_poll never returns.    *)
(***************************************************************************)
NoTimeout ==          \* mutant of ReadFails: the read is awaited without a timeout
    /\ pc = "reading" /\ ~linked
    /\ call' = NoCall
    /\ pc' = "select" /\ Advance
    /\ UNCHANGED <<local, remote, linked, slave, changed, pending, touched, due>>
ReadFails ==
    /\ pc = "reading"
    /\ call' = NoCall
    /\ pc' = "select" /\ Advance
    /\ UNCHANGED <<local, remote, linked, slave, changed, pending, touched, due>>
-----------------------------------------------------------------------------
(***************************************************************************)
(* select! between the poll interval and devices.updated().  Changes that  *)
(* are there at the first poll win: a sleep of more than zero is pending.  *)
(* Among the units select_all polls in order, and the first that has       *)
(* changes wins; among its areas select! starts at a random one.           *)
(***************************************************************************)
NothingYet ==
    /\ pc = "select" /\ changed = {}
    /\ pc' = "waiting"
    /\ UNCHANGED <<local, remote, linked, next, slave, call, changed, pending, touched, due>>

PollInterval ==
    /\ pc = "waiting"
    /\ pc' = "op"
    /\ UNCHANGED <<local, remote, linked, next, slave, call, changed, pending, touched, due>>

Taken(u, a) == {c \in changed : Unit(c) = u /\ Area(c) = a}
LastUnit(S) == Max({Unit(c) : c \in S})    \* mutant of FirstUnit: order reversed
FirstUnit(S) == Min({Unit(c) : c \in S})
Take(a) ==
    LET u == FirstUnit(changed)
        news == Taken(u, a)
    IN  /\ pc \in {"select", "waiting"} /\ changed # {} /\ news # {}
        /\ changed' = changed \ news
        /\ IF a \in Writable
           THEN pending' = news /\ pc' = "writing" /\ UNCHANGED touched
           ELSE pc' = "op" /\ touched' = touched \ news /\ UNCHANGED pending
        /\ UNCHANGED <<local, remote, linked, next, slave, call, due>>

(***************************************************************************)
(* handle_poll: one request per range.  The data is what the array holds   *)
(* when the request is made, not when the change was recorded.             *)
(***************************************************************************)
FirstRange(S) ==
    LET first == Min({Address(c) : c \in S})
        addresses == {Address(c) : c \in S}
    IN  {c \in S : first .. Address(c) \subseteq addresses}

WholeUpdate(S) == S     \* mutant of Handled: done after the first range
Handled(S) == FirstRange(S)
WriteRequest ==
    LET range == FirstRange(pending)
    IN  /\ pc = "writing"
        /\ call' = [cells |-> range, data |-> [c \in range |-> local[c]], done |-> FALSE]
        /\ pending' = pending \ Handled(pending)
        /\ touched' = touched \ (range \ changed)
        /\ pc' = "sending"
        /\ UNCHANGED <<local, remote, linked, next, slave, changed, due>>

(***************************************************************************)
(* The request goes to the unit set last, whichever unit it is meant for.  *)
(***************************************************************************)
MeantFor(c) == {d \in call.cells : slave = Unit(c) /\ Area(d) = Area(c)
                                                   /\ Address(d) = Address(c)}
ServeWrite ==
    /\ pc = "sending" /\ linked /\ ~call.done
    /\ remote' = [c \in Cells |-> IF MeantFor(c) = {} THEN remote[c]
                                  ELSE call.data[CHOOSE d \in MeantFor(c) : TRUE]]
    /\ call' = [call EXCEPT !.done = TRUE]
    /\ due' = [c \in Cells |-> IF c \in call.cells /\ call.data[c] = due[c]
                               THEN Nothing ELSE due[c]]
    /\ UNCHANGED <<local, linked, pc, next, slave, changed, pending, touched>>

WriteAnswered ==
    /\ pc = "sending" /\ call.done
    /\ call' = NoCall
    /\ pc' = IF pending = {} THEN "op" ELSE "writing"
    /\ UNCHANGED <<local, remote, linked, next, slave, changed, pending, touched, due>>

(***************************************************************************)
(* An exception or an error, whatever its kind, is logged; the ranges that *)
(* are left are not sent any more.  There is no timeout for a write.       *)
(***************************************************************************)
WriteFails ==
    /\ pc = "sending"
    /\ due' = [c \in Cells |-> IF c \in (call.cells \cup pending) \ changed
                               THEN Nothing ELSE due[c]]
    /\ touched' = touched \ (pending \ changed)
    /\ call' = NoCall /\ pending' = {}
    /\ pc' = "op"
    /\ UNCHANGED <<local, remote, linked, next, slave, changed>>
-----------------------------------------------------------------------------
(***************************************************************************)
(* The environment: others write into the arrays (a browser, see           *)
(* WsSession), devices change their registers, the connection breaks.      *)
(***************************************************************************)
OthersWrite(S, v) ==
    /\ S # {} /\ OneArray(S) /\ FirstRange(S) = S
    /\ local' = [c \in Cells |-> IF c \in S THEN v ELSE local[c]]
    /\ IF Polling
       THEN /\ changed' = changed \cup S /\ touched' = touched \cup S
            /\ due' = [c \in Cells |-> IF c \in S /\ Area(c) \in Writable
                                       THEN v ELSE due[c]]
       ELSE UNCHANGED <<changed, touched, due>>
    /\ UNCHANGED <<remote, linked, pc, next, slave, call, pending>>

DeviceChanges(c, v) ==
    /\ remote' = [remote EXCEPT ![c] = v]
    /\ UNCHANGED <<local, linked, pc, next, slave, call, changed, pending, touched, due>>

Breaks ==
    /\ Polling /\ linked
    /\ linked' = FALSE
    /\ UNCHANGED <<local, remote, pc, next, slave, call, changed, pending, touched, due>>

AnyTake == \E a \in {Area(c) : c \in Cells} : Take(a)
ReadEnds == ReadAnswered \/ ReadFails
WriteEnds == ServeWrite \/ WriteAnswered \/ WriteFails
Client == \/ Connect \/ ConnectFails \/ Sleep2s
          \/ ReadRequest \/ ReadEnds
          \/ NothingYet \/ PollInterval \/ AnyTake
          \/ WriteRequest \/ WriteAnswered \/ WriteFails
Environment == \/ ServeRead \/ ServeWrite \/ Breaks
               \/ \E S \in SUBSET Cells, v \in Values : OthersWrite(S, v)
               \/ \E c \in Cells, v \in Values : DeviceChanges(c, v)
Next == Client \/ Environment
(***************************************************************************)
(* The task goes on, reads time out, time passes.  Of the world around it: *)
(* a write is answered or fails (there is no timeout for it in the code),  *)
(* and a server that is tried again and again is reached.                  *)
(***************************************************************************)
TaskFairness ==
    /\ WF_vars(Connect \/ ConnectFails) /\ WF_vars(Sleep2s)
    /\ WF_vars(ReadRequest) /\ WF_vars(ReadEnds)
    /\ WF_vars(NothingYet) /\ WF_vars(PollInterval) /\ WF_vars(AnyTake)
    /\ WF_vars(WriteRequest)
WorldFairness == WF_vars(WriteEnds) /\ SF_vars(Connect)

Spec == Init /\ [][Next]_vars /\ TaskFairness /\ WorldFairness
-----------------------------------------------------------------------------
TypeOK ==
    /\ local \in [Cells -> Values] /\ remote \in [Cells -> Values]
    /\ linked \in BOOLEAN /\ pc \in ClientStates
    /\ next \in DOMAIN Ops /\ slave \in Units \cup {0}
    /\ call.cells \subseteq Cells /\ call.done \in BOOLEAN
    /\ DOMAIN call.data \subseteq call.cells
    /\ changed \subseteq Cells /\ pending \subseteq Cells /\ touched \subseteq Cells
    /\ due \in [Cells -> Values \cup {Nothing}]

(***************************************************************************)
(* What somebody wrote and wants the device to have is not forgotten on    *)
(* its way from the array to the server (updated, select!, handle_poll):   *)
(* it is recorded, or waits to be sent, or is in the request in flight.    *)
(* Exactly three things end that: a unit executed the write, be it the     *)
(* right one or not (WritesFollowReads); the answer of a read overwrote    *)
(* it; the write failed.  Taking one area of several, or one range after   *)
(* the other, does not.  What is written before there is a connection has  *)
(* no handle to be recorded for, and is never due.                         *)
(***************************************************************************)
InFlight(c) == /\ pc = "sending" /\ c \in call.cells
               /\ ~call.done /\ call.data[c] = due[c]
DueIsRemembered ==
    \A c \in Cells : due[c] # Nothing =>
        /\ local[c] = due[c]
        /\ c \in changed \/ c \in pending \/ InFlight(c)

(***************************************************************************)
(* The client sends nothing that nobody changed: what it reads from the    *)
(* device is not written back, and nothing is sent twice (execute stores   *)
(* through the same handle that updated() listens on).                     *)
(***************************************************************************)
SendsOnlyWhatChanged == changed \cup pending \subseteq touched

(***************************************************************************)
(* A device's values are sent to the unit the device is configured with    *)
(* (addr in device_list.rs: "Device or unit address").                     *)
(***************************************************************************)
WritesReachTheirUnit ==
    pc = "sending" => \A c \in call.cells : Unit(c) = slave

(***************************************************************************)
(* A write goes to the unit of the read before it, whatever the number of  *)
(* devices: nothing else in client_poll says where requests go.            *)
(***************************************************************************)
Before(k) == IF k = 1 THEN Len(Ops) ELSE k - 1
WritesFollowReads == pc = "sending" => slave = UnitOf(Ops[Before(next)])

(***************************************************************************)
(* Every read of the sequence is made again and again, whatever others     *)
(* write, however many reads fail or are not answered, and also on a       *)
(* connection that is broken (client_poll).                                *)
(***************************************************************************)
KeepsPolling == \A k \in DOMAIN Ops : []<>(pc = "op" /\ next = k)

(***************************************************************************)
(* Changes of a unit are taken unless a unit before it has changes too:    *)
(* only those can hold it up (select_all in devices.rs).                   *)
(***************************************************************************)
UnitsInTurn ==
    \A c \in Cells : []<>(\/ c \notin changed
                          \/ \E d \in changed : Unit(d) < Unit(c))

(***************************************************************************)
(* Once nobody writes any more, the devices hold still and requests are    *)
(* answered, the arrays and the devices agree on every cell that is read,  *)
(* and stay so: no late write and no stale answer undoes it.               *)
(***************************************************************************)
Disturbance ==
    \/ \E S \in SUBSET Cells, v \in Values : OthersWrite(S, v)
    \/ \E c \in Cells, v \in Values : DeviceChanges(c, v)
    \/ ReadFails /\ ~ReadAnswered     \* a read that is answered with what is known
    \/ WriteFails /\ ~WriteAnswered   \* already, or a failure after the fact, differs
    \/ Breaks \/ ConnectFails         \* from the answer by nothing
Mirrored == \A k \in DOMAIN Ops : \A c \in Ops[k] : local[c] = remote[c]
Converges == <>[][~Disturbance]_vars => <>[]Mirrored

(***************************************************************************)
(* A broken connection is replaced.  client_tcp is made for it: the loop   *)
(* tries again after two seconds when client_poll returned because of a    *)
(* broken pipe.                                                            *)
(***************************************************************************)
Reconnects == ~linked ~> linked
=============================================================================

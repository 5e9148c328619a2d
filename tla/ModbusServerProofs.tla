-------------------------- MODULE ModbusServerProofs --------------------------
(***************************************************************************)
(* ModbusServer for any number of connections and other tasks and for      *)
(* addresses of any width.                                                 *)
(***************************************************************************)
EXTENDS ModbusServer, TLAPS

(***************************************************************************)
(* The guards that are held are those of server_read, between its look at  *)
(* the lock and the end of the slice.                                      *)
(***************************************************************************)
ReadersHoldGuards == \A t \in Tasks : t \in reading <=> pc[t] \in {"len", "slice"}

(***************************************************************************)
(* A task is in a function because it was asked for it.                    *)
(***************************************************************************)
Reading(t) == pc[t] \in {"get_array", "len", "slice"}
Writing(t) == pc[t] \in {"check", "update"}
DoesWhatItIsAsked ==
    /\ \A t \in Connections :
          /\ Reading(t) => request[t].known /\ request[t].function = "read"
          /\ Writing(t) => request[t].known /\ request[t].function = "write"
    /\ \A t \in Others :
          /\ ~Reading(t) /\ pc[t] # "check"
          /\ pc[t] = "update" => request[t].function # "read"

(***************************************************************************)
(* AbortsAreKnown is not inductive: the task that poisoned the lock could  *)
(* be asked for something else.  But it unwinds until the process is gone. *)
(***************************************************************************)
Culprit(t) == outcome[t] = "panic" /\ request[t].function = "write" /\ Overruns(request[t])
CulpritUnwinds ==
    /\ poisoned /\ ~aborted => \E t \in Tasks : Culprit(t) /\ pc[t] = "unwind"
    /\ aborted => \E t \in Tasks : Culprit(t)

IInv == /\ TypeOK /\ ReadersHoldGuards /\ DoesWhatItIsAsked
        /\ AnswersAreRight /\ PanicsAreKnown /\ CulpritUnwinds

LEMMA SizeFacts == Size \in Nat /\ Overflow = Size /\ Counts \subseteq Nat
BY ServerAssumption

LEMMA RequestFields ==
  ASSUME NEW r \in Requests
  PROVE  /\ r.function \in {"read", "write", "any"} /\ r.known \in BOOLEAN
         /\ r.start \in Nat /\ r.count \in Nat
         /\ r.known => r.start < Size /\ r.function # "any"
<1>1. CASE r \in [function : {"read", "write"}, known : {TRUE}, start : Starts, count : Counts]
  <2>1. r.start \in Nat /\ r.start < Size
    BY <1>1, SizeFacts DEF Starts
  <2> QED BY <1>1, <2>1, SizeFacts
<1>2. CASE r \in [function : {"read", "write"}, known : {FALSE}, start : {0}, count : {0}]
  <2>1. r.known = FALSE /\ r.start = 0 /\ r.count = 0 /\ r.function \in {"read", "write"}
    BY <1>2
  <2>2. r.start \in Nat /\ r.count \in Nat
    BY <2>1
  <2>3. ~r.known /\ r.known \in BOOLEAN
    BY <2>1, Zenon
  <2> QED BY <2>1, <2>2, <2>3, Zenon
<1>3. CASE r = NoRequest
  BY <1>3 DEF NoRequest
<1> QED BY <1>1, <1>2, <1>3 DEF Requests

(***************************************************************************)
(* What server_read makes of its slice, in exact arithmetic: it panics     *)
(* only for the last address (start..(start + count)).                     *)
(***************************************************************************)
LEMMA SliceFacts ==
  ASSUME NEW r \in Requests
  PROVE  /\ SliceOutcome(r) \in {"IllegalDataAddress", "panic", "data"}
         /\ SliceOutcome(r) = "data" => r.start + r.count <= Size
         /\ SliceOutcome(r) = "panic" => r.start + r.count = Size
         /\ SliceOutcome(r) = "IllegalDataAddress" => r.start + r.count > Size
<1> DEFINE sum == r.start + r.count
<1>1. sum \in Nat /\ r.start \in Nat /\ r.start <= sum /\ Size \in Nat /\ Overflow = Size
  BY RequestFields, SizeFacts
<1>2. sum < Size => sum % Overflow = sum
  BY <1>1
<1> QED BY <1>1, <1>2 DEF SliceOutcome, InRange
-----------------------------------------------------------------------------
LEMMA RequestTypes ==
  ASSUME TypeOK, NEW t \in Tasks
  PROVE  /\ request[t] \in Requests
         /\ request[t].start \in Nat /\ request[t].count \in Nat
<1>1. request[t] \in Requests
  BY DEF TypeOK
<1> QED BY <1>1, RequestFields

LEMMA NoRequestIsOne == NoRequest \in Requests
BY DEF Requests

LEMMA InitIInv == Init => IInv
<1> SUFFICES ASSUME Init PROVE IInv
  OBVIOUS
<1>1. TypeOK
  BY NoRequestIsOne DEF Init, TypeOK, Outcomes
<1>2. ReadersHoldGuards /\ DoesWhatItIsAsked
  BY DEF Init, ReadersHoldGuards, DoesWhatItIsAsked, Reading, Writing, Tasks
<1>3. AnswersAreRight /\ PanicsAreKnown /\ CulpritUnwinds
  BY DEF Init, AnswersAreRight, PanicsAreKnown, CulpritUnwinds, Tasks
<1> QED BY <1>1, <1>2, <1>3 DEF IInv

LEMMA CallIInv ==
  ASSUME IInv, ~aborted, NEW t \in Connections, NEW r \in Requests, Call(t, r)
  PROVE  IInv'
<1> USE DEF IInv
<1>1. TypeOK'
  BY DEF Call, Finish, Step, TypeOK, Tasks, Outcomes
<1>2. ReadersHoldGuards'
  BY DEF Call, Finish, Step, TypeOK, ReadersHoldGuards, Tasks
<1>3. DoesWhatItIsAsked'
  <2>1. \/ pc' = [pc EXCEPT ![t] = "idle"]
        \/ r.known /\ r.function = "read" /\ pc' = [pc EXCEPT ![t] = "get_array"]
        \/ r.known /\ r.function = "write" /\ pc' = [pc EXCEPT ![t] = "check"]
    BY RequestFields DEF Call, Finish, Step
  <2>2. request' = [request EXCEPT ![t] = r]
    BY DEF Call
  <2> QED BY <2>1, <2>2, ServerAssumption
          DEF TypeOK, DoesWhatItIsAsked, Reading, Writing, Tasks
<1>4. AnswersAreRight'
  BY DEF Call, Finish, Step, TypeOK, AnswersAreRight, Tasks
<1>5. PanicsAreKnown'
  BY DEF Call, Finish, Step, TypeOK, PanicsAreKnown
<1>6. CulpritUnwinds'
  BY DEF Call, Finish, Step, TypeOK, CulpritUnwinds, Culprit, Tasks
<1> QED BY <1>1, <1>2, <1>3, <1>4, <1>5, <1>6

LEMMA EnterGetArrayIInv ==
  ASSUME IInv, ~aborted, NEW t \in Connections, EnterGetArray(t)
  PROVE  IInv'
<1> USE DEF IInv
<1>1. TypeOK'
  BY DEF EnterGetArray, Finish, Step, TypeOK, Tasks, Outcomes
<1>2. ReadersHoldGuards'
  BY DEF EnterGetArray, Finish, Step, TypeOK, ReadersHoldGuards, Tasks
<1>3. DoesWhatItIsAsked'
  BY ServerAssumption DEF EnterGetArray, Finish, Step, TypeOK, DoesWhatItIsAsked, Reading, Writing, Tasks
<1>4. AnswersAreRight'
  BY DEF EnterGetArray, Finish, Step, TypeOK, AnswersAreRight, Tasks
<1>5. PanicsAreKnown'
  BY DEF EnterGetArray, Finish, Step, TypeOK, PanicsAreKnown
<1>6. CulpritUnwinds'
  BY DEF EnterGetArray, Finish, Step, TypeOK, CulpritUnwinds, Culprit, Tasks
<1> QED BY <1>1, <1>2, <1>3, <1>4, <1>5, <1>6

LEMMA ReadLengthIInv ==
  ASSUME IInv, ~aborted, NEW t \in Connections, ReadLength(t)
  PROVE  IInv'
<1> USE DEF IInv
<1>1. TypeOK'
  BY DEF ReadLength, Step, TypeOK, Tasks, Outcomes
<1>2. ReadersHoldGuards'
  BY DEF ReadLength, Step, TypeOK, ReadersHoldGuards, Tasks
<1>3. DoesWhatItIsAsked'
  BY ServerAssumption DEF ReadLength, Step, TypeOK, DoesWhatItIsAsked, Reading, Writing, Tasks
<1>4. AnswersAreRight'
  BY DEF ReadLength, Step, TypeOK, AnswersAreRight
<1>5. PanicsAreKnown'
  BY DEF ReadLength, Step, TypeOK, PanicsAreKnown
<1>6. CulpritUnwinds'
  BY DEF ReadLength, Step, TypeOK, CulpritUnwinds, Culprit, Tasks
<1> QED BY <1>1, <1>2, <1>3, <1>4, <1>5, <1>6

LEMMA SliceIInv ==
  ASSUME IInv, ~aborted, NEW t \in Connections, Slice(t)
  PROVE  IInv'
<1> USE DEF IInv
<1> DEFINE how == SliceOutcome(request[t])
<1>0. /\ request[t].function = "read"
      /\ how \in {"IllegalDataAddress", "panic", "data"}
      /\ how = "data" => request[t].start + request[t].count <= Size
      /\ how = "panic" => request[t].start + request[t].count = Overflow
      /\ how = "IllegalDataAddress" => request[t].start + request[t].count > Size
  BY RequestTypes, SliceFacts, SizeFacts DEF Slice, DoesWhatItIsAsked, Reading, Tasks
<1>1. TypeOK'
  BY <1>0 DEF Slice, Finish, Step, TypeOK, Tasks, Outcomes
<1>2. ReadersHoldGuards'
  BY DEF Slice, Finish, Step, TypeOK, ReadersHoldGuards, Tasks
<1>3. DoesWhatItIsAsked'
  BY ServerAssumption DEF Slice, Finish, Step, TypeOK, DoesWhatItIsAsked, Reading, Writing, Tasks
<1>4. AnswersAreRight'
  BY <1>0 DEF Slice, Finish, Step, TypeOK, AnswersAreRight, Tasks
<1>5. PanicsAreKnown'
  BY <1>0 DEF Slice, Finish, Step, TypeOK, PanicsAreKnown
<1>6. CulpritUnwinds'
  BY DEF Slice, Finish, Step, TypeOK, CulpritUnwinds, Culprit, Tasks
<1> QED BY <1>1, <1>2, <1>3, <1>4, <1>5, <1>6

LEMMA CheckWriteIInv ==
  ASSUME IInv, ~aborted, NEW t \in Connections, CheckWrite(t)
  PROVE  IInv'
<1> USE DEF IInv
<1>1. TypeOK'
  BY DEF CheckWrite, Finish, Step, TypeOK, Tasks, Outcomes
<1>2. ReadersHoldGuards'
  BY DEF CheckWrite, Finish, Step, TypeOK, ReadersHoldGuards, Tasks
<1>3. DoesWhatItIsAsked'
  BY ServerAssumption DEF CheckWrite, Finish, Step, TypeOK, DoesWhatItIsAsked, Reading, Writing, Tasks
<1>4. AnswersAreRight'
  <2>1. request[t] \in Requests /\ request[t].known
    BY RequestTypes DEF CheckWrite, DoesWhatItIsAsked, Writing, Tasks
  <2>2. outcome' = outcome \/ outcome' = [outcome EXCEPT ![t] = "panic"]
    BY <2>1, RequestFields DEF CheckWrite, Finish
  <2> QED BY <2>2 DEF CheckWrite, TypeOK, AnswersAreRight, Tasks
<1>5. PanicsAreKnown'
  BY DEF CheckWrite, Finish, Step, TypeOK, PanicsAreKnown
<1>6. CulpritUnwinds'
  BY DEF CheckWrite, Finish, Step, TypeOK, CulpritUnwinds, Culprit, Tasks
<1> QED BY <1>1, <1>2, <1>3, <1>4, <1>5, <1>6

LEMMA ServerUpdateIInv ==
  ASSUME IInv, ~aborted, NEW t \in Connections, ServerUpdate(t)
  PROVE  IInv'
<1> USE DEF IInv
<1>1. TypeOK'
  BY DEF ServerUpdate, Poisons, Finish, Step, TypeOK, Tasks, Outcomes
<1>2. ReadersHoldGuards'
  BY DEF ServerUpdate, Poisons, Finish, Step, TypeOK, ReadersHoldGuards, Tasks
<1>3. DoesWhatItIsAsked'
  BY ServerAssumption DEF ServerUpdate, Poisons, Finish, Step, TypeOK, DoesWhatItIsAsked, Reading, Writing, Tasks
<1>4. AnswersAreRight'
  <2>1. outcome'[t] = "written" => ~Overruns(request[t])
    BY DEF ServerUpdate, Finish, TypeOK, Tasks
  <2>2. /\ outcome'[t] \in {"written", "panic"} /\ request' = request
        /\ \A x \in Connections : x # t => outcome'[x] = outcome[x]
    BY DEF ServerUpdate, Finish, TypeOK, Tasks
  <2> QED BY <2>1, <2>2, RequestTypes, SizeFacts DEF Overruns, AnswersAreRight, Tasks
<1>5. PanicsAreKnown'
  BY DEF ServerUpdate, Poisons, Finish, Step, TypeOK, PanicsAreKnown
<1>6. CulpritUnwinds'
  <2>1. request[t].function = "write" /\ request' = request /\ aborted' = FALSE
    BY DEF ServerUpdate, DoesWhatItIsAsked, Writing
  <2>2. CASE Overruns(request[t])
    <3>1. outcome'[t] = "panic" /\ pc'[t] = "unwind"
      BY <2>2 DEF ServerUpdate, Finish, Step, TypeOK, Tasks
    <3> QED BY <2>1, <2>2, <3>1 DEF CulpritUnwinds, Culprit, Overruns, Tasks
  <2>3. CASE ~Overruns(request[t])
    <3>1. poisoned' = poisoned
      BY <2>3 DEF ServerUpdate, Poisons, TypeOK
    <3>2. \A x \in Tasks : Culprit(x) /\ pc[x] = "unwind" =>
             Culprit(x)' /\ pc'[x] = "unwind"
      BY <2>1 DEF ServerUpdate, Finish, Step, TypeOK, Culprit, Tasks
    <3> QED BY <2>1, <3>1, <3>2 DEF CulpritUnwinds
  <2> QED BY <2>2, <2>3
<1> QED BY <1>1, <1>2, <1>3, <1>4, <1>5, <1>6

LEMMA AcceptIInv ==
  ASSUME IInv, ~aborted, NEW t \in Connections, Accept(t)
  PROVE  IInv'
<1> USE DEF IInv
<1>1. TypeOK'
  BY NoRequestIsOne DEF Accept, Step, TypeOK, Tasks, Outcomes
<1>2. ReadersHoldGuards'
  BY DEF Accept, Step, TypeOK, ReadersHoldGuards, Tasks
<1>3. DoesWhatItIsAsked'
  BY ServerAssumption DEF Accept, Step, TypeOK, DoesWhatItIsAsked, Reading, Writing, Tasks
<1>4. AnswersAreRight'
  BY DEF Accept, Step, TypeOK, AnswersAreRight
<1>5. PanicsAreKnown'
  BY DEF Accept, Step, TypeOK, PanicsAreKnown
<1>6. CulpritUnwinds'
  BY DEF Accept, Step, TypeOK, CulpritUnwinds, Culprit, Tasks
<1> QED BY <1>1, <1>2, <1>3, <1>4, <1>5, <1>6

LEMMA JoinIInv ==
  ASSUME IInv, ~aborted, NEW t \in Connections, Join(t)
  PROVE  IInv'
<1> USE DEF IInv
<1>1. TypeOK'
  BY DEF Join, Step, TypeOK, Tasks, Outcomes
<1>2. ReadersHoldGuards'
  BY DEF Join, Step, TypeOK, ReadersHoldGuards, Tasks
<1>3. DoesWhatItIsAsked'
  BY ServerAssumption DEF Join, Step, TypeOK, DoesWhatItIsAsked, Reading, Writing, Tasks
<1>4. AnswersAreRight'
  BY DEF Join, Step, TypeOK, AnswersAreRight
<1>5. PanicsAreKnown'
  BY DEF Join, Step, TypeOK, PanicsAreKnown
<1>6. CulpritUnwinds'
  BY DEF Join, Step, TypeOK, CulpritUnwinds, Culprit, Tasks
<1> QED BY <1>1, <1>2, <1>3, <1>4, <1>5, <1>6

LEMMA DisconnectIInv ==
  ASSUME IInv, ~aborted, NEW t \in Connections, Disconnect(t)
  PROVE  IInv'
<1> USE DEF IInv
<1>1. TypeOK'
  BY DEF Disconnect, Step, TypeOK, Tasks, Outcomes
<1>2. ReadersHoldGuards'
  BY DEF Disconnect, Step, TypeOK, ReadersHoldGuards, Tasks
<1>3. DoesWhatItIsAsked'
  BY ServerAssumption DEF Disconnect, Step, TypeOK, DoesWhatItIsAsked, Reading, Writing, Tasks
<1>4. AnswersAreRight'
  BY DEF Disconnect, Step, TypeOK, AnswersAreRight
<1>5. PanicsAreKnown'
  BY DEF Disconnect, Step, TypeOK, PanicsAreKnown
<1>6. CulpritUnwinds'
  BY DEF Disconnect, Step, TypeOK, CulpritUnwinds, Culprit, Tasks
<1> QED BY <1>1, <1>2, <1>3, <1>4, <1>5, <1>6

LEMMA LeaveIInv ==
  ASSUME IInv, ~aborted, NEW t \in Connections, Leave(t)
  PROVE  IInv'
<1> USE DEF IInv
<1>1. TypeOK'
  BY DEF Leave, Step, TypeOK, Tasks, Outcomes
<1>2. ReadersHoldGuards'
  BY DEF Leave, Step, TypeOK, ReadersHoldGuards, Tasks
<1>3. DoesWhatItIsAsked'
  BY ServerAssumption DEF Leave, Step, TypeOK, DoesWhatItIsAsked, Reading, Writing, Tasks
<1>4. AnswersAreRight'
  BY DEF Leave, Step, TypeOK, AnswersAreRight
<1>5. PanicsAreKnown'
  BY DEF Leave, Step, TypeOK, PanicsAreKnown
<1>6. CulpritUnwinds'
  BY DEF Leave, Step, TypeOK, CulpritUnwinds, Culprit, Tasks
<1> QED BY <1>1, <1>2, <1>3, <1>4, <1>5, <1>6

LEMMA AskIInv ==
  ASSUME IInv, ~aborted, NEW t \in Others, NEW r \in Requests, Ask(t, r)
  PROVE  IInv'
<1> USE DEF IInv
<1>0. t \in Tasks /\ t \notin Connections
  BY ServerAssumption DEF Tasks
<1>1. TypeOK'
  BY <1>0 DEF Ask, Finish, Step, TypeOK, Outcomes
<1>2. ReadersHoldGuards'
  BY <1>0 DEF Ask, Finish, Step, TypeOK, ReadersHoldGuards
<1>3. DoesWhatItIsAsked'
  <2>1. \/ pc' = [pc EXCEPT ![t] = "unwind"]
        \/ pc' = [pc EXCEPT ![t] = "look"]
        \/ r.function # "read" /\ pc' = [pc EXCEPT ![t] = "update"]
    BY DEF Ask, Finish, Step
  <2>2. request' = [request EXCEPT ![t] = r]
    BY DEF Ask
  <2> QED BY <1>0, <2>1, <2>2 DEF TypeOK, DoesWhatItIsAsked, Reading, Writing, Tasks
<1>4. AnswersAreRight'
  BY <1>0 DEF Ask, Finish, Step, TypeOK, AnswersAreRight, Tasks
<1>5. PanicsAreKnown'
  <2>1. outcome'[t] = "panic" => r.function # "any" /\ ~r.known
    BY <1>0 DEF Ask, Finish, TypeOK
  <2> QED BY <1>0, <2>1 DEF Ask, Finish, TypeOK, PanicsAreKnown
<1>6. CulpritUnwinds'
  BY <1>0 DEF Ask, Finish, Step, TypeOK, CulpritUnwinds, Culprit
<1> QED BY <1>1, <1>2, <1>3, <1>4, <1>5, <1>6

LEMMA UseIInv ==
  ASSUME IInv, ~aborted, NEW t \in Others, Use(t)
  PROVE  IInv'
<1> USE DEF IInv
<1>0. /\ t \in Tasks /\ t \notin Connections
      /\ request[t].function \in {"read", "write", "any"}
  BY ServerAssumption, RequestTypes, RequestFields DEF Tasks
<1>1. TypeOK'
  BY <1>0 DEF Use, Finish, Step, TypeOK, Outcomes
<1>2. ReadersHoldGuards'
  BY <1>0 DEF Use, Finish, Step, TypeOK, ReadersHoldGuards
<1>3. DoesWhatItIsAsked'
  BY <1>0 DEF Use, Finish, Step, TypeOK, DoesWhatItIsAsked, Reading, Writing, Tasks
<1>4. AnswersAreRight'
  BY <1>0 DEF Use, Finish, TypeOK, AnswersAreRight, Tasks
<1>5. PanicsAreKnown'
  <2>1. outcome'[t] = "panic" => poisoned \/ RunsOver(t)
    BY <1>0 DEF Use, Finish, TypeOK
  <2> QED BY <1>0, <2>1 DEF Use, Finish, TypeOK, PanicsAreKnown, RunsOver
<1>6. CulpritUnwinds'
  <2>1. CASE pc[t] = "update" /\ RunsOver(t)
    <3>1. request[t].function = "write" /\ request' = request /\ aborted' = FALSE
      BY <1>0, <2>1 DEF Use, RunsOver, DoesWhatItIsAsked
    <3>2. outcome'[t] = "panic" /\ pc'[t] = "unwind"
      BY <1>0, <2>1 DEF Use, Finish, Step, TypeOK
    <3> QED BY <1>0, <2>1, <3>1, <3>2 DEF RunsOver, CulpritUnwinds, Culprit
  <2>2. CASE ~(pc[t] = "update" /\ RunsOver(t))
    <3>1. poisoned' = poisoned /\ aborted' = FALSE /\ request' = request
      BY <2>2 DEF Use, TypeOK
    <3>2. \A x \in Tasks : Culprit(x) /\ pc[x] = "unwind" =>
             Culprit(x)' /\ pc'[x] = "unwind"
      BY <1>0, <3>1 DEF Use, Finish, Step, TypeOK, Culprit
    <3> QED BY <3>1, <3>2 DEF CulpritUnwinds
  <2> QED BY <2>1, <2>2
<1> QED BY <1>1, <1>2, <1>3, <1>4, <1>5, <1>6

LEMMA UnwindIInv ==
  ASSUME IInv, ~aborted, NEW t \in Tasks, Unwind(t)
  PROVE  IInv'
<1> USE DEF IInv
<1>1. TypeOK'
  BY DEF Unwind, Step, TypeOK, Tasks, Outcomes
<1>2. ReadersHoldGuards'
  BY DEF Unwind, Step, TypeOK, ReadersHoldGuards, Tasks
<1>3. DoesWhatItIsAsked'
  BY ServerAssumption DEF Unwind, Step, TypeOK, DoesWhatItIsAsked, Reading, Writing, Tasks
<1>4. AnswersAreRight'
  BY DEF Unwind, Step, TypeOK, AnswersAreRight
<1>5. PanicsAreKnown'
  BY DEF Unwind, Step, TypeOK, PanicsAreKnown
<1>6. CulpritUnwinds'
  BY DEF Unwind, Step, TypeOK, CulpritUnwinds, Culprit, Tasks
<1> QED BY <1>1, <1>2, <1>3, <1>4, <1>5, <1>6

LEMMA NextIInv == IInv /\ [Next]_vars => IInv'
<1> SUFFICES ASSUME IInv, [Next]_vars PROVE IInv'
  OBVIOUS
<1>1. CASE UNCHANGED vars
  <2> USE <1>1 DEF vars, IInv
  <2>1. TypeOK' /\ ReadersHoldGuards'
    BY DEF TypeOK, ReadersHoldGuards
  <2>2. DoesWhatItIsAsked' /\ AnswersAreRight' /\ PanicsAreKnown'
    BY DEF DoesWhatItIsAsked, Reading, Writing, AnswersAreRight, PanicsAreKnown
  <2>3. CulpritUnwinds'
    BY DEF CulpritUnwinds, Culprit
  <2> QED BY <2>1, <2>2, <2>3
<1>2. ASSUME ~aborted, NEW t \in Connections, Serve(t) PROVE IInv'
  BY <1>2, CallIInv, EnterGetArrayIInv, ReadLengthIInv, SliceIInv, CheckWriteIInv,
     ServerUpdateIInv, AcceptIInv, JoinIInv, DisconnectIInv, LeaveIInv DEF Serve
<1>3. ASSUME ~aborted, NEW t \in Others, Use(t) \/ \E r \in Requests : Ask(t, r) PROVE IInv'
  BY <1>3, AskIInv, UseIInv
<1>4. ASSUME ~aborted, NEW t \in Tasks, Unwind(t) PROVE IInv'
  BY <1>4, UnwindIInv
<1> QED BY <1>1, <1>2, <1>3, <1>4 DEF Next

(***************************************************************************)
(* The invariant holds in every behaviour of the server and the tasks that *)
(* share its array.                                                        *)
(***************************************************************************)
THEOREM Invariance == Spec => []IInv
BY InitIInv, NextIInv, PTL DEF Spec

-----------------------------------------------------------------------------
(***************************************************************************)
(* The types of the state.                                                 *)
(***************************************************************************)
THEOREM TypeCorrect == Spec => []TypeOK
<1>1. IInv => TypeOK
  BY DEF IInv
<1> QED BY <1>1, Invariance, PTL

(***************************************************************************)
(* A Modbus client is told the truth, in exact arithmetic (server_read,    *)
(* server_write).                                                          *)
(***************************************************************************)
THEOREM AnswersCorrect == Spec => []AnswersAreRight
<1>1. IInv => AnswersAreRight
  BY DEF IInv
<1> QED BY <1>1, Invariance, PTL

(***************************************************************************)
(* No other panics than those of a poisoned lock and of what a task was    *)
(* asked itself: a read that ends at the last address (server_read), a     *)
(* range over the end or an unknown unit (handle_receive).                 *)
(***************************************************************************)
THEOREM NoOtherPanics == Spec => []PanicsAreKnown
<1>1. IInv => PanicsAreKnown
  BY DEF IInv
<1> QED BY <1>1, Invariance, PTL

(***************************************************************************)
(* Only a write over the end poisons the lock and aborts the process       *)
(* (server_write, handle_receive, Drop for ObservableArray).               *)
(***************************************************************************)
THEOREM NoOtherAborts == Spec => []AbortsAreKnown
<1>1. IInv => AbortsAreKnown
  BY DEF IInv, CulpritUnwinds, Culprit, AbortsAreKnown
<1> QED BY <1>1, Invariance, PTL

(***************************************************************************)
(* If tasks wait in a circle, somebody holds a guard, since a lock nobody  *)
(* holds is had by a writer, or else by any reader.  Who holds one is in   *)
(* server_read, and if it were about to use its slice it would not wait.   *)
(***************************************************************************)
LEMMA StuckReader == IInv => OnlyNestedReadsBlock
<1> SUFFICES ASSUME IInv, Stuck
             PROVE  \E t \in Connections : pc[t] = "len" /\ t \in reading
  BY DEF OnlyNestedReadsBlock
<1>1. PICK t \in Tasks : Busy(t)
  BY DEF Stuck
<1>2. \A x \in Tasks : Busy(x) => Blocked(x)
  BY DEF Stuck
<1>3. \A x \in Tasks : WantsWrite(x) => Busy(x) /\ ~WantsRead(x)
  BY DEF WantsWrite, WantsRead, Busy
<1>4. reading # {}
  <2> SUFFICES ASSUME reading = {} PROVE FALSE
    OBVIOUS
  <2>1. \A x \in Tasks : ~WantsWrite(x)
    BY <1>2, <1>3 DEF Blocked, MayWrite
  <2> QED BY <1>1, <1>2, <2>1 DEF Blocked, MayRead
<1>5. PICK x \in Tasks : x \in reading
  BY <1>4 DEF IInv, TypeOK
<1>6. pc[x] \in {"len", "slice"}
  BY <1>5 DEF IInv, ReadersHoldGuards
<1>7. pc[x] # "slice"
  BY <1>2 DEF Busy, Blocked, WantsRead, WantsWrite
<1>8. x \in Connections
  BY <1>6 DEF IInv, DoesWhatItIsAsked, Reading, Tasks
<1> QED BY <1>5, <1>6, <1>7, <1>8

(***************************************************************************)
(* The nested read guard of array.len() in server_read is the only way to  *)
(* a deadlock.                                                             *)
(***************************************************************************)
THEOREM NoOtherDeadlocks == Spec => []OnlyNestedReadsBlock
BY StuckReader, Invariance, PTL
=============================================================================

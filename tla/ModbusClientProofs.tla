-------------------------- MODULE ModbusClientProofs --------------------------
(***************************************************************************)
(* ModbusClient for any cells, any sequence of reads, any values.          *)
(***************************************************************************)
EXTENDS ModbusClient, SequenceTheorems, TLAPS

Data == {<< >>} \cup UNION {[S -> Values] : S \in SUBSET Cells}
CallTypes ==
    /\ call \in [cells : SUBSET Cells, data : Data, done : BOOLEAN]
    /\ pc = "reading" /\ call.done => call.data \in [call.cells -> Values]
    /\ pc = "sending" => call.data \in [call.cells -> Values]

(***************************************************************************)
(* What was taken out of an observer is handled before anything else is    *)
(* done: handle_poll is awaited outside of the select!.                    *)
(***************************************************************************)
TakenIsHandled == pending # {} => pc \in {"writing", "sending"}

(***************************************************************************)
(* The first three are inductive together; the others need them.           *)
(***************************************************************************)
TInv == TypeOK /\ CallTypes /\ TakenIsHandled
SInv == TInv /\ SendsOnlyWhatChanged

DueIsSendable ==
    \A c \in Cells : due[c] # Nothing => Area(c) \in Writable /\ Polling
DInv == TInv /\ DueIsSendable /\ DueIsRemembered

LEMMA OpsFacts ==
  /\ Len(Ops) \in Nat /\ Len(Ops) > 0 /\ DOMAIN Ops = 1 .. Len(Ops)
  /\ \A k \in DOMAIN Ops : Ops[k] \subseteq Cells /\ Ops[k] # {}
<1>1. Ops \in Seq((SUBSET Cells) \ {{}}) /\ Ops # << >>
  BY OpsAssumption
<1>2. Len(Ops) \in Nat /\ DOMAIN Ops = 1 .. Len(Ops)
  BY <1>1
<1>3. Len(Ops) # 0
  BY <1>1
<1>4. \A k \in DOMAIN Ops : Ops[k] \subseteq Cells /\ Ops[k] # {}
  <2>1. \A k \in DOMAIN Ops : Ops[k] \in (SUBSET Cells) \ {{}}
    BY <1>1, ElementOfSeq, <1>2
  <2> QED BY <2>1
<1> QED BY <1>2, <1>3, <1>4

LEMMA UnitOfIsAUnit ==
  ASSUME NEW S \in SUBSET Cells, S # {}
  PROVE  UnitOf(S) \in Units /\ UnitOf(S) # 0
BY CellAssumption DEF UnitOf, Units

LEMMA FirstRangeSubset == \A S : FirstRange(S) \subseteq S
BY DEF FirstRange

LEMMA NoCallType ==
  /\ NoCall \in [cells : SUBSET Cells, data : Data, done : BOOLEAN]
  /\ NoCall.cells = {} /\ NoCall.done = FALSE /\ DOMAIN NoCall.data = {}
BY DEF NoCall, Data

LEMMA AdvanceType == ASSUME next \in DOMAIN Ops, Advance PROVE next' \in DOMAIN Ops
BY OpsFacts DEF Advance

(***************************************************************************)
(* Values for some cells are data of a request for these cells.            *)
(***************************************************************************)
LEMMA DataLemma ==
  ASSUME NEW S \in SUBSET Cells, NEW f \in [Cells -> Values]
  PROVE  [c \in S |-> f[c]] \in [S -> Values] /\ [c \in S |-> f[c]] \in Data
<1>1. [c \in S |-> f[c]] \in [S -> Values]
  OBVIOUS
<1> QED BY <1>1 DEF Data
-----------------------------------------------------------------------------
LEMMA InitTInv == Init => TInv
<1> SUFFICES ASSUME Init PROVE TInv
  OBVIOUS
<1>1. TypeOK
  BY OpsFacts, ValueAssumption, ModeAssumption
     DEF Init, TypeOK, ClientStates, NoCall
<1>2. CallTypes /\ TakenIsHandled
  BY NoCallType DEF Init, CallTypes, TakenIsHandled
<1> QED BY <1>1, <1>2 DEF TInv

LEMMA ConnectTInv ==
  ASSUME TInv, Connect
  PROVE  TInv'
<1> USE DEF TInv
<1>1. TypeOK'
  BY OpsFacts DEF Connect, TypeOK, ClientStates, CallTypes
<1>2. CallTypes'
  BY NoCallType DEF Connect, TypeOK, CallTypes
<1>3. TakenIsHandled'
  BY OpsFacts DEF Connect, TakenIsHandled
<1> QED BY <1>1, <1>2, <1>3

LEMMA ConnectFailsTInv ==
  ASSUME TInv, ConnectFails
  PROVE  TInv'
<1> USE DEF TInv
<1>1. TypeOK'
  BY DEF ConnectFails, TypeOK, ClientStates, CallTypes
<1>2. CallTypes'
  BY NoCallType DEF ConnectFails, TypeOK, CallTypes
<1>3. TakenIsHandled'
  BY DEF ConnectFails, TakenIsHandled
<1> QED BY <1>1, <1>2, <1>3

LEMMA Sleep2sTInv ==
  ASSUME TInv, Sleep2s
  PROVE  TInv'
<1> USE DEF TInv
<1>1. TypeOK'
  BY DEF Sleep2s, TypeOK, ClientStates, CallTypes
<1>2. CallTypes'
  BY NoCallType DEF Sleep2s, TypeOK, CallTypes
<1>3. TakenIsHandled'
  BY DEF Sleep2s, TakenIsHandled
<1> QED BY <1>1, <1>2, <1>3

LEMMA ReadRequestTInv ==
  ASSUME TInv, ReadRequest
  PROVE  TInv'
<1> USE DEF TInv
<1>0. /\ Ops[next] \in SUBSET Cells /\ UnitOf(Ops[next]) \in Units
      /\ call' = [NoCall EXCEPT !.cells = Ops[next]]
  BY OpsFacts, UnitOfIsAUnit DEF TypeOK, ReadRequest
<1>00. /\ call' \in [cells : SUBSET Cells, data : Data, done : BOOLEAN]
       /\ call'.cells = Ops[next] /\ call'.done = FALSE /\ DOMAIN call'.data = {}
  BY <1>0, NoCallType
<1>1. TypeOK'
  BY <1>0, <1>00 DEF ReadRequest, SetSlave, TypeOK, ClientStates, CallTypes
<1>2. CallTypes'
  BY <1>00 DEF ReadRequest, TypeOK, CallTypes
<1>3. TakenIsHandled'
  BY DEF ReadRequest, TakenIsHandled
<1> QED BY <1>1, <1>2, <1>3

LEMMA ServeReadTInv ==
  ASSUME TInv, ServeRead
  PROVE  TInv'
<1> USE DEF TInv
<1>0. /\ call'.cells = call.cells /\ call'.done = TRUE
      /\ call'.data \in [call.cells -> Values] /\ call'.data \in Data
      /\ call' \in [cells : SUBSET Cells, data : Data, done : BOOLEAN]
  <2>1. call.cells \in SUBSET Cells /\ remote \in [Cells -> Values]
    BY DEF TypeOK
  <2> DEFINE data == [c \in call.cells |-> remote[c]]
  <2>2. data \in [call.cells -> Values] /\ data \in Data
    BY <2>1, DataLemma
  <2> HIDE DEF data
  <2>3. call' = [call EXCEPT !.data = data, !.done = TRUE]
    BY DEF ServeRead, data
  <2> QED BY <2>1, <2>2, <2>3 DEF CallTypes
<1>1. TypeOK'
  BY <1>0 DEF ServeRead, TypeOK
<1>2. CallTypes'
  BY <1>0 DEF ServeRead, CallTypes
<1>3. TakenIsHandled'
  BY DEF ServeRead, TakenIsHandled
<1> QED BY <1>1, <1>2, <1>3

LEMMA ReadAnsweredTInv ==
  ASSUME TInv, ReadAnswered
  PROVE  TInv'
<1> USE DEF TInv
<1>1. TypeOK'
  BY NoCallType, AdvanceType DEF ReadAnswered, OwnChanges, TypeOK, ClientStates, CallTypes
<1>2. CallTypes'
  BY NoCallType DEF ReadAnswered, TypeOK, CallTypes
<1>3. TakenIsHandled'
  BY DEF ReadAnswered, TakenIsHandled
<1> QED BY <1>1, <1>2, <1>3

LEMMA ReadFailsTInv ==
  ASSUME TInv, ReadFails
  PROVE  TInv'
<1> USE DEF TInv
<1>1. TypeOK'
  BY NoCallType, AdvanceType DEF ReadFails, TypeOK, ClientStates, CallTypes
<1>2. CallTypes'
  BY NoCallType DEF ReadFails, TypeOK, CallTypes
<1>3. TakenIsHandled'
  BY NoCallType, AdvanceType DEF ReadFails, TakenIsHandled
<1> QED BY <1>1, <1>2, <1>3

LEMMA NothingYetTInv ==
  ASSUME TInv, NothingYet
  PROVE  TInv'
<1> USE DEF TInv
<1>1. TypeOK'
  BY DEF NothingYet, TypeOK, ClientStates, CallTypes
<1>2. CallTypes'
  BY NoCallType DEF NothingYet, TypeOK, CallTypes
<1>3. TakenIsHandled'
  BY DEF NothingYet, TakenIsHandled
<1> QED BY <1>1, <1>2, <1>3

LEMMA PollIntervalTInv ==
  ASSUME TInv, PollInterval
  PROVE  TInv'
<1> USE DEF TInv
<1>1. TypeOK'
  BY DEF PollInterval, TypeOK, ClientStates, CallTypes
<1>2. CallTypes'
  BY NoCallType DEF PollInterval, TypeOK, CallTypes
<1>3. TakenIsHandled'
  BY DEF PollInterval, TakenIsHandled
<1> QED BY <1>1, <1>2, <1>3

LEMMA TakeTInv ==
  ASSUME TInv, NEW a \in {Area(c) : c \in Cells}, Take(a)
  PROVE  TInv'
<1> USE DEF TInv
<1>1. TypeOK'
  BY DEF Take, Taken, TypeOK, ClientStates, CallTypes
<1>2. CallTypes'
  BY NoCallType DEF Take, Taken, TypeOK, CallTypes
<1>3. TakenIsHandled'
  BY DEF Take, Taken, TakenIsHandled
<1> QED BY <1>1, <1>2, <1>3

LEMMA WriteRequestTInv ==
  ASSUME TInv, WriteRequest
  PROVE  TInv'
<1> USE DEF TInv
<1>0. /\ call'.cells = FirstRange(pending) /\ call'.done = FALSE
      /\ call'.data \in [call'.cells -> Values] /\ call'.data \in Data
      /\ call' \in [cells : SUBSET Cells, data : Data, done : BOOLEAN]
  <2>1. FirstRange(pending) \in SUBSET Cells /\ local \in [Cells -> Values]
    BY FirstRangeSubset DEF TypeOK
  <2> DEFINE data == [c \in FirstRange(pending) |-> local[c]]
  <2>2. data \in [FirstRange(pending) -> Values] /\ data \in Data
    BY <2>1, DataLemma
  <2> HIDE DEF data
  <2>3. call' = [cells |-> FirstRange(pending), data |-> data, done |-> FALSE]
    BY DEF WriteRequest, data
  <2> QED BY <2>1, <2>2, <2>3
<1>1. TypeOK'
  BY <1>0 DEF WriteRequest, TypeOK, ClientStates
<1>2. CallTypes'
  BY <1>0 DEF WriteRequest, CallTypes
<1>3. TakenIsHandled'
  BY DEF WriteRequest, TakenIsHandled
<1> QED BY <1>1, <1>2, <1>3

LEMMA ServeWriteTInv ==
  ASSUME TInv, ServeWrite
  PROVE  TInv'
<1> USE DEF TInv
<1>1. TypeOK'
  <2>1. call.data \in [call.cells -> Values]
    BY DEF ServeWrite, CallTypes
  <2>2. remote' \in [Cells -> Values]
    <3>1. \A c \in Cells : MeantFor(c) # {} => call.data[CHOOSE d \in MeantFor(c) : TRUE] \in Values
      BY <2>1 DEF MeantFor
    <3> QED BY <3>1 DEF ServeWrite, TypeOK
  <2>3. due' \in [Cells -> Values \cup {Nothing}]
    BY DEF ServeWrite, TypeOK
  <2>4. call' = [call EXCEPT !.done = TRUE]
    BY DEF ServeWrite
  <2> QED BY <2>2, <2>3, <2>4 DEF ServeWrite, TypeOK, CallTypes
<1>2. CallTypes'
  BY NoCallType DEF ServeWrite, TypeOK, CallTypes
<1>3. TakenIsHandled'
  BY DEF ServeWrite, TakenIsHandled
<1> QED BY <1>1, <1>2, <1>3

LEMMA WriteAnsweredTInv ==
  ASSUME TInv, WriteAnswered
  PROVE  TInv'
<1> USE DEF TInv
<1>1. TypeOK'
  BY NoCallType DEF WriteAnswered, TypeOK, ClientStates, CallTypes
<1>2. CallTypes'
  BY NoCallType DEF WriteAnswered, TypeOK, CallTypes
<1>3. TakenIsHandled'
  BY DEF WriteAnswered, TakenIsHandled
<1> QED BY <1>1, <1>2, <1>3

LEMMA WriteFailsTInv ==
  ASSUME TInv, WriteFails
  PROVE  TInv'
<1> USE DEF TInv
<1>1. TypeOK'
  BY NoCallType DEF WriteFails, TypeOK, ClientStates, CallTypes
<1>2. CallTypes'
  BY NoCallType DEF WriteFails, TypeOK, CallTypes
<1>3. TakenIsHandled'
  BY DEF WriteFails, TakenIsHandled
<1> QED BY <1>1, <1>2, <1>3

LEMMA OthersWriteTInv ==
  ASSUME TInv, NEW S \in SUBSET Cells, NEW v \in Values, OthersWrite(S, v)
  PROVE  TInv'
<1> USE DEF TInv
<1>1. TypeOK'
  BY DEF OthersWrite, TypeOK, ClientStates, CallTypes
<1>2. CallTypes'
  BY NoCallType DEF OthersWrite, TypeOK, CallTypes
<1>3. TakenIsHandled'
  BY DEF OthersWrite, TakenIsHandled
<1> QED BY <1>1, <1>2, <1>3

LEMMA DeviceChangesTInv ==
  ASSUME TInv, NEW c \in Cells, NEW v \in Values, DeviceChanges(c, v)
  PROVE  TInv'
<1> USE DEF TInv
<1>1. TypeOK'
  BY DEF DeviceChanges, TypeOK, ClientStates, CallTypes
<1>2. CallTypes'
  BY NoCallType DEF DeviceChanges, TypeOK, CallTypes
<1>3. TakenIsHandled'
  BY DEF DeviceChanges, TakenIsHandled
<1> QED BY <1>1, <1>2, <1>3

LEMMA BreaksTInv ==
  ASSUME TInv, Breaks
  PROVE  TInv'
<1> USE DEF TInv
<1>1. TypeOK'
  BY DEF Breaks, TypeOK, ClientStates, CallTypes
<1>2. CallTypes'
  BY NoCallType DEF Breaks, TypeOK, CallTypes
<1>3. TakenIsHandled'
  BY DEF Breaks, TakenIsHandled
<1> QED BY <1>1, <1>2, <1>3

(***************************************************************************)
(* A step is one of these.                                                 *)
(***************************************************************************)
TaskStep ==
    \/ Connect \/ ConnectFails \/ Sleep2s \/ ReadRequest
    \/ ReadAnswered \/ ReadFails \/ NothingYet \/ PollInterval
    \/ WriteRequest \/ WriteAnswered \/ WriteFails
LEMMA Steps ==
  ASSUME Next
  PROVE  \/ TaskStep \/ AnyTake \/ ServeRead \/ ServeWrite \/ Breaks
         \/ \E S \in SUBSET Cells, v \in Values : OthersWrite(S, v)
         \/ \E c \in Cells, v \in Values : DeviceChanges(c, v)
BY DEF Next, Client, Environment, ReadEnds, TaskStep

LEMMA NextTInv == TInv /\ [Next]_vars => TInv'
<1> SUFFICES ASSUME TInv, [Next]_vars PROVE TInv'
  OBVIOUS
<1>1. CASE UNCHANGED vars
  <2> USE <1>1 DEF TInv, vars
  <2>1. TypeOK'
    BY DEF TypeOK
  <2>2. CallTypes' /\ TakenIsHandled'
    BY DEF CallTypes, TakenIsHandled
  <2> QED BY <2>1, <2>2
<1>2. CASE TaskStep
  BY <1>2, ConnectTInv, ConnectFailsTInv, Sleep2sTInv, ReadRequestTInv, ReadAnsweredTInv,
     ReadFailsTInv, NothingYetTInv, PollIntervalTInv, WriteRequestTInv,
     WriteAnsweredTInv, WriteFailsTInv DEF TaskStep
<1>3. CASE AnyTake
  BY <1>3, TakeTInv DEF AnyTake
<1>4. CASE ServeRead \/ ServeWrite \/ Breaks
  BY <1>4, ServeReadTInv, ServeWriteTInv, BreaksTInv
<1>5. ASSUME NEW S \in SUBSET Cells, NEW v \in Values, OthersWrite(S, v) PROVE TInv'
  BY <1>5, OthersWriteTInv
<1>6. ASSUME NEW c \in Cells, NEW v \in Values, DeviceChanges(c, v) PROVE TInv'
  BY <1>6, DeviceChangesTInv
<1> QED BY <1>1, <1>2, <1>3, <1>4, <1>5, <1>6, Steps

-----------------------------------------------------------------------------
(***************************************************************************)
(* What is recorded or taken was touched: a read stores through the handle *)
(* of the task, which does not hear of its own writes.                     *)
(***************************************************************************)
LEMMA NextSInv == SInv /\ [Next]_vars => SInv'
<1> SUFFICES ASSUME SInv, [Next]_vars PROVE SendsOnlyWhatChanged'
  BY NextTInv DEF SInv
<1> USE DEF SInv, TInv, SendsOnlyWhatChanged
<1>1. CASE UNCHANGED vars
  BY <1>1 DEF vars
<1>2. CASE Connect
  BY <1>2 DEF Connect
<1>3. CASE ConnectFails
  BY <1>3 DEF ConnectFails
<1>4. CASE Sleep2s
  BY <1>4 DEF Sleep2s
<1>5. CASE ReadRequest
  BY <1>5 DEF ReadRequest
<1>6. CASE ServeRead
  BY <1>6 DEF ServeRead
<1>7. CASE ReadAnswered
  BY <1>7 DEF ReadAnswered, OwnChanges
<1>8. CASE ReadFails
  BY <1>8 DEF ReadFails
<1>9. CASE NothingYet
  BY <1>9 DEF NothingYet
<1>10. CASE PollInterval
  BY <1>10 DEF PollInterval
<1>11. CASE AnyTake
  BY <1>11 DEF AnyTake, Take, Taken, TakenIsHandled
<1>12. CASE WriteRequest
  BY <1>12, FirstRangeSubset DEF WriteRequest, Handled
<1>13. CASE ServeWrite
  BY <1>13 DEF ServeWrite
<1>14. CASE WriteAnswered
  BY <1>14 DEF WriteAnswered
<1>15. CASE WriteFails
  BY <1>15 DEF WriteFails
<1>16. CASE Breaks
  BY <1>16 DEF Breaks
<1>17. ASSUME NEW S \in SUBSET Cells, NEW v \in Values, OthersWrite(S, v)
       PROVE  SendsOnlyWhatChanged'
  BY <1>17 DEF OthersWrite
<1>18. ASSUME NEW c \in Cells, NEW v \in Values, DeviceChanges(c, v)
       PROVE  SendsOnlyWhatChanged'
  BY <1>18 DEF DeviceChanges
<1> QED BY <1>1, <1>2, <1>3, <1>4, <1>5, <1>6, <1>7, <1>8, <1>9, <1>10, <1>11,
           <1>12, <1>13, <1>14, <1>15, <1>16, <1>17, <1>18, Steps DEF TaskStep

-----------------------------------------------------------------------------
LEMMA ConnectDInv ==
  ASSUME DInv, Connect
  PROVE  DueIsSendable' /\ DueIsRemembered'
<1> USE DEF DInv, TInv
<1>1. DueIsSendable'
  BY DEF Connect, TypeOK, DueIsSendable, Polling
<1>2. DueIsRemembered'
  BY DEF Connect, TypeOK, CallTypes, TakenIsHandled, DueIsSendable, Polling, DueIsRemembered, InFlight
<1> QED BY <1>1, <1>2

LEMMA ConnectFailsDInv ==
  ASSUME DInv, ConnectFails
  PROVE  DueIsSendable' /\ DueIsRemembered'
<1> USE DEF DInv, TInv
<1>1. DueIsSendable'
  BY DEF ConnectFails, TypeOK, DueIsSendable, Polling
<1>2. DueIsRemembered'
  BY DEF ConnectFails, TypeOK, CallTypes, TakenIsHandled, DueIsSendable, Polling, DueIsRemembered, InFlight
<1> QED BY <1>1, <1>2

LEMMA Sleep2sDInv ==
  ASSUME DInv, Sleep2s
  PROVE  DueIsSendable' /\ DueIsRemembered'
<1> USE DEF DInv, TInv
<1>1. DueIsSendable'
  BY DEF Sleep2s, TypeOK, DueIsSendable, Polling
<1>2. DueIsRemembered'
  BY DEF Sleep2s, TypeOK, CallTypes, TakenIsHandled, DueIsSendable, Polling, DueIsRemembered, InFlight
<1> QED BY <1>1, <1>2

LEMMA ReadRequestDInv ==
  ASSUME DInv, ReadRequest
  PROVE  DueIsSendable' /\ DueIsRemembered'
<1> USE DEF DInv, TInv
<1>1. DueIsSendable'
  BY DEF ReadRequest, TypeOK, DueIsSendable, Polling
<1>2. DueIsRemembered'
  BY DEF ReadRequest, TypeOK, CallTypes, TakenIsHandled, DueIsSendable, Polling, DueIsRemembered, InFlight
<1> QED BY <1>1, <1>2

LEMMA ServeReadDInv ==
  ASSUME DInv, ServeRead
  PROVE  DueIsSendable' /\ DueIsRemembered'
<1> USE DEF DInv, TInv
<1>1. DueIsSendable'
  BY DEF ServeRead, TypeOK, DueIsSendable, Polling
<1>2. DueIsRemembered'
  BY DEF ServeRead, TypeOK, CallTypes, TakenIsHandled, DueIsSendable, Polling, DueIsRemembered, InFlight
<1> QED BY <1>1, <1>2

LEMMA ReadAnsweredDInv ==
  ASSUME DInv, ReadAnswered
  PROVE  DueIsSendable' /\ DueIsRemembered'
<1> USE DEF DInv, TInv
<1>1. DueIsSendable'
  BY DEF ReadAnswered, TypeOK, DueIsSendable, Polling
<1>2. DueIsRemembered'
  BY DEF ReadAnswered, TypeOK, CallTypes, TakenIsHandled, DueIsSendable, Polling, DueIsRemembered, InFlight
<1> QED BY <1>1, <1>2

LEMMA ReadFailsDInv ==
  ASSUME DInv, ReadFails
  PROVE  DueIsSendable' /\ DueIsRemembered'
<1> USE DEF DInv, TInv
<1>1. DueIsSendable'
  BY DEF ReadFails, TypeOK, DueIsSendable, Polling
<1>2. DueIsRemembered'
  BY DEF ReadFails, TypeOK, CallTypes, TakenIsHandled, DueIsSendable, Polling, DueIsRemembered, InFlight
<1> QED BY <1>1, <1>2

LEMMA NothingYetDInv ==
  ASSUME DInv, NothingYet
  PROVE  DueIsSendable' /\ DueIsRemembered'
<1> USE DEF DInv, TInv
<1>1. DueIsSendable'
  BY DEF NothingYet, TypeOK, DueIsSendable, Polling
<1>2. DueIsRemembered'
  BY DEF NothingYet, TypeOK, CallTypes, TakenIsHandled, DueIsSendable, Polling, DueIsRemembered, InFlight
<1> QED BY <1>1, <1>2

LEMMA PollIntervalDInv ==
  ASSUME DInv, PollInterval
  PROVE  DueIsSendable' /\ DueIsRemembered'
<1> USE DEF DInv, TInv
<1>1. DueIsSendable'
  BY DEF PollInterval, TypeOK, DueIsSendable, Polling
<1>2. DueIsRemembered'
  BY DEF PollInterval, TypeOK, CallTypes, TakenIsHandled, DueIsSendable, Polling, DueIsRemembered, InFlight
<1> QED BY <1>1, <1>2

LEMMA TakeDInv ==
  ASSUME DInv, NEW a \in {Area(c) : c \in Cells}, Take(a)
  PROVE  DueIsSendable' /\ DueIsRemembered'
<1> USE DEF DInv, TInv
<1>1. DueIsSendable'
  BY DEF Take, Taken, TypeOK, DueIsSendable, Polling
<1>2. DueIsRemembered'
  BY DEF Take, Taken, TypeOK, CallTypes, TakenIsHandled, DueIsSendable, Polling, DueIsRemembered, InFlight
<1> QED BY <1>1, <1>2

LEMMA WriteRequestDInv ==
  ASSUME DInv, WriteRequest
  PROVE  DueIsSendable' /\ DueIsRemembered'
<1> USE DEF DInv, TInv
<1>1. DueIsSendable'
  BY DEF WriteRequest, TypeOK, DueIsSendable, Polling
<1>2. DueIsRemembered'
  <2> SUFFICES ASSUME NEW c \in Cells, due'[c] # Nothing
               PROVE  local'[c] = due'[c] /\ (c \in changed' \/ c \in pending' \/ InFlight(c)')
    BY DEF DueIsRemembered
  <2>1. due[c] # Nothing /\ local[c] = due[c] /\ (c \in changed \/ c \in pending)
    BY DEF WriteRequest, DueIsRemembered, InFlight
  <2>2. local' = local /\ due' = due /\ changed' = changed
        /\ pending' = pending \ FirstRange(pending)
    BY DEF WriteRequest, Handled
  <2>3. CASE c \in FirstRange(pending)
    <3>1. /\ c \in call'.cells /\ ~call'.done /\ call'.data[c] = local[c]
          /\ pc' = "sending"
      BY <2>3 DEF WriteRequest
    <3> QED BY <2>1, <2>2, <3>1 DEF InFlight
  <2> QED BY <2>1, <2>2, <2>3
<1> QED BY <1>1, <1>2

LEMMA ServeWriteDInv ==
  ASSUME DInv, ServeWrite
  PROVE  DueIsSendable' /\ DueIsRemembered'
<1> USE DEF DInv, TInv
<1>1. DueIsSendable'
  BY DEF ServeWrite, TypeOK, DueIsSendable, Polling
<1>2. DueIsRemembered'
  <2> SUFFICES ASSUME NEW c \in Cells, due'[c] # Nothing
               PROVE  local'[c] = due'[c] /\ (c \in changed' \/ c \in pending')
    BY DEF DueIsRemembered
  <2>1. due'[c] = due[c] /\ ~(c \in call.cells /\ call.data[c] = due[c])
    BY DEF ServeWrite, TypeOK
  <2>2. ~InFlight(c)
    BY <2>1 DEF InFlight
  <2> QED BY <2>1, <2>2 DEF ServeWrite, DueIsRemembered
<1> QED BY <1>1, <1>2

LEMMA WriteAnsweredDInv ==
  ASSUME DInv, WriteAnswered
  PROVE  DueIsSendable' /\ DueIsRemembered'
<1> USE DEF DInv, TInv
<1>1. DueIsSendable'
  BY DEF WriteAnswered, TypeOK, DueIsSendable, Polling
<1>2. DueIsRemembered'
  BY DEF WriteAnswered, TypeOK, CallTypes, TakenIsHandled, DueIsSendable, Polling, DueIsRemembered, InFlight
<1> QED BY <1>1, <1>2

LEMMA WriteFailsDInv ==
  ASSUME DInv, WriteFails
  PROVE  DueIsSendable' /\ DueIsRemembered'
<1> USE DEF DInv, TInv
<1>1. DueIsSendable'
  BY DEF WriteFails, TypeOK, DueIsSendable, Polling
<1>2. DueIsRemembered'
  BY DEF WriteFails, TypeOK, CallTypes, TakenIsHandled, DueIsSendable, Polling, DueIsRemembered, InFlight
<1> QED BY <1>1, <1>2

LEMMA OthersWriteDInv ==
  ASSUME DInv, NEW S \in SUBSET Cells, NEW v \in Values, OthersWrite(S, v)
  PROVE  DueIsSendable' /\ DueIsRemembered'
<1> USE DEF DInv, TInv
<1>1. DueIsSendable'
  BY DEF OthersWrite, TypeOK, DueIsSendable, Polling
<1>2. DueIsRemembered'
  BY DEF OthersWrite, TypeOK, CallTypes, TakenIsHandled, DueIsSendable, Polling, DueIsRemembered, InFlight
<1> QED BY <1>1, <1>2

LEMMA DeviceChangesDInv ==
  ASSUME DInv, NEW c \in Cells, NEW v \in Values, DeviceChanges(c, v)
  PROVE  DueIsSendable' /\ DueIsRemembered'
<1> USE DEF DInv, TInv
<1>1. DueIsSendable'
  BY DEF DeviceChanges, TypeOK, DueIsSendable, Polling
<1>2. DueIsRemembered'
  BY DEF DeviceChanges, TypeOK, CallTypes, TakenIsHandled, DueIsSendable, Polling, DueIsRemembered, InFlight
<1> QED BY <1>1, <1>2

LEMMA BreaksDInv ==
  ASSUME DInv, Breaks
  PROVE  DueIsSendable' /\ DueIsRemembered'
<1> USE DEF DInv, TInv
<1>1. DueIsSendable'
  BY DEF Breaks, TypeOK, DueIsSendable, Polling
<1>2. DueIsRemembered'
  BY DEF Breaks, TypeOK, CallTypes, TakenIsHandled, DueIsSendable, Polling, DueIsRemembered, InFlight
<1> QED BY <1>1, <1>2

LEMMA NextDInv == DInv /\ [Next]_vars => DInv'
<1> SUFFICES ASSUME DInv, [Next]_vars
             PROVE  DueIsSendable' /\ DueIsRemembered'
  BY NextTInv DEF DInv
<1>1. CASE UNCHANGED vars
  BY <1>1 DEF vars, DInv, DueIsSendable, Polling, DueIsRemembered, InFlight
<1>2. CASE TaskStep
  BY <1>2, ConnectDInv, ConnectFailsDInv, Sleep2sDInv, ReadRequestDInv, ReadAnsweredDInv,
     ReadFailsDInv, NothingYetDInv, PollIntervalDInv, WriteRequestDInv,
     WriteAnsweredDInv, WriteFailsDInv DEF TaskStep
<1>3. CASE AnyTake
  BY <1>3, TakeDInv DEF AnyTake
<1>4. CASE ServeRead \/ ServeWrite \/ Breaks
  BY <1>4, ServeReadDInv, ServeWriteDInv, BreaksDInv
<1>5. ASSUME NEW S \in SUBSET Cells, NEW v \in Values, OthersWrite(S, v)
      PROVE  DueIsSendable' /\ DueIsRemembered'
  BY <1>5, OthersWriteDInv
<1>6. ASSUME NEW c \in Cells, NEW v \in Values, DeviceChanges(c, v)
      PROVE  DueIsSendable' /\ DueIsRemembered'
  BY <1>6, DeviceChangesDInv
<1> QED BY <1>1, <1>2, <1>3, <1>4, <1>5, <1>6, Steps

-----------------------------------------------------------------------------
(***************************************************************************)
(* The types of the state.                                                 *)
(***************************************************************************)
THEOREM TypeCorrect == Spec => []TypeOK
<1>1. TInv => TypeOK
  BY DEF TInv
<1> QED BY <1>1, InitTInv, NextTInv, PTL DEF Spec

(***************************************************************************)
(* With any number of devices the client sends nothing that nobody         *)
(* changed (execute, handle_poll).                                         *)
(***************************************************************************)
THEOREM OnlyChangesAreSent == Spec => []SendsOnlyWhatChanged
<1>1. Init => SInv
  BY InitTInv DEF Init, SInv, SendsOnlyWhatChanged
<1>2. SInv => SendsOnlyWhatChanged
  BY DEF SInv
<1> QED BY <1>1, <1>2, NextSInv, PTL DEF Spec

LEMMA InitDInv == Init => DInv
<1> SUFFICES ASSUME Init PROVE DueIsSendable /\ DueIsRemembered
  BY InitTInv DEF DInv
<1> QED BY DEF Init, DueIsSendable, DueIsRemembered

(***************************************************************************)
(* With any number of devices, a change a user made is on its way until    *)
(* one of the three things ends it that DueIsRemembered names (updated,    *)
(* select!, handle_poll).                                                  *)
(***************************************************************************)
THEOREM ChangesAreRemembered == Spec => []DueIsRemembered
<1>1. DInv => DueIsRemembered
  BY DEF DInv
<1>2. DInv /\ [Next]_vars => DInv'
  BY NextDInv
<1> QED BY <1>1, <1>2, InitDInv, PTL DEF Spec

-----------------------------------------------------------------------------
(***************************************************************************)
(* Any devices.  From a read to the next one the unit that was selected    *)
(* stays selected, whatever is taken, sent and answered in between.        *)
(***************************************************************************)
UnitStays ==
    /\ pc = "reading" => slave = UnitOf(Ops[next])
    /\ pc \in {"select", "waiting", "writing", "sending"}
          => slave = UnitOf(Ops[Before(next)])
UInv == TInv /\ UnitStays

LEMMA BeforeAdvance ==
  ASSUME TypeOK, Advance
  PROVE  Before(next') = next
BY OpsFacts DEF TypeOK, Advance, Before

LEMMA NextUInv == UInv /\ [Next]_vars => UInv'
<1> SUFFICES ASSUME UInv, [Next]_vars PROVE UnitStays'
  BY NextTInv DEF UInv
<1> USE DEF UInv, TInv, UnitStays
<1>1. CASE UNCHANGED vars
  BY <1>1 DEF vars
<1>2. CASE Connect \/ ConnectFails \/ Sleep2s
  BY <1>2 DEF Connect, ConnectFails, Sleep2s
<1>3. CASE ReadRequest
  BY <1>3 DEF ReadRequest, SetSlave
<1>4. CASE ReadAnswered \/ ReadFails
  BY <1>4, BeforeAdvance DEF ReadAnswered, ReadFails
<1>5. CASE NothingYet \/ PollInterval
  BY <1>5 DEF NothingYet, PollInterval
<1>6. CASE AnyTake
  BY <1>6 DEF AnyTake, Take
<1>7. CASE WriteRequest
  BY <1>7 DEF WriteRequest
<1>8. CASE WriteAnswered \/ WriteFails
  BY <1>8 DEF WriteAnswered, WriteFails
<1>9. CASE ServeRead \/ ServeWrite \/ Breaks
  BY <1>9 DEF ServeRead, ServeWrite, Breaks
<1>10. ASSUME NEW S \in SUBSET Cells, NEW v \in Values, OthersWrite(S, v)
       PROVE  UnitStays'
  BY <1>10 DEF OthersWrite
<1>11. ASSUME NEW c \in Cells, NEW v \in Values, DeviceChanges(c, v)
       PROVE  UnitStays'
  BY <1>11 DEF DeviceChanges
<1> QED BY <1>1, <1>2, <1>3, <1>4, <1>5, <1>6, <1>7, <1>8, <1>9, <1>10, <1>11, Steps
        DEF TaskStep

(***************************************************************************)
(* With any number of devices, a write goes to the unit of the read made   *)
(* last, whichever unit it is meant for (execute, handle_poll).            *)
(***************************************************************************)
THEOREM UnitOfTheLastRead == Spec => []WritesFollowReads
<1>1. Init => UInv
  BY InitTInv DEF Init, UInv, UnitStays
<1>2. UInv => WritesFollowReads
  BY DEF UInv, UnitStays, WritesFollowReads
<1> QED BY <1>1, <1>2, NextUInv, PTL DEF Spec
=============================================================================

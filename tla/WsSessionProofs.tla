--------------------------- MODULE WsSessionProofs ---------------------------
(***************************************************************************)
(* WsSession for any number of sessions and devices, any size of an area   *)
(* and any number of messages under way.                                   *)
(***************************************************************************)
EXTENDS WsSession, SequenceTheorems, TLAPS

LEMMA CommandFields ==
  ASSUME NEW c \in Commands, c.kind # "other"
  PROVE  /\ c.kind \in {"update", "request"} /\ c.unit \in Units \cup {Unknown}
         /\ c.start \in Nat /\ c.length \in Nat
         /\ Names(c, c.unit) \subseteq Int
BY SessionAssumption DEF Commands, Names

LEMMA OtherIsACommand == [kind |-> "other"] \in Commands
BY DEF Commands

(***************************************************************************)
(* An update that is handled stays within the area.                        *)
(***************************************************************************)
LEMMA OutcomeFacts ==
  ASSUME NEW c \in Commands
  PROVE  /\ Outcome(c) \in {"handled", "crash", "abort"}
         /\ Outcome(c) = "handled" /\ c.kind = "update" =>
               c.unit \in Units /\ Names(c, c.unit) \subseteq Addrs
<1>1. CASE c.kind = "other"
  BY <1>1 DEF Outcome
<1>2. CASE c.kind # "other"
  BY <1>2, CommandFields, SessionAssumption DEF Outcome, Names, Addrs
<1> QED BY <1>1, <1>2

LEMMA WriteTypes ==
  ASSUME TypeOK, NEW u \in Units, NEW addrs \in SUBSET Addrs, NEW who \in Writers,
         Write(u, addrs, who)
  PROVE  /\ array' \in [Units -> [Addrs -> Writers]]
         /\ unseen' \in [Sessions -> [Units -> SUBSET Addrs]]
<1>1. array' \in [Units -> [Addrs -> Writers]]
  BY DEF Write, TypeOK
<1>2. \A s \in Sessions : [unseen[s] EXCEPT ![u] = @ \cup addrs] \in [Units -> SUBSET Addrs]
  <2>1. \A s \in Sessions : unseen[s] \in [Units -> SUBSET Addrs]
    BY DEF TypeOK
  <2>2. \A f \in [Units -> SUBSET Addrs] : [f EXCEPT ![u] = @ \cup addrs] \in [Units -> SUBSET Addrs]
    OBVIOUS
  <2> QED BY <2>1, <2>2
<1> QED BY <1>1, <1>2 DEF Write, TypeOK

LEMMA InitTypeOK == Init => TypeOK
<1> SUFFICES ASSUME Init PROVE TypeOK
  OBVIOUS
<1>1. Fresh \in [Units -> [Addrs -> Writers]] /\ Nothing \in [Units -> SUBSET Addrs]
  BY DEF Fresh, Nothing, Writers
<1>2. \A s \in Sessions : wire[s] \in Seq(Commands) /\ Len(wire[s]) <= MaxWire
  <2>1. << >> \in Seq(Commands) /\ Len(<< >>) = 0
    OBVIOUS
  <2>2. \A s \in Sessions : wire[s] = << >>
    BY DEF Init
  <2>3. 0 <= MaxWire
    BY SessionAssumption
  <2> TAKE s \in Sessions
  <2>4. wire[s] \in Seq(Commands) /\ Len(wire[s]) = 0
    BY ONLY <2>1, <2>2, s \in Sessions, Zenon
  <2> QED BY <2>3, <2>4
<1>3. client \in [Sessions -> {"absent"}] /\ task \in [Sessions -> {"none"}]
  BY DEF Init
<1>4. /\ array \in [Units -> [Addrs -> Writers]]
      /\ unseen \in [Sessions -> [Units -> SUBSET Addrs]]
      /\ page \in [Sessions -> [Units -> [Addrs -> Writers]]]
      /\ aborted = FALSE
  BY <1>1 DEF Init
<1> QED BY <1>2, <1>3, <1>4 DEF TypeOK

LEMMA UpgradeTypeOK ==
  ASSUME TypeOK, NEW s \in Sessions, Upgrade(s) \/ UpgradeFails(s) \/ PageCloses(s)
  PROVE  TypeOK'
BY DEF Upgrade, UpgradeFails, PageCloses, Become, TypeOK

LEMMA ConnectedTypeOK ==
  ASSUME TypeOK, NEW s \in Sessions, Connected(s)
  PROVE  TypeOK'
<1>1. Nothing \in [Units -> SUBSET Addrs]
  BY DEF Nothing
<1>2. \A x \in Sessions : wire'[x] \in Seq(Commands) /\ Len(wire'[x]) <= MaxWire
  BY OtherIsACommand, SessionAssumption DEF TypeOK, Connected
<1> QED BY <1>1, <1>2 DEF Connected, Become, TypeOK

LEMMA PageSendsTypeOK ==
  ASSUME TypeOK, NEW s \in Sessions, NEW c \in Commands, PageSends(s, c)
  PROVE  TypeOK'
<1>1. page' \in [Sessions -> [Units -> [Addrs -> Writers]]]
  BY DEF TypeOK, PageSends, Writers
<1>2. \A x \in Sessions : wire'[x] \in Seq(Commands) /\ Len(wire'[x]) <= MaxWire
  <2>1. Append(wire[s], c) \in Seq(Commands) /\ Len(Append(wire[s], c)) <= MaxWire
    BY SessionAssumption DEF TypeOK, PageSends
  <2> QED BY <2>1 DEF TypeOK, PageSends
<1> QED BY <1>1, <1>2 DEF PageSends, TypeOK

LEMMA ReceiveTypeOK ==
  ASSUME TypeOK, ~aborted, NEW s \in Sessions, Receive(s)
  PROVE  TypeOK'
<1> DEFINE c == Head(wire[s])
<1>1. c \in Commands /\ Tail(wire[s]) \in Seq(Commands) /\ Len(Tail(wire[s])) <= MaxWire
  BY SessionAssumption DEF TypeOK, Receive
<1>2. /\ Outcome(c) \in {"handled", "crash", "abort"}
      /\ Outcome(c) = "handled" /\ c.kind = "update" =>
            c.unit \in Units /\ Names(c, c.unit) \subseteq Addrs
  BY <1>1, OutcomeFacts
<1>3. /\ wire' = [wire EXCEPT ![s] = Tail(@)]
      /\ aborted' = (Outcome(c) = "abort")
      /\ client' = IF Outcome(c) = "crash" THEN [client EXCEPT ![s] = "crashed"] ELSE client
      /\ client[s] \in {"open", "closing"}
      /\ task' = task /\ page' = page
      /\ IF c.kind = "update" /\ Outcome(c) = "handled"
         THEN Write(c.unit, Names(c, c.unit), s)
         ELSE UNCHANGED <<array, unseen>>
  BY DEF Receive, Become
<1> HIDE DEF c
<1>4. /\ array' \in [Units -> [Addrs -> Writers]]
      /\ unseen' \in [Sessions -> [Units -> SUBSET Addrs]]
  <2>1. s \in Writers
    BY DEF Writers
  <2>2. CASE c.kind = "update" /\ Outcome(c) = "handled"
    BY <1>2, <1>3, <2>1, <2>2, WriteTypes
  <2>3. CASE ~(c.kind = "update" /\ Outcome(c) = "handled")
    BY <1>3, <2>3 DEF TypeOK
  <2> QED BY <2>2, <2>3
<1>5. \A x \in Sessions : wire'[x] \in Seq(Commands) /\ Len(wire'[x]) <= MaxWire
  BY <1>1, <1>3 DEF TypeOK
<1> QED BY <1>3, <1>4, <1>5 DEF TypeOK

LEMMA EndOfStreamTypeOK ==
  ASSUME TypeOK, NEW s \in Sessions, EndOfStream(s)
  PROVE  TypeOK'
<1>1. \A x \in Sessions : wire'[x] \in Seq(Commands) /\ Len(wire'[x]) <= MaxWire
  BY SessionAssumption DEF TypeOK, EndOfStream
<1> QED BY <1>1 DEF EndOfStream, Become, TypeOK

LEMMA UpdateTypeOK ==
  ASSUME TypeOK, NEW s \in Sessions, Update(s)
  PROVE  TypeOK'
<1>1. unseen' \in [Sessions -> [Units -> SUBSET Addrs]]
  <2>1. Nothing \in [Units -> SUBSET Addrs]
    BY DEF Nothing
  <2>2. CASE Updated(s)
    BY <2>2 DEF TypeOK, Updated
  <2>3. CASE AfterUpdate(s)
    BY <2>1, <2>3 DEF TypeOK, AfterUpdate
  <2> QED BY <2>2, <2>3 DEF Update
<1> QED BY <1>1 DEF Update, Updated, AfterUpdate, TypeOK

LEMMA ModbusWritesTypeOK ==
  ASSUME TypeOK, NEW u \in Units, NEW a \in Addrs, ModbusWrites(u, a)
  PROVE  TypeOK'
<1>1. /\ array' \in [Units -> [Addrs -> Writers]]
      /\ unseen' \in [Sessions -> [Units -> SUBSET Addrs]]
  <2>1. "modbus" \in Writers
    BY DEF Writers
  <2> QED BY <2>1, WriteTypes DEF ModbusWrites
<1> QED BY <1>1 DEF ModbusWrites, TypeOK

LEMMA NextTypeOK == TypeOK /\ [Next]_vars => TypeOK'
<1> SUFFICES ASSUME TypeOK, [Next]_vars PROVE TypeOK'
  OBVIOUS
<1>1. CASE UNCHANGED vars
  BY <1>1 DEF vars, TypeOK
<1>2. ASSUME ~aborted, NEW s \in Sessions,
             \/ Upgrade(s) \/ UpgradeFails(s) \/ PageCloses(s) \/ EndOfStream(s)
             \/ Serve(s) \/ Update(s)
             \/ \E c \in Commands : PageSends(s, c)
      PROVE  TypeOK'
  BY <1>2, UpgradeTypeOK, ConnectedTypeOK, PageSendsTypeOK, ReceiveTypeOK, EndOfStreamTypeOK,
     UpdateTypeOK DEF Serve
<1>3. ASSUME NEW u \in Units, NEW a \in Addrs, ModbusWrites(u, a) PROVE TypeOK'
  BY <1>3, ModbusWritesTypeOK
<1> QED BY <1>1, <1>2, <1>3 DEF Next

-----------------------------------------------------------------------------
(***************************************************************************)
(* The types of the state.                                                 *)
(***************************************************************************)
THEOREM TypeCorrect == Spec => []TypeOK
BY InitTypeOK, NextTypeOK, PTL DEF Spec
=============================================================================

------------------------ MODULE ObservableArrayProofs ------------------------
(***************************************************************************)
(* ObservableArray for any number of handles, any size and any values, and *)
(* RangeArray under any sequence of calls (at the end).                    *)
(***************************************************************************)
EXTENDS ObservableArray, RangeArrayCalls, DataProofs

ChangesWellFormed ==
    \A i \in Slots :
        observers[i] # NoObserver => WellFormed(observers[i].changed)

(***************************************************************************)
(* base.observers[index].as_mut().unwrap() in updated(): a future exists   *)
(* only for a handle that exists.                                          *)
(***************************************************************************)
FutureHasHandle ==
    \A h \in Handles : future[h] # "none" => h \in Live

IInv == /\ TypeOK
        /\ SlotOwnership
        /\ ChangesWellFormed
        /\ FutureHasHandle
        /\ NoLostWakeup

LEMMA ObserverFields ==
  ASSUME NEW o \in Observer
  PROVE  o.changed \in Seq(SpanType) /\ o.notify \in Handles
BY DEF Observer

LEMMA ObserverLemma ==
  ASSUME NEW c \in Seq(SpanType), NEW h \in Handles,
         NEW o, o = [changed |-> c, notify |-> h]
  PROVE  o \in Observer /\ o.changed = c /\ o.notify = h /\ o # NoObserver
BY NoObserverAssumption DEF Observer

(***************************************************************************)
(* The position of a handle and the observer in it.                        *)
(***************************************************************************)
LEMMA SlotFacts ==
  ASSUME TypeOK, SlotOwnership
  PROVE  /\ Len(observers) \in Nat /\ Slots = 1 .. Len(observers)
         /\ \A i \in Slots : observers[i] # NoObserver =>
               /\ observers[i] \in Observer
               /\ observers[i].changed \in Seq(SpanType)
               /\ observers[i].notify \in Handles
               /\ index[observers[i].notify] = i
         /\ \A h \in Live : /\ index[h] \in Slots
                            /\ observers[index[h]] # NoObserver
                            /\ observers[index[h]].notify = h
<1>1. Len(observers) \in Nat /\ Slots = 1 .. Len(observers)
  BY DEF TypeOK, Slots
<1>2. \A i \in Slots : observers[i] \in Observer \cup {NoObserver}
  BY <1>1 DEF TypeOK
<1> QED BY <1>1, <1>2, ObserverFields DEF SlotOwnership

LEMMA ObserverSlotLemma ==
  ASSUME TypeOK, SlotOwnership
  PROVE  \/ ObserverSlot = Len(observers) + 1
         \/ ObserverSlot \in Slots /\ observers[ObserverSlot] = NoObserver
<1>1. Free \subseteq Nat
  BY SlotFacts DEF Free
<1>2. CASE Free # {}
  <2>1. \E i \in Free : \A j \in Free : i <= j
    BY <1>1, <1>2, LeastExists
  <2>2. ObserverSlot \in Free
    BY <1>2, <2>1 DEF ObserverSlot
  <2> QED BY <2>2 DEF Free
<1> QED BY <1>2 DEF ObserverSlot

LEMMA InitIInv == Init => IInv
<1> SUFFICES ASSUME Init PROVE IInv
  OBVIOUS
<1>0. PICK h \in Handles :
        /\ observers = << NewObserver(h) >>
        /\ index = [g \in Handles |-> IF g = h THEN 1 ELSE 0]
  BY DEF Init
<1>1. New \in Seq(SpanType) /\ WellFormed(New)
  BY DEF New, WellFormed
<1>2. /\ NewObserver(h) \in Observer /\ NewObserver(h) # NoObserver
      /\ NewObserver(h).changed = New /\ NewObserver(h).notify = h
  BY <1>1, ObserverLemma DEF NewObserver
<1>3. observers \in Seq(Observer \cup {NoObserver}) /\ Slots = {1} /\ observers[1] = NewObserver(h)
  BY <1>0, <1>2 DEF Slots
<1>4. TypeOK
  BY <1>0, <1>1, <1>3, ArrayAssumption DEF Init, TypeOK, NewArray, FutureStates
<1>5. Live = {h}
  BY <1>0 DEF Live
<1>6. SlotOwnership
  BY <1>0, <1>2, <1>3, <1>5 DEF SlotOwnership
<1>7. ChangesWellFormed
  BY <1>1, <1>2, <1>3 DEF ChangesWellFormed
<1>8. FutureHasHandle /\ NoLostWakeup
  BY DEF Init, FutureHasHandle, NoLostWakeup
<1> QED BY <1>4, <1>6, <1>7, <1>8 DEF IInv

(***************************************************************************)
(* get_observer gives the new handle a position nobody has.                *)
(***************************************************************************)
LEMMA CloneIInv ==
  ASSUME IInv, NEW h \in Handles, Clone(h)
  PROVE  IInv'
<1> USE DEF IInv
<1> DEFINE s == ObserverSlot
           n == Len(observers)
<1>0. /\ n \in Nat /\ Slots = 1 .. n
      /\ s = n + 1 \/ (s \in 1 .. n /\ observers[s] = NoObserver)
  BY SlotFacts, ObserverSlotLemma
<1>1. New \in Seq(SpanType) /\ WellFormed(New)
  BY DEF New, WellFormed
<1>2. /\ NewObserver(h) \in Observer /\ NewObserver(h) # NoObserver
      /\ NewObserver(h).changed = New /\ NewObserver(h).notify = h
  BY <1>1, ObserverLemma DEF NewObserver
<1>3. observers \in Seq(Observer \cup {NoObserver})
  BY DEF TypeOK
<1> HIDE DEF s
<1>4. /\ observers' \in Seq(Observer \cup {NoObserver})
      /\ s \in Slots' /\ observers'[s] = NewObserver(h)
      /\ \A i \in Slots : i # s => i \in Slots' /\ observers'[i] = observers[i]
      /\ \A i \in Slots' : i # s => i \in Slots
  <2>1. CASE s = n + 1
    <3>1. observers' = Append(observers, NewObserver(h))
      BY <2>1 DEF Clone, s
    <3>2. NewObserver(h) \in Observer \cup {NoObserver}
      BY <1>2
    <3>3. /\ observers' \in Seq(Observer \cup {NoObserver})
          /\ DOMAIN observers' = 1 .. n + 1
          /\ observers'[n + 1] = NewObserver(h)
          /\ \A i \in 1 .. n : observers'[i] = observers[i]
      BY ONLY <1>3, <3>1, <3>2, AppendProperties
    <3> QED BY <1>0, <2>1, <3>3 DEF Slots
  <2>2. CASE s \in 1 .. n
    <3>1. s # n + 1
      BY <1>0, <2>2
    <3>2. observers' = [observers EXCEPT ![s] = NewObserver(h)]
      BY <3>1 DEF Clone, s
    <3>3. NewObserver(h) \in Observer \cup {NoObserver}
      BY <1>2
    <3> QED BY <1>0, <1>3, <2>2, <3>2, <3>3 DEF Slots
  <2> QED BY <1>0, <2>1, <2>2
<1>5. s \in Nat /\ s # 0
  BY <1>0
<1>6. /\ h \notin Live /\ index' = [index EXCEPT ![h] = s]
      /\ permit' = [permit EXCEPT ![h] = FALSE]
      /\ UNCHANGED <<array, future, updates, poisoned>>
  BY DEF Clone, s
<1>7. TypeOK'
  BY <1>4, <1>5, <1>6 DEF TypeOK
<1>8. /\ index'[h] = s /\ Live' = Live \cup {h}
      /\ \A g \in Handles : g # h => index'[g] = index[g]
  BY <1>5, <1>6 DEF TypeOK, Live
<1>9. \A g \in Live : index[g] # s
  BY <1>0, SlotFacts
<1>10. SlotOwnership'
  <2>1. ASSUME NEW g \in Live'
        PROVE  /\ index'[g] \in Slots' /\ observers'[index'[g]] # NoObserver
               /\ observers'[index'[g]].notify = g
    <3>1. CASE g = h
      BY <1>2, <1>4, <1>8, <3>1
    <3>2. CASE g # h
      <4>1. g \in Live /\ index'[g] = index[g] /\ g \in Handles
        BY <1>8, <3>2 DEF Live
      <4> QED BY <1>4, <1>9, <4>1, SlotFacts
    <3> QED BY <3>1, <3>2
  <2>2. ASSUME NEW i \in Slots', observers'[i] # NoObserver
        PROVE  index'[observers'[i].notify] = i
    <3>1. CASE i = s
      BY <1>2, <1>4, <1>8, <3>1
    <3>2. CASE i # s
      <4>1. i \in Slots /\ observers'[i] = observers[i]
        BY <1>4, <3>2
      <4>2. index[observers[i].notify] = i /\ observers[i].notify \in Handles
        BY <2>2, <4>1, SlotFacts
      <4>3. observers[i].notify # h
        BY <1>0, <1>6, <4>1, <4>2 DEF Live
      <4> QED BY <1>8, <4>1, <4>2, <4>3
    <3> QED BY <3>1, <3>2
  <2> QED BY <2>1, <2>2 DEF SlotOwnership
<1>11. ChangesWellFormed'
  BY <1>1, <1>2, <1>4 DEF ChangesWellFormed
<1>12. FutureHasHandle'
  BY <1>6, <1>8 DEF FutureHasHandle
<1>13. NoLostWakeup'
  <2> SUFFICES ASSUME NEW g \in Handles, future'[g] \in {"waiting", "checked"}
               PROVE  /\ g # h /\ ChangedOf(g)' = ChangedOf(g)
                      /\ permit'[g] = permit[g] /\ future'[g] = future[g]
    BY DEF NoLostWakeup
  <2>1. future'[g] = future[g] /\ g \in Live
    BY <1>6 DEF FutureHasHandle
  <2>2. g # h
    BY <1>6, <2>1
  <2>3. index'[g] = index[g] /\ index[g] \in Slots /\ index[g] # s
    BY <1>8, <1>9, <2>1, <2>2, SlotFacts
  <2>4. permit'[g] = permit[g]
    BY <1>6, <2>2 DEF TypeOK
  <2> QED BY <1>4, <2>1, <2>2, <2>3, <2>4 DEF ChangedOf
<1> QED BY <1>7, <1>10, <1>11, <1>12, <1>13

(***************************************************************************)
(* release empties the position of the dropped handle and no other.        *)
(***************************************************************************)
LEMMA DropIInv ==
  ASSUME IInv, NEW h \in Handles, Drop(h)
  PROVE  IInv'
<1> USE DEF IInv
<1> DEFINE s == index[h]
<1>0. /\ h \in Live /\ s \in Slots /\ Slots = 1 .. Len(observers)
      /\ observers[s] # NoObserver /\ observers[s].notify = h
  BY SlotFacts DEF Drop
<1>1. observers \in Seq(Observer \cup {NoObserver}) /\ New \in Seq(SpanType)
  BY DEF TypeOK, New
<1>2. /\ observers' = [observers EXCEPT ![s] = NoObserver]
      /\ index' = [index EXCEPT ![h] = 0]
      /\ future' = [future EXCEPT ![h] = "none"]
      /\ updates' = [updates EXCEPT ![h] = New]
      /\ UNCHANGED <<array, permit, poisoned>>
  BY DEF Drop
<1> HIDE DEF s
<1>3. /\ observers' \in Seq(Observer \cup {NoObserver})
      /\ Slots' = Slots /\ observers'[s] = NoObserver
      /\ \A i \in Slots : i # s => observers'[i] = observers[i]
  BY <1>0, <1>1, <1>2 DEF Slots
<1>4. TypeOK'
  BY <1>1, <1>2, <1>3 DEF TypeOK, FutureStates
<1>5. /\ Live' = Live \ {h}
      /\ \A g \in Handles : g # h => index'[g] = index[g] /\ future'[g] = future[g]
      /\ future'[h] = "none"
  BY <1>2 DEF TypeOK, Live
<1>6. \A g \in Live : g # h => index[g] # s
  BY <1>0, SlotFacts
<1>7. SlotOwnership'
  <2>1. ASSUME NEW g \in Live'
        PROVE  /\ index'[g] \in Slots' /\ observers'[index'[g]] # NoObserver
               /\ observers'[index'[g]].notify = g
    <3>1. g \in Live /\ g # h /\ g \in Handles
      BY <1>5 DEF Live
    <3> QED BY <1>3, <1>5, <1>6, <3>1, SlotFacts
  <2>2. ASSUME NEW i \in Slots', observers'[i] # NoObserver
        PROVE  index'[observers'[i].notify] = i
    <3>1. i # s /\ i \in Slots /\ observers'[i] = observers[i]
      BY <1>3, <2>2
    <3>2. index[observers[i].notify] = i /\ observers[i].notify \in Handles
      BY <2>2, <3>1, SlotFacts
    <3>3. observers[i].notify # h
      BY <3>1, <3>2 DEF s
    <3> QED BY <1>5, <3>1, <3>2, <3>3
  <2> QED BY <2>1, <2>2 DEF SlotOwnership
<1>8. ChangesWellFormed'
  BY <1>3 DEF ChangesWellFormed
<1>9. FutureHasHandle'
  BY <1>5 DEF FutureHasHandle
<1>10. NoLostWakeup'
  <2> SUFFICES ASSUME NEW g \in Handles, future'[g] \in {"waiting", "checked"}
               PROVE  /\ ChangedOf(g)' = ChangedOf(g)
                      /\ permit'[g] = permit[g] /\ future'[g] = future[g]
    BY DEF NoLostWakeup
  <2>1. g # h /\ future'[g] = future[g]
    BY <1>5
  <2>2. g \in Live /\ index'[g] = index[g] /\ index[g] \in Slots /\ index[g] # s
    BY <1>5, <1>6, <2>1, SlotFacts DEF FutureHasHandle
  <2>3. permit'[g] = permit[g]
    BY <1>2
  <2> QED BY <1>3, <2>1, <2>2, <2>3 DEF ChangedOf
<1> QED BY <1>4, <1>7, <1>8, <1>9, <1>10

(***************************************************************************)
(* What a write does to the observers: each but the writer's covers the    *)
(* written addresses in addition, the writer's stays as it is.             *)
(***************************************************************************)
LEMMA UpdateObservers ==
  ASSUME IInv, NEW h \in Handles, NEW start \in Nat, NEW data \in Seq(Values),
         Update(h, start, data)
  PROVE  /\ observers' \in Seq(Observer \cup {NoObserver})
         /\ Slots' = Slots
         /\ \A i \in Slots \ Others(h) : observers'[i] = observers[i]
         /\ \A i \in Others(h) :
               /\ observers'[i] \in Observer /\ observers'[i] # NoObserver
               /\ observers'[i].notify = observers[i].notify
               /\ observers'[i].changed \in Seq(SpanType)
               /\ WellFormed(observers'[i].changed)
               /\ Covered(observers'[i].changed)
                    = Covered(observers[i].changed)
                        \cup (start .. start + Len(data) - 1)
               /\ observers'[i].changed # New
<1> USE DEF IInv
<1> DEFINE r == Span(start, start + Len(data))
           n == Len(observers)
<1>0. n \in Nat /\ Slots = 1 .. n /\ Others(h) \subseteq Slots
  BY SlotFacts DEF Others
<1>1. Len(data) \in Nat
  OBVIOUS
<1>2. start + Len(data) \in Int /\ start <= start + Len(data)
  BY <1>1
<1>3. /\ r \in SpanType /\ r.start <= r.end
      /\ Addresses(r) = start .. start + Len(data) - 1
  BY <1>2, SpanLemma DEF Addresses
<1> HIDE DEF r
<1>4. observers' = [i \in Slots |-> IF i \in Others(h) THEN Record(observers[i], r)
                                   ELSE observers[i]]
  BY DEF Update, r
<1>5. ASSUME NEW i \in Others(h)
      PROVE  /\ Record(observers[i], r) \in Observer
             /\ Record(observers[i], r) # NoObserver
             /\ Record(observers[i], r).notify = observers[i].notify
             /\ Record(observers[i], r).changed \in Seq(SpanType)
             /\ WellFormed(Record(observers[i], r).changed)
             /\ Covered(Record(observers[i], r).changed)
                  = Covered(observers[i].changed)
                        \cup (start .. start + Len(data) - 1)
             /\ Record(observers[i], r).changed # New
  <2>1. i \in Slots /\ observers[i] # NoObserver
    BY DEF Others
  <2>2. /\ observers[i].changed \in Seq(SpanType)
        /\ observers[i].notify \in Handles
        /\ WellFormed(observers[i].changed)
    BY <2>1, SlotFacts DEF ChangesWellFormed
  <2> DEFINE c == Union(observers[i].changed, r)
  <2>3. /\ c \in Seq(SpanType) /\ WellFormed(c) /\ c # New
        /\ Covered(c) = Covered(observers[i].changed) \cup Addresses(r)
    BY <1>3, <2>2, UnionCorrect DEF Sorted
  <2> HIDE DEF c
  <2>4. Record(observers[i], r) = [changed |-> c, notify |-> observers[i].notify]
    BY DEF Record, c
  <2>5. /\ Record(observers[i], r) \in Observer
        /\ Record(observers[i], r) # NoObserver
        /\ Record(observers[i], r).changed = c
        /\ Record(observers[i], r).notify = observers[i].notify
    BY <2>2, <2>3, <2>4, ObserverLemma
  <2> QED BY <1>3, <2>3, <2>5
<1>6. observers \in Seq(Observer \cup {NoObserver})
  BY DEF TypeOK
<1>7. \A i \in Slots : observers'[i] \in Observer \cup {NoObserver}
  BY <1>0, <1>4, <1>5, <1>6
<1>8. observers' \in Seq(Observer \cup {NoObserver})
  <2>1. observers' = [i \in 1 .. n |-> observers'[i]]
    BY <1>0, <1>4
  <2> QED BY <1>0, <1>7, <2>1, IsASeq
<1>9. Slots' = Slots
  BY <1>4 DEF Slots
<1> QED BY <1>0, <1>4, <1>5, <1>8, <1>9

(***************************************************************************)
(* Everybody but the writer is notified.                                   *)
(***************************************************************************)
LEMMA UpdateNotifies ==
  ASSUME IInv, NEW h \in Handles, NEW start, NEW data, Update(h, start, data)
  PROVE  /\ \A g \in Live : g # h => index[g] \in Others(h)
         /\ index[h] \notin Others(h)
         /\ future' \in [Handles -> FutureStates]
         /\ permit' \in [Handles -> BOOLEAN]
         /\ \A g \in Handles :
               /\ future'[g] # future[g] => future'[g] = "woken" /\ future[g] = "waiting"
               /\ permit[g] => permit'[g]
               /\ g \in Live /\ g # h => future'[g] # "waiting"
               /\ g \in Live /\ g # h /\ future[g] # "waiting" => permit'[g]
<1> USE DEF IInv
<1> DEFINE hs == {observers[i].notify : i \in Others(h)}
<1>1. h \in Live
  BY DEF Update
<1>2. \A g \in Live : g # h => index[g] \in Others(h)
  BY <1>1, SlotFacts DEF Others
<1>3. \A g \in Live : g # h => g \in hs
  BY <1>2, SlotFacts
<1>4. index[h] \notin Others(h)
  BY DEF Others
<1> HIDE DEF hs
<1>5. /\ future' = [g \in Handles |->
                      IF g \in hs /\ future[g] = "waiting" THEN "woken" ELSE future[g]]
      /\ permit' = [g \in Handles |->
                      permit[g] \/ (g \in hs /\ future[g] # "waiting")]
  BY DEF Update, NotifyOne, hs
<1>6. future \in [Handles -> FutureStates] /\ permit \in [Handles -> BOOLEAN]
  BY DEF TypeOK
<1>7. future' \in [Handles -> FutureStates]
  BY <1>5, <1>6 DEF FutureStates
<1>8. permit' \in [Handles -> BOOLEAN]
  BY <1>5, <1>6
<1> QED BY <1>2, <1>3, <1>4, <1>5, <1>7, <1>8

LEMMA UpdateIInv ==
  ASSUME IInv, NEW h \in Handles, NEW start \in Nat, NEW data \in Seq(Values),
         Update(h, start, data)
  PROVE  IInv'
<1> USE DEF IInv
<1>1. UNCHANGED <<index, updates, poisoned>>
  BY DEF Update
<1>2. Live' = Live
  BY <1>1 DEF Live
<1>3. array' \in [Addrs -> Values]
  <2>1. \A a \in Addrs : array[a] \in Values
    BY DEF TypeOK
  <2>2. ASSUME NEW a \in start .. start + Len(data) - 1
        PROVE  data[a - start + 1] \in Values
    <3>1. Len(data) \in Nat
      OBVIOUS
    <3>2. a - start + 1 \in 1 .. Len(data)
      BY <3>1
    <3> QED BY <3>2
  <2>3. array' = [a \in Addrs |-> IF a \in start .. start + Len(data) - 1
                                  THEN data[a - start + 1] ELSE array[a]]
    BY DEF Update
  <2> QED BY <2>1, <2>2, <2>3
<1>4. TypeOK'
  BY <1>1, <1>3, UpdateObservers, UpdateNotifies DEF TypeOK
<1>5. \A i \in Slots :
        /\ observers'[i] # NoObserver <=> observers[i] # NoObserver
        /\ observers[i] # NoObserver => observers'[i].notify = observers[i].notify
  BY UpdateObservers DEF Others
<1>6. SlotOwnership'
  <2>1. \A g \in Live' : /\ index'[g] \in Slots' /\ observers'[index'[g]] # NoObserver
                         /\ observers'[index'[g]].notify = g
    BY <1>1, <1>2, <1>5, SlotFacts, UpdateObservers
  <2>2. \A i \in Slots' : observers'[i] # NoObserver => index'[observers'[i].notify] = i
    BY <1>1, <1>5, SlotFacts, UpdateObservers
  <2> QED BY <2>1, <2>2 DEF SlotOwnership
<1>7. ChangesWellFormed'
  BY <1>5, UpdateObservers DEF ChangesWellFormed
<1>8. FutureHasHandle'
  <2> SUFFICES ASSUME NEW g \in Handles, future'[g] # "none"
               PROVE  g \in Live'
    BY DEF FutureHasHandle
  <2>1. future[g] # "none"
    BY UpdateNotifies
  <2> QED BY <1>2, <2>1 DEF FutureHasHandle
<1>9. NoLostWakeup'
  <2> SUFFICES ASSUME NEW g \in Handles
               PROVE  /\ future'[g] = "waiting" => ChangedOf(g)' = New
                      /\ future'[g] = "checked" /\ ChangedOf(g)' # New => permit'[g]
    BY DEF NoLostWakeup
  <2>1. CASE g = h
    <3>0. h \in Live /\ index[h] \notin Others(h)
      BY UpdateNotifies DEF Update
    <3>1. index[h] \in Slots \ Others(h)
      BY <3>0, SlotFacts
    <3>2. ChangedOf(g)' = ChangedOf(g)
      BY <1>1, <2>1, <3>1, UpdateObservers DEF ChangedOf
    <3>3. future'[g] \in {"waiting", "checked"} => future'[g] = future[g]
      BY UpdateNotifies
    <3>4. permit[g] => permit'[g]
      BY UpdateNotifies
    <3> QED BY <3>2, <3>3, <3>4 DEF NoLostWakeup
  <2>2. CASE g # h /\ future'[g] \in {"waiting", "checked"}
    <3>1. future[g] = future'[g] /\ g \in Live
      BY <2>2, UpdateNotifies DEF FutureHasHandle
    <3>2. future'[g] # "waiting"
      BY <2>2, <3>1, UpdateNotifies
    <3>3. permit'[g]
      BY <2>2, <3>1, <3>2, UpdateNotifies
    <3> QED BY <3>2, <3>3
  <2> QED BY <2>1, <2>2
<1> QED BY <1>4, <1>6, <1>7, <1>8, <1>9

(***************************************************************************)
(* The steps of updated() and of its future, and the panic.                *)
(***************************************************************************)
LEMMA OtherSteps ==
  ASSUME IInv, NEW h \in Handles,
         \/ Updated(h) \/ AwaitNotified(h) \/ Cancel(h)
         \/ \E start, data : UpdateOutOfBounds(h, start, data)
         \/ UNCHANGED vars
  PROVE  IInv'
<1> USE DEF IInv
<1>1. UNCHANGED <<array, observers, index>>
  BY DEF Updated, AwaitNotified, Cancel, UpdateOutOfBounds, vars
<1>2. /\ Live' = Live /\ Slots' = Slots
      /\ \A g \in Handles : ChangedOf(g)' = ChangedOf(g)
  BY <1>1 DEF Live, Slots, ChangedOf
<1>3. TypeOK'
  <2>1. New \in Seq(SpanType)
    BY DEF New
  <2> QED BY <1>1, <2>1 DEF TypeOK, FutureStates, Updated, AwaitNotified, Cancel,
                         UpdateOutOfBounds, vars
<1>4. SlotOwnership' /\ ChangesWellFormed'
  BY <1>1, <1>2 DEF SlotOwnership, ChangesWellFormed
<1>5. FutureHasHandle'
  BY <1>2 DEF TypeOK, FutureHasHandle, Updated, AwaitNotified, Cancel,
              UpdateOutOfBounds, vars
<1>6. NoLostWakeup'
  <2> SUFFICES ASSUME NEW g \in Handles
               PROVE  /\ future'[g] = "waiting" => ChangedOf(g)' = New
                      /\ future'[g] = "checked" /\ ChangedOf(g)' # New => permit'[g]
    BY DEF NoLostWakeup
  <2>1. CASE Updated(h) \/ Cancel(h)
    BY <1>2, <2>1 DEF NoLostWakeup, TypeOK, Updated, Cancel
  <2>2. CASE AwaitNotified(h)
    BY <1>2, <2>2 DEF NoLostWakeup, TypeOK, AwaitNotified
  <2>3. CASE (\E start, data : UpdateOutOfBounds(h, start, data)) \/ UNCHANGED vars
    BY <1>2, <2>3 DEF NoLostWakeup, UpdateOutOfBounds, vars
  <2> QED BY <2>1, <2>2, <2>3
<1> QED BY <1>3, <1>4, <1>5, <1>6

LEMMA TakeObservers ==
  ASSUME IInv, NEW h \in Handles, TakeUpdates(h)
  PROVE  /\ h \in Live
         /\ observers' \in Seq(Observer \cup {NoObserver})
         /\ Slots' = Slots
         /\ \A i \in Slots : i # index[h] => observers'[i] = observers[i]
         /\ observers'[index[h]] # NoObserver /\ observers'[index[h]].notify = h
         /\ \/ observers' = observers /\ updates' = updates /\ ChangedOf(h) = New
               /\ future' = [future EXCEPT ![h] = "checked"]
            \/ /\ observers'[index[h]].changed = New
               /\ updates' = [updates EXCEPT ![h] = ChangedOf(h)]
               /\ future' = [future EXCEPT ![h] = "ready"]
               /\ ChangedOf(h) # New
<1> USE DEF IInv
<1> DEFINE s == index[h]
<1>0. h \in Live
  BY DEF TakeUpdates, FutureHasHandle
<1>1. /\ s \in Slots /\ Slots = 1 .. Len(observers)
      /\ observers[s] # NoObserver /\ observers[s].notify = h
  BY <1>0, SlotFacts
<1>2. observers \in Seq(Observer \cup {NoObserver}) /\ New \in Seq(SpanType)
  BY DEF TypeOK, New
<1>3. CASE IsEmpty(ChangedOf(h))
  <2>1. /\ observers' = observers /\ updates' = updates /\ ChangedOf(h) = New
        /\ future' = [future EXCEPT ![h] = "checked"]
    BY <1>3 DEF TakeUpdates, IsEmpty, New
  <2> QED BY <1>0, <1>1, <1>2, <2>1 DEF Slots
<1>4. CASE ~IsEmpty(ChangedOf(h))
  <2>1. /\ observers' = [observers EXCEPT ![s] = NewObserver(h)]
        /\ updates' = [updates EXCEPT ![h] = ChangedOf(h)]
        /\ future' = [future EXCEPT ![h] = "ready"]
        /\ ChangedOf(h) # New
    BY <1>1, <1>4 DEF TakeUpdates, IsEmpty, New
  <2>2. /\ NewObserver(h) \in Observer /\ NewObserver(h) # NoObserver
        /\ NewObserver(h).changed = New /\ NewObserver(h).notify = h
    BY <1>2, ObserverLemma DEF NewObserver
  <2> HIDE DEF s
  <2>3. /\ observers' \in Seq(Observer \cup {NoObserver})
        /\ Slots' = Slots /\ observers'[s] = NewObserver(h)
        /\ \A i \in Slots : i # s => observers'[i] = observers[i]
    BY <1>1, <1>2, <2>1, <2>2 DEF Slots
  <2> QED BY <1>0, <2>1, <2>2, <2>3 DEF s
<1> QED BY <1>3, <1>4

LEMMA TakeIInv ==
  ASSUME IInv, NEW h \in Handles, TakeUpdates(h)
  PROVE  IInv'
<1> USE DEF IInv
<1>0. UNCHANGED <<array, index, permit, poisoned>>
  BY DEF TakeUpdates
<1>1. Live' = Live /\ h \in Live /\ index[h] \in Slots
  BY <1>0, SlotFacts, TakeObservers DEF Live
<1>2. ChangedOf(h) \in Seq(SpanType)
  BY <1>1, SlotFacts DEF ChangedOf
<1>3. TypeOK'
  <2>1. updates' \in [Handles -> Seq(SpanType)]
    <3>1. updates' = updates \/ updates' = [updates EXCEPT ![h] = ChangedOf(h)]
      BY TakeObservers
    <3> QED BY <1>2, <3>1 DEF TypeOK
  <2>2. future' \in [Handles -> FutureStates]
    BY TakeObservers DEF TypeOK, FutureStates
  <2> QED BY <1>0, <2>1, <2>2, TakeObservers DEF TypeOK
<1>4. \A i \in Slots :
        /\ observers'[i] # NoObserver <=> observers[i] # NoObserver
        /\ observers[i] # NoObserver => observers'[i].notify = observers[i].notify
  BY <1>1, SlotFacts, TakeObservers
<1>5. SlotOwnership'
  <2>1. \A g \in Live' : /\ index'[g] \in Slots' /\ observers'[index'[g]] # NoObserver
                         /\ observers'[index'[g]].notify = g
    BY <1>0, <1>1, <1>4, SlotFacts, TakeObservers
  <2>2. \A i \in Slots' : observers'[i] # NoObserver => index'[observers'[i].notify] = i
    BY <1>0, <1>4, SlotFacts, TakeObservers
  <2> QED BY <2>1, <2>2 DEF SlotOwnership
<1>6. ChangesWellFormed'
  <2>1. WellFormed(New)
    BY DEF New, WellFormed
  <2> QED BY <1>4, <2>1, TakeObservers DEF ChangesWellFormed
<1>7. \A g \in Handles : g # h => future'[g] = future[g]
  <2>1. \/ future' = [future EXCEPT ![h] = "checked"]
        \/ future' = [future EXCEPT ![h] = "ready"]
    BY TakeObservers
  <2> QED BY <2>1 DEF TypeOK
<1>8. FutureHasHandle'
  BY <1>1, <1>7 DEF FutureHasHandle
<1>9. NoLostWakeup'
  <2> SUFFICES ASSUME NEW g \in Handles
               PROVE  /\ future'[g] = "waiting" => ChangedOf(g)' = New
                      /\ future'[g] = "checked" /\ ChangedOf(g)' # New => permit'[g]
    BY DEF NoLostWakeup
  <2>1. CASE g = h
    <3>1. future'[h] # "waiting"
      BY TakeObservers DEF TypeOK
    <3>2. future'[h] = "checked" => ChangedOf(h)' = New
      BY <1>0, TakeObservers DEF TypeOK, ChangedOf
    <3> QED BY <2>1, <3>1, <3>2
  <2>2. CASE g # h /\ future[g] # "none"
    <3>1. g \in Live /\ index[g] # index[h] /\ index[g] \in Slots
      BY <1>1, <2>2, SlotFacts DEF FutureHasHandle
    <3>2. ChangedOf(g)' = ChangedOf(g)
      BY <1>0, <3>1, TakeObservers DEF ChangedOf
    <3> QED BY <1>0, <1>7, <2>2, <3>2 DEF NoLostWakeup
  <2>3. CASE g # h /\ future[g] = "none"
    BY <1>7, <2>3
  <2> QED BY <2>1, <2>2, <2>3
<1> QED BY <1>3, <1>5, <1>6, <1>8, <1>9

LEMMA SlicesAreSequences == Slices \subseteq Seq(Values)
<1> SUFFICES ASSUME NEW n \in Lengths, NEW data \in [1 .. n -> Values]
             PROVE  data \in Seq(Values)
  BY DEF Slices
<1> QED BY ArrayAssumption, SeqDef

LEMMA StepIInv == IInv /\ [Next]_vars => IInv'
<1> SUFFICES ASSUME IInv, [Next]_vars
             PROVE  IInv'
  OBVIOUS
<1>1. ASSUME NEW h \in Handles, Clone(h)
      PROVE  IInv'
  BY <1>1, CloneIInv
<1>2. ASSUME NEW h \in Handles, Drop(h)
      PROVE  IInv'
  BY <1>2, DropIInv
<1>3. ASSUME NEW h \in Handles, NEW start \in 0 .. Length, NEW data \in Slices,
             Update(h, start, data)
      PROVE  IInv'
  <2>1. start \in Nat /\ data \in Seq(Values)
    BY ArrayAssumption, SlicesAreSequences
  <2> QED BY <1>3, <2>1, UpdateIInv
<1>4. ASSUME NEW h \in Handles, TakeUpdates(h)
      PROVE  IInv'
  BY <1>4, TakeIInv
<1>5. ASSUME NEW h \in Handles,
             \/ Updated(h) \/ AwaitNotified(h) \/ Cancel(h)
             \/ \E start, data : UpdateOutOfBounds(h, start, data)
      PROVE  IInv'
  BY <1>5, OtherSteps
<1>6. CASE UNCHANGED vars
  <2>1. PICK h : h \in Handles \/ Handles = {}
    OBVIOUS
  <2>2. CASE h \in Handles
    BY <1>6, <2>2, OtherSteps
  <2>3. UNCHANGED <<array, observers, index, permit, future, updates, poisoned>>
    BY <1>6 DEF vars
  <2>4. CASE Handles = {}
    BY <2>3, <2>4 DEF IInv, TypeOK, SlotOwnership, ChangesWellFormed, FutureHasHandle,
                      NoLostWakeup, Live, Slots, ChangedOf
  <2> QED BY <2>1, <2>2, <2>4
<1> QED BY <1>1, <1>2, <1>3, <1>4, <1>5, <1>6 DEF Next, Poll

THEOREM Invariance == Spec => []IInv
<1> QED BY InitIInv, StepIInv, PTL DEF Spec

(***************************************************************************)
(* Every variable of every reachable state has its type, for any number of *)
(* handles, any array length and any values.                               *)
(***************************************************************************)
THEOREM TypeCorrect == Spec => []TypeOK
<1>1. IInv => TypeOK
  BY DEF IInv
<1> QED BY <1>1, Invariance, PTL

(***************************************************************************)
(* Reused positions never mix up handles.                                  *)
(***************************************************************************)
THEOREM SlotsAreOwned == Spec => []SlotOwnership
<1>1. IInv => SlotOwnership
  BY DEF IInv
<1> QED BY <1>1, Invariance, PTL

(***************************************************************************)
(* No future sleeps through a change, what the comment in updated()        *)
(* claims.                                                                 *)
(***************************************************************************)
THEOREM NoWakeupIsLost == Spec => []NoLostWakeup
<1>1. IInv => NoLostWakeup
  BY DEF IInv
<1> QED BY <1>1, Invariance, PTL

-----------------------------------------------------------------------------
(***************************************************************************)
(* The refinement of ChangeFeed, step by step.                             *)
(***************************************************************************)
LEMMA CoveredNew == Covered(New) = {}
BY DEF Covered, New

LEMMA InitMaps == Init => Feed!Init
<1> SUFFICES ASSUME Init PROVE Feed!Init
  OBVIOUS
<1>0. PICK h \in Handles :
        /\ observers = << NewObserver(h) >>
        /\ index = [g \in Handles |-> IF g = h THEN 1 ELSE 0]
  BY DEF Init
<1>1. Live = {h}
  BY <1>0 DEF Live
<1>2. NewObserver(h).changed = New
  BY DEF NewObserver
<1>3. observers[1] = NewObserver(h)
  BY <1>0
<1>4. \A g \in Handles : index[g] # 0 => ChangedOf(g) = New
  BY <1>0, <1>2, <1>3 DEF ChangedOf
<1>5. Unseen = [g \in Handles |-> {}]
  BY <1>4, CoveredNew DEF Unseen, RecordedAddrs
<1>6. News = [g \in Handles |-> FALSE]
  BY <1>4 DEF News, Live, IsEmpty, New
<1>7. Asking = [g \in Handles |-> FALSE]
  BY DEF Init, Asking
<1>8. Answers = [g \in Handles |-> {}]
  BY CoveredNew DEF Init, Answers
<1> QED BY <1>1, <1>5, <1>6, <1>7, <1>8 DEF Init, NewArray, Addrs, Feed!Init, Feed!Addrs

(***************************************************************************)
(* A step that leaves the array, the observers of the handles and the      *)
(* answers alone is seen as a stutter or a change of who asks.             *)
(***************************************************************************)
LEMMA SameObservers ==
  ASSUME UNCHANGED <<observers, index>>
  PROVE  Live' = Live /\ Unseen' = Unseen /\ News' = News
<1>1. Live' = Live
  BY DEF Live
<1>2. \A h \in Handles : ChangedOf(h)' = ChangedOf(h) /\ RecordedAddrs(h)' = RecordedAddrs(h)
  BY DEF ChangedOf, RecordedAddrs
<1> QED BY <1>1, <1>2 DEF Unseen, News

LEMMA CloneMaps ==
  ASSUME IInv, NEW h \in Handles, Clone(h)
  PROVE  Feed!Join(h)
<1> DEFINE s == ObserverSlot
<1>0. /\ ~poisoned /\ Live # {} /\ h \notin Live
      /\ index' = [index EXCEPT ![h] = s]
      /\ UNCHANGED <<array, future, updates, poisoned>>
  BY DEF Clone
<1>1. /\ Len(observers) \in Nat /\ Slots = 1 .. Len(observers)
      /\ s = Len(observers) + 1 \/ (s \in Slots /\ observers[s] = NoObserver)
  BY SlotFacts, ObserverSlotLemma DEF IInv
<1>2. s # 0
  BY <1>1
<1>3. /\ index'[h] = s /\ Live' = Live \cup {h}
      /\ \A g \in Handles : g # h => index'[g] = index[g]
  BY <1>0, <1>2 DEF IInv, TypeOK, Live
<1>4. observers'[s] = NewObserver(h) /\ \A i \in Slots : i # s => observers'[i] = observers[i]
  <2>1. observers \in Seq(Observer \cup {NoObserver})
    BY DEF IInv, TypeOK
  <2>2. CASE s = Len(observers) + 1
    <3>1. observers' = Append(observers, NewObserver(h))
      BY <2>2 DEF Clone
    <3> HIDE DEF s
    <3> QED BY <1>1, <2>1, <2>2, <3>1
  <2>3. CASE s # Len(observers) + 1
    <3>1. observers' = [observers EXCEPT ![s] = NewObserver(h)]
      BY <2>3 DEF Clone
    <3> HIDE DEF s
    <3> QED BY <1>1, <2>3, <3>1 DEF Slots
  <2> QED BY <2>2, <2>3
<1>5. \A g \in Live : index[g] \in Slots /\ index[g] # s
  BY <1>1, SlotFacts DEF IInv
<1> HIDE DEF s
<1>6. \A g \in Live : ChangedOf(g)' = ChangedOf(g) /\ index'[g] = index[g]
  BY <1>0, <1>3, <1>4, <1>5 DEF ChangedOf, Live
<1>7. ChangedOf(h)' = New
  BY <1>3, <1>4 DEF ChangedOf, NewObserver
<1>8. Unseen' = Unseen
  <2>1. ASSUME NEW g \in Handles
        PROVE  RecordedAddrs(g)' = RecordedAddrs(g)
    <3>1. CASE g \in Live
      BY <1>6, <3>1 DEF RecordedAddrs
    <3>2. CASE g = h
      BY <1>0, <1>7, <3>2, CoveredNew DEF RecordedAddrs, Live
    <3>3. CASE g \notin Live /\ g # h
      BY <1>3, <3>3 DEF RecordedAddrs, Live
    <3> QED BY <3>1, <3>2, <3>3
  <2> QED BY <2>1 DEF Unseen
<1>9. News' = News
  <2>1. ASSUME NEW g \in Handles
        PROVE  (g \in Live' /\ ~IsEmpty(ChangedOf(g)')) <=> (g \in Live /\ ~IsEmpty(ChangedOf(g)))
    BY <1>0, <1>3, <1>6, <1>7 DEF IsEmpty, New
  <2> QED BY <2>1 DEF News
<1>10. Asking' = Asking /\ Answers' = Answers
  BY <1>0 DEF Asking, Answers
<1> QED BY <1>0, <1>3, <1>8, <1>9, <1>10 DEF Feed!Join

LEMMA DropMaps ==
  ASSUME IInv, NEW h \in Handles, Drop(h)
  PROVE  Feed!Leave(h)
<1>0. /\ ~poisoned /\ h \in Live /\ future[h] \in {"none", "ready"}
      /\ observers' = [observers EXCEPT ![index[h]] = NoObserver]
      /\ index' = [index EXCEPT ![h] = 0]
      /\ future' = [future EXCEPT ![h] = "none"]
      /\ updates' = [updates EXCEPT ![h] = New]
      /\ UNCHANGED <<array, permit, poisoned>>
  BY DEF Drop
<1>1. /\ Live' = Live \ {h} /\ index'[h] = 0
      /\ \A g \in Handles : g # h => index'[g] = index[g]
  BY <1>0 DEF IInv, TypeOK, Live
<1>2. \A g \in Live : g # h => index[g] \in Slots /\ index[g] # index[h]
  BY <1>0, SlotFacts DEF IInv
<1>3. \A g \in Live : g # h => ChangedOf(g)' = ChangedOf(g)
  BY <1>0, <1>1, <1>2 DEF ChangedOf, Live, Slots
<1>4. Unseen' = [Unseen EXCEPT ![h] = {}]
  <2>1. ASSUME NEW g \in Handles
        PROVE  RecordedAddrs(g)' = IF g = h THEN {} ELSE RecordedAddrs(g)
    BY <1>1, <1>3 DEF RecordedAddrs, Live
  <2> QED BY <2>1 DEF Unseen
<1>5. News' = [News EXCEPT ![h] = FALSE]
  <2>1. ASSUME NEW g \in Handles
        PROVE  (g \in Live' /\ ~IsEmpty(ChangedOf(g)')) <=>
                 (g # h /\ g \in Live /\ ~IsEmpty(ChangedOf(g)))
    BY <1>1, <1>3 DEF IsEmpty
  <2> QED BY <2>1 DEF News
<1>6. Asking' = Asking
  BY <1>0 DEF IInv, TypeOK, Asking
<1>7. Answers' = [Answers EXCEPT ![h] = {}]
  BY <1>0, CoveredNew DEF IInv, TypeOK, Answers
<1>8. ~Asking[h]
  BY <1>0 DEF Asking
<1> QED BY <1>0, <1>1, <1>4, <1>5, <1>6, <1>7, <1>8 DEF Feed!Leave

LEMMA UpdateMaps ==
  ASSUME IInv, NEW h \in Handles, NEW start \in Nat, NEW data \in Seq(Values),
         Update(h, start, data)
  PROVE  Feed!Write(h, start, data)
<1> DEFINE written == start .. start + Len(data) - 1
           told == Live \ {h}
<1>0. /\ ~poisoned /\ h \in Live /\ start + Len(data) <= Length
      /\ array' = [a \in Addrs |-> IF a \in written THEN data[a - start + 1]
                                   ELSE array[a]]
      /\ UNCHANGED <<index, updates, poisoned>>
  BY DEF Update
<1>1. Live' = Live
  BY <1>0 DEF Live
<1>2. \A g \in Live : index[g] \in Slots /\ (g # h => index[g] \in Others(h))
  BY SlotFacts, UpdateNotifies DEF IInv
<1>3. ASSUME NEW g \in told
      PROVE  Covered(ChangedOf(g)') = Covered(ChangedOf(g)) \cup written /\ ChangedOf(g)' # New
  <2>1. index[g] \in Others(h)
    BY <1>2
  <2> HIDE DEF written
  <2>2. \A i \in Others(h) :
           /\ Covered(observers'[i].changed) = Covered(observers[i].changed) \cup written
           /\ observers'[i].changed # New
    BY UpdateObservers DEF written
  <2> QED BY <1>0, <2>1, <2>2 DEF ChangedOf
<1>4. ChangedOf(h)' = ChangedOf(h)
  <2>1. index[h] \in Slots \ Others(h)
    BY <1>0, <1>2 DEF Others
  <2> QED BY <1>0, <2>1, UpdateObservers DEF ChangedOf
<1>5. Unseen' = [g \in Handles |-> IF g \in told THEN Unseen[g] \cup written ELSE Unseen[g]]
  <2>1. ASSUME NEW g \in Handles
        PROVE  RecordedAddrs(g)' = IF g \in told THEN RecordedAddrs(g) \cup written
                                   ELSE RecordedAddrs(g)
    <3>1. CASE g \in told
      BY <1>0, <1>3, <3>1 DEF RecordedAddrs, Live
    <3>2. CASE g = h
      BY <1>0, <1>4, <3>2 DEF RecordedAddrs
    <3>3. CASE g \notin Live
      BY <1>0, <3>3 DEF RecordedAddrs, Live
    <3> QED BY <3>1, <3>2, <3>3
  <2> QED BY <2>1 DEF Unseen
<1>6. News' = [g \in Handles |-> News[g] \/ g \in told]
  <2>1. ASSUME NEW g \in Handles
        PROVE  (g \in Live' /\ ~IsEmpty(ChangedOf(g)')) <=>
                 ((g \in Live /\ ~IsEmpty(ChangedOf(g))) \/ g \in told)
    BY <1>1, <1>3, <1>4 DEF IsEmpty, New
  <2> QED BY <2>1 DEF News
<1>7. Asking' = Asking
  <2>1. \A g \in Handles : future'[g] \notin {"none", "ready"} <=> future[g] \notin {"none", "ready"}
    BY UpdateNotifies
  <2> QED BY <2>1 DEF Asking
<1>8. Answers' = Answers
  BY <1>0 DEF Answers
<1> QED BY <1>0, <1>1, <1>5, <1>6, <1>7, <1>8 DEF Feed!Write, Addrs, Feed!Addrs

LEMMA TakeMaps ==
  ASSUME IInv, NEW h \in Handles, TakeUpdates(h)
  PROVE  Feed!Answer(h) \/ UNCHANGED Feed!vars
<1>0. /\ ~poisoned /\ future[h] \in {"created", "looping", "woken"}
      /\ UNCHANGED <<array, index, permit, poisoned>>
  BY DEF TakeUpdates
<1>1. Live' = Live /\ h \in Live
  BY <1>0, TakeObservers DEF Live
<1>2. CASE observers' = observers /\ updates' = updates
             /\ future' = [future EXCEPT ![h] = "checked"]
  <2>1. Live' = Live /\ Unseen' = Unseen /\ News' = News
    BY <1>0, <1>2, SameObservers
  <2>2. Asking' = Asking /\ Answers' = Answers
    BY <1>0, <1>2 DEF IInv, TypeOK, Asking, Answers
  <2> QED BY <1>0, <2>1, <2>2 DEF Feed!vars
<1>3. CASE /\ observers'[index[h]].changed = New
           /\ updates' = [updates EXCEPT ![h] = ChangedOf(h)]
           /\ future' = [future EXCEPT ![h] = "ready"]
           /\ ChangedOf(h) # New
  <2>1. ChangedOf(h)' = New
    BY <1>0, <1>3 DEF ChangedOf
  <2>2. \A g \in Live : g # h => ChangedOf(g)' = ChangedOf(g)
    <3>1. \A g \in Live : g # h => index[g] \in Slots /\ index[g] # index[h]
      BY <1>1, SlotFacts DEF IInv
    <3> QED BY <1>0, <3>1, TakeObservers DEF ChangedOf
  <2>3. Unseen' = [Unseen EXCEPT ![h] = {}]
    <3>1. ASSUME NEW g \in Handles
          PROVE  RecordedAddrs(g)' = IF g = h THEN {} ELSE RecordedAddrs(g)
      BY <1>0, <2>1, <2>2, CoveredNew DEF RecordedAddrs, Live
    <3> QED BY <3>1 DEF Unseen
  <2>4. News' = [News EXCEPT ![h] = FALSE]
    <3>1. ASSUME NEW g \in Handles
          PROVE  (g \in Live' /\ ~IsEmpty(ChangedOf(g)')) <=>
                   (g # h /\ g \in Live /\ ~IsEmpty(ChangedOf(g)))
      BY <1>1, <2>1, <2>2 DEF IsEmpty, New
    <3> QED BY <3>1 DEF News
  <2>5. Asking' = [Asking EXCEPT ![h] = FALSE] /\ Asking[h]
    BY <1>0, <1>3 DEF IInv, TypeOK, Asking
  <2>6. Answers' = [Answers EXCEPT ![h] = Unseen[h]]
    BY <1>1, <1>3 DEF IInv, TypeOK, Answers, Unseen, RecordedAddrs, Live
  <2>7. News[h]
    BY <1>1, <1>3 DEF News, IsEmpty, New
  <2> QED BY <1>0, <1>1, <2>3, <2>4, <2>5, <2>6, <2>7 DEF Feed!Answer
<1> QED BY <1>2, <1>3, TakeObservers

LEMMA OtherMaps ==
  ASSUME IInv, NEW h \in Handles
  PROVE  /\ Updated(h) => Feed!Ask(h)
         /\ Cancel(h) => Feed!Withdraw(h)
         /\ AwaitNotified(h) => UNCHANGED Feed!vars
         /\ \A start, data : UpdateOutOfBounds(h, start, data) => Feed!Fail
<1>1. ASSUME Updated(h)
      PROVE  Feed!Ask(h)
  <2>1. Live' = Live /\ Unseen' = Unseen /\ News' = News /\ UNCHANGED <<array, poisoned>>
    BY <1>1, SameObservers DEF Updated
  <2>2. /\ Asking' = [Asking EXCEPT ![h] = TRUE] /\ ~Asking[h] /\ h \in Live
        /\ Answers' = [Answers EXCEPT ![h] = {}]
    BY <1>1, CoveredNew DEF IInv, TypeOK, Updated, Asking, Answers
  <2> QED BY <2>1, <2>2 DEF Feed!Ask
<1>2. ASSUME Cancel(h)
      PROVE  Feed!Withdraw(h)
  <2>1. Live' = Live /\ Unseen' = Unseen /\ News' = News /\ UNCHANGED <<array, poisoned>>
    BY <1>2, SameObservers DEF Cancel
  <2>2. /\ Asking' = [Asking EXCEPT ![h] = FALSE] /\ Asking[h]
        /\ Answers' = Answers
    BY <1>2 DEF IInv, TypeOK, Cancel, Asking, Answers
  <2> QED BY <2>1, <2>2 DEF Feed!Withdraw
<1>3. ASSUME AwaitNotified(h)
      PROVE  UNCHANGED Feed!vars
  <2>1. Live' = Live /\ Unseen' = Unseen /\ News' = News /\ UNCHANGED <<array, poisoned>>
    BY <1>3, SameObservers DEF AwaitNotified
  <2>2. Asking' = Asking /\ Answers' = Answers
    BY <1>3 DEF IInv, TypeOK, AwaitNotified, Asking, Answers
  <2> QED BY <2>1, <2>2 DEF Feed!vars
<1>4. ASSUME NEW start, NEW data, UpdateOutOfBounds(h, start, data)
      PROVE  Feed!Fail
  <2>1. /\ Live' = Live /\ Unseen' = Unseen /\ News' = News /\ array' = array
        /\ ~poisoned /\ poisoned' = TRUE
    BY <1>4, SameObservers DEF UpdateOutOfBounds
  <2>2. Asking' = Asking /\ Answers' = Answers
    BY <1>4 DEF UpdateOutOfBounds, Asking, Answers
  <2> QED BY <2>1, <2>2 DEF Feed!Fail
<1> QED BY <1>1, <1>2, <1>3, <1>4

LEMMA StepMaps == IInv /\ [Next]_vars => [Feed!Next]_(Feed!vars)
<1> SUFFICES ASSUME IInv, [Next]_vars
             PROVE  Feed!Next \/ UNCHANGED Feed!vars
  OBVIOUS
<1>1. ASSUME NEW h \in Handles, Clone(h) \/ Drop(h) \/ Updated(h) \/ Cancel(h)
      PROVE  Feed!Next
  <2>1. Feed!Join(h) \/ Feed!Leave(h) \/ Feed!Ask(h) \/ Feed!Withdraw(h)
    BY <1>1, CloneMaps, DropMaps, OtherMaps
  <2> QED BY <2>1 DEF Feed!Next
<1>2. ASSUME NEW h \in Handles, NEW start \in 0 .. Length, NEW data \in Slices,
             Update(h, start, data)
      PROVE  Feed!Next
  <2>1. start \in Nat /\ data \in Seq(Values)
    BY ArrayAssumption, SlicesAreSequences
  <2>2. Feed!Write(h, start, data)
    BY <1>2, <2>1, UpdateMaps
  <2> QED BY <2>2 DEF Feed!Next, Feed!Slices, Slices
<1>3. ASSUME NEW h \in Handles, NEW start, NEW data, UpdateOutOfBounds(h, start, data)
      PROVE  Feed!Next
  BY <1>3, OtherMaps DEF Feed!Next
<1>4. ASSUME NEW h \in Handles, TakeUpdates(h) \/ AwaitNotified(h)
      PROVE  Feed!Next \/ UNCHANGED Feed!vars
  <2>1. Feed!Answer(h) \/ UNCHANGED Feed!vars
    BY <1>4, TakeMaps, OtherMaps
  <2> QED BY <2>1 DEF Feed!Next
<1>5. CASE UNCHANGED vars
  <2>1. Live' = Live /\ Unseen' = Unseen /\ News' = News
    BY <1>5, SameObservers DEF vars
  <2>2. Asking' = Asking /\ Answers' = Answers
    BY <1>5 DEF vars, Asking, Answers
  <2> QED BY <1>5, <2>1, <2>2 DEF vars, Feed!vars
<1> QED BY <1>1, <1>2, <1>3, <1>4, <1>5 DEF Next, Poll

(***************************************************************************)
(* Every behaviour of the observable array is one of ChangeFeed: a handle  *)
(* is told exactly the addresses others wrote since it was last told.      *)
(***************************************************************************)
THEOREM FeedIsImplemented == Spec => KeepsFeedSafety
<1>1. Spec => Init /\ [][Next]_vars
  BY DEF Spec
<1> QED BY <1>1, InitMaps, StepMaps, Invariance, PTL DEF KeepsFeedSafety, Feed!Safety

-----------------------------------------------------------------------------
(***************************************************************************)
(* The vector is well-formed, has its ends on the ruler, covers the steps  *)
(* that were added and touches the marks: together they leave it no choice *)
(* but the maximal runs.                                                   *)
(***************************************************************************)
CallsInv == /\ Sorted(united)
            /\ EndsIn(united, 0 .. MaxAddress)
            /\ Reached(united, 1) = steps
            /\ Reached(united, 0) = marks

LEMMA EmptyVector ==
  /\ Sorted(New) /\ \A S : EndsIn(New, S)
  /\ \A d : Reached(New, d) = {}
BY DEF Sorted, New, WellFormed, EndsIn, Reached

LEMMA InitCallsInv == NoCalls => CallsInv
BY EmptyVector DEF NoCalls, CallsInv

LEMMA NextCallsInv == CallsInv /\ [Call]_calledVars => CallsInv'
<1> SUFFICES ASSUME CallsInv, [Call]_calledVars PROVE CallsInv'
  OBVIOUS
<1>1. CASE UNCHANGED calledVars
  BY <1>1 DEF calledVars, CallsInv
<1>2. ASSUME NEW r \in UprightSpans, Unite(r) PROVE CallsInv'
  <2>1. /\ r \in SpanType /\ r.start <= r.end
        /\ r.start \in 0 .. MaxAddress /\ r.end \in 0 .. MaxAddress
    BY MaxAddressAssumption DEF UprightSpans, SpanType
  <2>2. united \in Seq(SpanType) /\ Ordered(united) /\ Proper(united)
    BY SortedIsOrdered DEF CallsInv, Sorted
  <2> DEFINE out == Union(united, r)
  <2>3. /\ out \in Seq(SpanType) /\ Ordered(out) /\ Proper(out)
        /\ EndsIn(out, 0 .. MaxAddress)
        /\ \A d \in {0, 1} : Reached(out, d) = Reached(united, d) \cup Reach(r, d)
    BY <2>1, <2>2, UnionAny DEF CallsInv
  <2>4. united' = out /\ marks' = marks \cup (r.start .. r.end)
        /\ steps' = steps \cup Addresses(r)
    BY <1>2 DEF Unite
  <2> HIDE DEF out
  <2>5. Sorted(out)
    BY <2>3, SortedIsOrdered DEF Sorted
  <2>6. Reach(r, 1) = Addresses(r) /\ Reach(r, 0) = r.start .. r.end
    BY <2>1, SpanFields DEF Reach, Addresses
  <2>7. Reached(out, 1) = steps' /\ Reached(out, 0) = marks'
    BY <2>3, <2>4, <2>6 DEF CallsInv
  <2> QED BY <2>3, <2>4, <2>5, <2>7 DEF CallsInv
<1>3. CASE ClearInto
  BY <1>3, EmptyVector DEF ClearInto, CallsInv
<1> QED BY <1>1, <1>2, <1>3 DEF Call

(***************************************************************************)
(* A vector that satisfies CallsInv holds the maximal runs.                *)
(***************************************************************************)
LEMMA ElementsAreMaximalRuns == CallsInv => Held(united) = MaximalRuns
<1> SUFFICES ASSUME CallsInv PROVE Held(united) = MaximalRuns
  OBVIOUS
<1> PICK n \in Nat : n = Len(united)
  BY DEF CallsInv, Sorted
<1>1. /\ DOMAIN united = 1 .. n
      /\ \A i \in 1 .. n : united[i] \in SpanType
      /\ \A i \in 1 .. n : united[i].start \in Int /\ united[i].end \in Int
      /\ \A i \in 1 .. n : united[i].start \in 0 .. MaxAddress
                           /\ united[i].end \in 0 .. MaxAddress
  <2>1. united \in Seq(SpanType) /\ EndsIn(united, 0 .. MaxAddress)
    BY DEF CallsInv, Sorted
  <2>2. DOMAIN united = 1 .. n /\ \A i \in 1 .. n : united[i] \in SpanType
    BY <2>1
  <2>3. \A i \in 1 .. n : united[i].start \in Int /\ united[i].end \in Int
    BY <2>2, SpanFields
  <2> QED BY <2>1, <2>2, <2>3 DEF EndsIn
<1>2. /\ \A i \in 1 .. n : united[i].start <= united[i].end
      /\ \A i, j \in 1 .. n : i < j => united[i].end < united[j].start
  BY <1>1 DEF CallsInv, Sorted, WellFormed
<1>3. \A a : a \in steps <=> \E i \in 1 .. n : a \in united[i].start .. united[i].end - 1
  BY <1>1 DEF CallsInv, Reached, Reach
<1>4. \A a : a \in marks <=> \E i \in 1 .. n : a \in united[i].start .. united[i].end
  <2>1. \A i \in 1 .. n : Reach(united[i], 0) = united[i].start .. united[i].end
    BY <1>1 DEF Reach
  <2> QED BY <1>1, <2>1 DEF CallsInv, Reached
<1>5. ASSUME NEW i \in 1 .. n
      PROVE  united[i].start - 1 \notin steps /\ united[i].end \notin steps
  <2> SUFFICES ASSUME NEW j \in 1 .. n
               PROVE  /\ united[i].start - 1 \notin united[j].start .. united[j].end - 1
                      /\ united[i].end \notin united[j].start .. united[j].end - 1
    BY <1>3
  <2>1. CASE i = j
    BY <1>1, <2>1
  <2>2. CASE i < j
    BY <1>1, <1>2, <2>2
  <2>3. CASE j < i
    BY <1>1, <1>2, <2>3
  <2> QED BY <2>1, <2>2, <2>3
<1>6. ASSUME NEW i \in 1 .. n
      PROVE  united[i] \in MaximalRuns
  <2>1. united[i] \in UprightSpans
    <3>1. united[i] \in [start : 0 .. MaxAddress, end : 0 .. MaxAddress]
      BY <1>1 DEF SpanType
    <3> QED BY <1>2, <3>1 DEF UprightSpans
  <2>2. united[i].start .. united[i].end \subseteq marks
    BY <1>4
  <2>3. Addresses(united[i]) \subseteq steps
    BY <1>3 DEF Addresses
  <2> QED BY <1>5, <2>1, <2>2, <2>3 DEF MaximalRuns
<1>7. ASSUME NEW r \in MaximalRuns
      PROVE  \E i \in 1 .. n : united[i] = r
  <2>1. /\ r \in SpanType /\ r.start \in Int /\ r.end \in Int /\ r.start <= r.end
        /\ r.start .. r.end \subseteq marks
        /\ r.start .. r.end - 1 \subseteq steps
        /\ r.start - 1 \notin steps /\ r.end \notin steps
    BY MaxAddressAssumption DEF MaximalRuns, UprightSpans, SpanType, Addresses
  <2>2. PICK i \in 1 .. n : united[i].start <= r.start /\ r.start <= united[i].end
    <3>1. r.start \in marks
      <4>1. r.start \in r.start .. r.end
        BY <2>1
      <4> QED BY <2>1, <4>1
    <3>2. PICK i \in 1 .. n : r.start \in united[i].start .. united[i].end
      BY <1>4, <3>1
    <3>3. united[i].start <= r.start /\ r.start <= united[i].end
      BY <1>1, <2>1, <3>2
    <3> QED BY <3>3
  <2>3. r.end <= united[i].end
    <3> SUFFICES ASSUME united[i].end < r.end
                 PROVE  FALSE
      BY <1>1, <2>1
    <3>1. united[i].end \in steps
      BY <1>1, <2>1, <2>2
    <3> QED BY <1>5, <3>1
  <2>4. united[i].start = r.start
    <3> SUFFICES ASSUME united[i].start < r.start
                 PROVE  FALSE
      BY <1>1, <2>1, <2>2
    <3>1. r.start - 1 \in united[i].start .. united[i].end - 1
      BY <1>1, <2>1, <2>2
    <3> QED BY <1>3, <2>1, <3>1
  <2>5. united[i].end = r.end
    <3> SUFFICES ASSUME r.end < united[i].end
                 PROVE  FALSE
      BY <1>1, <2>1, <2>3
    <3>1. r.end \in united[i].start .. united[i].end - 1
      BY <1>1, <2>1, <2>2
    <3> QED BY <1>3, <2>1, <3>1
  <2>6. united[i] \in SpanType
    BY <1>1
  <2> QED BY <2>1, <2>4, <2>5, <2>6 DEF SpanType
<1> QED BY <1>1, <1>6, <1>7 DEF Held

(***************************************************************************)
(* Whatever is added and cleared, the vector is what the next binary       *)
(* search needs (RangeArray::union, clear_into).                           *)
(***************************************************************************)
THEOREM CallsKeepItWellFormed == Calls => []StaysWellFormed
<1>1. CallsInv => StaysWellFormed
  BY DEF CallsInv, Sorted, StaysWellFormed
<1> QED BY <1>1, InitCallsInv, NextCallsInv, PTL DEF Calls

(***************************************************************************)
(* Whatever is added and cleared, the vector holds exactly the maximal     *)
(* runs of what was added since the last clear_into: nothing is lost,      *)
(* nothing else is in it, and no two of its ranges could be merged         *)
(* (RangeArray::union).                                                    *)
(***************************************************************************)
THEOREM CallsHoldMaximalRuns == Calls => []HoldsMaximalRuns
<1>1. CallsInv => HoldsMaximalRuns
  BY ElementsAreMaximalRuns DEF HoldsMaximalRuns
<1> QED BY <1>1, InitCallsInv, NextCallsInv, PTL DEF Calls
=============================================================================

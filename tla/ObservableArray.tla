--------------------------- MODULE ObservableArray ---------------------------
(***************************************************************************)
(* src/observable_array.rs: an array shared by any number of handles.  A   *)
(* write through one handle is recorded, as address ranges, for every      *)
(* other handle; the future returned by updated() delivers the recorded    *)
(* ranges of its handle, waiting on a tokio Notify while there are none.   *)
(*                                                                         *)
(* A step is what happens under one acquisition of the RwLock, or one call *)
(* on a Notify: the code of different handles interleaves between those.   *)
(***************************************************************************)
EXTENDS RangeArray

CONSTANTS
    Handles,      \* identities of ObservableArray values, each with a Notify
    Length,       \* length of the array
    Values,       \* what an element can be; Zero is T::default()
    Zero,
    Lengths,      \* bound: the lengths of the slices that are written
    NoObserver    \* None in the vector of observers

Addrs == 0 .. Length - 1
Observer == [changed : Seq(SpanType), notify : Handles]

ASSUME ArrayAssumption == Length \in Nat /\ Lengths \subseteq Nat /\ Zero \in Values
ASSUME NoObserverAssumption == NoObserver \notin Observer

VARIABLES
    array,      \* Base.array
    observers,  \* Base.observers, positions are 1-based
    index,      \* ObservableArray.index of each handle, 0 when it does not exist
    permit,     \* whether the Notify of a handle holds a permit
    future,     \* where the handle's updated() future is, "none" without one
    updates,    \* the ranges the last finished updated() returned
    poisoned    \* a panic happened while the RwLock was held for writing
vars == <<array, observers, index, permit, future, updates, poisoned>>

(***************************************************************************)
(* created: returned by updated(), not yet polled    ready: finished       *)
(* looping: at the top of the loop, within a poll                          *)
(* checked: found no changes, notified not yet polled                      *)
(* waiting: registered with the Notify      woken: chosen by notify_one    *)
(***************************************************************************)
FutureStates ==
    {"none", "created", "looping", "checked", "waiting", "woken", "ready"}

Live == {h \in Handles : index[h] # 0}
Slots == DOMAIN observers
ChangedOf(h) == observers[index[h]].changed

OneMore == [a \in 0 .. Length |-> Zero]      \* mutant of NewArray: off by one
NewArray == [a \in Addrs |-> Zero]

NewObserver(h) == [changed |-> New, notify |-> h]

Init ==
    /\ array = NewArray
    /\ \E h \in Handles :
          /\ observers = << NewObserver(h) >>
          /\ index = [g \in Handles |-> IF g = h THEN 1 ELSE 0]
    /\ permit = [h \in Handles |-> FALSE]
    /\ future = [h \in Handles |-> "none"]
    /\ updates = [h \in Handles |-> New]
    /\ poisoned = FALSE

(***************************************************************************)
(* get_observer reuses the first free position, or appends one.            *)
(***************************************************************************)
FreeOrIdle ==         \* mutant of Free: an observer without changes is reused
    {i \in Slots : observers[i] = NoObserver \/ observers[i].changed = New}
Free == {i \in Slots : observers[i] = NoObserver}
ObserverSlot ==
    IF Free = {} THEN Len(observers) + 1
    ELSE CHOOSE i \in Free : \A j \in Free : i <= j

Clone(h) ==
    /\ ~poisoned /\ Live # {} /\ h \notin Live
    /\ observers' = IF ObserverSlot = Len(observers) + 1
                    THEN Append(observers, NewObserver(h))
                    ELSE [observers EXCEPT ![ObserverSlot] = NewObserver(h)]
    /\ index' = [index EXCEPT ![h] = ObserverSlot]
    /\ permit' = [permit EXCEPT ![h] = FALSE]
    /\ UNCHANGED <<array, future, updates, poisoned>>

(***************************************************************************)
(* updated() does not borrow its handle, but every caller awaits it inside *)
(* a borrow: a handle is dropped only when its future is finished or gone. *)
(***************************************************************************)
Drop(h) ==
    /\ ~poisoned /\ h \in Live /\ future[h] \in {"none", "ready"}
    /\ observers' = [observers EXCEPT ![index[h]] = NoObserver]
    /\ index' = [index EXCEPT ![h] = 0]
    /\ future' = [future EXCEPT ![h] = "none"]
    /\ updates' = [updates EXCEPT ![h] = New]
    /\ UNCHANGED <<array, permit, poisoned>>

(***************************************************************************)
(* Notify::notify_one on every Notify of the set: a waiting future is      *)
(* woken; without one a permit is stored for the next to ask.              *)
(***************************************************************************)
NotifyWaiting(hs) ==  \* mutant of NotifyOne: notify_waiters, which stores nothing
    /\ future' = [h \in Handles |->
                    IF h \in hs /\ future[h] = "waiting" THEN "woken" ELSE future[h]]
    /\ permit' = permit
NotifyOne(hs) ==
    /\ future' = [h \in Handles |->
                    IF h \in hs /\ future[h] = "waiting" THEN "woken" ELSE future[h]]
    /\ permit' = [h \in Handles |->
                    permit[h] \/ (h \in hs /\ future[h] # "waiting")]

Others(h) == {i \in Slots : i # index[h] /\ observers[i] # NoObserver}

RecordLast(observer, r) ==  \* mutant of Record: what was there is overwritten
    [changed |-> <<r>>, notify |-> observer.notify]
Record(observer, r) ==
    [changed |-> Union(observer.changed, r), notify |-> observer.notify]

Update(h, start, data) ==
    /\ ~poisoned /\ h \in Live
    /\ start + Len(data) <= Length
    /\ array' = [a \in Addrs |-> IF a \in start .. start + Len(data) - 1
                                 THEN data[a - start + 1] ELSE array[a]]
    /\ observers' = [i \in Slots |->
                       IF i \in Others(h)
                       THEN Record(observers[i], Span(start, start + Len(data)))
                       ELSE observers[i]]
    /\ NotifyOne({observers[i].notify : i \in Others(h)})
    /\ UNCHANGED <<index, updates, poisoned>>

(***************************************************************************)
(* The slice expression panics before anything is written, and the write   *)
(* guard it unwinds through poisons the lock: every later read() or        *)
(* write() is an error, and its unwrap() panics in turn.  That includes    *)
(* the drop of the handle itself: what becomes of the program is the       *)
(* subject of ModbusServer and WsSession.                                  *)
(***************************************************************************)
UpdateOutOfBounds(h, start, data) ==
    /\ ~poisoned /\ h \in Live
    /\ start + Len(data) > Length
    /\ poisoned' = TRUE
    /\ UNCHANGED <<array, observers, index, permit, future, updates>>

(***************************************************************************)
(* updated() and the polls of its future.                                  *)
(***************************************************************************)
Updated(h) ==
    /\ h \in Live /\ future[h] \in {"none", "ready"}
    /\ future' = [future EXCEPT ![h] = "created"]
    /\ updates' = [updates EXCEPT ![h] = New]
    /\ UNCHANGED <<array, observers, index, permit, poisoned>>

TakeUpdates(h) ==
    /\ ~poisoned /\ future[h] \in {"created", "looping", "woken"}
    /\ IF IsEmpty(ChangedOf(h))
       THEN /\ future' = [future EXCEPT ![h] = "checked"]
            /\ UNCHANGED <<observers, updates>>
       ELSE /\ future' = [future EXCEPT ![h] = "ready"]
            /\ updates' = [updates EXCEPT ![h] = ChangedOf(h)]
            /\ observers' = [observers EXCEPT ![index[h]] = NewObserver(@.notify)]
    /\ UNCHANGED <<array, index, permit, poisoned>>

AwaitWaker(h) ==      \* mutant of AwaitNotified: a stored permit is not looked at
    /\ future[h] = "checked"
    /\ future' = [future EXCEPT ![h] = "waiting"]
    /\ UNCHANGED <<array, observers, index, permit, updates, poisoned>>
AwaitNotified(h) ==
    /\ future[h] = "checked"
    /\ future' = [future EXCEPT ![h] = IF permit[h] THEN "looping" ELSE "waiting"]
    /\ permit' = [permit EXCEPT ![h] = FALSE]
    /\ UNCHANGED <<array, observers, index, updates, poisoned>>

(***************************************************************************)
(* A future is dropped between polls.  A Notified that was chosen but not  *)
(* polled again passes its notification on, here back to the Notify.       *)
(***************************************************************************)
Cancel(h) ==
    /\ future[h] \in {"created", "waiting", "woken"}
    /\ future' = [future EXCEPT ![h] = "none"]
    /\ permit' = [permit EXCEPT ![h] = @ \/ future[h] = "woken"]
    /\ UNCHANGED <<array, observers, index, updates, poisoned>>

Poll(h) == TakeUpdates(h) \/ AwaitNotified(h)

Slices == UNION {[1 .. n -> Values] : n \in Lengths}

Next ==
    \E h \in Handles :
        \/ Clone(h) \/ Drop(h)
        \/ \E start \in 0 .. Length, data \in Slices :
              Update(h, start, data) \/ UpdateOutOfBounds(h, start, data)
        \/ Updated(h) \/ Poll(h) \/ Cancel(h)

(***************************************************************************)
(* The runtime polls a future that is new, or that was woken, and a poll   *)
(* runs until the future waits or finishes.  Nobody has to write, call     *)
(* updated(), cancel, clone or drop.                                       *)
(***************************************************************************)
Fairness == \A h \in Handles : WF_vars(Poll(h))

Spec == Init /\ [][Next]_vars /\ Fairness
-----------------------------------------------------------------------------
TypeOK ==
    /\ array \in [Addrs -> Values]
    /\ observers \in Seq(Observer \cup {NoObserver})
    /\ index \in [Handles -> Nat]
    /\ permit \in [Handles -> BOOLEAN]
    /\ future \in [Handles -> FutureStates]
    /\ updates \in [Handles -> Seq(SpanType)]
    /\ poisoned \in BOOLEAN

(***************************************************************************)
(* Positions are reused after a drop, yet each handle that exists has a    *)
(* position of its own with its own Notify in it, and no position is left  *)
(* behind by a handle that is gone (get_observer, release): a change is    *)
(* never recorded for, taken by or announced to the wrong handle.          *)
(***************************************************************************)
SlotOwnership ==
    /\ \A h \in Live : /\ index[h] \in Slots
                       /\ observers[index[h]] # NoObserver
                       /\ observers[index[h]].notify = h
    /\ \A i \in Slots :
          observers[i] # NoObserver => index[observers[i].notify] = i

(***************************************************************************)
(* The comment in updated(): "This way a notification won't be missed if   *)
(* it's triggered after the read but before the await".  A future that has *)
(* gone to sleep has nothing to deliver, and one about to does not sleep   *)
(* when something came after it looked.                                    *)
(***************************************************************************)
NoLostWakeup ==
    \A h \in Handles :
        /\ future[h] = "waiting" => ChangedOf(h) = New
        /\ future[h] = "checked" /\ ChangedOf(h) # New => permit[h]

RecordedAddrs(h) == IF index[h] = 0 THEN {} ELSE Covered(ChangedOf(h))

(***************************************************************************)
(* A change recorded for a handle whose updated() is being awaited is      *)
(* delivered, unless the caller drops the future or a panic has poisoned   *)
(* the lock.                                                               *)
(***************************************************************************)
Delivery ==
    \A h \in Handles :
        future[h] # "none" /\ RecordedAddrs(h) # {}
            ~> future[h] \in {"ready", "none"} \/ poisoned

(***************************************************************************)
(* The array of observers, ranges and Notifys keeps the promise ChangeFeed *)
(* states with a set of addresses per handle: every write is told to every *)
(* other handle, exactly once.  That it is told at all is Delivery.        *)
(***************************************************************************)
Unseen == [h \in Handles |-> RecordedAddrs(h)]
News == [h \in Handles |-> h \in Live /\ ~IsEmpty(ChangedOf(h))]
Asking == [h \in Handles |-> future[h] \notin {"none", "ready"}]
Answers == [h \in Handles |-> Covered(updates[h])]

Feed == INSTANCE ChangeFeed WITH
    handles <- Live, unseen <- Unseen, news <- News,
    asking <- Asking, answer <- Answers, failed <- poisoned
KeepsFeedSafety == Feed!Safety
=============================================================================

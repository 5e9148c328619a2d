----------------------------- MODULE ChangeFeed -----------------------------
(***************************************************************************)
(* What an ObservableArray promises its users.  Each handle has a set of   *)
(* addresses that others wrote since it was last told.  A handle asks to   *)
(* be told, and is answered with exactly that set once there is news.      *)
(***************************************************************************)
EXTENDS Integers, Sequences

CONSTANTS Handles, Length, Values, Zero, Lengths

VARIABLES
    array,    \* the values
    handles,  \* the handles that exist
    unseen,   \* the addresses others wrote and the handle was not told of
    news,     \* whether others wrote at all: a write may be empty
    asking,   \* whether the handle waits for an answer
    answer,   \* the addresses in its last answer
    failed    \* a write outside of the array: nothing works any more
vars == <<array, handles, unseen, news, asking, answer, failed>>

Addrs == 0 .. Length - 1

Init ==
    /\ array = [a \in Addrs |-> Zero]
    /\ \E h \in Handles : handles = {h}
    /\ unseen = [h \in Handles |-> {}]
    /\ news = [h \in Handles |-> FALSE]
    /\ asking = [h \in Handles |-> FALSE]
    /\ answer = [h \in Handles |-> {}]
    /\ failed = FALSE

Join(h) ==
    /\ ~failed /\ handles # {} /\ h \notin handles
    /\ handles' = handles \cup {h}
    /\ UNCHANGED <<array, unseen, news, asking, answer, failed>>

Leave(h) ==
    /\ ~failed /\ h \in handles /\ ~asking[h]
    /\ handles' = handles \ {h}
    /\ unseen' = [unseen EXCEPT ![h] = {}]
    /\ news' = [news EXCEPT ![h] = FALSE]
    /\ answer' = [answer EXCEPT ![h] = {}]
    /\ UNCHANGED <<array, asking, failed>>

Write(h, start, data) ==
    LET written == start .. start + Len(data) - 1
        told == handles \ {h}
    IN  /\ ~failed /\ h \in handles
        /\ start + Len(data) <= Length
        /\ array' = [a \in Addrs |-> IF a \in written THEN data[a - start + 1]
                                     ELSE array[a]]
        /\ unseen' = [g \in Handles |-> IF g \in told THEN unseen[g] \cup written
                                        ELSE unseen[g]]
        /\ news' = [g \in Handles |-> news[g] \/ g \in told]
        /\ UNCHANGED <<handles, asking, answer, failed>>

Fail ==
    /\ ~failed
    /\ failed' = TRUE
    /\ UNCHANGED <<array, handles, unseen, news, asking, answer>>

Ask(h) ==
    /\ h \in handles /\ ~asking[h]
    /\ asking' = [asking EXCEPT ![h] = TRUE]
    /\ answer' = [answer EXCEPT ![h] = {}]
    /\ UNCHANGED <<array, handles, unseen, news, failed>>

Withdraw(h) ==
    /\ asking[h]
    /\ asking' = [asking EXCEPT ![h] = FALSE]
    /\ UNCHANGED <<array, handles, unseen, news, answer, failed>>

Answer(h) ==
    /\ ~failed /\ asking[h] /\ news[h]
    /\ answer' = [answer EXCEPT ![h] = unseen[h]]
    /\ unseen' = [unseen EXCEPT ![h] = {}]
    /\ news' = [news EXCEPT ![h] = FALSE]
    /\ asking' = [asking EXCEPT ![h] = FALSE]
    /\ UNCHANGED <<array, handles, failed>>

Slices == UNION {[1 .. n -> Values] : n \in Lengths}

Next ==
    \/ Fail
    \/ \E h \in Handles :
          \/ Join(h) \/ Leave(h) \/ Ask(h) \/ Withdraw(h) \/ Answer(h)
          \/ \E start \in 0 .. Length, data \in Slices : Write(h, start, data)

Safety == Init /\ [][Next]_vars
=============================================================================

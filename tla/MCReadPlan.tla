---------------------------- MODULE MCReadPlan ------------------------------
EXTENDS ReadPlan

(* Single words, pairs and longer tags, with groups touching, overlapping,  *)
(* and ending at or beyond the last address of eight; one is upside down.   *)
MCTags == {[low |-> 0, high |-> 0, initial |-> TRUE],
           [low |-> 1, high |-> 3, initial |-> FALSE],
           [low |-> 2, high |-> 4, initial |-> TRUE],
           [low |-> 4, high |-> 2, initial |-> FALSE],
           [low |-> 6, high |-> 7, initial |-> TRUE]}
MCBases == {3}
=============================================================================

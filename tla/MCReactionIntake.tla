--------------------------- MODULE MCReactionIntake ---------------------------
(* Instances of ReactionIntake for TLC: a table that was left by a version *)
(* with a longer window; reactions to an older message, and to one that    *)
(* came with an update.                                                    *)
EXTENDS ReactionIntake

(* A reaction before, between and after ordinary updates, two reactions in *)
(* a row, and an update that is no good.                                   *)
MCArrivals == {<<"ordinary", "reaction", "reaction">>, <<"reaction", "ordinary", "reaction">>,
               <<"ordinary", "reaction", "ordinary">>, <<"ordinary", "malformed", "reaction">>}
MCTarget == [u \in 1..NumUpdates |-> IF u = 3 THEN 1 ELSE 0]
MCStored == {[i \in 1..3 |-> [message |-> 0]]}
===============================================================================

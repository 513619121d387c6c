---------------------------- MODULE MCContexts -----------------------------
(* Contexts for TLC: two or three brokers.                                   *)
EXTENDS Contexts

CONSTANTS x, y, z, c

MCBrokers     == {<<x, 0>>, <<y, 0>>}
MCThreeBrokers == {<<x, 0>>, <<y, 0>>, <<z, 0>>}
MCRank == [b \in Brokers |-> IF b[1] = x THEN 1 ELSE IF b[1] = y THEN 2 ELSE 3]
=============================================================================

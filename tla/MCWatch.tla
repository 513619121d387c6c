------------------------------ MODULE MCWatch -------------------------------
(* Watch for TLC: two watchers, which are interchangeable.                   *)
EXTENDS Watch, TLC

CONSTANTS w1, w2

WatcherSymmetry == Permutations(Watchers)
=============================================================================

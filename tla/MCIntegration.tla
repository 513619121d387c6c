---------------------------- MODULE MCIntegration ----------------------------
(* Integration for TLC: which target expects which event type, which       *)
(* trigger names share a prefix.                                           *)
EXTENDS IntegrationProperties, TLC

CONSTANTS t1, x1, s1, b0, a, b, all, n1, p1, p2, p3, p4, none

MCExpected == [t \in {t1} |-> none]
MCOwnType  == [x \in Transformations |-> b]
MCPrefixed == [n \in UserNames |-> {m \in TriggerNames : m[1] = n /\ m[2] # 0}]
PortSymmetry == Permutations(Ports)
=============================================================================

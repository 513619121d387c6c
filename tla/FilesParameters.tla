--------------------------- MODULE FilesParameters ---------------------------
(* Constants of the modules about the files that tmctl processes share.        *)
EXTENDS Naturals

CONSTANTS
    Procs,
    None,        \* no object, no entry, no file, no result
    Keys,        \* kind and name of the objects of the manifest
    Values,      \* what an object says
    Triggers,    \* names in broker.conf
    Specs,       \* what its entries say
    Garbage,     \* a file that does not parse
    Docs,        \* number of documents of the CRD release, each a CRD
    MaxChanges,  \* bound on the changes of one command
    MaxFailures, \* bound on requests that fail
    MaxBreaks,   \* bound on downloads that break off
    MaxKills,    \* bound on processes killed
    MaxFaults    \* bound on all three together

Objects   == [Keys -> Values \cup {None}]
Configs   == [Triggers -> Specs \cup {None}]
NoObjects == [k \in Keys |-> None]
NoConfig  == [t \in Triggers |-> None]

ASSUME NoneAssumption    == None \notin Values \cup Specs
ASSUME GarbageAssumption == Garbage \notin Objects \cup Configs
ASSUME DocsAssumption    == Docs \in Nat \ {0} /\ (\A f \in SUBSET (1 .. Docs) : f # None)
ASSUME BoundsAssumption ==
    /\ MaxChanges \in Nat /\ MaxFailures \in Nat /\ MaxBreaks \in Nat
    /\ MaxKills \in Nat /\ MaxFaults \in Nat
=============================================================================

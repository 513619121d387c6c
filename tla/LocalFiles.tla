----------------------------- MODULE LocalFiles -----------------------------
(***************************************************************************)
(* The two files of a broker's directory and the tmctl processes that change  *)
(* them.  manifest.yaml is read when a command starts and written as a whole  *)
(* from that copy; broker.conf is read again for each change.  A write        *)
(* truncates the file first.  Nothing keeps two processes apart.             *)
(***************************************************************************)
EXTENDS FilesParameters

VARIABLES
    manifest, conf,   \* the files
    pc,               \* where each process is
    objects,          \* Manifest.Objects of each process
    draft,            \* the configuration it is about to write
    changes,          \* how many changes its command has made
    changed,          \* the last answer of Add
    kills,
    overlap,          \* processes have overlapped since none was running
    confOverlap       \* changes of broker.conf have overlapped since none was under way

files == <<manifest, conf>>
vars  == <<files, pc, objects, draft, changes, changed, kills, overlap, confOverlap>>

TypeOK ==
    /\ manifest \in Objects \cup {Garbage} /\ conf \in Configs \cup {Garbage}
    /\ pc \in [Procs -> {"off", "on", "write", "conf", "confWrite"}]
    /\ objects \in [Procs -> Objects] /\ draft \in [Procs -> Configs]
    /\ changes \in [Procs -> Nat] /\ kills \in Nat
    /\ changed \in BOOLEAN /\ overlap \in BOOLEAN /\ confOverlap \in BOOLEAN

Init ==
    /\ manifest = NoObjects /\ conf = NoConfig
    /\ pc = [p \in Procs |-> "off"]
    /\ objects = [p \in Procs |-> NoObjects] /\ draft = [p \in Procs |-> NoConfig]
    /\ changes = [p \in Procs |-> 0] /\ changed = FALSE
    /\ kills = 0 /\ overlap = FALSE /\ confOverlap = FALSE
-----------------------------------------------------------------------------
Go(p, where) == pc' = [pc EXCEPT ![p] = where]
Others(p)    == Procs \ {p}
Running(S)   == \E q \in S : pc[q] # "off"
InConf(S)    == \E q \in S : pc[q] \in {"conf", "confWrite"}

Change(p) == pc[p] = "on" /\ changes[p] < MaxChanges /\ changes' = [changes EXCEPT ![p] = @ + 1]

(* Mutant: the command starts from nothing.                                  *)
ReadNothing(p) ==
    /\ pc[p] = "off" /\ manifest # Garbage
    /\ Go(p, "on") /\ UNCHANGED objects
    /\ overlap' = (overlap \/ Running(Others(p)))
    /\ UNCHANGED <<files, draft, changes, changed, kills, confOverlap>>

(* `Manifest.Read'.  A file that does not parse ends the command at once.     *)
Read(p) ==
    /\ pc[p] = "off" /\ manifest # Garbage
    /\ Go(p, "on") /\ objects' = [objects EXCEPT ![p] = manifest]
    /\ overlap' = (overlap \/ Running(Others(p)))
    /\ UNCHANGED <<files, draft, changes, changed, kills, confOverlap>>

(* `Manifest.Add'.  It compares Go values, so an object read from the file may   *)
(* differ in its types from an equal one just built.                          *)
Add(p, k, v) ==
    /\ Change(p)
    /\ changed' \in BOOLEAN /\ (objects[p][k] # v => changed')
    /\ objects' = [objects EXCEPT ![p][k] = v]
    /\ IF changed' THEN Go(p, "write") /\ manifest' = NoObjects ELSE UNCHANGED <<pc, manifest>>
    /\ UNCHANGED <<conf, draft, kills, overlap, confOverlap>>

(* `Manifest.Remove' writes whether or not the object was there.               *)
Remove(p, k) ==
    /\ Change(p)
    /\ objects' = [objects EXCEPT ![p][k] = None]
    /\ changed' = TRUE
    /\ Go(p, "write") /\ manifest' = NoObjects
    /\ UNCHANGED <<conf, draft, kills, overlap, confOverlap>>

(* What is in the file when a process writes `new': if another one has written   *)
(* since it truncated the file, the end of that may stick out.                *)
Written(old, empty, new) == IF old \in {empty, new} THEN {new} ELSE {new, Garbage}

Write(p) ==
    /\ pc[p] = "write" /\ Go(p, "on")
    /\ manifest' \in Written(manifest, NoObjects, objects[p])
    /\ UNCHANGED <<conf, objects, draft, changes, changed, kills, overlap, confOverlap>>

(* Mutant: the change starts from an empty configuration.                      *)
ReadConfigFresh(p, t, s) ==
    /\ Change(p) /\ conf # Garbage
    /\ Go(p, "conf") /\ draft' = [draft EXCEPT ![p] = [NoConfig EXCEPT ![t] = s]]
    /\ confOverlap' = (confOverlap \/ InConf(Others(p)))
    /\ UNCHANGED <<files, objects, changed, kills, overlap>>

(* `WriteLocalConfig' (s in Specs) and `RemoveFromLocalConfig' (s = None).    *)
ReadConfig(p, t, s) ==
    /\ Change(p) /\ conf # Garbage
    /\ Go(p, "conf") /\ draft' = [draft EXCEPT ![p] = [conf EXCEPT ![t] = s]]
    /\ confOverlap' = (confOverlap \/ InConf(Others(p)))
    /\ UNCHANGED <<files, objects, changed, kills, overlap>>

TruncateConfig(p) ==
    /\ pc[p] = "conf" /\ Go(p, "confWrite")
    /\ conf' = NoConfig
    /\ UNCHANGED <<manifest, objects, draft, changes, changed, kills, overlap, confOverlap>>

WriteConfig(p) ==
    /\ pc[p] = "confWrite" /\ Go(p, "on")
    /\ conf' \in Written(conf, NoConfig, draft[p])
    /\ draft' = [draft EXCEPT ![p] = NoConfig]
    /\ confOverlap' = (confOverlap /\ InConf(Others(p)))
    /\ UNCHANGED <<manifest, objects, changes, changed, kills, overlap>>

(* The command ends, and with it the copies.                                  *)
Leave(p) ==
    /\ Go(p, "off")
    /\ objects' = [objects EXCEPT ![p] = NoObjects] /\ draft' = [draft EXCEPT ![p] = NoConfig]
    /\ changes' = [changes EXCEPT ![p] = 0]
    /\ overlap' = (overlap /\ Running(Others(p)))
    /\ UNCHANGED <<files, changed>>

Exit(p) == pc[p] = "on" /\ Leave(p) /\ UNCHANGED <<kills, confOverlap>>

Kill(p) ==
    /\ pc[p] # "off" /\ kills < MaxKills /\ kills' = kills + 1
    /\ Leave(p) /\ confOverlap' = (confOverlap /\ InConf(Others(p)))

Next == \E p \in Procs :
    \/ Read(p)
    \/ \E k \in Keys : Remove(p, k) \/ \E v \in Values : Add(p, k, v)
    \/ Write(p)
    \/ \E t \in Triggers, s \in Specs \cup {None} : ReadConfig(p, t, s)
    \/ TruncateConfig(p) \/ WriteConfig(p) \/ Exit(p) \/ Kill(p)

Spec == Init /\ [][Next]_vars
-----------------------------------------------------------------------------
(* The refinement mapping: the file as it is or, once truncated, is about to be.  *)
Writers     == {p \in Procs : pc[p] = "write"}
ConfWriters == {p \in Procs : pc[p] = "confWrite"}
Some(S)     == CHOOSE p \in S : TRUE

Held ==
    IF Writers # {} THEN objects[Some(Writers)]
    ELSE IF manifest = Garbage THEN NoObjects ELSE manifest

HeldConf ==
    IF ConfWriters # {} THEN draft[Some(ConfWriters)]
    ELSE IF conf = Garbage THEN NoConfig ELSE conf

ManifestStore == INSTANCE KeyedStore
    WITH store <- Held, answer <- changed, NoAnswer <- None, Absent <- None, calm <- ~overlap, crashes <- kills
ConfigStore == INSTANCE KeyedStore
    WITH Keys <- Triggers, Values <- Specs, store <- HeldConf, answer <- None, NoAnswer <- None, Absent <- None,
         calm <- ~confOverlap, crashes <- kills

(* As long as one command runs at a time, the manifest is a keyed store whose Add    *)
(* reports every change it makes, and only a kill can empty it.               *)
ManifestIsStore == ManifestStore!Spec

(* So is broker.conf as long as no two changes of it overlap; commands may.       *)
ConfigIsStore   == ConfigStore!Spec
=============================================================================

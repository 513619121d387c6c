----------------------------- MODULE FilesProofs -----------------------------
(***************************************************************************)
(* The two files of a broker's directory implement KeyedStore, for any number *)
(* of processes, objects and triggers; and the processes of Files, which     *)
(* fetch any release first, keep that and what CrdCache promises on its own.  *)
(***************************************************************************)
EXTENDS Files, TLAPS

LEMMA SomeMember == ASSUME NEW S, S # {} PROVE Some(S) \in S
BY DEF Some

LEMMA NoFilesType == NoObjects \in Objects /\ NoConfig \in Configs
BY DEF NoObjects, NoConfig, Objects, Configs

LEMMA EditType ==
    /\ \A o \in Objects, k \in Keys, v \in Values \cup {None} : [o EXCEPT ![k] = v] \in Objects
    /\ \A c \in Configs, t \in Triggers, s \in Specs \cup {None} : [c EXCEPT ![t] = s] \in Configs
BY DEF Objects, Configs

(* The steps of a process, one by one.                                        *)
Step(p) ==
    \/ Read(p)
    \/ \E k \in Keys : Remove(p, k)
    \/ \E k \in Keys, v \in Values : Add(p, k, v)
    \/ Write(p)
    \/ \E t \in Triggers, s \in Specs \cup {None} : ReadConfig(p, t, s)
    \/ TruncateConfig(p) \/ WriteConfig(p) \/ Exit(p) \/ Kill(p)

LEMMA NextSteps == Next => \E p \in Procs : Step(p)
BY DEF Next, Step
-----------------------------------------------------------------------------
LEMMA InitType == Init => TypeOK
<1> SUFFICES ASSUME Init PROVE TypeOK
  OBVIOUS
<1>1. changed \in BOOLEAN /\ overlap \in BOOLEAN /\ confOverlap \in BOOLEAN
  BY DEF Init
<1>2. /\ pc \in [Procs -> {"off", "on", "write", "conf", "confWrite"}]
      /\ objects \in [Procs -> Objects] /\ draft \in [Procs -> Configs]
      /\ changes \in [Procs -> Nat] /\ kills \in Nat
  BY NoFilesType DEF Init
<1>3. manifest \in Objects \cup {Garbage} /\ conf \in Configs \cup {Garbage}
  BY NoFilesType DEF Init
<1> QED BY <1>1, <1>2, <1>3 DEF TypeOK

LEMMA LeaveType ==
    ASSUME TypeOK, NEW p \in Procs, Leave(p), kills' \in Nat, confOverlap' \in BOOLEAN
    PROVE  TypeOK'
BY NoFilesType DEF TypeOK, Leave, Go, files, Running, Others

LEMMA StepType ==
    ASSUME TypeOK, NEW p \in Procs, Step(p)
    PROVE  TypeOK'
<1>1. CASE Read(p)
  BY <1>1 DEF TypeOK, Read, Go, files, Running, Others
<1>2. ASSUME NEW k \in Keys, Remove(p, k) PROVE TypeOK'
  <2>1. objects' \in [Procs -> Objects]
    BY <1>2, EditType DEF TypeOK, Remove
  <2> QED BY <1>2, <2>1, NoFilesType DEF TypeOK, Remove, Change, Go
<1>3. ASSUME NEW k \in Keys, NEW v \in Values, Add(p, k, v) PROVE TypeOK'
  <2>1. objects' \in [Procs -> Objects]
    BY <1>3, EditType DEF TypeOK, Add
  <2> QED BY <1>3, <2>1, NoFilesType DEF TypeOK, Add, Change, Go
<1>4. CASE Write(p)
  BY <1>4 DEF TypeOK, Write, Written, Go
<1>5. ASSUME NEW t \in Triggers, NEW s \in Specs \cup {None}, ReadConfig(p, t, s) PROVE TypeOK'
  <2>1. draft' \in [Procs -> Configs]
    BY <1>5, EditType DEF TypeOK, ReadConfig
  <2> QED BY <1>5, <2>1 DEF TypeOK, ReadConfig, Change, Go, files, InConf, Others
<1>6. CASE TruncateConfig(p)
  BY <1>6, NoFilesType DEF TypeOK, TruncateConfig, Go
<1>7. CASE WriteConfig(p)
  BY <1>7, NoFilesType DEF TypeOK, WriteConfig, Written, Go, InConf, Others
<1>8. CASE Exit(p)
  BY <1>8, LeaveType DEF TypeOK, Exit
<1>9. CASE Kill(p)
  BY <1>9, LeaveType DEF TypeOK, Kill, InConf, Others
<1> QED
  BY <1>1, <1>2, <1>3, <1>4, <1>5, <1>6, <1>7, <1>8, <1>9 DEF Step

(* The variables keep their types, for any number of processes.                 *)
THEOREM TypeCorrect == Spec => []TypeOK
<1>1. TypeOK /\ [Next]_vars => TypeOK'
  <2>1. ASSUME TypeOK, UNCHANGED vars PROVE TypeOK'
    BY <2>1 DEF TypeOK, vars, files
  <2> QED BY <2>1, StepType, NextSteps
<1> QED
  BY <1>1, InitType, PTL DEF Spec
-----------------------------------------------------------------------------
(* As long as nobody else has come, a process has what is in the manifest, or     *)
(* has truncated it.                                                          *)
Alone ==
    ~overlap => \A p \in Procs : pc[p] # "off" =>
        /\ \A q \in Procs : pc[q] # "off" => q = p
        /\ manifest = IF pc[p] = "write" THEN NoObjects ELSE objects[p]

(* So has one that changes broker.conf, of that file.                             *)
ConfAlone ==
    ~confOverlap => \A p \in Procs :
        /\ pc[p] \in {"conf", "confWrite"} =>
               \A q \in Procs : pc[q] \in {"conf", "confWrite"} => q = p
        /\ pc[p] = "conf" =>
               /\ conf # Garbage
               /\ \E t \in Triggers, s \in Specs \cup {None} : draft[p] = [conf EXCEPT ![t] = s]
        /\ pc[p] = "confWrite" => conf = NoConfig

LEMMA InitAlone == Init => Alone /\ ConfAlone
BY DEF Init, Alone, ConfAlone

LEMMA LeaveAlone ==
    ASSUME TypeOK, Alone, NEW p \in Procs, Leave(p)
    PROVE  Alone'
BY DEF TypeOK, Alone, Leave, Go, files, Running, Others

LEMMA StepAlone ==
    ASSUME TypeOK, Alone, NEW p \in Procs, Step(p)
    PROVE  Alone'
<1>1. CASE Read(p)
  BY <1>1 DEF TypeOK, Alone, Read, Go, files, Running, Others
<1>2. ASSUME NEW k \in Keys, Remove(p, k) PROVE Alone'
  BY <1>2 DEF TypeOK, Alone, Remove, Change, Go
<1>3. ASSUME NEW k \in Keys, NEW v \in Values, Add(p, k, v) PROVE Alone'
  <2>1. pc[p] = "on" /\ overlap' = overlap
    BY <1>3 DEF Add, Change
  <2>2. CASE changed'
    BY <1>3, <2>1, <2>2 DEF TypeOK, Alone, Add, Go
  <2>3. CASE ~changed'
    <3>1. objects[p][k] = v
      BY <1>3, <2>3 DEF Add
    <3>2. [objects[p] EXCEPT ![k] = v] = objects[p]
      BY <3>1 DEF TypeOK, Objects
    <3>3. objects' = objects
      BY <1>3, <3>2 DEF TypeOK, Add
    <3> QED BY <1>3, <2>3, <3>3 DEF Alone, Add
  <2> QED BY <2>2, <2>3
<1>4. CASE Write(p)
  BY <1>4 DEF TypeOK, Alone, Write, Written, Go
<1>5. ASSUME NEW t \in Triggers, NEW s \in Specs \cup {None}, ReadConfig(p, t, s) PROVE Alone'
  BY <1>5 DEF TypeOK, Alone, ReadConfig, Change, Go, files
<1>6. CASE TruncateConfig(p)
  BY <1>6 DEF TypeOK, Alone, TruncateConfig, Go
<1>7. CASE WriteConfig(p)
  BY <1>7 DEF TypeOK, Alone, WriteConfig, Go
<1>8. CASE Exit(p)
  BY <1>8, LeaveAlone DEF Exit
<1>9. CASE Kill(p)
  BY <1>9, LeaveAlone DEF Kill
<1> QED
  BY <1>1, <1>2, <1>3, <1>4, <1>5, <1>6, <1>7, <1>8, <1>9 DEF Step

LEMMA OthersConf ==
    ASSUME TypeOK, ConfAlone, NEW p \in Procs, UNCHANGED <<conf, draft>>,
           \A q \in Procs : pc'[q] \in {"conf", "confWrite"} => pc'[q] = pc[q],
           ~confOverlap' => ~confOverlap
    PROVE  ConfAlone'
BY DEF ConfAlone

LEMMA LeaveConfAlone ==
    ASSUME TypeOK, ConfAlone, NEW p \in Procs, Leave(p),
           confOverlap' = (confOverlap /\ InConf(Others(p)))
    PROVE  ConfAlone'
BY DEF TypeOK, ConfAlone, Leave, Go, files, InConf, Others

LEMMA StepConfAlone ==
    ASSUME TypeOK, ConfAlone, NEW p \in Procs, Step(p)
    PROVE  ConfAlone'
<1>1. CASE Read(p)
  BY <1>1, OthersConf DEF TypeOK, Read, Go, files
<1>2. ASSUME NEW k \in Keys, Remove(p, k) PROVE ConfAlone'
  BY <1>2, OthersConf DEF TypeOK, Remove, Go
<1>3. ASSUME NEW k \in Keys, NEW v \in Values, Add(p, k, v) PROVE ConfAlone'
  BY <1>3, OthersConf DEF TypeOK, Add, Go
<1>4. CASE Write(p)
  BY <1>4, OthersConf DEF TypeOK, Write, Go
<1>5. ASSUME NEW t \in Triggers, NEW s \in Specs \cup {None}, ReadConfig(p, t, s)
      PROVE  ConfAlone'
  <2>1. /\ pc' = [pc EXCEPT ![p] = "conf"] /\ draft'[p] = [conf EXCEPT ![t] = s]
        /\ \A q \in Procs : q # p => draft'[q] = draft[q]
        /\ conf' = conf /\ conf # Garbage
        /\ confOverlap' = (confOverlap \/ InConf(Others(p)))
    BY <1>5 DEF TypeOK, ReadConfig, Go, files
  <2>2. SUFFICES ASSUME ~confOverlap' PROVE ConfAlone'
    BY DEF ConfAlone
  <2>3. pc'[p] = "conf" /\ \A q \in Procs : q # p => pc'[q] \notin {"conf", "confWrite"}
    BY <2>1, <2>2 DEF TypeOK, InConf, Others
  <2> QED BY <2>1, <2>3 DEF ConfAlone
<1>6. CASE TruncateConfig(p)
  BY <1>6 DEF TypeOK, ConfAlone, TruncateConfig, Go
<1>7. CASE WriteConfig(p)
  <2>1. /\ pc' = [pc EXCEPT ![p] = "on"]
        /\ \A q \in Procs : q # p => draft'[q] = draft[q]
        /\ confOverlap' = (confOverlap /\ InConf(Others(p)))
    BY <1>7 DEF TypeOK, WriteConfig, Go
  <2>2. SUFFICES ASSUME ~confOverlap' PROVE ConfAlone'
    BY DEF ConfAlone
  <2>3. \A q \in Procs : pc'[q] \notin {"conf", "confWrite"}
    BY <1>7, <2>1, <2>2 DEF TypeOK, ConfAlone, WriteConfig, InConf, Others
  <2> QED BY <2>3 DEF ConfAlone
<1>8. CASE Exit(p)
  <2>1. /\ pc' = [pc EXCEPT ![p] = "off"] /\ conf' = conf
        /\ \A q \in Procs : q # p => draft'[q] = draft[q]
        /\ confOverlap' = confOverlap
    BY <1>8 DEF TypeOK, Exit, Leave, Go, files
  <2> QED BY <2>1 DEF TypeOK, ConfAlone
<1>9. CASE Kill(p)
  BY <1>9, LeaveConfAlone DEF Kill
<1> QED
  BY <1>1, <1>2, <1>3, <1>4, <1>5, <1>6, <1>7, <1>8, <1>9 DEF Step

IInv == TypeOK /\ Alone /\ ConfAlone

LEMMA Invariant == Spec => []IInv
<1>1. Init => IInv
  BY InitType, InitAlone DEF IInv
<1>2. IInv /\ [Next]_vars => IInv'
  <2>1. ASSUME IInv, UNCHANGED vars PROVE IInv'
    BY <2>1 DEF IInv, TypeOK, Alone, ConfAlone, vars, files
  <2> QED BY <2>1, StepType, StepAlone, StepConfAlone, NextSteps DEF IInv
<1> QED
  BY <1>1, <1>2, PTL DEF Spec
-----------------------------------------------------------------------------
(* The refinement of the manifest.                                             *)
LEMMA HeldType == TypeOK => Held \in Objects
<1> SUFFICES ASSUME TypeOK PROVE Held \in Objects
  OBVIOUS
<1>1. CASE Writers # {}
  <2>1. Some(Writers) \in Procs
    BY <1>1, SomeMember DEF Writers
  <2> QED BY <1>1, <2>1 DEF TypeOK, Held
<1>2. CASE Writers = {}
  BY <1>2, NoFilesType DEF TypeOK, Held
<1> QED BY <1>1, <1>2

LEMMA SoleWriter ==
    ASSUME NEW p \in Procs, pc[p] = "write", \A q \in Procs : pc[q] = "write" => q = p
    PROVE  Held = objects[p]
<1>1. Writers = {p}
  BY DEF Writers
<1>2. Some(Writers) = p
  BY <1>1, SomeMember
<1> QED BY <1>1, <1>2 DEF Held

LEMMA SoleWriterNext ==
    ASSUME NEW p \in Procs, pc'[p] = "write", \A q \in Procs : pc'[q] = "write" => q = p
    PROVE  Held' = objects'[p]
<1>1. Writers' = {p}
  BY DEF Writers
<1>2. Some(Writers') = p
  BY <1>1, SomeMember
<1> QED BY <1>1, <1>2 DEF Held

LEMMA NoWriter ==
    ASSUME \A q \in Procs : pc[q] # "write", manifest # Garbage
    PROVE  Held = manifest
BY DEF Held, Writers

LEMMA NoWriterNext ==
    ASSUME \A q \in Procs : pc'[q] # "write", manifest' # Garbage
    PROVE  Held' = manifest'
BY DEF Held, Writers

(* Steps that touch neither the manifest nor a process that writes it.           *)
LEMMA SameHeld ==
    ASSUME NEW p \in Procs, TypeOK, TypeOK', manifest' = manifest,
           pc[p] # "write", pc' = [pc EXCEPT ![p] = pc'[p]], pc'[p] # "write",
           \A q \in Procs : q # p => objects'[q] = objects[q]
    PROVE  Held' = Held
<1>1. Writers' = Writers
  BY DEF TypeOK, Writers
<1>2. CASE Writers = {}
  BY <1>1, <1>2 DEF Held
<1>3. CASE Writers # {}
  <2>1. Some(Writers) \in Writers /\ Some(Writers') = Some(Writers)
    BY <1>1, <1>3, SomeMember
  <2>2. Some(Writers) \in Procs /\ Some(Writers) # p
    BY <2>1 DEF Writers
  <2> QED BY <1>1, <1>3, <2>1, <2>2 DEF Held
<1> QED BY <1>2, <1>3

LEMMA StepRefines ==
    ASSUME IInv, IInv', NEW p \in Procs, Step(p)
    PROVE  [ManifestStore!Next]_ManifestStore!vars
<1>0. TypeOK /\ TypeOK' /\ Alone /\ Alone'
  BY DEF IInv
<1>1. kills' = kills \/ kills' = kills + 1
  BY DEF Step, Read, Remove, Add, Write, ReadConfig, TruncateConfig, WriteConfig, Exit, Kill
<1>2. CASE overlap /\ kills' = kills
  BY <1>2 DEF ManifestStore!Next, ManifestStore!Interfere
<1>3. CASE overlap /\ kills' = kills + 1
  <2>1. changed' \in BOOLEAN \cup {None} /\ (~overlap') \in BOOLEAN
    BY <1>0, Zenon DEF TypeOK
  <2> QED
    BY <1>3, <2>1 DEF ManifestStore!Next, ManifestStore!Crash, ManifestStore!Answers
<1>4. CASE ~overlap
  <2>1. CASE Read(p)
    <3>1. Held' = Held /\ changed' = changed /\ kills' = kills
      BY <1>0, <2>1, SameHeld DEF TypeOK, Read, Go, files
    <3>2. CASE overlap' = overlap
      BY <3>1, <3>2 DEF ManifestStore!vars
    <3>3. CASE overlap' # overlap
      BY <1>0, <3>1, <3>3 DEF TypeOK, ManifestStore!Next, ManifestStore!Company
    <3> QED BY <3>2, <3>3
  <2>2. ASSUME pc[p] = "on"
        PROVE  Held = objects[p] /\ manifest = objects[p]
    BY <1>0, <1>4, <2>2, NoWriter, GarbageAssumption DEF TypeOK, Alone
  <2>3. ASSUME pc' = [pc EXCEPT ![p] = "write"], pc[p] = "on"
        PROVE  Held' = objects'[p]
    <3>1. pc'[p] = "write" /\ \A q \in Procs : pc'[q] = "write" => q = p
      BY <1>0, <1>4, <2>3 DEF TypeOK, Alone
    <3> QED BY <3>1, SoleWriterNext
  <2>4. ASSUME NEW k \in Keys, Remove(p, k) PROVE [ManifestStore!Next]_ManifestStore!vars
    <3>1. Held = objects[p] /\ Held' = objects'[p]
      BY <2>2, <2>3, <2>4 DEF Remove, Change, Go
    <3>2. objects'[p] = [objects[p] EXCEPT ![k] = None] /\ changed' = TRUE
          /\ overlap' = overlap /\ kills' = kills
      BY <1>0, <2>4 DEF TypeOK, Remove
    <3>3. ManifestStore!Change(k, None)
      BY <1>4, <3>1, <3>2 DEF ManifestStore!Change
    <3> QED BY <3>3 DEF ManifestStore!Next
  <2>5. ASSUME NEW k \in Keys, NEW v \in Values, Add(p, k, v)
        PROVE  [ManifestStore!Next]_ManifestStore!vars
    <3>1. objects'[p] = [objects[p] EXCEPT ![k] = v] /\ changed' \in BOOLEAN /\ (objects[p][k] # v => changed')
          /\ overlap' = overlap /\ kills' = kills
      BY <1>0, <2>5 DEF TypeOK, Add
    <3>2. Held = objects[p]
      BY <2>2, <2>5 DEF Add, Change
    <3>3. Held' = objects'[p]
      <4>1. CASE changed'
        BY <2>3, <2>5, <4>1 DEF Add, Change, Go
      <4>2. CASE ~changed'
        <5>1. UNCHANGED <<pc, manifest>> /\ pc[p] = "on"
          BY <2>5, <4>2 DEF Add, Change
        <5>2. [objects[p] EXCEPT ![k] = v] = objects[p]
          BY <1>0, <3>1, <4>2 DEF TypeOK, Objects
        <5>3. Held' = manifest'
          BY <1>0, <1>4, <2>2, <5>1, NoWriterNext, GarbageAssumption DEF TypeOK, Alone
        <5> QED BY <2>2, <3>1, <5>1, <5>2, <5>3
      <4> QED BY <4>1, <4>2
    <3>4. v # None
      BY NoneAssumption
    <3>5. changed' = TRUE \/ (changed' = FALSE /\ Held[k] = v)
      BY <3>1, <3>2
    <3>6. Held' = [Held EXCEPT ![k] = v] /\ (~overlap') = (~overlap)
      BY <3>1, <3>2, <3>3
    <3>7. ManifestStore!Change(k, v)
      BY <1>4, <3>1, <3>4, <3>5, <3>6, Zenon DEF ManifestStore!Change
    <3> QED BY <3>7 DEF ManifestStore!Next
  <2>6. CASE Write(p)
    <3>1. Held = objects[p]
      BY <1>0, <1>4, <2>6, SoleWriter DEF Alone, Write
    <3>2. manifest' = objects[p] /\ manifest' # Garbage
      BY <1>0, <1>4, <2>6, GarbageAssumption DEF TypeOK, Alone, Write, Written
    <3>3. \A q \in Procs : pc'[q] # "write"
      BY <1>0, <1>4, <2>6 DEF TypeOK, Alone, Write, Go
    <3>4. Held' = Held
      BY <3>1, <3>2, <3>3, NoWriterNext
    <3> QED BY <2>6, <3>4 DEF Write, ManifestStore!vars
  <2>7. ASSUME NEW t \in Triggers, NEW s \in Specs \cup {None}, ReadConfig(p, t, s)
        PROVE  [ManifestStore!Next]_ManifestStore!vars
    BY <1>0, <2>7, SameHeld DEF TypeOK, ReadConfig, Change, Go, files, ManifestStore!vars
  <2>8. CASE TruncateConfig(p)
    BY <1>0, <2>8, SameHeld DEF TypeOK, TruncateConfig, Go, ManifestStore!vars
  <2>9. CASE WriteConfig(p)
    BY <1>0, <2>9, SameHeld DEF TypeOK, WriteConfig, Go, ManifestStore!vars
  <2>10. ASSUME Leave(p) PROVE ~overlap' /\ changed' = changed
    BY <1>4, <2>10 DEF Leave
  <2>11. ASSUME Leave(p), pc[p] # "write" PROVE Held' = Held
    BY <1>0, <2>11, SameHeld DEF TypeOK, Leave, Go, files
  <2>12. CASE Exit(p)
    BY <1>4, <2>10, <2>11, <2>12 DEF Exit, ManifestStore!vars
  <2>13. CASE Kill(p)
    <3>1. Held' \in {Held, NoObjects}
      <4>1. CASE pc[p] = "write"
        <5>1. manifest' = NoObjects /\ \A q \in Procs : pc'[q] # "write"
          BY <1>0, <1>4, <2>13, <4>1 DEF TypeOK, Alone, Kill, Leave, Go, files
        <5> QED BY <5>1, NoWriterNext, NoFilesType, GarbageAssumption
      <4>2. CASE pc[p] # "write"
        BY <2>11, <2>13, <4>2 DEF Kill
      <4> QED BY <4>1, <4>2
    <3>2. changed' \in BOOLEAN \cup {None} /\ (~overlap') \in BOOLEAN
      BY <1>0, Zenon DEF TypeOK
    <3> QED
      BY <2>13, <3>1, <3>2 DEF Kill, NoObjects, ManifestStore!Next, ManifestStore!Crash,
         ManifestStore!Answers, ManifestStore!Nothing
  <2> QED
    BY <2>1, <2>4, <2>5, <2>6, <2>7, <2>8, <2>9, <2>12, <2>13 DEF Step
<1> QED
  BY <1>1, <1>2, <1>3, <1>4

(* With one command at a time the manifest is the keyed store it is taken for,    *)
(* whatever the number of commands, objects and changes.                      *)
THEOREM ManifestRefines == Spec => ManifestIsStore
<1>1. Init => ManifestStore!Init
  <2> SUFFICES ASSUME Init PROVE ManifestStore!Init
    OBVIOUS
  <2>1. Held \in Objects /\ changed \in BOOLEAN
    BY InitType, HeldType DEF Init
  <2> QED
    BY <2>1 DEF Init, Objects, ManifestStore!Init, ManifestStore!Stores, ManifestStore!Answers
<1>2. ASSUME IInv, IInv', [Next]_vars
      PROVE  [ManifestStore!Next]_ManifestStore!vars
  <2>1. CASE UNCHANGED vars
    BY <2>1 DEF vars, files, ManifestStore!vars, Held, Writers
  <2> QED BY <1>2, <2>1, StepRefines, NextSteps
<1> QED
  BY <1>1, <1>2, Invariant, PTL DEF Spec, ManifestIsStore, ManifestStore!Spec
-----------------------------------------------------------------------------
(* The refinement of broker.conf.                                              *)
LEMMA HeldConfType == TypeOK => HeldConf \in Configs
<1> SUFFICES ASSUME TypeOK PROVE HeldConf \in Configs
  OBVIOUS
<1>1. CASE ConfWriters # {}
  <2>1. Some(ConfWriters) \in Procs
    BY <1>1, SomeMember DEF ConfWriters
  <2> QED BY <1>1, <2>1 DEF TypeOK, HeldConf
<1>2. CASE ConfWriters = {}
  BY <1>2, NoFilesType DEF TypeOK, HeldConf
<1> QED BY <1>1, <1>2

LEMMA SoleConfWriter ==
    ASSUME NEW p \in Procs, pc[p] = "confWrite", \A q \in Procs : pc[q] = "confWrite" => q = p
    PROVE  HeldConf = draft[p]
<1>1. ConfWriters = {p}
  BY DEF ConfWriters
<1>2. Some(ConfWriters) = p
  BY <1>1, SomeMember
<1> QED BY <1>1, <1>2 DEF HeldConf

LEMMA SoleConfWriterNext ==
    ASSUME NEW p \in Procs, pc'[p] = "confWrite", \A q \in Procs : pc'[q] = "confWrite" => q = p
    PROVE  HeldConf' = draft'[p]
<1>1. ConfWriters' = {p}
  BY DEF ConfWriters
<1>2. Some(ConfWriters') = p
  BY <1>1, SomeMember
<1> QED BY <1>1, <1>2 DEF HeldConf

LEMMA NoConfWriter ==
    ASSUME \A q \in Procs : pc[q] # "confWrite", conf # Garbage
    PROVE  HeldConf = conf
BY DEF HeldConf, ConfWriters

LEMMA NoConfWriterNext ==
    ASSUME \A q \in Procs : pc'[q] # "confWrite", conf' # Garbage
    PROVE  HeldConf' = conf'
BY DEF HeldConf, ConfWriters

(* Steps that touch neither broker.conf nor a process that writes it.            *)
LEMMA SameHeldConf ==
    ASSUME NEW p \in Procs, TypeOK, TypeOK', conf' = conf,
           pc[p] # "confWrite", pc' = [pc EXCEPT ![p] = pc'[p]], pc'[p] # "confWrite",
           \A q \in Procs : q # p => draft'[q] = draft[q]
    PROVE  HeldConf' = HeldConf
<1>1. ConfWriters' = ConfWriters
  BY DEF TypeOK, ConfWriters
<1>2. CASE ConfWriters = {}
  BY <1>1, <1>2 DEF HeldConf
<1>3. CASE ConfWriters # {}
  <2>1. Some(ConfWriters) \in ConfWriters /\ Some(ConfWriters') = Some(ConfWriters)
    BY <1>1, <1>3, SomeMember
  <2>2. Some(ConfWriters) \in Procs /\ Some(ConfWriters) # p
    BY <2>1 DEF ConfWriters
  <2> QED BY <1>1, <1>3, <2>1, <2>2 DEF HeldConf
<1> QED BY <1>2, <1>3

LEMMA StepRefinesConf ==
    ASSUME IInv, IInv', NEW p \in Procs, Step(p)
    PROVE  [ConfigStore!Next]_ConfigStore!vars
<1>0. TypeOK /\ TypeOK' /\ ConfAlone /\ ConfAlone'
  BY DEF IInv
<1>1. kills' = kills \/ kills' = kills + 1
  BY DEF Step, Read, Remove, Add, Write, ReadConfig, TruncateConfig, WriteConfig, Exit, Kill
<1>2. CASE confOverlap /\ kills' = kills
  BY <1>2 DEF ConfigStore!Next, ConfigStore!Interfere
<1>3. CASE confOverlap /\ kills' = kills + 1
  <2>1. (~confOverlap') \in BOOLEAN
    BY <1>0, Zenon DEF TypeOK
  <2> QED
    BY <1>3, <2>1 DEF ConfigStore!Next, ConfigStore!Crash, ConfigStore!Answers
<1>4. CASE ~confOverlap
  <2>1. CASE Read(p)
    BY <1>0, <2>1, SameHeldConf DEF TypeOK, Read, Go, files, ConfigStore!vars
  <2>2. ASSUME NEW k \in Keys, Remove(p, k) PROVE [ConfigStore!Next]_ConfigStore!vars
    BY <1>0, <2>2, SameHeldConf DEF TypeOK, Remove, Change, Go, ConfigStore!vars
  <2>3. ASSUME NEW k \in Keys, NEW v \in Values, Add(p, k, v)
        PROVE  [ConfigStore!Next]_ConfigStore!vars
    BY <1>0, <2>3, SameHeldConf DEF TypeOK, Add, Change, Go, ConfigStore!vars
  <2>4. CASE Write(p)
    BY <1>0, <2>4, SameHeldConf DEF TypeOK, Write, Go, ConfigStore!vars
  <2>5. ASSUME NEW t \in Triggers, NEW s \in Specs \cup {None}, ReadConfig(p, t, s)
        PROVE  [ConfigStore!Next]_ConfigStore!vars
    <3>1. HeldConf' = HeldConf /\ kills' = kills
      BY <1>0, <2>5, SameHeldConf DEF TypeOK, ReadConfig, Change, Go, files
    <3>2. CASE confOverlap' = confOverlap
      BY <3>1, <3>2 DEF ConfigStore!vars
    <3>3. CASE confOverlap' # confOverlap
      BY <1>0, <3>1, <3>3 DEF TypeOK, ConfigStore!Next, ConfigStore!Company
    <3> QED BY <3>2, <3>3
  <2>6. CASE TruncateConfig(p)
    <3>1. /\ pc[p] = "conf" /\ conf # Garbage
          /\ \A q \in Procs : pc[q] # "confWrite"
      BY <1>0, <1>4, <2>6 DEF ConfAlone, TruncateConfig
    <3>2. HeldConf = conf
      BY <3>1, NoConfWriter
    <3>3. pc'[p] = "confWrite" /\ \A q \in Procs : pc'[q] = "confWrite" => q = p
      BY <1>0, <2>6, <3>1 DEF TypeOK, TruncateConfig, Go
    <3>4. HeldConf' = draft[p] /\ confOverlap' = confOverlap /\ kills' = kills
      BY <2>6, <3>3, SoleConfWriterNext DEF TruncateConfig
    <3>5. PICK t \in Triggers, s \in Specs \cup {None} : draft[p] = [conf EXCEPT ![t] = s]
      BY <1>0, <1>4, <3>1 DEF ConfAlone
    <3>6. ConfigStore!Change(t, s)
      BY <1>4, <3>2, <3>4, <3>5 DEF ConfigStore!Change
    <3> QED BY <3>6 DEF ConfigStore!Next
  <2>7. CASE WriteConfig(p)
    <3>1. /\ pc[p] = "confWrite" /\ conf = NoConfig
          /\ \A q \in Procs : pc[q] = "confWrite" => q = p
      BY <1>0, <1>4, <2>7 DEF ConfAlone, WriteConfig
    <3>2. HeldConf = draft[p]
      BY <3>1, SoleConfWriter
    <3>3. conf' = draft[p] /\ conf' # Garbage
      BY <1>0, <2>7, <3>1, GarbageAssumption DEF TypeOK, WriteConfig, Written
    <3>4. \A q \in Procs : pc'[q] # "confWrite"
      BY <1>0, <2>7, <3>1 DEF TypeOK, WriteConfig, Go
    <3>5. HeldConf' = HeldConf
      BY <3>2, <3>3, <3>4, NoConfWriterNext
    <3>6. confOverlap' = confOverlap /\ kills' = kills
      BY <1>0, <1>4, <2>7 DEF TypeOK, WriteConfig
    <3> QED BY <3>5, <3>6 DEF ConfigStore!vars
  <2>8. ASSUME Leave(p), pc[p] # "confWrite" PROVE HeldConf' = HeldConf
    BY <1>0, <2>8, SameHeldConf DEF TypeOK, Leave, Go, files
  <2>9. CASE Exit(p)
    BY <1>4, <2>8, <2>9 DEF Exit, ConfigStore!vars
  <2>10. CASE Kill(p)
    <3>1. HeldConf' \in {HeldConf, NoConfig}
      <4>1. CASE pc[p] = "confWrite"
        <5>1. conf' = NoConfig /\ \A q \in Procs : pc'[q] # "confWrite"
          BY <1>0, <1>4, <2>10, <4>1 DEF TypeOK, ConfAlone, Kill, Leave, Go, files
        <5> QED BY <5>1, NoConfWriterNext, NoFilesType, GarbageAssumption
      <4>2. CASE pc[p] # "confWrite"
        BY <2>8, <2>10, <4>2 DEF Kill
      <4> QED BY <4>1, <4>2
    <3>2. (~confOverlap') \in BOOLEAN
      BY <1>0, Zenon DEF TypeOK
    <3> QED
      BY <2>10, <3>1, <3>2 DEF Kill, NoConfig, ConfigStore!Next, ConfigStore!Crash,
         ConfigStore!Answers, ConfigStore!Nothing
  <2> QED
    BY <2>1, <2>2, <2>3, <2>4, <2>5, <2>6, <2>7, <2>9, <2>10 DEF Step
<1> QED
  BY <1>1, <1>2, <1>3, <1>4

(* So is broker.conf as long as its changes do not overlap, whatever the number    *)
(* of commands and triggers.                                                  *)
THEOREM ConfigRefines == Spec => ConfigIsStore
<1>1. Init => ConfigStore!Init
  <2> SUFFICES ASSUME Init PROVE ConfigStore!Init
    OBVIOUS
  <2>1. HeldConf \in Configs
    BY InitType, HeldConfType
  <2> QED
    BY <2>1 DEF Init, Configs, ConfigStore!Init, ConfigStore!Stores, ConfigStore!Answers
<1>2. ASSUME IInv, IInv', [Next]_vars
      PROVE  [ConfigStore!Next]_ConfigStore!vars
  <2>1. CASE UNCHANGED vars
    BY <2>1 DEF vars, files, ConfigStore!vars, HeldConf, ConfWriters
  <2> QED BY <1>2, <2>1, StepRefinesConf, NextSteps
<1> QED
  BY <1>1, <1>2, Invariant, PTL DEF Spec, ConfigIsStore, ConfigStore!Spec
-----------------------------------------------------------------------------
(* The composition.                                                           *)

(* A process fetches, or takes a step of its command, or leaves.              *)
FilesStep(p) ==
    \/ Fetch(p)
    \/ Command(p) /\ UNCHANGED crdVars
    \/ (Exit(p) \/ Kill(p)) /\ Crd!Again(p)

CrdStep(p) ==
    \/ Crd!Stat(p) \/ Crd!Create(p) \/ Crd!Get(p) \/ Crd!Copy(p) \/ Crd!CopyEnds(p)
    \/ Crd!Parse(p) \/ Crd!Again(p) \/ Crd!Kill(p)

LEMMA FilesNextSteps == FilesNext => \E p \in Procs : FilesStep(p)
BY DEF FilesNext, FilesStep

(* A step of Files is one of each component, or leaves it alone.              *)
LEMMA StepIsLocal == ASSUME NEW p \in Procs, FilesStep(p) PROVE [Next]_vars
<1>1. CASE Fetch(p)
  BY <1>1 DEF Fetch
<1>2. CASE Command(p) /\ UNCHANGED crdVars
  BY <1>2 DEF Command, Next
<1>3. CASE (Exit(p) \/ Kill(p)) /\ Crd!Again(p)
  BY <1>3 DEF Next
<1> QED BY <1>1, <1>2, <1>3 DEF FilesStep

LEMMA StepIsCrd == ASSUME NEW p \in Procs, FilesStep(p) PROVE CrdStep(p) \/ UNCHANGED crdVars
BY DEF FilesStep, CrdStep, Fetch

(* The composition keeps every promise of LocalFiles.                         *)
LEMMA IsLocal == FilesSpec => Spec
<1>1. FilesInit => Init
  BY DEF FilesInit
<1>2. [FilesNext]_allVars => [Next]_vars
  BY FilesNextSteps, StepIsLocal DEF allVars
<1> QED BY <1>1, <1>2, PTL DEF FilesSpec, Spec
-----------------------------------------------------------------------------
(* A process writes only a file that it has created ...                       *)
Writing(p) == step[p] \in {"get", "copy"}
Opened == \A p \in Procs : Writing(p) => file # None

(* ... and, unless something fails, what is missing in it some process will      *)
(* still write.                                                              *)
NoFailures == Crd!counts = <<0, 0, 0>>
Covered ==
    NoFailures =>
        /\ \A p \in Procs : step[p] = "get" => pos[p] = 0
        /\ file # None => \A d \in Crd!Release : d \in file \/ \E p \in Procs : Writing(p) /\ pos[p] < d

CrdInv == Crd!TypeOK /\ Opened /\ Covered

LEMMA InitCrd == FilesInit => CrdInv
BY DocsAssumption DEF FilesInit, CrdInv, Crd!Init, Crd!TypeOK, Opened, Writing, Covered

LEMMA CrdType == ASSUME CrdInv, NEW p \in Procs, CrdStep(p) PROVE Crd!TypeOK'
<1> USE DEF CrdInv, Crd!TypeOK, Crd!Go, Crd!Return, Crd!counts
<1>1. CASE Crd!Stat(p)
  BY <1>1 DEF Crd!Stat
<1>2. CASE Crd!Create(p)
  BY <1>2, DocsAssumption DEF Crd!Create
<1>3. CASE Crd!Get(p)
  BY <1>3 DEF Crd!Get
<1>4. CASE Crd!Copy(p)
  <2>1. pos[p] + 1 \in Crd!Release /\ pos[p] + 1 \in 0 .. Docs
    BY <1>4, DocsAssumption DEF Crd!Copy, Crd!Release
  <2>2. file \in SUBSET Crd!Release
    BY <1>4 DEF Crd!Copy, Opened, Writing
  <2> QED BY <1>4, <2>1, <2>2 DEF Crd!Copy
<1>5. CASE Crd!CopyEnds(p)
  BY <1>5 DEF Crd!CopyEnds
<1>6. CASE Crd!Parse(p)
  BY <1>6, DocsAssumption DEF Crd!Parse, Crd!Release
<1>7. CASE Crd!Again(p)
  BY <1>7, DocsAssumption DEF Crd!Again
<1>8. CASE Crd!Kill(p)
  BY <1>8 DEF Crd!Kill
<1> QED BY <1>1, <1>2, <1>3, <1>4, <1>5, <1>6, <1>7, <1>8 DEF CrdStep

LEMMA CrdOpened == ASSUME CrdInv, NEW p \in Procs, CrdStep(p) PROVE Opened'
<1> USE DEF CrdInv, Crd!TypeOK, Opened, Writing, Crd!Go, Crd!Return
<1>1. CASE Crd!Stat(p)
  BY <1>1 DEF Crd!Stat
<1>2. CASE Crd!Create(p)
  BY <1>2, DocsAssumption DEF Crd!Create
<1>3. CASE Crd!Get(p)
  BY <1>3 DEF Crd!Get
<1>4. CASE Crd!Copy(p)
  <2>1. pos[p] + 1 \in Crd!Release
    BY <1>4, DocsAssumption DEF Crd!Copy, Crd!Release
  <2>2. file \in SUBSET Crd!Release
    BY <1>4 DEF Crd!Copy
  <2> QED BY <1>4, <2>1, <2>2, DocsAssumption DEF Crd!Copy, Crd!Release
<1>5. CASE Crd!CopyEnds(p)
  BY <1>5 DEF Crd!CopyEnds
<1>6. CASE Crd!Parse(p)
  BY <1>6 DEF Crd!Parse
<1>7. CASE Crd!Again(p)
  BY <1>7 DEF Crd!Again
<1>8. CASE Crd!Kill(p)
  BY <1>8 DEF Crd!Kill
<1> QED BY <1>1, <1>2, <1>3, <1>4, <1>5, <1>6, <1>7, <1>8 DEF CrdStep

(* Failures are only counted up.                                              *)
LEMMA StillNoFailures ==
    ASSUME CrdInv, NEW p \in Procs, CrdStep(p), NoFailures'
    PROVE  NoFailures /\ UNCHANGED <<failures, breaks, crdKills>>
BY DEF CrdInv, Crd!TypeOK, CrdStep, NoFailures, Crd!counts, Crd!Stat, Crd!Create, Crd!Get, Crd!Copy,
       Crd!CopyEnds, Crd!Parse, Crd!Again, Crd!Kill

LEMMA CrdCovered == ASSUME CrdInv, NEW p \in Procs, CrdStep(p) PROVE Covered'
<1> SUFFICES ASSUME NoFailures' PROVE Covered'
  BY DEF Covered
<1>0. NoFailures /\ UNCHANGED <<failures, breaks, crdKills>>
  BY StillNoFailures
<1> USE DEF CrdInv, Crd!TypeOK, Opened, Covered, Writing, Crd!Go, Crd!Return
<1>1. CASE Crd!Stat(p)
  BY <1>0, <1>1 DEF Crd!Stat
<1>2. CASE Crd!Create(p)
  BY <1>0, <1>2 DEF Crd!Create, Crd!Release
<1>3. CASE Crd!Get(p)
  BY <1>0, <1>3 DEF Crd!Get
<1>4. CASE Crd!Copy(p)
  <2>1. \A q \in Procs : step'[q] = "get" => pos'[q] = 0
    BY <1>0, <1>4 DEF Crd!Copy
  <2>2. file # None /\ file' = file \cup {pos[p] + 1} /\ pos' = [pos EXCEPT ![p] = @ + 1]
    BY <1>4 DEF Crd!Copy
  <2>3. ASSUME NEW d \in Crd!Release
        PROVE  d \in file' \/ \E q \in Procs : step'[q] \in {"get", "copy"} /\ pos'[q] < d
    <3>1. CASE d \in file
      BY <2>2, <3>1
    <3>2. CASE d \notin file
      <4>1. PICK q \in Procs : Writing(q) /\ pos[q] < d
        BY <1>0, <2>2, <3>2
      <4>2. CASE q # p
        BY <1>4, <2>2, <4>1, <4>2 DEF Crd!Copy
      <4>3. CASE q = p /\ d = pos[p] + 1
        BY <2>2, <4>3
      <4>4. CASE q = p /\ d # pos[p] + 1
        <5>1. pos'[p] = pos[p] + 1 /\ pos[p] \in Nat /\ d \in Nat
          BY <2>2, DocsAssumption DEF Crd!Release
        <5>2. pos'[p] < d
          BY <4>1, <4>4, <5>1
        <5> QED BY <1>4, <5>2 DEF Crd!Copy
      <4> QED BY <4>2, <4>3, <4>4
    <3> QED BY <3>1, <3>2
  <2> QED BY <2>1, <2>3
<1>5. CASE Crd!CopyEnds(p)
  <2>1. step[p] = "copy" /\ pos[p] = Docs
    BY <1>0, <1>5 DEF Crd!CopyEnds
  <2>2. step' = [step EXCEPT ![p] = "parse"] /\ UNCHANGED <<file, pos>>
    BY <1>0, <1>5 DEF Crd!CopyEnds
  <2>3. \A d \in Crd!Release : ~(pos[p] < d)
    BY <2>1, DocsAssumption DEF Crd!Release
  <2> QED BY <1>0, <2>1, <2>2, <2>3
<1>6. CASE Crd!Parse(p)
  BY <1>0, <1>6 DEF Crd!Parse
<1>7. CASE Crd!Again(p)
  BY <1>0, <1>7 DEF Crd!Again
<1>8. CASE Crd!Kill(p)
  BY <1>0, <1>8 DEF Crd!Kill
<1> QED BY <1>1, <1>2, <1>3, <1>4, <1>5, <1>6, <1>7, <1>8 DEF CrdStep

LEMMA CrdInvariant == FilesSpec => []CrdInv
<1>1. CrdInv /\ [FilesNext]_allVars => CrdInv'
  <2> SUFFICES ASSUME CrdInv, [FilesNext]_allVars PROVE CrdInv'
    OBVIOUS
  <2>1. CASE UNCHANGED crdVars
    BY <2>1 DEF crdVars, CrdInv, Crd!TypeOK, Opened, Covered, Writing, NoFailures, Crd!counts
  <2>2. ASSUME NEW p \in Procs, CrdStep(p) PROVE CrdInv'
    BY <2>2, CrdType, CrdOpened, CrdCovered DEF CrdInv
  <2> QED BY <2>1, <2>2, FilesNextSteps, StepIsCrd DEF allVars
<1> QED BY <1>1, InitCrd, PTL DEF FilesSpec
-----------------------------------------------------------------------------
(* The variables of all files and processes keep their types.                 *)
THEOREM FilesTypeCorrect == FilesSpec => []FilesTypeOK
<1>1. TypeOK /\ CrdInv => FilesTypeOK
  BY DEF CrdInv, FilesTypeOK
<1> QED BY <1>1, IsLocal, TypeCorrect, CrdInvariant, PTL

(* Processes that download crd.yaml at the same time leave it whole unless       *)
(* something fails, whatever their number and that of the release's documents.  *)
THEOREM CachedRelease == FilesSpec => []CacheWhole
<1>1. CrdInv => CacheWhole
  <2> SUFFICES ASSUME CrdInv, NoFailures, \A p \in Procs : step[p] \notin {"get", "copy"}, file # None
               PROVE  file = Crd!Release
    BY DEF CacheWhole, Crd!CacheWhole, NoFailures
  <2>1. file \in SUBSET Crd!Release
    BY DEF CrdInv, Crd!TypeOK
  <2> QED BY <2>1 DEF CrdInv, Covered, Writing
<1> QED BY <1>1, CrdInvariant, PTL

(* Processes that fetch first keep manifest.yaml the keyed store that KeyedStore   *)
(* describes ...                                                             *)
THEOREM FilesManifest == FilesSpec => ManifestIsStore
BY IsLocal, ManifestRefines, PTL

(* ... and broker.conf.                                                       *)
THEOREM FilesConfig == FilesSpec => ConfigIsStore
BY IsLocal, ConfigRefines, PTL
=============================================================================

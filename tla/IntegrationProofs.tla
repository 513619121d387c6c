-------------------------- MODULE IntegrationProofs --------------------------
(* Type correctness and the agreement of the two trigger stores, for every  *)
(* set of names, types and ports and every bound.                            *)
EXTENDS IntegrationProperties, FiniteSetTheorems, TLAPS

-----------------------------------------------------------------------------
(* Typing of the operators.                                                  *)

LEMMA NoCommandType == NoCommand \in Commands
BY DEF NoCommand, Commands

(* A generated trigger name, and the numbered names of `--name', are names:  *)
(* the number stays within the number of event types.                        *)
LEMMA NewNameType ==
    ASSUME TypeOK, CommandOK, phase = "types", NEW f \in types
    PROVE  NewName(f) \in TriggerNames
<1>1. cmd.comp \in Consumers /\ cmd \in Commands /\ f \in Filters /\ types \subseteq Filters
  BY DEF TypeOK, CommandOK
<1>2. CASE cmd.name = None
  BY <1>1, <1>2 DEF NewName, TriggerNames
<1>n. cmd.name \in UserNames \/ cmd.name = None
  BY <1>1 DEF Commands
<1>c. Cardinality(Types) \in Nat
  BY SetsAssumption, FS_CardinalityType
<1>3. CASE cmd.name # None /\ f = NoFilter
  <2>1. 0 \in 0 .. Cardinality(Types)
    BY <1>c
  <2>. QED BY <1>3, <1>n, <2>1 DEF NewName, TriggerNames
<1>4. CASE cmd.name # None /\ f # NoFilter
  <2>1. types \subseteq cmd.types /\ cmd.types \subseteq Types
    BY <1>1, <1>4 DEF CommandOK, Commands
  <2>2. IsFiniteSet(cmd.types) /\ IsFiniteSet(types)
    BY <2>1, SetsAssumption, FS_Subset
  <2>3. Cardinality(types) <= Cardinality(cmd.types)
        /\ Cardinality(cmd.types) <= Cardinality(Types)
    BY <2>1, <2>2, SetsAssumption, FS_Subset
  <2>4. Cardinality(types) \in Nat /\ Cardinality(cmd.types) \in Nat
        /\ Cardinality(types) # 0
    BY <2>2, FS_CardinalityType, FS_EmptySet
  <2>5. Cardinality(cmd.types) - Cardinality(types) + 1 \in 0 .. Cardinality(Types)
    BY <2>3, <2>4, <1>c
  <2>. QED BY <1>4, <1>n, <2>5 DEF NewName, TriggerNames
<1>. QED BY <1>2, <1>3, <1>4

(* What Start leaves behind, whether it returns or breaks off.               *)
LEMMA StartType ==
    ASSUME TypeOK, NEW c \in Containers, NEW again \in BOOLEAN,
           StartContainer(c, again) \/ StartBroken(c, again)
    PROVE  docker' \in [Containers -> DockerState \cup {None}]
<1>1. docker \in [Containers -> DockerState \cup {None}]
  BY DEF TypeOK
<1>2. Config(c) \in Configs \cup {None}
  BY DEF TypeOK, Config, Objects
<1>3. Sink(c) \in Ports \cup {None}
  BY <1>1 DEF Sink, DockerState, Containers
<1>4. \A p \in Ports, up \in BOOLEAN : NewContainer(c, p, up) \in DockerState
  BY <1>2, <1>3 DEF NewContainer, DockerState
<1>5. OpenPorts \subseteq Ports
  BY DEF OpenPorts
<1>6. CASE UNCHANGED docker
  BY <1>1, <1>6
<1>7. CASE docker' = [docker EXCEPT ![c] = None]
  BY <1>1, <1>7
<1>8. CASE \E p \in OpenPorts, up \in BOOLEAN :
             docker' = [docker EXCEPT ![c] = NewContainer(c, p, up)]
  BY <1>1, <1>4, <1>5, <1>8
<1>9. CASE \E p \in OpenPorts : docker' = [docker EXCEPT ![c] = NewContainer(c, p, TRUE)]
  BY <1>1, <1>4, <1>5, <1>9
<1>. QED BY <1>6, <1>7, <1>8, <1>9 DEF StartContainer, StartBroken

-----------------------------------------------------------------------------
(* Type correctness is inductive together with CommandOK.                    *)

LEMMA InitType == Init => TypeOK /\ CommandOK
<1>. SUFFICES ASSUME Init PROVE TypeOK /\ CommandOK
  OBVIOUS
<1>1. docker \in [Containers -> DockerState \cup {None}]
  BY DEF Init, DockerState
<1>2. TypeOK
  BY <1>1, NoCommandType DEF Init, TypeOK, Phases
<1>3. CommandOK
  BY DEF Init, CommandOK, NoCommand
<1>. QED BY <1>2, <1>3

LEMMA ForgetType ==
    ASSUME TypeOK, Forget
    PROVE  /\ cmd' \in Commands /\ restart' \in BOOLEAN /\ outcome' \in {"ok", "error", "panic"}
           /\ comps' \subseteq Containers /\ work' \subseteq TriggerNames
           /\ types' \subseteq Filters
           /\ old' \subseteq [name: TriggerNames, filter: Filters]
           /\ pend' \in Edits \cup {None}
BY NoCommandType DEF Forget

(* The commands' arguments.                                                  *)
LEMMA ObjectType ==
    ASSUME NEW c \in Transformations, NEW s \in Specs,
           NEW out \in (Types \ Patterns) \cup {None}, NEW t \in Consumers \cup {None}
    PROVE  /\ TransformationObject(c, s, out, t) \in Objects
           /\ TransformationObject(c, s, out, t).config.out \in Types
<1>1. OutputType(c, out, t) \in Types
  BY MapsAssumption DEF OutputType
<1>. QED BY <1>1 DEF TransformationObject, Objects, Configs

LEMMA InvocationType ==
    ASSUME TypeOK, CommandOK, Invocations
    PROVE  TypeOK' /\ CommandOK'
<1>0. \A c \in Components : c \in Containers /\ c \in Components
  BY DEF Containers
<1>1. ASSUME NEW c \in Targets, NEW s \in Specs, NEW E \in SUBSET Types, CreateTarget(c, s, E)
      PROVE  TypeOK' /\ CommandOK'
  <2>1. [config |-> [spec |-> s, out |-> None]] \in Objects
    BY DEF Objects, Configs
  <2>2. cmd' \in Commands
    BY <1>1, <2>1, NoCommandType DEF CreateTarget, Begin, Commands, NoCommand, Components, Consumers
  <2>3. TypeOK'
    BY <1>1, <2>2 DEF CreateTarget, Begin, TypeOK, Phases, store, bounds, Filters
  <2>4. CommandOK'
    BY <1>1, <2>1 DEF CreateTarget, Begin, CommandOK, NoCommand, Consumers
  <2>. QED BY <2>3, <2>4
<1>2. ASSUME NEW c \in Transformations, NEW s \in Specs,
             NEW out \in (Types \ Patterns) \cup {None}, NEW E \in SUBSET Types,
             NEW t \in Consumers \cup {None}, CreateTransformation(c, s, out, E, t)
      PROVE  TypeOK' /\ CommandOK'
  <2>1. TransformationObject(c, s, out, t) \in Objects
        /\ TransformationObject(c, s, out, t).config.out \in Types
    BY ObjectType
  <2>2. cmd' \in Commands
    BY <1>2, <2>1 DEF CreateTransformation, Begin, Commands, NoCommand, Components, Consumers
  <2>3. TypeOK'
    BY <1>2, <2>2 DEF CreateTransformation, Begin, TypeOK, Phases, store, bounds, Filters
  <2>4. CommandOK'
    BY <1>2, <2>1 DEF CreateTransformation, Begin, CommandOK, NoCommand, Consumers
  <2>. QED BY <2>3, <2>4
<1>3. ASSUME NEW c \in Sources, NEW s \in Specs, CreateSource(c, s)
      PROVE  TypeOK' /\ CommandOK'
  <2>1. [config |-> [spec |-> s, out |-> None]] \in Objects
    BY DEF Objects, Configs
  <2>2. cmd' \in Commands
    BY <1>3, <2>1 DEF CreateSource, Begin, Commands, NoCommand, Components
  <2>3. TypeOK'
    BY <1>3, <2>2 DEF CreateSource, Begin, TypeOK, Phases, store, bounds
  <2>4. CommandOK'
    BY <1>3, <2>1 DEF CreateSource, Begin, CommandOK, NoCommand, TypeOK
  <2>. QED BY <2>3, <2>4
<1>4. ASSUME NEW n \in UserNames \cup {None}, NEW c \in Consumers, NEW E \in SUBSET Types,
             CreateTrigger(n, c, E)
      PROVE  TypeOK' /\ CommandOK'
  <2>1. cmd' \in Commands
    BY <1>4 DEF CreateTrigger, Begin, Commands, NoCommand, Components
  <2>2. OldTriggers(n) \subseteq TriggerNames
    BY MapsAssumption DEF OldTriggers
  <2>3. old' \subseteq [name: TriggerNames, filter: Filters]
    BY <1>4, <2>2 DEF CreateTrigger, Filters
  <2>4. TypeOK'
    BY <1>4, <2>1, <2>3 DEF CreateTrigger, Begin, TypeOK, Phases, store, bounds, Filters
  <2>5. CommandOK'
    BY <1>4 DEF CreateTrigger, Begin, CommandOK, NoCommand
  <2>. QED BY <2>4, <2>5
<1>5. ASSUME NEW c \in Components, Delete(c)
      PROVE  TypeOK' /\ CommandOK'
  <2>1. cmd' \in Commands
    BY <1>5 DEF Delete, Begin, Commands, NoCommand
  <2>2. TypeOK'
    BY <1>5, <2>1 DEF Delete, Begin, TypeOK, Phases, store, bounds
  <2>3. CommandOK'
    BY <1>5 DEF Delete, Begin, CommandOK, NoCommand
  <2>. QED BY <2>2, <2>3
<1>6. ASSUME NEW n \in TriggerNames, DeleteTrigger(n)
      PROVE  TypeOK' /\ CommandOK'
  <2>1. cmd' \in Commands
    BY <1>6 DEF DeleteTrigger, Begin, Commands, NoCommand
  <2>2. TypeOK'
    BY <1>6, <2>1 DEF DeleteTrigger, Begin, TypeOK, Phases, store, bounds
  <2>3. CommandOK'
    BY <1>6 DEF DeleteTrigger, Begin, CommandOK, NoCommand
  <2>. QED BY <2>2, <2>3
<1>7. ASSUME NEW again \in BOOLEAN, Start(again)
      PROVE  TypeOK' /\ CommandOK'
  <2>1. cmd' \in Commands
    BY <1>7 DEF Start, Begin, Commands, NoCommand
  <2>2. TypeOK'
    BY <1>7, <2>1 DEF Start, Begin, TypeOK, Phases, store, bounds, Present, Containers
  <2>3. CommandOK'
    BY <1>7 DEF Start, Begin, CommandOK, NoCommand
  <2>. QED BY <2>2, <2>3
<1>8. ASSUME Stop
      PROVE  TypeOK' /\ CommandOK'
  <2>1. cmd' \in Commands
    BY <1>8 DEF Stop, Begin, Commands, NoCommand
  <2>2. TypeOK'
    BY <1>8, <2>1 DEF Stop, Begin, TypeOK, Phases, store, bounds, Present, Containers
  <2>3. CommandOK'
    BY <1>8 DEF Stop, Begin, CommandOK, NoCommand
  <2>. QED BY <2>2, <2>3
<1>. QED BY <1>1, <1>2, <1>3, <1>4, <1>5, <1>6, <1>7, <1>8 DEF Invocations

(* Every step of a running command.                                          *)
LEMMA StepType ==
    ASSUME TypeOK, CommandOK, Steps
    PROVE  TypeOK' /\ CommandOK'
<1>0. \A c \in Components : c \in Containers
  BY DEF Containers
<1>1. CASE WriteManifest
  <2>1. triggers' \in [TriggerNames -> Triggers \cup {None}]
    BY <1>1 DEF WriteManifest, TypeOK, Edits
  <2>. QED BY <1>1, <2>1 DEF WriteManifest, TypeOK, CommandOK, bounds
<1>2. CASE AddObject
  <2>1. cmd.comp \in Components /\ cmd.object \in Objects
    BY <1>2 DEF AddObject, At, CommandOK, Components
  <2>2. TypeOK'
    BY <1>2, <2>1 DEF AddObject, TypeOK, Phases, bounds
  <2>3. CommandOK'
    BY <1>2 DEF AddObject, At, CommandOK
  <2>. QED BY <2>2, <2>3
<1>3. CASE StartComponent
  <2>1. cmd.comp \in Containers /\ restart \in BOOLEAN
    BY <1>3 DEF StartComponent, At, CommandOK, TypeOK, Containers, Components
  <2>2. StartContainer(cmd.comp, restart) \/ StartBroken(cmd.comp, restart) \/ UNCHANGED docker
    BY <1>3 DEF StartComponent, StartFails
  <2>3. docker' \in [Containers -> DockerState \cup {None}]
    BY <2>1, <2>2, StartType DEF TypeOK
  <2>4. TargetTriggers(cmd.comp) \subseteq TriggerNames
    BY DEF TargetTriggers
  <2>5. CASE StartFails(cmd.comp, restart)
    <3>1. TypeOK'
      BY <1>3, <2>3, <2>5, ForgetType
         DEF StartComponent, StartFails, Finish, TypeOK, Phases, store, bounds, locals
    <3>2. CommandOK'
      BY <1>3, <2>5
         DEF StartComponent, StartFails, Finish, Forget, NoCommand, CommandOK, locals
    <3>. QED BY <3>1, <3>2
  <2>6. CASE ~StartFails(cmd.comp, restart)
    <3>1. TypeOK'
      BY <1>3, <2>3, <2>4, <2>6
         DEF StartComponent, Finish, AfterUpdate, TypeOK, Phases, store, bounds, locals
    <3>2. CommandOK'
      BY <1>3, <2>6 DEF StartComponent, Finish, AfterUpdate, At, CommandOK, locals
    <3>. QED BY <3>1, <3>2
  <2>. QED BY <2>5, <2>6
<1>4. CASE UpdateDone
  BY <1>4 DEF UpdateDone, At, AfterUpdate, TypeOK, CommandOK, Phases, store, bounds, locals
<1>5. CASE CreateRoute
  <2>1. cmd.target \in Consumers /\ cmd.object.config.out \in Types /\ phase = "route"
    BY <1>5 DEF CreateRoute, At, CommandOK, TypeOK, Commands
  <2>2. CASE docker[cmd.target] = None
    BY <1>5, <2>1, <2>2
       DEF CreateRoute, Finish, TypeOK, CommandOK, Phases, store, bounds, locals
  <2>3. CASE docker[cmd.target] # None
    <3>1. docker[cmd.target].port \in Ports
      BY <2>1, <2>3 DEF TypeOK, DockerState, Containers, Components
    <3>2. AutoName(cmd.target, cmd.object.config.out) \in TriggerNames
          /\ cmd.object.config.out \in Filters
      BY <2>1 DEF TriggerNames, Filters
    <3>3. [filter |-> cmd.object.config.out, target |-> cmd.target] \in Triggers
      BY <2>1, <3>2 DEF Triggers
    <3>4. conf' \in [TriggerNames -> LocalSpecs \cup {None}]
          /\ pend' \in Edits \cup {None}
      BY <1>5, <2>3, <3>1, <3>2, <3>3 DEF CreateRoute, WriteLocalConfig, TypeOK, LocalSpecs, Edits
    <3>5. old' \subseteq [name: TriggerNames, filter: Filters]
      BY <1>5, <2>3 DEF CreateRoute, TargetTriggers, TypeOK, LocalSpecs, Triggers
    <3>6. TypeOK'
      BY <1>5, <2>3, <3>4, <3>5 DEF CreateRoute, TypeOK, Phases, bounds
    <3>7. CommandOK'
      BY <1>5, <2>1, <2>3 DEF CreateRoute, CommandOK
    <3>. QED BY <3>6, <3>7
  <2>. QED BY <2>2, <2>3
<1>6. CASE ShadowDone
  BY <1>6 DEF ShadowDone, At, TypeOK, CommandOK, Phases, store, bounds, locals
<1>7. CASE TypesDone
  <2>1. {r.name : r \in old} \subseteq TriggerNames
    BY DEF TypeOK
  <2>2. TypeOK'
    BY <1>7, <2>1 DEF TypesDone, Finish, TypeOK, Phases, store, bounds, locals
  <2>3. CommandOK'
    BY <1>7 DEF TypesDone, At, Finish, CommandOK, locals
  <2>. QED BY <2>2, <2>3
<1>8. CASE RemoveContainer
  <2>1. cmd.comp \in Containers
    BY <1>8 DEF RemoveContainer, At, CommandOK, Containers
  <2>2. TypeOK'
    BY <1>8, <2>1 DEF RemoveContainer, TypeOK, Phases, store, bounds, locals
  <2>3. CommandOK'
    BY <1>8 DEF RemoveContainer, At, CommandOK, locals
  <2>. QED BY <2>2, <2>3
<1>9. CASE RemoveObject
  <2>1. TargetTriggers(cmd.comp) \subseteq TriggerNames
    BY DEF TargetTriggers
  <2>2. TypeOK'
    BY <1>9, <2>1 DEF RemoveObject, TypeOK, Phases, bounds
  <2>3. CommandOK'
    BY <1>9 DEF RemoveObject, At, CommandOK
  <2>. QED BY <2>2, <2>3
<1>10. CASE LoopDone
  BY <1>10 DEF LoopDone, Finish, TypeOK, CommandOK, Phases, store, bounds, locals
<1>11. CASE Exit
  <2>1. TypeOK'
    BY <1>11, ForgetType DEF Exit, TypeOK, Phases, store, bounds
  <2>2. CommandOK'
    BY <1>11 DEF Exit, Forget, NoCommand, CommandOK
  <2>. QED BY <2>1, <2>2
<1>12. ASSUME NEW n \in TriggerNames, RefreshTrigger(n)
       PROVE  TypeOK' /\ CommandOK'
  <2>1. conf[n] \in LocalSpecs /\ conf[n].trigger.target \in Containers
    BY <1>12 DEF RefreshTrigger, TypeOK, LocalSpecs, Triggers, Containers, Components
  <2>2. docker[conf[n].trigger.target].port \in Ports
    BY <1>12, <2>1 DEF RefreshTrigger, TypeOK, DockerState
  <2>3. [conf[n] EXCEPT !.url = docker[conf[n].trigger.target].port] \in LocalSpecs
    BY <2>1, <2>2 DEF LocalSpecs
  <2>4. conf' \in [TriggerNames -> LocalSpecs \cup {None}]
    BY <1>12, <2>3 DEF RefreshTrigger, TypeOK
  <2>. QED BY <1>12, <2>4 DEF RefreshTrigger, TypeOK, CommandOK, bounds
<1>13. ASSUME NEW n \in TriggerNames, RemoveShadowed(n)
       PROVE  TypeOK' /\ CommandOK'
  <2>1. TypeOK'
    BY <1>13 DEF RemoveShadowed, RemoveFromLocalConfig, Finish, TypeOK, Edits, Phases, store,
                 bounds, locals
  <2>2. CommandOK'
    BY <1>13 DEF RemoveShadowed, RemoveFromLocalConfig, Finish, At, CommandOK, locals
  <2>. QED BY <2>1, <2>2
<1>14. ASSUME NEW n \in TriggerNames, RemoveTrigger(n)
       PROVE  TypeOK' /\ CommandOK'
  <2>1. TypeOK'
    BY <1>14 DEF RemoveTrigger, RemoveFromLocalConfig, TypeOK, Edits, bounds
  <2>2. CommandOK'
    BY <1>14 DEF RemoveTrigger, CommandOK
  <2>. QED BY <2>1, <2>2
<1>15. ASSUME NEW f \in Filters, CreateTypeTrigger(f)
       PROVE  TypeOK' /\ CommandOK'
  <2>1. cmd.comp \in Consumers /\ phase = "types" /\ f \in types
    BY <1>15 DEF CreateTypeTrigger, At, CommandOK
  <2>2. CASE docker[cmd.comp] = None
    BY <1>15, <2>1, <2>2
       DEF CreateTypeTrigger, Finish, TypeOK, CommandOK, Phases, store, bounds, locals
  <2>3. CASE docker[cmd.comp] # None
    <3>1. docker[cmd.comp].port \in Ports
      BY <2>1, <2>3 DEF TypeOK, DockerState, Containers, Components
    <3>2. NewName(f) \in TriggerNames
      BY <2>1, NewNameType
    <3>3. [filter |-> f, target |-> cmd.comp] \in Triggers
      BY <2>1 DEF Triggers
    <3>4. conf' \in [TriggerNames -> LocalSpecs \cup {None}]
          /\ pend' \in Edits \cup {None}
      BY <1>15, <2>3, <3>1, <3>2, <3>3 DEF CreateTypeTrigger, WriteLocalConfig, TypeOK, LocalSpecs, Edits
    <3>5. Shadowed(f) \subseteq TriggerNames
      BY DEF Shadowed, TypeOK
    <3>6. TypeOK'
      BY <1>15, <2>3, <3>4, <3>5 DEF CreateTypeTrigger, TypeOK, Phases, bounds
    <3>7. CommandOK'
      BY <1>15, <2>1, <2>3 DEF CreateTypeTrigger, CommandOK
    <3>. QED BY <3>6, <3>7
  <2>. QED BY <2>2, <2>3
<1>16. ASSUME NEW r \in old, Retarget(r)
       PROVE  TypeOK' /\ CommandOK'
  <2>1. cmd.comp \in Consumers /\ r.name \in TriggerNames /\ r.filter \in Filters
    BY <1>16 DEF Retarget, At, CommandOK, TypeOK
  <2>2. docker[cmd.comp].port \in Ports
    BY <1>16, <2>1 DEF Retarget, TypeOK, DockerState, Containers, Components
  <2>3. [filter |-> r.filter, target |-> cmd.comp] \in Triggers
    BY <2>1 DEF Triggers
  <2>4. conf' \in [TriggerNames -> LocalSpecs \cup {None}]
        /\ pend' \in Edits \cup {None}
    BY <1>16, <2>1, <2>2, <2>3 DEF Retarget, WriteLocalConfig, TypeOK, LocalSpecs, Edits
  <2>5. TypeOK'
    BY <1>16, <2>4 DEF Retarget, TypeOK, bounds
  <2>6. CommandOK'
    BY <1>16 DEF Retarget, CommandOK
  <2>. QED BY <2>5, <2>6
<1>17. ASSUME NEW c \in Containers, StartNext(c)
       PROVE  TypeOK' /\ CommandOK'
  <2>1. cmd.restart \in BOOLEAN
    BY DEF TypeOK, Commands
  <2>2. StartContainer(c, cmd.restart) \/ StartBroken(c, cmd.restart) \/ UNCHANGED docker
    BY <1>17 DEF StartNext, StartFails
  <2>3. docker' \in [Containers -> DockerState \cup {None}]
    BY <2>1, <2>2, StartType DEF TypeOK
  <2>4. TargetTriggers(c) \subseteq TriggerNames
    BY DEF TargetTriggers
  <2>5. CASE StartFails(c, cmd.restart)
    <3>1. TypeOK'
      BY <1>17, <2>3, <2>5, ForgetType
         DEF StartNext, StartFails, Finish, TypeOK, Phases, store, bounds, locals
    <3>2. CommandOK'
      BY <1>17, <2>5
         DEF StartNext, StartFails, Finish, Forget, NoCommand, CommandOK, locals
    <3>. QED BY <3>1, <3>2
  <2>6. CASE ~StartFails(c, cmd.restart)
    <3>1. TypeOK'
      BY <1>17, <2>3, <2>4, <2>6 DEF StartNext, TypeOK, store, bounds
    <3>2. CommandOK'
      BY <1>17, <2>6 DEF StartNext, CommandOK
    <3>. QED BY <3>1, <3>2
  <2>. QED BY <2>5, <2>6
<1>18. ASSUME NEW c \in Containers, StopNext(c)
       PROVE  TypeOK' /\ CommandOK'
  BY <1>18 DEF StopNext, TypeOK, CommandOK, store, bounds
<1>. QED BY <1>1, <1>2, <1>3, <1>4, <1>5, <1>6, <1>7, <1>8, <1>9, <1>10, <1>11, <1>12,
            <1>13, <1>14, <1>15, <1>16, <1>17, <1>18 DEF Steps

LEMMA KillType ==
    ASSUME TypeOK, CommandOK, Kill
    PROVE  TypeOK' /\ CommandOK'
<1>1. TypeOK'
  BY ForgetType DEF Kill, TypeOK, Phases, store
<1>2. CommandOK'
  BY DEF Kill, Forget, NoCommand, CommandOK
<1>. QED BY <1>1, <1>2

LEMMA ExitType ==
    ASSUME TypeOK, CommandOK, NEW c \in Containers, ContainerExit(c)
    PROVE  TypeOK' /\ CommandOK'
<1>1. docker[c] \in DockerState
  BY DEF ContainerExit, Running, TypeOK
<1>2. [docker[c] EXCEPT !.running = FALSE] \in DockerState
  BY <1>1 DEF DockerState
<1>3. docker' \in [Containers -> DockerState \cup {None}]
  BY <1>2 DEF ContainerExit, TypeOK
<1>. QED BY <1>3 DEF ContainerExit, TypeOK, CommandOK, store, locals

LEMMA NextType == TypeOK /\ CommandOK /\ [Next]_vars => TypeOK' /\ CommandOK'
<1>. SUFFICES ASSUME TypeOK, CommandOK, [Next]_vars PROVE TypeOK' /\ CommandOK'
  OBVIOUS
<1>1. CASE UNCHANGED vars
  BY <1>1 DEF vars, store, locals, bounds, TypeOK, CommandOK
<1>. QED BY <1>1, InvocationType, StepType, KillType, ExitType DEF Next

(* Every reachable state of every instance is well typed.                    *)
THEOREM TypeCorrect == Spec => []TypeOK
<1>1. Spec => [](TypeOK /\ CommandOK)
  BY InitType, NextType, PTL DEF Spec
<1>. QED BY <1>1, PTL

-----------------------------------------------------------------------------
(* The agreement of broker.conf and the manifest.  EditsOK is inductive: a   *)
(* step writes one trigger to broker.conf and makes it pending, writes the   *)
(* pending one to the manifest, or changes neither.                          *)

(* A step that leaves both files, in a phase where nothing is pending or     *)
(* with the same trigger pending.                                            *)
LEMMA EditsKept ==
    ASSUME EditsOK, kills' = kills,
           \A n \in TriggerNames : /\ (conf'[n] = None) = (conf[n] = None)
                                   /\ conf[n] # None => conf'[n].trigger = conf[n].trigger,
           triggers' = triggers, pend' = None, pend = None
    PROVE  EditsOK'
BY DEF EditsOK, TriggersAgree, Agree

(* A step that writes trigger n to broker.conf, to be written next to the    *)
(* manifest.                                                                 *)
LEMMA EditsWrite ==
    ASSUME TypeOK, EditsOK, kills' = kills, pend = None, triggers' = triggers,
           phase' \in {"types", "shadow", "retarget", "prune", "cleanup"},
           NEW n \in TriggerNames, NEW v \in Triggers \cup {None},
           pend' = [name |-> n, trigger |-> v],
           NEW s, conf' = [conf EXCEPT ![n] = s],
           IF v = None THEN s = None ELSE s # None /\ s.trigger = v
    PROVE  EditsOK'
<1>1. conf'[n] = s /\ \A m \in TriggerNames \ {n} : conf'[m] = conf[m]
  BY DEF TypeOK
<1>2. pend' # None /\ pend'.name = n /\ pend'.trigger = v
  BY SetsAssumption DEF Edits
<1>3. TriggersAgree'
  BY <1>1, <1>2 DEF EditsOK, TriggersAgree, Agree
<1>. QED BY <1>1, <1>2, <1>3 DEF EditsOK

LEMMA EditsCreate ==
    ASSUME TypeOK, EditsOK, kills' = kills, pend = None, triggers' = triggers,
           phase' \in {"types", "shadow", "retarget", "prune", "cleanup"},
           NEW n \in TriggerNames, NEW f \in Filters, NEW c \in Consumers,
           docker[c] # None, WriteLocalConfig(n, f, c)
    PROVE  EditsOK'
<1>. DEFINE t == [filter |-> f, target |-> c]
            s == [trigger |-> t, url |-> docker[c].port]
<1>1. t \in Triggers /\ t # None
  BY SetsAssumption DEF Triggers
<1>2. docker[c].port \in Ports
  BY DEF TypeOK, DockerState, Containers, Components
<1>3. s # None /\ s.trigger = t
  BY <1>1, <1>2, SetsAssumption DEF LocalSpecs
<1>4. conf' = [conf EXCEPT ![n] = s] /\ pend' = [name |-> n, trigger |-> t]
  BY DEF WriteLocalConfig
<1>. HIDE DEF t, s
<1>. QED BY <1>1, <1>3, <1>4, EditsWrite

(* A killed command leaves nothing to prove.                                  *)
LEMMA EditsKill ==
    ASSUME TypeOK, kills' = kills + 1, pend' = None
    PROVE  EditsOK'
BY DEF TypeOK, EditsOK, TriggersAgree

LEMMA InitEdits == Init => EditsOK
BY DEF Init, EditsOK, TriggersAgree, Agree

LEMMA InvocationEdits ==
    ASSUME TypeOK, EditsOK, Invocations
    PROVE  EditsOK'
<1>1. phase = "idle" /\ UNCHANGED <<conf, triggers, pend, kills>>
  BY DEF Invocations, CreateTarget, CreateTransformation, CreateSource, CreateTrigger, Delete,
         DeleteTrigger, Start, Stop, Begin, store, bounds
<1>2. pend = None
  BY <1>1 DEF EditsOK
<1>. QED BY <1>1, <1>2, EditsKept

LEMMA StepEdits ==
    ASSUME TypeOK, CommandOK, EditsOK, Steps
    PROVE  EditsOK'
<1>1. CASE WriteManifest
  <2>1. pend.name \in TriggerNames /\ pend' = None /\ conf' = conf /\ kills' = kills
    BY <1>1 DEF WriteManifest, TypeOK, Edits, bounds
  <2>2. triggers'[pend.name] = pend.trigger
        /\ \A m \in TriggerNames \ {pend.name} : triggers'[m] = triggers[m]
    BY <1>1, <2>1 DEF WriteManifest, TypeOK
  <2>3. TriggersAgree'
    BY <1>1, <2>1, <2>2 DEF WriteManifest, EditsOK, TriggersAgree, Agree
  <2>. QED BY <2>1, <2>3 DEF EditsOK
<1>2. CASE AddObject \/ UpdateDone \/ ShadowDone \/ TypesDone \/ RemoveContainer
           \/ RemoveObject \/ LoopDone
  <2>1. pend = None /\ UNCHANGED <<conf, triggers, pend, kills>>
    BY <1>2 DEF AddObject, UpdateDone, ShadowDone, TypesDone, RemoveContainer, RemoveObject,
                LoopDone, At, Finish, store, bounds, locals
  <2>. QED BY <2>1, EditsKept
<1>3. CASE Exit
  <2>1. pend = None
    BY <1>3 DEF Exit, EditsOK
  <2>. QED BY <1>3, <2>1, EditsKept DEF Exit, Forget, store, bounds
<1>4. CASE StartComponent
  <2>1. pend = None /\ UNCHANGED <<conf, triggers>> /\ pend' = None
    BY <1>4 DEF StartComponent, StartFails, At, Finish, Forget, store, locals
  <2>2. kills' = kills \/ kills' = kills + 1
    BY <1>4 DEF StartComponent, StartFails, bounds
  <2>. QED BY <2>1, <2>2, EditsKept, EditsKill
<1>5. ASSUME NEW c \in Containers, StartNext(c)
      PROVE  EditsOK'
  <2>1. pend = None /\ UNCHANGED <<conf, triggers>> /\ pend' = None
    BY <1>5 DEF StartNext, StartFails, At, Finish, Forget, store, locals
  <2>2. kills' = kills \/ kills' = kills + 1
    BY <1>5 DEF StartNext, StartFails, bounds
  <2>. QED BY <2>1, <2>2, EditsKept, EditsKill
<1>6. ASSUME NEW c \in Containers, StopNext(c)
      PROVE  EditsOK'
  <2>1. pend = None /\ UNCHANGED <<conf, triggers, pend, kills>>
    BY <1>6 DEF StopNext, At, store, bounds
  <2>. QED BY <2>1, EditsKept
<1>7. ASSUME NEW n \in TriggerNames, RefreshTrigger(n)
      PROVE  EditsOK'
  <2>1. pend = None /\ UNCHANGED <<triggers, pend, kills>> /\ conf[n] \in LocalSpecs
    BY <1>7 DEF RefreshTrigger, EditsOK, TypeOK, bounds
  <2>2. \A m \in TriggerNames : /\ (conf'[m] = None) = (conf[m] = None)
                                /\ conf[m] # None => conf'[m].trigger = conf[m].trigger
    <3>1. \A m \in TriggerNames \ {n} : conf'[m] = conf[m]
      BY <1>7 DEF RefreshTrigger, TypeOK
    <3>2. conf'[n] = [conf[n] EXCEPT !.url = docker[conf[n].trigger.target].port]
      BY <1>7 DEF RefreshTrigger, TypeOK
    <3>3. docker[conf[n].trigger.target] \in DockerState
      BY <1>7, <2>1 DEF RefreshTrigger, TypeOK, LocalSpecs, Triggers, Containers, Components
    <3>4. conf'[n] \in LocalSpecs /\ conf'[n].trigger = conf[n].trigger
      BY <2>1, <3>2, <3>3 DEF LocalSpecs, DockerState
    <3>. QED BY <1>7, <3>1, <3>4, SetsAssumption DEF RefreshTrigger
  <2>. QED BY <2>1, <2>2, EditsKept
<1>8. ASSUME NEW n \in TriggerNames, RemoveShadowed(n)
      PROVE  EditsOK'
  <2>1. pend = None /\ UNCHANGED <<triggers, kills>> /\ phase = "shadow"
    BY <1>8 DEF RemoveShadowed, At, store, bounds
  <2>2. CASE [name |-> n, filter |-> NoFilter] \in old
    BY <1>8, <2>1, <2>2, EditsKept DEF RemoveShadowed, Finish, store, locals
  <2>3. CASE [name |-> n, filter |-> NoFilter] \notin old
    <3>1. phase' = "shadow" /\ conf' = [conf EXCEPT ![n] = None]
          /\ pend' = [name |-> n, trigger |-> None]
      BY <1>8, <2>1, <2>3 DEF RemoveShadowed, RemoveFromLocalConfig
    <3>. QED BY <2>1, <3>1, EditsWrite
  <2>. QED BY <2>2, <2>3
<1>9. ASSUME NEW n \in TriggerNames, RemoveTrigger(n)
      PROVE  EditsOK'
  <2>1. pend = None /\ UNCHANGED <<triggers, kills>> /\ phase' \in {"cleanup", "prune"}
        /\ conf' = [conf EXCEPT ![n] = None] /\ pend' = [name |-> n, trigger |-> None]
    BY <1>9 DEF RemoveTrigger, RemoveFromLocalConfig, At, bounds
  <2>. QED BY <2>1, EditsWrite
<1>10. CASE CreateRoute
  <2>1. pend = None /\ UNCHANGED <<triggers, kills>> /\ cmd.target \in Consumers
        /\ cmd.object.config.out \in Types
    BY <1>10 DEF CreateRoute, At, Finish, CommandOK, TypeOK, Commands, store, bounds
  <2>2. CASE docker[cmd.target] = None
    BY <1>10, <2>1, <2>2, EditsKept DEF CreateRoute, Finish, store, locals
  <2>3. CASE docker[cmd.target] # None
    <3>1. AutoName(cmd.target, cmd.object.config.out) \in TriggerNames
          /\ cmd.object.config.out \in Filters
      BY <2>1 DEF TriggerNames, Filters
    <3>2. phase' = "types" /\ WriteLocalConfig(AutoName(cmd.target, cmd.object.config.out),
                                               cmd.object.config.out, cmd.target)
      BY <1>10, <2>3 DEF CreateRoute
    <3>. QED BY <2>1, <2>3, <3>1, <3>2, EditsCreate
  <2>. QED BY <2>2, <2>3
<1>11. ASSUME NEW f \in Filters, CreateTypeTrigger(f)
       PROVE  EditsOK'
  <2>1. pend = None /\ UNCHANGED <<triggers, kills>> /\ cmd.comp \in Consumers
        /\ phase = "types" /\ f \in types
    BY <1>11 DEF CreateTypeTrigger, At, Finish, CommandOK, store, bounds
  <2>2. CASE docker[cmd.comp] = None
    BY <1>11, <2>1, <2>2, EditsKept DEF CreateTypeTrigger, Finish, store, locals
  <2>3. CASE docker[cmd.comp] # None
    <3>1. NewName(f) \in TriggerNames
      BY <2>1, NewNameType
    <3>2. phase' \in {"types", "shadow"} /\ WriteLocalConfig(NewName(f), f, cmd.comp)
      BY <1>11, <2>1, <2>3 DEF CreateTypeTrigger
    <3>. QED BY <2>1, <2>3, <3>1, <3>2, EditsCreate
  <2>. QED BY <2>2, <2>3
<1>12. ASSUME NEW r \in old, Retarget(r)
       PROVE  EditsOK'
  <2>1. pend = None /\ UNCHANGED <<triggers, kills>> /\ cmd.comp \in Consumers
        /\ phase' = "retarget" /\ r.name \in TriggerNames /\ r.filter \in Filters
        /\ docker[cmd.comp] # None /\ WriteLocalConfig(r.name, r.filter, cmd.comp)
    BY <1>12 DEF Retarget, At, CommandOK, TypeOK, bounds
  <2>. QED BY <2>1, EditsCreate
<1>. QED BY <1>1, <1>2, <1>3, <1>4, <1>5, <1>6, <1>7, <1>8, <1>9, <1>10, <1>11, <1>12 DEF Steps

LEMMA NextEdits == TypeOK /\ CommandOK /\ EditsOK /\ [Next]_vars => EditsOK'
<1>. SUFFICES ASSUME TypeOK, CommandOK, EditsOK, [Next]_vars PROVE EditsOK'
  OBVIOUS
<1>1. CASE UNCHANGED vars
  BY <1>1 DEF vars, store, locals, bounds, EditsOK, TriggersAgree, Agree
<1>2. CASE Kill
  BY <1>2, EditsKill DEF Kill, Forget
<1>3. ASSUME NEW c \in Containers, ContainerExit(c)
      PROVE  EditsOK'
  BY <1>3 DEF ContainerExit, store, locals, EditsOK, TriggersAgree, Agree
<1>. QED BY <1>1, <1>2, <1>3, InvocationEdits, StepEdits DEF Next

(* Unless a command was killed, the two files agree on every trigger but the *)
(* one being written.                                                        *)
THEOREM StoresAgree == Spec => []TriggersAgree
<1>1. Spec => [](TypeOK /\ CommandOK /\ EditsOK)
  BY InitType, InitEdits, NextType, NextEdits, PTL DEF Spec
<1>2. EditsOK => TriggersAgree
  BY DEF EditsOK
<1>. QED BY <1>1, <1>2, PTL

-----------------------------------------------------------------------------
(* The targets of the triggers.  The component of a trigger is added before   *)
(* the trigger and removed before it; TargetsOK says which triggers are left  *)
(* over in between.                                                           *)

LEMMA InitTargets == Init => TargetsOK
BY DEF Init, TargetsOK, NoCommand

(* A step that changes no trigger's target and removes no component.          *)
LEMMA TargetsKept ==
    ASSUME TypeOK, TargetsOK, kills' = kills,
           \A n \in TriggerNames : conf'[n] # None =>
               conf[n] # None /\ conf'[n].trigger = conf[n].trigger,
           objects' = objects,
           phase = "cleanup" => \A n \in TriggerNames :
               n \in work /\ conf'[n] # None => phase' = "cleanup" /\ n \in work'
    PROVE  kills' = 0 => \A n \in TriggerNames : conf'[n] # None =>
               \/ objects'[conf'[n].trigger.target] # None
               \/ phase' = "cleanup" /\ n \in work'
BY DEF TargetsOK

(* A trigger written for a component that is there.                           *)
LEMMA TargetsCreate ==
    ASSUME TypeOK, TargetsOK, kills' = kills, objects' = objects, phase # "cleanup",
           NEW n \in TriggerNames, NEW f, NEW c, WriteLocalConfig(n, f, c), objects[c] # None
    PROVE  kills' = 0 => \A m \in TriggerNames : conf'[m] # None =>
               \/ objects'[conf'[m].trigger.target] # None
               \/ phase' = "cleanup" /\ m \in work'
<1>1. conf'[n].trigger.target = c /\ \A m \in TriggerNames \ {n} : conf'[m] = conf[m]
  BY DEF WriteLocalConfig, TypeOK
<1>. QED BY <1>1 DEF TargetsOK

LEMMA InvocationTargets ==
    ASSUME TypeOK, TargetsOK, Invocations
    PROVE  TargetsOK'
<1>1. phase = "idle" /\ UNCHANGED <<conf, objects, kills>>
  BY DEF Invocations, CreateTarget, CreateTransformation, CreateSource, CreateTrigger, Delete,
         DeleteTrigger, Start, Stop, Begin, store, bounds
<1>2. kills' = 0 => \A n \in TriggerNames : conf'[n] # None =>
               \/ objects'[conf'[n].trigger.target] # None
               \/ phase' = "cleanup" /\ n \in work'
  BY <1>1, TargetsKept
<1>3. /\ phase' \in {"start", "update", "route", "types", "shadow", "retarget", "prune"} =>
           objects'[cmd'.comp] # None
      /\ cmd'.op = "transformation" /\ cmd'.target # None /\ phase' # "done" =>
           objects'[cmd'.target] # None
  BY <1>1 DEF Invocations, CreateTarget, CreateTransformation, CreateSource, CreateTrigger, Delete,
         DeleteTrigger, Start, Stop, Begin, NoCommand
<1>. QED BY <1>2, <1>3 DEF TargetsOK

LEMMA StepTargets ==
    ASSUME TypeOK, CommandOK, EditsOK, TargetsOK, Steps
    PROVE  TargetsOK'
<1>. DEFINE First == kills' = 0 => \A n \in TriggerNames : conf'[n] # None =>
                       \/ objects'[conf'[n].trigger.target] # None
                       \/ phase' = "cleanup" /\ n \in work'
<1>1. CASE WriteManifest
  BY <1>1 DEF WriteManifest, TargetsOK, bounds
<1>2. CASE AddObject
  <2>1. objects'[cmd.comp] # None /\ \A c \in Components : objects[c] # None => objects'[c] # None
    BY <1>2, SetsAssumption DEF AddObject, At, CommandOK, TypeOK, Components
  <2>2. \A n \in TriggerNames : conf[n] # None => conf[n].trigger.target \in Components
    BY DEF TypeOK, LocalSpecs, Triggers, Components
  <2>3. cmd.target \in Components \cup {None}
    BY DEF TypeOK, Commands, Components
  <2>. QED BY <1>2, <2>1, <2>2, <2>3 DEF AddObject, At, TargetsOK, bounds
<1>3. CASE UpdateDone \/ ShadowDone \/ TypesDone \/ RemoveContainer
  <2>1. UNCHANGED <<objects, conf, kills, cmd>> /\ phase # "cleanup"
    BY <1>3 DEF UpdateDone, ShadowDone, TypesDone, RemoveContainer, At, Finish, store, bounds, locals
  <2>2. /\ phase' \in {"start", "update", "route", "types", "shadow", "retarget", "prune"} =>
             phase \in {"start", "update", "route", "types", "shadow", "retarget", "prune"}
        /\ phase # "done"
    BY <1>3 DEF UpdateDone, ShadowDone, TypesDone, RemoveContainer, At, Finish
  <2>3. First
    BY <2>1, TargetsKept
  <2>. QED BY <2>1, <2>2, <2>3 DEF TargetsOK
<1>4. CASE RemoveObject
  <2>1. \A c \in Components : c # cmd.comp => objects'[c] = objects[c]
    BY <1>4 DEF RemoveObject, TypeOK
  <2>2. \A n \in TriggerNames : conf[n] # None => conf[n].trigger.target \in Components
    BY DEF TypeOK, LocalSpecs, Triggers, Components
  <2>3. phase = "object" /\ phase' = "cleanup" /\ conf' = conf /\ work' = TargetTriggers(cmd.comp)
        /\ cmd' = cmd /\ kills' = kills /\ cmd.op = "delete"
    BY <1>4 DEF RemoveObject, At, CommandOK, bounds
  <2>. QED BY <2>1, <2>2, <2>3 DEF TargetTriggers, TargetsOK
<1>5. CASE LoopDone
  <2>1. UNCHANGED <<objects, conf, kills>> /\ phase' = "done" /\ work = {}
    BY <1>5 DEF LoopDone, Finish, store, bounds
  <2>2. First
    BY <2>1 DEF TargetsOK
  <2>. QED BY <2>1, <2>2 DEF TargetsOK
<1>6. CASE Exit
  <2>1. UNCHANGED <<objects, conf, kills>> /\ phase = "done" /\ phase' = "idle" /\ cmd' = NoCommand
    BY <1>6 DEF Exit, Forget, store, bounds
  <2>2. First
    BY <2>1, TargetsKept
  <2>. QED BY <2>1, <2>2 DEF TargetsOK, NoCommand
<1>7. CASE StartComponent
  <2>1. UNCHANGED <<objects, conf>> /\ phase = "start"
    BY <1>7 DEF StartComponent, At, store
  <2>2. CASE kills' = kills + 1
    <3>1. (phase' = "idle" /\ cmd' = NoCommand) \/ kills' = kills
      BY <1>7 DEF StartComponent, StartFails, Forget, bounds
    <3>2. phase' = "idle" /\ cmd' = NoCommand
      BY <2>2, <3>1 DEF TypeOK
    <3>3. First
      BY <2>2 DEF TypeOK
    <3>. QED BY <3>2, <3>3 DEF TargetsOK, NoCommand
  <2>3. CASE kills' = kills
    <3>1. cmd' = cmd
      BY <1>7, <2>3 DEF StartComponent, StartFails, Finish, TypeOK, locals
    <3>2. First
      BY <2>1, <2>3, TargetsKept
    <3>. QED BY <2>1, <3>1, <3>2 DEF TargetsOK
  <2>. QED BY <1>7, <2>2, <2>3 DEF StartComponent, StartFails, bounds
<1>8. ASSUME NEW c \in Containers, StartNext(c)
      PROVE  TargetsOK'
  <2>1. UNCHANGED <<objects, conf>> /\ phase = "startall"
    BY <1>8 DEF StartNext, At, store
  <2>2. CASE kills' = kills + 1
    <3>1. (phase' = "idle" /\ cmd' = NoCommand) \/ kills' = kills
      BY <1>8 DEF StartNext, StartFails, Forget, bounds
    <3>2. phase' = "idle" /\ cmd' = NoCommand
      BY <2>2, <3>1 DEF TypeOK
    <3>3. First
      BY <2>2 DEF TypeOK
    <3>. QED BY <3>2, <3>3 DEF TargetsOK, NoCommand
  <2>3. CASE kills' = kills
    <3>1. cmd' = cmd /\ phase' \in {"startall", "done"}
      BY <1>8, <2>1, <2>3 DEF StartNext, StartFails, Finish, TypeOK, locals
    <3>2. First
      BY <2>1, <2>3, TargetsKept
    <3>. QED BY <2>1, <3>1, <3>2 DEF TargetsOK
  <2>. QED BY <1>8, <2>2, <2>3 DEF StartNext, StartFails, bounds
<1>9. ASSUME NEW c \in Containers, StopNext(c)
      PROVE  TargetsOK'
  BY <1>9 DEF StopNext, At, store, bounds, TargetsOK
<1>10. ASSUME NEW n \in TriggerNames, RefreshTrigger(n)
       PROVE  TargetsOK'
  <2>1. \A m \in TriggerNames : conf'[m] # None =>
            conf[m] # None /\ conf'[m].trigger = conf[m].trigger
    <3>1. conf[n] \in LocalSpecs /\ \A m \in TriggerNames \ {n} : conf'[m] = conf[m]
      BY <1>10 DEF RefreshTrigger, TypeOK
    <3>2. conf'[n] = [conf[n] EXCEPT !.url = docker[conf[n].trigger.target].port]
      BY <1>10 DEF RefreshTrigger, TypeOK
    <3>. QED BY <1>10, <3>1, <3>2 DEF RefreshTrigger, LocalSpecs
  <2>2. First
    BY <1>10, <2>1, TargetsKept DEF RefreshTrigger, bounds
  <2>. QED BY <1>10, <2>2 DEF RefreshTrigger, TargetsOK
<1>11. ASSUME NEW n \in TriggerNames, RemoveShadowed(n) \/ RemoveTrigger(n)
       PROVE  TargetsOK'
  <2>1. CASE RemoveShadowed(n)
    <3>1. UNCHANGED <<objects, kills, cmd>> /\ phase = "shadow" /\ phase' \in {"shadow", "done"}
      BY <2>1 DEF RemoveShadowed, At, Finish, store, bounds, locals
    <3>2. \A m \in TriggerNames : conf'[m] # None => conf'[m] = conf[m]
      BY <2>1 DEF RemoveShadowed, RemoveFromLocalConfig, Finish, store, TypeOK
    <3>3. First
      BY <3>1, <3>2, TargetsKept
    <3>. QED BY <3>1, <3>3 DEF TargetsOK
  <2>2. CASE RemoveTrigger(n)
    <3>1. UNCHANGED <<objects, kills, cmd, phase>> /\ work' = work \ {n}
      BY <2>2 DEF RemoveTrigger, bounds
    <3>2. conf'[n] = None /\ \A m \in TriggerNames : conf'[m] # None => conf'[m] = conf[m]
      BY <2>2 DEF RemoveTrigger, RemoveFromLocalConfig, TypeOK
    <3>3. First
      BY <3>1, <3>2, TargetsKept
    <3>. QED BY <3>1, <3>3 DEF TargetsOK
  <2>. QED BY <1>11, <2>1, <2>2
<1>12. CASE CreateRoute
  <2>1. UNCHANGED <<objects, kills, cmd>> /\ phase = "route" /\ phase' \in {"types", "done"}
        /\ objects[cmd.target] # None /\ cmd.target \in Consumers /\ cmd.object.config.out \in Types
    BY <1>12 DEF CreateRoute, At, Finish, CommandOK, TargetsOK, TypeOK, Commands, store, bounds, locals
  <2>2. CASE docker[cmd.target] = None
    BY <1>12, <2>1, <2>2, TargetsKept DEF CreateRoute, Finish, TargetsOK, store
  <2>3. CASE docker[cmd.target] # None
    <3>1. AutoName(cmd.target, cmd.object.config.out) \in TriggerNames
      BY <2>1 DEF TriggerNames, Filters
    <3>2. First
      BY <1>12, <2>1, <2>3, <3>1, TargetsCreate DEF CreateRoute
    <3>. QED BY <2>1, <3>2 DEF TargetsOK
  <2>. QED BY <2>2, <2>3
<1>13. ASSUME NEW f \in Filters, CreateTypeTrigger(f)
       PROVE  TargetsOK'
  <2>1. UNCHANGED <<objects, kills, cmd>> /\ phase = "types" /\ phase' \in {"types", "shadow", "done"}
        /\ objects[cmd.comp] # None /\ f \in types
    BY <1>13 DEF CreateTypeTrigger, At, Finish, TargetsOK, store, bounds, locals
  <2>2. CASE docker[cmd.comp] = None
    BY <1>13, <2>1, <2>2, TargetsKept DEF CreateTypeTrigger, Finish, TargetsOK, store
  <2>3. CASE docker[cmd.comp] # None
    <3>1. NewName(f) \in TriggerNames
      BY <2>1, NewNameType
    <3>2. First
      BY <1>13, <2>1, <2>3, <3>1, TargetsCreate DEF CreateTypeTrigger
    <3>. QED BY <2>1, <3>2 DEF TargetsOK
  <2>. QED BY <2>2, <2>3
<1>14. ASSUME NEW r \in old, Retarget(r)
       PROVE  TargetsOK'
  <2>1. UNCHANGED <<objects, kills, cmd>> /\ phase = "retarget" /\ phase' = "retarget"
        /\ objects[cmd.comp] # None /\ r.name \in TriggerNames
    BY <1>14 DEF Retarget, At, TargetsOK, TypeOK, bounds
  <2>2. First
    BY <1>14, <2>1, TargetsCreate DEF Retarget
  <2>. QED BY <2>1, <2>2 DEF TargetsOK
<1>. QED BY <1>1, <1>2, <1>3, <1>4, <1>5, <1>6, <1>7, <1>8, <1>9, <1>10, <1>11, <1>12, <1>13,
            <1>14 DEF Steps

LEMMA NextTargets ==
    TypeOK /\ CommandOK /\ EditsOK /\ TargetsOK /\ [Next]_vars => TargetsOK'
<1>. SUFFICES ASSUME TypeOK, CommandOK, EditsOK, TargetsOK, [Next]_vars PROVE TargetsOK'
  OBVIOUS
<1>1. CASE UNCHANGED vars
  BY <1>1 DEF vars, store, locals, bounds, TargetsOK
<1>2. CASE Kill
  BY <1>2 DEF Kill, Forget, NoCommand, TargetsOK, TypeOK
<1>3. ASSUME NEW c \in Containers, ContainerExit(c)
      PROVE  TargetsOK'
  BY <1>3 DEF ContainerExit, store, locals, TargetsOK
<1>. QED BY <1>1, <1>2, <1>3, InvocationTargets, StepTargets DEF Next

(* The invariant that carries the three results.                              *)
THEOREM Inductive == Spec => []IndInv
<1>1. Init => IndInv
  BY InitType, InitEdits, InitTargets DEF IndInv
<1>2. IndInv /\ [Next]_vars => IndInv'
  BY NextType, NextEdits, NextTargets DEF IndInv
<1>. QED BY <1>1, <1>2, PTL DEF Spec

(* Unless a command was killed, every trigger in broker.conf is for a         *)
(* component of the manifest whenever no command runs.                        *)
THEOREM NoDanglingTarget == Spec => []TargetsExist
<1>1. IndInv => TargetsExist
  BY DEF IndInv, TargetsOK, TargetsExist
<1>. QED BY <1>1, Inductive, PTL
=============================================================================

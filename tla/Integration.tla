----------------------------- MODULE Integration -----------------------------
(***************************************************************************)
(* One broker context of tmctl: the manifest (manifest.yaml), the broker's *)
(* trigger configuration (broker.conf) and the Docker containers, changed  *)
(* by one CLI command at a time.  A command is a sequence of file writes   *)
(* and Docker calls; between any two of them it may fail or be killed.     *)
(*                                                                         *)
(* Only triggers and runnable components are objects here: the broker's    *)
(* own manifest entry never changes while its context exists, and Secrets  *)
(* are part of the configuration (`spec') of the component they belong to. *)
(***************************************************************************)
EXTENDS Naturals, FiniteSets

CONSTANTS
    Targets,         \* names of targets, `create target'
    Transformations, \* names of transformations, `create transformation'
    Sources,         \* names of sources, `create source'
    Broker,          \* the broker's container
    Types,           \* event types that filters and outputs mention
    Patterns,        \* those of Types written with a `*': prefix, suffix filters
    NoFilter,        \* the filter of a trigger that takes every event
    ExpectedType,    \* first consumed event type of a target, or None
    OwnType,         \* the `<name>.output' type of a transformation
    UserNames,       \* names given with `create trigger --name'
    Prefixed,        \* trigger names that begin with `<user name>-'
    Specs,           \* contents of a component's spec
    Ports,           \* host ports
    None,            \* absence of an object, a trigger, a container ...
    MaxTriggers,     \* bound on triggers: a command starts if all it adds have room
    MaxFaults,       \* bound on Docker failures
    MaxKills,        \* bound on killed commands
    MaxExits         \* bound on containers that exit by themselves

Consumers  == Targets \cup Transformations
Components == Consumers \cup Sources
Containers == Components \cup {Broker}
Filters    == Types \cup {NoFilter}

(* Names of triggers: a generated name is a digest of the target's name    *)
(* and the filter; `--name n' gives n itself, or n-1, n-2, ... when there  *)
(* are filters.                                                            *)
AutoName(c, f) == <<"auto", c, f>>
UserName(n, i) == <<n, i>>
TriggerNames == {AutoName(c, f) : c \in Consumers, f \in Filters}
                  \cup {UserName(n, i) : n \in UserNames, i \in 0 .. Cardinality(Types)}

Configs == [spec: Specs, out: Types \cup {None}]
Objects == [config: Configs]
Triggers    == [filter: Filters, target: Consumers]
LocalSpecs  == [trigger: Triggers, url: Ports]
Edits       == [name: TriggerNames, trigger: Triggers \cup {None}]
DockerState == [running: BOOLEAN, port: Ports, config: Configs \cup {None},
                sink: Ports \cup {None}]

ASSUME SetsAssumption ==
    /\ IsFiniteSet(Types)
    /\ Patterns \subseteq Types
    /\ Targets \cap Transformations = {}
    /\ Consumers \cap Sources = {}
    /\ Broker \notin Components
    /\ None \notin Components \cup Types \cup Ports \cup Triggers \cup LocalSpecs
                     \cup Objects \cup DockerState \cup Configs \cup Edits
    /\ NoFilter \notin Types
ASSUME MapsAssumption ==
    /\ ExpectedType \in [Targets -> Types \cup {None}]
    /\ OwnType \in [Transformations -> Types]
    /\ Prefixed \in [UserNames -> SUBSET TriggerNames]
    /\ \A n \in UserNames : \A i \in 1 .. Cardinality(Types) : UserName(n, i) \in Prefixed[n]
ASSUME BoundsAssumption == MaxTriggers \in Nat /\ MaxFaults \in Nat /\ MaxKills \in Nat /\ MaxExits \in Nat
-----------------------------------------------------------------------------
VARIABLES
    objects,  \* manifest.yaml: the components, by name
    triggers, \* manifest.yaml: the triggers, by name
    conf,     \* broker.conf: what the broker delivers, by trigger name
    docker,   \* the containers
    phase,    \* where the running command is, "idle" when there is none
    cmd,      \* the command with its arguments
    restart,  \* whether the command changed the manifest object it starts
    comps,    \* components a loop of the command has still to visit
    work,     \* triggers a loop of the command has still to visit
    types,    \* filters the command has still to create a trigger for
    old,      \* triggers collected before the command changes any of them
    pend,     \* a trigger written to broker.conf and not yet to the manifest
    outcome,  \* how the command ended: "ok", "error", "panic"
    faults, kills, exits

store  == <<objects, triggers, conf>>
locals == <<cmd, restart, comps, work, types, old, pend>>
bounds == <<faults, kills, exits>>
vars   == <<store, docker, phase, locals, outcome, bounds>>

Commands ==
    [op: {"none", "target", "transformation", "source", "trigger",
          "delete", "delete trigger", "start", "stop"},
     comp: Components \cup {None}, object: Objects \cup {None},
     types: SUBSET Types, target: Consumers \cup {None},
     name: UserNames \cup {None}, trigger: TriggerNames \cup {None},
     restart: BOOLEAN]
NoCommand == [op |-> "none", comp |-> None, object |-> None, types |-> {},
              target |-> None, name |-> None, trigger |-> None, restart |-> FALSE]

Phases == {"idle", "add", "start", "update", "route", "types", "shadow", "retarget",
           "prune", "remove", "object", "cleanup", "startall", "stopall", "done"}

TypeOK ==
    /\ objects \in [Components -> Objects \cup {None}]
    /\ triggers \in [TriggerNames -> Triggers \cup {None}]
    /\ conf \in [TriggerNames -> LocalSpecs \cup {None}]
    /\ docker \in [Containers -> DockerState \cup {None}]
    /\ phase \in Phases
    /\ cmd \in Commands
    /\ restart \in BOOLEAN
    /\ comps \subseteq Containers
    /\ work \subseteq TriggerNames
    /\ types \subseteq Filters
    /\ old \subseteq [name: TriggerNames, filter: Filters]
    /\ pend \in Edits \cup {None}
    /\ outcome \in {"ok", "error", "panic"}
    /\ faults \in Nat /\ kills \in Nat /\ exits \in Nat

(* `tmctl create broker' has just succeeded.                                *)
Init ==
    /\ objects = [c \in Components |-> None]
    /\ triggers = [n \in TriggerNames |-> None]
    /\ conf = [n \in TriggerNames |-> None]
    /\ \E p \in Ports :
         docker = [c \in Containers |->
                     IF c = Broker
                     THEN [running |-> TRUE, port |-> p, config |-> None, sink |-> None]
                     ELSE None]
    /\ phase = "idle" /\ cmd = NoCommand /\ restart = FALSE
    /\ comps = {} /\ work = {} /\ types = {} /\ old = {} /\ pend = None
    /\ outcome = "ok"
    /\ faults = 0 /\ kills = 0 /\ exits = 0
-----------------------------------------------------------------------------
(* The end of a command.  "done" is the return to the shell; the locals of *)
(* the process are gone after it.                                          *)
Forget ==
    /\ cmd' = NoCommand /\ restart' = FALSE /\ outcome' = "ok"
    /\ comps' = {} /\ work' = {} /\ types' = {} /\ old' = {} /\ pend' = None

Finish(o) == phase' = "done" /\ outcome' = o /\ UNCHANGED locals

Exit ==
    /\ phase = "done" /\ phase' = "idle"
    /\ Forget
    /\ UNCHANGED <<store, docker, bounds>>

(* Interrupted from the keyboard or killed, between any two steps.          *)
Kill ==
    /\ phase \notin {"idle", "done"} /\ kills < MaxKills
    /\ phase' = "idle" /\ kills' = kills + 1
    /\ Forget
    /\ UNCHANGED <<store, docker, faults, exits>>

-----------------------------------------------------------------------------
(* docker.Container.Start.  The host port is chosen before the old         *)
(* container is removed, so it is one no running container is bound to.     *)
Running(c) == docker[c] # None /\ docker[c].running
OpenPorts  == Ports \ {docker[c].port : c \in {d \in Containers : Running(d)}}

(* start gives a transformation a sink too, which create does not.          *)
Produces(c) == c \in Sources \/ (c \in Transformations /\ cmd.op = "start")

Sink(c)   == IF Produces(c) /\ docker[Broker] # None THEN docker[Broker].port ELSE None
Config(c) == IF c \in Components /\ objects[c] # None THEN objects[c].config ELSE None

NewContainer(c, p, up) ==
    [running |-> up, port |-> p, config |-> Config(c), sink |-> Sink(c)]

(* Whether Start gets as far as creating a container: it returns a running *)
(* one when no restart is asked for, and fails on the name of a stopped one.*)
Creates(c, again)  == again \/ docker[c] = None
Conflict(c, again) == ~again /\ docker[c] # None /\ ~docker[c].running

(* Mutant: a running container is returned even when a restart is asked for. *)
StartContainerKeepsRunning(c, again) ==
    \/ Running(c) /\ UNCHANGED docker
    \/ /\ Creates(c, again)
       /\ \E p \in OpenPorts : docker' = [docker EXCEPT ![c] = NewContainer(c, p, TRUE)]

StartContainer(c, again) ==
    \/ ~again /\ Running(c) /\ UNCHANGED docker
    \/ /\ Creates(c, again)
       /\ \E p \in OpenPorts : docker' = [docker EXCEPT ![c] = NewContainer(c, p, TRUE)]

(* The call stopped half way: before any change (pulling the image), with  *)
(* the old container removed, or with the new one created, not running or   *)
(* running with an error in its log.                                        *)
StartBroken(c, again) ==
    \/ UNCHANGED docker
    \/ /\ Creates(c, again)
       /\ \/ docker' = [docker EXCEPT ![c] = None]
          \/ \E p \in OpenPorts, up \in BOOLEAN :
               docker' = [docker EXCEPT ![c] = NewContainer(c, p, up)]

(* Start returns an error to the command, which returns it at once.         *)
StartFails(c, again) ==
    \/ /\ faults < MaxFaults /\ faults' = faults + 1 /\ UNCHANGED <<kills, exits>>
       /\ StartBroken(c, again)
       /\ Finish("error")
    \/ /\ Conflict(c, again)
       /\ Finish("error")
       /\ UNCHANGED <<docker, bounds>>
    \/ /\ kills < MaxKills /\ kills' = kills + 1 /\ UNCHANGED <<faults, exits>>
       /\ StartBroken(c, again)
       /\ phase' = "idle" /\ Forget

(* A container stops by itself.                                             *)
ContainerExit(c) ==
    /\ Running(c) /\ exits < MaxExits
    /\ docker' = [docker EXCEPT ![c].running = FALSE]
    /\ exits' = exits + 1
    /\ UNCHANGED <<store, phase, locals, outcome, faults, kills>>
-----------------------------------------------------------------------------
(* The commands.  Arguments the command rejects before it changes anything *)
(* are left out: they are the guards below.                                 *)
Room(k) == Cardinality({n \in TriggerNames : conf[n] # None}) + k <= MaxTriggers

Begin(first, command) ==
    /\ phase = "idle" /\ phase' = first /\ cmd' = command
    /\ UNCHANGED <<store, docker, restart, pend, outcome, bounds>>

CreateTarget(c, s, E) ==
    /\ Begin("add", [NoCommand EXCEPT !.op = "target", !.comp = c, !.types = E,
                        !.object = [config |-> [spec |-> s, out |-> None]]])
    /\ types' = E /\ UNCHANGED <<comps, work, old>>

(* The type of the events a transformation emits: the one its spec sets,   *)
(* else the first one its target consumes, else `<name>.output'.            *)
OutputType(c, out, target) ==
    IF out # None THEN out
    ELSE IF target \in Targets /\ ExpectedType[target] # None THEN ExpectedType[target]
    ELSE OwnType[c]

(* Its label, which only the wizard reads, is left out here.                 *)
TransformationObject(c, s, out, target) ==
    [config |-> [spec |-> s, out |-> OutputType(c, out, target)]]

CreateTransformation(c, s, out, E, target) ==
    /\ target # None => objects[target] # None
    /\ Begin("add", [NoCommand EXCEPT !.op = "transformation", !.comp = c, !.types = E,
                        !.target = target,
                        !.object = TransformationObject(c, s, out, target)])
    /\ types' = E /\ UNCHANGED <<comps, work, old>>

CreateSource(c, s) ==
    /\ docker[Broker] # None
    /\ Begin("add", [NoCommand EXCEPT !.op = "source", !.comp = c,
                        !.object = [config |-> [spec |-> s, out |-> None]]])
    /\ UNCHANGED <<comps, work, types, old>>

(* Mutant: the triggers of earlier filters are not looked up.               *)
OldTriggersForgotten(n) == {}

(* The triggers a `create trigger --name n' made before: those whose name   *)
(* begins with `n-'.                                                        *)
OldTriggers(n) ==
    IF n = None THEN {} ELSE {m \in Prefixed[n] : triggers[m] # None}

CreateTrigger(n, c, E) ==
    /\ objects[c] # None
    /\ Begin("types", [NoCommand EXCEPT !.op = "trigger", !.comp = c, !.types = E, !.name = n])
    /\ types' = (IF E = {} THEN {NoFilter} ELSE E) /\ UNCHANGED <<comps, work>>
    /\ old' = {[name |-> m, filter |-> NoFilter] : m \in OldTriggers(n)}

Delete(c) ==
    /\ objects[c] # None
    /\ Begin("remove", [NoCommand EXCEPT !.op = "delete", !.comp = c])
    /\ UNCHANGED <<comps, work, types, old>>

DeleteTrigger(n) ==
    /\ triggers[n] # None
    /\ Begin("cleanup", [NoCommand EXCEPT !.op = "delete trigger", !.trigger = n])
    /\ work' = {n} /\ UNCHANGED <<comps, types, old>>

Present == {c \in Components : objects[c] # None}

Start(again) ==
    /\ Begin("startall", [NoCommand EXCEPT !.op = "start", !.restart = again])
    /\ comps' = {Broker} \cup Present /\ UNCHANGED <<work, types, old>>

Stop ==
    /\ Begin("stopall", [NoCommand EXCEPT !.op = "stop"])
    /\ comps' = {Broker} \cup Present /\ UNCHANGED <<work, types, old>>

-----------------------------------------------------------------------------
(* Edits of triggers.  broker.conf is written first, then the manifest.     *)
TargetTriggers(c) == {n \in TriggerNames : conf[n] # None /\ conf[n].trigger.target = c}

(* Mutant: an existing entry is left as it is.                              *)
WriteLocalConfigKeeps(n, f, c) ==
    LET t == [filter |-> f, target |-> c]
    IN  /\ conf' = IF conf[n] # None THEN conf
                   ELSE [conf EXCEPT ![n] = [trigger |-> t, url |-> docker[c].port]]
        /\ pend' = [name |-> n, trigger |-> t]

(* The trigger n with filter f and the URL of the target's container, put   *)
(* into broker.conf; the manifest follows in WriteManifest.                 *)
WriteLocalConfig(n, f, c) ==
    LET t == [filter |-> f, target |-> c]
    IN  /\ conf' = [conf EXCEPT ![n] = [trigger |-> t, url |-> docker[c].port]]
        /\ pend' = [name |-> n, trigger |-> t]

(* Mutant: the manifest keeps the removed trigger.                          *)
RemoveFromLocalConfigOnly(n) == conf' = [conf EXCEPT ![n] = None] /\ UNCHANGED pend

RemoveFromLocalConfig(n) ==
    /\ conf' = [conf EXCEPT ![n] = None]
    /\ pend' = [name |-> n, trigger |-> None]

WriteManifest ==
    /\ pend # None
    /\ triggers' = [triggers EXCEPT ![pend.name] = pend.trigger]
    /\ pend' = None
    /\ UNCHANGED <<objects, conf, docker, phase, cmd, restart, comps, work, types, old,
                   outcome, bounds>>

(* The position of a step between two edits.                               *)
At(ph) == phase = ph /\ pend = None

-----------------------------------------------------------------------------
(* create target, transformation, source.                                   *)

(* Mutant: only a new object counts as a change.                            *)
AddObjectNewOnly ==
    /\ At("add")
    /\ objects' = [objects EXCEPT ![cmd.comp] = cmd.object]
    /\ restart' = (objects[cmd.comp] = None)
    /\ phase' = "start"
    /\ UNCHANGED <<triggers, conf, docker, cmd, comps, work, types, old, pend, outcome, bounds>>

(* manifest.Add: whether the object is new or differs from the one there.   *)
(* The Go values are compared, and one read from YAML may differ in its      *)
(* types from an equal one just built (a source always does), or in the       *)
(* label of a transformation.                                              *)
AddObject ==
    /\ At("add")
    /\ objects' = [objects EXCEPT ![cmd.comp] = cmd.object]
    /\ restart' \in {cmd.comp \in Sources \/ objects[cmd.comp] # cmd.object, TRUE}
    /\ phase' = "start"
    /\ UNCHANGED <<triggers, conf, docker, cmd, comps, work, types, old, pend, outcome, bounds>>

AfterUpdate ==
    IF cmd.op = "transformation" /\ cmd.target # None THEN "route" ELSE "types"

StartComponent ==
    /\ At("start")
    /\ UNCHANGED store
    /\ \/ /\ StartContainer(cmd.comp, restart)
          /\ UNCHANGED bounds
          /\ IF cmd.op = "source"
             THEN Finish("ok")
             ELSE /\ phase' = (IF restart THEN "update" ELSE AfterUpdate)
                  /\ work' = (IF restart THEN TargetTriggers(cmd.comp) ELSE {})
                  /\ UNCHANGED <<cmd, restart, comps, types, old, pend, outcome>>
       \/ StartFails(cmd.comp, restart)

(* Mutant: the URL is left as it was.                                       *)
RefreshTriggerKeepsUrl(n) ==
    /\ phase \in {"update", "startall"} /\ n \in work
    /\ work' = work \ {n}
    /\ UNCHANGED <<store, docker, phase, cmd, restart, comps, types, old, pend, outcome, bounds>>

(* Mutant: the list is made afresh after each write.                        *)
RefreshTriggerAfresh(n) ==
    /\ phase \in {"update", "startall"} /\ n \in work
    /\ conf[n] # None /\ docker[conf[n].trigger.target] # None
    /\ conf' = [conf EXCEPT ![n].url = docker[conf[n].trigger.target].port]
    /\ work' = TargetTriggers(conf[n].trigger.target)
    /\ UNCHANGED <<objects, triggers, docker, phase, cmd, restart, comps, types, old, pend,
                   outcome, bounds>>

(* updateTriggers, and the same loop of `start': the trigger as it is in   *)
(* broker.conf, with the URL of its target's container.                    *)
RefreshTrigger(n) ==
    /\ phase \in {"update", "startall"} /\ n \in work
    /\ conf[n] # None /\ docker[conf[n].trigger.target] # None
    /\ conf' = [conf EXCEPT ![n].url = docker[conf[n].trigger.target].port]
    /\ work' = work \ {n}
    /\ UNCHANGED <<objects, triggers, docker, phase, cmd, restart, comps, types, old, pend,
                   outcome, bounds>>

UpdateDone ==
    /\ At("update") /\ work = {}
    /\ phase' = AfterUpdate
    /\ UNCHANGED <<store, docker, locals, outcome, bounds>>

(* The trigger from a new transformation to its target.                    *)
CreateRoute ==
    /\ At("route")
    /\ IF docker[cmd.target] = None
       THEN Finish("error") /\ UNCHANGED store
       ELSE /\ old' = {[name |-> n, filter |-> conf[n].trigger.filter] :
                         n \in TargetTriggers(cmd.target)}
            /\ WriteLocalConfig(AutoName(cmd.target, cmd.object.config.out),
                                cmd.object.config.out, cmd.target)
            /\ phase' = "types"
            /\ UNCHANGED <<objects, triggers, cmd, restart, comps, work, types, outcome>>
    /\ UNCHANGED <<docker, bounds>>

(* Mutant: the target keeps its own triggers.                               *)
ShadowedNone(f) == {}

(* The old triggers of the target that the visit of event type f stops at. *)
Shadowed(f) == {r.name : r \in {q \in old : \/ q.filter = NoFilter
                                            \/ q.filter = f /\ f \notin Patterns}}

(* One trigger per event type: `<name>-<i>' for a named one.               *)
NewName(f) ==
    IF cmd.name = None THEN AutoName(cmd.comp, f)
    ELSE IF f = NoFilter THEN UserName(cmd.name, 0)
    ELSE UserName(cmd.name, Cardinality(cmd.types) - Cardinality(types) + 1)

CreateTypeTrigger(f) ==
    /\ At("types") /\ f \in types
    /\ IF docker[cmd.comp] = None
       THEN Finish("error") /\ UNCHANGED store
       ELSE /\ WriteLocalConfig(NewName(f), f, cmd.comp)
            /\ types' = types \ {f}
            /\ IF cmd.op = "transformation"
               THEN phase' = "shadow" /\ work' = Shadowed(f) /\ old' = old
               ELSE /\ old' = {r \in old : r.name # NewName(f)}
                    /\ UNCHANGED <<phase, work>>
            /\ UNCHANGED <<objects, triggers, cmd, restart, comps, outcome>>
    /\ UNCHANGED <<docker, bounds>>

(* A transformation takes over the event type: the target's own triggers    *)
(* for it go.  An old trigger without filters has no Filters[0].            *)
RemoveShadowed(n) ==
    /\ At("shadow") /\ n \in work
    /\ IF [name |-> n, filter |-> NoFilter] \in old
       THEN Finish("panic") /\ UNCHANGED store
       ELSE /\ RemoveFromLocalConfig(n)
            /\ work' = work \ {n}
            /\ UNCHANGED <<objects, triggers, phase, cmd, restart, comps, types, old, outcome>>
    /\ UNCHANGED <<docker, bounds>>

ShadowDone ==
    /\ At("shadow") /\ work = {}
    /\ phase' = "types"
    /\ UNCHANGED <<store, docker, locals, outcome, bounds>>

(* No event types were named: everything the target got but the            *)
(* transformation's own events is sent through the transformation, and     *)
(* `create trigger --name' drops the triggers of its earlier filters.       *)
TypesDone ==
    /\ At("types") /\ types = {}
    /\ \/ /\ cmd.op = "transformation" /\ cmd.types = {}
          /\ phase' = "retarget"
          /\ work' = {r.name : r \in {q \in old :
                        q.filter # cmd.object.config.out \/ q.filter \in Patterns}}
          /\ UNCHANGED <<cmd, restart, comps, types, old, pend, outcome>>
       \/ /\ cmd.op = "trigger"
          /\ phase' = "prune" /\ work' = {r.name : r \in old}
          /\ UNCHANGED <<cmd, restart, comps, types, old, pend, outcome>>
       \/ /\ \/ cmd.op = "target"
             \/ cmd.op = "transformation" /\ cmd.types # {}
          /\ Finish("ok")
    /\ UNCHANGED <<store, docker, bounds>>

Retarget(r) ==
    /\ At("retarget") /\ r \in old /\ r.name \in work
    /\ docker[cmd.comp] # None
    /\ WriteLocalConfig(r.name, r.filter, cmd.comp)
    /\ work' = work \ {r.name}
    /\ UNCHANGED <<objects, triggers, docker, phase, cmd, restart, comps, types, old,
                   outcome, bounds>>

-----------------------------------------------------------------------------
(* delete, and the end of `create trigger'.                                 *)

RemoveContainer ==
    /\ At("remove") /\ phase' = "object"
    /\ \/ docker' = [docker EXCEPT ![cmd.comp] = None] /\ UNCHANGED bounds
       \/ faults < MaxFaults /\ faults' = faults + 1 /\ UNCHANGED <<docker, kills, exits>>
    /\ UNCHANGED <<store, locals, outcome>>

(* Mutant: the triggers of a deleted component stay.                        *)
RemoveObjectOnly ==
    /\ At("object") /\ phase' = "cleanup"
    /\ objects' = [objects EXCEPT ![cmd.comp] = None]
    /\ UNCHANGED <<triggers, conf, docker, cmd, restart, comps, work, types, old, pend,
                   outcome, bounds>>

(* manifest.Remove, and the triggers cleanupTriggers is about to visit.     *)
RemoveObject ==
    /\ At("object") /\ phase' = "cleanup"
    /\ objects' = [objects EXCEPT ![cmd.comp] = None]
    /\ work' = TargetTriggers(cmd.comp)
    /\ UNCHANGED <<triggers, conf, docker, cmd, restart, comps, types, old, pend, outcome,
                   bounds>>

RemoveTrigger(n) ==
    /\ At("cleanup") \/ At("prune")
    /\ n \in work /\ work' = work \ {n}
    /\ RemoveFromLocalConfig(n)
    /\ UNCHANGED <<objects, triggers, docker, phase, cmd, restart, comps, types, old,
                   outcome, bounds>>

LoopDone ==
    /\ pend = None /\ work = {} /\ comps = {}
    /\ phase \in {"cleanup", "prune", "retarget", "startall", "stopall"}
    /\ Finish("ok")
    /\ UNCHANGED <<store, docker, bounds>>

-----------------------------------------------------------------------------
(* start, stop.                                                             *)

StartNext(c) ==
    /\ At("startall") /\ work = {} /\ c \in comps
    /\ Broker \in comps => c = Broker
    /\ UNCHANGED store
    /\ \/ /\ StartContainer(c, cmd.restart)
          /\ comps' = comps \ {c}
          /\ work' = (IF c \in Consumers THEN TargetTriggers(c) ELSE {})
          /\ UNCHANGED <<phase, cmd, restart, types, old, pend, outcome, bounds>>
       \/ StartFails(c, cmd.restart)

StopNext(c) ==
    /\ At("stopall") /\ c \in comps
    /\ comps' = comps \ {c}
    /\ \/ docker' = [docker EXCEPT ![c] = None] /\ UNCHANGED bounds
       \/ faults < MaxFaults /\ faults' = faults + 1 /\ UNCHANGED <<docker, kills, exits>>
    /\ UNCHANGED <<store, phase, cmd, restart, work, types, old, pend, outcome>>

-----------------------------------------------------------------------------
Steps ==
    \/ WriteManifest \/ AddObject \/ StartComponent \/ UpdateDone \/ CreateRoute
    \/ ShadowDone \/ TypesDone \/ RemoveContainer \/ RemoveObject \/ LoopDone \/ Exit
    \/ \E n \in TriggerNames : RefreshTrigger(n) \/ RemoveShadowed(n) \/ RemoveTrigger(n)
    \/ \E f \in Filters : CreateTypeTrigger(f)
    \/ \E r \in old : Retarget(r)
    \/ \E c \in Containers : StartNext(c) \/ StopNext(c)

Invocations ==
    \/ \E c \in Targets, s \in Specs, E \in SUBSET Types : Room(Cardinality(E)) /\ CreateTarget(c, s, E)
    \/ \E c \in Transformations, s \in Specs, out \in (Types \ Patterns) \cup {None},
          E \in SUBSET Types, t \in Consumers \cup {None} :
          Room(Cardinality(E) + IF t = None THEN 0 ELSE 1) /\ CreateTransformation(c, s, out, E, t)
    \/ \E c \in Sources, s \in Specs : CreateSource(c, s)
    \/ \E n \in UserNames \cup {None}, c \in Consumers, E \in SUBSET Types :
          Room(IF E = {} THEN 1 ELSE Cardinality(E)) /\ CreateTrigger(n, c, E)
    \/ \E c \in Components : Delete(c)
    \/ \E n \in TriggerNames : DeleteTrigger(n)
    \/ \E again \in BOOLEAN : Start(again)
    \/ Stop

Next == Invocations \/ Steps \/ Kill \/ \E c \in Containers : ContainerExit(c)

Spec == Init /\ [][Next]_vars

(* A command that runs goes on: the process is scheduled and every Docker  *)
(* call returns.                                                           *)
FairSpec == Spec /\ WF_vars(Steps)
=============================================================================

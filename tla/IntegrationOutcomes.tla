-------------------------- MODULE IntegrationOutcomes --------------------------
(***************************************************************************)
(* What the commands of one broker context have done when they return, for    *)
(* every set of names, types and ports and every bound.                       *)
(***************************************************************************)
EXTENDS IntegrationProofs

USE DEF store, locals, bounds

-----------------------------------------------------------------------------
(* What a step does to the command and to the containers.                    *)

LEMMA CommandKept ==
    ASSUME Steps
    PROVE  cmd' = cmd \/ cmd' = NoCommand
BY DEF Steps, WriteManifest, AddObject, StartComponent, UpdateDone, CreateRoute, ShadowDone, TypesDone,
       RemoveContainer, RemoveObject, LoopDone, Exit, RefreshTrigger, RemoveShadowed, RemoveTrigger,
       CreateTypeTrigger, Retarget, StartNext, StopNext, StartFails, Finish, Forget

(* A start, failed or not, touches one container.                            *)
LEMMA TouchesOne ==
    ASSUME TypeOK, NEW c \in Containers, NEW again,
           StartContainer(c, again) \/ StartBroken(c, again) \/ UNCHANGED docker
    PROVE  \A d \in Containers \ {c} : docker'[d] = docker[d]
BY DEF TypeOK, StartContainer, StartBroken

(* A start that succeeds returns the container that runs or makes a new one.  *)
LEMMA Starts ==
    ASSUME TypeOK, NEW c \in Containers, NEW again \in BOOLEAN, StartContainer(c, again)
    PROVE  /\ docker'[c] # None /\ docker'[c].running
           /\ \/ ~again /\ Running(c) /\ UNCHANGED docker
              \/ /\ again \/ docker[c] = None
                 /\ docker'[c].config = Config(c) /\ docker'[c].sink = Sink(c)
<1>1. docker' \in [Containers -> DockerState \cup {None}]
  BY StartType
<1>2. CASE ~again /\ Running(c) /\ UNCHANGED docker
  BY <1>2 DEF Running
<1>3. CASE /\ Creates(c, again)
           /\ \E p \in OpenPorts : docker' = [docker EXCEPT ![c] = NewContainer(c, p, TRUE)]
  <2>1. PICK p \in OpenPorts : docker' = [docker EXCEPT ![c] = NewContainer(c, p, TRUE)]
    BY <1>3
  <2>2. docker'[c] = NewContainer(c, p, TRUE) /\ p \in Ports
    BY <2>1 DEF TypeOK, OpenPorts
  <2>3. docker'[c].running /\ docker'[c].config = Config(c) /\ docker'[c].sink = Sink(c)
    BY <2>2 DEF NewContainer
  <2>4. docker'[c] # None
    <3>1. Config(c) \in Configs \cup {None} /\ Sink(c) \in Ports \cup {None}
      BY DEF TypeOK, Config, Objects, Sink, DockerState, Containers
    <3>2. NewContainer(c, p, TRUE) \in DockerState
      BY <2>2, <3>1 DEF NewContainer, DockerState
    <3> QED BY <2>2, <3>2, SetsAssumption
  <2> QED BY <1>3, <2>3, <2>4 DEF Creates
<1> QED BY <1>2, <1>3 DEF StartContainer

(* A trigger that is refreshed keeps filter and target and gets the port.    *)
LEMMA Refreshes ==
    ASSUME TypeOK, NEW n \in TriggerNames, RefreshTrigger(n)
    PROVE  /\ conf[n] # None /\ conf'[n] # None /\ conf'[n].trigger = conf[n].trigger
           /\ docker[conf[n].trigger.target] # None
           /\ conf'[n].url = docker[conf[n].trigger.target].port
           /\ \A m \in TriggerNames \ {n} : conf'[m] = conf[m]
<1>1. conf[n] \in LocalSpecs /\ \A m \in TriggerNames \ {n} : conf'[m] = conf[m]
  BY DEF RefreshTrigger, TypeOK
<1>2. conf'[n] = [conf[n] EXCEPT !.url = docker[conf[n].trigger.target].port]
  BY DEF RefreshTrigger, TypeOK
<1>3. docker[conf[n].trigger.target] \in DockerState
  BY <1>1 DEF RefreshTrigger, TypeOK, LocalSpecs, Triggers, Containers, Components
<1>4. conf'[n] \in LocalSpecs
  BY <1>1, <1>2, <1>3 DEF LocalSpecs, DockerState
<1>5. conf'[n].trigger = conf[n].trigger /\ conf'[n].url = docker[conf[n].trigger.target].port
  BY <1>1, <1>2 DEF LocalSpecs
<1> QED BY <1>1, <1>4, <1>5, SetsAssumption DEF RefreshTrigger

(* A trigger that is written has the port of its target's container.          *)
LEMMA Writes ==
    ASSUME TypeOK, NEW n \in TriggerNames, NEW f, NEW c, WriteLocalConfig(n, f, c)
    PROVE  /\ conf'[n] = [trigger |-> [filter |-> f, target |-> c], url |-> docker[c].port]
           /\ pend' = [name |-> n, trigger |-> [filter |-> f, target |-> c]]
           /\ \A m \in TriggerNames \ {n} : conf'[m] = conf[m]
BY DEF WriteLocalConfig, TypeOK

LEMMA TargetKinds ==
    ASSUME TypeOK, NEW n \in TriggerNames, conf[n] # None
    PROVE  conf[n].trigger.target \in Consumers /\ conf[n] \in LocalSpecs
BY DEF TypeOK, LocalSpecs, Triggers

(* A container that exits keeps its port and what it was started with.       *)
LEMMA Exits ==
    ASSUME TypeOK, NEW c \in Containers, ContainerExit(c)
    PROVE  /\ \A d \in Containers : (docker'[d] = None) = (docker[d] = None)
           /\ \A d \in Containers : docker[d] # None =>
                 docker'[d].port = docker[d].port /\ docker'[d].config = docker[d].config
                 /\ docker'[d].sink = docker[d].sink
<1>1. docker[c] \in DockerState /\ docker[c] # None
  BY DEF ContainerExit, Running, TypeOK
<1>2. docker'[c] = [docker[c] EXCEPT !.running = FALSE] /\ \A d \in Containers \ {c} : docker'[d] = docker[d]
  BY DEF ContainerExit, TypeOK
<1>3. docker'[c].port = docker[c].port /\ docker'[c].config = docker[c].config
      /\ docker'[c].sink = docker[c].sink
  BY <1>1, <1>2 DEF DockerState
<1>4. docker'[c] \in DockerState
  BY <1>1, <1>2 DEF DockerState
<1>5. docker'[c] # None
  BY <1>4, SetsAssumption
<1> QED BY <1>1, <1>2, <1>3, <1>5

-----------------------------------------------------------------------------
(* start.                                                                    *)
(* What `start' has done: while the broker has not been visited, nothing has; *)
(* a component it has visited has a container of that visit, and each of its   *)
(* triggers has the container's port or is still to be refreshed.            *)
Visited(c) ==
    /\ docker[c] # None
    /\ exits = 0 => docker[c].running
    /\ c \in Consumers => \A n \in TargetTriggers(c) : n \in work \/ conf[n].url = docker[c].port
    /\ cmd.restart /\ c \in Components => docker[c].config = Config(c) /\ docker[c].sink = Sink(c)

StartOK ==
    cmd.op = "start" =>
        /\ phase \in {"startall", "done"}
        /\ Broker \in comps => {Broker} \cup Present \subseteq comps
        /\ \A c \in ({Broker} \cup Present) \ comps : Visited(c)
        /\ phase = "done" /\ outcome = "ok" => comps = {} /\ work = {}

LEMMA VisitedKept ==
    ASSUME NEW d \in Containers, Visited(d), docker'[d] = docker[d], docker'[Broker] = docker[Broker],
           UNCHANGED <<objects, conf, cmd, exits>>, work \subseteq work'
    PROVE  Visited(d)'
<1>1. (\A n \in TargetTriggers(d) : n \in work \/ conf[n].url = docker[d].port)
      => (\A n \in TargetTriggers(d) : n \in work \/ conf[n].url = docker[d].port)'
  BY DEF TargetTriggers
<1>2. Config(d)' = Config(d) /\ Sink(d)' = Sink(d)
  BY DEF Config, Sink, Produces
<1> QED BY <1>1, <1>2 DEF Visited

LEMMA StartStays ==
    ASSUME IndInv, StartOK, [Next]_vars
    PROVE  StartOK'
<1>. USE DEF IndInv
<1>1. CASE UNCHANGED vars
  BY <1>1 DEF vars, StartOK, Visited, TargetTriggers, Config, Sink, Produces, Present
<1>2. CASE Invocations
  <2>1. CASE \E again \in BOOLEAN : Start(again)
    <3>1. phase' = "startall" /\ comps' = {Broker} \cup Present /\ objects' = objects
      BY <2>1 DEF Start, Begin
    <3>2. Present' = Present
      BY <3>1 DEF Present
    <3> QED BY <3>1, <3>2 DEF StartOK
  <2>2. CASE ~\E again \in BOOLEAN : Start(again)
    <3>1. cmd'.op # "start"
      BY <1>2, <2>2 DEF Invocations, CreateTarget, CreateTransformation, CreateSource, CreateTrigger,
                        Delete, DeleteTrigger, Stop, Begin, NoCommand
    <3> QED BY <3>1 DEF StartOK
  <2> QED BY <2>1, <2>2
<1>3. CASE Kill
  BY <1>3 DEF Kill, Forget, NoCommand, StartOK
<1>4. ASSUME NEW c \in Containers, ContainerExit(c)
      PROVE  StartOK'
  <2>1. /\ \A d \in Containers : (docker'[d] = None) = (docker[d] = None)
        /\ \A d \in Containers : docker[d] # None =>
              docker'[d].port = docker[d].port /\ docker'[d].config = docker[d].config
              /\ docker'[d].sink = docker[d].sink
    BY <1>4, Exits
  <2>2. exits' # 0 /\ UNCHANGED <<objects, conf, cmd, phase, outcome, comps, work>>
    BY <1>4 DEF ContainerExit, TypeOK
  <2>3. \A d \in Containers : Config(d)' = Config(d) /\ Sink(d)' = Sink(d)
    BY <2>1, <2>2 DEF Config, Sink, Produces, Containers
  <2>4. ASSUME NEW d \in Containers, Visited(d)
        PROVE  Visited(d)'
    BY <2>1, <2>2, <2>3, <2>4 DEF Visited, TargetTriggers
  <2>5. Present' = Present /\ {Broker} \cup Present \subseteq Containers
    BY <2>2 DEF Present, Containers
  <2> QED BY <2>2, <2>4, <2>5 DEF StartOK
<1>5. ASSUME Steps, cmd.op # "start"
      PROVE  StartOK'
  BY <1>5, CommandKept DEF StartOK, NoCommand
<1>6. ASSUME Steps, cmd.op = "start"
      PROVE  StartOK'
  <2>0. phase \in {"startall", "done"} /\ pend = None
    BY <1>6 DEF StartOK, EditsOK
  <2>p. {Broker} \cup Present \subseteq Containers
    BY DEF Present, Containers
  <2>1. CASE Exit
    BY <2>1 DEF Exit, Forget, NoCommand, StartOK
  <2>2. CASE LoopDone
    <3>1. UNCHANGED <<objects, conf, docker, cmd, exits, work, comps>> /\ phase' = "done"
          /\ comps = {} /\ work = {}
      BY <2>2 DEF LoopDone, Finish
    <3>2. \A d \in {Broker} \cup Present : Visited(d)'
      BY <1>6, <2>p, <3>1, VisitedKept DEF StartOK, Containers
    <3>3. Present' = Present
      BY <3>1 DEF Present
    <3> QED BY <3>1, <3>2, <3>3 DEF StartOK
  <2>3. ASSUME NEW n \in TriggerNames, RefreshTrigger(n)
        PROVE  StartOK'
    <3>1. UNCHANGED <<objects, docker, cmd, exits, comps, phase, outcome>> /\ phase = "startall"
          /\ work' = work \ {n}
      BY <2>0, <2>3 DEF RefreshTrigger
    <3>2. Present' = Present /\ \A d \in Containers : Config(d)' = Config(d) /\ Sink(d)' = Sink(d)
      BY <3>1 DEF Present, Config, Sink, Produces
    <3>3. ASSUME NEW d \in Containers, d \in Consumers, NEW m \in TriggerNames, m \in TargetTriggers(d)',
                 \A k \in TargetTriggers(d) : k \in work \/ conf[k].url = docker[d].port
          PROVE  m \in work' \/ conf'[m].url = docker'[d].port
      BY <2>3, <3>1, <3>3, Refreshes DEF TargetTriggers
    <3>4. \A d \in Containers : Visited(d) => Visited(d)'
      BY <3>1, <3>2, <3>3 DEF Visited, TargetTriggers
    <3> QED BY <1>6, <2>p, <3>1, <3>2, <3>4 DEF StartOK
  <2>4. ASSUME NEW c \in Containers, StartNext(c)
        PROVE  StartOK'
    <3>1. /\ UNCHANGED <<objects, triggers, conf>> /\ Present' = Present
          /\ work = {} /\ c \in comps /\ (Broker \in comps => c = Broker)
      BY <2>4 DEF StartNext, Present
    <3>2. \A d \in ({Broker} \cup Present) \ comps : d # c /\ Broker # c
      BY <1>6, <3>1 DEF StartOK
    <3>3. StartContainer(c, cmd.restart) \/ StartBroken(c, cmd.restart) \/ UNCHANGED docker
      BY <2>4 DEF StartNext, StartFails
    <3>4. \A d \in Containers \ {c} : docker'[d] = docker[d]
      BY <3>3, TouchesOne
    <3>5. CASE StartFails(c, cmd.restart)
      <4>1. CASE phase' = "idle" /\ cmd' = NoCommand
        BY <4>1 DEF NoCommand, StartOK
      <4>2. CASE Finish("error") /\ exits' = exits
        <5>1. UNCHANGED <<cmd, work, comps>> /\ phase' = "done" /\ outcome' = "error"
          BY <4>2 DEF Finish
        <5>2. \A d \in ({Broker} \cup Present) \ comps : Visited(d)'
          BY <1>6, <2>p, <3>1, <3>2, <3>4, <4>2, <5>1, VisitedKept DEF StartOK, Containers
        <5> QED BY <1>6, <3>1, <5>1, <5>2 DEF StartOK
      <4> QED BY <3>5, <4>1, <4>2 DEF StartFails, Forget
    <3>6. CASE /\ StartContainer(c, cmd.restart) /\ comps' = comps \ {c}
               /\ work' = (IF c \in Consumers THEN TargetTriggers(c) ELSE {})
               /\ UNCHANGED <<phase, cmd, exits>>
      <4>1. phase' = "startall" /\ cmd.restart \in BOOLEAN
        BY <2>4, <3>6 DEF StartNext, At, TypeOK, Commands
      <4>2. /\ docker'[c] # None /\ docker'[c].running
            /\ cmd.restart => docker'[c].config = Config(c) /\ docker'[c].sink = Sink(c)
        BY <3>6, <4>1, Starts
      <4>3. ASSUME c \in Present \cup {Broker}
            PROVE  Visited(c)'
        <5>1. c \in Components => c # Broker
          BY SetsAssumption
        <5>2. c \in Components => Config(c)' = Config(c) /\ Sink(c)' = Sink(c)
          BY <3>1, <3>4, <3>6, <5>1 DEF Config, Sink, Produces, Containers
        <5>3. TargetTriggers(c)' = TargetTriggers(c)
          BY <3>1 DEF TargetTriggers
        <5> QED BY <3>6, <4>2, <5>2, <5>3 DEF Visited
      <4>4. \A d \in ({Broker} \cup Present) \ comps : Visited(d)'
        BY <1>6, <2>p, <3>1, <3>2, <3>4, <3>6, VisitedKept DEF StartOK, Containers
      <4>5. Broker \in comps' => {Broker} \cup Present \subseteq comps'
        BY <3>1, <3>6
      <4> QED BY <3>1, <3>6, <4>1, <4>3, <4>4, <4>5 DEF StartOK
    <3> QED BY <2>4, <3>5, <3>6 DEF StartNext
  <2> QED BY <1>6, <2>0, <2>1, <2>2, <2>3, <2>4
          DEF Steps, WriteManifest, AddObject, StartComponent, UpdateDone, CreateRoute, ShadowDone,
              TypesDone, RemoveContainer, RemoveObject, RemoveShadowed, RemoveTrigger,
              CreateTypeTrigger, Retarget, StopNext, At
<1> QED BY <1>1, <1>2, <1>3, <1>4, <1>5, <1>6 DEF Next

LEMMA Started == Spec => []StartOK
<1>1. Init => StartOK
  BY DEF Init, NoCommand, StartOK
<1>2. IndInv /\ StartOK /\ [Next]_vars => StartOK'
  BY StartStays
<1> QED BY <1>1, <1>2, Inductive, PTL DEF Spec

(* A `start' that returns no error leaves every component with a container and *)
(* every trigger with its port, whatever failed or was killed before.         *)
THEOREM StartsServe == Spec => []StartServes
<1>1. StartOK => StartServes
  BY DEF StartOK, Visited, StartServes, Ended
<1> QED BY <1>1, Started, PTL

(* A `start --restart' that returns no error leaves every component with the  *)
(* spec of the manifest and every source with the broker's port.              *)
THEOREM RestartsApply == Spec => []RestartApplies
<1>1. StartOK => RestartApplies
  BY DEF StartOK, Visited, RestartApplies, Ended, Config, Present
<1> QED BY <1>1, Started, PTL

-----------------------------------------------------------------------------
(* create target.                                                            *)
(* What `create target' has done: the event types that are no longer to be     *)
(* visited have their trigger, in broker.conf or in both files.               *)
Written(f) ==
    LET n == AutoName(cmd.comp, f)
        t == [filter |-> f, target |-> cmd.comp]
    IN  /\ conf[n] = [trigger |-> t, url |-> docker[cmd.comp].port]
        /\ triggers[n] = t \/ pend = [name |-> n, trigger |-> t]

TargetOK ==
    cmd.op = "target" =>
        /\ phase \in {"add", "start", "update", "types", "done"}
        /\ cmd.name = None /\ cmd.comp \in Consumers
        /\ phase \in {"add", "start", "update"} => cmd.types \subseteq types
        /\ docker[cmd.comp] = None => cmd.types \subseteq types
        /\ \A f \in cmd.types \ types : Written(f)
        /\ phase = "done" /\ outcome = "ok" => types = {} /\ pend = None

LEMMA WrittenKept ==
    ASSUME NEW f, Written(f), UNCHANGED <<conf, cmd, triggers, pend>>,
           docker'[cmd.comp].port = docker[cmd.comp].port
    PROVE  Written(f)'
BY DEF Written, AutoName

LEMMA TargetStays ==
    ASSUME IndInv, TargetOK, [Next]_vars
    PROVE  TargetOK'
<1>. USE DEF IndInv
<1>1. CASE UNCHANGED vars
  BY <1>1 DEF vars, TargetOK, Written, AutoName
<1>2. CASE Invocations
  <2>1. CASE \E c \in Targets, s \in Specs, E \in SUBSET Types : CreateTarget(c, s, E)
    <3>1. PICK c \in Targets, s \in Specs, E \in SUBSET Types : CreateTarget(c, s, E)
      BY <2>1
    <3>2. phase' = "add" /\ types' = E /\ cmd'.types = E /\ cmd'.comp = c /\ cmd'.name = None
      BY <3>1 DEF CreateTarget, Begin, NoCommand
    <3> QED BY <3>2 DEF TargetOK, Consumers
  <2>2. CASE ~\E c \in Targets, s \in Specs, E \in SUBSET Types : CreateTarget(c, s, E)
    <3>1. cmd'.op # "target"
      BY <1>2, <2>2 DEF Invocations, CreateTransformation, CreateSource, CreateTrigger,
                        Delete, DeleteTrigger, Start, Stop, Begin, NoCommand
    <3> QED BY <3>1 DEF TargetOK
  <2> QED BY <2>1, <2>2
<1>3. CASE Kill
  BY <1>3 DEF Kill, Forget, NoCommand, TargetOK
<1>4. ASSUME NEW c \in Containers, ContainerExit(c)
      PROVE  TargetOK'
  <2>1. UNCHANGED <<objects, conf, triggers, cmd, phase, outcome, types, pend>>
    BY <1>4 DEF ContainerExit
  <2>2. CASE cmd.op = "target"
    <3>1. cmd.comp \in Containers
      BY <2>2 DEF TargetOK, Containers, Components
    <3>2. /\ (docker'[cmd.comp] = None) = (docker[cmd.comp] = None)
          /\ docker[cmd.comp] # None => docker'[cmd.comp].port = docker[cmd.comp].port
      BY <1>4, <3>1, Exits
    <3>3. \A f \in cmd.types \ types : Written(f)'
      BY <2>1, <2>2, <3>2, WrittenKept DEF TargetOK
    <3> QED BY <2>1, <2>2, <3>2, <3>3 DEF TargetOK
  <2>3. CASE cmd.op # "target"
    BY <2>1, <2>3 DEF TargetOK
  <2> QED BY <2>2, <2>3
<1>5. ASSUME Steps, cmd.op # "target"
      PROVE  TargetOK'
  BY <1>5, CommandKept DEF TargetOK, NoCommand
<1>6. ASSUME Steps, cmd.op = "target"
      PROVE  TargetOK'
  <2>0. /\ phase \in {"add", "start", "update", "types", "done"}
        /\ cmd.comp \in Containers /\ cmd.comp \in Consumers /\ cmd.name = None
        /\ cmd.types \subseteq Types
    BY <1>6 DEF TargetOK, Containers, Components, TypeOK, Commands
  <2>1. CASE Exit
    BY <2>1 DEF Exit, Forget, NoCommand, TargetOK
  <2>2. CASE AddObject
    <3>1. UNCHANGED <<cmd, types, docker>> /\ phase = "add" /\ phase' = "start"
      BY <2>2 DEF AddObject, At
    <3> QED BY <1>6, <3>1 DEF TargetOK
  <2>3. CASE StartComponent
    <3>1. (phase' = "idle" /\ cmd' = NoCommand) \/ (UNCHANGED <<cmd, types>> /\ phase' \in {"update", "types", "done"})
      BY <1>6, <2>3 DEF StartComponent, StartFails, Finish, Forget, AfterUpdate
    <3>2. phase = "start" /\ (phase' = "done" => outcome' = "error")
      BY <1>6, <2>3 DEF StartComponent, StartFails, Finish, Forget, At, AfterUpdate
    <3> QED BY <1>6, <3>1, <3>2 DEF TargetOK, NoCommand
  <2>4. CASE UpdateDone
    <3>1. UNCHANGED <<cmd, types, docker>> /\ phase = "update" /\ phase' = "types"
      BY <1>6, <2>4 DEF UpdateDone, At, AfterUpdate
    <3> QED BY <1>6, <3>1 DEF TargetOK
  <2>5. ASSUME NEW n \in TriggerNames, RefreshTrigger(n)
        PROVE  TargetOK'
    <3>1. UNCHANGED <<cmd, types, docker>> /\ phase = "update" /\ phase' = "update"
      BY <2>0, <2>5 DEF RefreshTrigger
    <3> QED BY <1>6, <3>1 DEF TargetOK
  <2>6. CASE TypesDone
    <3>1. UNCHANGED <<conf, triggers, cmd, types, pend, docker>> /\ phase' = "done" /\ types = {} /\ pend = None
      BY <1>6, <2>6 DEF TypesDone, At, Finish
    <3> QED BY <1>6, <3>1, WrittenKept DEF TargetOK
  <2>7. CASE WriteManifest
    <3>1. UNCHANGED <<conf, cmd, types, docker, phase, outcome>> /\ pend # None /\ pend' = None
          /\ phase = "types"
      BY <2>0, <2>7 DEF WriteManifest, EditsOK
    <3>2. ASSUME NEW f \in cmd.types \ types
          PROVE  Written(f)'
      <4>. DEFINE n == AutoName(cmd.comp, f)
                  t == [filter |-> f, target |-> cmd.comp]
      <4>1. conf[n] = [trigger |-> t, url |-> docker[cmd.comp].port]
            /\ (triggers[n] = t \/ pend = [name |-> n, trigger |-> t])
        BY <1>6, <3>2 DEF TargetOK, Written
      <4>2. n \in TriggerNames /\ f \in Filters
        BY <2>0 DEF TriggerNames, Filters
      <4>3. conf[n] # None /\ conf[n].trigger = t
        <5>1. docker[cmd.comp] # None
          BY <1>6, <3>2 DEF TargetOK
        <5>2. conf[n] \in LocalSpecs
          BY <2>0, <4>1, <4>2, <5>1 DEF LocalSpecs, Triggers, TypeOK, DockerState
        <5> QED BY <4>1, <5>2, SetsAssumption
      <4>4. triggers'[n] = t
        <5>1. CASE pend.name = n
          <6>1. pend.trigger = t
            BY <3>1, <4>3, <5>1 DEF EditsOK
          <6> QED BY <2>7, <4>2, <5>1, <6>1 DEF WriteManifest, TypeOK
        <5>2. CASE pend.name # n
          BY <2>7, <4>1, <4>2, <5>2 DEF WriteManifest, TypeOK
        <5> QED BY <5>1, <5>2
      <4> QED BY <3>1, <4>1, <4>4 DEF Written, AutoName
    <3> QED BY <1>6, <3>1, <3>2 DEF TargetOK
  <2>8. ASSUME NEW f \in Filters, CreateTypeTrigger(f)
        PROVE  TargetOK'
    <3>1. /\ phase = "types" /\ pend = None /\ f \in types /\ UNCHANGED <<cmd, docker, triggers>>
      BY <2>8 DEF CreateTypeTrigger, At, Finish
    <3>2. CASE docker[cmd.comp] = None
      <4>1. UNCHANGED <<conf, types, pend>> /\ phase' = "done" /\ outcome' = "error"
        BY <2>8, <3>2 DEF CreateTypeTrigger, Finish
      <4> QED BY <1>6, <3>1, <4>1, WrittenKept DEF TargetOK
    <3>3. CASE docker[cmd.comp] # None
      <4>1. /\ WriteLocalConfig(AutoName(cmd.comp, f), f, cmd.comp)
            /\ types' = types \ {f} /\ phase' = "types"
        BY <1>6, <2>0, <2>8, <3>1, <3>3 DEF CreateTypeTrigger, NewName
      <4>2. AutoName(cmd.comp, f) \in TriggerNames
        BY <2>0 DEF TriggerNames
      <4>3. Written(f)'
        BY <3>1, <4>1, <4>2, Writes DEF Written, AutoName
      <4>4. ASSUME NEW g \in cmd.types \ types
            PROVE  Written(g)'
        <5>. DEFINE n == AutoName(cmd.comp, g)
                    t == [filter |-> g, target |-> cmd.comp]
        <5>1. conf[n] = [trigger |-> t, url |-> docker[cmd.comp].port]
              /\ (triggers[n] = t \/ pend = [name |-> n, trigger |-> t])
          BY <1>6, <4>4 DEF TargetOK, Written
        <5>2. n \in TriggerNames /\ t \in Triggers
          BY <2>0 DEF TriggerNames, Triggers, Filters
        <5>3. [name |-> n, trigger |-> t] # None
          BY <5>2, SetsAssumption DEF Edits
        <5>4. n # AutoName(cmd.comp, f)
          BY <3>1, <4>4 DEF AutoName
        <5>5. conf'[n] = conf[n]
          BY <4>1, <4>2, <5>2, <5>4, Writes
        <5> QED BY <3>1, <5>1, <5>3, <5>5 DEF Written, AutoName
      <4>5. \A g \in cmd'.types \ types' : Written(g)'
        BY <3>1, <4>1, <4>3, <4>4
      <4> QED BY <1>6, <2>0, <3>1, <3>3, <4>1, <4>5 DEF TargetOK
    <3> QED BY <3>2, <3>3
  <2> QED BY <1>6, <2>0, <2>1, <2>2, <2>3, <2>4, <2>5, <2>6, <2>7, <2>8
          DEF Steps, CreateRoute, ShadowDone, RemoveContainer, RemoveObject, LoopDone, RemoveShadowed,
              RemoveTrigger, Retarget, StartNext, StopNext, At
<1> QED BY <1>1, <1>2, <1>3, <1>4, <1>5, <1>6 DEF Next

(* A `create target' that returns no error has a trigger for each of its event *)
(* types in both files, with the target's port, whatever failed before.       *)
THEOREM CreatesRepair == Spec => []CreateRepairs
<1>1. Init => TargetOK
  BY DEF Init, NoCommand, TargetOK
<1>2. IndInv /\ TargetOK /\ [Next]_vars => TargetOK'
  BY TargetStays
<1>3. IndInv /\ TargetOK => CreateRepairs
  <2> SUFFICES ASSUME IndInv, TargetOK, Ended("target", "ok"), NEW f \in cmd.types
               PROVE  LET n == AutoName(cmd.comp, f)
                          t == [filter |-> f, target |-> cmd.comp]
                      IN  triggers[n] = t /\ conf[n] = [trigger |-> t, url |-> docker[cmd.comp].port]
    BY DEF CreateRepairs
  <2>1. Written(f) /\ pend = None /\ cmd.comp \in Consumers /\ f \in Filters
    BY DEF Ended, TargetOK, IndInv, TypeOK, Commands, Filters
  <2>2. [name |-> AutoName(cmd.comp, f), trigger |-> [filter |-> f, target |-> cmd.comp]] # None
    BY <2>1, SetsAssumption DEF Edits, TriggerNames, Triggers
  <2> QED BY <2>1, <2>2 DEF Written
<1> QED BY <1>1, <1>2, <1>3, Inductive, PTL DEF Spec

-----------------------------------------------------------------------------
(* While nothing fails, the containers are those of the manifest.            *)
(* The container runs what the manifest says, a source with the broker's port. *)
Settled(c) ==
    /\ objects[c] # None
    /\ docker[c].config = objects[c].config
    /\ c \in Sources => docker[Broker] # None /\ docker[c].sink = docker[Broker].port

(* The containers that need not: the one a create is about to replace, those a *)
(* start --restart and those a stop has yet to visit.                         *)
Visiting(c) ==
    \/ phase = "start" /\ c = cmd.comp /\ restart
    \/ phase = "startall" /\ cmd.restart /\ c \in comps
    \/ phase = "stopall"

StagesOK ==
    /\ phase = "startall" =>
         /\ cmd.op = "start" /\ comps \subseteq {Broker} \cup Present
         /\ Broker \notin comps => docker[Broker] # None
    /\ phase \in {"add", "start"} /\ cmd.op = "source" => docker[Broker] # None

RuntimeOK ==
    faults = 0 /\ kills = 0 =>
        /\ phase = "object" => docker[cmd.comp] = None
        /\ \A c \in Components : docker[c] # None =>
             /\ phase = "stopall" => c \in comps
             /\ Settled(c) \/ Visiting(c)

(* A step that touches no container and no object, and begins no other stage.  *)
LEMMA RuntimeKept ==
    ASSUME StagesOK, RuntimeOK, UNCHANGED <<docker, objects, faults, kills>>,
           \/ UNCHANGED <<phase, cmd, restart, comps>>
           \/ /\ phase' \notin {"add", "start", "object", "startall", "stopall"}
              /\ phase \in {"startall", "stopall"} => comps = {}
              /\ phase # "start"
    PROVE  StagesOK' /\ RuntimeOK'
<1>1. StagesOK'
  BY DEF StagesOK, Present
<1>2. \A c \in Components : Settled(c) => Settled(c)'
  BY DEF Settled
<1>3. CASE UNCHANGED <<phase, cmd, restart, comps>>
  BY <1>1, <1>2, <1>3 DEF RuntimeOK, Visiting
<1>4. CASE /\ phase' \notin {"add", "start", "object", "startall", "stopall"}
           /\ phase \in {"startall", "stopall"} => comps = {}
           /\ phase # "start"
  BY <1>1, <1>2, <1>4 DEF RuntimeOK, Visiting
<1> QED BY <1>3, <1>4

LEMMA RuntimeInvocations ==
    ASSUME IndInv, StagesOK, RuntimeOK, Invocations
    PROVE  StagesOK' /\ RuntimeOK'
<1>1. phase = "idle" /\ UNCHANGED <<docker, objects, faults, kills>> /\ Present' = Present
  BY DEF Invocations, CreateTarget, CreateTransformation, CreateSource, CreateTrigger, Delete,
         DeleteTrigger, Start, Stop, Begin, Present
<1>2. faults = 0 /\ kills = 0 => \A c \in Components : docker[c] # None => Settled(c) /\ Settled(c)'
  BY <1>1 DEF RuntimeOK, Visiting, Settled
<1>3. CASE \E again \in BOOLEAN : Start(again)
  <2>1. phase' = "startall" /\ comps' = {Broker} \cup Present /\ cmd'.op = "start"
    BY <1>3 DEF Start, Begin, NoCommand
  <2> QED BY <1>1, <1>2, <2>1 DEF StagesOK, RuntimeOK
<1>4. CASE Stop
  <2>1. phase' = "stopall" /\ comps' = {Broker} \cup Present
    BY <1>4 DEF Stop, Begin
  <2> QED BY <1>1, <1>2, <2>1 DEF StagesOK, RuntimeOK, Settled, Present
<1>5. CASE ~Stop /\ ~\E again \in BOOLEAN : Start(again)
  <2>1. /\ phase' \notin {"start", "object", "startall", "stopall"}
        /\ phase' = "add" /\ cmd'.op = "source" => docker[Broker] # None
    BY <1>5 DEF Invocations, CreateTarget, CreateTransformation, CreateSource, CreateTrigger, Delete,
                DeleteTrigger, Begin, NoCommand
  <2> QED BY <1>1, <1>2, <2>1 DEF StagesOK, RuntimeOK
<1> QED BY <1>3, <1>4, <1>5

LEMMA RuntimeStartComponent ==
    ASSUME IndInv, StagesOK, RuntimeOK, StartComponent
    PROVE  StagesOK' /\ RuntimeOK'
<1>. DEFINE c == cmd.comp
<1>1. /\ phase = "start" /\ objects' = objects /\ objects[c] # None
      /\ c \in Components /\ (c \in Sources => cmd.op = "source") /\ restart \in BOOLEAN
  BY SetsAssumption DEF StartComponent, At, IndInv, TypeOK, CommandOK, TargetsOK, Components
<1>2. c # Broker /\ c \in Containers
  BY <1>1, SetsAssumption DEF Containers
<1>3. phase' \notin {"add", "start", "object", "startall", "stopall"}
  BY DEF StartComponent, StartFails, Finish, Forget, AfterUpdate
<1>4. StagesOK'
  BY <1>3 DEF StagesOK
<1>5. CASE faults' = faults + 1 \/ kills' = kills + 1
  BY <1>4, <1>5 DEF RuntimeOK, IndInv, TypeOK
<1>6. CASE Conflict(c, restart) /\ UNCHANGED <<docker, faults, kills>>
  <2>1. ~restart
    BY <1>6 DEF Conflict
  <2>2. faults = 0 /\ kills = 0 => \A d \in Components : docker[d] # None => Settled(d)'
    BY <1>1, <1>6, <2>1 DEF RuntimeOK, Visiting, Settled
  <2> QED BY <1>3, <1>4, <1>6, <2>2 DEF RuntimeOK
<1>7. CASE StartContainer(c, restart) /\ UNCHANGED <<faults, kills>>
  <2>1. /\ docker'[c] # None
        /\ \/ ~restart /\ UNCHANGED docker
           \/ docker'[c].config = Config(c) /\ docker'[c].sink = Sink(c)
    BY <1>1, <1>2, <1>7, Starts DEF IndInv
  <2>2. \A d \in Containers \ {c} : docker'[d] = docker[d]
    BY <1>2, <1>7, TouchesOne DEF IndInv
  <2>3. docker'[Broker] = docker[Broker]
    BY <1>2, <2>2 DEF Containers
  <2>4. ASSUME faults = 0, kills = 0, NEW d \in Components, docker'[d] # None
        PROVE  Settled(d)'
    <3>1. CASE d # c
      <4>1. docker'[d] = docker[d]
        BY <2>2, <3>1 DEF Containers
      <4>2. Settled(d)
        BY <1>1, <2>4, <3>1, <4>1 DEF RuntimeOK, Visiting
      <4> QED BY <1>1, <2>3, <4>1, <4>2 DEF Settled
    <3>2. CASE d = c /\ ~restart /\ UNCHANGED docker
      <4>1. Settled(d)
        BY <1>1, <2>4, <3>2 DEF RuntimeOK, Visiting
      <4> QED BY <1>1, <3>2, <4>1 DEF Settled
    <3>3. CASE d = c /\ docker'[c].config = Config(c) /\ docker'[c].sink = Sink(c)
      <4>1. docker'[c].config = objects[c].config
        BY <1>1, <3>3 DEF Config
      <4>2. c \in Sources => docker[Broker] # None /\ docker'[c].sink = docker[Broker].port
        BY <1>1, <3>3 DEF StagesOK, Sink, Produces
      <4> QED BY <1>1, <2>3, <3>3, <4>1, <4>2 DEF Settled
    <3> QED BY <2>1, <3>1, <3>2, <3>3
  <2> QED BY <1>3, <1>4, <1>7, <2>4 DEF RuntimeOK
<1> QED BY <1>5, <1>6, <1>7 DEF StartComponent, StartFails

LEMMA RuntimeStartNext ==
    ASSUME IndInv, StartOK, StagesOK, RuntimeOK, NEW c \in Containers, StartNext(c)
    PROVE  StagesOK' /\ RuntimeOK'
<1>1. /\ phase = "startall" /\ cmd.op = "start" /\ objects' = objects /\ Present' = Present
      /\ c \in comps /\ comps \subseteq {Broker} \cup Present /\ (Broker \in comps => c = Broker)
      /\ cmd.restart \in BOOLEAN
  BY DEF StartNext, At, StagesOK, IndInv, TypeOK, Commands, Present
<1>2. Broker \notin Components /\ Broker \in Containers /\ Components \subseteq Containers
  BY SetsAssumption DEF Containers
<1>3. CASE StartFails(c, cmd.restart)
  <2>1. phase' \in {"idle", "done"}
    BY <1>3 DEF StartFails, Finish
  <2>2. StagesOK'
    BY <2>1 DEF StagesOK
  <2>3. CASE faults' = faults + 1 \/ kills' = kills + 1
    BY <2>2, <2>3 DEF RuntimeOK, IndInv, TypeOK
  <2>4. CASE Conflict(c, cmd.restart) /\ UNCHANGED <<docker, faults, kills>>
    <3>1. ~cmd.restart
      BY <2>4 DEF Conflict
    <3>2. faults = 0 /\ kills = 0 => \A d \in Components : docker[d] # None => Settled(d)'
      BY <1>1, <2>4, <3>1 DEF RuntimeOK, Visiting, Settled
    <3> QED BY <2>1, <2>2, <2>4, <3>2 DEF RuntimeOK
  <2> QED BY <1>3, <2>3, <2>4 DEF StartFails
<1>4. CASE /\ StartContainer(c, cmd.restart) /\ comps' = comps \ {c}
           /\ UNCHANGED <<phase, cmd, faults, kills>>
  <2>1. /\ docker'[c] # None
        /\ \/ ~cmd.restart /\ UNCHANGED docker
           \/ /\ cmd.restart \/ docker[c] = None
              /\ docker'[c].config = Config(c) /\ docker'[c].sink = Sink(c)
    BY <1>1, <1>4, Starts DEF IndInv
  <2>2. \A d \in Containers \ {c} : docker'[d] = docker[d]
    BY <1>4, TouchesOne DEF IndInv
  <2>3. StagesOK'
    BY <1>1, <1>2, <1>4, <2>1, <2>2 DEF StagesOK
  <2>4. ASSUME faults = 0, kills = 0, NEW d \in Components, docker'[d] # None
        PROVE  Settled(d)' \/ Visiting(d)'
    <3>0. Settled(d) \/ (cmd.restart /\ d \in comps) \/ docker[d] = None
      BY <1>1, <2>4 DEF RuntimeOK, Visiting
    <3>1. CASE d # c /\ cmd.restart /\ d \in comps
      BY <1>1, <1>4, <3>1 DEF Visiting
    <3>2. CASE d # c /\ Settled(d)
      <4>1. docker'[d] = docker[d] /\ d \in Containers
        BY <1>2, <2>2, <3>2
      <4>2. CASE c # Broker \/ UNCHANGED docker
        <5>1. docker'[Broker] = docker[Broker]
          BY <1>2, <2>2, <4>2
        <5> QED BY <1>1, <3>2, <4>1, <5>1 DEF Settled
      <4>3. CASE c = Broker /\ d \notin Sources
        BY <1>1, <3>2, <4>1, <4>3 DEF Settled
      <4>4. CASE c = Broker /\ d \in Sources /\ (cmd.restart \/ docker[c] = None)
        <5>1. cmd.restart
          BY <3>2, <4>4 DEF Settled
        <5>2. d \in comps
          BY <1>1, <3>2, <4>4 DEF StartOK, Settled, Present
        <5> QED BY <1>1, <1>4, <3>2, <5>1, <5>2 DEF Visiting
      <4> QED BY <2>1, <4>2, <4>3, <4>4
    <3>3. CASE d # c /\ docker[d] = None
      BY <1>2, <2>2, <2>4, <3>3
    <3>4. CASE d = c /\ ~cmd.restart /\ UNCHANGED docker
      <4>1. Settled(d)
        BY <2>4, <3>0, <3>4
      <4> QED BY <1>1, <3>4, <4>1 DEF Settled
    <3>5. CASE d = c /\ docker'[c].config = Config(c) /\ docker'[c].sink = Sink(c)
      <4>1. Broker \notin comps /\ objects[c] # None /\ docker[Broker] # None
        BY <1>1, <1>2, <2>4, <3>5 DEF StagesOK, Present
      <4>2. docker'[Broker] = docker[Broker]
        BY <1>2, <2>2, <2>4, <3>5
      <4>3. docker'[c].config = objects[c].config
        BY <2>4, <3>5, <4>1 DEF Config
      <4>4. c \in Sources => docker'[c].sink = docker[Broker].port
        BY <3>5, <4>1 DEF Sink, Produces
      <4> QED BY <1>1, <3>5, <4>1, <4>2, <4>3, <4>4 DEF Settled
    <3> QED BY <2>1, <3>0, <3>1, <3>2, <3>3, <3>4, <3>5
  <2> QED BY <1>1, <1>4, <2>3, <2>4 DEF RuntimeOK
<1> QED BY <1>3, <1>4 DEF StartNext

LEMMA RuntimeSteps ==
    ASSUME IndInv, StartOK, StagesOK, RuntimeOK, Steps
    PROVE  StagesOK' /\ RuntimeOK'
<1>1. CASE WriteManifest
  BY <1>1, RuntimeKept DEF WriteManifest
<1>2. CASE \/ UpdateDone \/ CreateRoute \/ ShadowDone \/ TypesDone \/ LoopDone \/ Exit
           \/ \E n \in TriggerNames : RemoveShadowed(n)
           \/ \E f \in Filters : CreateTypeTrigger(f)
  <2>1. /\ UNCHANGED <<docker, objects, faults, kills>>
        /\ phase' \notin {"add", "start", "object", "startall", "stopall"}
        /\ phase \in {"startall", "stopall"} => comps = {}
        /\ phase # "start"
    BY <1>2 DEF UpdateDone, CreateRoute, ShadowDone, TypesDone, LoopDone, Exit, RemoveShadowed,
                CreateTypeTrigger, At, AfterUpdate, Finish
  <2> QED BY <2>1, RuntimeKept
<1>3. ASSUME NEW n \in TriggerNames, RefreshTrigger(n) \/ RemoveTrigger(n)
      PROVE  StagesOK' /\ RuntimeOK'
  <2>1. UNCHANGED <<docker, objects, faults, kills, phase, cmd, restart, comps>>
    BY <1>3 DEF RefreshTrigger, RemoveTrigger
  <2> QED BY <2>1, RuntimeKept
<1>4. ASSUME NEW r \in old, Retarget(r)
      PROVE  StagesOK' /\ RuntimeOK'
  <2>1. UNCHANGED <<docker, objects, faults, kills, phase, cmd, restart, comps>>
    BY <1>4 DEF Retarget
  <2> QED BY <2>1, RuntimeKept
<1>5. CASE AddObject
  <2>1. /\ UNCHANGED <<docker, cmd, comps, faults, kills>> /\ phase = "add" /\ phase' = "start"
        /\ objects' = [objects EXCEPT ![cmd.comp] = cmd.object]
        /\ restart' = TRUE \/ objects[cmd.comp] = cmd.object
        /\ cmd.comp \in Components /\ cmd.object \in Objects
    BY <1>5 DEF AddObject, At, IndInv, CommandOK, Components
  <2>2. StagesOK'
    BY <2>1 DEF StagesOK
  <2>3. ASSUME faults = 0, kills = 0, NEW d \in Components, docker[d] # None
        PROVE  Settled(d)' \/ Visiting(d)'
    <3>1. Settled(d)
      BY <2>1, <2>3 DEF RuntimeOK, Visiting
    <3>2. CASE objects'[d] = objects[d]
      BY <2>1, <3>1, <3>2 DEF Settled
    <3>3. CASE objects'[d] # objects[d]
      <4>1. d = cmd.comp /\ restart' = TRUE
        BY <2>1, <3>3 DEF IndInv, TypeOK
      <4> QED BY <2>1, <4>1 DEF Visiting
    <3> QED BY <3>2, <3>3
  <2> QED BY <2>1, <2>2, <2>3 DEF RuntimeOK
<1>6. CASE StartComponent
  BY <1>6, RuntimeStartComponent
<1>7. CASE RemoveContainer
  <2>1. /\ UNCHANGED <<objects, cmd, comps, kills>> /\ phase = "remove" /\ phase' = "object"
        /\ cmd.comp \in Components
        /\ \/ docker' = [docker EXCEPT ![cmd.comp] = None] /\ faults' = faults
           \/ faults' = faults + 1
    BY <1>7 DEF RemoveContainer, At, IndInv, CommandOK
  <2>2. StagesOK'
    BY <2>1 DEF StagesOK
  <2>3. CASE faults' = faults + 1
    BY <2>2, <2>3 DEF RuntimeOK, IndInv, TypeOK
  <2>4. CASE docker' = [docker EXCEPT ![cmd.comp] = None] /\ faults' = faults
    <3>1. docker'[cmd.comp] = None /\ \A d \in Containers \ {cmd.comp} : docker'[d] = docker[d]
      BY <2>1, <2>4 DEF IndInv, TypeOK, Containers
    <3>2. docker'[Broker] = docker[Broker]
      BY <2>1, <3>1, SetsAssumption DEF Containers
    <3>3. ASSUME faults = 0, kills = 0, NEW d \in Components, docker'[d] # None
          PROVE  Settled(d)'
      <4>1. docker'[d] = docker[d] /\ docker[d] # None
        BY <3>1, <3>3 DEF Containers
      <4>2. Settled(d)
        BY <2>1, <3>3, <4>1 DEF RuntimeOK, Visiting
      <4> QED BY <2>1, <3>2, <4>1, <4>2 DEF Settled
    <3> QED BY <2>1, <2>2, <2>4, <3>1, <3>3 DEF RuntimeOK
  <2> QED BY <2>1, <2>3, <2>4
<1>8. CASE RemoveObject
  <2>1. /\ UNCHANGED <<docker, cmd, comps, faults, kills>> /\ phase = "object" /\ phase' = "cleanup"
        /\ objects' = [objects EXCEPT ![cmd.comp] = None]
    BY <1>8 DEF RemoveObject, At
  <2>2. \A d \in Components : d # cmd.comp => objects'[d] = objects[d]
    BY <2>1 DEF IndInv, TypeOK
  <2>3. \A d \in Components : d # cmd.comp /\ Settled(d) => Settled(d)'
    BY <2>1, <2>2 DEF Settled
  <2> QED BY <2>1, <2>3 DEF StagesOK, RuntimeOK, Visiting
<1>9. ASSUME NEW c \in Containers, StartNext(c)
      PROVE  StagesOK' /\ RuntimeOK'
  BY <1>9, RuntimeStartNext
<1>10. ASSUME NEW c \in Containers, StopNext(c)
       PROVE  StagesOK' /\ RuntimeOK'
  <2>1. /\ phase = "stopall" /\ phase' = "stopall" /\ comps' = comps \ {c} /\ kills' = kills
        /\ \/ docker' = [docker EXCEPT ![c] = None] /\ faults' = faults
           \/ faults' = faults + 1
    BY <1>10 DEF StopNext, At
  <2>2. StagesOK'
    BY <2>1 DEF StagesOK
  <2>3. CASE faults' = faults + 1
    BY <2>2, <2>3 DEF RuntimeOK, IndInv, TypeOK
  <2>4. CASE docker' = [docker EXCEPT ![c] = None] /\ faults' = faults
    <3>1. docker'[c] = None /\ \A d \in Containers \ {c} : docker'[d] = docker[d]
      BY <2>4 DEF IndInv, TypeOK
    <3> QED BY <2>1, <2>2, <2>4, <3>1 DEF RuntimeOK, Visiting, Containers
  <2> QED BY <2>1, <2>3, <2>4
<1> QED BY <1>1, <1>2, <1>3, <1>4, <1>5, <1>6, <1>7, <1>8, <1>9, <1>10 DEF Steps

LEMMA RuntimeNext ==
    ASSUME IndInv, StartOK, StagesOK, RuntimeOK, [Next]_vars
    PROVE  StagesOK' /\ RuntimeOK'
<1>1. CASE UNCHANGED vars
  BY <1>1, RuntimeKept DEF vars
<1>2. CASE Kill
  BY <1>2 DEF Kill, StagesOK, RuntimeOK, IndInv, TypeOK
<1>3. ASSUME NEW c \in Containers, ContainerExit(c)
      PROVE  StagesOK' /\ RuntimeOK'
  <2>1. UNCHANGED <<objects, phase, cmd, restart, comps, faults, kills>> /\ Present' = Present
    BY <1>3 DEF ContainerExit, Present
  <2>2. /\ \A d \in Containers : (docker'[d] = None) = (docker[d] = None)
        /\ \A d \in Containers : docker[d] # None =>
              docker'[d].port = docker[d].port /\ docker'[d].config = docker[d].config
              /\ docker'[d].sink = docker[d].sink
    BY <1>3, Exits DEF IndInv
  <2>3. StagesOK'
    BY <2>1, <2>2 DEF StagesOK, Containers
  <2>4. \A d \in Components : docker[d] # None /\ Settled(d) => Settled(d)'
    BY <2>1, <2>2 DEF Settled, Containers
  <2>5. phase = "object" => cmd.comp \in Containers
    BY DEF IndInv, CommandOK, Containers
  <2> QED BY <2>1, <2>2, <2>3, <2>4, <2>5 DEF RuntimeOK, Visiting, Containers
<1> QED BY <1>1, <1>2, <1>3, RuntimeInvocations, RuntimeSteps DEF Next

LEMMA Staged == Spec => [](StagesOK /\ RuntimeOK)
<1>1. Init => StartOK /\ StagesOK /\ RuntimeOK
  BY SetsAssumption DEF Init, NoCommand, StartOK, StagesOK, RuntimeOK, Containers
<1>2. IndInv /\ StartOK /\ StagesOK /\ RuntimeOK /\ [Next]_vars => (StagesOK /\ RuntimeOK)'
  BY RuntimeNext
<1> QED BY <1>1, <1>2, Inductive, Started, PTL DEF Spec

(* While nothing fails, containers run what the manifest says, and sources send *)
(* to the broker's port, between any two commands.                            *)
THEOREM RuntimesMatch == Spec => []RuntimeMatchesManifest
<1>1. RuntimeOK => RuntimeMatchesManifest
  BY DEF RuntimeOK, Visiting, Settled, RuntimeMatchesManifest
<1> QED BY <1>1, Staged, PTL

-----------------------------------------------------------------------------
(* While nothing fails, a running broker delivers.                           *)
Healthy == faults = 0 /\ kills = 0 /\ exits = 0

(* The triggers that are not fresh: those of a container that was just replaced *)
(* or removed, or that start has yet to visit.                                *)
Awaited(n) ==
    \/ phase = "update" /\ n \in work
    \/ phase = "startall" /\ (n \in work \/ conf[n].trigger.target \in comps)
    \/ phase = "object" /\ conf[n].trigger.target = cmd.comp
    \/ phase = "cleanup" /\ n \in work

DeliverOK ==
    Healthy =>
        /\ \A c \in Containers : docker[c] # None => docker[c].running
        /\ phase = "stopall" => Broker \in comps \/ docker[Broker] = None
        /\ docker[Broker] # None /\ phase # "stopall" =>
             \A n \in TriggerNames : conf[n] # None => Fresh(n) \/ Awaited(n)

(* A step that touches no container: what it writes is fresh, and what was      *)
(* awaited still is.                                                         *)
LEMMA DeliverKept ==
    ASSUME DeliverOK, UNCHANGED <<docker, faults, kills, exits>>,
           Healthy /\ phase' = "stopall" => Broker \in comps' \/ docker[Broker] = None,
           Healthy /\ phase = "stopall" => phase' = "stopall" \/ docker[Broker] = None,
           Healthy => \A n \in TriggerNames : conf'[n] # None =>
               Fresh(n)' \/ (conf'[n] = conf[n] /\ (Awaited(n) => Awaited(n)'))
    PROVE  DeliverOK'
<1>1. \A n \in TriggerNames : conf'[n] = conf[n] /\ Fresh(n) => Fresh(n)'
  BY DEF Fresh, Running
<1> QED BY <1>1 DEF DeliverOK, Healthy

(* What is written with the port of a container that runs is fresh.          *)
LEMMA DeliverWrites ==
    ASSUME IndInv, DeliverOK, UNCHANGED <<docker, faults, kills, exits>>,
           phase \notin {"update", "startall", "object", "cleanup", "stopall"}, phase' # "stopall",
           NEW n \in TriggerNames, NEW f, NEW c \in Containers, docker[c] # None, WriteLocalConfig(n, f, c)
    PROVE  DeliverOK'
<1>a. conf'[n] = [trigger |-> [filter |-> f, target |-> c], url |-> docker[c].port]
  BY Writes DEF IndInv
<1>0. conf'[n].trigger.target = c /\ conf'[n].url = docker[c].port
  BY <1>a
<1>1. Healthy => Fresh(n)'
  BY <1>0 DEF DeliverOK, Fresh, Running
<1>2. \A m \in TriggerNames \ {n} : conf'[m] = conf[m] /\ ~Awaited(m)
  BY Writes DEF IndInv, Awaited
<1> QED BY <1>1, <1>2, DeliverKept

LEMMA DeliverInvocations ==
    ASSUME DeliverOK, Invocations
    PROVE  DeliverOK'
<1>1. phase = "idle" /\ UNCHANGED <<docker, conf, faults, kills, exits>>
  BY DEF Invocations, CreateTarget, CreateTransformation, CreateSource, CreateTrigger, Delete,
         DeleteTrigger, Start, Stop, Begin
<1>2. phase' = "stopall" => Broker \in comps'
  BY DEF Invocations, CreateTarget, CreateTransformation, CreateSource, CreateTrigger, Delete,
         DeleteTrigger, Start, Stop, Begin
<1>3. \A n \in TriggerNames : ~Awaited(n)
  BY <1>1 DEF Awaited
<1> QED BY <1>1, <1>2, <1>3, DeliverKept

LEMMA DeliverStartComponent ==
    ASSUME IndInv, DeliverOK, StartComponent
    PROVE  DeliverOK'
<1>. DEFINE c == cmd.comp
<1>1. /\ phase = "start" /\ UNCHANGED <<conf, exits>> /\ c \in Components /\ restart \in BOOLEAN
      /\ (cmd.op = "source" => c \in Sources)
  BY DEF StartComponent, StartFails, At, IndInv, TypeOK, CommandOK, Components, Finish
<1>2. c # Broker /\ c \in Containers
  BY <1>1, SetsAssumption DEF Containers
<1>3. CASE faults' = faults + 1 \/ kills' = kills + 1
  BY <1>3 DEF DeliverOK, Healthy, IndInv, TypeOK
<1>4. CASE Conflict(c, restart) /\ Finish("error") /\ UNCHANGED <<docker, faults, kills>>
  <2>1. ~Healthy
    BY <1>2, <1>4 DEF Conflict, DeliverOK
  <2> QED BY <1>1, <1>4, <2>1 DEF DeliverOK, Healthy
<1>5. CASE /\ StartContainer(c, restart) /\ UNCHANGED <<faults, kills>>
           /\ phase' # "stopall"
           /\ restart => cmd.op = "source" \/ (phase' = "update" /\ work' = TargetTriggers(c))
  <2>1. docker'[c] # None /\ docker'[c].running /\ (~restart /\ docker[c] # None => UNCHANGED docker)
    BY <1>1, <1>2, <1>5, Starts DEF IndInv
  <2>2. \A d \in Containers \ {c} : docker'[d] = docker[d]
    BY <1>2, <1>5, TouchesOne DEF IndInv
  <2>3. docker'[Broker] = docker[Broker]
    BY <1>2, <2>2 DEF Containers
  <2>4. ASSUME Healthy, docker[Broker] # None, NEW n \in TriggerNames, conf'[n] # None
        PROVE  Fresh(n)' \/ Awaited(n)'
    <3>1. Fresh(n)
      BY <1>1, <2>4 DEF DeliverOK, Awaited
    <3>2. conf[n].trigger.target \in Consumers
      BY <1>1, <2>4, TargetKinds DEF IndInv
    <3>3. CASE conf[n].trigger.target # c
      <4>1. docker'[conf[n].trigger.target] = docker[conf[n].trigger.target]
        BY <2>2, <3>2, <3>3 DEF Containers, Components
      <4> QED BY <1>1, <3>1, <4>1 DEF Fresh, Running
    <3>4. CASE conf[n].trigger.target = c /\ restart
      <4>1. cmd.op # "source"
        BY <1>1, <3>2, <3>4, SetsAssumption
      <4>2. n \in TargetTriggers(c)
        BY <1>1, <2>4, <3>4 DEF TargetTriggers
      <4> QED BY <1>5, <3>4, <4>1, <4>2 DEF Awaited
    <3>5. CASE conf[n].trigger.target = c /\ ~restart
      <4>1. docker' = docker
        BY <2>1, <3>1, <3>5 DEF Fresh, Running
      <4> QED BY <1>1, <3>1, <4>1 DEF Fresh, Running
    <3> QED BY <3>3, <3>4, <3>5
  <2> QED BY <1>1, <1>5, <2>1, <2>2, <2>3, <2>4 DEF DeliverOK, Healthy
<1> QED BY <1>3, <1>4, <1>5 DEF StartComponent, StartFails, Finish, AfterUpdate

LEMMA DeliverStartNext ==
    ASSUME IndInv, StartOK, StagesOK, DeliverOK, NEW c \in Containers, StartNext(c)
    PROVE  DeliverOK'
<1>1. /\ phase = "startall" /\ cmd.op = "start" /\ UNCHANGED <<conf, objects>> /\ work = {}
      /\ c \in comps /\ (Broker \in comps => c = Broker /\ {Broker} \cup Present \subseteq comps)
      /\ cmd.restart \in BOOLEAN /\ (Broker \notin comps => docker[Broker] # None)
  BY DEF StartNext, At, StartOK, StagesOK, IndInv, TypeOK, Commands
<1>2. CASE faults' = faults + 1 \/ kills' = kills + 1
  BY <1>2 DEF DeliverOK, Healthy, IndInv, TypeOK
<1>3. CASE Conflict(c, cmd.restart) /\ UNCHANGED <<docker, faults, kills, exits>>
  <2>1. ~Healthy
    BY <1>3 DEF Conflict, DeliverOK
  <2> QED BY <1>3, <2>1 DEF DeliverOK, Healthy
<1>4. CASE /\ StartContainer(c, cmd.restart) /\ comps' = comps \ {c}
           /\ work' = (IF c \in Consumers THEN TargetTriggers(c) ELSE {})
           /\ UNCHANGED <<phase, cmd, faults, kills, exits>>
  <2>1. docker'[c] # None /\ docker'[c].running
    BY <1>1, <1>4, Starts DEF IndInv
  <2>2. \A d \in Containers \ {c} : docker'[d] = docker[d]
    BY <1>4, TouchesOne DEF IndInv
  <2>3. ASSUME Healthy, NEW n \in TriggerNames, conf'[n] # None
        PROVE  Fresh(n)' \/ Awaited(n)'
    <3>. DEFINE t == conf[n].trigger.target
    <3>1. t \in Consumers /\ t \in Present /\ t \in Containers
      BY <1>1, <2>3, TargetKinds DEF IndInv, TargetsOK, Healthy, Present, Components, Containers
    <3>2. CASE t = c
      <4>1. n \in work'
        BY <1>1, <1>4, <2>3, <3>1, <3>2 DEF TargetTriggers
      <4> QED BY <1>1, <1>4, <4>1 DEF Awaited
    <3>3. CASE t # c /\ t \in comps
      BY <1>1, <1>4, <3>3 DEF Awaited
    <3>4. CASE t # c /\ t \notin comps
      <4>1. docker[Broker] # None
        BY <1>1, <3>1, <3>4
      <4>2. Fresh(n)
        BY <1>1, <2>3, <3>4, <4>1 DEF DeliverOK, Awaited
      <4>3. docker'[t] = docker[t]
        BY <2>2, <3>1, <3>4
      <4> QED BY <1>1, <4>2, <4>3 DEF Fresh, Running
    <3> QED BY <3>2, <3>3, <3>4
  <2> QED BY <1>1, <1>4, <2>1, <2>2, <2>3 DEF DeliverOK, Healthy
<1> QED BY <1>2, <1>3, <1>4 DEF StartNext, StartFails, Finish

LEMMA DeliverSteps ==
    ASSUME IndInv, StartOK, StagesOK, DeliverOK, Steps
    PROVE  DeliverOK'
<1>1. CASE WriteManifest
  <2>1. UNCHANGED <<docker, conf, phase, cmd, comps, work, faults, kills, exits>>
    BY <1>1 DEF WriteManifest
  <2>2. \A n \in TriggerNames : Awaited(n) => Awaited(n)'
    BY <2>1 DEF Awaited
  <2>3. Healthy /\ phase = "stopall" => Broker \in comps \/ docker[Broker] = None
    BY DEF DeliverOK
  <2> QED BY <2>1, <2>2, <2>3, DeliverKept
<1>2. CASE AddObject \/ UpdateDone \/ ShadowDone \/ TypesDone \/ Exit
  <2>1. /\ UNCHANGED <<docker, conf, faults, kills, exits>> /\ phase # "stopall" /\ phase' # "stopall"
        /\ phase \in {"add", "shadow", "types", "done"} \/ (phase = "update" /\ work = {})
    BY <1>2 DEF AddObject, UpdateDone, ShadowDone, TypesDone, Exit, At, Finish, AfterUpdate
  <2>2. \A n \in TriggerNames : ~Awaited(n)
    BY <2>1 DEF Awaited
  <2> QED BY <2>1, <2>2, DeliverKept
<1>3. CASE LoopDone
  <2>1. /\ UNCHANGED <<docker, conf, faults, kills, exits>> /\ phase' = "done"
        /\ work = {} /\ comps = {} /\ phase # "update" /\ phase # "object"
    BY <1>3 DEF LoopDone, Finish
  <2>2. \A n \in TriggerNames : ~Awaited(n)
    BY <2>1 DEF Awaited
  <2>3. Healthy /\ phase = "stopall" => docker[Broker] = None
    BY <2>1 DEF DeliverOK
  <2> QED BY <2>1, <2>2, <2>3, DeliverKept
<1>4. CASE CreateRoute
  <2>1. /\ UNCHANGED <<docker, faults, kills, exits>> /\ phase = "route" /\ phase' # "stopall"
        /\ cmd.target \in Consumers /\ cmd.target \in Containers /\ cmd.object.config.out \in Types
    BY <1>4 DEF CreateRoute, At, Finish, IndInv, CommandOK, TypeOK, Commands, Containers, Components
  <2>2. CASE docker[cmd.target] = None
    BY <1>4, <2>1, <2>2, DeliverKept DEF CreateRoute, Awaited
  <2>3. CASE docker[cmd.target] # None
    <3>1. AutoName(cmd.target, cmd.object.config.out) \in TriggerNames
      BY <2>1 DEF TriggerNames, Filters
    <3>2. WriteLocalConfig(AutoName(cmd.target, cmd.object.config.out), cmd.object.config.out, cmd.target)
      BY <1>4, <2>3 DEF CreateRoute
    <3> QED BY <2>1, <2>3, <3>1, <3>2, DeliverWrites
  <2> QED BY <2>2, <2>3
<1>5. ASSUME NEW f \in Filters, CreateTypeTrigger(f)
      PROVE  DeliverOK'
  <2>1. /\ UNCHANGED <<docker, faults, kills, exits>> /\ phase = "types" /\ phase' # "stopall"
        /\ cmd.comp \in Containers /\ f \in types
    BY <1>5 DEF CreateTypeTrigger, At, Finish, IndInv, CommandOK, Containers, Components
  <2>2. CASE docker[cmd.comp] = None
    BY <1>5, <2>1, <2>2, DeliverKept DEF CreateTypeTrigger, Awaited
  <2>3. CASE docker[cmd.comp] # None
    <3>1. NewName(f) \in TriggerNames
      BY <2>1, NewNameType DEF IndInv
    <3>2. WriteLocalConfig(NewName(f), f, cmd.comp)
      BY <1>5, <2>3 DEF CreateTypeTrigger
    <3> QED BY <2>1, <2>3, <3>1, <3>2, DeliverWrites
  <2> QED BY <2>2, <2>3
<1>6. ASSUME NEW r \in old, Retarget(r)
      PROVE  DeliverOK'
  <2>1. /\ UNCHANGED <<docker, faults, kills, exits>> /\ phase = "retarget" /\ phase' = "retarget"
        /\ cmd.comp \in Containers /\ r.name \in TriggerNames /\ docker[cmd.comp] # None
        /\ WriteLocalConfig(r.name, r.filter, cmd.comp)
    BY <1>6 DEF Retarget, At, IndInv, TypeOK, CommandOK, Containers, Components
  <2> QED BY <2>1, DeliverWrites
<1>7. ASSUME NEW n \in TriggerNames, RemoveShadowed(n)
      PROVE  DeliverOK'
  <2>1. /\ UNCHANGED <<docker, faults, kills, exits>> /\ phase = "shadow" /\ phase' # "stopall"
        /\ conf' = conf \/ conf' = [conf EXCEPT ![n] = None]
    BY <1>7 DEF RemoveShadowed, RemoveFromLocalConfig, At, Finish
  <2>2. \A m \in TriggerNames : ~Awaited(m) /\ (conf'[m] # None => conf'[m] = conf[m])
    BY <2>1 DEF Awaited, IndInv, TypeOK
  <2> QED BY <2>1, <2>2, DeliverKept
<1>8. ASSUME NEW n \in TriggerNames, RemoveTrigger(n)
      PROVE  DeliverOK'
  <2>1. /\ UNCHANGED <<docker, faults, kills, exits, cmd, comps, phase>> /\ phase \in {"cleanup", "prune"}
        /\ conf' = [conf EXCEPT ![n] = None] /\ work' = work \ {n}
    BY <1>8 DEF RemoveTrigger, RemoveFromLocalConfig, At
  <2>2. conf'[n] = None /\ \A m \in TriggerNames \ {n} : conf'[m] = conf[m] /\ (Awaited(m) => Awaited(m)')
    BY <2>1 DEF Awaited, IndInv, TypeOK
  <2> QED BY <2>1, <2>2, DeliverKept
<1>9. ASSUME NEW n \in TriggerNames, RefreshTrigger(n)
      PROVE  DeliverOK'
  <2>1. /\ UNCHANGED <<docker, faults, kills, exits, cmd, comps, phase>> /\ phase \in {"update", "startall"}
        /\ work' = work \ {n}
    BY <1>9 DEF RefreshTrigger
  <2>2. Healthy => Fresh(n)'
    <3>1. conf[n].trigger.target \in Containers
      BY <1>9, Refreshes, TargetKinds DEF IndInv, Containers, Components
    <3> QED BY <1>9, <2>1, <3>1, Refreshes DEF IndInv, DeliverOK, Fresh, Running
  <2>3. \A m \in TriggerNames \ {n} : conf'[m] = conf[m]
    BY <1>9, Refreshes DEF IndInv
  <2>4. \A m \in TriggerNames \ {n} : Awaited(m) => Awaited(m)'
    BY <2>1, <2>3 DEF Awaited
  <2> QED BY <2>1, <2>2, <2>3, <2>4, DeliverKept
<1>10. CASE StartComponent
  BY <1>10, DeliverStartComponent
<1>11. CASE RemoveContainer
  <2>1. /\ UNCHANGED <<conf, cmd, kills, exits>> /\ phase = "remove" /\ phase' = "object"
        /\ cmd.comp \in Components
        /\ \/ docker' = [docker EXCEPT ![cmd.comp] = None] /\ faults' = faults
           \/ faults' = faults + 1
    BY <1>11 DEF RemoveContainer, At, IndInv, CommandOK
  <2>2. CASE faults' = faults + 1
    BY <2>2 DEF DeliverOK, Healthy, IndInv, TypeOK
  <2>3. CASE docker' = [docker EXCEPT ![cmd.comp] = None] /\ faults' = faults
    <3>1. docker'[cmd.comp] = None /\ \A d \in Containers \ {cmd.comp} : docker'[d] = docker[d]
      BY <2>1, <2>3 DEF IndInv, TypeOK, Containers
    <3>2. docker'[Broker] = docker[Broker]
      BY <2>1, <3>1, SetsAssumption DEF Containers
    <3>3. ASSUME Healthy, docker[Broker] # None, NEW n \in TriggerNames, conf'[n] # None
          PROVE  Fresh(n)' \/ Awaited(n)'
      <4>1. Fresh(n)
        BY <2>1, <3>3 DEF DeliverOK, Awaited
      <4>2. CASE conf[n].trigger.target = cmd.comp
        BY <2>1, <4>2 DEF Awaited
      <4>3. CASE conf[n].trigger.target # cmd.comp
        <5>1. conf[n].trigger.target \in Containers
          BY <2>1, <3>3, TargetKinds DEF IndInv, Containers, Components
        <5>2. docker'[conf[n].trigger.target] = docker[conf[n].trigger.target]
          BY <3>1, <4>3, <5>1
        <5> QED BY <2>1, <4>1, <5>2 DEF Fresh, Running
      <4> QED BY <4>2, <4>3
    <3> QED BY <2>1, <2>3, <3>1, <3>2, <3>3 DEF DeliverOK, Healthy
  <2> QED BY <2>1, <2>2, <2>3
<1>12. CASE RemoveObject
  <2>1. /\ UNCHANGED <<docker, conf, cmd, faults, kills, exits>> /\ phase = "object" /\ phase' = "cleanup"
        /\ work' = TargetTriggers(cmd.comp)
    BY <1>12 DEF RemoveObject, At
  <2>2. \A n \in TriggerNames : conf[n] # None /\ Awaited(n) => Awaited(n)'
    BY <2>1 DEF Awaited, TargetTriggers
  <2> QED BY <2>1, <2>2, DeliverKept
<1>13. ASSUME NEW c \in Containers, StartNext(c)
       PROVE  DeliverOK'
  BY <1>13, DeliverStartNext
<1>14. ASSUME NEW c \in Containers, StopNext(c)
       PROVE  DeliverOK'
  <2>1. /\ phase = "stopall" /\ phase' = "stopall" /\ comps' = comps \ {c} /\ UNCHANGED <<kills, exits>>
        /\ \/ docker' = [docker EXCEPT ![c] = None] /\ faults' = faults
           \/ faults' = faults + 1
    BY <1>14 DEF StopNext, At
  <2>2. CASE faults' = faults + 1
    BY <2>2 DEF DeliverOK, Healthy, IndInv, TypeOK
  <2>3. CASE docker' = [docker EXCEPT ![c] = None] /\ faults' = faults
    <3>1. docker'[c] = None /\ \A d \in Containers \ {c} : docker'[d] = docker[d]
      BY <2>3 DEF IndInv, TypeOK
    <3> QED BY <2>1, <2>3, <3>1 DEF DeliverOK, Healthy, Containers
  <2> QED BY <2>1, <2>2, <2>3
<1> QED BY <1>1, <1>2, <1>3, <1>4, <1>5, <1>6, <1>7, <1>8, <1>9, <1>10, <1>11, <1>12, <1>13,
           <1>14 DEF Steps

LEMMA DeliverNext ==
    ASSUME IndInv, StartOK, StagesOK, DeliverOK, [Next]_vars
    PROVE  DeliverOK'
<1>1. CASE UNCHANGED vars
  BY <1>1 DEF vars, DeliverOK, Healthy, Awaited, Fresh, Running
<1>2. CASE Kill
  BY <1>2 DEF Kill, DeliverOK, Healthy, IndInv, TypeOK
<1>3. ASSUME NEW c \in Containers, ContainerExit(c)
      PROVE  DeliverOK'
  BY <1>3 DEF ContainerExit, DeliverOK, Healthy, IndInv, TypeOK
<1> QED BY <1>1, <1>2, <1>3, DeliverInvocations, DeliverSteps DEF Next

(* While nothing fails, every trigger of a running broker has the port of a    *)
(* running target between any two commands.                                  *)
THEOREM BrokerDelivers == Spec => []Delivers
<1>1. Init => DeliverOK
  <2> SUFFICES ASSUME Init PROVE DeliverOK
    OBVIOUS
  <2>1. \A c \in Containers : docker[c] # None => docker[c].running
    BY DEF Init
  <2>2. \A n \in TriggerNames : conf[n] = None
    BY DEF Init
  <2> QED BY <2>1, <2>2 DEF Init, DeliverOK
<1>2. IndInv /\ StartOK /\ StagesOK /\ DeliverOK /\ [Next]_vars => DeliverOK'
  BY DeliverNext
<1>3. DeliverOK => Delivers
  BY DEF DeliverOK, Healthy, Awaited, Delivers, Running
<1> QED BY <1>1, <1>2, <1>3, Inductive, Started, Staged, PTL DEF Spec
-----------------------------------------------------------------------------
(* create trigger.                                                           *)
(* What `create trigger --name' has done: the first names of the series have    *)
(* the event types visited so far; the others that are still in broker.conf    *)
(* are among those it will prune, and none of the new ones is.                 *)
Made == Cardinality(cmd.types) - Cardinality(types)
Numbered(i) == UserName(cmd.name, i)

NamedOK ==
    cmd.op = "trigger" /\ cmd.name # None /\ cmd.types # {} =>
        /\ phase \in {"types", "prune", "done"} /\ types \subseteq cmd.types
        /\ phase = "prune" \/ (phase = "done" /\ outcome = "ok") => types = {}
        /\ \A i \in 1 .. Made : conf[Numbered(i)] # None
        /\ {conf[Numbered(i)].trigger : i \in 1 .. Made}
             = {[filter |-> f, target |-> cmd.comp] : f \in cmd.types \ types}
        /\ \A i \in 1 .. Made : /\ phase = "types" => \A r \in old : r.name # Numbered(i)
                                /\ phase = "prune" => Numbered(i) \notin work
        /\ kills = 0 => \A i \in 1 .. Cardinality(Types) : i > Made /\ conf[Numbered(i)] # None =>
             \/ phase = "types" /\ \E r \in old : r.name = Numbered(i)
             \/ phase = "prune" /\ Numbered(i) \in work
             \/ phase = "done" /\ outcome # "ok"

LEMMA NamesDiffer ==
    ASSUME NEW n, NEW i, NEW j, UserName(n, i) = UserName(n, j)
    PROVE  i = j
BY DEF UserName

(* The numbers of the series.                                                *)
LEMMA MadeNumbers ==
    ASSUME TypeOK, types \subseteq cmd.types
    PROVE  /\ Made \in Nat /\ Cardinality(Types) \in Nat /\ Made <= Cardinality(Types)
           /\ types = {} => Made = Cardinality(cmd.types)
           /\ \A f \in types : Cardinality(types \ {f}) = Cardinality(types) - 1 /\ Made < Cardinality(Types)
           /\ Cardinality(types) \in Nat /\ Cardinality(cmd.types) \in Nat
<1>1. cmd.types \subseteq Types
  BY DEF TypeOK, Commands
<1>2. IsFiniteSet(cmd.types) /\ IsFiniteSet(types)
  BY <1>1, SetsAssumption, FS_Subset
<1>3. /\ Cardinality(types) <= Cardinality(cmd.types) /\ Cardinality(cmd.types) <= Cardinality(Types)
  BY <1>1, <1>2, SetsAssumption, FS_Subset
<1>4. Cardinality(types) \in Nat /\ Cardinality(cmd.types) \in Nat /\ Cardinality(Types) \in Nat
  BY <1>2, SetsAssumption, FS_CardinalityType
<1>5. types = {} => Cardinality(types) = 0
  BY FS_EmptySet
<1>6. \A f \in types : Cardinality(types \ {f}) = Cardinality(types) - 1
  BY <1>2, FS_RemoveElement
<1>7. \A f \in types : Cardinality(types) # 0
  BY <1>2, FS_EmptySet
<1> QED BY <1>3, <1>4, <1>5, <1>6, <1>7 DEF Made

LEMMA NumberedType ==
    ASSUME TypeOK, cmd.name # None, NEW i \in 1 .. Cardinality(Types)
    PROVE  Numbered(i) \in TriggerNames
<1>1. cmd.name \in UserNames
  BY DEF TypeOK, Commands
<1>2. Cardinality(Types) \in Nat
  BY SetsAssumption, FS_CardinalityType
<1>3. i \in 0 .. Cardinality(Types)
  BY <1>2
<1> QED BY <1>1, <1>3 DEF Numbered, TriggerNames

(* A step that ends the command, or changes none of this.                    *)
LEMMA NamedKept ==
    ASSUME NamedOK, UNCHANGED <<conf, cmd, types, old, work, kills>>,
           UNCHANGED <<phase, outcome>> \/ (phase' = "done" /\ outcome' # "ok")
    PROVE  NamedOK'
<1>1. Made' = Made /\ \A i : Numbered(i)' = Numbered(i)
  BY DEF Made, Numbered, UserName
<1>2. {conf'[Numbered(i)'].trigger : i \in 1 .. Made'} = {conf[Numbered(i)].trigger : i \in 1 .. Made}
  BY <1>1
<1> QED BY <1>1, <1>2 DEF NamedOK

LEMMA NamedBegins ==
    ASSUME IndInv, NEW n \in UserNames \cup {None}, NEW c \in Consumers, NEW E \in SUBSET Types,
           CreateTrigger(n, c, E)
    PROVE  NamedOK'
<1>. USE DEF IndInv
<1>1. /\ phase = "idle" /\ phase' = "types" /\ types' = (IF E = {} THEN {NoFilter} ELSE E)
      /\ cmd'.name = n /\ cmd'.types = E /\ cmd'.comp = c
      /\ old' = {[name |-> m, filter |-> NoFilter] : m \in OldTriggers(n)}
      /\ UNCHANGED <<conf, triggers, kills>>
  BY DEF CreateTrigger, Begin, NoCommand
<1>2. CASE n = None \/ E = {}
  BY <1>1, <1>2 DEF NamedOK
<1>3. CASE n # None /\ n \in UserNames /\ E # {}
  <2>1. types' = E /\ Made' = 0
    <3>1. IsFiniteSet(E)
      BY SetsAssumption, FS_Subset
    <3>2. Cardinality(E) \in Nat
      BY <3>1, FS_CardinalityType
    <3> QED BY <1>1, <1>3, <3>2 DEF Made
  <2>2. ASSUME kills' = 0, NEW i \in 1 .. Cardinality(Types), conf'[Numbered(i)'] # None
        PROVE  \E r \in old' : r.name = Numbered(i)'
    <3>1. Numbered(i)' = UserName(n, i)
      BY <1>1 DEF Numbered
    <3>2. UserName(n, i) \in TriggerNames /\ UserName(n, i) \in Prefixed[n]
      BY <1>3, MapsAssumption
    <3>3. triggers[UserName(n, i)] # None
      <4>1. pend = None /\ kills = 0
        BY <1>1, <2>2 DEF EditsOK
      <4> QED BY <1>1, <2>2, <3>1, <3>2, <4>1 DEF EditsOK, TriggersAgree, Agree
    <3>4. UserName(n, i) \in OldTriggers(n)
      BY <1>3, <3>2, <3>3 DEF OldTriggers
    <3>5. [name |-> UserName(n, i), filter |-> NoFilter] \in old'
      BY <1>1, <3>4
    <3>6. [name |-> UserName(n, i), filter |-> NoFilter].name = UserName(n, i)
      OBVIOUS
    <3> QED BY <3>1, <3>5, <3>6
  <2>3. 1 .. Made' = {} /\ cmd'.types \ types' = {}
    BY <1>1, <2>1
  <2>4. {conf'[Numbered(i)'].trigger : i \in 1 .. Made'}
          = {[filter |-> f, target |-> cmd'.comp] : f \in cmd'.types \ types'}
    BY <2>3
  <2> QED BY <1>1, <2>1, <2>2, <2>3, <2>4 DEF NamedOK
<1> QED BY <1>2, <1>3

LEMMA NamedCreates ==
    ASSUME IndInv, NamedOK, cmd.op = "trigger", cmd.name # None, cmd.types # {},
           NEW f \in Filters, CreateTypeTrigger(f)
    PROVE  NamedOK'
<1>. USE DEF IndInv
<1>1. /\ phase = "types" /\ f \in types /\ UNCHANGED <<cmd, kills>> /\ types \subseteq cmd.types
      /\ cmd.comp \in Consumers /\ cmd.types \subseteq Types /\ f # NoFilter
  BY SetsAssumption DEF CreateTypeTrigger, At, Finish, NamedOK, CommandOK, TypeOK, Commands
<1>2. CASE docker[cmd.comp] = None
  BY <1>1, <1>2, NamedKept DEF CreateTypeTrigger, Finish
<1>3. CASE docker[cmd.comp] # None
  <2>. DEFINE m == Made
              N(i) == UserName(cmd.name, i)
              T(g) == [filter |-> g, target |-> cmd.comp]
  <2>1. /\ m \in Nat /\ m < Cardinality(Types) /\ Cardinality(Types) \in Nat
        /\ Cardinality(types \ {f}) = Cardinality(types) - 1
        /\ Cardinality(types) \in Nat /\ Cardinality(cmd.types) \in Nat
    BY <1>1, MadeNumbers
  <2>2. NewName(f) = N(m + 1)
    BY <1>1 DEF NewName, Made
  <2>3. /\ WriteLocalConfig(N(m + 1), f, cmd.comp) /\ types' = types \ {f}
        /\ phase' = phase /\ old' = {r \in old : r.name # N(m + 1)}
    BY <1>1, <1>3, <2>2 DEF CreateTypeTrigger
  <2>4. Made' = m + 1
    BY <1>1, <2>1, <2>3 DEF Made
  <2>5. \A i : Numbered(i)' = N(i) /\ Numbered(i) = N(i)
    BY <1>1 DEF Numbered
  <2>6. \A i \in 1 .. Cardinality(Types) : N(i) \in TriggerNames
    BY NumberedType DEF Numbered
  <2>7. m + 1 \in 1 .. Cardinality(Types)
    BY <2>1
  <2>8. conf'[N(m + 1)] = [trigger |-> T(f), url |-> docker[cmd.comp].port]
    BY <2>3, <2>6, <2>7, Writes
  <2>9. conf'[N(m + 1)] # None /\ conf'[N(m + 1)].trigger = T(f)
    <3>1. [trigger |-> T(f), url |-> docker[cmd.comp].port] \in LocalSpecs
      BY <1>1, <1>3 DEF LocalSpecs, Triggers, TypeOK, DockerState, Containers, Components
    <3> QED BY <2>8, <3>1, SetsAssumption
  <2>10. \A i \in 1 .. Cardinality(Types) : i # m + 1 => conf'[N(i)] = conf[N(i)]
    <3> SUFFICES ASSUME NEW i \in 1 .. Cardinality(Types), i # m + 1
                 PROVE  conf'[N(i)] = conf[N(i)]
      OBVIOUS
    <3>1. N(i) # N(m + 1)
      BY NamesDiffer
    <3> QED BY <2>3, <2>6, <2>7, <3>1, Writes
  <2>. HIDE DEF m
  <2>11. 1 .. m + 1 = (1 .. m) \cup {m + 1} /\ 1 .. m \subseteq 1 .. Cardinality(Types)
    BY <2>1
  <2>o. /\ \A i \in 1 .. m : conf[N(i)] # None
        /\ {conf[N(i)].trigger : i \in 1 .. m} = {T(g) : g \in cmd.types \ types}
        /\ \A i \in 1 .. m : \A r \in old : r.name # N(i)
        /\ kills = 0 => \A i \in 1 .. Cardinality(Types) : i > m /\ conf[N(i)] # None =>
                          \E r \in old : r.name = N(i)
    BY <1>1, <2>5 DEF NamedOK, m
  <2>12. \A i \in 1 .. m : conf'[N(i)] = conf[N(i)]
    BY <2>1, <2>10, <2>11
  <2>13. {conf'[N(i)].trigger : i \in 1 .. m + 1} = {T(g) : g \in cmd.types \ (types \ {f})}
    <3>1. {conf'[N(i)].trigger : i \in 1 .. m + 1} = {conf'[N(i)].trigger : i \in 1 .. m} \cup {T(f)}
      BY <2>9, <2>11
    <3>2. {conf'[N(i)].trigger : i \in 1 .. m} = {T(g) : g \in cmd.types \ types}
      BY <2>o, <2>12
    <3>3. cmd.types \ (types \ {f}) = (cmd.types \ types) \cup {f}
      BY <1>1
    <3>4. {T(g) : g \in (cmd.types \ types) \cup {f}} = {T(g) : g \in cmd.types \ types} \cup {T(f)}
      OBVIOUS
    <3> QED BY <3>1, <3>2, <3>3, <3>4
  <2>14. \A i \in 1 .. m + 1 : conf'[N(i)] # None /\ \A r \in old' : r.name # N(i)
    BY <2>3, <2>9, <2>11, <2>12, <2>o
  <2>15. ASSUME kills = 0, NEW i \in 1 .. Cardinality(Types), i > m + 1, conf'[N(i)] # None
         PROVE  \E r \in old' : r.name = N(i)
    <3>1. i # m + 1 /\ i > m
      BY <2>1, <2>15
    <3>2. PICK r \in old : r.name = N(i)
      BY <2>10, <2>15, <2>o, <3>1
    <3>3. N(i) # N(m + 1)
      BY <3>1, NamesDiffer
    <3> QED BY <2>3, <3>2, <3>3
  <2>16. types' \subseteq cmd'.types /\ phase' = "types"
    BY <1>1, <2>3
  <2>17. {conf'[Numbered(i)'].trigger : i \in 1 .. Made'}
           = {[filter |-> g, target |-> cmd'.comp] : g \in cmd'.types \ types'}
    BY <1>1, <2>3, <2>4, <2>5, <2>13 DEF m
  <2>18. Made' = m + 1
    BY <2>4 DEF m
  <2>. HIDE DEF N
  <2> QED BY <1>1, <2>5, <2>14, <2>15, <2>16, <2>17, <2>18 DEF NamedOK
<1> QED BY <1>2, <1>3

LEMMA NamedStays ==
    ASSUME IndInv, NamedOK, [Next]_vars
    PROVE  NamedOK'
<1>. USE DEF IndInv
<1>1. CASE UNCHANGED vars
  BY <1>1, NamedKept DEF vars
<1>2. CASE Invocations
  <2>1. ASSUME NEW n \in UserNames \cup {None}, NEW c \in Consumers, NEW E \in SUBSET Types,
               CreateTrigger(n, c, E)
        PROVE  NamedOK'
    BY <2>1, NamedBegins
  <2>2. CASE cmd'.op # "trigger"
    BY <2>2 DEF NamedOK
  <2> QED BY <1>2, <2>1, <2>2
          DEF Invocations, CreateTarget, CreateTransformation, CreateSource, Delete, DeleteTrigger,
              Start, Stop, Begin, NoCommand
<1>3. CASE Kill
  BY <1>3 DEF Kill, Forget, NoCommand, NamedOK
<1>4. ASSUME NEW c \in Containers, ContainerExit(c)
      PROVE  NamedOK'
  BY <1>4, NamedKept DEF ContainerExit
<1>5. ASSUME Steps, ~(cmd.op = "trigger" /\ cmd.name # None /\ cmd.types # {})
      PROVE  NamedOK'
  BY <1>5, CommandKept DEF NamedOK, NoCommand
<1>6. ASSUME Steps, cmd.op = "trigger", cmd.name # None, cmd.types # {}
      PROVE  NamedOK'
  <2>0. phase \in {"types", "prune", "done"} /\ types \subseteq cmd.types
    BY <1>6 DEF NamedOK
  <2>m. Made \in Nat /\ Cardinality(Types) \in Nat /\ Made <= Cardinality(Types)
    BY <2>0, MadeNumbers
  <2>1. CASE Exit
    BY <2>1 DEF Exit, Forget, NoCommand, NamedOK
  <2>2. CASE WriteManifest
    BY <2>2, NamedKept DEF WriteManifest
  <2>3. ASSUME NEW f \in Filters, CreateTypeTrigger(f)
        PROVE  NamedOK'
    BY <1>6, <2>3, NamedCreates
  <2>4. CASE TypesDone
    <3>1. /\ UNCHANGED <<conf, cmd, types, old, kills>> /\ phase = "types" /\ types = {}
          /\ phase' = "prune" /\ work' = {r.name : r \in old}
      BY <1>6, <2>4 DEF TypesDone, At
    <3>2. Made' = Made /\ \A i : Numbered(i)' = Numbered(i)
      BY <3>1 DEF Made, Numbered, UserName
    <3>3. {conf'[Numbered(i)'].trigger : i \in 1 .. Made'} = {conf[Numbered(i)].trigger : i \in 1 .. Made}
      BY <3>1, <3>2
    <3> QED BY <1>6, <3>1, <3>2, <3>3 DEF NamedOK
  <2>5. CASE LoopDone
    <3>1. /\ UNCHANGED <<conf, cmd, types, old, work, kills>> /\ phase = "prune" /\ phase' = "done"
          /\ work = {}
      BY <2>0, <2>5 DEF LoopDone, Finish
    <3>2. Made' = Made /\ \A i : Numbered(i)' = Numbered(i)
      BY <3>1 DEF Made, Numbered, UserName
    <3>3. {conf'[Numbered(i)'].trigger : i \in 1 .. Made'} = {conf[Numbered(i)].trigger : i \in 1 .. Made}
      BY <3>1, <3>2
    <3> QED BY <1>6, <3>1, <3>2, <3>3 DEF NamedOK
  <2>6. ASSUME NEW n \in TriggerNames, RemoveTrigger(n)
        PROVE  NamedOK'
    <3>1. /\ UNCHANGED <<cmd, types, old, kills, phase, outcome>> /\ phase = "prune"
          /\ n \in work /\ work' = work \ {n} /\ conf' = [conf EXCEPT ![n] = None]
      BY <2>0, <2>6 DEF RemoveTrigger, RemoveFromLocalConfig, At
    <3>2. Made' = Made /\ \A i : Numbered(i)' = Numbered(i)
      BY <3>1 DEF Made, Numbered, UserName
    <3>3. \A i \in 1 .. Cardinality(Types) : Numbered(i) \in TriggerNames
      BY <1>6, NumberedType
    <3>4. conf'[n] = None /\ \A k \in TriggerNames \ {n} : conf'[k] = conf[k]
      BY <3>1 DEF TypeOK
    <3>5. 1 .. Made \subseteq 1 .. Cardinality(Types)
      BY <2>m
    <3>6. \A i \in 1 .. Made : Numbered(i) # n /\ conf'[Numbered(i)] = conf[Numbered(i)]
      BY <1>6, <3>1, <3>3, <3>4, <3>5 DEF NamedOK
    <3>7. {conf'[Numbered(i)'].trigger : i \in 1 .. Made'} = {conf[Numbered(i)].trigger : i \in 1 .. Made}
      BY <3>2, <3>6
    <3>8. \A i \in 1 .. Cardinality(Types) : conf'[Numbered(i)] # None =>
             Numbered(i) # n /\ conf[Numbered(i)] # None
      BY <3>3, <3>4
    <3> QED BY <1>6, <3>1, <3>2, <3>6, <3>7, <3>8 DEF NamedOK
  <2> QED BY <1>6, <2>0, <2>1, <2>2, <2>3, <2>4, <2>5, <2>6
          DEF Steps, AddObject, StartComponent, UpdateDone, CreateRoute, ShadowDone, RemoveContainer,
              RemoveObject, RefreshTrigger, RemoveShadowed, Retarget, StartNext, StopNext, At
<1> QED BY <1>1, <1>2, <1>3, <1>4, <1>5, <1>6 DEF Next

(* A `create trigger --name' that returns no error leaves exactly its own       *)
(* numbered triggers, for any number of event types.                          *)
THEOREM NamesExact == Spec => []NamedTriggersExact
<1>1. Init => NamedOK
  BY DEF Init, NoCommand, NamedOK
<1>2. IndInv /\ NamedOK /\ [Next]_vars => NamedOK'
  BY NamedStays
<1>3. IndInv /\ NamedOK => NamedTriggersExact
  <2> SUFFICES ASSUME IndInv, NamedOK, kills = 0, Ended("trigger", "ok"), cmd.name # None,
                      cmd.types # {}
               PROVE  LET I == 1 .. Cardinality(cmd.types)
                      IN  /\ \A i \in (1 .. Cardinality(Types)) \ I : conf[UserName(cmd.name, i)] = None
                          /\ \A i \in I : Agree(UserName(cmd.name, i))
                          /\ {conf[UserName(cmd.name, i)].trigger : i \in I}
                               = {[filter |-> f, target |-> cmd.comp] : f \in cmd.types}
    BY DEF NamedTriggersExact
  <2>1. types = {} /\ pend = None
    BY DEF Ended, NamedOK, IndInv, EditsOK
  <2>2. Made = Cardinality(cmd.types) /\ Made \in Nat /\ Cardinality(Types) \in Nat
        /\ Made <= Cardinality(Types)
    BY <2>1, MadeNumbers DEF IndInv
  <2>3. \A i \in 1 .. Cardinality(Types) : UserName(cmd.name, i) \in TriggerNames
    BY NumberedType DEF Numbered, IndInv
  <2>4. \A i \in (1 .. Cardinality(Types)) \ (1 .. Made) : i > Made
    BY <2>2
  <2>5. \A i \in (1 .. Cardinality(Types)) \ (1 .. Made) : conf[Numbered(i)] = None
    BY <2>4 DEF Ended, NamedOK
  <2>6. \A i \in 1 .. Made : i \in 1 .. Cardinality(Types)
    BY <2>2
  <2>7. \A i \in 1 .. Made : Agree(UserName(cmd.name, i))
    BY <2>1, <2>3, <2>6 DEF IndInv, EditsOK, TriggersAgree
  <2>8. {conf[Numbered(i)].trigger : i \in 1 .. Made}
          = {[filter |-> f, target |-> cmd.comp] : f \in cmd.types}
    BY <2>1 DEF Ended, NamedOK
  <2> QED BY <2>2, <2>5, <2>7, <2>8 DEF Numbered
<1> QED BY <1>1, <1>2, <1>3, Inductive, PTL DEF Spec

-----------------------------------------------------------------------------
(* create transformation.                                                    *)
(* A generated name tells its trigger's filter, whichever transformation the    *)
(* trigger has been given to.                                                *)
AutoOK ==
    /\ \A c \in Consumers, f \in Filters : conf[AutoName(c, f)] # None =>
         /\ conf[AutoName(c, f)].trigger.filter = f
         /\ conf[AutoName(c, f)].trigger.target \in {c} \cup Transformations
    /\ cmd.op # "trigger" =>
         \A r \in old, c \in Consumers, f \in Filters : r.name = AutoName(c, f) => r.filter = f
    /\ phase = "idle" => old = {}

(* Where a create transformation is, and what it still has to visit.          *)
RoutingOK ==
    /\ phase \in {"route", "shadow", "retarget"} => cmd.op = "transformation"
    /\ phase = "shadow" => cmd.types # {}
    /\ phase = "retarget" => cmd.types = {}
    /\ cmd.op = "transformation" =>
         /\ phase \in {"add", "start", "update", "route", "types", "shadow", "retarget", "done"}
         /\ cmd.comp \in Transformations /\ cmd.name = None /\ types \subseteq cmd.types
         /\ phase \in {"add", "start", "update", "route"} => types = cmd.types
         /\ phase = "done" /\ outcome = "ok" => types = {}

Routed == phase \in {"types", "shadow", "retarget"} \/ (phase = "done" /\ outcome = "ok")

Has(n, f, c) == conf[n] # None /\ conf[n].trigger = [filter |-> f, target |-> c]

(* What is in broker.conf once the route is written: the target's other         *)
(* triggers are those collected before, and none of them is the transformation's.   *)
CollectedOK ==
    /\ \A n \in TriggerNames : conf[n] # None /\ conf[n].trigger.target = cmd.target =>
          n = AutoName(cmd.target, cmd.object.config.out)
          \/ [name |-> n, filter |-> conf[n].trigger.filter] \in old
    /\ \A r \in old, f \in Filters : r.name # AutoName(cmd.comp, f)
    /\ \A r \in old, s \in old : r.name = s.name => r = s

RouteOK ==
    cmd.object.config.out \notin cmd.types \cup Patterns =>
        Has(AutoName(cmd.target, cmd.object.config.out), cmd.object.config.out, cmd.target)

ShadowOK ==
    /\ \A f \in cmd.types \ types :
         /\ Has(AutoName(cmd.comp, f), f, cmd.comp)
         /\ cmd.object.config.out \notin cmd.types /\ f \notin Patterns =>
              \A n \in TriggerNames : Has(n, f, cmd.target) => phase = "shadow" /\ n \in work
    /\ phase = "shadow" => \A n \in work : \E r \in old :
         r.name = n /\ r.filter \in {NoFilter} \cup (cmd.types \ types)

RetargetOK ==
    /\ phase = "retarget" \/ (phase = "done" /\ cmd.types = {}) => \A r \in old :
         r.filter # cmd.object.config.out =>
           (phase = "retarget" /\ r.name \in work) \/ Has(r.name, r.filter, cmd.comp)
    /\ phase = "retarget" => \A n \in work : \E r \in old :
         r.name = n /\ (r.filter # cmd.object.config.out \/ r.filter \in Patterns)

TakeOK ==
    cmd.op = "transformation" /\ cmd.target \in Targets /\ Routed =>
        CollectedOK /\ RouteOK /\ ShadowOK /\ RetargetOK

LEMMA AutoNames ==
    ASSUME NEW c, NEW d, NEW f, NEW g
    PROVE  /\ AutoName(c, f) = AutoName(d, g) => c = d /\ f = g
           /\ \A n, i : UserName(n, i) # AutoName(c, f)
BY DEF AutoName, UserName

LEMMA AutoType ==
    ASSUME NEW c \in Consumers, NEW f \in Filters
    PROVE  AutoName(c, f) \in TriggerNames
BY DEF TriggerNames

LEMMA RoutingStays ==
    ASSUME IndInv, RoutingOK, [Next]_vars
    PROVE  RoutingOK'
<1>. USE DEF IndInv
<1>1. CASE UNCHANGED vars
  BY <1>1 DEF vars, RoutingOK
<1>2. CASE Invocations
  <2>1. ASSUME NEW c \in Transformations, NEW s \in Specs,
               NEW out \in (Types \ Patterns) \cup {None}, NEW E \in SUBSET Types,
               NEW t \in Consumers \cup {None}, CreateTransformation(c, s, out, E, t)
        PROVE  RoutingOK'
    <3>1. phase' = "add" /\ types' = E /\ cmd'.types = E /\ cmd'.comp = c /\ cmd'.name = None
      BY <2>1 DEF CreateTransformation, Begin, NoCommand
    <3> QED BY <3>1 DEF RoutingOK
  <2>2. CASE cmd'.op # "transformation" /\ phase' \notin {"route", "shadow", "retarget"}
    BY <2>2 DEF RoutingOK
  <2> QED BY <1>2, <2>1, <2>2
          DEF Invocations, CreateTarget, CreateSource, CreateTrigger, Delete, DeleteTrigger, Start, Stop,
              Begin, NoCommand
<1>3. CASE Kill
  BY <1>3 DEF Kill, Forget, NoCommand, RoutingOK
<1>4. ASSUME NEW c \in Containers, ContainerExit(c)
      PROVE  RoutingOK'
  BY <1>4 DEF ContainerExit, RoutingOK
<1>5. CASE Steps
  <2>1. CASE WriteManifest \/ (\E n \in TriggerNames : RefreshTrigger(n) \/ RemoveTrigger(n))
             \/ (\E r \in old : Retarget(r)) \/ (\E c \in Containers : StopNext(c))
    <3>1. UNCHANGED <<phase, cmd, types, outcome>>
      BY <2>1 DEF WriteManifest, RefreshTrigger, RemoveTrigger, Retarget, StopNext
    <3> QED BY <3>1 DEF RoutingOK
  <2>2. CASE Exit
    BY <2>2 DEF Exit, Forget, NoCommand, RoutingOK
  <2>3. CASE AddObject \/ UpdateDone \/ CreateRoute \/ ShadowDone
    <3>1. UNCHANGED <<cmd, types>>
      BY <2>3 DEF AddObject, UpdateDone, CreateRoute, ShadowDone, Finish
    <3>2. \/ phase = "add" /\ phase' = "start"
          \/ phase = "update" /\ phase' \in {"route", "types"} /\ (phase' = "route" => cmd.op = "transformation")
          \/ phase = "route" /\ (phase' = "types" \/ (phase' = "done" /\ outcome' # "ok"))
          \/ phase = "shadow" /\ phase' = "types"
      BY <2>3 DEF AddObject, UpdateDone, CreateRoute, ShadowDone, At, AfterUpdate, Finish
    <3> QED BY <3>1, <3>2 DEF RoutingOK
  <2>4. CASE StartComponent
    <3>1. \/ UNCHANGED <<cmd, types>> /\ phase' = "done" /\ (outcome' = "ok" => cmd.op = "source")
          \/ UNCHANGED <<cmd, types>> /\ phase' = "update"
          \/ UNCHANGED <<cmd, types>> /\ phase' = AfterUpdate
          \/ cmd' = NoCommand /\ phase' = "idle"
      BY <2>4 DEF StartComponent, StartFails, Finish, Forget
    <3>2. phase = "start"
      BY <2>4 DEF StartComponent, At
    <3> QED BY <3>1, <3>2 DEF RoutingOK, AfterUpdate, NoCommand
  <2>5. CASE TypesDone
    <3>1. UNCHANGED <<cmd, types>> /\ phase = "types" /\ types = {}
          /\ (phase' = "retarget" => cmd.op = "transformation" /\ cmd.types = {})
          /\ phase' \in {"retarget", "prune", "done"} /\ (phase' = "prune" => cmd.op = "trigger")
      BY <2>5 DEF TypesDone, At, Finish
    <3> QED BY <3>1 DEF RoutingOK
  <2>6. CASE LoopDone
    <3>1. UNCHANGED <<cmd, types>> /\ phase' = "done" /\ phase \notin {"types", "done", "shadow"}
          /\ phase \in {"cleanup", "prune", "retarget", "startall", "stopall"}
      BY <2>6 DEF LoopDone, Finish
    <3> QED BY <3>1 DEF RoutingOK
  <2>7. ASSUME NEW n \in TriggerNames, RemoveShadowed(n)
        PROVE  RoutingOK'
    <3>1. UNCHANGED <<cmd, types>> /\ phase = "shadow"
          /\ (phase' = "shadow" \/ (phase' = "done" /\ outcome' # "ok"))
      BY <2>7 DEF RemoveShadowed, At, Finish
    <3> QED BY <3>1 DEF RoutingOK
  <2>8. ASSUME NEW f \in Filters, CreateTypeTrigger(f)
        PROVE  RoutingOK'
    <3>1. cmd' = cmd /\ phase = "types" /\ f \in types
          /\ \/ types' = types /\ phase' = "done" /\ outcome' # "ok"
             \/ types' = types \ {f} /\ (IF cmd.op = "transformation" THEN phase' = "shadow" ELSE phase' = phase)
      BY <2>8 DEF CreateTypeTrigger, At, Finish
    <3> QED BY <3>1 DEF RoutingOK
  <2>9. CASE RemoveContainer \/ RemoveObject
    <3>1. cmd' = cmd /\ phase \in {"remove", "object"} /\ phase' \in {"object", "cleanup"}
      BY <2>9 DEF RemoveContainer, RemoveObject, At
    <3> QED BY <3>1 DEF RoutingOK
  <2>10. ASSUME NEW c \in Containers, StartNext(c)
         PROVE  RoutingOK'
    <3>1. phase = "startall" /\ (cmd' = cmd \/ cmd' = NoCommand) /\ phase' \in {"startall", "done", "idle"}
      BY <2>10 DEF StartNext, StartFails, At, Finish, Forget
    <3> QED BY <3>1 DEF RoutingOK, NoCommand
  <2> QED BY <1>5, <2>1, <2>2, <2>3, <2>4, <2>5, <2>6, <2>7, <2>8, <2>9, <2>10 DEF Steps
<1> QED BY <1>1, <1>2, <1>3, <1>4, <1>5 DEF Next

-----------------------------------------------------------------------------
(* Names and filters.                                                        *)

(* A step that keeps the collected triggers and gives each entry of broker.conf *)
(* the filter it had.                                                        *)
LEMMA AutoKept ==
    ASSUME AutoOK,
           old' = {} \/ (old' = old /\ (cmd'.op # "trigger" => cmd.op # "trigger") /\ (phase' # "idle" \/ phase = "idle")),
           \A n \in TriggerNames : conf'[n] # None => conf[n] # None /\ conf'[n].trigger = conf[n].trigger
    PROVE  AutoOK'
<1>1. \A c \in Consumers, f \in Filters : conf'[AutoName(c, f)] # None =>
         /\ conf'[AutoName(c, f)].trigger.filter = f
         /\ conf'[AutoName(c, f)].trigger.target \in {c} \cup Transformations
  BY AutoType DEF AutoOK
<1> QED BY <1>1 DEF AutoOK, AutoName

LEMMA AutoWrites ==
    ASSUME TypeOK, AutoOK, NEW n \in TriggerNames, NEW f \in Filters, NEW d \in Consumers, WriteLocalConfig(n, f, d),
           \A c \in Consumers, g \in Filters : n = AutoName(c, g) => f = g /\ d \in {c} \cup Transformations,
           phase' # "idle",
           cmd'.op # "trigger" =>
             \A r \in old', c \in Consumers, g \in Filters : r.name = AutoName(c, g) => r.filter = g
    PROVE  AutoOK'
<1>1. conf'[n].trigger = [filter |-> f, target |-> d] /\ \A m \in TriggerNames \ {n} : conf'[m] = conf[m]
  <2>1. conf'[n] = [trigger |-> [filter |-> f, target |-> d], url |-> docker[d].port]
    BY Writes
  <2>2. conf'[n].trigger = [filter |-> f, target |-> d]
    BY <2>1
  <2> QED BY <2>2, Writes
<1>2. ASSUME NEW c \in Consumers, NEW g \in Filters, conf'[AutoName(c, g)] # None
      PROVE  /\ conf'[AutoName(c, g)].trigger.filter = g
             /\ conf'[AutoName(c, g)].trigger.target \in {c} \cup Transformations
  <2>1. CASE AutoName(c, g) = n
    BY <1>1, <2>1
  <2>2. CASE AutoName(c, g) # n
    BY <1>1, <1>2, <2>2, AutoType DEF AutoOK
  <2> QED BY <2>1, <2>2
<1>. QED BY <1>2 DEF AutoOK, AutoName

LEMMA AutoStays ==
    ASSUME IndInv, RoutingOK, AutoOK, [Next]_vars
    PROVE  AutoOK'
<1>. USE DEF IndInv
<1>1. CASE UNCHANGED vars
  BY <1>1, AutoKept DEF vars
<1>2. CASE Invocations
  <2>1. UNCHANGED conf /\ phase = "idle" /\ old = {}
    BY <1>2 DEF Invocations, CreateTarget, CreateTransformation, CreateSource, CreateTrigger, Delete,
                DeleteTrigger, Start, Stop, Begin, AutoOK
  <2>2. old' = {} \/ cmd'.op = "trigger"
    BY <1>2, <2>1 DEF Invocations, CreateTarget, CreateTransformation, CreateSource, CreateTrigger, Delete,
                DeleteTrigger, Start, Stop, Begin, NoCommand
  <2>3. phase' # "idle"
    BY <1>2 DEF Invocations, CreateTarget, CreateTransformation, CreateSource, CreateTrigger, Delete,
                DeleteTrigger, Start, Stop, Begin
  <2> QED BY <2>1, <2>2, <2>3, AutoKept DEF AutoOK, AutoName
<1>3. CASE Kill
  BY <1>3, AutoKept DEF Kill, Forget
<1>4. ASSUME NEW c \in Containers, ContainerExit(c)
      PROVE  AutoOK'
  BY <1>4, AutoKept DEF ContainerExit
<1>5. CASE Steps
  <2>1. CASE WriteManifest \/ AddObject \/ UpdateDone \/ ShadowDone \/ TypesDone \/ RemoveContainer
             \/ RemoveObject \/ LoopDone \/ \E c \in Containers : StopNext(c)
    <3>1. UNCHANGED <<conf, old, cmd>> /\ (phase' = "idle" => phase = "idle")
      BY <2>1 DEF WriteManifest, AddObject, UpdateDone, ShadowDone, TypesDone, RemoveContainer,
                  RemoveObject, LoopDone, StopNext, Finish, AfterUpdate
    <3> QED BY <3>1, AutoKept
  <2>2. CASE Exit \/ StartComponent \/ \E c \in Containers : StartNext(c)
    <3>1. UNCHANGED conf /\ (old' = {} \/ (UNCHANGED <<old, cmd>> /\ phase' # "idle"))
      BY <2>2 DEF Exit, StartComponent, StartNext, StartFails, Finish, Forget, AfterUpdate, At
    <3> QED BY <3>1, AutoKept
  <2>3. ASSUME NEW n \in TriggerNames, RefreshTrigger(n)
        PROVE  AutoOK'
    <3>1. UNCHANGED <<old, cmd, phase>>
      BY <2>3 DEF RefreshTrigger
    <3>2. \A m \in TriggerNames : conf'[m] # None => conf[m] # None /\ conf'[m].trigger = conf[m].trigger
      BY <2>3, Refreshes
    <3> QED BY <3>1, <3>2, AutoKept
  <2>4. ASSUME NEW n \in TriggerNames, RemoveShadowed(n) \/ RemoveTrigger(n)
        PROVE  AutoOK'
    <3>1. /\ UNCHANGED <<old, cmd>> /\ (phase' = "idle" => phase = "idle")
          /\ conf' = conf \/ conf' = [conf EXCEPT ![n] = None]
      BY <2>4 DEF RemoveShadowed, RemoveTrigger, RemoveFromLocalConfig, Finish
    <3>2. \A m \in TriggerNames : conf'[m] # None => conf[m] # None /\ conf'[m].trigger = conf[m].trigger
      BY <3>1 DEF TypeOK
    <3> QED BY <3>1, <3>2, AutoKept
  <2>5. CASE CreateRoute
    <3>1. /\ cmd' = cmd /\ phase' # "idle" /\ cmd.target \in Consumers /\ cmd.object.config.out \in Filters
      BY <2>5 DEF CreateRoute, At, Finish, CommandOK, TypeOK, Commands, Filters
    <3>2. CASE docker[cmd.target] = None
      BY <2>5, <3>1, <3>2, AutoKept DEF CreateRoute, Finish
    <3>3. CASE docker[cmd.target] # None
      <4>1. /\ WriteLocalConfig(AutoName(cmd.target, cmd.object.config.out), cmd.object.config.out, cmd.target)
            /\ old' = {[name |-> n, filter |-> conf[n].trigger.filter] : n \in TargetTriggers(cmd.target)}
        BY <2>5, <3>3 DEF CreateRoute
      <4>2. \A r \in old', c \in Consumers, g \in Filters : r.name = AutoName(c, g) => r.filter = g
        BY <4>1 DEF AutoOK, TargetTriggers
      <4>3. AutoName(cmd.target, cmd.object.config.out) \in TriggerNames
        BY <3>1, AutoType
      <4>4. \A c \in Consumers, g \in Filters :
               AutoName(cmd.target, cmd.object.config.out) = AutoName(c, g) =>
                  cmd.object.config.out = g /\ cmd.target \in {c} \cup Transformations
        BY AutoNames
      <4> QED BY <3>1, <4>1, <4>2, <4>3, <4>4, AutoWrites
    <3> QED BY <3>2, <3>3
  <2>6. ASSUME NEW f \in Filters, CreateTypeTrigger(f)
        PROVE  AutoOK'
    <3>1. /\ cmd' = cmd /\ phase = "types" /\ phase' # "idle" /\ f \in types /\ cmd.comp \in Consumers
      BY <2>6 DEF CreateTypeTrigger, At, Finish, CommandOK
    <3>2. CASE docker[cmd.comp] = None
      BY <2>6, <3>1, <3>2, AutoKept DEF CreateTypeTrigger, Finish
    <3>3. CASE docker[cmd.comp] # None
      <4>1. WriteLocalConfig(NewName(f), f, cmd.comp) /\ old' \subseteq old
        BY <2>6, <3>3 DEF CreateTypeTrigger
      <4>2. NewName(f) \in TriggerNames
        BY <3>1, NewNameType
      <4>3. \A c \in Consumers, g \in Filters : NewName(f) = AutoName(c, g) => f = g /\ cmd.comp \in {c} \cup Transformations
        BY AutoNames DEF NewName
      <4>4. cmd'.op # "trigger" =>
              \A r \in old', c \in Consumers, g \in Filters : r.name = AutoName(c, g) => r.filter = g
        BY <3>1, <4>1 DEF AutoOK
      <4> QED BY <3>1, <4>1, <4>2, <4>3, <4>4, AutoWrites
    <3> QED BY <3>2, <3>3
  <2>7. ASSUME NEW r \in old, Retarget(r)
        PROVE  AutoOK'
    <3>1. /\ UNCHANGED <<cmd, old>> /\ phase' # "idle" /\ cmd.op = "transformation"
          /\ cmd.comp \in Transformations /\ r.name \in TriggerNames /\ r.filter \in Filters
          /\ WriteLocalConfig(r.name, r.filter, cmd.comp)
      BY <2>7 DEF Retarget, At, RoutingOK, TypeOK
    <3>2. \A c \in Consumers, g \in Filters : r.name = AutoName(c, g) => r.filter = g
      BY <3>1 DEF AutoOK
    <3>3. \A s \in old', c \in Consumers, g \in Filters : s.name = AutoName(c, g) => s.filter = g
      BY <3>1 DEF AutoOK
    <3> QED BY <3>1, <3>2, <3>3, AutoWrites DEF Consumers
  <2> QED BY <1>5, <2>1, <2>2, <2>3, <2>4, <2>5, <2>6, <2>7 DEF Steps
<1> QED BY <1>1, <1>2, <1>3, <1>4, <1>5 DEF Next

-----------------------------------------------------------------------------
(* Who gets the target's events.                                             *)

(* What create writes is there afterwards.                                   *)
LEMMA WritesSome ==
    ASSUME TypeOK, NEW n \in TriggerNames, NEW f \in Filters, NEW c \in Consumers, docker[c] # None,
           WriteLocalConfig(n, f, c)
    PROVE  Has(n, f, c)' /\ \A m \in TriggerNames \ {n} : conf'[m] = conf[m]
<1>1. conf'[n] = [trigger |-> [filter |-> f, target |-> c], url |-> docker[c].port]
  BY Writes
<1>2. conf'[n] \in LocalSpecs
  BY <1>1 DEF LocalSpecs, Triggers, TypeOK, DockerState, Containers, Components
<1>3. conf'[n].trigger = [filter |-> f, target |-> c]
  BY <1>1
<1> QED BY <1>2, <1>3, Writes, SetsAssumption DEF Has

(* The places of create transformation --target where the route is written.  *)
Taking == cmd.op = "transformation" /\ cmd.target \in Targets

LEMMA TakingFacts ==
    ASSUME IndInv, RoutingOK, Taking
    PROVE  /\ cmd.comp \in Transformations /\ cmd.comp \in Consumers /\ cmd.target \in Consumers
           /\ cmd.comp # cmd.target /\ cmd.target \notin Transformations
           /\ cmd.object.config.out \in Types /\ cmd.object.config.out \in Filters
           /\ cmd.types \subseteq Types /\ cmd.types \subseteq Filters
           /\ old \subseteq [name: TriggerNames, filter: Filters]
           /\ AutoName(cmd.target, cmd.object.config.out) \in TriggerNames
           /\ \A f \in Filters : AutoName(cmd.comp, f) \in TriggerNames
BY SetsAssumption, AutoType
   DEF IndInv, RoutingOK, Taking, CommandOK, TypeOK, Commands, Consumers, Filters

LEMMA TakeRoute ==
    ASSUME IndInv, RoutingOK, AutoOK, Taking, CreateRoute, docker[cmd.target] # None
    PROVE  TakeOK'
<1>. USE DEF IndInv
<1>. DEFINE x == cmd.comp
            t == cmd.target
            out == cmd.object.config.out
            n0 == AutoName(t, out)
<1>1. /\ phase = "route" /\ phase' = "types" /\ UNCHANGED <<cmd, types>> /\ types = cmd.types
      /\ old' = {[name |-> n, filter |-> conf[n].trigger.filter] : n \in TargetTriggers(t)}
      /\ WriteLocalConfig(n0, out, t)
  BY DEF CreateRoute, At, RoutingOK, Taking
<1>2. Has(n0, out, t)' /\ \A m \in TriggerNames \ {n0} : conf'[m] = conf[m]
  BY <1>1, TakingFacts, WritesSome
<1>3. ASSUME NEW n \in TriggerNames, conf'[n] # None, conf'[n].trigger.target = t
      PROVE  n = n0 \/ [name |-> n, filter |-> conf'[n].trigger.filter] \in old'
  BY <1>1, <1>2, <1>3 DEF TargetTriggers
<1>4. ASSUME NEW r \in old', NEW f \in Filters
      PROVE  r.name # AutoName(x, f)
  <2>1. PICK n \in TargetTriggers(t) : r = [name |-> n, filter |-> conf[n].trigger.filter]
    BY <1>1
  <2>2. r.name = n /\ conf[n] # None /\ conf[n].trigger.target = t
    BY <2>1 DEF TargetTriggers
  <2> QED BY <2>2, TakingFacts DEF AutoOK
<1>5. \A r \in old', s \in old' : r.name = s.name => r = s
  BY <1>1
<1>6. CollectedOK'
  BY <1>1, <1>3, <1>4, <1>5 DEF CollectedOK, AutoName
<1>7. RouteOK' /\ ShadowOK' /\ RetargetOK'
  BY <1>1, <1>2 DEF RouteOK, ShadowOK, RetargetOK, AutoName
<1> QED BY <1>6, <1>7 DEF TakeOK

LEMMA TakeType ==
    ASSUME IndInv, RoutingOK, AutoOK, TakeOK, Taking,
           NEW f \in Filters, CreateTypeTrigger(f), docker[cmd.comp] # None
    PROVE  TakeOK'
<1>. USE DEF IndInv
<1>. DEFINE x == cmd.comp
            t == cmd.target
            out == cmd.object.config.out
            n0 == AutoName(t, out)
<1>1. /\ phase = "types" /\ phase' = "shadow" /\ UNCHANGED <<cmd, old>> /\ types' = types \ {f}
      /\ f \in types /\ types \subseteq cmd.types /\ work' = Shadowed(f)
      /\ WriteLocalConfig(AutoName(x, f), f, x)
  BY DEF CreateTypeTrigger, At, NewName, RoutingOK, Taking
<1>2. CollectedOK /\ RouteOK /\ ShadowOK
  BY <1>1 DEF TakeOK, Taking, Routed
<1>3. Has(AutoName(x, f), f, x)' /\ \A m \in TriggerNames \ {AutoName(x, f)} : conf'[m] = conf[m]
  BY <1>1, TakingFacts, WritesSome
<1>4. ASSUME NEW n \in TriggerNames, conf'[n] # None, conf'[n].trigger.target = t
      PROVE  n # AutoName(x, f) /\ conf'[n] = conf[n]
  <2>1. n # AutoName(x, f)
    <3>0. conf'[AutoName(x, f)].trigger = [filter |-> f, target |-> x]
      BY <1>1, <1>3 DEF Has, AutoName
    <3>1. conf'[AutoName(x, f)].trigger.target = x
      BY <3>0
    <3> QED BY <1>4, <3>1, TakingFacts
  <2> QED BY <1>3, <2>1
<1>5. CollectedOK'
  BY <1>1, <1>2, <1>4 DEF CollectedOK, AutoName
<1>6. RouteOK'
  <2>1. n0 # AutoName(x, f)
    BY TakingFacts, AutoNames
  <2> QED BY <1>1, <1>2, <1>3, <2>1, TakingFacts DEF RouteOK, Has, AutoName
<1>7. ASSUME NEW g \in cmd.types \ types'
      PROVE  /\ Has(AutoName(x, g), g, x)'
             /\ out \notin cmd.types /\ g \notin Patterns =>
                  \A n \in TriggerNames : Has(n, g, t)' => n \in work'
  <2>1. CASE g = f
    <3>1. ASSUME out \notin cmd.types, g \notin Patterns, NEW n \in TriggerNames, Has(n, g, t)'
          PROVE  n \in work'
      <4>0. conf'[n] # None /\ conf'[n].trigger = [filter |-> g, target |-> t]
        BY <1>1, <3>1 DEF Has
      <4>1. conf'[n] # None /\ conf'[n].trigger.target = t /\ conf'[n].trigger.filter = g
        BY <4>0
      <4>2. conf[n] = conf'[n]
        BY <1>4, <4>1
      <4>3. n # n0
        BY <1>1, <2>1, <3>1, <4>1, <4>2, TakingFacts DEF AutoOK
      <4>4. [name |-> n, filter |-> g] \in old
        BY <1>2, <4>1, <4>2, <4>3 DEF CollectedOK
      <4>5. [name |-> n, filter |-> g].name = n /\ [name |-> n, filter |-> g].filter = f
        BY <2>1
      <4> QED BY <1>1, <2>1, <3>1, <4>4, <4>5 DEF Shadowed
    <3> QED BY <1>3, <2>1, <3>1
  <2>2. CASE g # f
    <3>1. g \in cmd.types \ types
      BY <1>1, <2>2
    <3>2. AutoName(x, g) # AutoName(x, f) /\ AutoName(x, g) \in TriggerNames
      BY <2>2, AutoNames, TakingFacts
    <3>3. Has(AutoName(x, g), g, x)'
      BY <1>1, <1>2, <1>3, <3>1, <3>2 DEF ShadowOK, Has, AutoName
    <3>4. ASSUME out \notin cmd.types, g \notin Patterns, NEW n \in TriggerNames, Has(n, g, t)'
          PROVE  FALSE
      <4>1. conf'[n] # None /\ conf'[n].trigger = [filter |-> g, target |-> t]
        BY <1>1, <3>4 DEF Has
      <4>0. conf'[n].trigger.target = t
        BY <4>1
      <4>2. conf[n] = conf'[n]
        BY <1>4, <4>0, <4>1
      <4>3. Has(n, g, t)
        BY <4>1, <4>2 DEF Has
      <4> QED BY <1>1, <1>2, <3>1, <3>4, <4>3 DEF ShadowOK
    <3> QED BY <3>3, <3>4
  <2> QED BY <2>1, <2>2
<1>8. \A n \in work' : \E r \in old' : r.name = n /\ r.filter \in {NoFilter} \cup (cmd.types \ types')
  BY <1>1 DEF Shadowed
<1>9. ShadowOK' /\ RetargetOK'
  <2>1. \A g \in cmd'.types \ types' :
          /\ Has(AutoName(cmd.comp, g), g, cmd.comp)'
          /\ (cmd.object.config.out)' \notin cmd'.types /\ g \notin Patterns =>
               \A n \in TriggerNames : Has(n, g, cmd.target)' => phase' = "shadow" /\ n \in work'
    BY <1>1, <1>7 DEF AutoName, Has
  <2> QED BY <1>1, <1>8, <2>1 DEF ShadowOK, RetargetOK
<1> QED BY <1>5, <1>6, <1>9 DEF TakeOK

LEMMA TakeRemoves ==
    ASSUME IndInv, RoutingOK, AutoOK, TakeOK, Taking, NEW n \in TriggerNames,
           RemoveShadowed(n), [name |-> n, filter |-> NoFilter] \notin old
    PROVE  TakeOK'
<1>. USE DEF IndInv
<1>. DEFINE x == cmd.comp
            t == cmd.target
            out == cmd.object.config.out
            n0 == AutoName(t, out)
<1>1. /\ phase = "shadow" /\ phase' = "shadow" /\ UNCHANGED <<cmd, old, types>>
      /\ n \in work /\ work' = work \ {n} /\ conf' = [conf EXCEPT ![n] = None]
  BY DEF RemoveShadowed, RemoveFromLocalConfig, At
<1>2. CollectedOK /\ RouteOK /\ ShadowOK
  BY <1>1 DEF TakeOK, Taking, Routed
<1>3. conf'[n] = None /\ \A m \in TriggerNames \ {n} : conf'[m] = conf[m]
  BY <1>1 DEF TypeOK
<1>4. PICK r \in old : r.name = n /\ r.filter \in cmd.types
  <2>1. PICK r \in old : r.name = n /\ r.filter \in {NoFilter} \cup (cmd.types \ types)
    BY <1>1, <1>2 DEF ShadowOK
  <2>2. r = [name |-> r.name, filter |-> r.filter]
    BY TakingFacts
  <2> QED BY <2>1, <2>2
<1>5. CollectedOK'
  BY <1>1, <1>2, <1>3 DEF CollectedOK, AutoName
<1>6. RouteOK'
  <2>1. out \notin cmd.types => n # n0
    BY <1>4, TakingFacts DEF AutoOK, Taking
  <2> QED BY <1>1, <1>2, <1>3, <2>1, TakingFacts DEF RouteOK, Has, AutoName
<1>7. \A g \in cmd.types \ types : Has(AutoName(x, g), g, x)'
  <2> SUFFICES ASSUME NEW g \in cmd.types \ types PROVE Has(AutoName(x, g), g, x)'
    OBVIOUS
  <2>1. AutoName(x, g) # n /\ AutoName(x, g) \in TriggerNames
    BY <1>2, <1>4, TakingFacts DEF CollectedOK
  <2> QED BY <1>1, <1>2, <1>3, <2>1 DEF ShadowOK, Has, AutoName
<1>8. \A g \in cmd.types \ types, m \in TriggerNames : Has(m, g, t)' => Has(m, g, t) /\ m # n
  BY <1>1, <1>3 DEF Has
<1>9. ShadowOK' /\ RetargetOK'
  <2>1. \A g \in cmd'.types \ types' :
          /\ Has(AutoName(cmd.comp, g), g, cmd.comp)'
          /\ (cmd.object.config.out)' \notin cmd'.types /\ g \notin Patterns =>
               \A m \in TriggerNames : Has(m, g, cmd.target)' => phase' = "shadow" /\ m \in work'
    <3>1. \A g \in cmd.types \ types : out \notin cmd.types /\ g \notin Patterns =>
               \A m \in TriggerNames : Has(m, g, t)' => m \in work'
      BY <1>1, <1>2, <1>8 DEF ShadowOK
    <3> QED BY <1>1, <1>7, <3>1 DEF AutoName, Has
  <2>2. \A m \in work' : \E s \in old' : s.name = m /\ s.filter \in {NoFilter} \cup (cmd'.types \ types')
    BY <1>1, <1>2 DEF ShadowOK
  <2> QED BY <1>1, <2>1, <2>2 DEF ShadowOK, RetargetOK
<1> QED BY <1>5, <1>6, <1>9 DEF TakeOK

LEMMA TakeRetargets ==
    ASSUME IndInv, RoutingOK, AutoOK, TakeOK, Taking, NEW r \in old, Retarget(r)
    PROVE  TakeOK'
<1>. USE DEF IndInv
<1>. DEFINE x == cmd.comp
            t == cmd.target
            out == cmd.object.config.out
            n0 == AutoName(t, out)
<1>1. /\ phase = "retarget" /\ phase' = "retarget" /\ UNCHANGED <<cmd, old, types>> /\ cmd.types = {}
      /\ r.name \in work /\ work' = work \ {r.name} /\ docker[x] # None
      /\ WriteLocalConfig(r.name, r.filter, x)
  BY DEF Retarget, At, RoutingOK
<1>2. CollectedOK /\ RouteOK /\ RetargetOK
  BY <1>1 DEF TakeOK, Taking, Routed
<1>3. r.name \in TriggerNames /\ r.filter \in Filters
  BY TakingFacts
<1>4. Has(r.name, r.filter, x)' /\ \A m \in TriggerNames \ {r.name} : conf'[m] = conf[m]
  BY <1>1, <1>3, TakingFacts, WritesSome
<1>5. conf'[r.name].trigger.target = x
  <2>1. conf'[r.name].trigger = [filter |-> r.filter, target |-> x]
    BY <1>1, <1>4 DEF Has
  <2> QED BY <2>1
<1>6. CollectedOK'
  BY <1>1, <1>2, <1>4, <1>5, TakingFacts DEF CollectedOK, AutoName
<1>7. RouteOK'
  <2>1. out \notin Patterns => r.name # n0
    <3>1. r.filter # out \/ r.filter \in Patterns
      BY <1>1, <1>2 DEF RetargetOK, CollectedOK
    <3> QED BY <3>1, TakingFacts DEF AutoOK, Taking
  <2> QED BY <1>1, <1>2, <1>4, <2>1, TakingFacts DEF RouteOK, Has, AutoName
<1>8. ASSUME NEW s \in old, s.filter # out
      PROVE  s.name \in work' \/ Has(s.name, s.filter, x)'
  <2>1. CASE s.name = r.name
    BY <1>2, <1>4, <2>1 DEF CollectedOK
  <2>2. CASE s.name # r.name
    <3>1. s.name \in TriggerNames
      BY TakingFacts
    <3> QED BY <1>1, <1>2, <1>4, <1>8, <2>2, <3>1 DEF RetargetOK, Has
  <2> QED BY <2>1, <2>2
<1>9. ShadowOK' /\ RetargetOK'
  <2>1. \A s \in old' : s.filter # (cmd.object.config.out)' =>
          s.name \in work' \/ Has(s.name, s.filter, cmd.comp)'
    BY <1>1, <1>8 DEF Has
  <2>2. \A n \in work' : \E s \in old' :
          s.name = n /\ (s.filter # (cmd.object.config.out)' \/ s.filter \in Patterns)
    BY <1>1, <1>2 DEF RetargetOK
  <2> QED BY <1>1, <2>1, <2>2 DEF ShadowOK, RetargetOK
<1> QED BY <1>6, <1>7, <1>9 DEF TakeOK

(* A step that writes no trigger.                                            *)
LEMMA TakeFrame ==
    ASSUME CollectedOK, RouteOK, UNCHANGED <<conf, cmd, old>>
    PROVE  CollectedOK' /\ RouteOK'
BY DEF CollectedOK, RouteOK, Has, AutoName

LEMMA TakeKept ==
    ASSUME TakeOK, UNCHANGED <<conf, cmd, types, old, work, phase, outcome>>
    PROVE  TakeOK'
<1>1. Routed' = Routed /\ (CollectedOK /\ RouteOK => CollectedOK' /\ RouteOK')
  BY TakeFrame DEF Routed
<1>2. ShadowOK => ShadowOK'
  BY DEF ShadowOK, Has, AutoName
<1>3. RetargetOK => RetargetOK'
  BY DEF RetargetOK, Has
<1> QED BY <1>1, <1>2, <1>3 DEF TakeOK

LEMMA TakeStays ==
    ASSUME IndInv, RoutingOK, AutoOK, TakeOK, [Next]_vars
    PROVE  TakeOK'
<1>. USE DEF IndInv
<1>1. CASE UNCHANGED vars
  BY <1>1, TakeKept DEF vars
<1>2. CASE Invocations
  <2>1. phase' # "done" /\ (cmd'.op = "transformation" => phase' = "add")
    BY <1>2 DEF Invocations, CreateTarget, CreateTransformation, CreateSource, CreateTrigger, Delete,
                DeleteTrigger, Start, Stop, Begin, NoCommand
  <2> QED BY <2>1 DEF TakeOK, Routed
<1>3. CASE Kill
  BY <1>3 DEF Kill, Forget, NoCommand, TakeOK
<1>4. ASSUME NEW c \in Containers, ContainerExit(c)
      PROVE  TakeOK'
  BY <1>4, TakeKept DEF ContainerExit
<1>5. ASSUME Steps, ~Taking
      PROVE  TakeOK'
  BY <1>5, CommandKept DEF Taking, TakeOK, NoCommand
<1>6. ASSUME Steps, Taking
      PROVE  TakeOK'
  <2>0. phase \in {"add", "start", "update", "route", "types", "shadow", "retarget", "done"}
        /\ cmd.target # None /\ cmd.op = "transformation"
    BY <1>6, SetsAssumption DEF RoutingOK, Taking, Components, Consumers
  <2>1. CASE WriteManifest
    BY <2>1, TakeKept DEF WriteManifest
  <2>2. CASE cmd' = NoCommand
    BY <2>2 DEF NoCommand, TakeOK
  <2>3. CASE phase' = "done" /\ outcome' # "ok"
    BY <2>3 DEF TakeOK, Routed
  <2>4. CASE phase' \in {"start", "update", "route"}
    BY <2>4 DEF TakeOK, Routed
  <2>5. CASE CreateRoute
    BY <1>6, <2>3, <2>5, TakeRoute DEF CreateRoute, Finish
  <2>6. ASSUME NEW f \in Filters, CreateTypeTrigger(f)
        PROVE  TakeOK'
    BY <1>6, <2>3, <2>6, TakeType DEF CreateTypeTrigger, Finish
  <2>7. ASSUME NEW n \in TriggerNames, RemoveShadowed(n)
        PROVE  TakeOK'
    BY <1>6, <2>3, <2>7, TakeRemoves DEF RemoveShadowed, Finish
  <2>8. ASSUME NEW r \in old, Retarget(r)
        PROVE  TakeOK'
    BY <1>6, <2>8, TakeRetargets
  <2>9. CASE ShadowDone
    <3>1. /\ UNCHANGED <<conf, cmd, types, old, work>> /\ phase = "shadow" /\ phase' = "types" /\ work = {}
      BY <2>9 DEF ShadowDone, At
    <3>2. CollectedOK /\ RouteOK /\ ShadowOK
      BY <1>6, <3>1 DEF TakeOK, Taking, Routed
    <3>3. CollectedOK' /\ RouteOK'
      BY <3>1, <3>2, TakeFrame
    <3>4. ShadowOK' /\ RetargetOK'
      BY <3>1, <3>2 DEF ShadowOK, RetargetOK, Has, AutoName
    <3> QED BY <3>3, <3>4 DEF TakeOK
  <2>10. CASE TypesDone
    <3>1. /\ UNCHANGED <<conf, cmd, types, old>> /\ phase = "types" /\ types = {}
          /\ \/ /\ cmd.types = {} /\ phase' = "retarget"
                /\ work' = {r.name : r \in {q \in old :
                              q.filter # cmd.object.config.out \/ q.filter \in Patterns}}
             \/ cmd.types # {} /\ phase' = "done"
      BY <2>0, <2>10 DEF TypesDone, At, Finish
    <3>2. CollectedOK /\ RouteOK /\ ShadowOK
      BY <1>6, <3>1 DEF TakeOK, Taking, Routed
    <3>3. CollectedOK' /\ RouteOK'
      BY <3>1, <3>2, TakeFrame
    <3>4. ShadowOK'
      BY <3>1, <3>2 DEF ShadowOK, Has, AutoName
    <3>5. RetargetOK'
      BY <3>1 DEF RetargetOK
    <3> QED BY <3>3, <3>4, <3>5 DEF TakeOK
  <2>11. CASE LoopDone
    <3>1. /\ UNCHANGED <<conf, cmd, types, old, work>> /\ phase = "retarget" /\ phase' = "done" /\ work = {}
          /\ cmd.types = {}
      BY <2>0, <2>11 DEF LoopDone, Finish, RoutingOK
    <3>2. CollectedOK /\ RouteOK /\ RetargetOK
      BY <1>6, <3>1 DEF TakeOK, Taking, Routed
    <3>3. CollectedOK' /\ RouteOK'
      BY <3>1, <3>2, TakeFrame
    <3>4. ShadowOK'
      BY <3>1 DEF ShadowOK
    <3>5. RetargetOK'
      BY <3>1, <3>2 DEF RetargetOK, Has
    <3> QED BY <3>3, <3>4, <3>5 DEF TakeOK
  <2>12. CASE AddObject
    BY <2>4, <2>12 DEF AddObject
  <2>13. CASE StartComponent
    BY <2>0, <2>2, <2>3, <2>4, <2>13 DEF StartComponent, StartFails, Finish, Forget, AfterUpdate
  <2>14. CASE UpdateDone
    BY <2>0, <2>4, <2>14 DEF UpdateDone, AfterUpdate
  <2>15. ASSUME NEW n \in TriggerNames, RefreshTrigger(n)
         PROVE  TakeOK'
    <3>1. phase' = "update"
      BY <2>0, <2>15 DEF RefreshTrigger
    <3> QED BY <2>4, <3>1
  <2>16. CASE Exit
    BY <2>2, <2>16 DEF Exit, Forget
  <2> QED BY <1>6, <2>0, <2>1, <2>5, <2>6, <2>7, <2>8, <2>9, <2>10, <2>11, <2>12, <2>13, <2>14, <2>15,
             <2>16
          DEF Steps, RemoveContainer, RemoveObject, RemoveTrigger, StartNext, StopNext, At
<1> QED BY <1>1, <1>2, <1>3, <1>4, <1>5, <1>6 DEF Next

(* A `create transformation --target' that returns no error sends the           *)
(* transformation's events to the target and its event types, or all others,   *)
(* to the transformation and no longer to the target.                         *)
THEOREM TransformationsTakeOver == Spec => []TransformationTakesOver
<1>1. Init => RoutingOK /\ AutoOK /\ TakeOK
  <2> SUFFICES ASSUME Init PROVE RoutingOK /\ AutoOK /\ TakeOK
    OBVIOUS
  <2>1. \A c \in Consumers, f \in Filters : conf[AutoName(c, f)] = None
    BY AutoType DEF Init
  <2> QED BY <2>1 DEF Init, NoCommand, RoutingOK, AutoOK, TakeOK
<1>2. IndInv /\ RoutingOK /\ AutoOK /\ TakeOK /\ [Next]_vars => (RoutingOK /\ AutoOK /\ TakeOK)'
  BY RoutingStays, AutoStays, TakeStays
<1>3. IndInv /\ RoutingOK /\ AutoOK /\ TakeOK => TransformationTakesOver
  <2> SUFFICES ASSUME IndInv, RoutingOK, AutoOK, TakeOK, Ended("transformation", "ok"),
                      cmd.target \in Targets, cmd.object.config.out \notin Patterns
               PROVE  LET x == cmd.comp t == cmd.target out == cmd.object.config.out
                      IN  IF cmd.types = {}
                          THEN /\ Route(out, t)
                               /\ \A f \in Filters \ {out} : ~Route(f, t)
                               /\ \A r \in old : r.filter # out => Route(r.filter, x)
                          ELSE out \notin cmd.types =>
                               /\ Route(out, t)
                               /\ \A f \in cmd.types : Route(f, x) /\ (f \notin Patterns => ~Route(f, t))
    BY DEF TransformationTakesOver
  <2>. DEFINE x == cmd.comp
              t == cmd.target
              out == cmd.object.config.out
  <2>1. Taking /\ Routed /\ phase = "done" /\ types = {}
    BY DEF Taking, Routed, Ended, RoutingOK
  <2>2. CollectedOK /\ RouteOK /\ ShadowOK /\ RetargetOK
    BY <2>1 DEF TakeOK, Taking
  <2>3. \A n \in TriggerNames : \A f, c : Has(n, f, c) => Route(f, c)
    BY DEF Has, Route
  <2>4. out \notin cmd.types => Route(out, t)
    BY <2>1, <2>2, <2>3, TakingFacts DEF RouteOK
  <2>5. CASE cmd.types = {}
    <3>1. \A r \in old : r.filter # out => Has(r.name, r.filter, x)
      BY <2>1, <2>2, <2>5 DEF RetargetOK
    <3>2. ASSUME NEW f \in Filters \ {out}, Route(f, t)
          PROVE  FALSE
      <4>1. PICK n \in TriggerNames : conf[n] # None /\ conf[n].trigger = [filter |-> f, target |-> t]
        BY <3>2 DEF Route
      <4>2. conf[n].trigger.filter = f /\ conf[n].trigger.target = t
        BY <4>1
      <4>3. n # AutoName(t, out)
        BY <2>1, <3>2, <4>1, <4>2, TakingFacts DEF AutoOK
      <4>4. [name |-> n, filter |-> f] \in old
        BY <2>2, <4>1, <4>2, <4>3 DEF CollectedOK
      <4>5. [name |-> n, filter |-> f].name = n /\ [name |-> n, filter |-> f].filter = f
        OBVIOUS
      <4>6. Has(n, f, x)
        BY <3>1, <3>2, <4>4, <4>5
      <4>7. conf[n].trigger.target = x
        BY <4>6 DEF Has
      <4> QED BY <2>1, <4>2, <4>7, TakingFacts
    <3>3. \A r \in old : r.filter # out => Route(r.filter, x)
      BY <2>1, <2>3, <3>1, TakingFacts
    <3> QED BY <2>4, <2>5, <3>2, <3>3
  <2>6. CASE cmd.types # {}
    <3>1. ASSUME out \notin cmd.types, NEW f \in cmd.types
          PROVE  Route(f, x) /\ (f \notin Patterns => ~Route(f, t))
      <4>1. Has(AutoName(x, f), f, x) /\ f \in Filters
        BY <2>1, <2>2, TakingFacts DEF ShadowOK
      <4>2. Route(f, x)
        BY <2>1, <2>3, <4>1, TakingFacts
      <4>3. f \notin Patterns => \A n \in TriggerNames : ~Has(n, f, t)
        BY <2>1, <2>2, <3>1 DEF ShadowOK
      <4> QED BY <4>2, <4>3 DEF Has, Route
    <3> QED BY <2>4, <2>6, <3>1
  <2> QED BY <2>5, <2>6
<1> QED BY <1>1, <1>2, <1>3, Inductive, PTL DEF Spec
=============================================================================

------------------------ MODULE IntegrationProperties ------------------------
(* What the commands of one broker context promise together.               *)
EXTENDS Integration

Agree(n) ==
    /\ (conf[n] = None) = (triggers[n] = None)
    /\ conf[n] # None => conf[n].trigger = triggers[n]

(* Unless a command was killed, broker.conf and the manifest describe the  *)
(* same triggers at every moment, but for the one trigger a command has    *)
(* written to the first file and not yet to the second: no Docker error,    *)
(* early return or panic of a command ends between the two writes          *)
(* (createTrigger, and the pairs of removals in create and delete).         *)
TriggersAgree ==
    kills = 0 => \A n \in TriggerNames : (pend # None /\ pend.name = n) \/ Agree(n)

(* Unless a command was killed, every trigger the broker holds between two  *)
(* commands is for a component of the manifest: create adds the component   *)
(* before its triggers, delete takes them with it (cleanupTriggers), and    *)
(* dump and describe may dereference the target of every trigger.          *)
TargetsExist ==
    kills = 0 /\ phase = "idle" =>
        \A n \in TriggerNames : conf[n] # None => objects[conf[n].trigger.target] # None

Fresh(n) == Running(conf[n].trigger.target)
            /\ conf[n].url = docker[conf[n].trigger.target].port

(* While nothing fails, a running broker delivers between two commands:     *)
(* every trigger's target runs and the trigger's URL is its present port,   *)
(* through restarts, stops, re-targeted triggers and new ports.             *)
Delivers ==
    faults = 0 /\ kills = 0 /\ exits = 0 /\ phase = "idle" /\ Running(Broker) =>
        \A n \in TriggerNames : conf[n] # None => Fresh(n)

(* While nothing fails, between two commands the containers are those of    *)
(* the manifest's components, each started with the present spec, and a     *)
(* source sends to the broker's present port.                               *)
RuntimeMatchesManifest ==
    faults = 0 /\ kills = 0 /\ phase = "idle" =>
        \A c \in Components : docker[c] # None =>
            /\ objects[c] # None
            /\ docker[c].config = objects[c].config
            /\ c \in Sources => docker[Broker] # None /\ docker[c].sink = docker[Broker].port

Ended(op, o) == phase = "done" /\ cmd.op = op /\ outcome = o

(* Whatever failed or was killed before it, a `start' that returns no error *)
(* leaves the broker and every component of the manifest with a container,  *)
(* running unless it has stopped by itself, and every trigger of theirs     *)
(* with the container's port.                                               *)
StartServes ==
    Ended("start", "ok") =>
        \A c \in Present \cup {Broker} :
            /\ docker[c] # None
            /\ exits = 0 => docker[c].running
            /\ c \in Consumers =>
                 \A n \in TargetTriggers(c) : conf[n].url = docker[c].port

(* Whatever failed or was killed before it, a `start --restart' that        *)
(* returns no error leaves every component with the spec of the manifest    *)
(* and every source sending to the broker's new port.                       *)
RestartApplies ==
    Ended("start", "ok") /\ cmd.restart =>
        \A c \in Present :
            /\ docker[c].config = objects[c].config
            /\ docker[c].sink = Sink(c)

(* Whatever failed or was killed before it, a `create target' with event    *)
(* types that returns no error has its triggers in both files, for this     *)
(* target and with its present port: the command can be repeated.           *)
CreateRepairs ==
    Ended("target", "ok") =>
        \A f \in cmd.types :
            LET n == AutoName(cmd.comp, f)
                t == [filter |-> f, target |-> cmd.comp]
            IN  triggers[n] = t /\ conf[n] = [trigger |-> t, url |-> docker[cmd.comp].port]

Route(f, c) == \E n \in TriggerNames :
                  conf[n] # None /\ conf[n].trigger = [filter |-> f, target |-> c]

(* `create transformation --target t' that returns no error has put the     *)
(* transformation before t: its events go to t; the event types it was      *)
(* created for, or all others when none were named, go to the               *)
(* transformation and no longer to t.  (Of its own output type, and of one  *)
(* written with a `*', see OutputRouted.)                                    *)
TransformationTakesOver ==
    Ended("transformation", "ok") /\ cmd.target \in Targets /\ cmd.object.config.out \notin Patterns =>
        LET x == cmd.comp t == cmd.target out == cmd.object.config.out
        IN  IF cmd.types = {}
            THEN /\ Route(out, t)
                 /\ \A f \in Filters \ {out} : ~Route(f, t)
                 /\ \A r \in old : r.filter # out => Route(r.filter, x)
            ELSE out \notin cmd.types =>
                 /\ Route(out, t)
                 /\ \A f \in cmd.types : Route(f, x) /\ (f \notin Patterns => ~Route(f, t))

(* Unless a command was killed, a `create trigger --name n' with event types *)
(* that returns no error leaves n-1, ..., n-k for its k event types and no   *)
(* other n-i, in the manifest and in broker.conf.                            *)
NamedTriggersExact ==
    kills = 0 /\ Ended("trigger", "ok") /\ cmd.name # None /\ cmd.types # {} =>
        LET I == 1 .. Cardinality(cmd.types)
        IN  /\ \A i \in (1 .. Cardinality(Types)) \ I : conf[UserName(cmd.name, i)] = None
            /\ \A i \in I : Agree(UserName(cmd.name, i))
            /\ {conf[UserName(cmd.name, i)].trigger : i \in I}
                 = {[filter |-> f, target |-> cmd.comp] : f \in cmd.types}

(* Every command ends, whatever fails: its loops run over what it collected  *)
(* and no step waits for another one.                                        *)
CommandEnds == phase # "idle" ~> phase = "idle"

-----------------------------------------------------------------------------
(* The inductive invariant behind TypeOK, TriggersAgree and TargetsExist.    *)

(* The arguments a command carries in each of its phases.                    *)
CommandOK ==
    /\ phase \in {"add", "start"} =>
         /\ cmd.op \in {"target", "transformation", "source"}
         /\ cmd.object \in Objects
         /\ cmd.comp \in (IF cmd.op = "source" THEN Sources ELSE Consumers)
    /\ phase \in {"update", "route", "types", "shadow", "retarget", "prune"} =>
         cmd.comp \in Consumers /\ cmd.op \in {"target", "transformation", "trigger"}
    /\ phase \in {"remove", "object"} => cmd.op = "delete" /\ cmd.comp \in Components
    /\ cmd.op = "transformation" => cmd.object \in Objects /\ cmd.object.config.out \in Types
    /\ phase = "route" => cmd.op = "transformation" /\ cmd.target # None
    /\ phase = "idle" => types = {}
    /\ types \subseteq {NoFilter} \/ types \subseteq cmd.types

(* The files differ in at most the trigger that is pending, and broker.conf  *)
(* already holds that one; nothing is pending outside the editing phases.    *)
EditsOK ==
    /\ pend # None =>
         /\ phase \in {"types", "shadow", "retarget", "prune", "cleanup"}
         /\ IF pend.trigger = None THEN conf[pend.name] = None
            ELSE conf[pend.name] # None /\ conf[pend.name].trigger = pend.trigger
    /\ TriggersAgree

(* A trigger without its component is one the running delete is about to     *)
(* remove; the components a running command makes triggers for exist.        *)
TargetsOK ==
    /\ kills = 0 => \A n \in TriggerNames : conf[n] # None =>
         \/ objects[conf[n].trigger.target] # None
         \/ phase = "cleanup" /\ n \in work
    /\ phase \in {"start", "update", "route", "types", "shadow", "retarget", "prune"} =>
         objects[cmd.comp] # None
    /\ cmd.op = "transformation" /\ cmd.target # None /\ phase # "done" =>
         objects[cmd.target] # None

IndInv == TypeOK /\ CommandOK /\ EditsOK /\ TargetsOK
-----------------------------------------------------------------------------
(* What comments and help texts of the code say, and the code does not do.   *)

(* "update our triggers in case of target container restart"                *)
(* (target.go:153, transformation.go:231): a create that returns no error    *)
(* leaves the component's triggers with its container's port.                *)
TriggersFollowContainer ==
    Ended("target", "ok") =>
        \A n \in TargetTriggers(cmd.comp) : conf[n].url = docker[cmd.comp].port

(* "creating new trigger from transformation to target"                      *)
(* (transformation.go:239): the trigger is there when the command succeeds.  *)
OutputRouted ==
    Ended("transformation", "ok") /\ cmd.target \in Targets =>
        Route(cmd.object.config.out, cmd.target)
=============================================================================

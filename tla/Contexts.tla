------------------------------ MODULE Contexts ------------------------------
(***************************************************************************)
(* The brokers of a user: one directory with a manifest per broker, the     *)
(* current broker in config.yaml, and containers whose names are global.    *)
(* Commands of one terminal, each a sequence of file writes and Docker      *)
(* calls that may fail or be killed between two of them.  What a manifest   *)
(* says of a component, and triggers, are the subject of Integration.       *)
(***************************************************************************)
EXTENDS Naturals, FiniteSets

CONSTANTS
    Brokers,      \* names of brokers: <<base, k>> is base with k times "-broker"
    Components,   \* names of components, the same in every broker
    Rank,         \* alphabetical order of the brokers
    None,
    MaxFaults,    \* bound on Docker failures
    MaxKills,     \* bound on killed commands
    MaxMistakes   \* bound on `brokers --set' of a broker that does not exist

Append(n) == <<n[1], n[2] + 1>>

(* Mutants: every broker has the same container; delete looks for the broker's *)
(* own name.                                                                 *)
ContainerNameShared(b) == <<"broker", 1>>
StopNameBare(b) == b

(* The name Broker.asContainer gives to the container of a broker, and the  *)
(* name that stop and delete look for.                                      *)
ContainerName(b) == IF b[2] > 0 THEN b ELSE Append(b)
StopName(b)      == Append(b)

BrokerContainers == {ContainerName(b) : b \in Brokers} \cup {StopName(b) : b \in Brokers}
Containers == Components \cup BrokerContainers

(* A directory: the files in it and the manifest's entries.                 *)
Self == "broker"
Entries == Components \cup {Self}
Dirs == [conf: BOOLEAN, entries: SUBSET Entries]

ASSUME NamesAssumption ==
    /\ \A b \in Brokers : b = <<b[1], b[2]>> /\ b[2] \in Nat
    /\ Components \cap BrokerContainers = {}
    /\ Self \notin Components
    /\ None \notin Brokers \cup Dirs \cup Components \cup {Self}
ASSUME RankAssumption ==
    /\ IsFiniteSet(Brokers)
    /\ Rank \in [Brokers -> Nat]
    /\ \A b, d \in Brokers : Rank[b] = Rank[d] => b = d
ASSUME LimitsAssumption == MaxFaults \in Nat /\ MaxKills \in Nat /\ MaxMistakes \in Nat
-----------------------------------------------------------------------------
VARIABLES
    dirs,     \* broker directories that hold a manifest
    context,  \* the current broker, in config.yaml
    docker,   \* for each container, the broker it was started for
    phase, cmd,
    ctx,      \* the process's Config.Context
    left,     \* manifest entries a loop of the command has still to visit
    outcome,
    faults, kills, mistakes

files  == <<dirs, context>>
locals == <<cmd, ctx, left>>
limits == <<faults, kills, mistakes>>
vars   == <<files, docker, phase, locals, outcome, limits>>

Commands == [op: {"none", "create broker", "delete broker", "set", "start", "stop",
                  "create", "delete"},
             broker: Brokers \cup {None}, comp: Components \cup {None}, restart: BOOLEAN]
NoCommand == [op |-> "none", broker |-> None, comp |-> None, restart |-> FALSE]

Phases == {"idle", "open", "conf", "add", "save", "run", "loop", "object", "remove dir",
           "switch", "done"}

TypeOK ==
    /\ dirs \in [Brokers -> Dirs \cup {None}]
    /\ context \in Brokers \cup {None}
    /\ docker \in [Containers -> Brokers \cup {None}]
    /\ phase \in Phases /\ cmd \in Commands
    /\ ctx \in Brokers \cup {None}
    /\ left \subseteq Entries
    /\ outcome \in {"ok", "error"}
    /\ faults \in Nat /\ kills \in Nat /\ mistakes \in Nat

Init ==
    /\ dirs = [b \in Brokers |-> None]
    /\ context = None
    /\ docker = [n \in Containers |-> None]
    /\ phase = "idle" /\ cmd = NoCommand /\ ctx = None /\ left = {} /\ outcome = "ok"
    /\ faults = 0 /\ kills = 0 /\ mistakes = 0
-----------------------------------------------------------------------------
Finish(o) == phase' = "done" /\ outcome' = o /\ UNCHANGED locals
Forget    == phase' = "idle" /\ cmd' = NoCommand /\ ctx' = None /\ left' = {} /\ outcome' = "ok"

Exit == phase = "done" /\ Forget /\ UNCHANGED <<files, docker, limits>>

Kill ==
    /\ phase \notin {"idle", "done"} /\ kills < MaxKills /\ kills' = kills + 1
    /\ Forget
    /\ UNCHANGED <<files, docker, faults, mistakes>>

Go(ph) == phase' = ph /\ UNCHANGED <<cmd, ctx, left, outcome>>

Exists(b) == b # None /\ dirs[b] # None

(* A Docker call that works, or fails and leaves things as they are.        *)
Call(change) ==
    \/ docker' = change /\ UNCHANGED limits
    \/ UNCHANGED docker /\ faults < MaxFaults /\ faults' = faults + 1
       /\ UNCHANGED <<kills, mistakes>>

Removed(n) == [docker EXCEPT ![n] = None]

(* Container.Start for the broker `ctx': a container of the name is returned *)
(* unless a restart is asked for.                                            *)
Started(n, again) == IF again \/ docker[n] = None THEN [docker EXCEPT ![n] = ctx] ELSE docker

(* A start that breaks off, by an error or killed: nothing happened, the old  *)
(* container is gone, or the new one is there.                               *)
StartBroken(n, again) ==
    docker' \in {docker, Started(n, again)} \cup (IF again THEN {Removed(n)} ELSE {})

StartFails(n, again) ==
    \/ /\ faults < MaxFaults /\ faults' = faults + 1 /\ UNCHANGED <<kills, mistakes>>
       /\ StartBroken(n, again) /\ Finish("error")
    \/ /\ kills < MaxKills /\ kills' = kills + 1 /\ UNCHANGED <<faults, mistakes>>
       /\ StartBroken(n, again) /\ Forget
-----------------------------------------------------------------------------
(* The commands: the process reads config.yaml, and the manifest of the     *)
(* current broker or of the one in its arguments.                            *)
Begin(op, b, c, again, at) ==
    /\ phase = "idle" /\ phase' = "open"
    /\ cmd' = [op |-> op, broker |-> b, comp |-> c, restart |-> again]
    /\ ctx' = at
    /\ UNCHANGED <<files, docker, left, outcome, limits>>

Argument(b) == IF b = None THEN context ELSE b

CreateBroker(b)    == Begin("create broker", b, None, TRUE, context)
DeleteBroker(b)    == Begin("delete broker", b, None, FALSE, b)
Start(b, again)    == Begin("start", b, None, again, Argument(b))
Stop(b)            == Begin("stop", b, None, FALSE, Argument(b))
Create(c, changed) == Begin("create", None, c, changed, context)
Delete(c)          == Begin("delete", None, c, FALSE, context)

(* `brokers --set', which takes any name.                                    *)
SetBroker(b) ==
    /\ phase = "idle" /\ phase' = "done"
    /\ cmd' = [NoCommand EXCEPT !.op = "set", !.broker = b]
    /\ ctx' = b /\ context' = b
    /\ mistakes' = IF Exists(b) THEN mistakes ELSE mistakes + 1
    /\ mistakes' <= MaxMistakes
    /\ UNCHANGED <<dirs, docker, left, outcome, faults, kills>>

(* create broker: refused when the manifest is there, else an empty one.     *)
MakeManifest ==
    /\ phase = "open" /\ cmd.op = "create broker"
    /\ IF Exists(cmd.broker) THEN Finish("error") /\ UNCHANGED dirs
       ELSE dirs' = [dirs EXCEPT ![cmd.broker] = [conf |-> FALSE, entries |-> {}]] /\ Go("conf")
    /\ UNCHANGED <<context, docker, limits>>

MakeConf ==
    /\ phase = "conf" /\ Go("add")
    /\ dirs' = [dirs EXCEPT ![cmd.broker].conf = TRUE]
    /\ UNCHANGED <<context, docker, limits>>

AddBroker ==
    /\ phase = "add" /\ cmd.op = "create broker" /\ Go("save")
    /\ dirs' = [dirs EXCEPT ![cmd.broker].entries = @ \cup {Self}]
    /\ UNCHANGED <<context, docker, limits>>

(* Mutants: the name of the container is saved; nothing is saved.            *)
SaveContextContainer ==
    /\ phase = "save" /\ phase' = "run"
    /\ ctx' = cmd.broker /\ context' = ContainerName(cmd.broker)
    /\ UNCHANGED <<dirs, docker, cmd, left, outcome, limits>>
SaveContextNot ==
    /\ phase = "save" /\ phase' = "run"
    /\ ctx' = cmd.broker
    /\ UNCHANGED <<files, docker, cmd, left, outcome, limits>>

SaveContext ==
    /\ phase = "save" /\ phase' = "run"
    /\ ctx' = cmd.broker /\ context' = cmd.broker
    /\ UNCHANGED <<dirs, docker, cmd, left, outcome, limits>>

(* The other commands need a manifest to read.  start visits the broker and  *)
(* then the components, stop and delete broker everything.                   *)
OpenManifest ==
    /\ phase = "open" /\ cmd.op # "create broker"
    /\ IF ~Exists(ctx) THEN Finish("error")
       ELSE /\ phase' = (IF cmd.op = "create" THEN "add" ELSE "loop")
            /\ left' = CASE cmd.op = "create" -> {}
                         [] cmd.op = "delete" -> dirs[ctx].entries \cap {cmd.comp}
                         [] OTHER -> dirs[ctx].entries
            /\ UNCHANGED <<cmd, ctx, outcome>>
    /\ UNCHANGED <<files, docker, limits>>

(* create target: a component that is new to the manifest is restarted.      *)
AddComponent ==
    /\ phase = "add" /\ cmd.op = "create"
    /\ phase' = "run"
    /\ dirs' = [dirs EXCEPT ![ctx].entries = @ \cup {cmd.comp}]
    /\ cmd' = [cmd EXCEPT !.restart = @ \/ cmd.comp \notin dirs[ctx].entries]
    /\ UNCHANGED <<context, docker, ctx, left, outcome, limits>>

NewContainer == IF cmd.op = "create broker" THEN ContainerName(ctx) ELSE cmd.comp

RunContainer ==
    /\ phase = "run"
    /\ \/ docker' = Started(NewContainer, cmd.restart) /\ Finish("ok") /\ UNCHANGED limits
       \/ StartFails(NewContainer, cmd.restart)
    /\ UNCHANGED files
-----------------------------------------------------------------------------
StartEntry(e) ==
    /\ phase = "loop" /\ cmd.op = "start" /\ e \in left
    /\ Self \in left => e = Self
    /\ LET n == IF e = Self THEN ContainerName(ctx) ELSE e
       IN  \/ /\ docker' = Started(n, cmd.restart)
              /\ left' = left \ {e} /\ UNCHANGED <<phase, cmd, ctx, outcome, limits>>
           \/ StartFails(n, cmd.restart)
    /\ UNCHANGED files

(* Errors of ForceStop are only logged.                                      *)
StopEntry(e) ==
    /\ phase = "loop" /\ cmd.op = "stop" /\ e \in left /\ left' = left \ {e}
    /\ Call(Removed(IF e = Self THEN StopName(ctx) ELSE e))
    /\ UNCHANGED <<files, phase, cmd, ctx, outcome>>

DeleteContainer(e) ==
    /\ phase = "loop" /\ cmd.op \in {"delete", "delete broker"} /\ e \in left
    /\ Call(Removed(IF e = Self THEN StopName(ctx) ELSE e))
    /\ phase' = "object" /\ cmd' = [cmd EXCEPT !.comp = IF e = Self THEN None ELSE e]
    /\ left' = left \ {e}
    /\ UNCHANGED <<files, ctx, outcome>>

(* The broker's entry stays: removeObject looks for the name with "-broker". *)
RemoveObject ==
    /\ phase = "object" /\ Go("loop")
    /\ dirs' = [dirs EXCEPT ![ctx].entries = @ \ {cmd.comp}]
    /\ UNCHANGED <<context, docker, limits>>

LoopDone ==
    /\ phase = "loop" /\ left = {}
    /\ IF cmd.op = "delete broker" THEN Go("remove dir") ELSE Finish("ok")
    /\ UNCHANGED <<files, docker, limits>>

RemoveDir ==
    /\ phase = "remove dir"
    /\ dirs' = [dirs EXCEPT ![ctx] = None]
    /\ IF cmd.broker = ctx THEN Go("switch") ELSE Finish("ok")
    /\ UNCHANGED <<context, docker, limits>>

First(S) == IF S = {} THEN None ELSE CHOOSE b \in S : \A d \in S : Rank[b] <= Rank[d]

(* Mutant: no other broker is selected.                                      *)
SwitchContextNone ==
    /\ phase = "switch"
    /\ context' = None /\ ctx' = context'
    /\ phase' = "done" /\ outcome' = "ok"
    /\ UNCHANGED <<dirs, docker, cmd, left, limits>>

(* The first of the remaining brokers becomes the current one.               *)
SwitchContext ==
    /\ phase = "switch"
    /\ context' = First({b \in Brokers : dirs[b] # None}) /\ ctx' = context'
    /\ phase' = "done" /\ outcome' = "ok"
    /\ UNCHANGED <<dirs, docker, cmd, left, limits>>
-----------------------------------------------------------------------------
Steps ==
    \/ MakeManifest \/ MakeConf \/ AddBroker \/ SaveContext \/ OpenManifest \/ AddComponent
    \/ RunContainer \/ RemoveObject \/ LoopDone \/ RemoveDir \/ SwitchContext \/ Exit
    \/ \E e \in left : StartEntry(e) \/ StopEntry(e) \/ DeleteContainer(e)

Invocations ==
    \/ \E b \in Brokers : CreateBroker(b) \/ DeleteBroker(b) \/ SetBroker(b)
    \/ \E b \in Brokers \cup {None}, again \in BOOLEAN : Start(b, again)
    \/ \E b \in Brokers \cup {None} : Stop(b)
    \/ \E c \in Components, changed \in BOOLEAN : Create(c, changed)
    \/ \E c \in Components : Delete(c)

Next == Invocations \/ Steps \/ Kill

Spec == Init /\ [][Next]_vars
-----------------------------------------------------------------------------
(* Properties.                                                               *)

Owned(n) ==
    LET b == docker[n]
    IN  /\ Exists(b)
        /\ IF n \in Components THEN n \in dirs[b].entries
           ELSE n = ContainerName(b) /\ Self \in dirs[b].entries

(* Unless Docker fails, and whatever is killed at any point, a container is   *)
(* always listed in the manifest of the broker it was started for, so that    *)
(* stop and delete find it: an entry is written before its container starts   *)
(* and removed after it (create, deleteEverything, deleteBroker).  For        *)
(* brokers whose name does not end in "-broker".                              *)
NoOrphans == faults = 0 => \A n \in Containers : docker[n] # None => Owned(n)

(* Unless a command was killed or `brokers --set' named a missing broker, the *)
(* current broker exists between two commands, and there is one when there    *)
(* are brokers: create broker selects the new one, delete broker another one  *)
(* (switchContext).                                                           *)
CurrentBrokerExists ==
    kills = 0 /\ mistakes = 0 /\ phase = "idle" =>
        IF context = None THEN \A b \in Brokers : dirs[b] = None ELSE Exists(context)

Ended(op, o) == phase = "done" /\ cmd.op = op /\ outcome = o

(* A `create broker' that returns no error has made all of the broker: both   *)
(* files, its entry, its container, its selection, whatever an earlier        *)
(* command that failed or was killed has left of that name.                   *)
CreateCompletes ==
    Ended("create broker", "ok") =>
        /\ dirs[cmd.broker] # None
        /\ dirs[cmd.broker].conf /\ Self \in dirs[cmd.broker].entries
        /\ context = cmd.broker
        /\ docker[ContainerName(cmd.broker)] = cmd.broker

(* A command for one broker, be it current or an argument, never stops or     *)
(* replaces the container of another one (names without "-broker").           *)
BrokersApart ==
    [][\A b \in Brokers : docker[ContainerName(b)] = b /\ ctx # b
          => docker'[ContainerName(b)] = b]_vars

-----------------------------------------------------------------------------
(* The inductive invariant behind NoOrphans and CurrentBrokerExists.          *)

(* The arguments a command carries in each of its phases, and the manifest    *)
(* entries it relies on: nobody else writes them.                             *)
CommandOK ==
    /\ phase # "idle" => cmd.op # "none"
    /\ cmd.op = "create broker" => cmd.broker \in Brokers
    /\ cmd.op = "create" => cmd.comp \in Components
    /\ cmd.op = "delete broker" /\ phase # "done" => ctx = cmd.broker
    /\ phase \in {"conf", "save"} => cmd.op = "create broker"
    /\ phase \in {"add", "run"} => cmd.op \in {"create broker", "create"}
    /\ phase = "object" => cmd.op \in {"delete", "delete broker"}
    /\ phase \in {"remove dir", "switch"} => cmd.op = "delete broker"
    /\ phase \in {"conf", "add", "save"} /\ cmd.op = "create broker" => Exists(cmd.broker)
    /\ phase = "save" => Self \in dirs[cmd.broker].entries
    /\ phase = "add" /\ cmd.op = "create" => Exists(ctx)
    /\ phase = "run" => /\ Exists(ctx)
                        /\ IF cmd.op = "create broker" THEN Self \in dirs[ctx].entries
                           ELSE cmd.comp \in dirs[ctx].entries
    /\ phase \in {"loop", "object"} => Exists(ctx) /\ left \subseteq dirs[ctx].entries
    /\ phase = "object" => cmd.comp \notin left
    /\ phase = "remove dir" => Exists(ctx)

(* Every container has an owner that lists it; a component about to leave     *)
(* the manifest has none, and what a delete broker has not visited yet is     *)
(* all that its broker still owns.                                           *)
OwnersOK ==
    faults = 0 =>
        /\ \A n \in Containers : docker[n] # None => Owned(n)
        /\ phase = "object" /\ cmd.comp # None => docker[cmd.comp] = None
        /\ phase \in {"loop", "object"} /\ cmd.op = "delete broker" =>
             \A n \in Containers : docker[n] = ctx =>
                (IF n \in Components THEN n ELSE Self) \in left
        /\ phase = "remove dir" => \A n \in Containers : docker[n] # ctx

(* Only between writing the files of a new broker and selecting it, and        *)
(* between removing a broker and selecting another, the selection may be off.  *)
CurrentOK ==
    kills = 0 /\ mistakes = 0 =>
        /\ phase # "switch" /\ context # None => Exists(context)
        /\ phase # "switch" /\ context = None =>
             \/ \A b \in Brokers : dirs[b] = None
             \/ cmd.op = "create broker" /\ phase \in {"conf", "add", "save"}

IndInv == TypeOK /\ CommandOK /\ OwnersOK /\ CurrentOK
-----------------------------------------------------------------------------
(* What messages of the code say, and the code does not do.                   *)

(* "To change the current broker use "tmctl brokers --set <broker name>""     *)
(* (output.go:41) and the condition of deleteBroker (delete/broker.go:57):    *)
(* deleting another broker does not change the current one.                   *)
SwitchOnlyCurrent ==
    [][cmd.op = "delete broker" /\ cmd.broker # context => context' = context]_vars
=============================================================================

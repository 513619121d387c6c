------------------------------ MODULE Deployment ------------------------------
(***************************************************************************)
(* The life of components with credentials and external resources: create,   *)
(* start, stop, delete, dump and import of one broker context, each step with *)
(* its failures and kills.  Filters of triggers, ports and several contexts   *)
(* are in Integration and Contexts.                                          *)
(***************************************************************************)
EXTENDS Components, FiniteSets

CONSTANTS MaxCommands, MaxFaults, MaxKills

ASSUME BoundsAssumption == MaxCommands \in Nat /\ MaxFaults \in Nat /\ MaxKills \in Nat

VARIABLES
    kind,      \* of each name
    objects,   \* manifest.yaml: the spec of each component
    secrets,   \* manifest.yaml: what the Secret `<name>-secret' holds
    triggers,  \* manifest.yaml: the targets that have a trigger
    conf,      \* broker.conf: the same
    docker,    \* the containers of the components
    online,    \* whether the broker's container runs
    remote,    \* what exists in the clouds
    file,      \* the last dump for kubernetes
    phase, cmd, rest, step, changed, outcome,  \* the running command
    failed,    \* a step of it failed
    clean,     \* no command has failed or been killed so far
    dropped,   \* names that an import took out of, or changed in, the manifest
    commands, faults, kills

store  == <<objects, secrets, triggers, conf>>
world  == <<docker, online, remote, file>>
locals == <<cmd, rest, step, changed>>
ends   == <<outcome, failed, clean>>
counts == <<commands, faults, kills>>
vars   == <<kind, store, world, phase, locals, ends, dropped, counts>>

Stored == [scope: Scopes, token: {Ref, None}, events: BOOLEAN]
Manifests ==
    [objects: [Names -> Stored \cup {None}], secrets: [Holders -> Tokens \cup {Redacted, None}],
     triggers: SUBSET Targets]
Ops      == {"none", "create", "start", "stop", "delete", "import"}
Commands == [op: Ops, name: Names \cup {None}, spec: Specs \cup {None}, restart: BOOLEAN, route: BOOLEAN]
Phases   == {"idle", "secret", "ensure", "object", "run", "route", "list", "broker", "next", "stop", "finalize",
             "remove", "forget", "triggers", "unlist", "secrets", "import", "write", "done"}
NoCommand == [op |-> "none", name |-> None, spec |-> None, restart |-> FALSE, route |-> FALSE]

(* In the manifest no component's spec holds credentials or breaks the schema.  *)
TypeOK ==
    /\ kind \in [Names -> SourceKinds \cup TargetKinds]
    /\ objects \in [Names -> Stored \cup {None}]
    /\ secrets \in [Holders -> Tokens \cup {None}]
    /\ triggers \subseteq Targets /\ conf \subseteq Targets
    /\ docker \in [Names -> Containers \cup {None}]
    /\ online \in BOOLEAN /\ remote \subseteq Resources
    /\ file \in Manifests \cup {None}
    /\ phase \in Phases /\ cmd \in Commands /\ rest \subseteq Names \cup {Broker} /\ step \in Nat
    /\ changed \in BOOLEAN /\ outcome \in {"ok", "error", "panic"}
    /\ failed \in BOOLEAN /\ clean \in BOOLEAN /\ dropped \subseteq Names
    /\ commands \in Nat /\ faults \in Nat /\ kills \in Nat

(* `create broker' has succeeded.                                            *)
Init ==
    /\ kind \in {k \in [Names -> SourceKinds \cup TargetKinds] :
                   (\A n \in Sources : k[n] \in SourceKinds) /\ (\A n \in Targets : k[n] \in TargetKinds)}
    /\ objects = [n \in Names |-> None] /\ secrets = [h \in Holders |-> None]
    /\ triggers = {} /\ conf = {}
    /\ docker = [n \in Names |-> None] /\ online = TRUE /\ remote = {} /\ file = None
    /\ phase = "idle" /\ cmd = NoCommand /\ rest = {} /\ step = 0 /\ changed = FALSE
    /\ outcome = "ok" /\ failed = FALSE /\ clean = TRUE /\ dropped = {}
    /\ commands = 0 /\ faults = 0 /\ kills = 0
-----------------------------------------------------------------------------
Listed == {n \in Names : objects[n] # None}

Goto(ph) == phase' = ph /\ UNCHANGED ends
Quit(o)  == phase' = "done" /\ outcome' = o /\ clean' = (clean /\ o = "ok") /\ UNCHANGED failed
Done     == Quit("ok")

(* A call fails: the command goes on at ph, with a warning, or ends.          *)
Fault    == faults < MaxFaults /\ faults' = faults + 1 /\ UNCHANGED <<commands, kills>>
Warn(ph) == Fault /\ phase' = ph /\ failed' = TRUE /\ clean' = FALSE /\ UNCHANGED outcome
Fail     == Fault /\ phase' = "done" /\ outcome' = "error" /\ failed' = TRUE /\ clean' = FALSE

Forget ==
    cmd' = NoCommand /\ rest' = {} /\ step' = 0 /\ changed' = FALSE /\ outcome' = "ok" /\ failed' = FALSE

Exit == phase = "done" /\ phase' = "idle" /\ Forget /\ UNCHANGED <<kind, store, world, clean, dropped, counts>>

Kill ==
    /\ phase \notin {"idle", "done"} /\ kills < MaxKills /\ kills' = kills + 1
    /\ phase' = "idle" /\ Forget /\ clean' = FALSE
    /\ UNCHANGED <<kind, store, world, dropped, commands, faults>>

Begin(ph, c, visit) ==
    /\ phase = "idle" /\ commands < MaxCommands /\ commands' = commands + 1
    /\ Goto(ph) /\ cmd' = c /\ rest' = visit
    /\ UNCHANGED <<kind, store, world, step, changed, dropped, faults, kills>>

(* A source is initialised before its container is started.                  *)
First(n, otherwise) == IF n \in Sources /\ kind[n] # "Service" THEN "ensure" ELSE otherwise

(* create source, create target, create transformation.                      *)
Create(n, s, v, route) ==
    /\ n \in Sources => online /\ ~route
    /\ v # None => HasSecrets(kind[n])
    /\ s = Invalid => HasSchema(kind[n])
    /\ Begin(IF v # None THEN "secret" ELSE First(n, "object"),
             [NoCommand EXCEPT !.op = "create", !.name = n, !.route = route,
                               !.spec = [scope |-> s, token |-> v, events |-> TRUE]], {})

Start(again) == Begin("broker", [NoCommand EXCEPT !.op = "start", !.restart = again], Listed)

Stop == Begin("stop", [NoCommand EXCEPT !.op = "stop"], Listed \cup {Broker})

Delete(n) ==
    /\ n \in Listed
    /\ Begin(IF n \in Sources THEN "finalize" ELSE "remove",
             [NoCommand EXCEPT !.op = "delete", !.name = n, !.spec = objects[n]], {})

(* dump --platform kubernetes, kept in a file; --no-secrets redacts the Secrets.  *)
Dump(noSecrets) ==
    /\ phase = "idle" /\ commands < MaxCommands /\ commands' = commands + 1
    /\ file' = [objects |-> objects, triggers |-> triggers,
                secrets |-> [h \in Holders |-> IF noSecrets /\ secrets[h] # None THEN Redacted ELSE secrets[h]]]
    /\ UNCHANGED <<kind, store, docker, online, remote, phase, locals, ends, dropped, faults, kills>>

Import == file # None /\ Begin("import", [NoCommand EXCEPT !.op = "import"], {})
-----------------------------------------------------------------------------
(* The steps of create; start has those from Ensure to Run.                   *)

(* The Secret is written before anything else.                               *)
AddSecret ==
    /\ phase = "secret" /\ Goto(First(cmd.name, "object"))
    /\ secrets' = [secrets EXCEPT ![Lower[cmd.name]] = cmd.spec.token]
    /\ changed' \in BOOLEAN /\ (secrets[Lower[cmd.name]] # cmd.spec.token => changed')
    /\ UNCHANGED <<kind, objects, triggers, conf, world, cmd, rest, step, dropped, counts>>

(* The component as the command line has it, or the manifest.                 *)
Current == IF cmd.op = "create" THEN cmd.spec ELSE objects[cmd.name]
Env     == SecretsEnv(cmd.name, Current, secrets)

Resource(n, s, i) == [source |-> n, what |-> Ensures[kind[n]][i], scope |-> s]

(* Without its secrets a source has no client.                                *)
Refused(n) == kind[n] \in NotLocal \/ (Ensures[kind[n]] # <<>> /\ Env = None)

(* Mutant: the broker's start does without external resources.                *)
EnsureOnce(n) ==
    /\ phase = "ensure"
    /\ \/ (Refused(n) \/ Current.scope = Invalid) /\ Quit("error") /\ UNCHANGED <<remote, step, counts>>
       \/ /\ ~Refused(n) /\ Current.scope # Invalid
          /\ \/ /\ step < Len(Ensures[kind[n]]) /\ cmd.op = "create"
                /\ remote' = remote \cup {Resource(n, Current.scope, step + 1)}
                /\ step' = step + 1 /\ Goto("ensure") /\ UNCHANGED counts
             \/ /\ step = Len(Ensures[kind[n]]) \/ cmd.op = "start"
                /\ step' = 0 /\ Goto(IF cmd.op = "create" THEN "object" ELSE "run") /\ UNCHANGED <<remote, counts>>
    /\ UNCHANGED <<kind, store, docker, online, file, cmd, rest, changed, dropped>>

(* Initialize, one resource after the other.                                 *)
Ensure(n) ==
    /\ phase = "ensure"
    /\ \/ (Refused(n) \/ Current.scope = Invalid) /\ Quit("error") /\ UNCHANGED <<remote, step, counts>>
       \/ /\ ~Refused(n) /\ Current.scope # Invalid
          /\ \/ /\ step < Len(Ensures[kind[n]])
                /\ remote' = remote \cup {Resource(n, Current.scope, step + 1)}
                /\ step' = step + 1 /\ Goto("ensure") /\ UNCHANGED counts
             \/ /\ step < Len(Ensures[kind[n]]) /\ Fail /\ UNCHANGED step
                /\ remote' \in {remote, remote \cup {Resource(n, Current.scope, step + 1)}}
             \/ /\ step = Len(Ensures[kind[n]])
                /\ step' = 0 /\ Goto(IF cmd.op = "create" THEN "object" ELSE "run") /\ UNCHANGED <<remote, counts>>
    /\ UNCHANGED <<kind, store, docker, online, file, cmd, rest, changed, dropped>>

(* Mutant: a changed secret alone does not restart the container.             *)
AddObjectOnly(n) ==
    /\ phase = "object" /\ cmd.spec.scope # Invalid
    /\ objects' = [objects EXCEPT ![n] = Extracted(cmd.spec)]
    /\ changed' = (objects[n] # Extracted(cmd.spec)) /\ Goto("run")
    /\ UNCHANGED <<kind, secrets, triggers, conf, world, cmd, rest, step, dropped, counts>>

(* Mutant: the spec is stored as it was given.                                *)
AddPlainObject(n) ==
    /\ phase = "object" /\ cmd.spec.scope # Invalid
    /\ objects' = [objects EXCEPT ![n] = cmd.spec] /\ changed' = TRUE /\ Goto("run")
    /\ UNCHANGED <<kind, secrets, triggers, conf, world, cmd, rest, step, dropped, counts>>

(* Manifest.Add, which never says no when it changed something, and so does     *)
(* `restart || secretsChanged'.                                              *)
AddObject(n) ==
    /\ phase = "object"
    /\ IF cmd.spec.scope = Invalid
       THEN Quit("error") /\ UNCHANGED <<objects, changed>>
       ELSE /\ objects' = [objects EXCEPT ![n] = Extracted(cmd.spec)]
            /\ changed' \in BOOLEAN /\ (changed \/ objects[n] # Extracted(cmd.spec) => changed')
            /\ Goto("run")
    /\ UNCHANGED <<kind, secrets, triggers, conf, world, cmd, rest, step, dropped, counts>>

Again   == IF cmd.op = "create" THEN changed ELSE cmd.restart
Sink(n) == IF cmd.op = "create" THEN CreateSink(n) ELSE StartSink(n, kind[n])

(* Container.Start, and where the command goes from there.                   *)
Run(n) ==
    /\ phase = "run"
    /\ \/ /\ docker' = IF docker[n] # None /\ ~Again THEN docker
                       ELSE [docker EXCEPT ![n] = Container(Current, Env, Sink(n))]
          /\ rest' = rest \ {n} /\ UNCHANGED counts
          /\ IF cmd.op = "start" THEN Goto("next") ELSE IF cmd.route THEN Goto("route") ELSE Done
       \/ /\ docker' \in {docker, IF Again THEN [docker EXCEPT ![n] = None] ELSE docker}
          /\ Fail /\ UNCHANGED rest
    /\ UNCHANGED <<kind, store, online, remote, file, cmd, step, changed, dropped>>

(* createTrigger for a target with an event type: broker.conf, the manifest.   *)
Route(n) ==
    /\ phase = "route" /\ Goto("list")
    /\ conf' = conf \cup {n}
    /\ UNCHANGED <<kind, objects, secrets, triggers, world, locals, dropped, counts>>

ListTrigger(n) ==
    /\ phase = "list" /\ Done
    /\ triggers' = triggers \cup {n}
    /\ UNCHANGED <<kind, objects, secrets, conf, world, locals, dropped, counts>>

(* start: the broker, and then one component after the other.                *)
StartBroker ==
    /\ phase = "broker"
    /\ \/ Goto("next") /\ online' = TRUE /\ UNCHANGED counts
       \/ Fail /\ online' \in {online, FALSE}
    /\ UNCHANGED <<kind, store, docker, remote, file, locals, dropped>>

StartNext ==
    /\ phase = "next"
    /\ \/ rest = {} /\ Done /\ UNCHANGED cmd
       \/ \E n \in rest : Goto(First(n, "run")) /\ cmd' = [cmd EXCEPT !.name = n]
    /\ UNCHANGED <<kind, store, world, rest, step, changed, dropped, counts>>

StopNext(c) ==
    /\ phase = "stop" /\ c \in rest /\ rest' = rest \ {c}
    /\ \/ /\ UNCHANGED <<phase, ends, counts>>
          /\ IF c = Broker THEN online' = FALSE /\ UNCHANGED docker
             ELSE docker' = [docker EXCEPT ![c] = None] /\ UNCHANGED online
       \/ Warn("stop") /\ UNCHANGED <<docker, online>>
    /\ UNCHANGED <<kind, store, remote, file, cmd, step, changed, dropped>>

StopDone ==
    /\ phase = "stop" /\ rest = {} /\ Done
    /\ UNCHANGED <<kind, store, world, locals, dropped, counts>>
-----------------------------------------------------------------------------
(* delete.  What fails is warned of, or not even that, and the command goes on.  *)

Removed(n, i) == {r \in remote : r.source = n /\ r.scope = Current.scope /\ r.what \in Removes[kind[n]][i]}

(* Mutant: what is removed first ends it.                                     *)
FinalizeFirst(n) ==
    /\ phase = "finalize" /\ UNCHANGED counts
    /\ \/ /\ step < Len(Removes[kind[n]])
          /\ remote' = remote \ Removed(n, step + 1)
       \/ /\ step = Len(Removes[kind[n]]) /\ UNCHANGED remote
    /\ Goto("remove") /\ UNCHANGED step
    /\ UNCHANGED <<kind, store, docker, online, file, cmd, rest, changed, dropped>>

Finalize(n) ==
    /\ phase = "finalize"
    /\ \/ /\ Refused(n) \/ step = Len(Removes[kind[n]])
          /\ phase' = "remove" /\ clean' = (clean /\ ~Refused(n))
          /\ UNCHANGED <<remote, step, outcome, failed, counts>>
       \/ /\ ~Refused(n) /\ step < Len(Removes[kind[n]])
          /\ \/ /\ remote' = remote \ Removed(n, step + 1)
                /\ step' = step + 1 /\ Goto("finalize") /\ UNCHANGED counts
             \/ /\ \E gone \in SUBSET Removed(n, step + 1) : remote' = remote \ gone
                /\ Warn("remove") /\ UNCHANGED step
    /\ UNCHANGED <<kind, store, docker, online, file, cmd, rest, changed, dropped>>

(* Mutant: the Secret goes before the component.                              *)
RemoveSecretToo(n) ==
    /\ phase = "remove"
    /\ \/ docker' = [docker EXCEPT ![n] = None] /\ Goto("forget") /\ UNCHANGED counts
       \/ Warn("forget") /\ UNCHANGED docker
    /\ secrets' = [secrets EXCEPT ![n] = None]
    /\ UNCHANGED <<kind, objects, triggers, conf, online, remote, file, locals, dropped>>

RemoveContainer(n) ==
    /\ phase = "remove"
    /\ \/ docker' = [docker EXCEPT ![n] = None] /\ Goto("forget") /\ UNCHANGED counts
       \/ Warn("forget") /\ UNCHANGED docker
    /\ UNCHANGED <<kind, store, online, remote, file, locals, dropped>>

RemoveObject(n) ==
    /\ phase = "forget" /\ Goto("triggers")
    /\ objects' = [objects EXCEPT ![n] = None]
    /\ UNCHANGED <<kind, secrets, triggers, conf, world, locals, dropped, counts>>

(* Those of broker.conf, from there and from the manifest.                    *)
CleanupTriggers(n) ==
    /\ phase = "triggers" /\ Goto(IF n \in conf THEN "unlist" ELSE "secrets")
    /\ conf' = conf \ {n}
    /\ UNCHANGED <<kind, objects, secrets, triggers, world, locals, dropped, counts>>

(* Mutant: the manifest keeps the triggers.                                   *)
KeepTrigger(n) ==
    /\ phase = "unlist" /\ Goto("secrets")
    /\ UNCHANGED <<kind, store, world, locals, dropped, counts>>

UnlistTrigger(n) ==
    /\ phase = "unlist" /\ Goto("secrets")
    /\ triggers' = triggers \ {n}
    /\ UNCHANGED <<kind, objects, secrets, conf, world, locals, dropped, counts>>

CleanupSecrets(n) ==
    /\ phase = "secrets" /\ Done
    /\ secrets' = [secrets EXCEPT ![n] = None]
    /\ UNCHANGED <<kind, objects, triggers, conf, world, locals, dropped, counts>>
-----------------------------------------------------------------------------
(* import.  A trigger whose target is not in the file has no target to write.   *)
ImportConfig ==
    /\ phase = "import"
    /\ LET whole == {t \in file.triggers : file.objects[t] # None}
       IN  IF whole = file.triggers
           THEN conf' = conf \cup whole /\ Goto("write")
           ELSE (\E some \in SUBSET whole : conf' = conf \cup some) /\ Quit("panic")
    /\ UNCHANGED <<kind, objects, secrets, triggers, world, locals, dropped, counts>>

(* The manifest is replaced; the user is asked for redacted values.           *)
ImportManifest ==
    /\ phase = "write" /\ Done
    /\ objects' = [n \in Names |-> IF file.objects[n] = None THEN None ELSE Imported(kind[n], file.objects[n])]
    /\ LET asked == {h \in Holders : file.secrets[h] = Redacted}
       IN  \E answer \in [asked -> Tokens] :
             secrets' = [h \in Holders |-> IF h \in asked THEN answer[h] ELSE file.secrets[h]]
    /\ triggers' = file.triggers
    /\ dropped' = dropped \cup Listed
    /\ UNCHANGED <<kind, conf, world, locals, counts>>
-----------------------------------------------------------------------------
Invocations ==
    \/ \E n \in Names, s \in Scopes \cup {Invalid}, v \in Tokens \cup {None}, route \in BOOLEAN : Create(n, s, v, route)
    \/ \E again \in BOOLEAN : Start(again)
    \/ Stop
    \/ \E n \in Names : Delete(n)
    \/ \E noSecrets \in BOOLEAN : Dump(noSecrets)
    \/ Import

Steps ==
    \/ AddSecret \/ Ensure(cmd.name) \/ AddObject(cmd.name) \/ Run(cmd.name) \/ Route(cmd.name)
    \/ ListTrigger(cmd.name)
    \/ StartBroker \/ StartNext \/ StopDone \/ \E c \in Names \cup {Broker} : StopNext(c)
    \/ Finalize(cmd.name) \/ RemoveContainer(cmd.name) \/ RemoveObject(cmd.name)
    \/ CleanupTriggers(cmd.name) \/ UnlistTrigger(cmd.name) \/ CleanupSecrets(cmd.name)
    \/ ImportConfig \/ ImportManifest

Next == Invocations \/ Steps \/ Exit \/ Kill

Spec == Init /\ [][Next]_vars
-----------------------------------------------------------------------------
Ended(op) == phase = "done" /\ cmd.op = op /\ outcome = "ok"

Owned(n, spec) == {Resource(n, spec.scope, i) : i \in 1..Len(Ensures[kind[n]])}

(* The Secret that start, delete and dump look for is the one create writes.  *)
HasOwnSecret(n) == Lower[n] = n /\ \A m \in Names \ {n} : Lower[m] # n

(* Whatever commands were killed or failed halfway, one create that succeeds   *)
(* leaves all of the source's resources in place and its Secret with the token  *)
(* just given; the container has the new spec and token too, unless an earlier  *)
(* command stored the change and did not get to the container, an import         *)
(* replaced the manifest behind its back, or the name has upper case letters and  *)
(* a start found no Secret for it (create/source.go:116-148).                  *)
CreateCompletes ==
    Ended("create") =>
        LET n == cmd.name
            v == cmd.spec.token
        IN  /\ n \in Sources => Owned(n, cmd.spec) \subseteq remote
            /\ v # None => secrets[Lower[n]] = v
            /\ cmd.route => n \in triggers \cap conf
            /\ clean /\ n \notin dropped /\ HasOwnSecret(n) =>
                 docker[n] # None /\ [docker[n] EXCEPT !.sink = None] = Container(cmd.spec, v, None)

(* `start --restart' brings every component of the manifest to what the         *)
(* manifest says, after any history of failed and killed commands and imports:   *)
(* its spec, its credentials, its sink and its external resources               *)
(* (start.go:74-149, docker.Container.Start).                                  *)
RestartServes ==
    Ended("start") /\ cmd.restart =>
        /\ online
        /\ \A n \in Listed :
             /\ docker[n] # None /\ docker[n].scope = objects[n].scope /\ docker[n].events = objects[n].events
             /\ n \in Sources => Owned(n, objects[n]) \subseteq remote
             /\ n \in Sources /\ kind[n] # "Service" => docker[n].sink = "local"
             /\ Lower[n] = n /\ objects[n].token = Ref => docker[n].token \in Tokens

(* A delete of which no step failed leaves nothing of the component: no          *)
(* container, trigger, or Secret, and nothing in the cloud for its last spec,   *)
(* however often it was created; only a killed command can have left its        *)
(* trigger where cleanupTriggers does not look (delete/cmd.go:106-170).        *)
DeleteCleans ==
    Ended("delete") /\ ~failed =>
        LET n == cmd.name
        IN  /\ objects[n] = None /\ docker[n] = None /\ n \notin conf
            /\ n \in triggers => kills > 0
            /\ Lower[n] = n =>
                 secrets[n] = None /\ ~\E r \in remote : r.source = n /\ r.scope = cmd.spec.scope

(* At every moment, whichever command runs or was killed, an export of a         *)
(* component finds the credentials its spec refers to: the Secret is written      *)
(* before the component and removed after it.  A name with upper case letters    *)
(* is not its Secret's (components.go:139 against crd/secret.go:51).           *)
CredentialsKept ==
    \A n \in Listed, p \in Platforms : Lower[n] = n /\ objects[n].token = Ref =>
        Export(p, n, kind[n], objects[n], secrets).token \in Tokens

(* Between commands, none of them killed, every trigger that a dump writes into  *)
(* BROKER_CONFIG leads to something that has an address in the same dump, on all   *)
(* platforms, and is in broker.conf (dump.go:259-290, delete/cmd.go:146-160).   *)
DumpServes ==
    phase = "idle" /\ kills = 0 =>
        /\ \A p \in Platforms : BrokerExport(p, triggers).config \subseteq Addresses(p, Listed, kind)
        /\ triggers \subseteq conf
-----------------------------------------------------------------------------
(* The inductive invariant behind TypeOK and CredentialsKept.                *)

DeletePhases == {"finalize", "remove", "forget", "triggers", "unlist", "secrets"}
Given        == [scope: Scopes \cup {Invalid}, token: Tokens \cup {None}, events: BOOLEAN]

(* What a command carries in each of its phases.                             *)
CommandOK ==
    /\ \A n \in Sources : kind[n] \in SourceKinds
    /\ phase \in {"secret", "object", "route", "list"} => cmd.op = "create"
    /\ phase \in {"ensure", "run"} => cmd.op \in {"create", "start"}
    /\ phase \in DeletePhases => cmd.op = "delete"
    /\ phase \in {"broker", "next"} => cmd.op = "start"
    /\ phase = "idle" => cmd = NoCommand
    /\ phase \in {"import", "write"} => file # None /\ cmd.op = "import"
    /\ phase \in {"ensure", "finalize"} => cmd.name \in Sources
    /\ cmd.op = "create" =>
         /\ cmd.name \in Names /\ cmd.spec \in Given
         /\ cmd.route => cmd.name \in Targets
         /\ phase \in {"route", "list"} => cmd.route
         /\ cmd.spec.token # None => HasSecrets(kind[cmd.name])
    /\ cmd.op = "start" => rest \subseteq Listed /\ (phase \in {"ensure", "run"} => cmd.name \in Listed)
    /\ cmd.op = "delete" => cmd.name \in Names /\ cmd.spec \in Stored

(* A reference has its Secret, in the manifest and in the last dump.          *)
Kept(held, found, good) ==
    \A n \in Names : held[n] # None /\ Lower[n] = n /\ held[n].token = Ref =>
        HasSecrets(kind[n]) /\ found[n] \in good

SecretsOK ==
    /\ Kept(objects, secrets, Tokens)
    /\ file # None => Kept(file.objects, file.secrets, Tokens \cup {Redacted})
    /\ phase = "secret" => cmd.spec.token # None
    /\ cmd.op = "create" /\ phase \in {"ensure", "object"} /\ cmd.spec.token # None =>
         secrets[Lower[cmd.name]] = cmd.spec.token
    /\ phase \in {"triggers", "unlist", "secrets"} => objects[cmd.name] = None

IndInv == TypeOK /\ CommandOK /\ SecretsOK
=============================================================================

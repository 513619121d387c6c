-------------------------- MODULE DeploymentOutcomes --------------------------
(***************************************************************************)
(* What the commands of Deployment have done when they return no error, for   *)
(* any components of the kinds it knows, any credentials and any bounds.      *)
(***************************************************************************)
EXTENDS DeploymentProofs

-----------------------------------------------------------------------------
(* start --restart.                                                          *)
USE DEF store, world, locals, ends, counts, Goto, Quit, Done

Serves(n) ==
    /\ docker[n] # None /\ docker[n].scope = objects[n].scope /\ docker[n].events = objects[n].events
    /\ n \in Sources => Owned(n, objects[n]) \subseteq remote
    /\ n \in Sources /\ kind[n] # "Service" => docker[n].sink = "local"
    /\ Lower[n] = n /\ objects[n].token = Ref => docker[n].token \in Tokens

(* Initialize counts from nothing.                                           *)
StepOK == phase \in {"idle", "broker", "next", "secret"} \/ (phase = "run" /\ cmd.op = "start") => step = 0

(* What the loop has done: the broker runs, what it need not visit any more    *)
(* serves, and of the source it works on there are the first resources.        *)
RestartOK ==
    /\ cmd.op = "start" => phase \in {"broker", "next", "ensure", "run", "done"}
    /\ cmd.op = "start" /\ cmd.restart =>
         /\ phase \in {"next", "ensure", "run"} => online
         /\ phase = "done" /\ outcome = "ok" => online /\ rest = {}
         /\ \A n \in Listed \ rest : Serves(n)
         /\ phase \in {"ensure", "run"} => cmd.name \in rest
         /\ phase = "ensure" => \A i \in 1 .. step : Resource(cmd.name, objects[cmd.name].scope, i) \in remote
         /\ phase = "run" /\ cmd.name \in Sources => Owned(cmd.name, objects[cmd.name]) \subseteq remote

LEMMA StepStays ==
    ASSUME TypeOK, CommandOK, StepOK, [Next]_vars
    PROVE  StepOK'
<1>1. CASE UNCHANGED vars
  BY <1>1 DEF StepOK, vars
<1>2. CASE Invocations
  <2>1. phase = "idle" /\ step' = step
    BY <1>2 DEF Invocations, Create, Start, Stop, Delete, Dump, Import, Begin
  <2> QED BY <2>1 DEF StepOK
<1>3. CASE Exit \/ Kill
  BY <1>3 DEF StepOK, Exit, Kill, Forget
<1>4. CASE \/ AddSecret \/ AddObject(cmd.name) \/ Route(cmd.name) \/ ListTrigger(cmd.name)
           \/ Finalize(cmd.name) \/ RemoveContainer(cmd.name) \/ RemoveObject(cmd.name)
           \/ CleanupTriggers(cmd.name) \/ UnlistTrigger(cmd.name) \/ CleanupSecrets(cmd.name)
           \/ ImportConfig \/ ImportManifest
  <2>1. phase' \notin {"idle", "broker", "next", "secret"}
    BY <1>4 DEF AddSecret, AddObject, Route, ListTrigger, Finalize, RemoveContainer, RemoveObject,
                CleanupTriggers, UnlistTrigger, CleanupSecrets, ImportConfig, ImportManifest, Warn, First
  <2>2. phase' # "run" \/ (cmd.op = "create" /\ cmd' = cmd)
    BY <1>4 DEF AddSecret, AddObject, Route, ListTrigger, Finalize, RemoveContainer, RemoveObject,
                CleanupTriggers, UnlistTrigger, CleanupSecrets, ImportConfig, ImportManifest, Warn, First,
                CommandOK
  <2> QED BY <2>1, <2>2 DEF StepOK
<1>5. CASE Ensure(cmd.name)
  <2>1. phase' \in {"ensure", "object", "done"} \/ step' = 0
    BY <1>5 DEF Ensure, Fail
  <2> QED BY <2>1 DEF StepOK
<1>6. CASE Run(cmd.name)
  <2>1. UNCHANGED <<step, cmd>> /\ phase = "run" /\ phase' \in {"next", "route", "done"}
        /\ (phase' = "next" => cmd.op = "start")
    BY <1>6 DEF Run, Fail
  <2> QED BY <2>1 DEF StepOK
<1>7. CASE StartBroker \/ StartNext
  <2>1. phase \in {"broker", "next"} /\ step' = step
    BY <1>7 DEF StartBroker, StartNext
  <2> QED BY <2>1 DEF StepOK
<1>8. CASE StopDone \/ \E c \in Names \cup {Broker} : StopNext(c)
  <2>1. phase' \in {"stop", "done"}
    BY <1>8 DEF StopDone, StopNext, Warn
  <2> QED BY <2>1 DEF StepOK
<1> QED BY <1>1, <1>2, <1>3, <1>4, <1>5, <1>6, <1>7, <1>8 DEF Next, Steps
-----------------------------------------------------------------------------
LEMMA OtherCommands ==
    ASSUME CommandOK, RestartOK,
           \/ Exit \/ Kill \/ StopDone \/ \E c \in Names \cup {Broker} : StopNext(c)
           \/ AddSecret \/ AddObject(cmd.name) \/ Route(cmd.name) \/ ListTrigger(cmd.name)
           \/ Finalize(cmd.name) \/ RemoveContainer(cmd.name) \/ RemoveObject(cmd.name)
           \/ CleanupTriggers(cmd.name) \/ UnlistTrigger(cmd.name) \/ CleanupSecrets(cmd.name)
           \/ ImportConfig \/ ImportManifest
    PROVE  RestartOK'
<1>1. cmd'.op # "start"
  <2>1. CASE Exit \/ Kill
    BY <2>1 DEF Exit, Kill, Forget, NoCommand
  <2>2. CASE ~(Exit \/ Kill)
    <3>1. cmd' = cmd /\ phase \notin {"broker", "next", "ensure", "run", "done"}
      BY <2>2 DEF StopDone, StopNext, AddSecret, AddObject, Route, ListTrigger, Finalize, RemoveContainer,
                  RemoveObject, CleanupTriggers, UnlistTrigger, CleanupSecrets, ImportConfig, ImportManifest
    <3> QED BY <3>1 DEF RestartOK
  <2> QED BY <2>1, <2>2
<1> QED BY <1>1 DEF RestartOK

LEMMA RunServes ==
    ASSUME TypeOK, CommandOK, SecretsOK, RestartOK, Run(cmd.name), cmd.op = "start", cmd.restart,
           docker' = [docker EXCEPT ![cmd.name] = Container(Current, Env, Sink(cmd.name))]
    PROVE  Serves(cmd.name)'
<1> DEFINE n == cmd.name
<1>1. /\ n \in Names /\ objects[n] \in Stored /\ objects[n] # None
      /\ UNCHANGED <<kind, objects, secrets, remote, cmd>> /\ phase = "run"
  BY DEF Run, CommandOK, Listed, TypeOK
<1>2. docker'[n] = Container(objects[n], SecretsEnv(n, objects[n], secrets), StartSink(n, kind[n]))
  BY <1>1 DEF TypeOK, Current, Env, Sink
<1>3. docker'[n] # None
  <2>1. docker'[n] \in Containers
    <3>1. Current \in Specs /\ Env \in Tokens \cup {None}
      BY <1>1, CurrentType
    <3>2. Sink(n) \in {"local", "cluster", None}
      BY DEF Sink, CreateSink, StartSink
    <3>3. Container(Current, Env, Sink(n)) \in Containers
      BY <3>1, <3>2 DEF Container, Containers, Specs
    <3> QED BY <1>1, <3>3 DEF TypeOK
  <2> QED BY <2>1, ContainersAssumption
<1>4. Lower[n] = n /\ objects[n].token = Ref => secrets[n] \in Tokens
  BY <1>1 DEF SecretsOK, Kept
<1>5. n \in Sources => Owned(n, objects[n]) \subseteq remote
  BY <1>1 DEF RestartOK
<1>6. docker'[n].scope = objects[n].scope /\ docker'[n].events = objects[n].events
      /\ (n \in Sources /\ kind[n] # "Service" => docker'[n].sink = "local")
  BY <1>2 DEF Container, StartSink
<1>7. Lower[n] = n /\ objects[n].token = Ref => docker'[n].token \in Tokens
  BY <1>2, <1>4 DEF Container, SecretsEnv
<1>8. n \in Sources => Owned(n, objects[n])' \subseteq remote'
  BY <1>1, <1>5 DEF Owned, Resource
<1> QED BY <1>1, <1>3, <1>6, <1>7, <1>8 DEF Serves, Owned, Resource

LEMMA StartRestarts ==
    ASSUME TypeOK, CommandOK, SecretsOK, StepOK, RestartOK,
           StartBroker \/ StartNext \/ Ensure(cmd.name) \/ Run(cmd.name)
    PROVE  RestartOK'
<1>1. CASE StartBroker
  <2>1. /\ UNCHANGED <<kind, objects, docker, remote, cmd, rest>>
        /\ \/ phase' = "next" /\ online' = TRUE
           \/ phase' = "done" /\ outcome' = "error"
    BY <1>1 DEF StartBroker, Fail
  <2> QED BY <2>1 DEF RestartOK, Serves, Owned, Resource, Listed
<1>2. CASE StartNext
  <2>1. CASE rest = {} /\ Done /\ UNCHANGED cmd
    BY <1>2, <2>1 DEF StartNext, RestartOK, Serves, Owned, Resource, Listed
  <2>2. ASSUME NEW n \in rest, Goto(First(n, "run")), cmd' = [cmd EXCEPT !.name = n]
        PROVE  RestartOK'
    <3>1. cmd'.op = cmd.op /\ cmd'.restart = cmd.restart /\ cmd'.name = n /\ cmd.op = "start"
      BY <1>2, <2>2 DEF StartNext, TypeOK, Commands, CommandOK
    <3>2. UNCHANGED <<kind, objects, docker, remote, online, rest>> /\ step' = 0 /\ phase = "next"
      BY <1>2 DEF StartNext, StepOK
    <3>3. phase' \in {"ensure", "run"} /\ (phase' = "run" /\ n \in Sources => kind[n] = "Service")
      BY <2>2 DEF First
    <3>4. n \in Sources /\ kind[n] = "Service" => Owned(n, objects[n]) = {}
      BY KindsAssumption DEF Owned, Ensures, PerKind, AWSEnsures, AzureEnsures, GoogleCloudEnsures, Kinds
    <3> QED BY <2>2, <3>1, <3>2, <3>3, <3>4 DEF RestartOK, Serves, Owned, Resource, Listed
  <2> QED BY <1>2, <2>1, <2>2 DEF StartNext
<1>3. CASE Ensure(cmd.name)
  <2>1. UNCHANGED <<kind, objects, docker, online, cmd, rest>> /\ remote \subseteq remote' /\ phase = "ensure"
    BY <1>3 DEF Ensure
  <2>2. CASE cmd.op = "create"
    BY <2>1, <2>2 DEF RestartOK
  <2>3. CASE cmd.op = "start"
    <3>1. Current = objects[cmd.name] /\ cmd.name \in Sources
      BY <2>1, <2>3 DEF Current, CommandOK
    <3>2. \/ phase' = "done" /\ outcome' = "error"
          \/ /\ phase' = "ensure" /\ step' = step + 1
             /\ remote' = remote \cup {Resource(cmd.name, objects[cmd.name].scope, step + 1)}
          \/ phase' = "run" /\ step = Len(Ensures[kind[cmd.name]])
      BY <1>3, <2>3, <3>1 DEF Ensure, Fail
    <3>3. step \in Nat
      BY DEF TypeOK
    <3>4. cmd.restart /\ phase' = "ensure" =>
            \A i \in 1 .. step' : Resource(cmd.name, objects[cmd.name].scope, i) \in remote'
      BY <2>1, <2>3, <3>2, <3>3 DEF RestartOK
    <3>5. cmd.restart /\ phase' = "run" => Owned(cmd.name, objects[cmd.name]) \subseteq remote'
      BY <2>1, <2>3, <3>2, <3>3 DEF RestartOK, Owned
    <3>6. cmd.restart => \A n \in Listed \ rest : Serves(n)'
      BY <2>1, <2>3 DEF RestartOK, Serves, Owned, Resource
    <3> QED BY <2>1, <2>3, <3>2, <3>4, <3>5, <3>6 DEF RestartOK, Owned, Resource, Listed
  <2> QED BY <2>1, <2>2, <2>3 DEF CommandOK
<1>4. CASE Run(cmd.name)
  <2>1. UNCHANGED <<kind, objects, online, remote, cmd>> /\ phase = "run"
    BY <1>4 DEF Run
  <2>2. CASE cmd.op = "create"
    BY <2>1, <2>2 DEF RestartOK
  <2>3. CASE cmd.op = "start" /\ ~cmd.restart
    <3>1. phase' \in {"next", "done"}
      BY <1>4, <2>3 DEF Run, Fail
    <3> QED BY <2>1, <2>3, <3>1 DEF RestartOK
  <2>4. CASE cmd.op = "start" /\ cmd.restart
    <3>1. \A n \in Names \ {cmd.name} : docker'[n] = docker[n]
      BY <1>4 DEF Run, TypeOK
    <3>2. \A n \in Listed : n # cmd.name /\ n \notin rest => Serves(n)'
      BY <2>1, <2>4, <3>1 DEF RestartOK, Serves, Owned, Resource, Listed
    <3>3. CASE docker' = [docker EXCEPT ![cmd.name] = Container(Current, Env, Sink(cmd.name))]
               /\ rest' = rest \ {cmd.name} /\ phase' = "next"
      <4>1. Serves(cmd.name)'
        BY <1>4, <2>4, <3>3, RunServes
      <4> QED BY <2>1, <2>4, <3>2, <3>3, <4>1 DEF RestartOK, Listed
    <3>4. CASE rest' = rest /\ phase' = "done" /\ outcome' = "error"
      <4>1. cmd.name \in rest
        BY <2>1, <2>4 DEF RestartOK
      <4> QED BY <2>1, <2>4, <3>2, <3>4, <4>1 DEF RestartOK, Listed
    <3>5. Again
      BY <2>4 DEF Again
    <3> QED BY <1>4, <2>4, <3>3, <3>4, <3>5 DEF Run, Fail
  <2> QED BY <2>1, <2>2, <2>3, <2>4 DEF CommandOK
<1> QED BY <1>1, <1>2, <1>3, <1>4

LEMMA InvocationRestarts ==
    ASSUME TypeOK, CommandOK, RestartOK, Invocations
    PROVE  RestartOK'
<1>1. ASSUME NEW again \in BOOLEAN, Start(again) PROVE RestartOK'
  <2>1. phase' = "broker" /\ rest' = Listed /\ objects' = objects
    BY <1>1 DEF Start, Begin
  <2> QED BY <2>1 DEF RestartOK, Listed
<1>2. CASE ~\E again \in BOOLEAN : Start(again)
  <2>1. cmd'.op # "start"
    <3>1. ASSUME NEW n \in Names, NEW s \in Scopes \cup {Invalid}, NEW v \in Tokens \cup {None},
                 NEW route \in BOOLEAN, Create(n, s, v, route)
          PROVE  cmd'.op = "create"
      BY <3>1 DEF Create, Begin, NoCommand
    <3>2. ASSUME NEW n \in Names, Delete(n) PROVE cmd'.op = "delete"
      BY <3>2 DEF Delete, Begin, NoCommand
    <3>3. ASSUME NEW noSecrets \in BOOLEAN, Dump(noSecrets) PROVE cmd'.op = "none"
      BY <3>3 DEF Dump, NoCommand, CommandOK
    <3>4. CASE Stop \/ Import
      BY <3>4 DEF Stop, Import, Begin, NoCommand
    <3> QED BY <1>2, <3>1, <3>2, <3>3, <3>4 DEF Invocations
  <2> QED BY <2>1 DEF RestartOK
<1> QED BY <1>1, <1>2

(* A start --restart that returns no error has brought the broker and every     *)
(* component to what the manifest says: spec, credentials, sink, and resources   *)
(* in the cloud, whatever was killed or failed before (start.go:74-149).        *)
THEOREM RestartsServe == Spec => []RestartServes
<1> DEFINE Inv == IndInv /\ StepOK /\ RestartOK
<1>1. Init => Inv
  BY InitInv DEF Init, StepOK, RestartOK, NoCommand
<1>2. Inv /\ [Next]_vars => Inv'
  <2> SUFFICES ASSUME Inv, [Next]_vars PROVE IndInv' /\ StepOK' /\ RestartOK'
    OBVIOUS
  <2>1. IndInv'
    BY NextType, NextCarries, NextKeeps DEF IndInv
  <2>2. StepOK'
    BY StepStays DEF IndInv
  <2>3. RestartOK'
    <3>1. CASE UNCHANGED vars
      BY <3>1 DEF RestartOK, Serves, Owned, Resource, Listed, vars
    <3> QED BY <3>1, OtherCommands, StartRestarts, InvocationRestarts DEF IndInv, Next, Steps
  <2> QED BY <2>1, <2>2, <2>3
<1>3. Inv => RestartServes
  BY DEF RestartServes, Ended, RestartOK, Serves
<1> QED BY <1>1, <1>2, <1>3, PTL DEF Spec
-----------------------------------------------------------------------------
(* delete.  Every resource of the table is in one of the sets to remove.      *)
Covers(made, gone) == \A i \in 1 .. Len(made) : \E j \in 1 .. Len(gone) : made[i] \in gone[j]

LEMMA Covers12 ==
    ASSUME NEW a, NEW b
    PROVE  Covers(<<a, b>>, <<{a}, {b}>>)
BY DEF Covers

LEMMA Covers321 ==
    ASSUME NEW a, NEW b, NEW c
    PROVE  Covers(<<a, b, c>>, <<{c}, {b}, {a}>>)
BY DEF Covers

LEMMA AWSCovers ==
    \A k \in DOMAIN AWSEnsures : Covers(AWSEnsures[k], AWSRemoves[k])
<1>1. DOMAIN AWSEnsures =
        {"AWSS3Source", "AWSEventBridgeSource"}
  BY DEF AWSEnsures
<1>2. Covers(AWSEnsures["AWSS3Source"], AWSRemoves["AWSS3Source"])
  BY DEF AWSEnsures, AWSRemoves, Covers
<1>3. Covers(AWSEnsures["AWSEventBridgeSource"], AWSRemoves["AWSEventBridgeSource"])
  BY DEF AWSEnsures, AWSRemoves, Covers
<1> QED BY <1>1, <1>2, <1>3

LEMMA AzureCovers ==
    \A k \in DOMAIN AzureEnsures : Covers(AzureEnsures[k], AzureRemoves[k])
<1>1. DOMAIN AzureEnsures =
        {"AzureEventGridSource", "AzureServiceBusTopicSource", "AzureBlobStorageSource"}
  BY DEF AzureEnsures
<1>2. Covers(AzureEnsures["AzureEventGridSource"], AzureRemoves["AzureEventGridSource"])
  BY Covers321 DEF AzureEnsures, AzureRemoves
<1>3. Covers(AzureEnsures["AzureServiceBusTopicSource"], AzureRemoves["AzureServiceBusTopicSource"])
  BY DEF AzureEnsures, AzureRemoves, Covers
<1>4. Covers(AzureEnsures["AzureBlobStorageSource"], AzureRemoves["AzureBlobStorageSource"])
  BY Covers12 DEF AzureEnsures, AzureRemoves
<1> QED BY <1>1, <1>2, <1>3, <1>4

LEMMA GoogleCloudCovers ==
    \A k \in DOMAIN GoogleCloudEnsures : Covers(GoogleCloudEnsures[k], GoogleCloudRemoves[k])
<1>1. DOMAIN GoogleCloudEnsures =
        {"GoogleCloudBillingSource", "GoogleCloudPubSubSource", "GoogleCloudAuditLogsSource",
         "GoogleCloudStorageSource", "GoogleCloudSourceRepositoriesSource"}
  BY DEF GoogleCloudEnsures
<1>2. Covers(GoogleCloudEnsures["GoogleCloudBillingSource"], GoogleCloudRemoves["GoogleCloudBillingSource"])
  BY DEF GoogleCloudEnsures, GoogleCloudRemoves, Covers
<1>3. Covers(GoogleCloudEnsures["GoogleCloudPubSubSource"], GoogleCloudRemoves["GoogleCloudPubSubSource"])
  BY DEF GoogleCloudEnsures, GoogleCloudRemoves, Covers
<1>4. Covers(GoogleCloudEnsures["GoogleCloudAuditLogsSource"], GoogleCloudRemoves["GoogleCloudAuditLogsSource"])
  BY DEF GoogleCloudEnsures, GoogleCloudRemoves, Covers
<1>5. Covers(GoogleCloudEnsures["GoogleCloudStorageSource"], GoogleCloudRemoves["GoogleCloudStorageSource"])
  BY DEF GoogleCloudEnsures, GoogleCloudRemoves, Covers
<1>6. Covers(GoogleCloudEnsures["GoogleCloudSourceRepositoriesSource"], GoogleCloudRemoves["GoogleCloudSourceRepositoriesSource"])
  BY DEF GoogleCloudEnsures, GoogleCloudRemoves, Covers
<1> QED BY <1>1, <1>2, <1>3, <1>4, <1>5, <1>6

LEMMA TableCovers ==
    /\ \A k \in SourceKinds : Covers(Ensures[k], Removes[k])
    /\ \A k \in SourceKinds \cap NotLocal : Ensures[k] = <<>>
    /\ Len(<<>>) = 0
<1>1. DOMAIN AWSEnsures = DOMAIN AWSRemoves /\ DOMAIN AzureEnsures = DOMAIN AzureRemoves
      /\ DOMAIN GoogleCloudEnsures = DOMAIN GoogleCloudRemoves
  BY DEF AWSEnsures, AWSRemoves, AzureEnsures, AzureRemoves, GoogleCloudEnsures, GoogleCloudRemoves
<1>2. Covers(<<>>, <<>>)
  BY DEF Covers
<1>3. ASSUME NEW k \in SourceKinds PROVE Covers(Ensures[k], Removes[k])
  <2>1. k \in Kinds
    BY KindsAssumption
  <2>2. /\ Ensures[k] = IF k \in DOMAIN AWSEnsures THEN AWSEnsures[k]
                        ELSE IF k \in DOMAIN AzureEnsures THEN AzureEnsures[k]
                        ELSE IF k \in DOMAIN GoogleCloudEnsures THEN GoogleCloudEnsures[k] ELSE <<>>
        /\ Removes[k] = IF k \in DOMAIN AWSEnsures THEN AWSRemoves[k]
                        ELSE IF k \in DOMAIN AzureEnsures THEN AzureRemoves[k]
                        ELSE IF k \in DOMAIN GoogleCloudEnsures THEN GoogleCloudRemoves[k] ELSE <<>>
    BY <1>1, <2>1, Zenon DEF Ensures, Removes, PerKind
  <2> QED BY <1>2, <2>2, AWSCovers, AzureCovers, GoogleCloudCovers
<1>4. NotLocal \cap (DOMAIN AWSEnsures \cup DOMAIN AzureEnsures \cup DOMAIN GoogleCloudEnsures) = {}
  BY DEF NotLocal, AWSEnsures, AzureEnsures, GoogleCloudEnsures
<1>5. ASSUME NEW k \in SourceKinds, k \in NotLocal PROVE Ensures[k] = <<>>
  <2>1. k \in Kinds /\ k \notin DOMAIN AWSEnsures /\ k \notin DOMAIN AzureEnsures
        /\ k \notin DOMAIN GoogleCloudEnsures
    BY <1>4, <1>5, KindsAssumption
  <2> QED BY <2>1, Zenon DEF Ensures, PerKind
<1> QED BY <1>3, <1>5
(* What is in the cloud is in the table of its source's kind.                 *)
RemoteOK ==
    \A r \in remote : r.source \in Sources /\ \E i \in 1 .. Len(Ensures[kind[r.source]]) : r.what = Ensures[kind[r.source]][i]

LEMMA RemoteStays ==
    ASSUME TypeOK, CommandOK, RemoteOK, [Next]_vars
    PROVE  RemoteOK'
<1>1. CASE kind' = kind /\ remote' \subseteq remote
  BY <1>1 DEF RemoteOK
<1>2. CASE Ensure(cmd.name)
  <2>1. \/ remote' \subseteq remote
        \/ /\ step < Len(Ensures[kind[cmd.name]])
           /\ remote' \subseteq remote \cup {Resource(cmd.name, Current.scope, step + 1)}
    BY <1>2 DEF Ensure
  <2>2. kind' = kind /\ cmd.name \in Sources /\ kind[cmd.name] \in SourceKinds
    BY <1>2 DEF Ensure, CommandOK
  <2>3. Len(Ensures[kind[cmd.name]]) \in Nat /\ step \in Nat
    BY <2>2, EnsuresType DEF TypeOK
  <2>4. CASE step < Len(Ensures[kind[cmd.name]])
    <3>1. step + 1 \in 1 .. Len(Ensures[kind[cmd.name]])
      BY <2>3, <2>4
    <3> QED BY <2>1, <2>2, <3>1 DEF RemoteOK, Resource
  <2> QED BY <2>1, <2>2, <2>4 DEF RemoteOK
<1>3. CASE Invocations
  BY <1>1, <1>3 DEF Invocations, Create, Start, Stop, Delete, Dump, Import, Begin
<1>4. CASE UNCHANGED vars \/ Exit \/ Kill
  BY <1>1, <1>4 DEF vars, Exit, Kill
<1>5. CASE Finalize(cmd.name)
  <2>1. remote' \subseteq remote
    BY <1>5 DEF Finalize
  <2> QED BY <1>1, <1>5, <2>1 DEF Finalize
<1>6. CASE \/ AddSecret \/ AddObject(cmd.name) \/ Run(cmd.name) \/ Route(cmd.name) \/ ListTrigger(cmd.name)
           \/ StartBroker \/ StartNext \/ StopDone \/ \E c \in Names \cup {Broker} : StopNext(c)
           \/ RemoveContainer(cmd.name) \/ RemoveObject(cmd.name)
           \/ CleanupTriggers(cmd.name) \/ UnlistTrigger(cmd.name) \/ CleanupSecrets(cmd.name)
           \/ ImportConfig \/ ImportManifest
  BY <1>1, <1>6 DEF AddSecret, AddObject, Run, Route, ListTrigger, StartBroker, StartNext, StopDone, StopNext,
                    RemoveContainer, RemoveObject, CleanupTriggers, UnlistTrigger, CleanupSecrets,
                    ImportConfig, ImportManifest
<1> QED BY <1>2, <1>3, <1>4, <1>5, <1>6 DEF Next, Steps

(* A stored source with resources has credentials: Ensure refuses it otherwise. *)
Held(held) == \A n \in Sources : held[n] # None /\ Ensures[kind[n]] # <<>> => held[n].token = Ref

HeldOK ==
    /\ Held(objects)
    /\ file # None => Held(file.objects)
    /\ cmd.op = "create" /\ phase = "object" /\ cmd.name \in Sources =>
         Ensures[kind[cmd.name]] = <<>> \/ cmd.spec.token # None

LEMMA ServiceEnsures == Ensures["Service"] = <<>>
BY DEF Ensures, PerKind, AWSEnsures, AzureEnsures, GoogleCloudEnsures, Kinds

LEMMA HeldSame ==
    ASSUME HeldOK, UNCHANGED <<kind, objects, file>>, phase' # "object"
    PROVE  HeldOK'
BY DEF HeldOK, Held

LEMMA HeldStays ==
    ASSUME TypeOK, CommandOK, HeldOK, [Next]_vars
    PROVE  HeldOK'
<1>1. CASE UNCHANGED vars
  BY <1>1 DEF vars, HeldOK, Held
<1>2. CASE Exit \/ Kill
  BY <1>2, HeldSame DEF Exit, Kill
<1>3. ASSUME NEW n \in Names, NEW s \in Scopes \cup {Invalid}, NEW v \in Tokens \cup {None},
             NEW route \in BOOLEAN, Create(n, s, v, route)
      PROVE  HeldOK'
  <2>1. cmd'.name = n /\ cmd'.spec.token = v /\ UNCHANGED <<kind, objects, file>>
    BY <1>3 DEF Create, Begin, NoCommand
  <2>2. phase' = "object" /\ n \in Sources => kind[n] = "Service"
    BY <1>3 DEF Create, Begin, First
  <2> QED BY <2>1, <2>2, ServiceEnsures DEF HeldOK, Held
<1>4. ASSUME NEW noSecrets \in BOOLEAN, Dump(noSecrets) PROVE HeldOK'
  <2>1. file'.objects = objects /\ UNCHANGED <<kind, objects, phase, cmd>>
    BY <1>4 DEF Dump
  <2> QED BY <2>1 DEF HeldOK, Held
<1>5. CASE Stop \/ Import \/ (\E again \in BOOLEAN : Start(again)) \/ \E n \in Names : Delete(n)
  <2>1. phase' # "object" /\ UNCHANGED <<kind, objects, file>>
    BY <1>5 DEF Stop, Import, Start, Delete, Begin
  <2> QED BY <2>1, HeldSame
<1>6. CASE AddSecret
  <2>1. UNCHANGED <<kind, objects, file, cmd>>
    BY <1>6 DEF AddSecret
  <2>2. phase' = "object" /\ cmd.name \in Sources => kind[cmd.name] = "Service"
    BY <1>6 DEF AddSecret, First
  <2> QED BY <2>1, <2>2, ServiceEnsures DEF HeldOK, Held
<1>7. CASE Ensure(cmd.name)
  <2>1. UNCHANGED <<kind, objects, file, cmd>>
    BY <1>7 DEF Ensure
  <2>2. CASE phase' = "object"
    <3>1. ~Refused(cmd.name) /\ cmd.op = "create" /\ phase = "ensure"
      BY <1>7, <2>2 DEF Ensure, Fail
    <3>2. Ensures[kind[cmd.name]] = <<>> \/ Env # None
      BY <3>1 DEF Refused
    <3>3. cmd.spec.token # Ref
      BY <3>1, ValuesDiffer DEF CommandOK, Given
    <3>4. Env = cmd.spec.token
      BY <3>1, <3>3 DEF Env, Current, SecretsEnv
    <3> QED BY <2>1, <3>2, <3>4 DEF HeldOK, Held
  <2> QED BY <2>1, <2>2, HeldSame
<1>8. CASE AddObject(cmd.name)
  <2>1. phase = "object" /\ phase' # "object" /\ UNCHANGED <<kind, file, cmd>>
    BY <1>8 DEF AddObject
  <2>2. CASE cmd.spec.scope = Invalid
    BY <1>8, <2>1, <2>2, HeldSame DEF AddObject
  <2>3. CASE cmd.spec.scope # Invalid
    <3>1. objects' = [objects EXCEPT ![cmd.name] = Extracted(cmd.spec)]
      BY <1>8, <2>3 DEF AddObject
    <3>2. cmd.name \in Names /\ cmd.spec \in Given /\ cmd.op = "create"
      BY <2>1 DEF CommandOK
    <3>3. cmd.spec.token # None => Extracted(cmd.spec).token = Ref
      BY <3>2 DEF Extracted, Given
    <3>4. cmd.name \in Sources => Ensures[kind[cmd.name]] = <<>> \/ Extracted(cmd.spec).token = Ref
      BY <2>1, <3>2, <3>3 DEF HeldOK
    <3>5. Held(objects)'
      BY <2>1, <3>1, <3>4 DEF HeldOK, Held, TypeOK, Names
    <3> QED BY <2>1, <3>5 DEF HeldOK, Held
  <2> QED BY <2>2, <2>3
<1>9. CASE RemoveObject(cmd.name)
  <2>1. objects' = [objects EXCEPT ![cmd.name] = None] /\ phase' = "triggers" /\ UNCHANGED <<kind, file, cmd>>
    BY <1>9 DEF RemoveObject
  <2>2. Held(objects)'
    BY <2>1 DEF HeldOK, Held, TypeOK, Names
  <2> QED BY <2>1, <2>2 DEF HeldOK, Held
<1>10. CASE ImportManifest
  <2>1. /\ objects' = [n \in Names |-> IF file.objects[n] = None THEN None
                                        ELSE Imported(kind[n], file.objects[n])]
        /\ phase' = "done" /\ UNCHANGED <<kind, file>> /\ file \in Manifests
    BY <1>10 DEF ImportManifest, CommandOK, TypeOK
  <2>2. ASSUME NEW n \in Sources, objects'[n] # None, Ensures[kind[n]] # <<>>
        PROVE  objects'[n].token = Ref
    <3>1. n \in Names /\ file.objects[n] # None /\ objects'[n] = Imported(kind[n], file.objects[n])
      BY <2>1, <2>2 DEF Names
    <3>2. file.objects[n] \in Stored
      BY <2>1, <3>1 DEF Manifests
    <3>3. file.objects[n].token = Ref
      BY <1>10, <2>2, <3>1 DEF HeldOK, Held, ImportManifest, CommandOK
    <3> QED BY <3>1, <3>2, <3>3 DEF Imported, Stored
  <2> QED BY <2>1, <2>2 DEF HeldOK, Held
<1>11. CASE \/ Run(cmd.name) \/ Route(cmd.name) \/ ListTrigger(cmd.name)
            \/ StartBroker \/ StartNext \/ StopDone \/ \E c \in Names \cup {Broker} : StopNext(c)
            \/ Finalize(cmd.name) \/ RemoveContainer(cmd.name)
            \/ CleanupTriggers(cmd.name) \/ UnlistTrigger(cmd.name) \/ CleanupSecrets(cmd.name)
            \/ ImportConfig
  <2>1. phase' # "object" /\ UNCHANGED <<kind, objects, file>>
    BY <1>11 DEF Run, Route, ListTrigger, StartBroker, StartNext, StopDone, StopNext, Finalize,
                 RemoveContainer, CleanupTriggers, UnlistTrigger, CleanupSecrets, ImportConfig, Fail, Warn, First
  <2> QED BY <2>1, HeldSame
<1> QED BY <1>1, <1>2, <1>3, <1>4, <1>5, <1>6, <1>7, <1>8, <1>9, <1>10, <1>11 DEF Next, Steps, Invocations
-----------------------------------------------------------------------------
(* What a delete has done so far; `since' is what Finalize has still to visit. *)
Cleared(n, since) ==
    \A r \in remote : r.source = n /\ r.scope = cmd.spec.scope =>
        \E j \in 1 .. Len(Removes[kind[n]]) : j > since /\ r.what \in Removes[kind[n]][j]

Gone(n) == ~\E r \in remote : r.source = n /\ r.scope = cmd.spec.scope

DeleteOK ==
    cmd.op = "delete" =>
        LET n == cmd.name
        IN  /\ phase \in DeletePhases \cup {"done"}
            /\ phase \in {"finalize", "remove", "forget"} => objects[n] = cmd.spec
            /\ phase = "finalize" /\ Lower[n] = n => Cleared(n, step)
            /\ phase # "finalize" /\ ~failed /\ Lower[n] = n => Gone(n)
            /\ phase \notin {"finalize", "remove"} /\ ~failed => docker[n] = None
            /\ phase \in {"unlist", "secrets", "done"} => n \notin conf
            /\ phase = "done" => objects[n] = None /\ secrets[n] = None /\ (n \in triggers => kills > 0)

LEMMA DeleteBegins ==
    ASSUME TypeOK, CommandOK, StepOK, RemoteOK, NEW n \in Names, Delete(n)
    PROVE  DeleteOK'
<1>1. /\ cmd'.name = n /\ cmd'.spec = objects[n]
      /\ phase' = (IF n \in Sources THEN "finalize" ELSE "remove")
      /\ UNCHANGED <<kind, objects, remote, docker>> /\ step' = 0
  BY DEF Delete, Begin, NoCommand, StepOK
<1>2. ASSUME n \in Sources PROVE Cleared(n, step)'
  <2>1. kind[n] \in SourceKinds
    BY <1>2 DEF CommandOK
  <2>2. Covers(Ensures[kind[n]], Removes[kind[n]])
    BY <2>1, TableCovers
  <2>3. SUFFICES ASSUME NEW r \in remote, r.source = n
                PROVE  \E j \in 1 .. Len(Removes[kind[n]]) : j > 0 /\ r.what \in Removes[kind[n]][j]
    BY <1>1 DEF Cleared
  <2>4. PICK i \in 1 .. Len(Ensures[kind[n]]) : r.what = Ensures[kind[n]][i]
    BY <2>3 DEF RemoteOK
  <2> QED BY <2>2, <2>4 DEF Covers
<1>3. n \notin Sources => Gone(n)'
  BY <1>1 DEF RemoteOK, Gone
<1> QED BY <1>1, <1>2, <1>3 DEF DeleteOK, DeletePhases

LEMMA FinalizeClears ==
    ASSUME TypeOK, CommandOK, SecretsOK, RemoteOK, HeldOK, DeleteOK, Finalize(cmd.name)
    PROVE  DeleteOK'
<1> DEFINE n == cmd.name
<1>1. /\ phase = "finalize" /\ cmd.op = "delete" /\ n \in Sources /\ n \in Names /\ kind[n] \in SourceKinds
      /\ UNCHANGED <<kind, objects, cmd>> /\ objects[n] = cmd.spec /\ cmd.spec \in Stored
  BY DEF Finalize, CommandOK, DeletePhases, DeleteOK, Names
<1>2. Current = cmd.spec /\ Env = SecretsEnv(n, objects[n], secrets) /\ objects[n] # None
  BY <1>1, ValuesDiffer DEF Current, Env
<1>3. CASE Refused(n) \/ step = Len(Removes[kind[n]])
  <2>1. phase' = "remove" /\ remote' = remote /\ failed' = failed
    BY <1>1, <1>3 DEF Finalize
  <2>2. ASSUME Lower[n] = n, Refused(n), NEW r \in remote, r.source = n PROVE FALSE
    <3>1. Ensures[kind[n]] # <<>>
      BY <2>2, TableCovers DEF RemoteOK
    <3>2. objects[n].token = Ref
      BY <1>1, <1>2, <3>1 DEF HeldOK, Held
    <3>3. secrets[n] \in Tokens
      BY <1>1, <1>2, <2>2, <3>2 DEF SecretsOK, Kept
    <3>4. Env # None
      BY <1>2, <3>2, <3>3, ValuesDiffer DEF SecretsEnv
    <3>5. kind[n] \in NotLocal
      BY <2>2, <3>4 DEF Refused
    <3> QED BY <1>1, <3>1, <3>5, TableCovers
  <2>3. ASSUME Lower[n] = n PROVE Gone(n)'
    <3>1. CASE Refused(n)
      BY <1>1, <2>1, <2>2, <2>3, <3>1 DEF Gone
    <3>2. CASE step = Len(Removes[kind[n]])
      <4>1. Cleared(n, step)
        BY <1>1, <2>3 DEF DeleteOK
      <4>2. \A j \in 1 .. Len(Removes[kind[n]]) : ~(j > step)
        BY <3>2
      <4> QED BY <1>1, <2>1, <4>1, <4>2 DEF Cleared, Gone
    <3> QED BY <1>3, <3>1, <3>2
  <2> QED BY <1>1, <2>1, <2>3 DEF DeleteOK, DeletePhases
<1>4. CASE Warn("remove")
  BY <1>1, <1>4 DEF Warn, DeleteOK, DeletePhases
<1>5. CASE phase' = "finalize" /\ step' = step + 1 /\ remote' = remote \ Removed(n, step + 1)
  <2>1. ASSUME Cleared(n, step) PROVE Cleared(n, step)'
    <3>1. SUFFICES ASSUME NEW r \in remote', r.source = n, r.scope = cmd.spec.scope
                  PROVE  \E j \in 1 .. Len(Removes[kind[n]]) : j > step + 1 /\ r.what \in Removes[kind[n]][j]
      BY <1>1, <1>5 DEF Cleared
    <3>2. PICK j \in 1 .. Len(Removes[kind[n]]) : j > step /\ r.what \in Removes[kind[n]][j]
      BY <1>5, <2>1, <3>1 DEF Cleared
    <3>3. j # step + 1
      BY <1>2, <1>5, <3>1, <3>2 DEF Removed
    <3>4. step \in Nat
      BY DEF TypeOK
    <3> QED BY <3>2, <3>3, <3>4
  <2> QED BY <1>1, <1>5, <2>1 DEF DeleteOK, DeletePhases
<1> QED BY <1>1, <1>3, <1>4, <1>5 DEF Finalize

LEMMA DeleteGoesOn ==
    ASSUME TypeOK, CommandOK, SecretsOK, RoutesOK, DeleteOK,
           \/ RemoveContainer(cmd.name) \/ RemoveObject(cmd.name)
           \/ CleanupTriggers(cmd.name) \/ UnlistTrigger(cmd.name) \/ CleanupSecrets(cmd.name)
    PROVE  DeleteOK'
<1> DEFINE n == cmd.name
<1>1. /\ cmd.op = "delete" /\ n \in Names /\ n \in Holders
      /\ UNCHANGED <<kind, remote, cmd>> /\ phase # "finalize"
  BY ValuesDiffer DEF RemoveContainer, RemoveObject, CleanupTriggers, UnlistTrigger, CleanupSecrets, CommandOK,
                      DeletePhases
<1>2. Gone(n)' = Gone(n)
  BY <1>1 DEF Gone
<1>3. CASE RemoveContainer(n)
  <2>1. phase = "remove" /\ phase' = "forget" /\ UNCHANGED <<objects, conf>>
        /\ (failed' \/ (docker'[n] = None /\ failed' = failed))
    BY <1>1, <1>3 DEF RemoveContainer, Warn, TypeOK
  <2> QED BY <1>1, <1>2, <2>1 DEF DeleteOK, DeletePhases
<1>4. CASE RemoveObject(n)
  <2>1. phase = "forget" /\ phase' = "triggers" /\ UNCHANGED <<conf, docker, failed>>
    BY <1>4 DEF RemoveObject
  <2> QED BY <1>1, <1>2, <2>1 DEF DeleteOK, DeletePhases
<1>5. CASE CleanupTriggers(n)
  <2>1. phase = "triggers" /\ phase' \in {"unlist", "secrets"} /\ n \notin conf' /\ UNCHANGED <<objects, docker, failed>>
    BY <1>5 DEF CleanupTriggers
  <2> QED BY <1>1, <1>2, <2>1 DEF DeleteOK, DeletePhases
<1>6. CASE UnlistTrigger(n)
  <2>1. phase = "unlist" /\ phase' = "secrets" /\ UNCHANGED <<conf, objects, docker, failed>>
    BY <1>6 DEF UnlistTrigger
  <2> QED BY <1>1, <1>2, <2>1 DEF DeleteOK, DeletePhases
<1>7. CASE CleanupSecrets(n)
  <2>1. phase = "secrets" /\ phase' = "done" /\ UNCHANGED <<conf, objects, docker, failed, triggers, kills>>
        /\ secrets'[n] = None
    BY <1>1, <1>7 DEF CleanupSecrets, TypeOK
  <2>2. objects[n] = None
    BY <2>1 DEF SecretsOK
  <2>3. kills = 0 => n \notin triggers
    BY <2>1, <2>2 DEF RoutesOK, Listing
  <2>4. n \in triggers => kills > 0
    BY <2>3 DEF TypeOK
  <2> QED BY <1>1, <1>2, <2>1, <2>2, <2>4 DEF DeleteOK, DeletePhases
<1> QED BY <1>3, <1>4, <1>5, <1>6, <1>7

LEMMA DeleteStays ==
    ASSUME IndInv, StepOK, RemoteOK, HeldOK, RoutesOK, DeleteOK, [Next]_vars
    PROVE  DeleteOK'
<1> USE DEF IndInv
<1>1. CASE UNCHANGED vars
  BY <1>1 DEF vars, DeleteOK, Cleared, Gone
<1>2. CASE Exit \/ Kill
  BY <1>2 DEF Exit, Kill, Forget, NoCommand, DeleteOK
<1>3. CASE Invocations
  <2>1. ASSUME NEW n \in Names, Delete(n) PROVE DeleteOK'
    BY <2>1, DeleteBegins
  <2>2. ASSUME NEW n \in Names, NEW s \in Scopes \cup {Invalid}, NEW v \in Tokens \cup {None},
               NEW route \in BOOLEAN, Create(n, s, v, route)
        PROVE  cmd'.op = "create"
    BY <2>2 DEF Create, Begin, NoCommand
  <2>3. ASSUME NEW again \in BOOLEAN, Start(again) PROVE cmd'.op = "start"
    BY <2>3 DEF Start, Begin, NoCommand
  <2>4. ASSUME NEW noSecrets \in BOOLEAN, Dump(noSecrets) PROVE cmd'.op = "none"
    BY <2>4 DEF Dump, NoCommand, CommandOK
  <2>5. CASE Stop \/ Import
    BY <2>5 DEF Stop, Import, Begin, NoCommand, DeleteOK
  <2> QED BY <1>3, <2>1, <2>2, <2>3, <2>4, <2>5 DEF Invocations, DeleteOK
<1>4. CASE \/ AddSecret \/ Ensure(cmd.name) \/ AddObject(cmd.name) \/ Run(cmd.name) \/ Route(cmd.name)
           \/ ListTrigger(cmd.name) \/ StartBroker \/ StopDone \/ \E c \in Names \cup {Broker} : StopNext(c)
           \/ ImportConfig \/ ImportManifest
  <2>1. cmd' = cmd /\ phase \notin DeletePhases \cup {"done"}
    BY <1>4 DEF AddSecret, Ensure, AddObject, Run, Route, ListTrigger, StartBroker, StopDone, StopNext, ImportConfig,
                ImportManifest, DeletePhases
  <2> QED BY <2>1 DEF DeleteOK
<1>5. CASE StartNext
  <2>1. cmd.op = "start" /\ cmd'.op = cmd.op
    BY <1>5 DEF StartNext, CommandOK, TypeOK, Commands
  <2> QED BY <2>1 DEF DeleteOK
<1> QED BY <1>1, <1>2, <1>3, <1>4, <1>5, FinalizeClears, DeleteGoesOn DEF Next, Steps

(* A delete of which no step failed leaves nothing of the component: no object,   *)
(* container, trigger or Secret, and nothing in the cloud for its last spec       *)
(* (delete/cmd.go:106-170).                                                    *)
THEOREM DeletesClean == Spec => []DeleteCleans
<1> DEFINE Inv == IndInv /\ StepOK /\ RemoteOK /\ HeldOK /\ RoutesOK /\ DeleteOK
<1>1. Init => Inv
  BY InitInv DEF Init, StepOK, RemoteOK, HeldOK, Held, RoutesOK, Listing, Filing, DeleteOK, NoCommand, Names
<1>2. Inv /\ [Next]_vars => Inv'
  <2> SUFFICES ASSUME Inv, [Next]_vars PROVE Inv'
    OBVIOUS
  <2>1. IndInv'
    BY NextType, NextCarries, NextKeeps DEF IndInv
  <2>2. StepOK' /\ RemoteOK' /\ HeldOK' /\ RoutesOK'
    BY StepStays, RemoteStays, HeldStays, NextRoutes DEF IndInv
  <2> QED BY <2>1, <2>2, DeleteStays
<1>3. Inv => DeleteCleans
  BY DEF DeleteCleans, Ended, DeleteOK, Gone
<1> QED BY <1>1, <1>2, <1>3, PTL DEF Spec
-----------------------------------------------------------------------------
(* create.  What it has done so far.                                         *)
CreateOK ==
    cmd.op = "create" =>
        LET n == cmd.name
            v == cmd.spec.token
        IN  /\ phase \in {"secret", "ensure", "object", "run", "route", "list", "done"}
            /\ phase # "secret" /\ v # None => secrets[Lower[n]] = v
            /\ phase = "ensure" => \A i \in 1 .. step : Resource(n, cmd.spec.scope, i) \in remote
            /\ n \in Sources /\ (phase \in {"object", "run", "route", "list"} \/ (phase = "done" /\ outcome = "ok")) =>
                 Owned(n, cmd.spec) \subseteq remote
            /\ phase \in {"run", "route", "list"} \/ (phase = "done" /\ outcome = "ok") =>
                 objects[n] = Extracted(cmd.spec)
            /\ phase \in {"route", "list"} \/ (phase = "done" /\ outcome = "ok") => docker[n] # None
            /\ phase = "list" => n \in conf
            /\ phase = "done" /\ outcome = "ok" /\ cmd.route => n \in triggers \cap conf

LEMMA RunType ==
    ASSUME TypeOK, CommandOK, phase = "run", NEW n
    PROVE  Container(Current, Env, Sink(n)) \in Containers /\ Container(Current, Env, Sink(n)) # None
<1>1. Current \in Specs /\ Env \in Tokens \cup {None}
  BY CurrentType
<1>2. Sink(n) \in {"local", "cluster", None}
  BY DEF Sink, CreateSink, StartSink
<1>3. Container(Current, Env, Sink(n)) \in Containers
  BY <1>1, <1>2 DEF Container, Containers, Specs
<1> QED BY <1>3, ContainersAssumption

LEMMA NothingOwned ==
    ASSUME NEW n, NEW s, First(n, "object") = "object", n \in Sources
    PROVE  Owned(n, s) = {}
BY ServiceEnsures, TableCovers DEF First, Owned

LEMMA CreateBegins ==
    ASSUME TypeOK, CommandOK, StepOK,
           NEW n \in Names, NEW s \in Scopes \cup {Invalid}, NEW v \in Tokens \cup {None}, NEW route \in BOOLEAN,
           Create(n, s, v, route)
    PROVE  CreateOK'
<1>1. /\ cmd'.name = n /\ cmd'.spec = [scope |-> s, token |-> v, events |-> TRUE]
      /\ phase' = (IF v # None THEN "secret" ELSE First(n, "object"))
      /\ UNCHANGED <<kind, remote>> /\ step' = 0
  BY DEF Create, Begin, NoCommand, StepOK
<1>2. CASE v # None
  BY <1>1, <1>2 DEF CreateOK
<1>3. CASE v = None
  <2>1. phase' \in {"ensure", "object"} /\ cmd'.spec.token = None
    BY <1>1, <1>3, FirstGoes
  <2>2. phase' = "object" /\ n \in Sources => Owned(n, cmd'.spec) = {}
    BY <1>1, <1>3, NothingOwned
  <2>3. phase' = "object" /\ cmd'.name \in Sources => Owned(cmd.name, cmd.spec)' = {}
    BY <1>1, <2>2 DEF Owned, Resource
  <2>4. \A i \in 1 .. step' : FALSE
    BY <1>1
  <2> QED BY <2>1, <2>3, <2>4 DEF CreateOK
<1> QED BY <1>2, <1>3

LEMMA CreateGoesOn ==
    ASSUME TypeOK, CommandOK, SecretsOK, StepOK, CreateOK, cmd.op = "create",
           \/ AddSecret \/ Ensure(cmd.name) \/ AddObject(cmd.name) \/ Run(cmd.name)
           \/ Route(cmd.name) \/ ListTrigger(cmd.name)
    PROVE  CreateOK'
<1> DEFINE n == cmd.name
           s == cmd.spec
<1>1. n \in Names /\ s \in Given /\ UNCHANGED <<kind, cmd>> /\ Current = s
  BY DEF CommandOK, Current, AddSecret, Ensure, AddObject, Run, Route, ListTrigger
<1>2. Owned(n, s)' = Owned(n, s) /\ \A i : Resource(n, s.scope, i)' = Resource(n, s.scope, i)
  BY <1>1 DEF Owned, Resource
<1>3. CASE AddSecret
  <2>1. phase = "secret" /\ phase' = First(n, "object") /\ step' = 0
    BY <1>3 DEF AddSecret, StepOK
  <2>2. Lower[n] \in Holders
    BY <1>1 DEF Holders
  <2>3. secrets'[Lower[n]] = s.token
    BY <1>3, <2>2 DEF AddSecret, TypeOK
  <2>4. phase' \in {"ensure", "object"}
    BY <2>1, FirstGoes
  <2>5. phase' = "object" /\ n \in Sources => Owned(n, s) = {}
    BY <2>1, NothingOwned
  <2> QED BY <1>1, <1>2, <2>1, <2>3, <2>4, <2>5 DEF CreateOK
<1>4. CASE Ensure(n)
  <2>1. phase = "ensure" /\ UNCHANGED <<secrets>> /\ step \in Nat
    BY <1>4 DEF Ensure, TypeOK
  <2>2. \/ phase' = "done" /\ outcome' = "error"
        \/ /\ phase' = "ensure" /\ step' = step + 1
           /\ remote' = remote \cup {Resource(n, s.scope, step + 1)}
        \/ phase' = "object" /\ step = Len(Ensures[kind[n]]) /\ remote' = remote
    BY <1>1, <1>4 DEF Ensure, Fail
  <2>3. phase' = "ensure" => \A i \in 1 .. step' : Resource(n, s.scope, i) \in remote'
    BY <2>1, <2>2 DEF CreateOK
  <2>4. phase' = "object" => Owned(n, s) \subseteq remote'
    BY <2>1, <2>2 DEF CreateOK, Owned
  <2> QED BY <1>1, <1>2, <2>1, <2>2, <2>3, <2>4 DEF CreateOK
<1>5. CASE AddObject(n)
  <2>1. phase = "object" /\ UNCHANGED <<secrets, remote>>
        /\ \/ phase' = "done" /\ outcome' = "error"
           \/ phase' = "run" /\ objects' = [objects EXCEPT ![n] = Extracted(s)]
    BY <1>5 DEF AddObject
  <2>2. phase' = "run" => objects'[n] = Extracted(s)
    BY <1>1, <2>1 DEF TypeOK
  <2>3. Extracted(s)' = Extracted(s)
    BY <1>1 DEF Extracted
  <2> QED BY <1>1, <1>2, <2>1, <2>2, <2>3 DEF CreateOK
<1>6. CASE Run(n)
  <2>1. phase = "run" /\ UNCHANGED <<objects, secrets, remote>>
    BY <1>6 DEF Run
  <2>2. \/ phase' = "done" /\ outcome' = "error"
        \/ /\ phase' = "route" \/ (phase' = "done" /\ ~cmd.route)
           /\ docker' = IF docker[n] # None /\ ~Again THEN docker
                        ELSE [docker EXCEPT ![n] = Container(Current, Env, Sink(n))]
    BY <1>6 DEF Run, Fail
  <2>3. phase' = "route" \/ (phase' = "done" /\ outcome' = "ok") => docker'[n] # None
    BY <1>1, <2>1, <2>2, RunType DEF TypeOK
  <2>4. Extracted(s)' = Extracted(s)
    BY <1>1 DEF Extracted
  <2> QED BY <1>1, <1>2, <2>1, <2>2, <2>3, <2>4 DEF CreateOK
<1>7. CASE Route(n)
  <2>1. phase = "route" /\ phase' = "list" /\ n \in conf' /\ UNCHANGED <<objects, secrets, remote, docker>>
    BY <1>7 DEF Route
  <2>2. Extracted(s)' = Extracted(s)
    BY <1>1 DEF Extracted
  <2> QED BY <1>1, <1>2, <2>1, <2>2 DEF CreateOK
<1>8. CASE ListTrigger(n)
  <2>1. phase = "list" /\ phase' = "done" /\ n \in triggers' /\ UNCHANGED <<objects, secrets, remote, docker, conf>>
    BY <1>8 DEF ListTrigger
  <2>2. Extracted(s)' = Extracted(s)
    BY <1>1 DEF Extracted
  <2> QED BY <1>1, <1>2, <2>1, <2>2 DEF CreateOK
<1> QED BY <1>3, <1>4, <1>5, <1>6, <1>7, <1>8

LEMMA CreateStays ==
    ASSUME IndInv, StepOK, CreateOK, [Next]_vars
    PROVE  CreateOK'
<1> USE DEF IndInv
<1>1. CASE UNCHANGED vars
  BY <1>1 DEF vars, CreateOK, Owned, Resource, Extracted
<1>2. CASE cmd'.op # "create"
  BY <1>2 DEF CreateOK
<1>3. CASE Exit \/ Kill
  BY <1>3 DEF Exit, Kill, Forget, NoCommand, CreateOK
<1>4. CASE Invocations
  <2>1. ASSUME NEW n \in Names, NEW s \in Scopes \cup {Invalid}, NEW v \in Tokens \cup {None},
               NEW route \in BOOLEAN, Create(n, s, v, route)
        PROVE  CreateOK'
    BY <2>1, CreateBegins
  <2>2. ASSUME NEW n \in Names, Delete(n) PROVE cmd'.op = "delete"
    BY <2>2 DEF Delete, Begin, NoCommand
  <2>3. ASSUME NEW again \in BOOLEAN, Start(again) PROVE cmd'.op = "start"
    BY <2>3 DEF Start, Begin, NoCommand
  <2>4. ASSUME NEW noSecrets \in BOOLEAN, Dump(noSecrets) PROVE cmd'.op = "none"
    BY <2>4 DEF Dump, NoCommand, CommandOK
  <2>5. CASE Stop \/ Import
    BY <2>5 DEF Stop, Import, Begin, NoCommand, CreateOK
  <2> QED BY <1>2, <1>4, <2>1, <2>2, <2>3, <2>4, <2>5 DEF Invocations
<1>5. CASE \/ StartBroker \/ StopDone \/ \E c \in Names \cup {Broker} : StopNext(c)
           \/ Finalize(cmd.name) \/ RemoveContainer(cmd.name) \/ RemoveObject(cmd.name)
           \/ CleanupTriggers(cmd.name) \/ UnlistTrigger(cmd.name) \/ CleanupSecrets(cmd.name)
           \/ ImportConfig \/ ImportManifest
  <2>1. cmd' = cmd /\ phase \notin {"secret", "ensure", "object", "run", "route", "list", "done"}
    BY <1>5 DEF StartBroker, StopDone, StopNext, Finalize, RemoveContainer, RemoveObject, CleanupTriggers,
                UnlistTrigger, CleanupSecrets, ImportConfig, ImportManifest
  <2> QED BY <2>1 DEF CreateOK
<1>6. CASE StartNext
  <2>1. cmd.op = "start" /\ cmd'.op = cmd.op
    BY <1>6 DEF StartNext, CommandOK, TypeOK, Commands
  <2> QED BY <2>1 DEF CreateOK
<1>7. CASE \/ AddSecret \/ Ensure(cmd.name) \/ AddObject(cmd.name) \/ Run(cmd.name)
           \/ Route(cmd.name) \/ ListTrigger(cmd.name)
  <2>1. cmd' = cmd
    BY <1>7 DEF AddSecret, Ensure, AddObject, Run, Route, ListTrigger
  <2> QED BY <1>2, <1>7, <2>1, CreateGoesOn
<1> QED BY <1>1, <1>3, <1>4, <1>5, <1>6, <1>7 DEF Next, Steps
-----------------------------------------------------------------------------
(* While nothing has failed, a container is what the manifest says; only the   *)
(* create that has changed something has still to replace its own.            *)
Matches(n) ==
    docker[n] # None =>
        /\ objects[n] # None
        /\ docker[n].scope = objects[n].scope /\ docker[n].events = objects[n].events
        /\ docker[n].token = SecretsEnv(n, objects[n], secrets)

Replacing(n) == cmd.op = "create" /\ n = cmd.name /\ phase \in {"ensure", "object", "run"} /\ changed

SyncOK ==
    clean => /\ ~failed
             /\ \A n \in Names \ dropped : HasOwnSecret(n) /\ ~Replacing(n) => Matches(n)

LEMMA EndsStep ==
    ASSUME TypeOK, clean => ~failed, [Next]_vars
    PROVE  clean' => clean /\ ~failed'
<1>1. CASE UNCHANGED <<failed, clean>>
  BY <1>1
<1>2. CASE failed' = failed /\ \E b \in BOOLEAN : clean' = (clean /\ b)
  BY <1>2
<1>3. CASE clean' = FALSE
  BY <1>3
<1>4. CASE failed' = FALSE /\ clean' = clean
  BY <1>4
<1>5. CASE Invocations
  BY <1>1, <1>5 DEF Invocations, Create, Start, Stop, Delete, Dump, Import, Begin
<1>6. CASE Exit \/ Kill
  BY <1>3, <1>4, <1>6 DEF Exit, Kill, Forget
<1>7. CASE \E o \in {"ok", "error", "panic"} : Quit(o)
  <2>1. PICK o \in {"ok", "error", "panic"} : Quit(o)
    BY <1>7
  <2>2. (o = "ok") \in BOOLEAN
    BY Zenon
  <2>3. failed' = failed /\ clean' = (clean /\ o = "ok")
    BY <2>1
  <2> QED BY <1>2, <2>2, <2>3
<1>8. CASE Fail \/ \E ph \in Phases : Warn(ph)
  BY <1>3, <1>8 DEF Fail, Warn
<1>9. CASE \/ AddSecret \/ AddObject(cmd.name) \/ Route(cmd.name) \/ ListTrigger(cmd.name)
           \/ RemoveObject(cmd.name) \/ CleanupTriggers(cmd.name) \/ UnlistTrigger(cmd.name)
           \/ CleanupSecrets(cmd.name) \/ StartBroker \/ StartNext \/ StopDone \/ ImportConfig \/ ImportManifest
  BY <1>1, <1>7, <1>8, <1>9 DEF AddSecret, AddObject, Route, ListTrigger, RemoveObject, CleanupTriggers, UnlistTrigger,
                          CleanupSecrets, StartBroker, StartNext, StopDone, ImportConfig, ImportManifest
<1>10. CASE Ensure(cmd.name)
  BY <1>1, <1>7, <1>8, <1>10 DEF Ensure
<1>11. CASE Run(cmd.name)
  BY <1>1, <1>7, <1>8, <1>11 DEF Run
<1>12. CASE RemoveContainer(cmd.name)
  <2>1. "forget" \in Phases
    BY DEF Phases
  <2> QED BY <1>1, <1>8, <1>12, <2>1 DEF RemoveContainer
<1>13. ASSUME NEW c \in Names \cup {Broker}, StopNext(c) PROVE clean' => clean /\ ~failed'
  <2>1. "stop" \in Phases
    BY DEF Phases
  <2> QED BY <1>1, <1>8, <1>13, <2>1 DEF StopNext
<1>14. CASE Finalize(cmd.name)
  <2>1. "remove" \in Phases
    BY DEF Phases
  <2>2. Refused(cmd.name) \in BOOLEAN /\ (~Refused(cmd.name)) \in BOOLEAN
    BY DEF Refused
  <2> QED BY <1>1, <1>2, <1>8, <1>14, <2>1, <2>2 DEF Finalize
<1>15. CASE UNCHANGED vars
  BY <1>1, <1>15 DEF vars
<1> QED BY <1>5, <1>6, <1>9, <1>10, <1>11, <1>12, <1>13, <1>14, <1>15 DEF Next, Steps
LEMMA SyncSame ==
    ASSUME SyncOK, UNCHANGED <<objects, secrets, docker>>, dropped \subseteq dropped',
           clean' => clean /\ ~failed', \A n : Replacing(n) => ~clean' \/ Replacing(n)'
    PROVE  SyncOK'
BY DEF SyncOK, Matches

LEMMA CreateSyncs ==
    ASSUME IndInv, CreateOK, SyncOK, clean' => clean /\ ~failed', clean',
           AddSecret \/ AddObject(cmd.name) \/ Run(cmd.name)
    PROVE  \A m \in Names \ dropped : HasOwnSecret(m) /\ ~Replacing(m)' => Matches(m)'
<1> USE DEF IndInv
<1> DEFINE n == cmd.name
           s == cmd.spec
<1>1. n \in Names /\ UNCHANGED <<kind, cmd, dropped>>
  BY DEF CommandOK, AddSecret, AddObject, Run, Listed
<1>2. \A m \in Names \ dropped : HasOwnSecret(m) /\ ~Replacing(m) => Matches(m)
  BY DEF SyncOK
<1>3. CASE AddSecret
  <2>1. /\ phase = "secret" /\ phase' \in {"ensure", "object"} /\ UNCHANGED <<objects, docker>> /\ cmd.op = "create"
        /\ secrets' = [secrets EXCEPT ![Lower[n]] = s.token]
        /\ secrets[Lower[n]] # s.token => changed'
    BY <1>3, FirstGoes DEF AddSecret, CommandOK
  <2>2. ASSUME NEW m \in Names \ dropped, HasOwnSecret(m), ~Replacing(m)'
        PROVE  Matches(m)'
    <3>1. Matches(m)
      BY <1>2, <2>1, <2>2 DEF Replacing
    <3>2. m \in Holders /\ Lower[n] \in Holders
      BY <1>1, ValuesDiffer DEF Holders
    <3>3. CASE m # n
      <4>1. Lower[n] # m
        BY <1>1, <2>2, <3>3 DEF HasOwnSecret
      <4>2. secrets'[m] = secrets[m]
        BY <2>1, <3>2, <4>1 DEF TypeOK
      <4> QED BY <2>1, <3>1, <4>2 DEF Matches, SecretsEnv
    <3>4. CASE m = n
      <4>1. secrets[Lower[n]] = s.token
        BY <1>1, <2>1, <2>2, <3>4 DEF Replacing
      <4>2. secrets'[m] = secrets[m]
        BY <2>1, <3>2, <4>1 DEF TypeOK
      <4> QED BY <2>1, <3>1, <4>2 DEF Matches, SecretsEnv
    <3> QED BY <3>3, <3>4
  <2> QED BY <2>2
<1>4. CASE AddObject(n)
  <2>1. phase = "object" /\ UNCHANGED <<secrets, docker>> /\ cmd.op = "create"
    BY <1>4 DEF AddObject, CommandOK
  <2>2. CASE s.scope = Invalid
    <3>1. ~clean'
      BY <1>4, <2>2 DEF AddObject
    <3> QED BY <3>1
  <2>3. CASE s.scope # Invalid
    <3>1. /\ objects' = [objects EXCEPT ![n] = Extracted(s)] /\ phase' = "run"
          /\ changed \/ objects[n] # Extracted(s) => changed'
      BY <1>4, <2>3 DEF AddObject
    <3>2. ASSUME NEW m \in Names \ dropped, HasOwnSecret(m), ~Replacing(m)'
          PROVE  Matches(m)'
      <4>1. ~Replacing(m) /\ objects'[m] = objects[m]
        BY <1>1, <2>1, <3>1, <3>2 DEF Replacing, TypeOK
      <4>2. Matches(m)
        BY <1>2, <3>2, <4>1
      <4> QED BY <2>1, <4>1, <4>2 DEF Matches, SecretsEnv
    <3> QED BY <3>2
  <2> QED BY <2>2, <2>3
<1>5. CASE Run(n)
  <2>1. phase = "run" /\ UNCHANGED <<objects, secrets>> /\ cmd.op \in {"create", "start"}
    BY <1>5 DEF Run, CommandOK
  <2>2. docker' = IF docker[n] # None /\ ~Again THEN docker
                  ELSE [docker EXCEPT ![n] = Container(Current, Env, Sink(n))]
    BY <1>5 DEF Run, Fail
  <2>3. ASSUME NEW m \in Names \ dropped, HasOwnSecret(m)
        PROVE  Matches(m)'
    <3>1. CASE m # n
      <4>1. Matches(m) /\ docker'[m] = docker[m]
        BY <1>1, <1>2, <2>2, <2>3, <3>1 DEF Replacing, TypeOK
      <4> QED BY <2>1, <4>1 DEF Matches, SecretsEnv
    <3>2. CASE m = n /\ docker[n] # None /\ ~Again
      <4>1. ~Replacing(n)
        BY <3>2 DEF Replacing, Again
      <4>2. Matches(m) /\ docker' = docker
        BY <1>2, <2>2, <2>3, <3>2, <4>1
      <4> QED BY <2>1, <4>2 DEF Matches, SecretsEnv
    <3>3. CASE m = n /\ ~(docker[n] # None /\ ~Again)
      <4>1. docker'[n] = Container(Current, Env, Sink(n))
        BY <1>1, <2>2, <3>3 DEF TypeOK
      <4>2. docker'[n].scope = Current.scope /\ docker'[n].events = Current.events /\ docker'[n].token = Env
        BY <4>1 DEF Container
      <4>3. CASE cmd.op = "start"
        <5>1. Current = objects[n] /\ Env = SecretsEnv(n, objects[n], secrets) /\ objects[n] # None
          BY <2>1, <4>3 DEF Current, Env, CommandOK, Listed
        <5> QED BY <2>1, <3>3, <4>2, <5>1 DEF Matches, SecretsEnv
      <4>4. CASE cmd.op = "create"
        <5>1. Current = s /\ s \in Given /\ objects[n] = Extracted(s)
              /\ (s.token # None => secrets[Lower[n]] = s.token)
          BY <2>1, <4>4 DEF Current, CommandOK, CreateOK
        <5>2. Env = s.token
          BY <5>1, ValuesDiffer DEF Env, SecretsEnv, Given
        <5>3. objects[n].scope = s.scope /\ objects[n].events = s.events
          BY <5>1 DEF Extracted, Given
        <5>4. SecretsEnv(n, objects[n], secrets) = s.token
          <6>1. CASE s.token = None
            BY <5>1, <6>1, ValuesDiffer DEF Extracted, SecretsEnv
          <6>2. CASE s.token \in Tokens
            <7>1. objects[n].token = Ref /\ s.token # None
              BY <5>1, <6>2, ValuesDiffer DEF Extracted, Given
            <7>2. Lower[n] = n
              BY <2>3, <3>3 DEF HasOwnSecret
            <7> QED BY <5>1, <7>1, <7>2 DEF SecretsEnv
          <6> QED BY <5>1, <6>1, <6>2 DEF Given
        <5>5. objects[n] # None
          <6>1. Extracted(s) \in Specs
            BY <5>1 DEF Extracted, Given, Specs
          <6> QED BY <5>1, <6>1, ValuesAssumption
        <5> QED BY <2>1, <3>3, <4>2, <5>1, <5>2, <5>3, <5>4, <5>5 DEF Matches, SecretsEnv
      <4> QED BY <2>1, <4>3, <4>4
    <3> QED BY <3>1, <3>2, <3>3
  <2> QED BY <1>1, <2>3
<1> QED BY <1>3, <1>4, <1>5

LEMMA RemovalSyncs ==
    ASSUME IndInv, DeleteOK, SyncOK, clean' => clean /\ ~failed', clean',
           \/ \E c \in Names \cup {Broker} : StopNext(c)
           \/ RemoveContainer(cmd.name) \/ RemoveObject(cmd.name) \/ CleanupSecrets(cmd.name) \/ ImportManifest
    PROVE  \A m \in Names \ dropped' : HasOwnSecret(m) => Matches(m)'
<1> USE DEF IndInv
<1>1. phase \in {"stop", "remove", "forget", "secrets", "write"} /\ dropped \subseteq dropped' /\ kind' = kind
  BY DEF StopNext, RemoveContainer, RemoveObject, CleanupSecrets, ImportManifest
<1>2. ASSUME NEW m \in Names \ dropped', HasOwnSecret(m) PROVE Matches(m)
  BY <1>1, <1>2 DEF SyncOK, Replacing
<1>3. CASE \/ \E c \in Names \cup {Broker} : StopNext(c)
           \/ RemoveContainer(cmd.name)
  <2>1. UNCHANGED <<objects, secrets>>
    BY <1>3 DEF StopNext, RemoveContainer
  <2>2. \A m \in Names : docker'[m] \in {docker[m], None}
    BY <1>3 DEF StopNext, RemoveContainer, TypeOK
  <2>3. ASSUME NEW m \in Names \ dropped', HasOwnSecret(m) PROVE Matches(m)'
    <3>1. Matches(m)
      BY <1>2, <2>3
    <3> QED BY <2>1, <2>2, <3>1 DEF Matches, SecretsEnv
  <2> QED BY <2>3
<1>4. CASE RemoveObject(cmd.name) \/ CleanupSecrets(cmd.name)
  <2>1. cmd.op = "delete" /\ cmd.name \in Names /\ docker' = docker /\ phase \in {"forget", "secrets"}
    BY <1>4 DEF RemoveObject, CleanupSecrets, CommandOK, DeletePhases
  <2>2. docker[cmd.name] = None
    BY <2>1 DEF SyncOK, DeleteOK
  <2>3. \A m \in Names \ {cmd.name} : objects'[m] = objects[m] /\ secrets'[m] = secrets[m]
    BY <1>4, <2>1, ValuesDiffer DEF RemoveObject, CleanupSecrets, TypeOK
  <2>4. ASSUME NEW m \in Names \ dropped', HasOwnSecret(m) PROVE Matches(m)'
    <3>1. Matches(m)
      BY <1>2, <2>4
    <3>2. CASE m = cmd.name
      BY <2>1, <2>2, <3>2 DEF Matches
    <3>3. CASE m # cmd.name
      <4>1. objects'[m] = objects[m] /\ secrets'[m] = secrets[m]
        BY <2>3, <3>3
      <4> QED BY <2>1, <3>1, <4>1 DEF Matches, SecretsEnv
    <3> QED BY <3>2, <3>3
  <2> QED BY <2>4
<1>5. CASE ImportManifest
  <2>1. dropped' = dropped \cup Listed /\ docker' = docker
    BY <1>5 DEF ImportManifest
  <2>2. ASSUME NEW m \in Names \ dropped', HasOwnSecret(m) PROVE Matches(m)'
    <3>1. objects[m] = None
      BY <2>1, <2>2 DEF Listed
    <3>2. docker[m] = None
      BY <1>2, <2>2, <3>1 DEF Matches
    <3> QED BY <2>1, <3>2 DEF Matches
  <2> QED BY <2>2
<1> QED BY <1>3, <1>4, <1>5

LEMMA SyncStays ==
    ASSUME IndInv, CreateOK, DeleteOK, SyncOK, [Next]_vars
    PROVE  SyncOK'
<1> USE DEF IndInv
<1>0. clean' => clean /\ ~failed'
  BY EndsStep DEF SyncOK
<1>1. CASE UNCHANGED vars
  BY <1>0, <1>1, SyncSame DEF vars, Replacing
<1>2. CASE Exit \/ Invocations
  <2>1. UNCHANGED <<objects, secrets, docker, dropped>> /\ phase \in {"done", "idle"}
    BY <1>2 DEF Exit, Invocations, Create, Start, Stop, Delete, Dump, Import, Begin
  <2> QED BY <1>0, <2>1, SyncSame DEF Replacing
<1>3. CASE ~clean'
  BY <1>3 DEF SyncOK
<1>4. CASE Kill
  BY <1>3, <1>4 DEF Kill
<1>5. CASE Ensure(cmd.name)
  <2>1. UNCHANGED <<objects, secrets, docker, dropped, cmd, changed>>
    BY <1>5 DEF Ensure
  <2>2. clean' => phase' \in {"ensure", "object", "run"}
    BY <1>5 DEF Ensure, Fail
  <2> QED BY <1>0, <2>1, <2>2, SyncSame DEF Replacing
<1>6. CASE \/ Route(cmd.name) \/ ListTrigger(cmd.name) \/ StartBroker \/ StartNext \/ StopDone \/ Finalize(cmd.name)
           \/ CleanupTriggers(cmd.name) \/ UnlistTrigger(cmd.name) \/ ImportConfig
  <2>1. UNCHANGED <<objects, secrets, docker, dropped>> /\ phase \notin {"ensure", "object", "run"}
    BY <1>6 DEF Route, ListTrigger, StartBroker, StartNext, StopDone, Finalize, CleanupTriggers, UnlistTrigger,
                ImportConfig
  <2> QED BY <1>0, <2>1, SyncSame DEF Replacing
<1>7. CASE AddSecret \/ AddObject(cmd.name) \/ Run(cmd.name)
  <2>1. dropped' = dropped /\ \A m \in Names : HasOwnSecret(m)' = HasOwnSecret(m)
    BY <1>7 DEF AddSecret, AddObject, Run, HasOwnSecret
  <2> QED BY <1>0, <1>3, <1>7, <2>1, CreateSyncs DEF SyncOK
<1>8. CASE \/ \E c \in Names \cup {Broker} : StopNext(c)
           \/ RemoveContainer(cmd.name) \/ RemoveObject(cmd.name) \/ CleanupSecrets(cmd.name) \/ ImportManifest
  BY <1>0, <1>3, <1>8, RemovalSyncs DEF SyncOK
<1> QED BY <1>1, <1>2, <1>4, <1>5, <1>6, <1>7, <1>8 DEF Next, Steps

(* A create that returns no error has made all resources of its source, stored    *)
(* its Secret and written its trigger; unless something failed before, an import   *)
(* replaced the manifest, or the name is not its Secret's, the container has the     *)
(* new spec and token (create/source.go:116-148).                              *)
THEOREM CreatesComplete == Spec => []CreateCompletes
<1> DEFINE Inv == IndInv /\ StepOK /\ RemoteOK /\ HeldOK /\ RoutesOK /\ DeleteOK /\ CreateOK /\ SyncOK
<1>1. Init => Inv
  <2> SUFFICES ASSUME Init PROVE Inv
    OBVIOUS
  <2>1. StepOK /\ RemoteOK /\ HeldOK /\ RoutesOK
    BY DEF Init, StepOK, RemoteOK, HeldOK, Held, RoutesOK, Listing, Filing, NoCommand, Names
  <2>2. DeleteOK /\ CreateOK /\ SyncOK
    BY DEF Init, DeleteOK, CreateOK, SyncOK, Matches, NoCommand
  <2> QED BY InitInv, <2>1, <2>2
<1>2. Inv /\ [Next]_vars => Inv'
  <2> SUFFICES ASSUME Inv, [Next]_vars PROVE Inv'
    OBVIOUS
  <2>1. IndInv'
    BY NextType, NextCarries, NextKeeps DEF IndInv
  <2>2. StepOK' /\ RemoteOK' /\ HeldOK' /\ RoutesOK'
    BY StepStays, RemoteStays, HeldStays, NextRoutes DEF IndInv
  <2> QED BY <2>1, <2>2, DeleteStays, CreateStays, SyncStays
<1>3. Inv => CreateCompletes
  <2> SUFFICES ASSUME Inv, Ended("create")
              PROVE  LET n == cmd.name
                         v == cmd.spec.token
                     IN  /\ n \in Sources => Owned(n, cmd.spec) \subseteq remote
                         /\ v # None => secrets[Lower[n]] = v
                         /\ cmd.route => n \in triggers \cap conf
                         /\ clean /\ n \notin dropped /\ HasOwnSecret(n) =>
                              docker[n] # None /\ [docker[n] EXCEPT !.sink = None] = Container(cmd.spec, v, None)
    BY DEF CreateCompletes
  <2> DEFINE n == cmd.name
             s == cmd.spec
  <2>1. cmd.op = "create" /\ phase = "done" /\ outcome = "ok" /\ n \in Names /\ s \in Given
    BY DEF Ended, IndInv, CommandOK
  <2>2. /\ n \in Sources => Owned(n, s) \subseteq remote
        /\ s.token # None => secrets[Lower[n]] = s.token
        /\ cmd.route => n \in triggers \cap conf
        /\ objects[n] = Extracted(s) /\ docker[n] # None
    BY <2>1 DEF CreateOK
  <2>3. ASSUME clean, n \notin dropped, HasOwnSecret(n)
        PROVE  [docker[n] EXCEPT !.sink = None] = Container(s, s.token, None)
    <3>1. Matches(n)
      BY <2>1, <2>3 DEF SyncOK, Replacing
    <3>2. docker[n].scope = s.scope /\ docker[n].events = s.events
      BY <2>1, <2>2, <3>1 DEF Matches, Extracted, Given
    <3>3. docker[n].token = s.token
      <4>1. docker[n].token = SecretsEnv(n, Extracted(s), secrets)
        BY <2>2, <3>1 DEF Matches
      <4>2. CASE s.token = None
        BY <4>1, <4>2, ValuesDiffer DEF Extracted, SecretsEnv
      <4>3. CASE s.token \in Tokens
        <5>1. Extracted(s).token = Ref /\ s.token # None
          BY <2>1, <4>3, ValuesDiffer DEF Extracted, Given
        <5> QED BY <2>2, <2>3, <4>1, <5>1 DEF SecretsEnv, HasOwnSecret
      <4> QED BY <2>1, <4>2, <4>3 DEF Given
    <3>4. docker[n] \in Containers
      BY <2>1, <2>2 DEF IndInv, TypeOK
    <3> QED BY <3>2, <3>3, <3>4 DEF Container, Containers
  <2> QED BY <2>2, <2>3
<1> QED BY <1>1, <1>2, <1>3, PTL DEF Spec
=============================================================================

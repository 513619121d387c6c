-------------------------- MODULE DeploymentProofs --------------------------
(***************************************************************************)
(* Theorems about Deployment, for any components of the kinds it knows, any   *)
(* credentials and any bounds.                                               *)
(***************************************************************************)
EXTENDS Deployment, TLAPS

(* The table of external resources, by clouds.                               *)
LEMMA Rows ==
    /\ <<>> \in Seq(What)
    /\ \A a \in What : <<a>> \in Seq(What)
    /\ \A a, b \in What : <<a, b>> \in Seq(What)
    /\ \A a, b, c \in What : <<a, b, c>> \in Seq(What)
    /\ \A a, b, c, d \in What : <<a, b, c, d>> \in Seq(What)
OBVIOUS

LEMMA AWSType == \A k \in DOMAIN AWSEnsures : AWSEnsures[k] \in Seq(What)
<1>1. DOMAIN AWSEnsures = {"AWSS3Source", "AWSEventBridgeSource"}
  BY DEF AWSEnsures
<1>2. AWSEnsures["AWSS3Source"] \in Seq(What)
  BY Rows DEF AWSEnsures, What
<1>3. AWSEnsures["AWSEventBridgeSource"] \in Seq(What)
  BY Rows DEF AWSEnsures, What
<1> QED BY <1>1, <1>2, <1>3

LEMMA AzureType == \A k \in DOMAIN AzureEnsures : AzureEnsures[k] \in Seq(What)
<1>1. DOMAIN AzureEnsures =
        {"AzureEventGridSource", "AzureServiceBusTopicSource", "AzureBlobStorageSource"}
  BY DEF AzureEnsures
<1>2. AzureEnsures["AzureEventGridSource"] \in Seq(What)
  BY Rows DEF AzureEnsures, What
<1>3. AzureEnsures["AzureServiceBusTopicSource"] \in Seq(What)
  BY Rows DEF AzureEnsures, What
<1>4. AzureEnsures["AzureBlobStorageSource"] \in Seq(What)
  BY Rows DEF AzureEnsures, What
<1> QED BY <1>1, <1>2, <1>3, <1>4

LEMMA GoogleCloudType == \A k \in DOMAIN GoogleCloudEnsures : GoogleCloudEnsures[k] \in Seq(What)
<1>1. DOMAIN GoogleCloudEnsures =
        {"GoogleCloudBillingSource", "GoogleCloudPubSubSource", "GoogleCloudAuditLogsSource",
         "GoogleCloudStorageSource", "GoogleCloudSourceRepositoriesSource"}
  BY DEF GoogleCloudEnsures
<1>2. GoogleCloudEnsures["GoogleCloudBillingSource"] \in Seq(What)
  BY Rows DEF GoogleCloudEnsures, What
<1>3. GoogleCloudEnsures["GoogleCloudPubSubSource"] \in Seq(What)
  BY Rows DEF GoogleCloudEnsures, What
<1>4. GoogleCloudEnsures["GoogleCloudAuditLogsSource"] \in Seq(What)
  BY Rows DEF GoogleCloudEnsures, What
<1>5. GoogleCloudEnsures["GoogleCloudStorageSource"] \in Seq(What)
  BY Rows DEF GoogleCloudEnsures, What
<1>6. GoogleCloudEnsures["GoogleCloudSourceRepositoriesSource"] \in Seq(What)
  BY Rows DEF GoogleCloudEnsures, What
<1> QED BY <1>1, <1>2, <1>3, <1>4, <1>5, <1>6

LEMMA EnsuresType == \A k \in SourceKinds : Ensures[k] \in Seq(What)
BY Rows, AWSType, AzureType, GoogleCloudType, KindsAssumption DEF Ensures, PerKind

LEMMA ResourceType ==
    ASSUME TypeOK, NEW n \in Sources, NEW s \in Scopes, NEW i \in 1 .. Len(Ensures[kind[n]]),
           kind[n] \in SourceKinds
    PROVE  Resource(n, s, i) \in Resources
<1>1. Ensures[kind[n]][i] \in What
  BY EnsuresType
<1> QED BY <1>1 DEF Resource, Resources
-----------------------------------------------------------------------------
LEMMA ValuesDiffer ==
    /\ NoCommand \in Commands /\ NoCommand.op = "none"
    /\ Ref # None /\ Ref \notin Tokens /\ None \notin Tokens /\ Redacted \notin Tokens
    /\ None \notin Given /\ None \notin Stored
    /\ Given \subseteq Specs /\ Stored \subseteq Specs
    /\ Names \subseteq Holders
<1>1. Given \subseteq Specs /\ Stored \subseteq Specs
  BY DEF Given, Stored, Specs
<1> QED BY <1>1, ValuesAssumption DEF NoCommand, Commands, Ops, Holders
-----------------------------------------------------------------------------
(* The variables' types.                                                     *)
USE DEF store, world, locals, ends, counts, Goto, Quit, Done

LEMMA InitType == Init => TypeOK
<1> SUFFICES ASSUME Init PROVE TypeOK
  OBVIOUS
<1>1. online \in BOOLEAN /\ changed \in BOOLEAN /\ failed \in BOOLEAN /\ clean \in BOOLEAN
  BY DEF Init
<1>2. /\ kind \in [Names -> SourceKinds \cup TargetKinds]
      /\ objects \in [Names -> Stored \cup {None}]
      /\ secrets \in [Holders -> Tokens \cup {None}]
      /\ docker \in [Names -> Containers \cup {None}]
  BY DEF Init
<1>3. phase \in Phases /\ cmd \in Commands /\ outcome \in {"ok", "error", "panic"}
  BY ValuesDiffer DEF Init, Phases
<1> QED BY <1>1, <1>2, <1>3 DEF Init, TypeOK

(* How a step leaves its command.                                            *)
EndsOK ==
    /\ phase \in Phases /\ outcome \in {"ok", "error", "panic"}
    /\ failed \in BOOLEAN /\ clean \in BOOLEAN

LEMMA GotoType ==
    ASSUME TypeOK, NEW ph \in Phases, Goto(ph)
    PROVE  EndsOK'
BY DEF TypeOK, EndsOK

LEMMA QuitType ==
    ASSUME TypeOK, NEW o \in {"ok", "error", "panic"}, Quit(o)
    PROVE  EndsOK'
<1>1. phase' \in Phases /\ outcome' \in {"ok", "error", "panic"}
  BY DEF Phases
<1>2. (clean /\ o = "ok") \in BOOLEAN
  BY Zenon
<1> QED BY <1>1, <1>2 DEF TypeOK, EndsOK

LEMMA FailType ==
    ASSUME TypeOK, Fail
    PROVE  EndsOK' /\ commands' \in Nat /\ faults' \in Nat /\ kills' \in Nat
<1>1. phase' \in Phases /\ outcome' \in {"ok", "error", "panic"}
  BY DEF Fail, Phases
<1>2. failed' \in BOOLEAN /\ clean' \in BOOLEAN
  BY DEF Fail
<1>3. commands' \in Nat /\ faults' \in Nat /\ kills' \in Nat
  BY DEF Fail, Fault, TypeOK
<1> QED BY <1>1, <1>2, <1>3 DEF EndsOK

LEMMA WarnType ==
    ASSUME TypeOK, NEW ph \in Phases, Warn(ph)
    PROVE  EndsOK' /\ commands' \in Nat /\ faults' \in Nat /\ kills' \in Nat
<1>1. phase' \in Phases /\ outcome' \in {"ok", "error", "panic"}
  BY DEF Warn, TypeOK
<1>2. failed' \in BOOLEAN /\ clean' \in BOOLEAN
  BY DEF Warn
<1>3. commands' \in Nat /\ faults' \in Nat /\ kills' \in Nat
  BY DEF Warn, Fault, TypeOK
<1> QED BY <1>1, <1>2, <1>3 DEF EndsOK

LEMMA CurrentType ==
    ASSUME TypeOK, CommandOK, phase \in {"ensure", "run"}
    PROVE  Current \in Specs /\ Env \in Tokens \cup {None}
<1>1. CASE cmd.op = "create"
  <2>1. cmd.spec \in Given /\ Current = cmd.spec
    BY <1>1 DEF CommandOK, Current
  <2>2. cmd.spec.token # Ref
    BY <2>1, ValuesDiffer DEF Given
  <2> QED BY <2>1, <2>2, ValuesDiffer DEF Env, SecretsEnv, Given
<1>2. CASE cmd.op = "start"
  <2>1. cmd.name \in Names /\ objects[cmd.name] \in Stored /\ Current = objects[cmd.name]
    BY <1>2 DEF CommandOK, TypeOK, Current, Listed
  <2>2. secrets[cmd.name] \in Tokens \cup {None}
    BY <2>1, ValuesDiffer DEF TypeOK
  <2> QED BY <2>1, <2>2, ValuesDiffer DEF Env, SecretsEnv, Stored
<1> QED BY <1>1, <1>2 DEF CommandOK

LEMMA BeginType ==
    ASSUME TypeOK, NEW ph \in Phases, NEW c \in Commands, NEW visit \in SUBSET (Names \cup {Broker}),
           Begin(ph, c, visit)
    PROVE  TypeOK'
BY DEF Begin, TypeOK

LEMMA FirstType ==
    ASSUME NEW n, NEW ph \in Phases
    PROVE  First(n, ph) \in Phases
BY DEF First, Phases

LEMMA InvocationType ==
    ASSUME TypeOK, Invocations
    PROVE  TypeOK'
<1>1. ASSUME NEW n \in Names, NEW s \in Scopes \cup {Invalid}, NEW v \in Tokens \cup {None},
             NEW route \in BOOLEAN, Create(n, s, v, route)
      PROVE  TypeOK'
  <2> DEFINE c == [NoCommand EXCEPT !.op = "create", !.name = n, !.route = route,
                                    !.spec = [scope |-> s, token |-> v, events |-> TRUE]]
  <2>1. c \in Commands
    BY DEF Commands, NoCommand, Ops, Specs
  <2>2. First(n, "object") \in Phases /\ "secret" \in Phases
    BY FirstType DEF Phases
  <2>3. Begin(IF v # None THEN "secret" ELSE First(n, "object"), c, {})
    BY <1>1 DEF Create
  <2> QED BY <2>1, <2>2, <2>3, BeginType
<1>2. ASSUME NEW again \in BOOLEAN, Start(again) PROVE TypeOK'
  <2>1. [NoCommand EXCEPT !.op = "start", !.restart = again] \in Commands
    BY DEF Commands, NoCommand, Ops
  <2> QED BY <1>2, <2>1, BeginType DEF Start, Listed, Phases
<1>3. CASE Stop
  <2>1. [NoCommand EXCEPT !.op = "stop"] \in Commands
    BY DEF Commands, NoCommand, Ops
  <2> QED BY <1>3, <2>1, BeginType DEF Stop, Listed, Phases
<1>4. ASSUME NEW n \in Names, Delete(n) PROVE TypeOK'
  <2> DEFINE c == [NoCommand EXCEPT !.op = "delete", !.name = n, !.spec = objects[n]]
  <2>1. objects[n] \in Specs
    BY <1>4, ValuesDiffer DEF Delete, Listed, TypeOK
  <2>2. c \in Commands
    BY <2>1 DEF Commands, NoCommand, Ops
  <2>3. Begin(IF n \in Sources THEN "finalize" ELSE "remove", c, {})
    BY <1>4 DEF Delete
  <2> QED BY <2>2, <2>3, BeginType DEF Phases
<1>5. ASSUME NEW noSecrets \in BOOLEAN, Dump(noSecrets) PROVE TypeOK'
  <2>1. file' \in Manifests
    BY <1>5 DEF Dump, TypeOK, Manifests
  <2> QED BY <1>5, <2>1 DEF Dump, TypeOK
<1>6. CASE Import
  <2>1. [NoCommand EXCEPT !.op = "import"] \in Commands
    BY DEF Commands, NoCommand, Ops
  <2> QED BY <1>6, <2>1, BeginType DEF Import, Phases
<1> QED BY <1>1, <1>2, <1>3, <1>4, <1>5, <1>6 DEF Invocations

LEMMA CreateType ==
    ASSUME TypeOK, CommandOK,
           \/ AddSecret \/ Ensure(cmd.name) \/ AddObject(cmd.name) \/ Run(cmd.name)
           \/ Route(cmd.name) \/ ListTrigger(cmd.name)
    PROVE  TypeOK'
<1>1. CASE AddSecret
  <2>1. cmd.name \in Names /\ cmd.spec.token \in Tokens \cup {None}
    BY <1>1 DEF AddSecret, CommandOK, Given
  <2>2. secrets' \in [Holders -> Tokens \cup {None}]
    BY <1>1, <2>1 DEF AddSecret, TypeOK
  <2>3. phase' \in Phases
    BY <1>1, FirstType DEF AddSecret, Phases
  <2> QED BY <1>1, <2>2, <2>3 DEF AddSecret, TypeOK
<1>2. CASE Ensure(cmd.name)
  <2>1. cmd.name \in Sources /\ kind[cmd.name] \in SourceKinds /\ phase = "ensure"
    BY <1>2 DEF Ensure, CommandOK
  <2>2. Ensures[kind[cmd.name]] \in Seq(What)
    BY <2>1, EnsuresType
  <2>3. Current.scope # Invalid => Current.scope \in Scopes
    BY <2>1, CurrentType DEF Specs
  <2>4. ASSUME Current.scope # Invalid, step < Len(Ensures[kind[cmd.name]])
        PROVE  Resource(cmd.name, Current.scope, step + 1) \in Resources
    <3>1. step + 1 \in 1 .. Len(Ensures[kind[cmd.name]])
      BY <2>2, <2>4 DEF TypeOK
    <3> QED BY <2>1, <2>3, <2>4, <3>1, ResourceType
  <2>5. remote' \subseteq Resources
    BY <1>2, <2>4 DEF Ensure, TypeOK, Fail, Fault
  <2>6. step' \in Nat
    BY <1>2 DEF Ensure, TypeOK
  <2>7. EndsOK' /\ commands' \in Nat /\ faults' \in Nat /\ kills' \in Nat
    <3>1. CASE Quit("error") /\ UNCHANGED counts
      BY <3>1, QuitType DEF TypeOK
    <3>2. CASE Fail
      BY <3>2, FailType
    <3>3. CASE UNCHANGED counts /\ \E ph \in {"ensure", "object", "run"} : Goto(ph)
      <4>1. {"ensure", "object", "run"} \subseteq Phases
        BY DEF Phases
      <4> QED BY <3>3, <4>1, GotoType DEF TypeOK
    <3> QED BY <1>2, <3>1, <3>2, <3>3 DEF Ensure
  <2> QED BY <1>2, <2>5, <2>6, <2>7 DEF Ensure, TypeOK, EndsOK
<1>3. CASE AddObject(cmd.name)
  <2>1. cmd.name \in Names /\ cmd.spec \in Given
    BY <1>3 DEF AddObject, CommandOK
  <2>2. cmd.spec.scope # Invalid => Extracted(cmd.spec) \in Stored
    BY <2>1 DEF Extracted, Given, Stored
  <2>3. objects' \in [Names -> Stored \cup {None}]
    BY <1>3, <2>2 DEF AddObject, TypeOK
  <2> QED BY <1>3, <2>3 DEF AddObject, TypeOK, Phases
<1>4. CASE Run(cmd.name)
  <2>1. Current \in Specs /\ Env \in Tokens \cup {None}
    BY <1>4, CurrentType DEF Run
  <2>2. Sink(cmd.name) \in {"local", "cluster", None}
    BY DEF Sink, CreateSink, StartSink
  <2>3. Container(Current, Env, Sink(cmd.name)) \in Containers
    BY <2>1, <2>2 DEF Container, Containers, Specs
  <2>4. docker' \in [Names -> Containers \cup {None}]
    BY <1>4, <2>3 DEF Run, TypeOK
  <2>5. EndsOK' /\ commands' \in Nat /\ faults' \in Nat /\ kills' \in Nat
    <3>1. CASE UNCHANGED counts /\ \/ Goto("next") \/ Goto("route") \/ Done
      BY <3>1, GotoType, QuitType DEF TypeOK, Phases
    <3>2. CASE Fail
      BY <3>2, FailType
    <3> QED BY <1>4, <3>1, <3>2 DEF Run
  <2>6. rest' \subseteq Names \cup {Broker}
    BY <1>4 DEF Run, TypeOK
  <2> QED BY <1>4, <2>4, <2>5, <2>6 DEF Run, TypeOK, EndsOK
<1>5. CASE Route(cmd.name)
  BY <1>5 DEF Route, CommandOK, TypeOK, Phases
<1>6. CASE ListTrigger(cmd.name)
  BY <1>6 DEF ListTrigger, CommandOK, TypeOK, Phases
<1> QED BY <1>1, <1>2, <1>3, <1>4, <1>5, <1>6

LEMMA LoopType ==
    ASSUME TypeOK, CommandOK, StartBroker \/ StartNext \/ StopDone \/ \E c \in Names \cup {Broker} : StopNext(c)
    PROVE  TypeOK'
<1>1. CASE StartBroker
  <2>1. EndsOK' /\ commands' \in Nat /\ faults' \in Nat /\ kills' \in Nat
    <3>1. CASE Goto("next") /\ UNCHANGED counts
      BY <3>1, GotoType DEF TypeOK, Phases
    <3>2. CASE Fail
      BY <3>2, FailType
    <3> QED BY <1>1, <3>1, <3>2 DEF StartBroker
  <2>2. online' \in BOOLEAN
    BY <1>1 DEF StartBroker, TypeOK
  <2> QED BY <1>1, <2>1, <2>2 DEF StartBroker, TypeOK, EndsOK
<1>2. CASE StartNext
  <2>1. CASE rest = {} /\ Done /\ UNCHANGED cmd
    BY <1>2, <2>1, QuitType DEF StartNext, TypeOK, EndsOK
  <2>2. ASSUME NEW n \in rest, Goto(First(n, "run")), cmd' = [cmd EXCEPT !.name = n]
        PROVE  TypeOK'
    <3>1. n \in Names
      BY <1>2, <2>2 DEF StartNext, CommandOK, Listed
    <3>2. First(n, "run") \in Phases
      BY FirstType DEF Phases
    <3>3. cmd' \in Commands
      BY <2>2, <3>1 DEF TypeOK, Commands
    <3> QED BY <1>2, <2>2, <3>2, <3>3 DEF StartNext, TypeOK
  <2> QED BY <1>2, <2>1, <2>2 DEF StartNext
<1>3. CASE StopDone
  BY <1>3, QuitType DEF StopDone, TypeOK, EndsOK
<1>4. ASSUME NEW c \in Names \cup {Broker}, StopNext(c) PROVE TypeOK'
  <2>1. EndsOK' /\ commands' \in Nat /\ faults' \in Nat /\ kills' \in Nat
    <3>1. CASE UNCHANGED <<phase, ends, counts>>
      BY <3>1 DEF TypeOK, EndsOK
    <3>2. CASE Warn("stop")
      BY <3>2, WarnType DEF Phases
    <3> QED BY <1>4, <3>1, <3>2 DEF StopNext
  <2>2. online' \in BOOLEAN /\ docker' \in [Names -> Containers \cup {None}]
    BY <1>4 DEF StopNext, TypeOK
  <2>3. rest' \subseteq Names \cup {Broker}
    BY <1>4 DEF StopNext, TypeOK
  <2> QED BY <1>4, <2>1, <2>2, <2>3 DEF StopNext, TypeOK, EndsOK
<1> QED BY <1>1, <1>2, <1>3, <1>4

LEMMA DeleteType ==
    ASSUME TypeOK, CommandOK,
           \/ Finalize(cmd.name) \/ RemoveContainer(cmd.name) \/ RemoveObject(cmd.name)
           \/ CleanupTriggers(cmd.name) \/ UnlistTrigger(cmd.name) \/ CleanupSecrets(cmd.name)
    PROVE  TypeOK'
<1>1. CASE Finalize(cmd.name)
  <2>1. EndsOK' /\ commands' \in Nat /\ faults' \in Nat /\ kills' \in Nat
    <3>1. CASE phase' = "remove" /\ clean' = (clean /\ ~Refused(cmd.name)) /\ UNCHANGED <<outcome, failed, counts>>
      <4>1. (clean /\ ~Refused(cmd.name)) \in BOOLEAN
        BY Zenon
      <4> QED BY <3>1, <4>1 DEF TypeOK, EndsOK, Phases
    <3>2. CASE Goto("finalize") /\ UNCHANGED counts
      BY <3>2, GotoType DEF TypeOK, Phases
    <3>3. CASE Warn("remove")
      BY <3>3, WarnType DEF Phases
    <3> QED BY <1>1, <3>1, <3>2, <3>3 DEF Finalize
  <2>2. remote' \subseteq Resources /\ step' \in Nat
    BY <1>1 DEF Finalize, TypeOK
  <2> QED BY <1>1, <2>1, <2>2 DEF Finalize, TypeOK, EndsOK
<1>2. CASE RemoveContainer(cmd.name)
  <2>1. EndsOK' /\ commands' \in Nat /\ faults' \in Nat /\ kills' \in Nat
    <3>1. CASE Goto("forget") /\ UNCHANGED counts
      BY <3>1, GotoType DEF TypeOK, Phases
    <3>2. CASE Warn("forget")
      BY <3>2, WarnType DEF Phases
    <3> QED BY <1>2, <3>1, <3>2 DEF RemoveContainer
  <2>2. docker' \in [Names -> Containers \cup {None}]
    BY <1>2 DEF RemoveContainer, TypeOK
  <2> QED BY <1>2, <2>1, <2>2 DEF RemoveContainer, TypeOK, EndsOK
<1>3. CASE RemoveObject(cmd.name)
  <2>1. objects' \in [Names -> Stored \cup {None}]
    BY <1>3 DEF RemoveObject, TypeOK
  <2> QED BY <1>3, <2>1 DEF RemoveObject, TypeOK, Phases
<1>4. CASE CleanupTriggers(cmd.name)
  BY <1>4 DEF CleanupTriggers, TypeOK, Phases
<1>5. CASE UnlistTrigger(cmd.name)
  BY <1>5 DEF UnlistTrigger, TypeOK, Phases
<1>6. CASE CleanupSecrets(cmd.name)
  <2>1. secrets' \in [Holders -> Tokens \cup {None}]
    BY <1>6 DEF CleanupSecrets, TypeOK
  <2>2. EndsOK'
    BY <1>6, QuitType DEF CleanupSecrets
  <2> QED BY <1>6, <2>1, <2>2 DEF CleanupSecrets, TypeOK, EndsOK
<1> QED BY <1>1, <1>2, <1>3, <1>4, <1>5, <1>6

LEMMA ImportType ==
    ASSUME TypeOK, CommandOK, ImportConfig \/ ImportManifest
    PROVE  TypeOK'
<1>1. phase \in {"import", "write"} /\ file \in Manifests
  BY DEF CommandOK, TypeOK, ImportConfig, ImportManifest
<1>2. CASE ImportConfig
  <2> DEFINE whole == {t \in file.triggers : file.objects[t] # None}
  <2>1. conf' \subseteq Targets
    BY <1>1, <1>2 DEF ImportConfig, TypeOK, Manifests
  <2>2. EndsOK'
    <3>1. CASE Goto("write")
      BY <3>1, GotoType DEF Phases
    <3>2. CASE Quit("panic")
      BY <3>2, QuitType
    <3> QED BY <1>2, <3>1, <3>2 DEF ImportConfig
  <2> QED BY <1>2, <2>1, <2>2 DEF ImportConfig, TypeOK, EndsOK
<1>3. CASE ImportManifest
  <2>1. \A n \in Names : file.objects[n] # None => Imported(kind[n], file.objects[n]) \in Stored
    <3>1. \A n \in Names : file.objects[n] # None => file.objects[n] \in Stored
      BY <1>1 DEF Manifests
    <3>2. \A o \in Stored : [o EXCEPT !.events = FALSE] \in Stored
      BY DEF Stored
    <3> QED BY <3>1, <3>2 DEF Imported
  <2>2. objects' \in [Names -> Stored \cup {None}]
    BY <1>3, <2>1 DEF ImportManifest
  <2> DEFINE asked == {h \in Holders : file.secrets[h] = Redacted}
  <2>3. secrets' \in [Holders -> Tokens \cup {None}]
    <3>1. PICK answer \in [asked -> Tokens] :
            secrets' = [h \in Holders |-> IF h \in asked THEN answer[h] ELSE file.secrets[h]]
      BY <1>3 DEF ImportManifest
    <3>2. \A h \in Holders : h \notin asked => file.secrets[h] \in Tokens \cup {None}
      BY <1>1 DEF Manifests
    <3> QED BY <3>1, <3>2
  <2>4. triggers' \subseteq Targets
    BY <1>1, <1>3 DEF ImportManifest, Manifests
  <2>5. dropped' \subseteq Names
    BY <1>3 DEF ImportManifest, TypeOK, Listed
  <2>6. EndsOK'
    BY <1>3, QuitType DEF ImportManifest
  <2> QED BY <1>3, <2>2, <2>3, <2>4, <2>5, <2>6 DEF ImportManifest, TypeOK, EndsOK
<1> QED BY <1>2, <1>3

LEMMA StopType ==
    ASSUME TypeOK, Exit \/ Kill
    PROVE  TypeOK'
<1>1. CASE Exit
  BY <1>1, ValuesDiffer DEF Exit, Forget, TypeOK, Phases
<1>2. CASE Kill
  <2>1. failed' \in BOOLEAN /\ clean' \in BOOLEAN /\ changed' \in BOOLEAN /\ online' \in BOOLEAN
    BY <1>2 DEF Kill, Forget, TypeOK
  <2>2. phase' \in Phases /\ cmd' \in Commands /\ outcome' \in {"ok", "error", "panic"}
    BY <1>2, ValuesDiffer DEF Kill, Forget, Phases
  <2>3. commands' \in Nat /\ faults' \in Nat /\ kills' \in Nat
    BY <1>2 DEF Kill, TypeOK
  <2> QED BY <1>2, <2>1, <2>2, <2>3 DEF Kill, Forget, TypeOK
<1> QED BY <1>1, <1>2

LEMMA NextType ==
    ASSUME TypeOK, CommandOK, [Next]_vars
    PROVE  TypeOK'
<1>1. CASE UNCHANGED vars
  BY <1>1 DEF TypeOK, vars
<1> QED BY <1>1, InvocationType, CreateType, LoopType, DeleteType, ImportType, StopType
        DEF Next, Steps
-----------------------------------------------------------------------------
(* What commands carry.                                                      *)
LEMMA FirstGoes ==
    ASSUME NEW n, NEW ph
    PROVE  (First(n, ph) = "ensure" /\ n \in Sources) \/ First(n, ph) = ph
BY DEF First

LEMMA InvocationCarries ==
    ASSUME TypeOK, CommandOK, Invocations
    PROVE  CommandOK'
<1>1. ASSUME NEW n \in Names, NEW s \in Scopes \cup {Invalid}, NEW v \in Tokens \cup {None},
             NEW route \in BOOLEAN, Create(n, s, v, route)
      PROVE  CommandOK'
  <2>1. [scope |-> s, token |-> v, events |-> TRUE] \in Given
    BY DEF Given
  <2>2. phase' \in {"secret", "ensure", "object"} /\ (phase' = "ensure" => n \in Sources)
    BY <1>1, FirstGoes DEF Create, Begin
  <2>3. /\ cmd'.op = "create" /\ cmd'.name = n /\ cmd'.route = route
        /\ cmd'.spec = [scope |-> s, token |-> v, events |-> TRUE]
    BY <1>1 DEF Create, Begin, NoCommand
  <2>4. route => n \in Targets
    BY <1>1 DEF Create, Names
  <2>5. v # None => HasSecrets(kind[n])
    BY <1>1 DEF Create
  <2>6. kind' = kind
    BY <1>1 DEF Create, Begin
  <2> QED BY <2>1, <2>2, <2>3, <2>4, <2>5, <2>6 DEF CommandOK, DeletePhases
<1>2. ASSUME NEW again \in BOOLEAN, Start(again) PROVE CommandOK'
  BY <1>2 DEF Start, Begin, NoCommand, CommandOK, DeletePhases, Listed
<1>3. CASE Stop
  BY <1>3 DEF Stop, Begin, NoCommand, CommandOK, DeletePhases
<1>4. ASSUME NEW n \in Names, Delete(n) PROVE CommandOK'
  <2>1. objects[n] \in Stored
    BY <1>4 DEF Delete, Listed, TypeOK
  <2>2. cmd'.op = "delete" /\ cmd'.name = n /\ cmd'.spec = objects[n]
    BY <1>4 DEF Delete, Begin, NoCommand
  <2>3. phase' \in {"finalize", "remove"} /\ (phase' = "finalize" => n \in Sources) /\ kind' = kind
    BY <1>4 DEF Delete, Begin
  <2> QED BY <2>1, <2>2, <2>3 DEF CommandOK, DeletePhases
<1>5. ASSUME NEW noSecrets \in BOOLEAN, Dump(noSecrets) PROVE CommandOK'
  BY <1>5 DEF Dump, NoCommand, CommandOK, DeletePhases
<1>6. CASE Import
  BY <1>6 DEF Import, Begin, NoCommand, CommandOK, DeletePhases
<1> QED BY <1>1, <1>2, <1>3, <1>4, <1>5, <1>6 DEF Invocations

LEMMA CreateCarries ==
    ASSUME TypeOK, CommandOK,
           \/ AddSecret \/ Ensure(cmd.name) \/ AddObject(cmd.name) \/ Run(cmd.name)
           \/ Route(cmd.name) \/ ListTrigger(cmd.name)
    PROVE  CommandOK'
<1>1. CASE AddSecret
  <2>1. phase' \in {"ensure", "object"} /\ (phase' = "ensure" => cmd.name \in Sources)
    BY <1>1, FirstGoes DEF AddSecret
  <2> QED BY <1>1, <2>1 DEF AddSecret, CommandOK, DeletePhases
<1>2. CASE Ensure(cmd.name)
  <2>1. \/ phase' \in {"ensure", "done"}
        \/ phase' = "object" /\ cmd.op = "create"
        \/ phase' = "run"
    BY <1>2 DEF Ensure, Fail
  <2>2. UNCHANGED <<kind, objects, file, cmd, rest>> /\ phase = "ensure"
    BY <1>2 DEF Ensure
  <2> QED BY <2>1, <2>2 DEF CommandOK, DeletePhases, Listed
<1>3. CASE AddObject(cmd.name)
  <2>1. phase' \in {"run", "done"}
    BY <1>3 DEF AddObject
  <2> QED BY <1>3, <2>1 DEF AddObject, CommandOK, DeletePhases
<1>4. CASE Run(cmd.name)
  <2>1. \/ phase' = "next" /\ cmd.op = "start"
        \/ phase' = "route" /\ cmd.route /\ cmd.op = "create"
        \/ phase' = "done"
    BY <1>4 DEF Run, Fail, CommandOK
  <2>2. rest' \subseteq rest /\ UNCHANGED <<kind, objects, file, cmd>> /\ phase = "run"
    BY <1>4 DEF Run
  <2> QED BY <2>1, <2>2 DEF CommandOK, DeletePhases, Listed
<1>5. CASE Route(cmd.name)
  BY <1>5 DEF Route, CommandOK, DeletePhases
<1>6. CASE ListTrigger(cmd.name)
  BY <1>6 DEF ListTrigger, CommandOK, DeletePhases
<1> QED BY <1>1, <1>2, <1>3, <1>4, <1>5, <1>6

LEMMA LoopCarries ==
    ASSUME TypeOK, CommandOK, StartBroker \/ StartNext \/ StopDone \/ \E c \in Names \cup {Broker} : StopNext(c)
    PROVE  CommandOK'
<1>1. CASE StartBroker
  BY <1>1 DEF StartBroker, Fail, CommandOK, DeletePhases, Listed
<1>2. CASE StartNext
  <2>1. CASE rest = {} /\ Done /\ UNCHANGED cmd
    BY <1>2, <2>1 DEF StartNext, CommandOK, DeletePhases, Listed
  <2>2. ASSUME NEW n \in rest, Goto(First(n, "run")), cmd' = [cmd EXCEPT !.name = n]
        PROVE  CommandOK'
    <3>1. cmd'.op = "start" /\ cmd'.name = n
      BY <1>2, <2>2 DEF StartNext, CommandOK, TypeOK, Commands
    <3>2. phase' \in {"ensure", "run"} /\ (phase' = "ensure" => n \in Sources)
      BY <2>2, FirstGoes
    <3> QED BY <1>2, <2>2, <3>1, <3>2 DEF StartNext, CommandOK, DeletePhases, Listed
  <2> QED BY <1>2, <2>1, <2>2 DEF StartNext
<1>3. CASE StopDone
  BY <1>3 DEF StopDone, CommandOK, DeletePhases, Listed
<1>4. ASSUME NEW c \in Names \cup {Broker}, StopNext(c) PROVE CommandOK'
  <2>1. phase' = "stop" /\ phase = "stop" /\ UNCHANGED <<kind, objects, file, cmd>> /\ rest' \subseteq rest
    BY <1>4 DEF StopNext, Warn
  <2> QED BY <2>1 DEF CommandOK, DeletePhases, Listed
<1> QED BY <1>1, <1>2, <1>3, <1>4

LEMMA DeleteCarries ==
    ASSUME TypeOK, CommandOK,
           \/ Finalize(cmd.name) \/ RemoveContainer(cmd.name) \/ RemoveObject(cmd.name)
           \/ CleanupTriggers(cmd.name) \/ UnlistTrigger(cmd.name) \/ CleanupSecrets(cmd.name)
    PROVE  CommandOK'
<1>1. phase \in DeletePhases /\ UNCHANGED <<kind, file, cmd>>
  BY DEF Finalize, RemoveContainer, RemoveObject, CleanupTriggers, UnlistTrigger, CleanupSecrets,
         DeletePhases
<1>2. phase' \in (DeletePhases \cup {"done"}) /\ (phase' = "finalize" => phase = "finalize")
  BY DEF Finalize, RemoveContainer, RemoveObject, CleanupTriggers, UnlistTrigger, CleanupSecrets,
         DeletePhases, Warn
<1> QED BY <1>1, <1>2 DEF CommandOK, DeletePhases

LEMMA ImportCarries ==
    ASSUME TypeOK, CommandOK, ImportConfig \/ ImportManifest
    PROVE  CommandOK'
<1>1. /\ phase \in {"import", "write"} /\ phase' \in {"write", "done"}
      /\ UNCHANGED <<kind, file, cmd, rest>>
  BY DEF ImportConfig, ImportManifest
<1>2. cmd.op \notin {"create", "start", "delete"}
  BY <1>1 DEF CommandOK
<1> QED BY <1>1, <1>2 DEF CommandOK, DeletePhases

LEMMA StopCarries ==
    ASSUME CommandOK, Exit \/ Kill
    PROVE  CommandOK'
BY DEF Exit, Kill, Forget, CommandOK, DeletePhases, NoCommand

LEMMA NextCarries ==
    ASSUME TypeOK, CommandOK, [Next]_vars
    PROVE  CommandOK'
<1>1. CASE UNCHANGED vars
  BY <1>1 DEF CommandOK, vars, Listed
<1> QED BY <1>1, InvocationCarries, CreateCarries, LoopCarries, DeleteCarries, ImportCarries,
           StopCarries DEF Next, Steps
-----------------------------------------------------------------------------
(* References and Secrets.                                                   *)
Stores == UNCHANGED <<kind, objects, secrets, file>>

LEMMA KeptStays ==
    ASSUME SecretsOK, Stores
    PROVE  /\ Kept(objects, secrets, Tokens)'
           /\ (file # None => Kept(file.objects, file.secrets, Tokens \cup {Redacted}))'
BY DEF SecretsOK, Stores, Kept

LEMMA InvocationKeeps ==
    ASSUME TypeOK, SecretsOK, Invocations
    PROVE  SecretsOK'
<1>1. ASSUME NEW n \in Names, NEW s \in Scopes \cup {Invalid}, NEW v \in Tokens \cup {None},
             NEW route \in BOOLEAN, Create(n, s, v, route)
      PROVE  SecretsOK'
  <2>1. IF v # None THEN phase' = "secret" ELSE phase' \in {"ensure", "object"}
    BY <1>1 DEF Create, Begin, First
  <2>2. cmd'.op = "create" /\ cmd'.spec.token = v
    BY <1>1 DEF Create, Begin, NoCommand
  <2>3. Stores
    BY <1>1 DEF Create, Begin, Stores, store, world
  <2> QED BY <2>1, <2>2, <2>3, KeptStays DEF SecretsOK
<1>2. ASSUME NEW again \in BOOLEAN, Start(again) PROVE SecretsOK'
  BY <1>2, KeptStays DEF Start, Begin, NoCommand, SecretsOK, Stores
<1>3. CASE Stop
  BY <1>3, KeptStays DEF Stop, Begin, NoCommand, SecretsOK, Stores
<1>4. ASSUME NEW n \in Names, Delete(n) PROVE SecretsOK'
  <2>1. phase' \in {"finalize", "remove"} /\ Stores
    BY <1>4 DEF Delete, Begin, Stores
  <2> QED BY <2>1, KeptStays DEF SecretsOK
<1>5. ASSUME NEW noSecrets \in BOOLEAN, Dump(noSecrets) PROVE SecretsOK'
  <2>1. /\ file'.objects = objects
        /\ file'.secrets = [h \in Holders |-> IF noSecrets /\ secrets[h] # None THEN Redacted ELSE secrets[h]]
        /\ UNCHANGED <<kind, objects, secrets, phase, cmd>> /\ phase = "idle"
    BY <1>5 DEF Dump
  <2>2. Kept(objects, secrets, Tokens)'
    BY <2>1 DEF SecretsOK, Kept
  <2>3. Kept(file.objects, file.secrets, Tokens \cup {Redacted})'
    BY <2>1, ValuesDiffer DEF SecretsOK, Kept
  <2> QED BY <2>1, <2>2, <2>3 DEF SecretsOK
<1>6. CASE Import
  BY <1>6, KeptStays DEF Import, Begin, NoCommand, SecretsOK, Stores
<1> QED BY <1>1, <1>2, <1>3, <1>4, <1>5, <1>6 DEF Invocations

LEMMA CreateKeeps ==
    ASSUME TypeOK, CommandOK, SecretsOK,
           \/ AddSecret \/ Ensure(cmd.name) \/ AddObject(cmd.name) \/ Run(cmd.name)
           \/ Route(cmd.name) \/ ListTrigger(cmd.name)
    PROVE  SecretsOK'
<1>1. CASE AddSecret
  <2>1. cmd.name \in Names /\ cmd.spec.token \in Tokens
    BY <1>1 DEF AddSecret, CommandOK, SecretsOK, Given
  <2>2. Lower[cmd.name] \in Holders
    BY <2>1 DEF Holders
  <2>3. secrets' = [secrets EXCEPT ![Lower[cmd.name]] = cmd.spec.token] /\ UNCHANGED <<kind, objects, file, cmd>>
        /\ phase' \in {"ensure", "object"}
    BY <1>1 DEF AddSecret, First
  <2>4. Kept(objects, secrets, Tokens)'
    BY <2>1, <2>3, ValuesDiffer DEF SecretsOK, Kept, TypeOK
  <2>5. (file # None => Kept(file.objects, file.secrets, Tokens \cup {Redacted}))'
    BY <2>3 DEF SecretsOK, Kept
  <2>6. secrets'[Lower[cmd.name]] = cmd.spec.token
    BY <2>2, <2>3 DEF TypeOK
  <2> QED BY <2>3, <2>4, <2>5, <2>6 DEF SecretsOK
<1>2. CASE Ensure(cmd.name)
  <2>1. Stores /\ cmd' = cmd /\ phase = "ensure"
    BY <1>2 DEF Ensure, Stores
  <2>2. phase' \in {"ensure", "object", "run", "done"}
    BY <1>2 DEF Ensure, Fail
  <2>3. secrets' = secrets
    BY <2>1 DEF Stores
  <2> QED BY <2>1, <2>2, <2>3, KeptStays DEF SecretsOK
<1>3. CASE AddObject(cmd.name)
  <2>1. CASE cmd.spec.scope = Invalid
    BY <1>3, <2>1, KeptStays DEF AddObject, SecretsOK, Stores
  <2>2. CASE cmd.spec.scope # Invalid
    <3>1. objects' = [objects EXCEPT ![cmd.name] = Extracted(cmd.spec)] /\ phase' = "run"
          /\ UNCHANGED <<kind, secrets, file, cmd>>
      BY <1>3, <2>2 DEF AddObject
    <3>2. cmd.op = "create" /\ cmd.name \in Names /\ cmd.spec \in Given
      BY <1>3 DEF AddObject, CommandOK
    <3>3. ASSUME Lower[cmd.name] = cmd.name, Extracted(cmd.spec).token = Ref
          PROVE  HasSecrets(kind[cmd.name]) /\ secrets[cmd.name] \in Tokens
      <4>1. cmd.spec.token \in Tokens
        BY <3>2, <3>3, ValuesDiffer DEF Extracted, Given
      <4>2. cmd.spec.token # None
        BY <4>1, ValuesDiffer
      <4> QED BY <1>3, <3>2, <3>3, <4>1, <4>2 DEF AddObject, CommandOK, SecretsOK
    <3>4. Kept(objects, secrets, Tokens)'
      BY <3>1, <3>2, <3>3 DEF SecretsOK, Kept, TypeOK
    <3>5. (file # None => Kept(file.objects, file.secrets, Tokens \cup {Redacted}))'
      BY <3>1 DEF SecretsOK, Kept
    <3> QED BY <3>1, <3>4, <3>5 DEF SecretsOK
  <2> QED BY <2>1, <2>2
<1>4. CASE Run(cmd.name)
  <2>1. Stores /\ phase' \in {"next", "route", "done"}
    BY <1>4 DEF Run, Stores, Fail
  <2> QED BY <2>1, KeptStays DEF SecretsOK
<1>5. CASE Route(cmd.name)
  BY <1>5, KeptStays DEF Route, SecretsOK, Stores
<1>6. CASE ListTrigger(cmd.name)
  BY <1>6, KeptStays DEF ListTrigger, SecretsOK, Stores
<1> QED BY <1>1, <1>2, <1>3, <1>4, <1>5, <1>6

LEMMA LoopKeeps ==
    ASSUME CommandOK, SecretsOK, StartBroker \/ StartNext \/ StopDone \/ \E c \in Names \cup {Broker} : StopNext(c)
    PROVE  SecretsOK'
<1>1. CASE StartBroker
  BY <1>1, KeptStays DEF StartBroker, Fail, SecretsOK, Stores
<1>2. CASE StartNext
  <2>1. CASE rest = {} /\ Done /\ UNCHANGED cmd
    BY <1>2, <2>1, KeptStays DEF StartNext, SecretsOK, Stores
  <2>2. ASSUME NEW n \in rest, Goto(First(n, "run")), cmd' = [cmd EXCEPT !.name = n]
        PROVE  SecretsOK'
    <3>1. Stores /\ phase' \in {"ensure", "run"}
      BY <1>2, <2>2, FirstGoes DEF StartNext, Stores
    <3>2. cmd.op = "start" /\ cmd'.op = cmd.op
      BY <1>2, <2>2 DEF StartNext, CommandOK
    <3> QED BY <3>1, <3>2, KeptStays DEF SecretsOK
  <2> QED BY <1>2, <2>1, <2>2 DEF StartNext
<1>3. CASE StopDone
  BY <1>3, KeptStays DEF StopDone, SecretsOK, Stores
<1>4. ASSUME NEW c \in Names \cup {Broker}, StopNext(c) PROVE SecretsOK'
  <2>1. Stores /\ phase' = "stop"
    BY <1>4 DEF StopNext, Warn, Stores
  <2> QED BY <2>1, KeptStays DEF SecretsOK
<1> QED BY <1>1, <1>2, <1>3, <1>4

LEMMA DeleteKeeps ==
    ASSUME TypeOK, CommandOK, SecretsOK,
           \/ Finalize(cmd.name) \/ RemoveContainer(cmd.name) \/ RemoveObject(cmd.name)
           \/ CleanupTriggers(cmd.name) \/ UnlistTrigger(cmd.name) \/ CleanupSecrets(cmd.name)
    PROVE  SecretsOK'
<1>1. CASE Finalize(cmd.name) \/ RemoveContainer(cmd.name)
  <2>1. Stores /\ phase' \in {"finalize", "remove", "forget"}
    BY <1>1 DEF Finalize, RemoveContainer, Warn, Stores
  <2> QED BY <2>1, KeptStays DEF SecretsOK
<1>2. CASE RemoveObject(cmd.name)
  <2>1. objects' = [objects EXCEPT ![cmd.name] = None] /\ phase' = "triggers"
        /\ UNCHANGED <<kind, secrets, file, cmd>> /\ cmd.name \in Names
    BY <1>2 DEF RemoveObject, CommandOK, DeletePhases
  <2>2. Kept(objects, secrets, Tokens)' /\ objects'[cmd.name] = None
    BY <2>1 DEF SecretsOK, Kept, TypeOK
  <2>3. (file # None => Kept(file.objects, file.secrets, Tokens \cup {Redacted}))'
    BY <2>1 DEF SecretsOK, Kept
  <2> QED BY <2>1, <2>2, <2>3 DEF SecretsOK
<1>3. CASE CleanupTriggers(cmd.name) \/ UnlistTrigger(cmd.name)
  <2>1. Stores /\ cmd' = cmd /\ phase \in {"triggers", "unlist"} /\ phase' \in {"unlist", "secrets"}
    BY <1>3 DEF CleanupTriggers, UnlistTrigger, Stores
  <2>2. objects' = objects
    BY <2>1 DEF Stores
  <2> QED BY <2>1, <2>2, KeptStays DEF SecretsOK
<1>4. CASE CleanupSecrets(cmd.name)
  <2>1. /\ secrets' = [secrets EXCEPT ![cmd.name] = None] /\ objects[cmd.name] = None
        /\ UNCHANGED <<kind, objects, file>> /\ phase' = "done"
    BY <1>4 DEF CleanupSecrets, SecretsOK
  <2>2. Kept(objects, secrets, Tokens)'
    BY <2>1 DEF SecretsOK, Kept, TypeOK
  <2>3. (file # None => Kept(file.objects, file.secrets, Tokens \cup {Redacted}))'
    BY <2>1 DEF SecretsOK, Kept
  <2> QED BY <2>1, <2>2, <2>3 DEF SecretsOK
<1> QED BY <1>1, <1>2, <1>3, <1>4

LEMMA ImportKeeps ==
    ASSUME TypeOK, CommandOK, SecretsOK, ImportConfig \/ ImportManifest
    PROVE  SecretsOK'
<1>1. CASE ImportConfig
  <2>1. Stores /\ phase' \in {"write", "done"}
    BY <1>1 DEF ImportConfig, Stores
  <2> QED BY <2>1, KeptStays DEF SecretsOK
<1>2. CASE ImportManifest
  <2> DEFINE asked == {h \in Holders : file.secrets[h] = Redacted}
  <2>1. PICK answer \in [asked -> Tokens] :
          secrets' = [h \in Holders |-> IF h \in asked THEN answer[h] ELSE file.secrets[h]]
    BY <1>2 DEF ImportManifest
  <2>2. file \in Manifests /\ Kept(file.objects, file.secrets, Tokens \cup {Redacted})
    BY <1>2 DEF ImportManifest, CommandOK, SecretsOK, TypeOK
  <2>3. /\ objects' = [n \in Names |-> IF file.objects[n] = None THEN None
                                        ELSE Imported(kind[n], file.objects[n])]
        /\ UNCHANGED <<kind, file>> /\ phase' = "done"
    BY <1>2 DEF ImportManifest
  <2>4. ASSUME NEW n \in Names, objects'[n] # None, Lower[n] = n, objects'[n].token = Ref
        PROVE  HasSecrets(kind[n]) /\ secrets'[n] \in Tokens
    <3>1. file.objects[n] \in Stored /\ objects'[n] = Imported(kind[n], file.objects[n])
      BY <2>2, <2>3, <2>4 DEF Manifests
    <3>2. file.objects[n].token = Ref
      BY <2>4, <3>1 DEF Imported, Stored
    <3>3. file.objects[n] # None
      BY <2>3, <2>4
    <3>4. HasSecrets(kind[n]) /\ file.secrets[n] \in Tokens \cup {Redacted}
      BY <2>2, <2>4, <3>2, <3>3 DEF Kept
    <3>5. n \in Holders
      BY ValuesDiffer
    <3> QED BY <2>1, <3>4, <3>5
  <2>5. Kept(objects, secrets, Tokens)'
    BY <2>3, <2>4 DEF Kept
  <2>6. (file # None => Kept(file.objects, file.secrets, Tokens \cup {Redacted}))'
    BY <2>2, <2>3 DEF Kept
  <2> QED BY <2>3, <2>5, <2>6 DEF SecretsOK
<1> QED BY <1>1, <1>2

LEMMA StopKeeps ==
    ASSUME SecretsOK, Exit \/ Kill
    PROVE  SecretsOK'
<1>1. Stores /\ phase' = "idle"
  BY DEF Exit, Kill, Stores
<1> QED BY <1>1, KeptStays DEF SecretsOK

LEMMA NextKeeps ==
    ASSUME TypeOK, CommandOK, SecretsOK, [Next]_vars
    PROVE  SecretsOK'
<1>1. CASE UNCHANGED vars
  BY <1>1, KeptStays DEF SecretsOK, vars, Stores
<1> QED BY <1>1, InvocationKeeps, CreateKeeps, LoopKeeps, DeleteKeeps, ImportKeeps, StopKeeps
        DEF Next, Steps
-----------------------------------------------------------------------------
LEMMA InitInv == Init => IndInv
<1> SUFFICES ASSUME Init PROVE CommandOK /\ SecretsOK
  BY InitType DEF IndInv
<1>1. CommandOK
  BY DEF Init, CommandOK, NoCommand, DeletePhases
<1>2. SecretsOK
  BY DEF Init, SecretsOK, Kept, NoCommand
<1> QED BY <1>1, <1>2

(* Whatever is typed, fails or is killed: variables have their types, a command  *)
(* carries what its next step needs, and references have their Secrets.       *)
THEOREM Inductive == Spec => []IndInv
<1>1. IndInv /\ [Next]_vars => IndInv'
  BY NextType, NextCarries, NextKeeps DEF IndInv
<1> QED BY InitInv, <1>1, PTL DEF Spec

(* Every name's export finds the credentials that its spec refers to, at every   *)
(* moment of every command (create/source.go:123, delete/cmd.go:116-119).      *)
THEOREM ExportsHaveCredentials == Spec => []CredentialsKept
<1>1. ASSUME SecretsOK PROVE CredentialsKept
  <2> SUFFICES ASSUME NEW n \in Listed, NEW p \in Platforms, Lower[n] = n, objects[n].token = Ref
              PROVE  Export(p, n, kind[n], objects[n], secrets).token \in Tokens
    BY DEF CredentialsKept
  <2>1. HasSecrets(kind[n]) /\ secrets[n] \in Tokens
    BY <1>1 DEF SecretsOK, Kept, Listed
  <2>2. kind[n] # "Service" /\ kind[n] # "Transformation"
    BY <2>1 DEF HasSecrets
  <2>3. SecretsEnv(n, objects[n], secrets) \in Tokens
    BY <2>1 DEF SecretsEnv
  <2> QED BY <2>2, <2>3 DEF Export, SourceExport, TargetExport
<1>2. IndInv => CredentialsKept
  BY <1>1 DEF IndInv
<1> QED BY Inductive, <1>2, PTL
-----------------------------------------------------------------------------
(* Triggers, while no command is killed: each has its target, but the one that  *)
(* the running delete is about to take off the list, and is in broker.conf,     *)
(* where it is written first and removed first.                               *)
Listing ==
    /\ \A t \in triggers : objects[t] = None => phase \in {"triggers", "unlist"} /\ t = cmd.name
    /\ \A t \in triggers : t \notin conf => phase = "unlist" /\ t = cmd.name
    /\ cmd.op = "create" /\ phase \in {"run", "route", "list"} => objects[cmd.name] # None
    /\ phase = "list" => cmd.name \in conf

(* A dump is taken between commands; an import writes broker.conf first.       *)
Filing ==
    /\ file # None => \A t \in file.triggers : file.objects[t] # None
    /\ phase = "write" => file.triggers \subseteq conf

RoutesOK == kills = 0 => Listing /\ Filing

(* A step that writes none of these and leads to no phase they speak of.      *)
LEMMA RoutesStay ==
    ASSUME CommandOK, RoutesOK, UNCHANGED <<objects, triggers, conf, file>>, kills' = 0 => kills = 0,
           phase \notin {"triggers", "unlist"},
           phase' \notin {"run", "route", "list", "write"}
    PROVE  RoutesOK'
BY DEF RoutesOK, Listing, Filing

LEMMA InvocationRoutes ==
    ASSUME TypeOK, CommandOK, RoutesOK, Invocations
    PROVE  RoutesOK'
<1>0. phase = "idle" /\ kills' = kills
  BY DEF Invocations, Create, Start, Stop, Delete, Dump, Import, Begin
<1>1. ASSUME NEW noSecrets \in BOOLEAN, Dump(noSecrets) PROVE RoutesOK'
  <2>1. file'.objects = objects /\ file'.triggers = triggers /\ UNCHANGED <<objects, triggers, conf, phase, cmd>>
    BY <1>1 DEF Dump
  <2> QED BY <1>0, <2>1 DEF RoutesOK, Listing, Filing
<1>2. CASE ~\E noSecrets \in BOOLEAN : Dump(noSecrets)
  <2>1. UNCHANGED <<objects, triggers, conf, file>>
    BY <1>2 DEF Invocations, Create, Start, Stop, Delete, Import, Begin
  <2>2. phase' \notin {"run", "route", "list", "write"}
    BY <1>2 DEF Invocations, Create, Start, Stop, Delete, Import, Begin, First
  <2> QED BY <1>0, <2>1, <2>2, RoutesStay
<1> QED BY <1>1, <1>2

LEMMA CreateRoutes ==
    ASSUME TypeOK, CommandOK, RoutesOK,
           \/ AddSecret \/ Ensure(cmd.name) \/ AddObject(cmd.name) \/ Run(cmd.name)
           \/ Route(cmd.name) \/ ListTrigger(cmd.name)
    PROVE  RoutesOK'
<1>1. CASE AddSecret
  <2>1. phase' \in {"ensure", "object"}
    BY <1>1 DEF AddSecret, First
  <2> QED BY <1>1, <2>1, RoutesStay DEF AddSecret
<1>2. CASE Ensure(cmd.name)
  <2>1. UNCHANGED <<objects, triggers, conf, file, cmd>> /\ phase = "ensure" /\ kills' = kills
    BY <1>2 DEF Ensure, Fail, Fault
  <2>2. phase' \in {"ensure", "object", "done"} \/ (phase' = "run" /\ cmd.op # "create")
    BY <1>2 DEF Ensure, Fail
  <2> QED BY <2>1, <2>2 DEF RoutesOK, Listing, Filing
<1>3. CASE AddObject(cmd.name)
  <2>1. CASE cmd.spec.scope = Invalid
    <3>1. phase = "object" /\ phase' = "done"
      BY <1>3, <2>1 DEF AddObject
    <3> QED BY <1>3, <2>1, <3>1, RoutesStay DEF AddObject
  <2>2. CASE cmd.spec.scope # Invalid
    <3>1. objects' = [objects EXCEPT ![cmd.name] = Extracted(cmd.spec)] /\ phase = "object" /\ phase' = "run"
          /\ UNCHANGED <<triggers, conf, file, cmd, kills>>
      BY <1>3, <2>2 DEF AddObject
    <3>2. cmd.name \in Names /\ cmd.spec \in Given
      BY <1>3 DEF AddObject, CommandOK
    <3>3. Extracted(cmd.spec) # None
      BY <2>2, <3>2, ValuesDiffer DEF Extracted, Given, Stored
    <3>4. objects'[cmd.name] # None /\ \A t \in Names : objects'[t] = None => objects[t] = None
      BY <3>1, <3>2, <3>3 DEF TypeOK
    <3>5. triggers \subseteq Names
      BY DEF TypeOK, Names
    <3> QED BY <3>1, <3>4, <3>5 DEF RoutesOK, Listing, Filing
  <2> QED BY <2>1, <2>2
<1>4. CASE Run(cmd.name)
  <2>1. UNCHANGED <<objects, triggers, conf, file, cmd>> /\ phase = "run" /\ phase' \in {"next", "route", "done"}
        /\ kills' = kills
    BY <1>4 DEF Run, Fail, Fault
  <2> QED BY <2>1 DEF RoutesOK, Listing, Filing
<1>5. CASE Route(cmd.name)
  <2>1. phase = "route" /\ phase' = "list" /\ conf' = conf \cup {cmd.name}
        /\ UNCHANGED <<objects, triggers, file, cmd, kills>>
    BY <1>5 DEF Route
  <2> QED BY <2>1 DEF RoutesOK, Listing, Filing
<1>6. CASE ListTrigger(cmd.name)
  <2>1. phase = "list" /\ phase' = "done" /\ triggers' = triggers \cup {cmd.name}
        /\ UNCHANGED <<objects, conf, file, cmd, kills>>
    BY <1>6 DEF ListTrigger
  <2>2. cmd.op = "create"
    BY <2>1 DEF CommandOK
  <2> QED BY <2>1, <2>2 DEF RoutesOK, Listing, Filing
<1> QED BY <1>1, <1>2, <1>3, <1>4, <1>5, <1>6

LEMMA LoopRoutes ==
    ASSUME CommandOK, RoutesOK, StartBroker \/ StartNext \/ StopDone \/ \E c \in Names \cup {Broker} : StopNext(c)
    PROVE  RoutesOK'
<1>1. CASE StartBroker
  BY <1>1, RoutesStay DEF StartBroker, Fail, Fault
<1>2. CASE StartNext
  <2>1. CASE rest = {} /\ Done /\ UNCHANGED cmd
    BY <1>2, <2>1, RoutesStay DEF StartNext
  <2>2. ASSUME NEW n \in rest, Goto(First(n, "run")), cmd' = [cmd EXCEPT !.name = n]
        PROVE  RoutesOK'
    <3>1. UNCHANGED <<objects, triggers, conf, file, kills>> /\ phase = "next" /\ phase' \in {"ensure", "run"}
      BY <1>2, <2>2, FirstGoes DEF StartNext
    <3>2. cmd.op = "start" /\ cmd'.op = cmd.op
      BY <1>2, <2>2 DEF StartNext, CommandOK
    <3> QED BY <3>1, <3>2 DEF RoutesOK, Listing, Filing
  <2> QED BY <1>2, <2>1, <2>2 DEF StartNext
<1>3. CASE StopDone
  BY <1>3, RoutesStay DEF StopDone
<1>4. ASSUME NEW c \in Names \cup {Broker}, StopNext(c) PROVE RoutesOK'
  BY <1>4, RoutesStay DEF StopNext, Warn, Fault
<1> QED BY <1>1, <1>2, <1>3, <1>4

LEMMA DeleteRoutes ==
    ASSUME TypeOK, CommandOK, RoutesOK,
           \/ Finalize(cmd.name) \/ RemoveContainer(cmd.name) \/ RemoveObject(cmd.name)
           \/ CleanupTriggers(cmd.name) \/ UnlistTrigger(cmd.name) \/ CleanupSecrets(cmd.name)
    PROVE  RoutesOK'
<1>1. CASE Finalize(cmd.name) \/ RemoveContainer(cmd.name)
  <2>1. phase \in {"finalize", "remove"} /\ phase' \in {"finalize", "remove", "forget"} /\ kills' = kills
        /\ UNCHANGED <<objects, triggers, conf, file>>
    BY <1>1 DEF Finalize, RemoveContainer, Warn, Fault
  <2> QED BY <2>1, RoutesStay
<1>2. CASE RemoveObject(cmd.name)
  <2>1. objects' = [objects EXCEPT ![cmd.name] = None] /\ phase = "forget" /\ phase' = "triggers"
        /\ UNCHANGED <<triggers, conf, file, cmd, kills>>
    BY <1>2 DEF RemoveObject
  <2>2. \A t : t # cmd.name => objects'[t] = objects[t]
    BY <2>1 DEF TypeOK
  <2>3. cmd.op = "delete"
    BY <2>1 DEF CommandOK, DeletePhases
  <2> QED BY <2>1, <2>2, <2>3 DEF RoutesOK, Listing, Filing
<1>3. CASE CleanupTriggers(cmd.name)
  <2>1. /\ conf' = conf \ {cmd.name} /\ phase = "triggers"
        /\ phase' = IF cmd.name \in conf THEN "unlist" ELSE "secrets"
        /\ UNCHANGED <<objects, triggers, file, cmd, kills>>
    BY <1>3 DEF CleanupTriggers
  <2>2. cmd.op = "delete"
    BY <2>1 DEF CommandOK, DeletePhases
  <2> QED BY <2>1, <2>2 DEF RoutesOK, Listing, Filing
<1>4. CASE UnlistTrigger(cmd.name)
  <2>1. triggers' = triggers \ {cmd.name} /\ phase = "unlist" /\ phase' = "secrets"
        /\ UNCHANGED <<objects, conf, file, cmd, kills>>
    BY <1>4 DEF UnlistTrigger
  <2> QED BY <2>1 DEF RoutesOK, Listing, Filing
<1>5. CASE CleanupSecrets(cmd.name)
  BY <1>5, RoutesStay DEF CleanupSecrets
<1> QED BY <1>1, <1>2, <1>3, <1>4, <1>5

LEMMA ImportRoutes ==
    ASSUME TypeOK, CommandOK, RoutesOK, ImportConfig \/ ImportManifest
    PROVE  RoutesOK'
<1>0. file \in Manifests /\ file.triggers \subseteq Names
  BY DEF ImportConfig, ImportManifest, CommandOK, TypeOK, Manifests, Names
<1>1. CASE ImportConfig
  <2> DEFINE whole == {t \in file.triggers : file.objects[t] # None}
  <2>1. /\ phase = "import" /\ conf \subseteq conf' /\ phase' \in {"write", "done"}
        /\ UNCHANGED <<objects, triggers, file, cmd, kills>>
        /\ phase' = "write" => whole = file.triggers /\ conf' = conf \cup whole
    BY <1>1 DEF ImportConfig
  <2>2. phase' = "write" => file.triggers \subseteq conf'
    BY <2>1
  <2> QED BY <2>1, <2>2 DEF RoutesOK, Listing, Filing
<1>2. CASE ImportManifest
  <2>1. /\ objects' = [n \in Names |-> IF file.objects[n] = None THEN None
                                        ELSE Imported(kind[n], file.objects[n])]
        /\ triggers' = file.triggers /\ phase = "write" /\ phase' = "done"
        /\ UNCHANGED <<conf, file, kills>>
    BY <1>2 DEF ImportManifest
  <2>2. ASSUME NEW t \in Names, file.objects[t] # None
        PROVE  objects'[t] # None
    <3>1. file.objects[t] \in Stored
      BY <1>0, <2>2 DEF Manifests
    <3>2. Imported(kind[t], file.objects[t]) \in Stored
      BY <3>1 DEF Imported, Stored
    <3> QED BY <2>1, <2>2, <3>2, ValuesDiffer
  <2>3. kills = 0 => file # None
    BY <2>1 DEF CommandOK
  <2> QED BY <1>0, <2>1, <2>2, <2>3 DEF RoutesOK, Listing, Filing
<1> QED BY <1>1, <1>2

LEMMA StopRoutes ==
    ASSUME TypeOK, CommandOK, RoutesOK, Exit \/ Kill
    PROVE  RoutesOK'
<1>1. CASE Exit
  BY <1>1, RoutesStay DEF Exit
<1>2. CASE Kill
  <2>1. kills' # 0
    BY <1>2 DEF Kill, TypeOK
  <2> QED BY <2>1 DEF RoutesOK
<1> QED BY <1>1, <1>2

LEMMA NextRoutes ==
    ASSUME IndInv, RoutesOK, [Next]_vars
    PROVE  RoutesOK'
<1>1. CASE UNCHANGED vars
  BY <1>1 DEF RoutesOK, Listing, Filing, vars
<1> QED BY <1>1, InvocationRoutes, CreateRoutes, LoopRoutes, DeleteRoutes, ImportRoutes, StopRoutes
        DEF IndInv, Next, Steps

(* As long as no command is killed, every trigger that a dump taken between two  *)
(* commands writes for the broker leads to an address of the same dump, and is   *)
(* in broker.conf (create/target.go:161, delete/cmd.go:146-160, dump.go:259).   *)
THEOREM DumpsServe == Spec => []DumpServes
<1>1. Init => RoutesOK
  BY DEF Init, RoutesOK, Listing, Filing, NoCommand
<1>2. IndInv /\ RoutesOK /\ [Next]_vars => RoutesOK'
  BY NextRoutes
<1>3. IndInv /\ RoutesOK => DumpServes
  <2> SUFFICES ASSUME IndInv, RoutesOK, phase = "idle", kills = 0
              PROVE  /\ \A p \in Platforms : BrokerExport(p, triggers).config \subseteq Addresses(p, Listed, kind)
                     /\ triggers \subseteq conf
    BY DEF DumpServes
  <2>1. triggers \subseteq conf /\ triggers \subseteq Listed /\ triggers \subseteq Targets
    BY DEF RoutesOK, Listing, IndInv, TypeOK, Listed, Names
  <2>2. ASSUME NEW p \in Platforms
        PROVE  BrokerExport(p, triggers).config \subseteq Addresses(p, Listed, kind)
    BY <2>1 DEF BrokerExport, StaticBrokerConfig, Addresses
  <2> QED BY <2>1, <2>2
<1> QED BY Inductive, <1>1, <1>2, <1>3, PTL DEF Spec
=============================================================================

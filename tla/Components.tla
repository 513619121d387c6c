------------------------------ MODULE Components ------------------------------
(***************************************************************************)
(* What the kinds of components need and become: the resources a source has  *)
(* in its cloud, the secret taken out of a spec, the container, the entry of  *)
(* a dump for each platform, and what import makes of a spec.                *)
(***************************************************************************)
EXTENDS Naturals, Sequences

CONSTANTS
    Sources, Targets,  \* names; transformations and services are among them
    Broker,
    SourceKinds,       \* kinds of sources in use
    TargetKinds,       \* "Target", "Transformation", "Service"
    Scopes,            \* what a spec asks for (a bucket, a topic ...)
    Invalid,           \* a spec that the CRD does not allow
    Tokens,            \* the credentials given in a spec
    Ref,               \* a reference to them in a Secret
    Redacted,          \* the tag for a value that import asks for
    Lower,             \* strings.ToLower of a name
    None

Names   == Sources \cup Targets
Holders == Names \cup {Lower[n] : n \in Names}  \* what Secrets are named after
Specs == [scope: Scopes \cup {Invalid}, token: Tokens \cup {Ref, None}, events: BOOLEAN]

(* What InitializeAndGetStatus makes, in its order ...                       *)
AWSEnsures ==
    [AWSS3Source         |-> <<"queue", "notification">>,
     AWSEventBridgeSource |-> <<"queue", "rule", "policy", "target">>]

AzureEnsures ==
    [AzureEventGridSource       |-> <<"system topic", "event hub", "subscription">>,
     AzureServiceBusTopicSource |-> <<"subscription">>,
     AzureBlobStorageSource     |-> <<"event hub", "subscription">>]

GoogleCloudEnsures ==
    [GoogleCloudBillingSource            |-> <<"pubsub", "budget">>,
     GoogleCloudPubSubSource             |-> <<"subscription">>,
     GoogleCloudAuditLogsSource          |-> <<"pubsub", "sink">>,
     GoogleCloudStorageSource            |-> <<"pubsub", "notification">>,
     GoogleCloudSourceRepositoriesSource |-> <<"pubsub", "association">>]

(* ... and what Finalize removes.  A queue's policy goes with the queue.      *)
AWSRemoves ==
    [AWSS3Source         |-> <<{"queue"}, {"notification"}>>,
     AWSEventBridgeSource |-> <<{"rule", "target"}, {"queue", "policy"}>>]

AzureRemoves ==
    [AzureEventGridSource       |-> <<{"subscription"}, {"event hub"}, {"system topic"}>>,
     AzureServiceBusTopicSource |-> <<{"subscription"}>>,
     AzureBlobStorageSource     |-> <<{"event hub"}, {"subscription"}>>]

GoogleCloudRemoves ==
    [GoogleCloudBillingSource            |-> <<{"budget"}, {"pubsub"}>>,
     GoogleCloudPubSubSource             |-> <<{"subscription"}>>,
     GoogleCloudAuditLogsSource          |-> <<{"sink"}, {"pubsub"}>>,
     GoogleCloudStorageSource            |-> <<{"notification"}, {"pubsub"}>>,
     GoogleCloudSourceRepositoriesSource |-> <<{"association"}, {"pubsub"}>>]

(* Sources that do not run locally: Initialize and Finalize return an error.  *)
NotLocal == {"AzureActivityLogsSource", "ZendeskSource"}

(* The other kinds (a webhook, a service) have nothing outside.               *)
Kinds == DOMAIN AWSEnsures \cup DOMAIN AzureEnsures \cup DOMAIN GoogleCloudEnsures
         \cup NotLocal \cup {"WebhookSource", "Service"}

PerKind(aws, azure, google) ==
    [k \in Kinds |-> IF k \in DOMAIN aws THEN aws[k]
                     ELSE IF k \in DOMAIN azure THEN azure[k]
                     ELSE IF k \in DOMAIN google THEN google[k] ELSE <<>>]

Ensures == PerKind(AWSEnsures, AzureEnsures, GoogleCloudEnsures)
Removes == PerKind(AWSRemoves, AzureRemoves, GoogleCloudRemoves)

(* Components with secrets (triggermesh.Parent).                             *)
HasSecrets(k) == k \notin {"Service", "Transformation"}

(* A service's parameters are taken as they are.                              *)
HasSchema(k) == k # "Service"

(* Specs with a list of strings, such as eventTypes.  Numbers and booleans, which  *)
(* import loses too, are not told apart from them.                           *)
HasList(k) == k \in {"AWSS3Source", "AzureEventGridSource", "AzureBlobStorageSource",
                     "GoogleCloudStorageSource"}

What      == {"queue", "notification", "rule", "policy", "target", "system topic", "event hub",
              "subscription", "pubsub", "budget", "sink", "association"}
Resources == [source: Sources, what: What, scope: Scopes]

ASSUME NamesAssumption ==
    /\ Sources \cap Targets = {} /\ Broker \notin Names /\ DOMAIN Lower = Names
ASSUME ValuesAssumption ==
    /\ {Ref, Redacted, None} \cap Tokens = {} /\ Ref # None /\ Redacted # None
    /\ Invalid \notin Scopes /\ None \notin Specs
ASSUME KindsAssumption ==
    SourceKinds \subseteq Kinds /\ TargetKinds \subseteq {"Target", "Transformation", "Service"}
-----------------------------------------------------------------------------
(* ExtractSecrets: the credentials leave the spec, a reference stays.         *)
Extracted(spec) == IF spec.token \in Tokens THEN [spec EXCEPT !.token = Ref] ELSE spec

(* ProcessSecrets: credentials still in the spec; else, for a reference, those  *)
(* of the Secret named after the component.                                  *)
SecretsEnv(n, spec, secrets) ==
    IF spec.token = Ref THEN secrets[n] ELSE spec.token

(* The container.  K_SINK is the broker's local address, or the one in a       *)
(* cluster, that the manifest has for a service.                             *)
Containers == [scope: Scopes \cup {Invalid}, events: BOOLEAN, token: Tokens \cup {None},
               sink: {"local", "cluster", None}]

CreateSink(n) == IF n \in Sources THEN "local" ELSE None

StartSink(n, k) ==
    IF k = "Service" THEN (IF n \in Sources THEN "cluster" ELSE None)
    ELSE IF n \in Sources \/ k = "Transformation" THEN "local" ELSE None

ASSUME ContainersAssumption == None \notin Containers

Container(spec, token, sink) ==
    [scope |-> spec.scope, events |-> spec.events, token |-> token, sink |-> sink]

(* Import rewrites a spec: the strings in its lists are left out.             *)
Imported(k, spec) == IF HasList(k) THEN [spec EXCEPT !.events = FALSE] ELSE spec
-----------------------------------------------------------------------------
(* dump.  The platforms that get containers with an environment, and the name  *)
(* under which one finds another.  (The other two platforms, kubernetes and       *)
(* knative, print the manifest's objects.)                                   *)
Platforms == {"docker-compose", "kubernetes-generic", "digitalocean"}

Address(p, n) ==
    IF p = "digitalocean" THEN <<n, "PRIVATE_URL">> ELSE <<n, "8080">>

SourceExport(p, n, spec, secrets) ==
    [token |-> SecretsEnv(n, spec, secrets), sink |-> Address(p, Broker)]

TargetExport(n, spec, secrets) ==
    [token |-> SecretsEnv(n, spec, secrets), sink |-> None]

(* A transformation has no secrets, and a service gets neither its own           *)
(* parameters nor a K_SINK.                                                  *)
TransformationExport == [token |-> None, sink |-> None]
ServiceExport        == [token |-> None, sink |-> None]

Export(p, n, k, spec, secrets) ==
    CASE k = "Service"        -> ServiceExport
      [] k = "Transformation" -> TransformationExport
      [] OTHER -> IF n \in Sources THEN SourceExport(p, n, spec, secrets) ELSE TargetExport(n, spec, secrets)

(* The broker is exported with BROKER_CONFIG.                                *)
StaticBrokerConfig(p, triggers) == {Address(p, t) : t \in triggers}
BrokerExport(p, triggers)       == [config |-> StaticBrokerConfig(p, triggers)]

(* What can be addressed: DigitalOcean's workers, which the sources are, cannot. *)
Addresses(p, listed, kind) ==
    {Address(p, n) : n \in {Broker} \cup
        (IF p = "digitalocean" THEN {n \in listed : n \in Targets \/ kind[n] = "Service"} ELSE listed)}
=============================================================================

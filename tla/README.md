# Verification of tmctl

tmctl runs TriggerMesh components - a broker, sources, targets, transformations -
as Docker containers on one machine. It has no daemon: each command is a process
that reads a few files, talks to Docker, writes the files and ends. What users call
"the integration" exists in four places that the commands have to keep together:

| where | what | written by |
|---|---|---|
| `<config>/<broker>/manifest.yaml` | objects: broker, components, triggers, secrets | `manifest.Add`, `manifest.Remove` |
| `<config>/<broker>/broker.conf` | what the broker delivers: triggers with the URL of their target | `WriteLocalConfig`, `RemoveFromLocalConfig` |
| Docker | one container per component, on a host port chosen when it is created | `docker.Container.Start`, `Remove`, `ForceStop` |
| `<config>/config.yaml` | the current broker | `config.Save` |

Nothing is atomic across them. That is where this code is hard, and what the
modules here are about.

## Inventory

**Commands on components and triggers** (`cmd/create`, `cmd/delete`, `cmd/start`,
`cmd/stop`). State: the manifest, broker.conf, Docker. `create target|transformation|source`
puts an object into the manifest, starts its container (again when the object
changed), gives the triggers that point to it the new URL and makes triggers for
its event types. `create transformation --target` also puts the transformation in
front of the target. `delete` removes container, object and triggers. `start` and
`stop` loop over the manifest. Hard: a failure or a kill between two writes;
retries; ports that change with every container; loops over lists collected before
the changes they cause. Correct means: the files agree, no trigger lacks its target,
every trigger has the port its target listens on, containers run what the manifest
says, a command that succeeds has repaired what an earlier one broke.

**Broker and contexts** (`cmd/create/broker.go`, `cmd/delete/broker.go`, `cmd/brokers`,
`pkg/config`). State: the broker directories, the current broker. Hard: container
names are global to Docker, while manifests are per broker; the current broker may
be the one deleted. Correct means: a container can always be found through a
manifest, the current broker exists, commands for one broker leave the others alone.

**Watch and wiretap** (`cmd/watch`, `pkg/wiretap`). State: a trigger and a container
beside the broker's, four goroutines and one channel per process. Hard: signals,
log lines and the connectivity check race on the channel; two watchers use the same
names; `stop` and `delete broker` run meanwhile. Correct means: it can be ended, it
ends when its container is gone, it leaves nothing behind.

**CRD cache** (`pkg/triggermesh/crd`). State: one file per version, shared by all
processes, downloaded in place at the start of every command. Hard: two downloads at
once, one that breaks off. Correct means: what is returned is the release.

**The files as shared state** (`pkg/manifest`, `components/broker/config.go`). State:
`manifest.yaml`, read when a command starts and written as a whole from that copy;
`broker.conf`, read again for each change. Hard: no lock, no temporary file; a write
truncates first. Correct means: a file is a keyed store as long as commands do not
overlap, and is the old, the new or an empty one after a kill.

**External resources** (`adapter/reconciler`, used by `create source`, `start`,
`delete`). State: queues, subscriptions, topics, notifications in a cloud, made in up
to four calls for a source. Hard: any of the calls may fail or be the last one before
a kill; they come before the object is stored and their removal before it is removed.
Correct means: a command that returns no error has made, or removed, all of them.

**Secrets** (`components/secret`, `crd/secret.go`, `manifest.go`). State: Secret objects in
the manifest, beside components whose specs refer to them. Hard: two objects and several
commands have to agree on a name and an order. Correct means: a reference has its Secret
at every moment, since any export may happen then.

**Import and dump** (`pkg/load`, `cmd/import`, `cmd/dump`, and an export of each component
for Kubernetes, Knative, Docker Compose and Google Cloud Run). State: the dumped file. Hard:
an import replaces broker.conf and the manifest one after the other, and loses what the
rewriting of specs does not know. Correct means: a dump is closed - triggers lead to
something in it, components find their credentials - and what was imported starts.

**Transformation wizard** (`pkg/gui/transformation`). State: views, cursors and popups,
shared without a lock by the goroutine of the user interface, the processor and the
main goroutine; an unbuffered channel between them. Hard: any key in any state, popups
that stay behind, signals that are processed later than they are sent. Correct means: it
answers, it does not fail, an operation gets the path under the cursor, and what is
saved belongs to the pair that was shown.

**describe, logs, send-event, completion, version, config, log, the tables of the
adapters, the CRD schema.** They print, send one request, or translate without a state.
*Not modelled.*

The components interact only through the files, Docker and the clouds, and within a
process by calls; goroutines exist in `watch`, `logs` and the wizard.

`PROJECT.json` lists every component with its status, the hazards by line, and
for every definition the source lines it stands for.

## Modules

| module | what it models |
|---|---|
| `Integration` | one broker context: manifest, broker.conf, Docker and every command on them, step by step |
| `IntegrationProperties` | what these commands promise, and the inductive invariant |
| `IntegrationProofs` | its invariants, proved |
| `IntegrationOutcomes` | what a command has achieved when it returns, proved |
| `Contexts`, `ContextsProofs` | several brokers: directories, the current broker, container names across brokers |
| `Components` | what kinds of components need and become: resources, credentials, container, exports, what import makes of a spec |
| `Deployment` | commands on components with credentials and external resources, with dump and import |
| `DeploymentProofs`, `DeploymentOutcomes` | its invariants, and what create, start and delete have achieved, proved |
| `KeyedStore` | abstract: what a command may take a file for |
| `FilesParameters` | the constants that the three modules of files share |
| `LocalFiles` | processes that read, truncate and write manifest.yaml and broker.conf; refines `KeyedStore` twice |
| `CrdCache` | processes that download and parse crd.yaml |
| `Files`, `FilesProofs` | the composition: each process fetches the CRDs and then changes the files; the refinements of `LocalFiles` and the composition, proved |
| `Watch`, `WatchProofs` | watch processes with their goroutines, the wiretap trigger and container |
| `Transforms` | what the wizard computes: the operations in the view, the lists, the samples |
| `Wizard`, `WizardProofs` | its three goroutines, keys and popups, and its safety properties, proved |
| `MCIntegration`, `MCContexts`, `MCDeployment`, `MCFiles`, `MCWatch`, `MCWizard` | values for TLC |

Composition: `Files` = `LocalFiles` + `INSTANCE CrdCache`, both under the processes of one
machine; `Wizard` runs the operators of `Transforms`, `Deployment` those of `Components`.
`LocalFiles` implements two instances of `KeyedStore`.

`Integration`, `Contexts` and `Deployment` show the same commands at three levels.
`Integration` keeps triggers, specs, ports and filters of one broker; `Contexts` keeps which
broker owns which container and file; `Deployment` keeps credentials, external resources,
`--from-image` services and the dumped file, and has of a trigger only its target. In all
a command begins with an action named after it (`CreateTarget`, `Delete`, `Start` ...), which
fixes its arguments and takes over the early rejections as guards. It then walks through
its steps in the order of the code, one action per file write, Docker call or call to a
cloud; `phase` is the place in the code, and the process's local variables (`restart`,
`work`, `old`, `types`, `comps` in `Integration`; `ctx`, `left` in `Contexts`; `rest`, `step`,
`changed` in `Deployment`) live until it ends. These three take a write of a file as one
step and one command at a time; `LocalFiles` shows what becomes of that otherwise.

### Integration

* `objects`, `triggers`: `Manifest.Objects`; an object is its configuration (spec, secrets
  and the type it emits). The order of objects is left out: `start` takes the broker first
  and the rest in any order.
* `conf`: `Configuration.Triggers` of broker.conf. The wiretap trigger is in `Watch`.
* `docker`: per container whether it runs, its host port, the configuration it was
  started with, and the sink a source was given.
* `pend`: a trigger that is in broker.conf and not yet in the manifest. The code
  always writes them in this order, so `WriteManifest` is the second half of
  `createTrigger` and of each pair of removals.
* Filters: an event type, or none. A type in `Patterns` is one written with `*`
  (prefix or suffix), which the comparison of `transformation.go:257` never matches.
* Names: a generated name is `AutoName(target, filter)` as the digest is in the code;
  `--name` gives `UserName(n, i)`. `Prefixed` says which names start with `n-`; the numbered
  ones do. Names of components of different kinds are distinct, which the code does not
  check for all of them.
* `StartContainer`, `StartBroken`, `StartFails`: `Container.Start` whole, with an error or a kill
  at each of its calls.
* `UpdateDone`, `ShadowDone`, `TypesDone`, `LoopDone` end the loops.
* `AddObject` always restarts a source: the spec read back from YAML never equals the
  one just built (`manifest.go:87`).
* `--eventTypes` is a set; a type given twice is not modelled.

### Contexts

* `dirs`: per broker whether there is a manifest, whether there is a broker.conf, and
  the entries of the manifest. The broker's own entry is `Self`.
* Names of brokers are pairs `<<base, k>>` for `base` with `-broker` appended `k` times: this is
  all that the naming of containers looks at.
* `docker`: for each container name the broker it was started for.
* `Create(c, changed)` stands for creating or updating any component.

### Deployment and Components

* A spec is what it asks of a cloud (`scope`), its credential (`token`: a value, a reference
  to the Secret, or none) and whether its event types have survived an import.
* `AWSEnsures` and the tables beside it list the calls of `InitializeAndGetStatus` and
  `Finalize` for every kind that has them; `step` counts through them, and each may fail.
* `secrets` is by the name of the holder in lower case, as `components.go` writes it and
  `crd/secret.go` does not look for it: `Lower`.
* `changed` is what `manifest.Add` and the Secret's `Add` said. It may say so for an equal
  object: the Go types and labels that `DeepEqual` compares are not modelled.
* `Invalid` is a spec the CRD refuses; its Secret is stored by then.
* `file` is the last dump for Kubernetes, the only format `import` reads; `dump --no-secrets`
  makes its tokens `Redacted`, and `import` asks for them. `dropped` holds the names whose
  manifest entry an import changed, and only the properties read it.
* Ports, stopped containers and filters of triggers are left to `Integration`.

### Files

* `draft`, `objects`: the copy a process has; `write` and `confWrite` are the places between the
  truncation and the write. What is left when a shorter write follows a longer one never
  parses (`Garbage`).
* `overlap` and `confOverlap` record that processes have met; the refinement maps their
  negation to `calm`, under which `KeyedStore` is a store. In other states it allows
  whatever lost updates make of a file. So `ManifestIsStore` says: from whatever a process
  finds, as long as it is alone it changes one key at a time, reports a change it makes, and
  only a kill can empty the file.
* The file of the CRDs is the set of documents in it, a hole of zero bytes being a document
  that is missing before one that is present. Each process has its own offset. Which CRD
  `GetResourceCRD` picks is not modelled.

### Watch

* One process per element of `Watchers`. `pc` is the main goroutine; `chan` the channel of one
  place that signals, the log readers and the check use; `reader` and `checker` the other
  goroutines.
* `Container.Start` and `Cleanup` are modelled call by call, for two watchers use one container
  name: the look-up of the container that has the name (`found`, its id), its removal, the
  creation, the start, the connection. Each ends the watch early when the other watcher or `stop`
  was faster, when the broker's container is missing, or when the call fails (`Fails`); all
  early returns go to "cleanup", as the deferred calls do.
* `tap` and `trigger` name the watcher that wrote them last, `up` says whether the container runs. A
  watcher reaches its container only if it is the last to have created it: a new container has
  a new port.
* `missed` records that a `Cleanup` could not remove the container or never ran (a killed process);
  `CleansUp` and `TapIsFed` do not ask for anything afterwards.
* `there` is the broker's directory with broker.conf, `broker` its container. Either may be missing from
  the start; `stop`, `start` and `delete broker` come from other terminals at any time. A broker
  that is created again while it is watched is not modelled.
* At its end a process takes its goroutines and its channel with it (`Dies`), so they are reset.

### Wizard and Transforms

* `todo` holds the handlers that the last key still has to run: gocui collects all bindings
  of the key and the view first. `sending` blocks the interface until the processor (or
  main) takes the signal; `proc` is the processor.
* A sample is the sequence of its lines with their depth (`IsSample`: what `json.MarshalIndent`
  makes of an object, arrays and all); the processor rebuilds the key path in `nesting` from
  the lines it is sent. `Eaten` are keys made of the letters of `key: `, which `TrimLeft`
  (`keybindings.go:471`) removes.
* The key path of a line (`KeyPath`) has the keys around it. A line without a key - an element
  of an array, a bracket - belongs to the key before it, for the processor ignores it.
  `Regular` excludes arrays that mix objects with nested arrays of objects: there a key
  may be further out than the one before it and yet not around it, and the
  processor's path has one key too many.
* The lists (`Lines`) are "*", then each component with its event types. A cursor rests on
  components without types and on types, never on the header over types.
* A view may be lower than what is in it: `Height` lines are visible, `top` are scrolled off above,
  and `MoveCursors` sets both. The handlers count in visible lines. So the sample is
  left at its first visible line (`SourceEventCursorLeft`); a header is passed by `SetCursor`,
  which is an error for a line outside the visible part (`HiddenHeader`,
  `keybindings.go:256-260`, `276-280`, `296-300`, `316-320`); and the component of an event
  type is looked for in the visible lines above it except the first (`ComponentAt`,
  `gui.go:249`).
* The popup for a value can be edited (`keybindings.go:456`). A user who joins its two lines gets the
  error of `InputEnter` (`keybindings.go:467`).
* `Edits` are transformations that the user writes into their view by hand, `Junk` text
  there that is not YAML.
* `Press` has two bounds, in force when `Bounded`; the proofs hold without them.
* `history` records four kinds of use that the properties except: a popup was left by a
  global key (`left`), a key was pressed while the processor was busy (`hasty`), the
  cursor did not just walk down a sample (`strayed`), the two lines of the popup for a
  value were joined (`joined`).

## Runs

Properties that hold:

| run | instance | what it shows |
|---|---|---|
| `integration` | 1 target, 1 transformation, 2 types, at most 3 triggers, 4 ports | `TriggersAgree`, `TargetsExist`, `Delivers`, `TransformationTakesOver` over all sequences of commands while Docker works |
| `integration_faults` | 1 target, 1 source, 2 specs; 1 Docker failure, 1 kill, 1 exit | `IndInv`; `RuntimeMatchesManifest` while nothing fails; `StartServes`, `RestartApplies`, `CreateRepairs`: commands repair what earlier ones left |
| `integration_names` | 1 target, 1 user name, 2 types, 1 failure | `NamedTriggersExact`; `CommandEnds` under fairness |
| `contexts` | 2 brokers, a component in both; 1 failure, 1 kill, 1 wrong `--set` | `NoOrphans`, `CurrentBrokerExists`, `CreateCompletes`, `BrokersApart` |
| `deployment` | a source with external resources or a service, a target or transformation, 2 credentials, 2 scopes, 4 commands, 1 failure, 1 kill | `IndInv`; `CreateCompletes`, `RestartServes`, `DeleteCleans` when a command returns no error; `CredentialsKept` at every moment; `DumpServes` between commands |
| `files` | 2 processes, 2 keys, 2 triggers, 2 documents, 2 changes each, 1 fault | `ManifestIsStore`, `ConfigIsStore` (the refinement), `CacheWhole` |
| `watch` | 2 watchers; 1 mishap; `stop`, `start`, `delete broker` | `CleansUp`, `TapIsFed`, `PanicsLate` |
| `watch_live` | 2 watchers, one observed; the other replaces and removes its container | `EndsWithTap`, `Interruptible` |
| `wizard` | a source with two event types (one sample deeper than the processor has room for, one empty), 2 targets (one with two event types), 1 saved transformation, 1 written by hand, views lower than their contents | `FreezesOnlyAfterSlip`, `FailsOnlyAfterSlip`, `PathIsKeyPath`, `SavedForItsSource`, `SavedForItsTarget`, `ReplacesWhatItShowed`, `KeepsOperations` |

Properties that texts of the repository state and the code does not have:

| run | text | what happens |
|---|---|---|
| `integration_stale_url` | `cmd/create/target.go:153` "update our triggers in case of target container restart" | after `stop`, creating an unchanged target again makes a new container on a new port; `manifest.Add` reports no change, so its triggers keep the old URL |
| `integration_lost_route` | `cmd/create/transformation.go:239` "creating new trigger from transformation to target" | if the transformation is created for the type it emits, and the target had a trigger for it, the loop that follows removes the trigger just written |
| `contexts_delete` | `pkg/output/output.go:41` "To change the current broker use ..." | deleting any broker selects the first remaining one: `oo := *o` shares the `Config` pointer |

### What a reader of the models will meet

Behaviour that no text of the repository denies, and that the models have:

* A container that exited by itself blocks its name, so `start` without `--restart`
  fails for it (`Conflict`, `client.go:151`).
* The container of a broker named `x-broker` is looked for as `x-broker-broker` by `stop`
  and `delete` (`stop.go:80`, `delete/cmd.go:109`).
* A transformation whose output type is written with `*`: the loop that hands the target's
  triggers over takes the route from the transformation to the target too. This, and the
  case of `integration_lost_route`, are the exceptions in `TransformationTakesOver`.
* A download of the CRDs that breaks off leaves a truncated file that the next call takes
  for the release (`crd.go:82-112`).
* After a create that failed or was killed, the same command with a new credential keeps
  the old container: the Secret has not changed any more (`clean` in `CreateCompletes`).
* A spec that the CRD refuses leaves its Secret in the manifest.
* Creating a source again with another scope leaves the resources of the old one.
* A name with upper-case letters never finds its Secret (`components.go:139` against
  `crd/secret.go:51`); two names that differ only in case share one.
* A trigger whose target is missing, left by a killed delete, makes dump and import
  dereference nil (`components.go:181`).
* Import loses strings in lists, numbers and booleans of specs (`load.go:162`), and leaves
  triggers of the replaced broker.conf in place (`load.go:73`).
* A transformation gets a sink only by `start`; a service that is a source gets it on a copy
  of its spec (`start.go:108`), so its exports lack it.
* Wizard: three more ways to lose everything typed, beside Ctrl-C: the cursor is moved towards a header
  that is scrolled off (going up after a long list was walked down) or not yet visible; Enter
  in the popup of a value whose two lines were joined; entering a sample that is shorter
  than the line at which the one before was left. They are the cases of `FailsOnlyAfterSlip`.
* Wizard: a target's event type whose component is scrolled off, or on the first visible line, is
  saved without the component (`gui.go:249`).
* Wizard: a global key other than Ctrl-C in the popup of a value leaves the processor waiting
  for that value, and the next key that sends a signal waits for the processor
  (`keybindings.go:392` against `process.go:148`): nothing answers any more, Ctrl-C
  included (`layout.go:59`); a sample of more than ten levels panics (`process.go:88`); for a target with event types,
  saving may replace a transformation that was not shown; so may saving before a source was
  chosen, for a transformation made for any source is stored under `*-target`
  (`create/transformation.go:325`), and the processor has been told of no source then.

Seen while reading, and outside the models: `reconciler.go:253` dereferences the result of a
call that may return nil; errors whose text lacks the word the code looks for count
as success there; the order of annotations in dumps is random.

### Bounds

* `MaxTriggers`: a command that adds triggers starts only if all it could add have room
  (`Room`). All interactions between triggers in the code are between those of one
  target, or of a transformation and its target; three triggers are enough for an
  old one of the target, the route to it and the one that takes its place.
* `Patterns` is not empty in `integration_lost_route` only: with a pattern beside two plain
  types the instance of `integration` is too large for a run. The proofs have any.
* `Ports` has one more port than there are containers, so a restarted container can
  always move, and a port may come back to another container.
* `MaxFaults`, `MaxKills`, `MaxExits`: one at any point of any command; what is checked is how
  the next commands cope with it. The proofs hold for any number.
* `MaxMishaps` of `Watch`: one Docker call that fails, watcher that is killed or container that dies;
  early returns need none, for the watchers and `Commands` disturb each other. `watch_live` has
  neither mishaps nor `Commands`: for the observed watcher the other one's removal of its
  container is like `stop`. `WatchProofs` has any number of all of them.
* `MaxCommands` of `Deployment`: four are a create, a dump or a change, a delete or a failed
  command, and the one that repairs it. Kinds other than S3, services, targets and
  transformations are in the tables and the proofs, and behave like S3 with other calls.
* `MaxChanges` of `LocalFiles`: two changes per process are needed for a process to write from
  a copy that its own first change made. Two processes show every overlap of two writes;
  `FilesProofs` has any number.
* `Wizard`: `MaxNesting` is 3 where the code has 10, and the sample has depth 4. `Bounded`: one slip
  happens, a hasty key is the last one, and operations are added to a transformation that is
  empty, as saved or written by hand (`Edits`: one with a key twice). Two of the five operations are
  taken. The lists of 4 and 5 lines and the sample of 12 have views of 2, 3 and 4: the smallest in which
  headers are visible, scrolled off below and above.
* Ports, watchers, processes, keys, triggers and credentials are interchangeable, and safety
  runs use this as symmetry. In `LocalFiles` the refinement mapping chooses a process, but
  only where at most one writes or the abstract specification allows anything. Runs with
  liveness or with a counterexample use none; `watch_live` states liveness of one of
  the watchers (`Observed`), for all are alike.
* `Watch` and `Wizard` end by design, `Deployment` when its commands are used up: their
  configurations do not check deadlock. All other runs do.

### Fairness

* `Integration!FairSpec`: the steps of a command that runs go on, for the operating system
  schedules its only process and Docker calls return. Nothing says that a user types
  another command, or that a command is killed.
* `Watch!FairSpec`: main goes on when it can, the 3-second ticker fires and the send after it
  is tried. Log lines and signals may never come, so the readers have no fairness.
  Each goroutine has its own weak fairness: the Go scheduler starves none. Only the watcher
  whose liveness is stated (`Observed`) has it; any other may hang.
* `Interruptible` has the fairness of a user who presses Ctrl-C again as its premise.
* The wizard's freeze is a safety property of the state in which nobody can receive, so it
  needs none.

## Proofs

All theorems hold for every value of the constants that the modules' named
assumptions allow: any sets of components, types, brokers, processes and ports, any
bounds. `SetsAssumption` of `Integration` says that the kinds of names are disjoint, that
`None` is none of them and that there are finitely many types; `MapsAssumption` types the
three functions and says that the numbered names have their prefix; the assumptions of
`Contexts` say that component names are not container names of brokers and that `Rank` is an
order; those of `Components`, `FilesParameters` and `Watch` that the special values differ from
the others.

`IntegrationProofs`

* `TypeCorrect`: `Spec => []TypeOK`.
* `StoresAgree`: `Spec => []TriggersAgree`. `TriggersAgree` is not inductive: that `WriteManifest` restores agreement needs `EditsOK`,
  which says that broker.conf already holds exactly what is pending, and that no
  command ends, or is ended by an error or the panic, while something is. Each of
  the actions has one step.
* `NoDanglingTarget`: `Spec => []TargetsExist`. The strengthening is `TargetsOK`: a dangling trigger is one that the running
  `delete` has still to visit, and the components that a running `create` makes triggers
  for exist. `CommandOK` ties `cmd` to `phase`: without it nothing is known of the component
  a step works on.
* `Inductive`: `Spec => []IndInv`, the conjunction of these.

`IntegrationOutcomes` proves every other safety property of the Integration runs. Each is
about the end of a command, so each strengthening says, for every place in the code,
what has been done by then:

* `StartsServe`, `RestartsApply` (`StartOK`, `Visited`): components that the loop has passed have
  their container, and their triggers its port, except for the triggers `work` has yet to
  refresh; a source passed earlier has the port of the broker, which is first.
* `CreatesRepair` (`TargetOK`, `Written`): a type that has left `types` has its trigger in both files.
* `RuntimesMatch` (`StagesOK`, `RuntimeOK`): which component may differ from its container at
  which step, provided nothing has failed.
* `BrokerDelivers` (`DeliverOK`, `Awaited`): a trigger without its target's port is one that the
  running command still visits, or the broker is down.
* `NamesExact` (`NamedOK`, `Made`, `Numbered`): the numbers in use are 1 to the number of types
  made so far, and what is old is in `work`. It counts with `Cardinality`.
* `TransformationsTakeOver` (`RoutingOK`, `AutoOK`, `TakeOK`): a generated name still tells the filter of
  its trigger, even after a transformation has got it; no entry of broker.conf points to
  the target but the route and those collected; what is shadowed or retargeted so far
  is the transformation's.

`ContextsProofs`

* `TypeCorrect`, and `Selected`: `Spec => []CurrentBrokerExists`, along `CurrentOK`: the selection can be off only
  between the writes of `create broker` and after the directory is removed.
* `Listing`: `Spec => []NoOrphans`, for names without the suffix (`PlainNames`), along `OwnersOK`: a component about to
  leave the manifest has no container, and what a `delete broker` has yet to visit
  contains everything its broker owns.
  Without `PlainNames` it does not hold: `stop` and `delete` miss the container of `x-broker`.
* `CreatesAll`: `Spec => []CreateCompletes`, for all names.

`DeploymentProofs` and `DeploymentOutcomes`

* `Inductive`: `TypeOK`, `CommandOK` (what a command carries in each phase) and `SecretsOK` (a reference
  has its Secret, in the manifest and in the dump). `ExportsHaveCredentials` follows.
* `DumpsServe`, along `RoutesOK`: a trigger without its component, or not in broker.conf, is
  one that the running delete is about to remove; the same for the triggers of a dump, which is
  taken between commands.
* `RestartsServe`, along `StepOK` (which calls of a cloud have been made) and `RestartOK`.
* `DeletesClean`, along `DeleteOK`: what is gone at each step; and `TableCovers`, a fact about the tables:
  the finalizers of a kind undo everything its initializer makes.
* `CreatesComplete`, along `CreateOK` and `SyncOK`: unless something went wrong before, a
  container matches its component's object and Secret, or `changed` says it will be replaced.

`FilesProofs`

* `ManifestRefines`, `ConfigRefines`: `LocalFiles`' `Spec` implies `KeyedStore`'s under each mapping; every
  step maps to a step or a stutter. The invariants say that without an overlap at most
  one process writes, and that its copy is the file.
* `FilesManifest`, `FilesConfig`: the composition implies `Spec` of `LocalFiles`, hence the same.
* `CachedRelease`: `CacheWhole` for any number of processes, along `Covered`: each
  document of the release is in the file, or a process that downloads has yet to write it.

`WatchProofs`: `LeavesNothing`, `Feeding`, `PanicsAtEnd`, for any number of watchers and mishaps. `Tended`:
the watcher that made the trigger or the container still is at a place from which it
removes it, or somebody else has (`HoldsTrigger`, `HoldsTap`); that needs every early return to go
through `Cleanup`. `Fed`: if the trigger is for another watcher, one that will remove the container
is on its way (`WillTake`). `ClosedLate`: the channel is closed only at the end.

`WizardProofs` is for any manifest whose components have finitely many event types with
names, any samples of the shape `IsSample`, any number of levels, of keys pressed and of the
popup's operations (`ManifestAssumption`, `RegistryAssumption`, `NestingAssumption`,
`OperationsAssumption`: the popup offers no others than the five), any height of the views
(`HeightAssumption`) and anything that the user writes by hand in groups of operations
(`EditsAssumption`).

* `WizardTypes`, along `Typed`: the calls still to be made belong to the view they are made for, a
  signal of the sample carries one of its lines, the cursors of the lists never rest on a header
  and stay in the visible part (`CursorsStayVisible`).
  For that `Lines` is shown to be "*" and then lines of other kinds, whose types have names.
* `NeverFreezes`, `NeverFails`, along `Tidy`: a user who closes popups with their own keys and waits
  (`Clean`) is in one of six stages (`AtViews` ... `AtWarning`), in each of which it is known which
  popups exist, that their keys are bound once, which calls are to be made, and who waits for
  whom. Without the bindings in it the invariant is not inductive: a popup that is
  opened twice runs its Enter twice. `NeverFails` has three exceptions for this user
  (`Excused`), one for each error that a handler can still return.
* `SavedForTheSourceShown`, `SavedForTheTargetShown`, `ReplacesTheOneShown`, along `Waits`, which allows popups to be left: the
  processor has been told of the lines under the cursors or is being told (`Told`), and nothing
  is under way while a name is saved under (`SavesAlone`). `PicksAlone` and `OneCall` say which
  calls one key may leave, for a key whose popup was opened twice makes several.

* `WalkingDownGivesTheKeyPath`, along `Walks`: while the user is in the views of the sample,
  `nesting` is, or will be once the signals on their way are taken (`Heading`), the innermost keys that
  the line is inside of, each at its level (`NestingAt`), or the processor is about to panic over a
  line too deep for it. That needs `Steady`: calls, signals and a processor that waits are
  tied to the views they come from, also when a popup is left by a global key. The levels and
  the lines of a key path are then the same in the same order (`SameOrder`, `PathOfLine`), if the
  sample is `Regular`; WalkToKey and NoKeysBetween say what one line changes.
* `OperationsAreKept`, along `Working` (the view holds junk or a list of groups, what is under way is one of
  the five operations): `Chosen` takes each of its places once (`ChosenPlaces`), so `sanitize` loses no
  complete key and doubles none (`SanitizeCleans`), and the five parts of `rearrange` are joined in
  the order of their ranks (`JoinedLists`, `Rearranged`).

Only model-checked are `BrokersApart` and liveness: `CommandEnds`, `EndsWithTap`, `Interruptible`.
Properties under fairness and ENABLED are out of the prover's reach, as is any
module that declares a RECURSIVE operator.

## Not modelled

* `logs` (one goroutine per container and a channel, as in `watch`), `send-event`, `describe`,
  `completion`, `version`, `config`: they read, print or send one request.
* The tables from kinds to environment variables and event types (`adapter/env`,
  `adapter/ce`) and the rules of the CRD schema: they hold no state, and a specification
  of a table would repeat it.
* Two processes that write config.yaml at once.
* The image check of `Container.Start` (`client.go:140`), which compares the image with itself;
  waiting for the container, the errors in its log and the retries of the connection, which
  are failures of one call.
* The variants of an S3 source's destination and the status that the clouds return; the
  retries of their clients.
* Filters other than by type: raw filter expressions and CE attributes behave as `Patterns` here, for
  the code compares strings.
* `import --from` of anything but a Kubernetes dump; names, ports, images and annotations of
  exports.
* Of the wizard: lines that wrap, for none is longer than its view here; a terminal that is resized;
  operations other than the five in a transformation written by hand, which `rearrange` drops
  (`process.go:228-256`); the user's changes to the line of the key in the popup of a
  value, except that the lines are joined.
* Arguments that a command rejects before it changes anything: they are guards.

## What is left

1. `ContainerStart`: the calls of `Container.Start` one by one, with the image check and the connect
   retries, as the refinement of `StartContainer`, `StartBroken` and `StartFails`.
2. `Logs`, which shares its goroutine structure with `Watch`.
3. config.yaml as a third file of `LocalFiles`, and `Contexts` on top of it.
4. An abstract specification of one integration (components and routes, each command atomic)
   that `Integration` implements while nothing is killed.
5. An instance of `integration` with patterns that fits a run.

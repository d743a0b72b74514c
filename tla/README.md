# TLA+ verification of the HPDC platform code

HPDC is an offline-first platform for IoT telemetry, alerts, entities and AI agents. Most of the
repository is declarative configuration of third-party controllers; its own program is the Python
under `scripts/`: small services that hold alerts, back-pressure numbers, entity documents and
append-only logs, and command line programs that make, fill, equip and tear down a development
cluster. This directory holds TLA+ models of that program, the TLC configurations that check them
and machine-checked proofs about them.

The program is written as if one thing came after the other and nothing failed in the middle. It
does not run that way. The HTTP services are `ThreadingHTTPServer`s without a lock; the command line
services append to shared files from processes of their own; the provisioning programs call tools
that fail half way, are interrupted, and are run again over whatever they left. What survives that,
and what does not, is the question of these models.

## 1. Inventory

### Alert pipeline

| Part | State | Operations | Hard behaviour | What makes it correct |
|---|---|---|---|---|
| Edge service, alert routes (`services/events-ingest.py`) | `server.alerts`, `server.idempotency`, the alert dicts, `topics/alerts.incoming.ndjson` | create, transition, count | threads share two dictionaries and the dicts in them; a transition keeps a reference that a create replaces | stages in order; one event per creation; every request answered |
| Edge service, ingestion (same file) | `lag_ms`, `backoff_count`, `dropped_total`; `events.ndjson` | batch, lag control, single events, metrics | augmented assignments by concurrent threads; a delay that depends on the requests before | no phantom drops, delays only for throttled batches, exact numbers without races |
| Alert handler CLI (`services/alert-handler.py`, `gitops/alerts/base/alert-handler-actions.yaml`) | `state.ndjson`, `audit.ndjson` | six human actions | overlapping processes, a kill between the two appends, the state re-read from an append-only log | state and trail agree; each action judged against the state it changes |
| Response trigger, decision support (`services/alert-response-trigger.py`, `alert-decision-support.py`) | Kubernetes Jobs; `decisions` and `approvals` logs | match and run a workflow; recommend, approve | a retry of a Job that exists; partial workflows; approvals of anything | each action run once per alert; nothing sensitive without approval |
| Event producer (`services/kafka-produce-alert.py`) | none | one event | – | – |

### Entities

| Part | State | Operations | Hard behaviour | What makes it correct |
|---|---|---|---|---|
| Entity data plane (`services/entity-api-local.py`) | regional stores, records with document, count and revision | POST, GET, PUT, DELETE on documents; list; change feed | check-then-act on revisions, a lazily created store per region, deletes under an update | optimistic locking, region isolation, revisions that fit documents |
| Entity API CLI (`services/entity-api.py`, `gitops/entity-store/base/entity-crud.yaml`) | one file per entity, `mutations.ndjson` | create, read, update, delete, bulk | non-atomic file writes, kills, a bulk call failing in the middle | the log explains the files; a forbidden bulk does nothing |
| Change feed processor (`services/entity-change-processor.py`) | `processed.ndjson`, `dead_letter.ndjson` | process one change | repeated, overlapping and killed deliveries | acknowledged means recorded; a settled change stays settled |
| GraphQL gateway, agent engine, identity doubles | (almost) none | reads and decision functions | – | – |

### Delivery and development cluster

| Part | State | Operations | Hard behaviour | What makes it correct |
|---|---|---|---|---|
| Cluster lifecycle (`startup.dev.py`, `stop.dev.py`, `gitops/bootstrap_*.py`) | containers, QEMU processes, state directories, four kubeconfigs | start, stop, bootstrap on kind or Talos | tools that do a part of what they are asked, interrupts, reboots, leftovers of one provider met by another | one kind of cluster after a start; `kubectl` talks to the cluster just made |
| Setup steps (`steps/*.py`, `gitops/install*.py`, `gitops/validate*.py`) | objects of the cluster, the firewall's zone, the scaffold | run the selected and enabled steps in `--check`, `--dry-run` or `--apply` | steps go on after one that failed; each step translates the mode in its own way; installers are cut between two commands | exit code 0 means installed; read-only modes change nothing; no authentication before SPIRE |
| Gateway certificates (`gitops/gen-edge-cert.py`, `install-envoy-gateway-dev.py`) | key pair in the home directory, `/tmp/eg-certs`, three Secrets | check, generate, force, install | two files and a Secret written one by one, deletion before creation, files judged by existence | one undisturbed run repairs what failures left |
| Toggles, app-of-apps, overlays (`gitops/component_versions.py`, `render_app_of_apps.py`, `render_overlays.py`) | `.env` files, `gitops/apps`, `gitops/apps.all`, `rendered/` | resolve, first move, render | the directory created first marks the move as done; renders overlap | no application lost; a render leaves what its environment asks for |
| Images (`services/mirror-image.py`, `image-preflight.py`, `image-registry.py`) | partial files, registry blobs and tags, docker's images, markers | fetch, resume, push; check, pull, load | retries in the middle of a file, an id used twice, lost answers, a registry that does not answer | only complete images are tagged; a passed gate means pullable |
| Local git mirror (`gitops/provision_local_git_mirror.py`, `services/git-smart-http.py`) | bare mirror | refresh, serve | refresh under readers | served refs exist |
| Simulator (`telemetry/telemetry_simulator.py`) | run metrics | emit per protocol, summarise | emitters that fail differently | failures counted, exit code right |

How they interact: the edge service writes accepted alerts to a topic file, which stands for the
broker; operators act on alerts with the handler CLI, whose state is a log of its own and not that of
the edge service; entity mutations reach the change processor as delivered events; the GraphQL
gateway reads the entity files. `startup.dev.py` starts the image registry, tears down the cluster
that is there (by running `stop.dev.py` and ignoring its exit code), renders the applications and
runs the steps, one after the other, of which step 02 makes the cluster and 03 to 13 run the
installers. The preflight and the nodes read the registry that the mirrors fill. The composed
modules are therefore `StartupDev` (with `StopDev`, `BootstrapDev`, `DevHost`, `Kubeconfigs`),
`SetupSteps` (with `Steps`, `Installers`, `Gates`, `Firewalld`), `GatewayCerts` (with `EdgeCert`),
`AppOfApps` (with `ComponentVersions`) and `ImagePreflight` (with `MirrorImage`). A service is
modelled with all its concurrent callers.

`PROJECT.json` lists every component with its status, and the hazards at the lines where they bite.

## 2. Modules

| Module | Models | Builds on |
|---|---|---|
| `AlertBoard` | the promise of the alert routes, from the acceptance scaffold P0-005 to P0-007 | – |
| `EdgeAlerts` | alert routes of `events-ingest.py`, statement by statement, and their mapping to the promise | `AlertBoard` |
| `EdgeBackpressure` | batch and lag routes of `events-ingest.py` | – |
| `AlertHandler` | `alert-handler.py` with its action table | – |
| `ExactlyOnceFeed`, `ChangeProcessor` | the promised feed; `entity-change-processor.py` and its mapping to the feed | – |
| `VersionedDocuments`, `EntityDataPlane` | the promised documents; the document routes of `entity-api-local.py` and their mapping | – |
| `EntityStore` | `entity-api.py` with its table of operations | – |
| `Kubeconfigs` | the kubeconfig files and what pruning, syncing and merging do to them | – |
| `DevHost` | the machine: kind, docker, talosctl and QEMU, which are external | `Kubeconfigs` |
| `StopDev`, `BootstrapDev`, `StartupDev` | `stop.dev.py`; step 02 with both bootstraps; `startup.dev.py` | `DevHost`, each the one before |
| `Gates` | the validators, each as the set of files that must be right | – |
| `Installers` | the installers, as the commands they run in order and what each needs, adds and takes away | `Gates` |
| `Steps`, `Firewalld` | the numbered steps in each mode; step 01.5 in detail | `Installers` |
| `SetupSteps` | a command line of `startup.dev.py` over these steps | `Steps`, `Firewalld` |
| `EdgeCert`, `GatewayCerts` | `gen-edge-cert.py`; `install-envoy-gateway-dev.py`, step 04 and what happens around them | `EdgeCert` |
| `ComponentVersions`, `AppOfApps` | the layered configuration; `render_app_of_apps.py`, `render_overlays.py` | `ComponentVersions` |
| `MirroredImages` | what a registry of mirrored images promises to the nodes | – |
| `MirrorImage`, `ImagePreflight` | `mirror-image.py` with the mapping to the promise; `image-preflight.py` beside it | `MirrorImage` |
| `EdgeAlertsProof` | theorems about the edge service | `EdgeAlerts`, `EdgeBackpressure` |
| `AlertHandlerProof`, `EntityDataPlaneProof`, `ImagesProof`, `GatewayCertsProof`, `AppOfAppsProof` | theorems | their component |
| `EntityStoreProof` | theorems about the entity CLI and the feed | `EntityStore`, `ChangeProcessor` |
| `StartupDevProof` | theorems about `startup.dev.py`: the cluster and the steps | `StartupDev`, `SetupSteps` |
| `MC*` | symmetry sets, enumerated inputs and small worlds for TLC | their component |

### How a program becomes a module

*Requests and calls.* A slot (`Threads`, `Senders`, `Procs`, `Handlers`, `Renders`, `Mirrors`) runs one
request or call after the other. `pc[t]` (or `place[t]`) names the statement a handler stands at,
`local[t]` (or `held`, `call`, `event`, `todo`, `run`) holds its local variables. An action is the code
between two accesses to shared state. Two accesses are never merged unless one dictionary, list or file
operation performs both.

*Programs that run tools.* A program that the user starts from one terminal is a `pc` and a `job`. An
action is the code from one call of a tool to the next. The tools are external: a call may have its
whole effect, a part of it or none, and what it returns may say otherwise; how the program goes on is
its own.

*Data.* Ids, fields, tenants and records are model values. A Python object to which handlers keep
references while others replace it is an identity with its contents in `heap`. A document is the set of
its fields or an opaque value, a revision its number, a delay its exponent, a reply its status code. A
cluster is the set of objects that installers and gates look at, a kubeconfig the set of its contexts
with the current one, a file being written has a value of its own (`torn`, `part`).

*Kills.* The command line programs can be cut between any two file accesses or commands. An append of
one line is atomic; `write_text` is two steps, because opening the file empties it.

*Mutated forms.* Operators commented "Mutated form of" are wrong versions of the definition that
follows them. No specification uses them; each is used to see that a property notices the fault.

*Histories.* Variables marked `history` are not in the code and no guard but a bound reads them.

**EdgeAlerts.** `Receive*` parses a request and sets the locals; `Reject` is a request that ends before
it touches shared state, with 400 or 401 or, when its JSON is no object or an id cannot be a key, without a
reply: a handler that raises closes the connection (`Dropped`).
`CheckSource`, `Replay`, `InsertAlert`, `RememberSource`, `Announce` are lines 224 to 240 of
`_create_alert`: look up the source id, answer a duplicate from `server.alerts`, insert, remember,
append to the topic. `FailToAnnounce` is an exception on line 239, while the event is built (lines 197,
206) or appended (lines 126 to 130): the alert stays stored, its source remembered, and nothing is
announced. `FetchRecord`, `JudgeTransition`, `SetState`, `AppendHistory` are lines 251 to
262 of `_transition_alert`. Left out: a full disk that cuts a line of the topic file short.

**EdgeBackpressure.** `ReadLag` is the chain of comparisons of `_telemetry_batch`, which reads the lag
once. `ReadTotal`/`StoreTotal` and `ReadCount`/`StoreCount` are the two halves of an augmented
assignment; `Delay` reads the count again for the reply. `SetLag` and `CheckLag` are the lag control
route, which reads the lag anew. Two histories tell apart what the one counter adds up: messages
`dropped` with their batch, and `reports` of a lag over the budget, which drop nothing. `Counts` is a
set of natural numbers; the code would also take a negative `count`, which no client of the repository
sends.

**AlertHandler.** `Invoke` loads the table and the first matching line of `state.ndjson` and decides;
`Refuse` appends an audit entry with the reason; `save_alert_state` and `record_success` are the two
appends of an admitted action. `load_alert_state` returns the *first* line of the alert, as lines
35 to 42 do.

**ChangeProcessor.** `Deliver` starts a call with an event, forced to fail or not. `Skip` is the exit
of a duplicate, `StartReaction` the way on; `BuryEvent` appends a dead letter, `RecordProcessed` the id,
`Report` is the exit code the feed sees. A reaction can also exceed its time budget, so the outcome
is a choice.

**EntityDataPlane.** `FindStore`/`NewStore`/`GetStore` are the lazily made store of a region; `Create`,
`FetchRecord`, `Remove` act on it; `Refetch`, `CheckRevision`, `Merge`, `StoreDocument`, `ReadCount`,
`StoreCount`, `DeriveRevision`, `StoreRevision` are the statements of `EntityStore.update`. Clients
hold the revisions they were given (`known`) and send any of them. Left out: the list route, the
change feed and the constant replication configuration.

**EntityStore.** A call has a list of operations, one for the single commands. `Refuse`/`Admit` check
all of them before the first; then each goes through `CheckExists`, `Load`, `Decide`, `Open`, `Fill`
or `Unlink`, and `LogSuccess`. `LoadFails` and `UnlinkFails` are the uncaught exceptions for a file
that is empty or was removed meanwhile. A file that is unlinked while it is open is filled without
effect.

**StartupDev and below.** A command from the shell (`job`) names the program, the provider and the
tools on the path, since `sudo` and a missing tool change what a program finds. Stopping goes through
the deletion of a kind cluster, `talosctl cluster destroy`, the containers, the state directory and
the sweep of QEMU processes, with the early returns of `stop.dev.py` where a tool is missing.
Starting asks whether a cluster is there, stops it, asks again, and runs step 02, which for Talos
purges what earlier clusters left in three kubeconfigs, makes the cluster, picks the credentials up
from where `talosctl` has put them and writes them to three files. QEMU processes end when they like.

**SetupSteps and below.** `Installers` gives each program as a sequence of commands with what it needs,
adds and takes away and whether its failure ends the program; which of two programs
`install_cilium_online.py` is depends on whether there is helm (`cilium_with_helm`,
`cilium_with_kubectl`), and a command for documents that are not there does nothing and does not fail
(`IfAny`). `Steps` says which program a step runs in
which mode and when it is enabled; `SetupSteps` runs the selected steps in the order of their numbers
and folds their exit codes into one. A command may fail, and the user may interrupt, anywhere. Step
01.5 has a module of its own because firewalld keeps two configurations and the step asks sometimes
the one and sometimes the other.

**GatewayCerts.** `EdgeCert` goes from the judgement of the pair on disk through `openssl`'s two files to
the lookup, comparison, deletion and creation of the Secret. `GatewayCerts` adds the authority and the
two leaf certificates of `/tmp/eg-certs`, each made only where its file is missing, and their Secrets.
Files get lost, certificates expire and clusters are replaced while nothing runs.

**AppOfApps.** `ComponentVersions` resolves a variable from the shell and the `.env` files in the order
of the code, where inside a file the first assignment wins. A render looks whether `apps.all` exists
(`bootstrap_apps_all`), makes it (`mkdir`, which another one may have done meanwhile), lists what to move
(`glob`) and moves it one by one; then it lists, copies what is enabled (`Open`, `Write`) and removes
what is stale. Two renders overlap freely. A rename takes the file along that somebody else has open, so
`open` says where a copy that is being written is now: in `gitops/apps`, in `gitops/apps.all`, or
unlinked. `torn` remembers what happened to the first move: that it was cut or failed, that another
render started while it was under way (`watched`), or that two renders set out to make it (`doubled`).
The overlays are rendered one by one.

**ImagePreflight.** `MirrorImage` looks whether the manifest is in the registry, fetches each blob in
chunks with retries that go on from the length of the file, compares the digest, uploads blob by blob
and tags last. `ImagePreflight` asks about each image once, then pulls, marks and loads; an error of the
registry counts as a "no" for a repository that has the tag (`check_mirror_tag`). A slot of `Mirrors` is
a process id, so a later process finds the partial files of an earlier one. While a preflight runs,
images come into docker but none leaves it: no program of the repository removes one.

## 3. Runs

| Run | Question | Bounds |
|---|---|---|
| `edge_server` | Can overlapping requests confuse the idempotency map, the topic or each other, skip a stage, or stay without a reply? And what do lost updates do to the metric and the delay? | 2 threads, 2 alerts, 1 source change, 2 records, histories of 3: two racing requests of any kind, a create that replaces; 2 senders, one lag in each of the three ranges, 4 throttled batches |
| `edge_alerts_duplicates` | (violation) Is a source change processed once? | the same alerts |
| `alert_handler` | Do the log of states and the audit trail agree around overlapping and killed calls? | 2 processes, 1 alert, 3 operators of different rights, 4 lines, 2 audit entries: accepted, refused and killed calls in every order |
| `alert_handler_first_line` | (violation) Is an alert that was resolved found resolved? | 1 process, 1 alert |
| `entity_data_plane` | Can requests of two regions meet, and when does a region lose its store? | 2 threads, 2 regions, 3 stores: a race in one region and a store in the other |
| `entity_data_plane_optimistic_lock` | (violation) Does one update per revision win? | 2 threads, 1 region, 2 fields |
| `entity_logs` | Do log and files agree around overlapping, killed and failing calls? And what do overlapping, failing, killed and repeated deliveries do? | 2 processes, single calls and bulks of two operations, 4 roles, log of 2; 2 deliveries at a time of 2 changes, logs of 3 |
| `startup_dev` | What does a reported cluster say about the others, and whom does `kubectl` talk to? And what does exit code 0 say, what do the modes change, in which order do mesh and firewall come into force? | kind, docker and QEMU, 2 machines, all tools or without docker or sudo, any number of commands; 11 small worlds, one without helm and one without L2 documents, with the command lines that matter in each, 3 failures or interrupts |
| `gateway_certs` | What does one undisturbed run repair? | 4 keys, 5 authorities, 4 failures, interrupts, lost files, expiries or new clusters |
| `app_of_apps` | What is lost by cut and overlapping renders, and what does an undisturbed one after them leave? | 2 renders at a time, 1 edit by which they may differ in what they include; or 1 program at a time, 3 shells, 2 edits of the three files, 2 overlays; cuts and failures without bound |
| `app_of_apps_unlisted` | (violation) Are applications that no table lists always included? | 1 program at a time |
| `images` | What do a tag, a passed gate and a successful pull mean? | 1 process id used again and again, 2 repositories of one image, 2 blobs of 3 pieces in chunks of 2, 2 attempts |

Three runs check two models side by side: the alert routes and the batch and lag routes of one server,
the two command line services of the entities, the lifecycle of the cluster and the steps. The two
of each share no variable, so every behaviour of both is a behaviour of each, and a property of
one depends on nothing in the other. TLC therefore looks at the states of one while the other is
at rest (`MCEdgeServer`, `MCEntityLogs`, `MCStartupDev`), and not at their product. `MCAppOfApps`
draws a similar line: renders of overlays read only the files and write only `rendered/`, so they
are not mixed with overlapping renders of applications.

Counterexamples and proofs of the same code need few actors: every check-then-act in it is between one
test and one write, so two actors show a race, and as a slot takes one request after the other, also
what happens to a latecomer; the theorems of section 4 are about any number. The bounds on logs, records
and revisions stop TLC; each is the length at which the property's case has occurred with one entry to
spare. In `gateway_certs` and in the steps of `startup_dev` the bound counts the mishaps: a state that
needs repair takes one or two of them, another hits the repair itself. The other programs on the host
have states that stay finite, so commands, interrupts and failures need no bound there. In `images` a
second process id would only multiply the states: what two mirrors share are the blobs and tags of the
registry, which a killed mirror leaves to its successor as well, and the theorems cover any number of
overlapping mirrors. Symmetry is used where the properties are invariants or action properties over
interchangeable model values. Deadlock is checked in every run: slots can always finish and close, and a
program that has ended can be started again.

The properties, by what they say:

* **What survives every interleaving.** A duplicate finds its alert (`IdempotencyNamesOwnAlert`), every
  creation is announced once or its handler died of announcing it (`EveryCreationAnnounced`), no stage
  is skipped (`NoStageSkipped`), a delay doubles only for a throttled batch (`DelayBounded`),
  acknowledged changes are recorded (`AckedIsProcessed`), regions do not mix (`RegionsAreIsolated`), a
  forbidden bulk does nothing (`NothingOfForbiddenBulk`).
* **Where a race ends.** Once it is over its outcome is final: `SettledStaysSettled`,
  `SettledRegionKeepsStore`. Numbers are exact but for races: `ExactUnlessRaced`.
* **What two pieces of state say about each other.** `AuditMatchesState`, `LogExplainsStore`.
* **What success means.** After failures, interrupts and re-runs: `SuccessMeansInstalled`,
  `OneKindOfCluster`, `KubectlMeansThisCluster`, `FirewallInForce`, `GateMeansPullable`,
  `PulledMeansAvailable`, `RenderedAsAsked`.
* **What one undisturbed run repairs.** `ApplyRepairs`, `InstallRepairs`, `RenderedAsAsked`.
* **What must never happen on the way.** `AuthNeedsSpire`, `NothingIsLost`, and the action property
  `ReadOnlyModesChangeNothing`.
* **What the documents promise and the code does not keep.** `OneAlertPerSource`,
  `ResolvedIsFound`, `OneWinnerPerRevision`, `UnlistedAreIncluded`: each is the property of a run that
  TLC finds violated; section 5.
* **Refinement.** `ImplementsMirroredImages` under every failure and overlap. The services keep their
  abstract promises (`ImplementsAlertBoard`, `ImplementsExactlyOnceFeed`,
  `ImplementsVersionedDocuments`) while requests do not overlap, which is proved (section 4).
* **Liveness.** `EveryRequestAnswered`.

Several of these carry an exception, and the exception is part of the result: an application can get
lost if the very first move was cut, failed, or was watched by a later render; an install cannot tell an
empty certificate from a good one; what two first moves at a time leave may be a part of a file; the
firewall's zone may be on disk only after an earlier run was cut between a change and its reload.
Without its exception each of them is violated.

**Fairness.** Only `FairSpec` of `EdgeAlerts`, and with it `FairServerSpec`, states any: weak fairness of
each `Handle(t)`. A request
has a thread of its own, which takes no lock and waits for nobody, so the operating system runs it
until it ends; nothing obliges a client to send a request. The command line programs may be killed
at any point and call tools that may never return, so nothing is claimed about their end.

## 4. Proofs

TLC checks small instances; the theorems hold for every value of the constants, that is for any
number of handlers, processes, renders, mirrors, ids, lags, machines, environments, mishaps and log
lengths. Every safety property of section 3 is a theorem. They assume no more than the named
assumptions on the constants: `None` is no id, nor a version of a document, nor a certificate; the
bounds are natural numbers, counts and lags are too; a bulk call is a sequence of operations; a key
that is generated differs from the few that are around; a command line names steps by words, and a
file that is right is one that some program looks at. Fairness is not used. The inductive invariants
were first checked by TLC on the instances of section 3.

**`EdgeAlertsProof`.** `TypeCorrect` (`TypeOK`), `DuplicatesFindTheirAlert`
(`IdempotencyNamesOwnAlert`), `StagesInOrder` (`NoStageSkipped`), `CreationsAnnounced`
(`EveryCreationAnnounced`). `TypeOK` is not inductive: a handler uses locals that earlier statements
set, so `HandlerInv` says which are set at which statement. `StoreInv` adds that references in
`server.alerts` and in handlers point to allocated records, and that a handler about to remember its
source (line 238) has stored its alert (line 236); the order of these two lines is what the theorem is
about. `StageInv` adds that a handler about to set a stage judged it against a stage the record has
entered, though it may have left it. That weaker fact survives the race that breaks the state machine,
and it is enough. `AnnounceInv` adds that
records, announcing handlers and those that died of announcing are finitely many: they grow by one at a
time from none, so no bound on the number of handlers is needed.

`SequentialBoard`: `Spec` and `[]OneAtATime` imply `ImplementsAlertBoard`, in which the event of an
accepted alert is pending until it is published or lost, and nothing else happens before. An operation
takes effect where its first change becomes visible; the mapping, which is in `EdgeAlerts`, adds what
its handler still owes. As long as no request is received while another is handled, what a handler has
judged is still so when it writes, which is exactly what fails with two.

`OnceUnderLock` and `HistoryUnderLock` say how little of that is needed. Under `[]SourcesApart` no two
handlers are between lines 224 and 238 with the same source change; all else may overlap. Then a source
change makes one alert and one entry on `alerts.incoming` at most (P0-006). `SourceInv` says why: while
a handler is between the two lines its change is not in the map, and no alert and no entry has it except
the handler's own alert. Under `[]TransitionsApart` no two handlers are between lines 256 and 261 with
the same record. Then every history is a walk through the stages and ends in the stage of its alert, but
for an append that is due (P0-005). `MoveInv` says that a handler let through knows where the history of
its record ends. Neither condition is met by the code; the theorems say that its lack is the whole
reason for what section 5 tells of the alerts. TLC checked `SourceInv` with two handlers, two sources
and three records (156203 distinct states), `MoveInv` with two handlers and two records (122930) and
with three handlers (142692).

Of the batch and lag routes: `NumbersTypeCorrect` (`NumbersTypeOK`), `DelaysAreEarned` (`DelayBounded`),
`ExactWithoutRaces` (`ExactUnlessRaced`), and `OverstatedByReports`: whatever additions are lost, the
metric exceeds the messages dropped by at most the reports of a lag over the budget, so that line 182
alone can make it say too much. The strengthening is the same in all: a value that a handler has read
and not yet written back is covered by (`TotalInv`, `DelayInv`), or until the first race equal to
(`ExactInv`), what had been added when it was read.

**`AlertHandlerProof`.** `TypeCorrect` (`TypeOK`) and `TrailIsComplete` (`AuditMatchesState`). Two more
say how far the defect reaches of which `ResolvedIsFound` is one case: by `FirstLineDecides` no
call ever finds an alert investigating, resolved or reopened, and by `NoteIsFinal` an alert that begins
with a note is never changed again.
Type correctness needs `HasFirst`, that the
lines of an alert have a least position: otherwise the `CHOOSE` in `load_alert_state` says nothing.
`FirstInv` adds that an alert with lines is no longer in the initial state, and that a call about
to save was judged against the initial state or against the first line as it is now. The first line
never changes, so the second half survives whatever other processes append in between; the first half
is why a call judged against the initial state can only save a state that `initial` leads to.
`TrailInv` adds that only an admitted call stands between the two appends, and counts the lines of each kind
with the cardinality facts of the library.

**`EntityDataPlaneProof`.** `TypeCorrect` (`TypeOK`), `RegionsApart` (`RegionsAreIsolated`),
`SettledStays` (the action property `SettledRegionKeepsStore`): a handler holds only stores made for
the region its request names, also where two of them race for the first. `SequentialVersions` and
`SequentialRevisions`: as long as requests do not overlap, an update is one step of
`VersionedDocuments`, although it stores document, count and revision one by one, and at rest every
revision agrees with its count.

`OneWinnerUnderLock` (`OneWinnerPerRevision`, the property that fails in section 5) and
`RevisionsUnderLock`: under `[]UpdatesApart` no two updates of one document are between the comparison
on line 67 and the replacement on line 72, and all else may overlap. Then at most one update from a
revision is answered 200, and every document at rest carries the revision of its count. `WinnersInv` says
that a document's revision is ahead of those acknowledged or won and not yet acknowledged, and which
statement of the update has left count and revision apart. TLC checked it with two handlers, two
documents and two fields (826343 distinct states).

**`EntityStoreProof`.** `TypeCorrect` (`TypeOK`), `BulkIsAuthorizedWhole` (`NothingOfForbiddenBulk`) and
`LogExplained` (`LogExplainsStore`). `BooksInv` says what a call knows at each statement: that it was
admitted for all its operations, that it has one left, and which operation takes it where. `StoreInv`
says of an entity that no two calls have changed at a time (`Alone`): at most one call is between a
change and its entry; the file is empty while that call has it open, and then what its entry is going to
say; a call about to log that there was nothing to delete is right. From this the last success is what
is stored, because each call leaves the entity as its entry says. A document of an entity that calls did
change at a time still has its entry or a call about to write it (`Documented`).

Of the feed: `FeedTypeCorrect` (`FeedTypeOK`), `AcknowledgedIsProcessed` (`AckedIsProcessed`, with the
fact that a call about to report has recorded its change), `SettledIsFinal` (the action property
`SettledStaysSettled`) and `SequentialExactlyOnce`: with one process the program implements
`ExactlyOnceFeed`.

**`ImagesProof`.** `TypeCorrect` (`TypeOK`), `RegistryServesImages` (`ImplementsMirroredImages`),
`GateIsSound` (`GateMeansPullable`), `PullIsSound` (`PulledMeansAvailable`). For two mirrors at a time
it is the theorems that say so, since the run has one process id. The invariant says that a mirror past
its fetch has blobs that fit their digests and that a mirror about to tag has uploaded all of them or
found them there; blobs are never taken away, so what other mirrors do in between only helps.

**`StartupDevProof`, the cluster.** `TypeCorrect` (`TypeOK`), `NoOtherKind` (`OneKindOfCluster`),
`KubectlReachesIt` (`KubectlMeansThisCluster`). A program may be cut after any statement and the next
remembers nothing, so what a reported cluster says must come from what the startup itself looked at.
`PlaceInv` says which statements belong to which program and provider; `HostInv` what the search after
the teardown has ruled out and nothing brings back before the report; `SyncInv` which of the files
name the new cluster at each of the writes. It needs that every kubeconfig's current context is one of
its contexts (`Sound`), which pruning, merging and patching keep.

**`StartupDevProof`, the steps.** `SetupTypeCorrect` (`SetupTypeOK`), `SuccessIsComplete`
(`SuccessMeansInstalled`), `MeshInItsOrder` (`AuthNeedsSpire`), `FirewallIsInForce` (`FirewallInForce`),
`ReadOnlyModesLook` (the action property `ReadOnlyModesChangeNothing`). The argument has two halves.
`StepInv` is about each of the 56 steps as it is written, whatever there is in the cluster: the program
of every mode is in order (`IsProgram`), under `--apply` it leaves what the step stands for (`LeftBy`:
what a required command adds, or needs and is no file, and no later command takes away), and in the
other modes it makes the scaffold at most. One lemma per program proves it, from the effects of its
commands alone. The other half is about the run over any sequence of such steps. `MeshInv`: a command
that authenticates is only reached past a required wait that has seen SPIRE. What a step stands for is
the promise of its program on every host: `install_cilium_online.py` promises Cilium alone, because
without helm it leaves kube-proxy and adds no L2 resources, and without L2 documents it adds none
either, all with exit code 0. `InstalledSoFar`: while no step has failed, each that is done has left
what it stands for but for what a later one takes, and the running one has left what its commands so far
leave. Of the firewall, `ZoneInv` says that the parts on disk are there in their order, `ReloadInv` that
disk and force differ only while a reload is due, or if an earlier run was cut (`late`), and
`FirewallSoFar` that a firewall step which is done has its zone on disk. That the selected steps are
steps of the program rests on `FlattenTyped`: what `FlattenSeq` joins has the elements of its parts.

**`GatewayCertsProof`.** `TypeCorrect` (`TypeOK`), `ApplyMakesItServed` (`ApplyRepairs`),
`InstallMakesThemTrusted` (`InstallRepairs`). `EdgeInv` says what an undisturbed `gen-edge-cert.py` has
put right up to the statement it stands at, so that at its end pair and Secret agree. `FilesInv` is
about all runs: as long as no single file was lost or left empty, a certificate of the operator was
signed by the authority beside it. `InstallInv` carries that, name by name, through the installation.

**`AppOfAppsProof`.** `TypeCorrect` (`TypeOK`), `ApplicationsKept` (`NothingIsLost`), `RendersRepair`
(`RenderedAsAsked`). `MoveInv` says what `apps.all` and `gitops/apps` have between them during the first
move, however many renders make it: every application is in one of the two until a move is cut, fails or
is watched by a render that takes `apps.all` for complete. `WholeInv` says that one render alone moves
whole files, and that nobody who writes a copy has a file of `apps.all` open; two renders can break
both, which is why `RenderedAsAsked` promises whole files only where the move was not `doubled`, and
everywhere else the contents of `apps.all`. A program is calm while it has run alone since it started;
`CalmIsAlone` is what makes its list still right when it copies, and `CalmInv` says which entries of it
are done. TLC confirmed that none of the exceptions can go: without "cut" or "watched" an application is
lost, without "doubled" a part of one stays.

**Only model-checked.** Liveness (`EveryRequestAnswered`), which needs fairness and `ENABLED`. And the
violations of section 5, each of which is one behaviour that TLC exhibits; of two of them
`OneWinnerUnderLock` and `OnceUnderLock` say what rules them out.

## 5. Where the code departs from its documents

Four disagreements are runs of their own, in which TLC finds what a document says violated.

* `entity_data_plane_optimistic_lock`. The revision is compared on line 67 of `entity-api-local.py` and
  replaced on line 72 without a lock, so two overlapping updates from one revision are both answered
  200. Nothing else lets it happen: a lock per document on these lines would rule it out (theorem
  `OneWinnerUnderLock`). `tests/atdd/api/test_p0_entity_data.py:63-66`: "the stale write is rejected
  with 409 Conflict".
* `edge_alerts_duplicates`. The source change is looked up on line 224 of `events-ingest.py` and
  remembered on line 238, so overlapping deliveries of one make an alert each, once per racing request,
  against P0-006 ("processed exactly once", `test_p0_alert_pipeline.py:8`). A lock per source change
  would rule it out (`OnceUnderLock`).
* `alert_handler_first_line`. `load_alert_state` returns the first line of the alert
  (`alert-handler.py:40`), new states are appended (`:48`): after acknowledge and resolve the alert is
  still judged as acknowledged. Story 5-4, line 17: "when resolved, then the state transitions to
  `resolved`". The worst case is a note on an untouched alert, which saves the literal stage `same`
  (`alert-handler-actions.yaml:41`), from which every action is refused (`NoteIsFinal`).
* `app_of_apps_unlisted`. "Apps not listed here are always included" (`render_app_of_apps.py:32`): an
  application that is neither in the table of toggles nor always included, as `kafka`, is left out by
  every render, whatever the toggles say.

Others were met while modelling. The models contain the behaviour, and the passing properties say how
far it goes.

* **Alerts.** A transition judged against a stage the alert has left sets it back, against P0-005
  (`test_p0_alert_pipeline.py:5-6`); `NoStageSkipped` is what remains. An exception on line 239 comes
  after the alert was stored and its source remembered: the client gets no reply, its retry is answered
  200 as a duplicate, and the alert is never announced. A create with the id of an existing alert
  replaces it, also a closed one. `GET /alerts` counts the idempotency map and not the alerts, so
  creations without a source change are not counted.
* **Back-pressure.** The lag control route adds one to the metric although no message is dropped (line 182),
  against the metric's HELP text, line 187: "Messages dropped". By `OverstatedByReports` nothing else lets it
  say too much. Lost updates can make `dropped_total` go back. The exponent of the delay has no
  limit, so a throttled batch may be told to wait for longer than a dropped one, whose exponent is 12
  (line 161). Sequentially the numbers are those of P0-004 (`test_p0_alert_pipeline.py:45-68`).
* **Alert handler.** `spec.allowed_transitions` is
  never read. Two operators can act on the same state, although `prd.md:232` has "System prevents
  concurrent state modification by two operators (optimistic locking)". The state is saved before it is
  audited, so a kill in between leaves a change "every action" of which is not in the audit log
  (docstring, line 6).
* **Change feed.** Overlapping deliveries are both processed, against "exactly-once" (docstring, line
  5). The first failure is final: `retry_policy` of `entity-change-feed.yaml` is never read, while
  story 6-3, line 18, buries a change "when retries are exhausted".
* **Entity data plane.** A document that is created again starts over at revision 1, so a revision read
  before fits the new one. Two first requests to a region make two stores, and a document created in
  the one that loses is gone. An update overtaken by a delete drops the connection without a reply.
* **Entity CLI.** Bulk calls do not validate the entity type (line 228). A create over an existing
  entity logs a diff from nothing (line 124). The file is written before the log (lines 121, 172, 244),
  and a process killed in `write_text` leaves an empty file that no later call can read (line 75).
* **Dev cluster.** Without docker the Talos teardown returns success early and leaves machines and state
  directory behind (`stop.dev.py:172`); the check that follows counts a machine as gone when some of
  them are. Steps run although step 02 failed. `prune` takes a kubeconfig that does not parse for an
  empty one and `contexts: null` raises a TypeError. The context of the new cluster becomes the
  current one of `~/.kube/config`. `--check` and `--dry-run` of `startup.dev.py` still render the
  app-of-apps, and step 01 makes its scaffold in a dry run.
* **Setup steps.** With the default toggles `startup.dev.py --apply` never exits with 0: step
  04-validate knows no `--apply` while the gateway is enabled, and step 40 needs the gateway when it is
  not. Mutual authentication cannot come up on a new cluster in the order of the steps: SPIRE's volume
  is of the class that step 05 installs. Running step 03 alone again drops the authentication silently.
  `install_cilium_online.py`, run by hand without helm, falls back to a manifest, keeps kube-proxy,
  applies no L2 resources and ends with 0; with helm it fails at deleting kube-proxy on every cluster
  that is complete. The Casbin steps run if any one of the Casbin toggles is on. Switching `--storage`
  leaves two default storage classes. Step 09 with rook-ceph finds a manifest that says local-path. The
  footprints in `output/provisioned.yaml` that gates compare with `.env` are written by nothing. A cut
  of step 01.5 between a change and the reload lets the next run report a zone that is not in force, or
  fail on its name.
* **Certificates.** The documented default mode of `gen-edge-cert.py` is an error for its parser. Its
  comparison calls `openssl pkey -modulus` (line 327), which openssl does not have, so the Secret is
  deleted and created on every run, which lines 353 and `docs/static-tls-termination.md:48-51` call
  idempotent. In `install-envoy-gateway-dev.py` a signature that fails leaves an empty certificate which
  the next install takes for done; a lost `ca.crt` makes a new authority beside old leaf certificates;
  both end with exit code 0, and `InstallRepairs` excepts them.
* **App-of-apps.** "last assignment wins inside the file" (`component_versions.py:35`): the first one
  does. `--dry-run` performs the first move. Two renders that both find no `apps.all` both set out to move
  (lines 74 to 79, `exist_ok=True`): the later one can move a copy which the other is writing over the
  canonical file, and if the other is cut then, a part of the application stays in `apps.all` for good.
* **Images.** `mirror-image.py`'s own usage passes a reference with its tag, which ends up in the
  repository part of the URL; so does the command that the preflight suggests. Blobs without a
  `Content-Length` are neither chunked nor compared with their digest, against the docstring. A bare name is
  mirrored as `nginx` and asked for by the nodes as `library/nginx`; the gate accepts either. A
  registry that does not answer lets the gate pass. `--load` prefixes `sudo TALOSCONFIG …` without
  `=`, so nothing is loaded, and images that were pulled by the same call are never tried.

## 6. Not modelled

* `/events`, `/telemetry` and `/metrics` of the edge service, the list and change feed routes of the
  data plane: they append to a file or read one value, and nothing reads it back.
* Response trigger and decision support: a constant Job name per action type and an append-only
  log of approvals; what follows is decided by Kubernetes and by who reads the log.
* Agent engine, identity doubles, GraphQL gateway, event producer: no shared state to interleave, or
  decision functions over constant tables that tests cover.
* The git mirror's HTTP server, which starts one `git http-backend` per request; whether a fetch is
  atomic for its readers is git's. The program that makes the mirror is step 09 of `SetupSteps`.
* The telemetry simulator and the capacity model: a load generator and a fixed calculation.
* What manifests say, beyond the files a gate or an installer needs; the network addresses that
  `_derive_network_vars` computes from a subnet; talosconfigs, status reports and listings.
* Scans, which are one call of an external tool; `backend/ext-authz`, whose only handler allows every
  request; the third-party controllers that the manifests configure.
* Validation of bodies, authentication and formatting, beyond the fact that a request may be rejected.

## 7. Plan

Done: the alert routes, back-pressure, alert handler, change processor, data plane and entity store with
their refinements and proofs; the cluster lifecycle, the setup steps, the certificates, the
app-of-apps and the images, each with proofs of all its safety properties.

Left, most important first:

1. The response workflow with a Job API modelled as external, once the trigger keeps a record
   that it reads.
2. The derivation of network addresses, as a function checked against the subnets it may get.
3. The refs of the git mirror under a refresh, with what `git` promises its readers as external.

# Truffels: a verification development

Truffels runs a Bitcoin node and the services around it (electrs, ckpool,
mempool, ckstats, their databases, a proxy) on a Raspberry Pi.  A Go process,
`truffels-api`, keeps its state in SQLite and drives Docker through a second
one, `truffels-agent`; a web interface polls the API.  This directory holds TLA+
models of that system, the instances TLC checks, and theorems TLAPS proves.

All line numbers are of this commit; `engine.go` is
`src/truffels-api/internal/updates/engine.go` unless a section says otherwise.

## 1. Inventory

| Component | State | Operations | Interacts with |
|---|---|---|---|
| Update engine (`updates/engine.go`) | `updating` (a lock per service), `triggerCh`; tables `update_checks`, `update_log`, alerts of type `update_failed` | `ApplyUpdate`, `RollbackService`, `checkAll`, `reconcileStuckUpdates`, `TriggerCheck`, `RunPreflight`, `pruneOldImages` | one goroutine per HTTP request, the check loop, the agent, upstream registries |
| Self-update (`applySelfUpdate`, agent `upDetached`) | the repository checkout, the compose file, a log row that outlives the process | checkout, rewrite, three builds, detached restart | the agent replaces agent, API and web; the next process reconciles |
| Version sources (`updates/registry.go`) | none | Docker Hub tags, digests, commits, releases; tag filter | HTTP |
| Agent (`truffels-agent/main.go`) | compose files, containers, images | up, down, stop, restart, pull, build, rewrite, inspect, remove, prune, checkout, tuning | `docker compose` on a project directory, which services may share |
| Service registry (`service/`) | constants | order, dependencies, dependents | every other part |
| Service control (`api/services.go`) | `enabled` flag, config files and revisions | start, stop, restart, pull-restart, enable, disable, config | agent, registry, bitcoind RPC, host metrics |
| Alert engine (`alerts/engine.go`) | restart history, previous states, `autoStopped`; table `alerts` | one `evaluate` per 30 s tick | agent (it stops services), store |
| Store (`store/`) | SQLite | upserts, logs, alerts, settings, monitoring tables | everyone, concurrently |
| Authentication (`auth/`, `api/auth.go`) | password hash, session secret, login attempts | setup, login, session check | settings table |
| Settings, backup, dashboard handlers (`api/`) | settings; backup files | update settings, export, list, prune, dismiss alert | store, file system |
| Host metrics (`metrics/host.go`) | previous counters | `Collect` | alert engine, handlers |
| Bitcoin RPC, Docker status, statistics handlers, web interface, installer | none of their own | reads, formatting | |

What is hard in each, and what makes it correct:

* **Update engine.**  Goroutines of several requests, the check loop, the alert
  engine and the operator interleave between any two statements; every call to
  the agent may fail, or act and lose its answer; the process may die anywhere;
  a compose project is shared by services whose locks are separate.  Correct
  when: one attempt per service at a time; every lock is released; the log is a
  faithful record of attempts, through crashes; "done" means the version runs;
  offers name two different versions; failures raise an alert and success clears
  it; checks converge.
* **Self-update.**  The process that started it does not see its end.  Correct
  when the row is closed, truthfully, by the next one.
* **Alert store and alert engine.**  Non-atomic upserts; alerts and auto-stop
  marks keyed by service and evaluated per dependency or container; counters of
  containers that are recreated or do not answer.  Correct when at most one
  unresolved alert exists per key, a condition that holds is not resolved, only
  real restarts count, and a stop is not repeated.
* **Service control.**  Check-then-act against the containers.  Correct when a
  disabled service is not left running, and dependencies hold at the start.
* **Authentication.**  Read-then-write of password and secret.
* **Settings, backup, monitoring.**  Partial writes, bounds and boundaries.

`PROJECT.json` lists the hazards by line.

## 2. How the project is laid out

| Module | What it models | Properties | Instance |
|---|---|---|---|
| `UpdateLifecycle` | what a reader of `update_log` may rely on (abstract) | | |
| `UpdateEngine` | updates, rollbacks, the check loop, reconciliation | `UpdateProperties`, proofs in `UpdateEngineProofs` | `MCUpdateEngine` |
| `SelfUpdate` | truffels updating itself, and the pruning that follows | `SelfUpdateProperties`, proofs in `SelfUpdateProofs` | `MCSelfUpdate` |
| `ServiceControl` | what the user does to a service, and the preflight | `ControlProperties`, proofs in `ControlProofs` | `MCServiceControl` |
| `AlertEngine` | service, restart and dependency alerts, auto-stops | `AlertProperties`, proofs in `AlertEngineProofs` | `MCAlertEngine` |
| `Access` | password, sessions, login limiter | its own, proofs in `AccessProofs` | `MCAccess` |
| `Administration` | settings form, tuning, power, docker prunes | its own, proofs in `AdministrationProofs` | `MCHandlers` |
| `Backups` | export and pruning of archives | its own, proofs in `RecordsProofs` | `MCHandlers` |
| `Monitoring` | counters, snapshots, pruning, downsampling | its own, proofs in `RecordsProofs` | `MCHandlers`, `MCMonitoring` |
| `Selections` | the loops that keep some entries of a slice | lemmas in `SelectionLemmas` | with `AlertEngine`, `Access` and `Monitoring`, which use it |

Each component meets the others through what it cannot see of them: the engines
and the handlers act on the same containers, so in each model the others are
steps of the environment (`ServiceUp`, `ServiceDown`, `PullRestart` and `Dismiss`
in `UpdateEngine`; `Happen`, `Start`, `Remove`, `Disable` in `AlertEngine`;
`Change` in `ServiceControl`), free to fall anywhere.

## 3. The update engine

### Modules

* `UpdateLifecycle` - what a reader of `update_log` may rely on: rows begin
  "pending", only move forward while a goroutine carries them, one per service
  at a time; a crash abandons them; recovery closes those that say "restarting"
  and no other, all of them before the process serves again; a closed row never
  changes.
* `UpdateEngine` - the code.  One action is one SQL statement or one call to the
  agent.
* `UpdateProperties` - the type invariant, the inductive invariant, safety,
  action and liveness properties, the refinement, and a statement the code makes
  and does not keep.
* `MCUpdateEngine` and the `.cfg` files - instances for TLC.
* `UpdateEngineProofs` - theorems and proofs: first locks, containers and versions,
  then the three tables and the refinement.

### State and actions

| Model | Code |
|---|---|
| `updating`, `trigger` | `Engine.updating`, `triggerCh` (engine.go:18) |
| `pc[w]`, `job[w]` | a goroutine of a handler (api/updates.go:39, 73, 120) inside `ApplyUpdate` or `RollbackService`: where it is, and its `serviceID`, from and to versions, `logID`; `out` is the status a failure will write |
| `chk` | the check loop: service, version inspected |
| `recon`, `mode` | `reconcileStuckUpdates`, which runs before the server listens (main.go:63, 89) |
| `check`, `logs`, `alert` | `update_checks`, `update_log`, unresolved `update_failed` alerts |
| `staged[s]`, `cont[s]` | what the next `compose up` starts (the tag in the compose file, the digest a floating tag resolves to locally, the commit an image was built from); what the container runs |
| `upstream[s]` | what the registry or forge announces |

`Request` is lines 395-401 and 555-561; `ReadCheck` 408-418; `FindPrevious` and
`CompareCurrent` 568-597; `CreateLog`, `BeginFetch`, `Fetch`/`FetchFails`,
`RefuseBuilt`, `Rewrite`, `Mark`, `Down`, `Up`, `CheckHealth` the steps of lines
413-521 and 592-638; `Revert`, `RevertDown`, `RevertUp` are `rollback()`
(653-665); `MarkBad`, `RaiseAlert` the failure exits; `MarkDone`,
`ResolveAlert`, `Record` the success exits; `Release` the deferred unlock.
`Tick`, `TakeTrigger`, `Inspect`, `InspectFails`, `Fallback`, `StoreCheck` are
`loop`, `checkAll` and `checkService`.  `Crash`, `Boot`, `JudgeStuck`,
`ReconcileAlert`, `ReconcileRecord`, `Serve` are the life of the process.
`Publish`, `ServiceUp`, `ServiceDown`, `PullRestart`, `Dismiss` are the world:
upstream, the service handlers, the alert engine's auto-stop, the operator, the
dismissal of an alert.

Abstractions.  Versions are opaque.  A service has one of three kinds: "tag" (a
Docker Hub tag in the compose file), "digest" (a floating tag), "source" (built
here from a commit).  The set of compose projects is given by `Dir`; `Down` and
`Up` act on a whole project, as the agent does (main.go:729).  A call that fails
may have acted.  Health is the environment's choice, except that a service with
no container is not healthy; that `checkHealth` compares no version is the
code's.  Time is left out: any wait may be short or long.  Several images of one
service move together.  A rewrite of a compose file is one step (the registry
has at most one tagged service per project, so two rewrites of one file do not
meet).  Reads and writes of SQLite succeed; that covers the reads of the check row
whose error the code drops (408, 581), which in the model find the row or find that
there is none.  Config revisions, audit rows and the pull of
the old image in `rollback()` change nothing the engine reads and are left out.

### Runs

Every run has two versions.  `Budget` bounds requests, crashes, publications,
triggers and dismissals; nothing else is bounded.  Containers may be started,
stopped and repulled by others without limit.

| Run | Instance | Checks |
|---|---|---|
| `crash` | a tagged service, 2 goroutines, 3 requests, 1 crash, 1 publication, 1 dismissal | `UpdateInv`, `OffersAreReal`, `AttemptsNameVersions`, `SuccessClearsAlert`, `DoneTellsTheTruth` |
| `shared` | a service built from source and one of a floating tag in one project, 2 goroutines, 2 requests, 1 crash, 1 publication | `MutualExclusion`, `LogIsALifecycle` |
| `live` | a tagged service, 1 goroutine, 2 requests, 1 crash, 1 trigger | `RestartsAreClosed`, `TriggersAreServed`, `ChecksConverge`, `LocksAreReleased` |
| `reconcile_truth` | 1 request, 1 crash | `ReconciledTellsTheTruth` is violated |

`live` starts from `FirstSpec`, the initial states in which every service is staged
at the first version; by symmetry of the versions that is no loss for one service.
`shared` starts from `SettledSpec`, where upstream has that version too, so that an
update is on offer only after the publication.

The runs divide the work.  `crash` has one service, whose neighbour in the project
is what stops and starts it at any moment (`ServiceUp`, `ServiceDown`); `shared` has
two locks, a log of two services, and the two kinds of service a version is not
written for.  What a sibling's update does to a tag is in no run: `Truth` (section 8)
holds for every registry.

Why the bounds are enough.  Two goroutines are what a race for a lock, a refusal
and an interleaving need.  Two versions distinguish old from new; a third would
only be another new one.  Three requests make the shortest histories where a
rollback rolls back a rollback, with a window of two done rows instead of ten so
that rows also leave it.  One crash meets every state, and
recovery runs after it; a crash during recovery needs two and is covered by the
proof of `UpdateInv`.  Symmetry (goroutines and versions) is used only where no
liveness property is checked.

Fairness.  Each goroutine is scheduled and each of its calls ends, by an answer
or a timeout (docker/compose.go:21), so `WF` of a goroutine's next step; nothing
says that a call succeeds.  The check loop runs while the process does, and the
ticker fires again and again.  Go's `select` picks at random among ready cases,
so a trigger is not passed by for ever: `SF(TakeTrigger)`.  The API's container
restarts "unless-stopped": `WF(Startup)`.  `ChecksConverge` assumes that the
agent answers an inspection again and again (`SF(Inspect)`): with an agent that
never answers, the table keeps its last version.  No fairness is
assumed of requests, crashes, operators or upstream.

### What the violated run shows

*Reconciliation believes health.*  `Mark` writes "restarting"; if the process
dies before the stop acts, the old container goes on, healthy, and the next
process logs "update completed successfully" and records the new version.  (The
check loop later corrects the check row; the log stays wrong, and manual rollback
and pruning read the log.)

Three more behaviours of the code are in the model, without a property of their own.
When the rewrite in `rollback()` fails (engine.go:656) the new version is started
again and the row says rolled back all the same.  A check that reads the container
before an update and writes its verdict after it puts the version just installed
back on offer; the next check corrects it (`ChecksConverge`).  `compose build` of
ckpool and ckstats rebuilds the pinned or once-cloned source, so "done" says nothing
of what a built service runs, and `DoneTellsTheTruth` is about tags.

## 4. The alert engine

Here `engine.go` is `src/truffels-api/internal/alerts/engine.go`.

### Modules

* `AlertEngine` - the code.  One action is one SQL statement, one call to the
  agent, or a stretch of code between two of them.
* `AlertProperties` - type invariant, safety, action and liveness properties.
* `MCAlertEngine` and `MCAlert*.cfg`, `MCStopsForever.cfg` - instances for TLC.
* `AlertEngineProofs` - theorems and proofs.

### State and actions

| Model | Code |
|---|---|
| `at` | where `evaluate` stands, and its locals: service `i`, container or dependency `k`, container `m` of a dependency, `on` (the `enabled` of line 194), `seen` (the `cs` of line 217), `found` (what the SELECT of `UpsertAlert` found), `mode` (line 270) |
| `last`, `history`, `autoStopped`, `prev` | the maps of `Engine` (engine.go:24-33); the keys `id` and `id_dep` of `autoStopped` are pairs of a service and a reason |
| `open`, `dismissed` | unresolved rows of `alerts` by type and service; keys the user resolved last (a history variable) |
| `reported` | what the "restart" rows of `service_events` add up to |
| `enabled`, `mode` | the flag of a service, `dep_handling_mode` |
| `cont`, `real` | the containers; how often each really restarted by itself (a history variable) |

`Sweep`, `ReadEnabled` and `InspectOne` to `Events` are `loop` and
`checkService` (193-267) with `recordRestartIncrements` (`Count`) and
`evalRestartLoop` (`EvalLoop`, `RaiseLoop`, `StopLoop`); `ReadMode` to
`StopDependent` are `checkDependencyHealth` (269-323).  `CheckHealth`,
`EvalLoop` and `FlagUpstream` end with the SELECT of an upsert, `Raise...` are
its INSERT or UPDATE, so that a dismissal may fall in between.  `Happen`,
`Restarts`, `Start` and `Remove` are containers, users and updates; `Disable`,
`Enable`, `SetMode` and `Dismiss` the handlers; `Time` the clock; `Restart` the
end and the new start of the process.

Abstractions.  An age stands for a time stamp: it grows with `Time` and is out of
the window at `Window`.  `RegistryAssumption`: no two containers have one name, as
docker enforces.  Whether a service is wanted takes several statements when it is
infrastructure, one for its own flag and one for each dependent (194-211);
`ReadEnabled` is one action.  With one click of the admin, as in `alert_live`, that
is no loss, since the click comes before or after the one statement that reads its
flag; with several in one sweep the code may see flags that never stood together.
No safety property depends on what is read.  A container is a status, whether it is
unhealthy, and its RestartCount; a healthy and a starting one are the same to this
code.  The restart settings do not change during a run.  Reads and writes of SQLite
succeed.  Severity and text of alerts, events of a change of state or health, metric
snapshots, pruning and the host's own alerts are left out.

### Runs

Bounds are in `Budget`: restarts by policy, other changes of containers,
inspections without an answer, stops that fail, dismissals, clicks of the admin,
crashes.  Sweeps and the clock are not bounded.  In the safety runs threshold,
window and maximum are 2, the least where a count below the threshold is not
zero, and where one restart may leave the window before another.  In `alert_live`
they are 1, where one restart goes the whole way from alert and auto-stop to
calm.

| Run | Instance | Checks |
|---|---|---|
| `alert_pair` | a service of two containers; 2 restarts, a change, an inspection without an answer, a failing stop, a dismissal, a crash | `AlertInv`, `RestartsAreReal`, `SicknessIsShown`, `LoopIsShown`, `LastIsCalm` |
| `alert_live` | a service and its upstream, an infrastructure service, mode flag_and_stop, fairness; a restart, 2 changes, a failing stop, a click | `UpstreamIsShown`, `DisabledIsQuiet`, `StopsEnd`, `LoopEnds` |
| `stops_forever` | a service of two dependencies | `StopsEnd` is violated |

What the safety properties say is what the engine does, for services of several
containers as for those of one.  `service_unhealthy` and `restart_loop` are kept
per service, and the loop over its containers raises and resolves them one after
the other, so the last one decides: `SicknessIsShown` and `LastIsCalm` say so of
the health alert, of the restart alert and of the mark of the auto-stop, and
`LoopIsShown` says which container may hide a restart loop: one that comes later
and has no restart in the window, and no other.  All three speak of the moments
between two sweeps; who reads the tables during one may see a row that a later
container is about to change.
`RestartsAreReal` holds as long as the agent answers, a condition the property
states itself.

Two containers are what an overwritten row needs.  Two restarts, of one container or
of both, reach threshold and maximum, so that the auto-stop is met before and after
a restart leaves the window.  That more restarts, containers and services change
nothing is what the theorems of section 8 say of these five properties.  The
liveness properties are about services of one dependency.

Fairness.  The engine is one goroutine, each of its calls has a timeout, and the
ticker fires again and again: `WF(Engine)`.  The clock goes on: `WF(Time)`.
Nothing is assumed of containers, users or the outcome of calls.

### Worth knowing

1. *One key, several containers.*  mempool and ckstats have two containers, truffels
   three.  A sick container has no alert between sweeps if the last one is up and not
   unhealthy, and a restart loop none if a later one is calm.  A calm last container also
   deletes the mark of the auto-stop made for another (line 401): at the next sweep
   the service may be stopped again, which the comment at line 29 ("avoid repeated
   stops") wants to prevent.
2. *One key, several dependencies.*  A healthy later dependency resolves the alert
   for an earlier one (line 318) and deletes the mark of the auto-stop (319): in
   the mode flag_and_stop the service is taken down again at every sweep
   (`stops_forever`), and in either mode the alert is gone between sweeps.
3. *No answer is an answer.*  An agent that times out makes RestartCount 0; with
   the next answer the restarts of a container's whole life are counted as new,
   which may raise a restart alert and, with it, stop the service.

## 5. The self-update

`SelfUpdate` is `applySelfUpdate` (engine.go:686-743), the detached script of the
agent (`truffels-agent/main.go:1280-1330`), the reconciliation by the process that
comes next and `pruneOldImages` (790-849).

| Model | Code |
|---|---|
| `tree`, `file` | the tag checked out in /repo; the tag the compose file names |
| `images`, `stack` | the images docker holds; the running containers, by the tag on them and the code they were built from |
| `script` | the transient systemd unit: asleep for three seconds, or between its down and its up |
| `pruners` | goroutines of `pruneOldImages`, each with the list it computed from its snapshot of the log |
| `mode`, `recon`, `pc`, `job`, `check`, `logs`, `alert` | as in section 3 |

`Checkout`, `Rewrite`, `Build` (once per image), `Mark` and `Detach` are the
statements of `applySelfUpdate`; every one may fail, and a failure undoes nothing.
`TearDown` and `BringUp` are the two halves of the script: the first kills the
process and all its goroutines, the second builds again from whatever the tree and
the file hold by then.  `Boot`, `JudgeStuck`, `ReconcileAlert`, `ReconcileRecord`
and `Serve` are the next process.  `Strand` is a host that loses the script or a
build that fails in it.

The run `self_update` (2 requests, 3 versions, 2 images, 2 goroutines, a crash, a
publication, a lost script) shows: one goroutine works at a time and
writes its own row, the pruning list spares the newest success, and a tree or a
container apart from its label is explained by a row (`SelfUpdateInv`, which is
inductive and carries the proofs); pruning removes no image that the
newest success names, although it works from a snapshot while newer attempts run
(`PruneSpares`); what runs was built from the tag it is labelled with, unless a
later attempt moved the tree while the restart was pending (`CoherentOrCutOff`,
`DoneRunsIt`); an interrupted row is closed by the next process
(`RestartIsClosed`), and there is a next process (`StackComesBack`).  Two requests
make the second start in the window where the first has released its lock and its
row still says "restarting"; three versions let a third be published in between.
The window of the pruning is 2 rows instead of 20.

Fairness: goroutines are scheduled and the agent's calls end, the containers
restart "unless-stopped", systemd runs the unit it accepted.  None is assumed of
requests, crashes and releases.

What the excuses in the properties stand for: the lock is released before the
process is replaced (line 731), so a second request may check another tag out
under the script; a failed self-update leaves tree and file at the new version.

## 6. Service control

`ServiceControl` is `handleServiceAction` and `handleUpdateConfig` of
`api/services.go` and `RunPreflight` of engine.go (219-374).  Every request is a
goroutine, no lock orders them, and each inspection, statement and command is one
action.

| Model | Code |
|---|---|
| `status` | what docker reports of each container: running, running but unhealthy, exited |
| `enabled`, `file`, `revision` | `services.enabled`; the config file; the newest row of `config_revisions` |
| `fit` | bitcoind's answer: synced and unpruned |
| `pc`, `job` | a request: service, action, `todo` (the dependencies or dependents still to be inspected), text |
| `happened` | a history variable: what the handlers do not guard against |

`CheckEnabled`, `CheckDeps`, `CheckChain`, `Admit`, `Up` are a start;
`CheckDependents`, `Stop` a stop; `Look`, `Stop`, `Clear` a disable; `WriteConfig`,
`Revise`, `Restart` a change of config; `Preflight`, `CheckDeps`, `Green` a
preflight; `Restart`, `Pull` and `Enable` are what they are called.  `Change` and
`MoveChain` are the world.

The handlers check, then act, with everyone else's steps in between, so hardly
anything holds without a condition.  Each property names exactly the mishaps it
excuses, recorded in `happened` when they occur: two conflicting requests in flight
("crossed"), an inspection without an answer that let a check pass ("blind"), a
container or the chain changing by itself ("changed", "moved"), a command or write
that failed ("failed"), a restart or pull-restart, which ask nothing ("forced"), a
disable, which asks no dependent ("disabled"), a revision that was not stored
("unsaved").  "crossed" is the race the code has no lock against, so what is left of
these properties is every other interleaving and failure.  `CheckChain` asks
bitcoind twice (api/services.go:204-219) and is one action; a chain that moves
between the two answers is "moved" like one that moves after them:

* `OrderKept`: no service runs while one it depends on is down;
* `DisabledIsDown`: a disabled service has no container up;
* `UnfitStaysDown`: what needs the whole chain is down on a node that lacks it;
* `FileIsRecorded`: the newest revision is what the file holds;
* `PreflightHolds`: a green preflight is still true when it is read.

`ControlInv` joins them with what they rest on (`Crossing`, `WholeOrDown`,
`StartIsSound`, `StopIsSound`, `DisableIsSound`).  The run `control` has bitcoind,
mempool and mempool-db: a dependency across projects, one within a project, and
read-only infrastructure; two goroutines and three events, so that a request, an
opposed one and a change of the host can fall between any two steps.

Worth knowing: a disable leaves a degraded service as it is and takes a service
down under its dependents, although `README.md:37` of the repository promises
dependency enforcement; a restart starts a disabled service.

## 7. The other handlers

They share no state.  `Access` has a run of its own, `access`.  The other three are
checked in one, `handlers`: the first state of `MCHandlers` chooses a component, and
only it acts, since no step of one reads what another writes.  Each is checked with
its types (`AccessInv`, `AdministrationInv`, `BackupsInv`, `MonitoringInv`).

* `Access` (`auth/auth.go`, `api/auth.go`).  A cookie is the key it was signed
  with, and a call may bring any that has not expired, signed by us or not: reading
  the secret is how the code tells, and it generates one if there is none.
  `RateHolds`: no window holds more than `Limit` logins of a caller, for every
  window and not only those that end at a login, and `Limit` more for each restart
  of the process in it, since the limiter is in memory only (api/auth.go:14-17).  A
  caller is a value of `r.RemoteAddr` (line 52), the constant `Remotes`: the address
  that the proxy names, and an address *and port* when none is named; the comment
  at line 13 says "per-IP", which the code leaves to the proxy.
  `SecretSettles`: a session secret, once there and with nobody about to write one,
  never changes.
  `PasswordSettles`: a password, once set and with no setup past its check, is not
  replaced by a setup, unless the check could not read it (its error is dropped,
  api/auth.go:93).  That two first sessions may generate two secrets, and two
  setups both succeed, is in the model and is what "settled" and "owned" exclude.
* `Backups` (`api/backup.go`).  `AnsweredIsThere`: the archive of the newest "ok"
  is in the directory, whole, unless exports overlapped, shared a second, or the
  clock went back; partial archives count among the five that are kept, and names
  decide what is old.  The alert of a failed export is a flag no property is about.
* `Administration` (`api/settings.go`, the agent's tuning and prunes).  A form is
  written key by key and given up at the first key that is unknown or cannot be
  written; a tuning is a script of several commands that fails, or is killed,
  between any two.  Histories say what that leaves behind: `torn`, the keys that a
  form had written when it was given up, until a form for them is answered; and
  `parted`, the knobs whose script ended half way, until one goes through or the
  host boots.
  `SettingsHold`: the settings are those of the forms answered "ok" and of the one
  being written, except those that are torn, unless two forms for a key were in
  flight together.  `TuningSurvives`: what the kernel and journald do is what they
  will do after the next boot, except for a knob that is parted, and for swappiness
  if two scripts for it were in flight together (journald reads the disk in the end,
  however they race).  The images and the cache are there because the prunes change
  them; no property is about them.
* `Monitoring` (`metrics/host.go`, `alerts/engine.go:83-157`,
  `store/monitoring.go`).  `RecordedIsReal`: the history never shows traffic that
  did not flow.  The host's rows together show no more than flowed, unless two
  goroutines collected at once or a counter was not read; a row of a container
  shows no more than the container moved since the stats before (`moved`, a history
  field of the row).
  The run `container_hidden` violates `EveryContainerIsSampled`: the step of the
  downsampling is computed over the rows of all containers of a service, although
  the comment says "maxRows applies per container" (store/monitoring.go:125); with
  an even step and two containers one of them loses all points but the last.

Bounds: two goroutines; four logins of one caller against a limit of two in a window
of two ticks, and three setups, calls and restarts of the process; three requests or
power cuts of the administrator; four exports against two archives kept, in four
seconds; two bytes of traffic, two failures and requests, four ticks with a prune at
the fourth and a row kept for one, so that the prune drops rows.  Each lets the
counter it bounds go one past its limit.

Worth knowing: odd ticks collect without storing, and a page that collects takes
the delta away from the next stored row, so the history under-reports; it never
over-reports.  A setting that cannot be parsed is accepted and reads as its
default.

## 8. Proofs

### The update engine

`UpdateEngineProofs` proves, for every registry, kinds, projects, versions,
number of goroutines, window and budget:

* `Invariance`: `Spec => []UpdateInv`.
* `Exclusion`: `Spec => []MutualExclusion`.
* `Truth`: `Spec => DoneTellsTheTruth`.

They rest on the named assumptions of `UpdateEngine`: the registry is a non-empty
sequence, every service has a kind and a project, `None` is neither a version nor
a service, the bounds are naturals.

The argument.  Mutual exclusion is not inductive alone: that a held lock has an
owner needs locals that agree with program counters (`LocalsOK`), and that a
working goroutine holds its lock (`LockHeld`) is what makes `Request` safe.  Truth
needs two more facts of a goroutine in the middle of its work: the row it will
write is the one it created, with its own service and version (`OwnsRow`), and
from the rewrite on, its service's next start is of that version, and from its
start on any container of it runs that version (`Installing`).  Those survive the
steps of others because another goroutine has another service
(`MutualExclusion`), and because whoever restarts a project can only remove a
container or start what is staged (`StepIsBounded`).  `UpdateInv` is the
conjunction.  `StepMoves` factors out what all steps of a goroutine have in
common, so that locks and locals are treated once and not per action; each action
then has a step for rows and containers.  `BystanderKept` is the interference
lemma for all other goroutines.

On these rest, under the same assumptions:

* `Refinement`: `Spec => LogIsALifecycle`, the engine implements `UpdateLifecycle`.
* `Offers`, `Attempts`, `Clears`: `OffersAreReal`, `AttemptsNameVersions` and
  `SuccessClearsAlert` always hold.

Its invariant `LogInv` adds to `UpdateInv` what the tables say about each other.
`RowsFollow`: the row of a goroutine has the status its program counter implies
and is the newest of its service, and "rolled_back" is only written over
"restarting".  `ReconFollows`: what the reconciliation still has to judge is
exactly the rows that say "restarting", so none is left when it serves.
`JobsNameVersions`: once an attempt is decided it has two versions.  The hard case
is a rollback, whose check row may be deleted between the comparison and the
insert; `KnownOnceTried` is why it is not: a service with an attempt keeps a
current version unless it is a digest, which is never rolled back by hand, and
`ChecksFollow` is why the check loop, which writes a version it read earlier,
respects that.  `AlertsFollow`: without a crash an alert over a success stands at
most until the goroutine that succeeded resolves it.  A step of the engine is then
one step of the lifecycle: `CreateLog` begins an attempt (`MutualExclusion` and
`OwnsRow` say the service has no other), the five steps that mark a row advance it
(`RowsFollow` says from where), `Release` finishes it, and the reconciliation
recovers; every other step leaves the log alone.

### The alert engine

`AlertEngineProofs` proves, for every registry, dependency graph, setting and
budget:

* `AlertsAreSound`: `Spec => []AlertInv`, in which `OneOpenAlert` is a conjunct.
* `CountedRestartsAreReal`: `Spec => []RestartsAreReal`.
* `SickServicesAreShown`: `Spec => []SicknessIsShown`.
* `LoopingServicesAreShown`: `Spec => []LoopIsShown`.
* `CalmServicesAreQuiet`: `Spec => []LastIsCalm`.

They rest on the named assumptions of `AlertEngine`: the order is a non-empty
sequence of the services, each has a non-empty sequence of containers and a
sequence of dependencies that are services, no two containers have one name, the
settings are naturals.  The registry of the code satisfies all of them.

The argument.  `OneOpenAlert` is not inductive: an INSERT adds a row whatever the
table holds.  `NoneMeanwhile` says that what the SELECT did not find is still not
there when the INSERT comes, because the one goroutine that inserts is the one
that stands in between, and everyone else only resolves.  To say which row that is
the sweep must stand at a service and a container that exist (`Placed`), with
locals of their kind.  `SingleWriter` is the conjunction.  Steps of the sweep come
in three shapes, each with a lemma: those that leave the alerts alone
(`QuietStepKeeps`), those that change them (`AlertsStepKeeps`) and, before an
insert, a SELECT (`SelectThenRaise`); steps of everyone else leave the sweep alone
(`OutsideStepKeeps`).

`RestartsAreReal` bounds two counts, that of the window and that of the event log,
each of which a step increases by the difference of a count read a while ago and one
remembered from the sweep before.  Meanwhile the container may restart, be
recreated and count from 0 again, or the engine may lose its memory.  The invariant
says not only that what is counted happened, but that what the next comparison would
add has happened too (`Within`), and, from the inspection on, what the pending
comparison and the one after it would add together (`Pending`).  `Growth` is monotone
enough for both to survive a restart of the container, which adds one to all sides
(`OneMoreWithin`, `OneMorePending`), and its removal, which lowers the count
(`FewerWithin`, `FewerPending`).  Steps that do neither are one lemma
(`AsideIsReal`).  An inspection without an answer writes the count 0, and the proof
fails there, as the code does: hence `Answered`, which never becomes true again
(`OutagesFall`).

The other three speak of rest, and of rows that the sweep writes again for each
container of a service, so their invariants follow it from container to container.

* `SickInv`: a row tells of the state that the last container had when its health was
  last judged.  While the sweep is at the earlier ones nothing is claimed; that the
  last one puts it right is.  Before the INSERT for the last container, a row that
  the SELECT found is still there or was dismissed.
* `LoopInv`: `Done(s)` is how many containers of the service the sweep has been
  through, all of them when it is elsewhere.  `LoopClaim` says of those what
  `LoopIsShown` says of all: one that loops, with none after it calm, is shown.
  One more container keeps the claim, because a calm one resolves the row and is
  itself the reason why none before it need be shown (`LoopClaimStays`).
* `CalmInv`: `CalmClaim(s)` is that the last container has restarts in the window
  (`Restless`), or neither alert nor mark is there.  It holds from the
  judgement of the last container until the sweep comes back to the service, because
  the loop of another service resolves and marks that other service only, and time
  takes restarts out of a list only when a sweep judges it (`CalmStays`).

`ShownStays` and `ClosedStays` are the frames, for a row that is there and for one
that is not.  That a step for one container says nothing of another is
`NameTellsSpot`: a name tells the service and the place in it.  A restart of the
process forgets the states, the lists and the marks, and all three claims with them.

### Service control

`ControlProofs` proves, for every registry, dependency graph, number of requests
and budget, `ControlIsSound` (`Spec => []ControlInv`) and from it
`StartsAndStopsKeepOrder` (`OrderKept`), `DisabledServicesAreDown`
(`DisabledIsDown`), `ServicesWaitForTheChain` (`UnfitStaysDown`),
`RevisionsMatchFiles` (`FileIsRecorded`) and `PreflightsHold` (`PreflightHolds`).
They rest on `RegistryAssumption`: dependencies are services, only infrastructure
shares a compose project with another service, it depends on nothing, lies in the
project of whoever depends on it and is read-only, and every service has containers
of its own.

The argument.  `ControlInv` splits in two: `World`, which speaks of containers,
flags, files and the chain, and `Sound(w)`, which says of one goroutine that all it
has checked so far is still so, unless a mishap that its property excuses has been
recorded.  `Sound(w)` is the strengthening: `OrderKept` alone says nothing of a
start that has inspected its dependencies and not yet called `up`.  A step of `w` is
proved to keep `World` and `Sound(w)` from `Sound(w)`; `BystanderSound` is the
interference lemma for everyone else.  It holds because a step that could break what
another has checked either belongs to a conflicting request, and then `Crossing`
says that "crossed" was recorded when the later of the two began (`NoConflict`), or
is a mishap itself, recorded in the same step.  Mishaps are never unrecorded, so an
excuse lasts.  What a start brings up and a stop takes down beside the service
itself is read off the registry assumption (`ProjectMates`, `UpstreamIsManaged`).

### The self-update

`SelfUpdateProofs` proves, for all releases, image lists, goroutines and budgets:

* `SelfUpdateIsSound`: `Spec => []SelfUpdateInv`;
* `CodeMatchesTag`: `Spec => []CoherentOrCutOff`;
* `PruningSparesTheNewest`: `Spec => PruneSpares`;
* `DoneMeansRunning`: `Spec => DoneRunsIt`.

They rest on the named assumptions of `SelfUpdate`: a non-empty list of images,
`None` is no version, the bounds are naturals and the pruning looks back at least
one row.

The argument.  Each property needs a fact that reaches over the death of the
process, and so cannot be about its memory alone.  `CoherentOrCutOff` speaks of
containers that a script started from a tree and a file it found: `TreeIsKnown`
says that when the two differ, a row tells whose checkout it was and that this row
will never be closed as done - it is "pulling" or "failed", and whoever still owns
it can only fail or bring the file along; `CodeIsKnown` carries that to the
containers once the goroutine is dead.  `CutOffStays` is its frame lemma: the
reconciliation judges only rows left at "restarting".  `PruneSpares` needs that
the newest success seen in the snapshot is still the newest of the whole log when
the calls fall (`HoldsSpare`): a later one could only come from the
reconciliation, which judges the newest row first (`PrunersFollow`), and an
attempt of this process ends at "restarting" (`LogGrows`, `LastDoneStays`).
`DoneRunsIt` needs `RestartsToFile`: the last row, while it is "restarting", names
what the file names, and an undisturbed process that is not yet serving was built
from that file.  `OneAtATime` and `OwnsRow` make all rows but one immutable.

### Access

`AccessProofs` proves, of `Access` and for any number of requests, callers, restarts,
passwords and keys, any limit and window:

* `LoginsAreLimited`: `Spec => []AccessInv`;
* `SecretNeverMoves`: `Spec => SecretSettles`;
* `PasswordNeverMoves`: `Spec => PasswordSettles`.

The first rests on `AccessAssumption` (`None` is neither a password nor a key,
limit, window and bounds are naturals), the last two on nothing.  `StepIs` reduces
the actions to five shapes: only a request that found no secret goes to write one,
only one that found no password, or could not read it, goes to set one.

`RateHolds` speaks of every window, the limiter only of the one that ends now, and
only of the logins it still remembers, since the last restart at most.  `LimiterOK`
closes the gap: logins and restarts are in the order of time (`Ordered`), no window
so far holds too many (`Sparse`), and what is remembered is the tail of all logins
(`Remembers`).  What was forgotten is paid for (`Paid`): in any window that ends now
it is at most `Limit` for each restart in it.  `KeepsTheWindow`: so what the limiter
keeps of its tail is what the window holds of it; `OneMoreLogin` adds one where that
is below the limit; `OneMoreRestart` turns all that is remembered, `Limit` at most,
into what is forgotten, and pays for it.  Windows that begin later are subsets.

### Administration

`AdministrationProofs` proves, for any settings, values and levels and any number of
requests and power cuts:

* `SettingsAreAnswered`: `Spec => []AdministrationInv`;
* `TuningIsKept`: `Spec => []TuningSurvives`.

The invariant is `AdminHolds`.  `SettingsHold` says of a key that it is as answered
or as some form wrote it; to survive the answer of that form it must be known that
no other form in flight has the key.  That is `Alone`: while `crossed` is false, no
two requests in flight want the same.  Under it, what a form has written is there
(`WrittenHolds`), and what no form in flight has written, and none has torn, is as
it was last answered (`SaidHolds`); a form that is answered mends what it names,
because all of it is written.  `KnobHolds` and `JournalHolds` do the same for the
scripts: whoever is about to write the file has set the kernel to its value, also
after an earlier script failed, and without such a one they agree unless the knob
is parted.  `FormsEnd` is the frame for goroutines that end, one or all of them, and
`StillHold` for all steps that touch neither settings nor knobs.

### The records: backups and monitoring

`RecordsProofs` proves two theorems.  The first is `AnsweredIsKept`: `BackupsSpec =>
[]BackupsInv`, for any number of requests, archives kept and seconds, from
`BackupsAssumption`.  The invariant is `ArchivesHold`: while nothing was recorded in
`mishaps`, the archive that is being made is the newest of the directory (`Newest`)
and all that its prune will remove is older, so the prune spares it; between two
exports the archive of the newest answer is whole, and the prune that removes it
belongs to an export that is past its own tar.  That the newest survives a prune
(`NewestIsKept`) is where `MaxBackups >= 1` is used.

The second is `RecordsAreReal`: `MonitoringSpec => []MonitoringInv`, for any
containers, pages, ticks, retention and failures, from `MonitoringAssumption`
(the ticker is no page, `Listing` is a sequence, "no entry" is no number).  What is
stored is bounded by what flowed, but a delta is on its way through three places
before it is stored, and none of them is atomic with the others.  `FlowIsReal` sums
them for each counter: stored, in the hands of the ticker (`Taken`), to be put by
who has read the counter, and to be seen by the next reading after that.  A reading
moves an amount from the last term to the one before, a put to the first, a store
inside the first; a reset, a failed statement and a page that answers only lower a
term.  The sum says what the code does only while one goroutine collects
(`OneCollects`): the proof of `ReadHost` needs that nobody else holds the counter,
and this is where two collections at once break it.  `AsideHost` is the frame for
the steps of a goroutine that collects nothing.  Containers need no such sum: the
one ticker reads and compares, and `BoxesHold` says that what the next comparison
would give (`Since`) is at most what was moved since the last one, through resets.
That a prune keeps rows honest is `SelectAtIsSeq`.

### Selections

The code filters slices in loops (the restart history, the login attempts) and
deletes rows by a condition.  As a `SelectSeq` that is a recursion no installed
prover sees into.  `Selections` states the same by the indices that are kept:
the result has as many entries as indices, and the n-th entry is at the n-th
smallest of them.  `SelectionLemmas` proves what the proofs need: the n-th
smallest exists (`NthIsMember`), the result is a sequence over the same elements
(`SelectAtIsSeq`), and to keep all indices from some one on is to cut off a
prefix (`SelectAtIsTail`).  The induction in them goes by the least
counterexample (`NatMin`), which needs no induction theorem with an operator as
its parameter.

### Only model-checked

* All liveness, which is out of the prover's reach, `ENABLED` and fairness with it.
* The counterexamples of section 3, 4 and 7, which are behaviours of an instance.

## 9. What is not modelled

* The host's own alerts (disk, temperature): a threshold on a gauge, with no
  memory but the alert itself.
* HTTP, JSON and the tag filter of the version sources; parsing and formatting of
  host information, journal, logs and statistics; the RPC of bitcoind: stateless
  input and output, of which the models keep the outcomes.
* `DockerPrune` takes no update lock: an image pulled by an update and not yet
  running may be removed under it, which the models have as a command that fails.
* The pruning that follows an ordinary update (engine.go:537).  It is the function that
  `SelfUpdate` starts from the reconciliation (777), there with the rows of truffels;
  `UpdateEngine` has no images to prune, so nothing is claimed of it.
* Statements of SQLite that fail, except where a section says otherwise.
* Config revisions of updates and audit rows, which nothing reads back.
* The web interface, which keeps no state of its own beyond a page, and the
  installer, which runs once.

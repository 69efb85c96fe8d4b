# stoker-operator: TLA+ specifications

Stoker syncs the configuration of Ignition gateways from git. A **controller**
resolves the git ref of a `GatewaySync` object and publishes the commit in a
metadata ConfigMap. In every gateway pod a sidecar **agent** polls that
ConfigMap, fetches the commit, copies files into the gateway's data directory,
asks the gateway to scan them and reports in a status ConfigMap shared by all
agents of the object. The controller collects these reports into conditions. A
**webhook receiver** in the controller's process sets an annotation that
overrides the ref, and a **pod injector** adds the agent to new pods, with the
credentials it needs; one kind of these, GitHub App tokens, the controller
itself renews.

Paths below are relative to the repository (`src/`). `PROJECT.json` holds the
exact source lines of every definition, the runs, the mutants, the hazards and
the theorems.

## 1. Inventory

| Part | State | Operations | What is hard | What makes it correct |
|---|---|---|---|---|
| Agent (`internal/agent/agent.go`, `watcher.go`, `health.go`) | record of the last sync, backoff, mutex, in-progress flag, shutdown flag, checkout, data directory, watcher channel | startup (wait, clone, initial sync), triggered sync, post-commission sync, designer wait, shutdown | two goroutines over one directory; metadata, branch and gateway change during a sync; kills, SIGTERM, failing scans; lost triggers | one sync at a time; the report agrees with what was copied and loaded; the record and the gateway converge |
| Status ConfigMap (`internal/agent/configmap.go`) | one ConfigMap, one key per gateway | read-modify-write with three attempts; deletion by the controller | concurrent writers; abandoned requests applied late; conflicts up to the limit | each gateway has a register of its own |
| Controller (`internal/controller/gatewaysync_controller.go`, `gateway_discovery.go`) | object on the API server, cached copy, work queue, metadata ConfigMap, status | reconcile (finalizer, cleanup, pause, secrets, ref, metadata, discovery, RBAC, conditions, patch, annotation, requeue) | stale copies; unconditional merge patches; a predicate that filters events; failures between steps; restarts | metadata dies with its object; an object stays scheduled; the ref is followed; Ready tells the truth |
| Agent RBAC (`internal/controller/rbac.go`) | RoleBinding subjects | ensure | pods that wait in Init for what is granted from the pods found | no agent waits for ever |
| Webhook receiver (`internal/webhook/receiver.go`) | annotations of the object | annotate | races with the controller that clears the annotation | a request is acted upon |
| Backoff (controller map, agent counter) | failure counters | record, reset, delay | reset order; integer overflow | the documented delays |
| Sync engine (`internal/syncengine`) | staging directory, live directory, temporary files | stage, merge, remove orphans, diff | kills and errors between any two files; remains of earlier syncs; a gateway that writes into the same directory; overlapping mappings, filters, links | a completed sync is exact, an interrupted one tears nothing, what is not owned is not touched |
| Git client (`internal/git`) | checkout | ls-remote, clone or fetch, authenticate | refs move between the calls | the commit returned is the one checked out; agent and controller use the same credential |
| GitHub App tokens (`internal/git/githubapp.go`, controller) | token cache, token Secret, requeue | exchange, cache, write the Secret, requeue | expiry against requeues, shortcuts, failures and restarts; objects that share a cache entry | the Secret of a polled object holds a valid token |
| Pod injector (`internal/webhook/inject.go`) | none (the pod) | admission | environment, mounts, volumes and Secrets that must fit together and are fixed at admission | the agent finds the credential its object names |
| Ignition client (`internal/ignition`) | none | port check, scan, designer sessions | a scan that fails half way | outcomes told apart |
| Profiles and templates (`internal/agent/profile.go`) | none | check the mappings, render, patch | optional and required sources, links, hints; order of the checks | what is refused is refused before anything is copied |
| Metrics, entry points, charts, generated code | - | - | nothing is read back | - |

Interaction: the controller and the agents share only the two ConfigMaps, the
token Secret and the RoleBinding that lets the agents read the metadata; the
injector decides once per pod which object and which Secrets those are; the receiver and the
controller share the object's annotations; users, the remote repository, the
kubelet and the gateway are surroundings.

## 2. Modules

| Module | Models |
|---|---|
| `Agent`, `MCAgent` | one agent with its gateway, remote, metadata ConfigMap and kubelet |
| `AgentProofs` | theorems about `Agent` |
| `Controller`, `MCController` | one object, its reconciler, informer cache, work queue, receiver, pods |
| `ControllerProofs` | theorems about `Controller` |
| `StatusStore` | abstract: one register per gateway |
| `StatusConfigMap` | `WriteStatusConfigMap` by concurrent agents; implements `StatusStore` |
| `StatusProofs` | theorems about `StatusConfigMap`, refinement included |
| `Backoff` | the delays of controller and agent, with the int64 shift |
| `BackoffProofs` | theorems about `Backoff` |
| `DirectoryUpdate` | abstract: the update of a directory, file by file, towards a fixed goal |
| `SyncEngine`, `MCSyncEngine` | `buildSyncPlan` and `ExecutePlan`, file by file; implements `DirectoryUpdate` |
| `SyncEngineProofs` | theorems about `SyncEngine` |
| `SyncReportProofs` | more of them: the report, the directories left behind, the refinement |
| `TokenRefresh` | token cache, token Secret and requeue of the objects of one installation, with time |
| `TokenRefreshProofs` | theorems about `TokenRefresh` |
| `GitAccess`, `MCGitAccess` | injector, kubelet and the agent's git client, composed with `TokenRefresh` |
| `GitAccessProofs` | theorems about `GitAccess`, on top of those about `TokenRefresh` |

### Agent

Two processes, the goroutine of `Run` (`"main"`) and the one of
`postCommissionSync` (`"post"`). `pc` says where each is; `syncOnce` is four
actions because the surroundings can move between them:
`SyncWithProfile` (metadata read again, pod labels and plan folded in),
`ExecutePlan`, `Scan`, `Report`. `Return` is what the caller does next: the
initial sync marks the agent ready and starts the other goroutines, a triggered
sync sets or clears the backoff and runs its deferred calls, the
post-commission sync unlocks and drops the error.

* Data. Commits and profile documents are numbers. The content of the data
  directory is the pair (commit, profiles) it was copied from; `NoContent` is
  everything else: empty, factory defaults, a torn copy. A profile is what the
  control flow reads of it: found, paused, dry run, designer policy.
* Faults are pairs (goroutine, call). A failed scan may have been applied by the
  gateway wholly, in part or not at all. A failed copy may leave a mixture, a
  failed fetch the old checkout, the new one or a mixture.
* Contexts. A triggered sync uses `context.WithoutCancel`; the other two, and
  the error reports of a triggered sync, use the context of `Run`.
* `stable` marks the point from which the surroundings are quiet and healthy;
  liveness is stated from there on. Nothing forces it to come.
* A status write is one step. `StatusImplementsStore` justifies this: a call
  takes effect at most once, on its own entry only. What one agent's model
  leaves out is a write applied after the call was given up.
* `seen` is the poller's `lastVersion` relative to the current one.

### Controller

One object, since reconciles of one key never overlap. `cr` is the object on
the API server, `cache` the informer's copy, `event` an undelivered change that
passes the predicate, `dirty`/`timer` the key in the work queue now or later.
`gs` is the copy this reconcile works on (and the base of its patch), `st` the
status it builds. The status patch is a JSON merge patch: only what differs from
the base is sent, arrays as a whole; `touched` stands for differences in fields
that are not modelled (times, reasons, messages). The client decodes the
server's answer into the same copy (`Answer`), so the annotation is then compared
on the object as it was when the patch was applied. `Update` is refused if the
copy is out of date. `recent` is "less than a polling interval since
`LastSyncTime`", `normal` that the stored spec survives a round trip through the
Go types, in which case adding the finalizer does not change the generation.
The metadata ConfigMap and the RoleBinding are owned, so a change queues the
key; the status ConfigMap has no owner.

Not in this module: garbage collection, removal of the finalizer by hand, the
token Secret (see `TokenRefresh`; its deletion is nowhere), the third ConfigMap (`stoker-changes`, never written), objects
other than the GatewaySync being read from a stale cache, authentication and
parsing of webhooks.

### StatusConfigMap and StatusStore

The API server applies requests one at a time; a request is in flight until it
is handled, and stays in flight when its caller times out, is cancelled or dies.
A status is identified with the number of the call that wrote it, because every
status carries the time it was made (one second of resolution: two calls of one
agent within a second with equal content cannot be told apart, and need not be).
The agents' client reads the API server directly (`cmd/agent/main.go`).
`StatusStore` is the promise: begin, take effect at most once, succeed only
after that, fail at any time, in which case the effect may still come, unless a
newer status of the same gateway is there; a cleanup empties everything.

### Backoff

Delays in seconds. 30 s is 29296875 * 2^10 ns, so the sign and size of the
int64 `30s << k` follow from the low 54 - k bits of 29296875: `Shifted` gives
the seconds, -1 for a negative and 301 for any larger value. `row` counts
failures in a row as the documents count them, `reset` marks the objects whose
counter starts again although failures go on: by the code's own resets, or
because the controller restarts and its map is gone.

### SyncEngine and DirectoryUpdate

A directory is a function from `Paths` to entries: absent, a directory, a link
or a content. A mapping carries the part of the checkout it names, placed at its
destination. Templates and patches are functions on contents. The exclude
patterns belong to the plan: the set of paths they match, and the set of paths
whose temporary files they match, as `a*` does for a file `a`. Protected patterns are a set
of paths for all plans, the order of `filepath.WalkDir` is `Rank`.

* `Start` is `buildSyncPlan` (the first mapping that is refused decides) and the
  fresh staging directory; `StageMapping` stages one mapping; `StagingDone`
  branches on dry run; `MergeDirectory`, `CopyToTemp` and `Rename` are the walk
  of `mergeStagingToLive` with `copyFile` cut at the rename; `RemoveOrphan` and
  `RemoveLitter` are `cleanOrphans`, one file at a time with the directories it
  leaves empty; `Finish` removes staging and returns.
* `IOFails` and `Killed` can come between any two of these. An error takes the
  temporary file of the copy along (deferred `Remove`), a kill does not.
* `GatewayWrites`: the gateway creates, changes and removes files of its own.
  `RuntimeAssumption` says that no plan supplies or owns those paths. A file that
  both write is not modelled: whoever comes last wins.
* `base` is a history variable: the tree the sync began with, plus what the
  gateway wrote since. `Target` and `Want` are the reference definition: they say
  from the profile alone what ought to be at a path.
* Links in the live directory are taken to point to files; the destination `.`
  is not modelled (like one with a trailing slash it owns nothing). The
  temporary files that kills leave behind, one or more of them, are identified by
  the path they stand beside; they stay until the removal of orphans finds them.
* `DirectoryUpdate` is the promise, in terms of files alone: the goal is fixed
  when an update begins, each step puts one file where the goal has it or, when
  all those are there, removes one the goal does not have; success means that the
  goal is reached, anything else stops between two files. This is what `Agent`
  takes for granted when its `ExecutePlan` is one step that leaves the content of
  one commit, or, if it fails, a mixture. The refinement mapping forgets
  directories, staging and temporary files.

### TokenRefresh and GitAccess

There is no clock. A token is the time it is still valid, a requeue the time it
still takes, `LastSyncTime` its age; `Tick` moves all of them. A reconcile begins
when it is due, or before that because of an event (whether the pending requeue
survives such an event does not matter: it is replaced by that reconcile's own),
and takes at most `Span`. What is kept of it is what decides whether the token is
looked at and when the next reconcile comes. `missed` counts the reconciles of an
object that ended, or were cut off by a restart, before its Secret was written.

`Covered` is the condition under which the Secret is promised to stay fresh:
polling is on, and two intervals, the reconciles between and, if one failure is
tolerated, its setback fit into the refresh buffer of 5 minutes. The default
interval of 60 s does; 5 minutes does not (see section 4).

Left out: the pause and the deletion of an object, the delay with which the
kubelet refreshes a mounted Secret, a failing read of the object itself (it comes
from the informer's cache and fails only when the object is gone), the growing
delay of the rate limiter after several failed status patches in a row.

`GitAccess` adds pods. `Handle` picks the object (annotation, or the only one of
the namespace) and fixes environment, mounts and volumes; `KubeletStarts` needs
the Secrets of the volumes; `BuildGitEnv` is what the agent's git then finds by
following variable, mount and volume; `ResolveAuth` what the controller uses. The
fields of `spec.git.auth` are a set, and several methods may be set at once: the
two sides then go through them in different orders, and `Agreed` is what they
agree on. The users' own Secrets exist. A pod admitted
while the injector was down has no agent and is not in this model (`Controller`
has such pods).

## 3. Runs

Passing runs:

| Run | Bounds | Shows |
|---|---|---|
| `agent_safety` | 2 commits, 1 ref, all calls of both goroutines may fail; kill, SIGTERM, gateway crash, push, deletion; 2 million states | `SyncExclusive`, `NoTriggerAtShutdown`, `SyncedMeansLoaded`, `TriggerReportsCopiedCommit`, `RecordMeansLoaded`, the inductive invariant |
| `agent_designers` | 5 documents (missing, paused, dry run, policies fail and wait), sessions that open and close or stay, SIGTERM; 250 thousand states | `BlockedMeansWaiting`, `PostCommissionNotStarved` |
| `agent_converges` | 2 fixed refs, forward only, faults of the initial and of the triggered sync, kills, pause; 310 thousand states | `RecordSettles`, `GatewayConverges` |
| `controller_safety` | 1 ref, 1 commit, all calls may fail; pause, webhook, delete, restart, secrets; 4 moves; 1.7 million states | `MetaOwned`, `StaysScheduled`, the inductive invariant |
| `controller_follows` | 2 refs, 2 commits; edits, pushes, webhooks; 3 moves; 520 thousand states | `RefFollowed` |
| `controller_ready` | 1 pod, with or without the agent; reports, profiles; 4 moves; 210 thousand states | `ReadySettles`, `AgentsUnblocked` |
| `status_store` | 2 agents, 3 attempts, 2 calls each, 1 cleanup; 75 thousand states | refinement of `StatusStore`, `RefusalsPaid`, the inductive invariant |
| `backoff` | 2 keys, all causes, webhooks, restarts, 8 failures in a row; 80 agent errors in a row: past the shift width; 490 thousand states | `DelaysAsDocumented`, `AgentWaits` |
| `sync_engine` | 10 paths, three releases (one with a trailing slash, one with excludes and a linked source), a dry run, a missing source, 5 refused profiles, errors and kills anywhere; 119 thousand states | `ResultExact`, `OldOrNew`, `DeletesLast`, `ReportsChanges`, `LitterCollected`, `NoHollowDirectory`, `FailsOnlyOnKindChange`, refinement of `DirectoryUpdate` |
| `git_access` | 2 objects of one installation (one polled, the other with a deploy key besides) and 2 others (a key with known hosts beside a token, a token), lifetime 6, buffer 5, interval 1, one tolerated failure, one pod; 650 thousand states | `TokenFresh`, `AgentAuthenticates` |

Why the bounds suffice: two commits tell old from new in every comparison the
agent makes (announced, checked out, copied, recorded, reported); a third would
only add renamings. Four moves of the controller's surroundings contain
"create, delete, create again, webhook" and "create, pause, restart, delete";
reconciles, deliveries and timers are not counted. With two agents, two calls
and a cleanup, one call does meet three refusals. The releases of `sync_engine`
add, change and drop files, overlay one mapping on another, patch and template,
turn a directory into a file and manage a destination below an unmanaged parent;
syncs follow each other without bound, so every profile meets what every other,
interrupted anywhere, left behind. In `git_access` the margin is one unit inside
the buffer, so that one more unit of delay would violate `TokenFresh`; reconciles
take no time there, because the composition with slower ones has over 10 million
states; `TokenRefresh` by itself was checked with reconciles that take time (1.4
million states), and the theorem is for all values. `CHECK_DEADLOCK FALSE` is set
where the system may stop: the controller with nothing queued and its moves
used up, agents that have made all their calls.

Violation runs: each checks one sentence of the documentation or of a comment
against the code (the quotations are in `PROJECT.json`).

| Run | What the counterexample shows |
|---|---|
| `agent_post_scan_fails` | the post-commission scan fails; the commit was recorded by the initial sync, so nobody retries and the entry stays Error |
| `sync_orphans_stay` | a destination with a trailing slash owns nothing, so a file dropped by the next commit stays |

### Fairness

`Agent`: weak fairness of the goroutines (the Go scheduler), of the fallback
ticker, of time (`BackoffExpires`), of the gateway's start once the startup probe
passes and of the kubelet's restart; strong fairness of `PostLock`, since a Go
mutex goes into starvation mode and hands itself to a waiter of more than one
millisecond. The ConfigMap poller needs no fairness: the fallback timer makes up
for it. `Controller`: weak fairness of the reconcile steps (the work queue is
served), the watch, the timers, time, and pods whose agent can read its metadata.
Users, pushes, faults and `Stabilise` have none. `SyncEngine`, `TokenRefresh` and
`GitAccess` state safety only: that a requeue comes in time is in `Tick`, which
does not let time pass a due reconcile.

## 4. Divergences kept as prose

Met while modelling and reproduced with TLC, but with no run of their own. The
models show each of them; none contradicts a property above, because the
property or its run states the condition under which it holds.

* Shutdown (`internal/agent/agent.go:187`). `Run` waits only for the triggered
  sync; SIGTERM during the post-commission copy cuts it off. `CHANGELOG.md:149`:
  the agent "waits up to 15s for any in-flight file sync to complete before
  exiting; prevents partial file writes when pods are terminated". `OldOrNew`
  bounds the damage: files are whole, but of two commits.
* Shift (`agent.go:337`). The 30th error in a row gives a negative wait, from the
  55th on it is 0. `docs/docs/reference/troubleshooting.md:102`: "the agent backs
  off exponentially (30s → 60s → 120s → 240s → 5min cap)".
* Lost request (`internal/controller/gatewaysync_controller.go:900`). A webhook
  between the re-read of the annotation and the merge patch loses its request:
  the patch has no precondition. `docs/docs/reference/annotations.md:53`:
  "Automatically cleared once `spec.git.ref` catches up".
* Optional source (`internal/agent/profile.go:110`). A source that is missing and
  not required counts as a directory; the walk over it fails and with it the
  whole sync. `docs/docs/reference/gatewaysync-cr.md:218`: it "defaults to `"dir"`
  and is silently skipped".
* Kind change (`internal/syncengine/plan.go:288`). A path that changes between
  file and directory fails this sync and every later one, because the merge never
  gets to the removal of the old entry.
* Token (`gatewaysync_controller.go:862`). A reconcile that answers from the
  recent resolution does not look at the token, and a token within the buffer
  does not shorten the requeue. With an interval of 5 minutes, as in
  `docs/docs/guides/webhook-sync.md:194` and `:201`, the Secret's token can expire
  before the next reconcile renews it. With polling disabled the requeue comes
  when the cached token reaches the buffer and normally renews it; it does not
  come in time when the token enters the buffer while a reconcile is under way,
  when the write of the Secret failed, or when another object's exchange has put
  a newer token into the cache that the requeue then follows.
* Combined methods (`gatewaysync_controller.go:510`, `internal/webhook/inject.go:365`).
  With a GitHub App beside a deploy key or a token the controller resolves the ref
  with the App's token and the agent fetches with the key or the token.
  `api/v1alpha1/gatewaysync_types.go:41` says "Exactly one method should be
  specified.", and nothing enforces it.
* Branch ahead (`internal/agent/agent.go:305`). The clone is ahead of the
  metadata and is recorded. A triggered sync of the older announcement fetches
  the same commit and fails its scan. When the metadata catches up nothing
  differs from the record, and the entry stays Error. Needs `"push"`.
* Rollback (`agent.go:305`). A sync that copied another commit and failed its
  scan records nothing; going back to the recorded commit is "unchanged" while
  the other files stay on disk. Needs `"rollback"`.
* Stale commit (`agent.go:236`). The post-commission sync reports the commit of
  the initial clone while it copies from a checkout that a triggered sync has
  moved. `pkg/types/sync_status.go:23`: "SyncedCommit is the git commit SHA
  currently synced to this gateway."
* Cached webhook (`internal/controller/gatewaysync_controller.go:503`). A
  webhook for the ref in use is answered from the cached resolution within the
  polling interval. `docs/docs/guides/webhook-sync.md:9`: "configure a webhook
  so pushes trigger syncs immediately".
* Mixed status (`gatewaysync_controller.go:833`). `LastSyncCommit` and
  `LastSyncRef` are separate fields of a merge patch against a base that may be
  stale. The spec goes from one branch to another and back while a reconcile
  works on the middle state; its patch and the next one's, which follows a push
  and changes the commit only, leave the commit of one branch beside the other
  branch's name. If the spec now names that branch, the shortcut at `:503` takes
  the pair for a recent resolution and publishes it, until the polling interval
  is over. `api/v1alpha1/gatewaysync_types.go:436`: "lastSyncRef is the git ref
  that was last synced", and of the commit the same. Needs `"push"`; without it
  `ControllerPublishedFits` excludes it.
* Prefix (`gatewaysync_controller.go:886`). Annotation `v1` is cleared by spec
  `1`, which `matchRef` does not match with `v1`.
  `docs/docs/reference/annotations.md:57` describes the normalisation.
* Pause (`gatewaysync_controller.go:150`). A paused object returns before the
  metadata write. `docs/docs/reference/gatewaysync-cr.md:345`: "The controller
  continues to reconcile and resolve refs, but agents will not perform syncs."
* Creation (`gatewaysync_controller.go:137`). No requeue after adding the
  finalizer, and the predicate filters that update unless it also normalised the
  spec. `test/e2e/controller-core/02-finalizer-cleanup/chainsaw-test.yaml:58`
  waits for RefResolved.
* No polling (`gatewaysync_controller.go:839`). An agent's report queues nothing,
  so with polling disabled Ready does not follow it.
* Sidecar (`gateway_discovery.go:164`). An entry left by an earlier pod of the
  same name hides that a pod has no agent.
* Validation (`gatewaysync_controller.go:157`). Profiles that fail it are
  published. `docs/docs/guides/multi-gateway.md:93`: "so you'll catch errors
  before they reach sync".
* Reset order (`gatewaysync_controller.go:214`) and annotation (`:116`). The
  failure counter is reset just before the API key check and by every reconcile
  of an annotated object: both retry every 30 s. `DelaysAsDocumented` states the
  documented delays for everything else, and that these two (and a restart of the
  controller, which forgets the counters) never make them longer. `CHANGELOG.md:148`: "transient git and
  secret validation errors now back off exponentially".

## 5. Theorems

All are proved by TLAPS for every value of the constants that satisfies the
modules' named assumptions. `AgentAssumption`, `ControllerAssumption`,
`StatusAssumption`, `BackoffAssumption` and `TokenAssumption` ask for no more than
disjoint names, natural-number bounds and at least one attempt;
`AccessAssumption` that each object sets any combination of the fields of
`spec.git.auth`, `knownHosts` only inside `sshKey`, and that the objects of `Keys`
are exactly those that set `githubApp`;
`LifetimeAssumption` that a token outlives the reconcile that fetches it by more
than the buffer (GitHub's hour against 5 minutes); `TreeAssumption` and
`DataAssumption` that paths form a tree that a walk visits from the top, and that
what a profile or a gateway holds are directory trees; `RuntimeAssumption` is
explained above.

*Agent.* `AgentInvariant`: `AgentInv` is inductive. `SyncExclusive` is not: the
argument needs `LockDiscipline`, which says who holds `syncMu` at each step and
that the unlocked initial sync is over before the other goroutine exists. Two
more parts follow a sync: `CheckoutInv` (from the fetch to the report the
checkout is at the commit the job carries, because only the holder of the mutex
moves it) and `SyncedMeansLoaded` (nothing is copied between scan and report;
a crash of the gateway takes `up` away). `JobOK` gives the types the steps need.
From it: `AgentTypeCorrect`, `AgentSyncExclusive`, `AgentNoTriggerAtShutdown`
(the 15 s drain in `Run` is dead code, since the goroutine that would drain is
the one that syncs), `AgentSyncedMeansLoaded`, `AgentReportsCopiedCommit`.
`AgentBlockedMeansWaiting` adds `BlockedInv` (only an agent that is ready shuts
down, so the initial sync does not return past its report) and assumes that the
status writes of the main goroutine succeed, as its run does: a write that fails
after the wait leaves the flag set. `AgentRecordMeansLoaded` is an action
property: `AgentInv` says what the gateway has loaded at the report, and
`PendingInv` (only the initial sync, before the agent is ready, reports Pending)
that a sync which records has been through a scan.

*Controller.* `ControllerInvariant`: four parts make `MetaOwned` and
`StaysScheduled` inductive. `Named`: every copy of an object names a ref.
`Held`: as long as a reconcile works on a live object, the finalizer keeps the
real one there, however stale the copy; and nothing was resolved before the
finalizer. `Parted`: no stale copy mixes an object under deletion with a live
one, so a cleanup never runs beside an object that would be published again.
`Announced`: what the cache has not seen of the spec is announced by an event,
and what the running reconcile has not seen, up to its status patch, by the queued
key (the answer of the patch may then be ahead of the cache); this is what
keeps an unpaused object from being forgotten by the reconcile of its paused
copy. From it: `ControllerTypeCorrect`, `ControllerMetaOwned`,
`ControllerStaysScheduled`.

`ControllerPublishedFits` asks what the merge patches do to each other: where
refs do not move (`"push"` is not among the events, as with tags) the agents are
never told a ref with the commit of another. `PairInv` says that every copy of
the status (server, cache, reconcile) holds a ref with its commit or neither, and
that a reconcile changes both fields or none; `MergePaired` that a patch then
keeps this however stale its base. No run has this property, for it is false with
branches (section 4).

*Status.* `StatusInvariant`: `FlightInv` (a request that would be accepted
changes its own entry only, to a later call: revisions identify contents),
`EntryInv` (entries are never ahead of the calls), `PaidInv` (a refused attempt
is covered by a change). From it `StatusRefusalsPaid`, and
`StatusImplementsStore`: initial states map to initial states and each step to a
step or a stutter of `StatusStore`.

*Backoff.* `BackoffInvariant`. `DelaysAsDocumented` compares the delay with the
failures in a row, the code computes it from its counter: `CountsFollow` relates
the two (equal unless the counter started again, be it by the code or with a new
process, never ahead unless a webhook started a new row). That the doubling reaches the cap at the fifth failure and
stays there, for every number of failures, rests on a least-number argument about
the recursive function `Doubled` (`WFMin` of the library, since its induction
rule cannot be instantiated here). From it: `BackoffTypeCorrect`,
`BackoffDelaysAsDocumented`, `BackoffAgentWaits` (the agent's wait is the
documented one until the shift overflows), for all bounds.

*SyncEngine.* `EngineInvariant`. None of the properties is inductive: they speak
of the end of a sync or of what is wanted, and a step knows only staging.
`EngineInv` adds `StagingIs` (after n mappings staging holds, at each path, the
file of the last of them that supplies it, and no other file) and says how far
the live directory is: `MergeAt` (a path not yet visited is as it was, one that
was visited is as in staging), `CleanAt` (what is left are orphans, where the
plan owns the path). That temporary files lie in existing directories keeps the
pruning of empty ones from removing one that is not. From it: `EngineTypes`,
`SyncIsExact`, `NothingIsTorn`, `RemovalComesLast`, `LitterIsCollected`,
`OnlyKindChangeFails`, for all trees, profiles, filters and walk orders.
`LitterIsCollected` leaves out the temporary files that the plan's own patterns
exclude: the code does not look at them.

`SyncReportProofs` goes on from there. `ReportInv` says what has been counted so
far, by the walk (`MergeReport`) and by the removal (`CleanReport`), against the
tree the sync began with: `ReportIsOfChanges`. `FilledInv` says that during the
removal an owned directory from which something was taken still holds something:
`NoDirectoryLeftHollow`. `SyncImplementsUpdate` is the refinement of
`DirectoryUpdate`: initial states map to initial states, and each step to a step
or a stutter. It rests on `EngineInv` through `GoalIsWanted` (the abstract goal
is `Want`, the reference definition), `StagingIsWanted` (a rename puts what the goal
has there) and `WantedInPlace` (removal begins when all of that is in place).

*TokenRefresh.* `TokenInvariant`. `TokenInv` says for each object how much life
the token in its Secret has against what can still come: `Scheduled` for the
pending requeue, `SecretSince` and `CacheSince` for a reconcile that takes the
shortcut (the age of `LastSyncTime` bounds the age of the last look at the
token), `Shortcut` for one that has taken it, `Grace` for what a tolerated
failure has cost, `CacheIsFresh` for the exchange under way. `TokenStaysFresh`
follows.

*GitAccess.* `AccessInv` is `TokenInv` and `PodInv` (a running pod's token Secret
exists, because a Secret is only replaced). `SecretStaysFresh` and `AccessTypes`
carry the results over to the composition; `AgentsAuthenticate` adds that for
every combination of methods the variable leads to one mount, one volume and the
Secret the object names, which is the one the controller uses unless a GitHub App
is combined with another method.

Only model-checked: the liveness properties `PostCommissionNotStarved`,
`RecordSettles`, `GatewayConverges`, `RefFollowed`, `ReadySettles` and
`AgentsUnblocked`, since fairness and ENABLED are outside the prover. Every
invariant, action property and refinement that a passing run checks is a theorem.

## 6. Not modelled

The text processing inside templates, JSON patches and globs (functions and sets
in `SyncEngine`), the search order of `matchRef`, webhook authentication and
payload parsing, image, resources and probes of the injected container, the
HTTP requests to Ignition and GitHub, defaulting and validation of the API types,
metrics and events (nothing reads them back), entry points (flags and wiring),
charts and generated code. Hazards without a property are listed in
`PROJECT.json` with the reason.

## 7. Plan

1. `Refs`: `parsePayload` and `matchRef` over a bounded set of names.
2. `System`: controller and two agents over the shared ConfigMaps, with an
   abstract specification "every gateway runs the commit of the ref".
3. Deletion and pause of an object in `TokenRefresh`; a change of
   `spec.git.auth` after admission in `GitAccess`.
4. Agent: syncs that bypass the designer policy, a status write that is lost
   after a recorded sync, rendering from metadata newer than the checkout.
5. Proofs: safety steps behind the liveness properties (what a step may not undo
   once the surroundings are quiet), and `Agent` with its `ExecutePlan` stated
   through `DirectoryUpdate`, so that the refinement composes.

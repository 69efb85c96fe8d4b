------------------------------- MODULE Agent -------------------------------
(***************************************************************************)
(* One sync agent (internal/agent): the native sidecar of a gateway pod.   *)
(*                                                                         *)
(* Two goroutines copy files: "main", which runs Agent.Run (the blocking   *)
(* initial sync and then one handleSyncTrigger per watcher event), and     *)
(* "post", which runs postCommissionSync once the gateway answers.  Both   *)
(* go through syncOnce, whose steps are the actions SyncWithProfile,       *)
(* ExecutePlan, Scan and Report, and share syncMu, the repository checkout,*)
(* the staging directory, the live data directory and the agent's entry    *)
(* of the status ConfigMap.                                                *)
(*                                                                         *)
(* Commits and profile documents are numbers so that an environment        *)
(* without "rollback" can be told to move forward only.  The content of    *)
(* the data directory is the (commit, profiles) pair it was copied from;   *)
(* NoContent stands for everything that is no single commit's content: an  *)
(* empty directory, factory defaults, a mixture left by an interrupted     *)
(* copy.  backoffUntil is the flag "now is before backoffUntil"; the delay *)
(* itself is in module Backoff.                                            *)
(***************************************************************************)
EXTENDS Integers

CONSTANTS
  Commits,  \* commits the remote repository may show
  Refs,     \* git refs the GatewaySync may name
  Docs,     \* values of the "profiles" key of the metadata ConfigMap
  Resolve,  \* what this agent's profile is in each of them
  None,     \* the empty string / nil
  Faults,   \* pairs <<goroutine, call>>: calls that may fail before `stable'
  Env       \* what else the surroundings may do before `stable'

Procs == {"main", "post"}
Calls == {"read", "fetch", "copy", "scan", "designer", "write"}
EnvMoves == {"crash", "sigterm", "gatewayCrash", "designers", "delete",
             "push", "rollback", "pause"}
Policies == {"proceed", "wait", "fail"}
Profile == [found : BOOLEAN, paused : BOOLEAN, dryRun : BOOLEAN,
            policy : Policies]

ASSUME AgentAssumption ==
  /\ Commits \subseteq Nat /\ Commits # {}
  /\ Docs \subseteq Nat
  /\ None \notin Commits /\ None \notin Docs /\ None \notin Refs
  /\ None \notin Procs
  /\ Resolve \in [Docs -> Profile]
  /\ Faults \subseteq Procs \X Calls
  /\ Env \subseteq EnvMoves

VARIABLES
  tip,            \* remote repository: the commit each ref points to
  meta,           \* metadata ConfigMap, written by the controller
  gateway,        \* the gateway container: up, commissioned, loaded content
  designers,      \* Designer sessions are open on the gateway
  ctxDone,        \* SIGTERM has cancelled the context of Run
  stable,         \* from now on the surroundings are quiet and healthy
  repo,           \* commit checked out under RepoPath
  live,           \* content of the gateway's data directory
  status,         \* this gateway's entry of the status ConfigMap
  pc,             \* where each goroutine is
  job,            \* arguments and locals of its current sync
  syncMu,         \* holder of Agent.syncMu
  syncInProgress, \* Agent.syncInProgress
  lastSynced,     \* Agent.lastSyncedCommit and lastSyncedProfiles
  backoff,        \* now is before Agent.backoffUntil
  ready,          \* HealthServer.initialSyncDone; the watcher runs
  shuttingDown,   \* HealthServer.shuttingDown
  syncCh,         \* Watcher.syncCh holds an event
  seen            \* lastVersion of pollConfigMap: none, stale or current

envVars  == <<tip, meta, gateway, designers, ctxDone, stable>>
diskVars == <<repo, live>>
lockVars == <<syncMu, syncInProgress>>
memVars  == <<lastSynced, backoff, ready, shuttingDown>>
watchVars == <<syncCh, seen>>
vars == <<envVars, diskVars, status, pc, job, lockVars, memVars, watchVars>>

OrNone(S) == S \cup {None}
Content   == [commit : OrNone(Commits), profiles : OrNone(Docs)]
NoContent == [commit |-> None, profiles |-> None]
Outcomes  == {"Synced", "Pending", "Error"}
Status    == [state : Outcomes \cup {"None"}, commit : OrNone(Commits),
              blocked : BOOLEAN]
Entry(state, commit) == [state |-> state, commit |-> commit, blocked |-> FALSE]
Job   == [commit : OrNone(Commits), ref : OrNone(Refs),
          profiles : OrNone(Docs), plan : OrNone(Docs),
          outcome : OrNone(Outcomes)]
NoJob == [commit |-> None, ref |-> None, profiles |-> None, plan |-> None,
          outcome |-> None]

Both(main, post) == [p \in Procs |-> IF p = "main" THEN main ELSE post]

SyncSteps == {"plan", "exec", "scan", "report"}
MainSteps == SyncSteps \cup {"boot", "clone", "select", "read", "lock", "fetch",
              "designer", "wait", "draining", "exiting", "exited"}
PostSteps == SyncSteps \cup {"off", "poll", "lock", "done"}

(* One type invariant: every variable of the agent has its Go type's values. *)
TypeOK ==
  /\ tip \in [Refs -> Commits]
  /\ meta \in [exists : BOOLEAN, commit : Commits, ref : Refs, profiles : Docs,
               paused : BOOLEAN]
  /\ gateway \in [up : BOOLEAN, commissioned : BOOLEAN, loaded : Content]
  /\ designers \in BOOLEAN /\ ctxDone \in BOOLEAN /\ stable \in BOOLEAN
  /\ repo \in OrNone(Commits) /\ live \in Content /\ status \in Status
  /\ pc \in [Procs -> MainSteps \cup PostSteps]
  /\ pc["main"] \in MainSteps /\ pc["post"] \in PostSteps
  /\ job \in [Procs -> Job]
  /\ syncMu \in OrNone(Procs) /\ syncInProgress \in BOOLEAN
  /\ lastSynced \in Content
  /\ backoff \in BOOLEAN /\ ready \in BOOLEAN /\ shuttingDown \in BOOLEAN
  /\ syncCh \in BOOLEAN /\ seen \in {"none", "stale", "current"}

Init ==
  /\ tip \in [Refs -> Commits]
  /\ \E r \in Refs, d \in Docs :
       meta = [exists |-> FALSE, commit |-> tip[r], ref |-> r, profiles |-> d,
               paused |-> FALSE]
  /\ gateway = [up |-> FALSE, commissioned |-> FALSE, loaded |-> NoContent]
  /\ designers = FALSE /\ ctxDone = FALSE /\ stable = FALSE
  /\ repo = None /\ live = NoContent /\ status = Entry("None", None)
  /\ pc = Both("boot", "off")
  /\ job = Both(NoJob, NoJob)
  /\ syncMu = None /\ syncInProgress = FALSE
  /\ lastSynced = NoContent /\ backoff = FALSE
  /\ ready = FALSE /\ shuttingDown = FALSE
  /\ syncCh = FALSE /\ seen = "none"

-----------------------------------------------------------------------------
(* Outcomes of the calls the agent makes.                                   *)

Fails(p, call) == ~stable /\ <<p, call>> \in Faults

\* The initial sync and the post-commission sync use the context of Run; a
\* triggered sync uses context.WithoutCancel.
Cancelled(p) == ctxDone /\ (p = "post" \/ ~ready)

\* WriteStatusConfigMap(ctx, ...) of entry s; its error is dropped or logged.
WriteStatus(p, cancelled, s) ==
  status' \in (IF cancelled THEN {} ELSE {s})
              \cup (IF cancelled \/ Fails(p, "write") THEN {status} ELSE {})

\* NativeGitClient.CloneOrFetch: what the ref points to when git asks for it.
CloneOrFetch(ref) == tip[ref]

\* PortCheck: the gateway answers, with anything but 503.
PortResponds == gateway.up

\* TriggerScan posts to both scan endpoints, three attempts each.  A scan that
\* fails may have been applied by the gateway, wholly or in part.
TriggerScan(p, ok) ==
  \/ ok /\ gateway.up /\ gateway' = [gateway EXCEPT !.loaded = live]
  \/ ~ok /\ ~gateway.up /\ UNCHANGED gateway
  \/ /\ ~ok /\ gateway.up /\ Fails(p, "scan")
     /\ \E c \in {gateway.loaded, live, NoContent} :
          gateway' = [gateway EXCEPT !.loaded = c]

\* handleStartupz, the startup probe of the sidecar.
StartupOK == ready

\* Run has returned, or the process was killed: memory is gone, and a copy
\* that was under way may be left half merged.
ProcessGone ==
  /\ live' \in {live}
       \cup {NoContent : p \in {q \in Procs : pc[q] = "exec"}}
  /\ pc' = Both("exited", "off")
  /\ job' = Both(NoJob, NoJob)
  /\ syncMu' = None /\ syncInProgress' = FALSE
  /\ lastSynced' = NoContent /\ backoff' = FALSE
  /\ ready' = FALSE /\ shuttingDown' = FALSE
  /\ syncCh' = FALSE /\ seen' = "none"
  /\ UNCHANGED <<envVars, repo, status>>

-----------------------------------------------------------------------------
(* Agent.Run up to the initial sync.                                        *)

WaitForMetadata ==
  /\ pc["main"] = "boot"
  /\ \/ ctxDone /\ ProcessGone
     \/ /\ ~ctxDone /\ meta.exists
        /\ job' = [job EXCEPT !["main"].ref = meta.ref,
                              !["main"].profiles = meta.profiles]
        /\ pc' = [pc EXCEPT !["main"] = "clone"]
        /\ UNCHANGED <<envVars, diskVars, status, lockVars, memVars, watchVars>>

InitialClone ==
  /\ pc["main"] = "clone"
  /\ \/ (ctxDone \/ Fails("main", "fetch")) /\ ProcessGone
     \/ /\ ~ctxDone
        /\ repo' = CloneOrFetch(job["main"].ref)
        /\ job' = [job EXCEPT !["main"].commit = repo']
        /\ pc' = [pc EXCEPT !["main"] = "plan"]
        /\ UNCHANGED <<envVars, live, status, lockVars, memVars, watchVars>>

-----------------------------------------------------------------------------
(* syncOnce, run by either goroutine.                                       *)

\* syncOnce returns to its caller.  The initial sync is followed by MarkReady
\* and the start of the other goroutines; a triggered sync sets or clears the
\* backoff and runs its deferred calls; postCommissionSync unlocks and ends.
Return(p, ok) ==
  \/ /\ p = "main" /\ ~ready
     /\ ready' = TRUE
     /\ pc' = Both("select", "poll")
     /\ job' = Both(NoJob, [NoJob EXCEPT !.commit = job["main"].commit,
                                         !.ref = job["main"].ref])
     /\ UNCHANGED <<lockVars, backoff>>
  \/ /\ p = "main" /\ ready
     /\ pc' = [pc EXCEPT !["main"] = "select"]
     /\ job' = [job EXCEPT !["main"] = NoJob]
     /\ syncMu' = None /\ syncInProgress' = FALSE
     /\ backoff' = ~ok
     /\ UNCHANGED ready
  \/ /\ p = "post"
     /\ pc' = [pc EXCEPT !["post"] = "done"]
     /\ job' = [job EXCEPT !["post"] = NoJob]
     /\ syncMu' = None
     /\ UNCHANGED <<syncInProgress, backoff, ready>>

\* reportError, then an error return that records nothing.
FailSync(p) ==
  /\ WriteStatus(p, Cancelled(p), Entry("Error", job[p].commit))
  /\ Return(p, FALSE)
  /\ UNCHANGED <<envVars, repo, lastSynced, shuttingDown, watchVars>>

\* The metadata ConfigMap is read again here; a paused profile copies nothing.
SyncWithProfile(p) ==
  /\ pc[p] = "plan"
  /\ \/ /\ \/ ~meta.exists \/ Cancelled(p) \/ Fails(p, "read")
           \/ ~Resolve[meta.profiles].found
        /\ FailSync(p) /\ UNCHANGED live
     \/ /\ meta.exists /\ ~Cancelled(p) /\ Resolve[meta.profiles].found
        /\ job' = [job EXCEPT ![p].plan = meta.profiles]
        /\ pc' = [pc EXCEPT ![p] = IF Resolve[meta.profiles].paused
                                   THEN "scan" ELSE "exec"]
        /\ UNCHANGED <<envVars, diskVars, status, lockVars, memVars, watchVars>>

\* buildSyncPlan: what the plan copies is given by the checkout and the profiles
\* document (and by labels and metadata that templates may name).
Planned(p) == [commit |-> repo, profiles |-> job[p].plan]

\* SyncEngine.ExecutePlan: stage, merge into the live directory, drop orphans.
ExecutePlan(p) ==
  /\ pc[p] = "exec"
  /\ LET dryRun == Resolve[job[p].plan].dryRun IN
     \/ /\ live' = IF dryRun THEN live
                   ELSE Planned(p)
        /\ pc' = [pc EXCEPT ![p] = "scan"]
        /\ UNCHANGED <<envVars, repo, status, job, lockVars, memVars, watchVars>>
     \/ /\ Fails(p, "copy")
        /\ live' \in (IF dryRun THEN {live} ELSE {live, NoContent})
        /\ FailSync(p)

\* Mutants of ScanOutcome: a failed scan is ignored; a state outside the API.
ScanOutcomeIgnored(ok) == "Synced"
ScanOutcomeUnnamed(ok) == IF ok THEN "Synced" ELSE "Failed"

\* "Synced" needs both scan endpoints to have answered 2xx.
ScanOutcome(ok) == IF ok THEN "Synced" ELSE "Error"

Scan(p) ==
  /\ pc[p] = "scan"
  /\ LET Done(outcome) ==
           /\ job' = [job EXCEPT ![p].outcome = outcome]
           /\ pc' = [pc EXCEPT ![p] = "report"]
           /\ UNCHANGED <<lockVars, memVars>>
     IN
     \/ /\ shuttingDown
        /\ lastSynced' = [commit |-> job[p].commit,
                          profiles |-> job[p].profiles]
        /\ Return(p, TRUE)
        /\ UNCHANGED <<gateway, shuttingDown>>
     \/ /\ ~shuttingDown /\ Resolve[job[p].plan].dryRun
        /\ Done("Synced") /\ UNCHANGED gateway
     \/ /\ ~shuttingDown /\ ~Resolve[job[p].plan].dryRun
        /\ p = "main" /\ ~ready
        /\ Done("Pending") /\ UNCHANGED gateway
     \/ /\ ~shuttingDown /\ ~Resolve[job[p].plan].dryRun
        /\ p = "post" \/ ready
        /\ \E ok \in BOOLEAN : TriggerScan(p, ok) /\ Done(ScanOutcome(ok))
  /\ UNCHANGED <<tip, meta, designers, ctxDone, stable, diskVars, status,
                 watchVars>>

\* Mutant of Recorded: a failed scan is recorded as synced all the same.
RecordedAlways(p) == [commit |-> job[p].commit, profiles |-> job[p].profiles]

\* lastSyncedCommit and lastSyncedProfiles after the report.
Recorded(p) == IF job[p].outcome = "Error" THEN lastSynced
               ELSE [commit |-> job[p].commit, profiles |-> job[p].profiles]

\* The status entry, then either an error return or the commit is recorded.
Report(p) ==
  /\ pc[p] = "report"
  /\ WriteStatus(p, Cancelled(p), Entry(job[p].outcome, job[p].commit))
  /\ lastSynced' = Recorded(p)
  /\ Return(p, job[p].outcome # "Error")
  /\ UNCHANGED <<envVars, diskVars, shuttingDown, watchVars>>

-----------------------------------------------------------------------------
(* The main loop: handleSyncTrigger.                                        *)

OnEvent ==
  /\ pc["main"] = "select" /\ syncCh
  /\ syncCh' = FALSE
  /\ pc' = [pc EXCEPT !["main"] = IF backoff THEN "select" ELSE "read"]
  /\ UNCHANGED <<envVars, diskVars, status, job, lockVars, memVars, seen>>

TriggerRead ==
  /\ pc["main"] = "read"
  /\ \/ /\ ~meta.exists \/ ctxDone \/ Fails("main", "read") \/ meta.paused
        /\ pc' = [pc EXCEPT !["main"] = "select"] /\ UNCHANGED job
     \/ /\ meta.exists /\ ~ctxDone /\ ~meta.paused
        /\ job' = [job EXCEPT !["main"].commit = meta.commit,
                              !["main"].ref = meta.ref,
                              !["main"].profiles = meta.profiles]
        /\ pc' = [pc EXCEPT !["main"] = "lock"]
  /\ UNCHANGED <<envVars, diskVars, status, lockVars, memVars, watchVars>>

Unchanged == /\ job["main"].commit = lastSynced.commit
             /\ job["main"].profiles = lastSynced.profiles

TriggerLock ==
  /\ pc["main"] = "lock" /\ syncMu = None
  /\ \/ /\ Unchanged
        /\ pc' = [pc EXCEPT !["main"] = "select"]
        /\ job' = [job EXCEPT !["main"] = NoJob]
        /\ UNCHANGED lockVars
     \/ /\ ~Unchanged
        /\ syncMu' = "main" /\ syncInProgress' = TRUE
        /\ pc' = [pc EXCEPT !["main"] = "fetch"]
        /\ UNCHANGED job
  /\ UNCHANGED <<envVars, diskVars, status, memVars, watchVars>>

\* Mutant of Abandon: syncInProgress is not reset by a deferred call.
AbandonKeepsFlag(b) ==
  /\ pc' = [pc EXCEPT !["main"] = "select"]
  /\ job' = [job EXCEPT !["main"] = NoJob]
  /\ syncMu' = None /\ backoff' = b
  /\ UNCHANGED <<syncInProgress, lastSynced, ready, shuttingDown>>

\* handleSyncTrigger returns early: deferred unlock, backoff as given.
Abandon(b) ==
  /\ pc' = [pc EXCEPT !["main"] = "select"]
  /\ job' = [job EXCEPT !["main"] = NoJob]
  /\ syncMu' = None /\ syncInProgress' = FALSE
  /\ backoff' = b
  /\ UNCHANGED <<lastSynced, ready, shuttingDown>>

\* Mutant of Fetched: the commit of the metadata is reported, not the one
\* that was checked out.
FetchedAsAnnounced(got) == job

\* The arguments of syncOnce after the fetch: result.Commit, meta.Profiles.
Fetched(got) == [job EXCEPT !["main"].commit = got]

\* The commit that was checked out replaces the one read from the metadata; a
\* failed fetch may have got as far as the checkout, or part of it.  Then the
\* profile of the metadata read before decides whether the Designer sessions
\* are asked about.
FetchRepo ==
  /\ pc["main"] = "fetch"
  /\ LET got == CloneOrFetch(job["main"].ref)
         profile == Resolve[job["main"].profiles]
     IN
     \/ /\ Fails("main", "fetch")
        /\ WriteStatus("main", ctxDone, Entry("Error", job["main"].commit))
        /\ Abandon(TRUE) /\ repo' \in {repo, got, None}
     \/ /\ ~profile.found
        /\ repo' = got
        /\ WriteStatus("main", ctxDone, Entry("Error", got))
        /\ Abandon(backoff)
     \/ /\ profile.found
        /\ repo' = got
        /\ job' = Fetched(got)
        /\ pc' = [pc EXCEPT !["main"] = IF profile.paused \/ profile.dryRun
                                        THEN "plan" ELSE "designer"]
        /\ UNCHANGED <<status, lockVars, memVars>>
  /\ UNCHANGED <<envVars, live, watchVars>>

SessionsUnknown == ctxDone \/ ~gateway.up \/ Fails("main", "designer")
SessionsKnown   == ~ctxDone /\ gateway.up

\* setDesignerBlocked: a Pending entry that names the last synced commit.
Blocked(b) == [state |-> "Pending", commit |-> lastSynced.commit,
               blocked |-> b]

ProceedToSync ==
  /\ pc' = [pc EXCEPT !["main"] = "plan"]
  /\ UNCHANGED <<job, lockVars, memVars>>

CheckDesignerSessions ==
  /\ pc["main"] = "designer"
  /\ LET policy == Resolve[job["main"].profiles].policy IN
     \/ /\ \/ SessionsUnknown
           \/ SessionsKnown /\ (~designers \/ policy = "proceed")
        /\ ProceedToSync /\ UNCHANGED status
     \/ /\ SessionsKnown /\ designers /\ policy = "fail"
        /\ WriteStatus("main", ctxDone, Entry("Error", job["main"].commit))
        /\ Abandon(backoff)
     \/ /\ SessionsKnown /\ designers /\ policy = "wait"
        /\ WriteStatus("main", ctxDone, Blocked(TRUE))
        /\ pc' = [pc EXCEPT !["main"] = "wait"]
        /\ UNCHANGED <<job, lockVars, memVars>>
  /\ UNCHANGED <<envVars, diskVars, watchVars>>

\* The wait loop ends and syncing goes on: the sessions are closed, or they
\* cannot be asked about.
WaitEnds ==
  /\ SessionsUnknown \/ (SessionsKnown /\ ~designers)
  /\ ProceedToSync
  /\ WriteStatus("main", ctxDone, Blocked(FALSE))

\* Mutants of WaitTimesOut: no deferred setDesignerBlocked(false); no timeout.
WaitTimesOutBlocked ==
  /\ Abandon(backoff)
  /\ WriteStatus("main", ctxDone, Blocked(TRUE))
WaitsForever == ctxDone /\ Abandon(backoff) /\ UNCHANGED status

\* The context is done or the five minutes are over.  The deferred
\* setDesignerBlocked(false) overwrites the Error entry of the timeout, unless
\* that last write fails.
WaitTimesOut ==
  /\ Abandon(backoff)
  /\ \/ WriteStatus("main", ctxDone, Blocked(FALSE))
     \/ /\ ~ctxDone /\ Fails("main", "write")
        /\ status' = Entry("Error", job["main"].commit)

WaitForDesigners ==
  /\ pc["main"] = "wait"
  /\ WaitEnds \/ WaitTimesOut
  /\ UNCHANGED <<envVars, diskVars, watchVars>>

\* <-ctx.Done(): MarkNotReady, then leave at once or drain.
Shutdown ==
  /\ pc["main"] = "select" /\ ctxDone
  /\ shuttingDown' = TRUE
  /\ pc' = [pc EXCEPT !["main"] = IF syncInProgress THEN "draining"
                                  ELSE "exiting"]
  /\ UNCHANGED <<envVars, diskVars, status, job, lockVars, lastSynced, backoff,
                 ready, watchVars>>

\* Run returns nil; a drain ends with shutdownCh or with its deadline.
Exit == pc["main"] \in {"draining", "exiting"} /\ ProcessGone

-----------------------------------------------------------------------------
(* postCommissionSync.                                                      *)

PortCheck ==
  /\ pc["post"] = "poll"
  /\ \/ ctxDone /\ pc' = [pc EXCEPT !["post"] = "done"]
               /\ job' = [job EXCEPT !["post"] = NoJob]
     \/ PortResponds /\ pc' = [pc EXCEPT !["post"] = "lock"] /\ UNCHANGED job
  /\ UNCHANGED <<envVars, diskVars, status, lockVars, memVars, watchVars>>

\* Mutant of PostLock: the post-commission sync is not serialized.
PostLockNoMutex ==
  /\ pc["post"] = "lock"
  /\ job' = [job EXCEPT !["post"].profiles = lastSynced.profiles]
  /\ pc' = [pc EXCEPT !["post"] = "plan"]
  /\ UNCHANGED <<envVars, diskVars, status, lockVars, memVars, watchVars>>

PostLock ==
  /\ pc["post"] = "lock" /\ syncMu = None
  /\ syncMu' = "post"
  /\ job' = [job EXCEPT !["post"].profiles = lastSynced.profiles]
  /\ pc' = [pc EXCEPT !["post"] = "plan"]
  /\ UNCHANGED <<envVars, diskVars, status, syncInProgress, memVars, watchVars>>

-----------------------------------------------------------------------------
(* Watcher: the fallback timer and the ConfigMap poller.                    *)

\* Mutant of FallbackTick: the poller is trusted once it has seen a version.
FallbackTickBeforePoll ==
  /\ ready /\ ~ctxDone
  /\ syncCh' = (syncCh \/ seen = "none")
  /\ UNCHANGED <<envVars, diskVars, status, pc, job, lockVars, memVars, seen>>

FallbackTick ==
  /\ ready /\ ~ctxDone
  /\ syncCh' = TRUE
  /\ UNCHANGED <<envVars, diskVars, status, pc, job, lockVars, memVars, seen>>

PollConfigMap ==
  /\ ready /\ ~ctxDone /\ meta.exists /\ seen # "current"
  /\ syncCh' = (syncCh \/ seen = "stale")
  /\ seen' = "current"
  /\ UNCHANGED <<envVars, diskVars, status, pc, job, lockVars, memVars>>

\* Time passes backoffUntil.
BackoffExpires ==
  /\ backoff /\ backoff' = FALSE
  /\ UNCHANGED <<envVars, diskVars, status, pc, job, lockVars, lastSynced,
                 ready, shuttingDown, watchVars>>

-----------------------------------------------------------------------------
(* The surroundings: remote repository, controller, gateway, kubelet.       *)

agentVars == <<status, pc, job, lockVars, memVars>>

MoveTip(r, c) ==
  /\ ~stable /\ "push" \in Env
  /\ c # tip[r] /\ ("rollback" \in Env \/ c > tip[r])
  /\ tip' = [tip EXCEPT ![r] = c]
  /\ UNCHANGED <<meta, gateway, designers, ctxDone, stable, diskVars, agentVars,
                 watchVars>>

\* ensureMetadataConfigMap of the controller.
WriteMeta(r, d, paused) ==
  /\ ~stable /\ (paused => "pause" \in Env)
  /\ "rollback" \in Env \/ (tip[r] >= meta.commit /\ d >= meta.profiles)
  /\ meta' = [exists |-> TRUE, commit |-> tip[r], ref |-> r, profiles |-> d,
              paused |-> paused]
  /\ meta' # meta
  /\ seen' = IF seen = "current" THEN "stale" ELSE seen
  /\ UNCHANGED <<tip, gateway, designers, ctxDone, stable, diskVars, agentVars,
                 syncCh>>

\* cleanupOwnedResources of the controller.
DeleteMeta ==
  /\ ~stable /\ "delete" \in Env /\ meta.exists
  /\ meta' = [meta EXCEPT !.exists = FALSE]
  /\ UNCHANGED <<tip, gateway, designers, ctxDone, stable, diskVars, agentVars,
                 watchVars>>

\* The gateway container starts once the startup probe has passed.
\* Its first boot (commissioning) may overwrite what was copied.
GatewayBoot ==
  /\ StartupOK /\ ~gateway.up
  /\ live' \in {live} \cup (IF gateway.commissioned THEN {} ELSE {NoContent})
  /\ gateway' = [up |-> TRUE, commissioned |-> TRUE, loaded |-> live']
  /\ UNCHANGED <<tip, meta, designers, ctxDone, stable, repo, agentVars,
                 watchVars>>

GatewayCrash ==
  /\ ~stable /\ "gatewayCrash" \in Env /\ gateway.up
  /\ gateway' = [gateway EXCEPT !.up = FALSE, !.loaded = NoContent]
  /\ designers' = FALSE
  /\ UNCHANGED <<tip, meta, ctxDone, stable, diskVars, agentVars, watchVars>>

ToggleDesigners ==
  /\ ~stable /\ "designers" \in Env /\ gateway.up
  /\ designers' = ~designers
  /\ UNCHANGED <<tip, meta, gateway, ctxDone, stable, diskVars, agentVars,
                 watchVars>>

Sigterm ==
  /\ ~stable /\ "sigterm" \in Env /\ ~ctxDone /\ pc["main"] # "exited"
  /\ ctxDone' = TRUE
  /\ UNCHANGED <<tip, meta, gateway, designers, stable, diskVars, agentVars,
                 watchVars>>

Kill == ~stable /\ "crash" \in Env /\ pc["main"] # "exited" /\ ProcessGone

\* The kubelet restarts the container.  After SIGTERM the whole pod may have
\* been replaced: a new repository emptyDir, the same data volume, a gateway
\* not yet started.
Restart ==
  /\ pc["main"] = "exited"
  /\ pc' = [pc EXCEPT !["main"] = "boot"]
  /\ ctxDone' = FALSE
  /\ \/ UNCHANGED <<repo, designers, gateway>>
     \/ /\ ctxDone
        /\ repo' = None /\ designers' = FALSE
        /\ gateway' = [gateway EXCEPT !.up = FALSE, !.loaded = NoContent]
  /\ UNCHANGED <<tip, meta, stable, live, status, job, lockVars, memVars,
                 watchVars>>

\* The surroundings settle: the controller has caught up with the remote, the
\* agent's profile calls for syncing, and nothing fails any more.
Stabilise ==
  /\ ~stable /\ ~ctxDone /\ ~designers
  /\ meta.exists /\ ~meta.paused /\ tip[meta.ref] = meta.commit
  /\ LET profile == Resolve[meta.profiles] IN
       profile.found /\ ~profile.paused /\ ~profile.dryRun
  /\ stable' = TRUE
  /\ UNCHANGED <<tip, meta, gateway, designers, ctxDone, diskVars, agentVars,
                 watchVars>>

-----------------------------------------------------------------------------
SyncOnce(p) ==
  SyncWithProfile(p) \/ ExecutePlan(p) \/ Scan(p) \/ Report(p)

MainStep == \/ WaitForMetadata \/ InitialClone \/ SyncOnce("main")
            \/ OnEvent \/ TriggerRead \/ TriggerLock \/ FetchRepo
            \/ CheckDesignerSessions \/ WaitForDesigners \/ Shutdown \/ Exit

PostStep == PortCheck \/ PostLock \/ SyncOnce("post")

Surroundings ==
  \/ \E r \in Refs, c \in Commits : MoveTip(r, c)
  \/ \E r \in Refs, d \in Docs, b \in BOOLEAN : WriteMeta(r, d, b)
  \/ DeleteMeta \/ GatewayBoot \/ GatewayCrash \/ ToggleDesigners
  \/ Sigterm \/ Kill \/ Restart \/ Stabilise

Next == \/ MainStep \/ PostStep \/ FallbackTick \/ PollConfigMap
        \/ BackoffExpires \/ Surroundings

Spec == Init /\ [][Next]_vars

\* Goroutines are scheduled, timers fire, the kubelet restarts containers and
\* the gateway finishes booting.  sync.Mutex hands the lock to a goroutine that
\* has waited for it (its starvation mode), hence strong fairness of PostLock.
\* Nothing is assumed of what may go wrong.
Fairness ==
  /\ WF_vars(MainStep) /\ WF_vars(PostStep) /\ SF_vars(PostLock)
  /\ WF_vars(FallbackTick) /\ WF_vars(BackoffExpires)
  /\ WF_vars(GatewayBoot) /\ WF_vars(Restart)

FairSpec == Spec /\ Fairness

-----------------------------------------------------------------------------
(* Properties.                                                              *)

Syncing(p) == pc[p] \in SyncSteps \cup {"clone", "fetch", "designer", "wait"}

\* The checkout, the staging directory and the live directory have one user at
\* a time: the triggered sync and the post-commission sync exclude each other
\* through syncMu, and the initial sync, which takes no lock, ends before the
\* other goroutine starts.
SyncExclusive == ~(Syncing("main") /\ Syncing("post"))

\* When Run takes up the cancelled context no triggered sync is in progress:
\* handleSyncTrigger runs in the goroutine that selects, and resets
\* syncInProgress on every return, so the 15 s drain of Run is never entered.
NoTriggerAtShutdown == pc["main"] # "draining"

\* A Synced entry of a sync that is not a dry run is written only while the
\* gateway, if it is up, has loaded exactly what is in its data directory:
\* nothing is copied between the scan and the report.
SyncedMeansLoaded ==
  \A p \in Procs :
    /\ pc[p] = "report" /\ job[p].outcome = "Synced"
    /\ ~Resolve[job[p].plan].dryRun
    => (gateway.up => gateway.loaded = live)

\* The commit a triggered sync reports as Synced is the one it copied, even if
\* the ref moved after the metadata was written.  (Commissioning may have
\* overwritten the copy; the post-commission sync is there for that.)
TriggerReportsCopiedCommit ==
  /\ ready /\ pc["main"] = "report" /\ job["main"].outcome = "Synced"
  /\ ~Resolve[job["main"].plan].dryRun /\ ~Resolve[job["main"].plan].paused
  => live.commit \in {job["main"].commit, None}

\* The inductive invariant behind the four properties above.  What the steps
\* of a sync rely on, who holds syncMu and where the main goroutine then is,
\* and what the checkout and the data directory hold during a triggered sync.
JobOK ==
  /\ pc["main"] \in {"clone", "lock", "fetch"} => job["main"].ref \in Refs
  /\ \A p \in Procs : pc[p] = "report" => job[p].outcome \in Outcomes

LockDiscipline ==
  /\ ready => pc["main"] \notin {"boot", "clone", "exited"}
  /\ ~ready => /\ pc["main"] \in SyncSteps \cup {"boot", "clone", "exited"}
               /\ pc["post"] = "off"
  /\ syncMu = "main" <=> ready /\ Syncing("main")
  /\ syncMu = "post" <=> Syncing("post")
  /\ syncInProgress <=> syncMu = "main"
  /\ NoTriggerAtShutdown

CheckoutInv ==
  /\ ready /\ pc["main"] \in SyncSteps \cup {"designer", "wait"}
       => repo = job["main"].commit
  /\ ready /\ pc["main"] \in {"scan", "report"}
     /\ ~Resolve[job["main"].plan].dryRun
     /\ ~Resolve[job["main"].plan].paused
       => live.commit \in {job["main"].commit, None}

\* A goroutine that syncs is at a step its locals are ready for, syncMu is held
\* exactly by the goroutine that syncs after startup, and a triggered sync
\* works on the commit it will report.
AgentInv == TypeOK /\ JobOK /\ LockDiscipline /\ CheckoutInv /\ SyncedMeansLoaded

\* While status writes succeed, a running agent that is not waiting for
\* Designer sessions never leaves designerSessionsBlocked set.
BlockedMeansWaiting ==
  status.blocked => pc["main"] = "wait" \/ ctxDone \/ ~ready

\* A change of the record by a sync that ends as it should.
Confirmed(p) ==
  /\ Syncing(p) /\ lastSynced'.commit = job[p].commit
  /\ p = "main" => lastSynced'.commit = repo
  /\ Resolve[job[p].plan].dryRun \/ (gateway.up => gateway.loaded = live)
RecordStep ==
  ready /\ ready' /\ ~shuttingDown /\ lastSynced' # lastSynced
    => \E p \in Procs : Confirmed(p)

\* What the agent takes for done, and will not retry, changes only when a sync
\* ends that is not left open: the gateway, if it is up, has loaded what is in
\* its data directory (a dry run loads nothing), and a triggered sync records
\* the commit that is checked out.  A failed scan or copy of either goroutine
\* leaves the record as it is.  (The initial sync has no gateway to ask, and
\* a process that shuts down takes its record along.)
RecordMeansLoaded == [][RecordStep]_vars

\* The post-commission sync gets its turn although the triggered sync holds
\* syncMu while it waits for Designer sessions that may never close.
PostCommissionNotStarved == pc["post"] = "lock" ~> pc["post"] # "lock"

Wanted == [commit |-> meta.commit, profiles |-> meta.profiles]

\* Once the surroundings are quiet the agent records the commit and profiles
\* of the metadata ConfigMap for good: whatever failed before, the fallback
\* timer finds the difference and the backoff ends.
RecordSettles == (<>stable) => <>[](lastSynced = Wanted)

\* ... and the data directory, the running gateway and the reported status
\* agree with it.  This needs refs that do not move, commits and profiles that
\* only advance, and faults in the triggered sync only (README, section 4).
GatewayConverges ==
  (<>stable) => <>[](/\ live = Wanted
                     /\ gateway.up /\ gateway.loaded = Wanted
                     /\ status = Entry("Synced", meta.commit))

\* The entry does not stay in Error once nothing fails any more (the comment
\* in syncOnce: the backoff retries until the gateway applies the config).
ErrorIsRetried == (<>stable) => <>[](status.state # "Error")
=============================================================================

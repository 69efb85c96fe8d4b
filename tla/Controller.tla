----------------------------- MODULE Controller -----------------------------
(***************************************************************************)
(* The controller's reconciliation of one GatewaySync (internal/controller)*)
(* and the webhook receiver that annotates it (internal/webhook).          *)
(*                                                                         *)
(* A reconcile is a sequence of steps between which everything else may    *)
(* move: it works on gs, the copy of the object that the informer cache    *)
(* held when it began, asks the git remote, writes the metadata ConfigMap, *)
(* collects pods and agent reports, patches the status and perhaps clears  *)
(* the requested-ref annotation.  controller-runtime runs one reconcile of *)
(* a key at a time; dirty is "the key is in the work queue" and timer "a   *)
(* RequeueAfter is pending".                                               *)
(*                                                                         *)
(* cr is the object on the API server, cache the informer's copy of it and *)
(* event says that a change that passes the predicate is on its way to the *)
(* cache.  A status patch is a JSON merge patch: it carries the fields in  *)
(* which st differs from gs.status.  A ref is whatever name ls-remote may  *)
(* be asked for; Base strips the leading "v" of it.                        *)
(***************************************************************************)
EXTENDS Naturals

CONSTANTS
  Refs,     \* ref names the spec or a webhook may give
  Base,     \* strings.TrimPrefix(ref, "v")
  Commits,  \* commits of the remote repository
  Pods,     \* pods whose cr-name annotation names this GatewaySync
  None,     \* the empty string / nil
  Polling,  \* spec.polling.enabled
  Faults,   \* calls that may fail before `stable'
  Env,      \* what else may happen before `stable'
  MaxMoves  \* bound on the number of moves of the surroundings

Calls == {"lsRemote", "meta", "list", "report", "rbac", "patch", "clear",
          "update", "delete"}
EnvMoves == {"edit", "pause", "profiles", "webhook", "delete", "push",
             "agents", "pods", "bare", "secrets", "restart", "normal"}

ASSUME ControllerAssumption ==
  /\ Commits # {} /\ Refs # {}
  /\ None \notin Commits /\ None \notin Refs
  /\ None \notin {"Pending", "Synced", "Error"}
  /\ Polling \in BOOLEAN
  /\ Faults \subseteq Calls
  /\ Env \subseteq EnvMoves
  /\ MaxMoves \in Nat

VARIABLES
  tip,     \* remote repository: the commit of each ref it has
  cr,      \* the GatewaySync on the API server
  cache,   \* the informer's copy of it
  event,   \* a change that passes the predicate is not yet in the cache
  meta,    \* metadata ConfigMap
  report,  \* status ConfigMap: what each agent says of its gateway
  pods,    \* the pods of the namespace that name this GatewaySync
  bound,   \* pods whose ServiceAccount the agent RoleBinding names
  secrets, \* the Secrets the spec refers to that exist
  stable,  \* from now on the surroundings are quiet and healthy
  dirty, timer,  \* the work queue
  pc,      \* where the reconcile is
  gs,      \* the copy of the object it works on
  st,      \* gs.Status as it is being built
  res,     \* git.Result
  ret,     \* how it will return
  moves    \* moves of the surroundings so far

apiVars  == <<cr, cache, event, meta, report, bound>>
envVars  == <<tip, pods, secrets, stable>>
queue    == <<dirty, timer>>
locals   == <<pc, gs, st, res, ret>>
vars     == <<apiVars, envVars, queue, locals, moves>>

OrNone(S) == S \cup {None}
Truth  == {"Unknown", "True", "False"}
Conds  == [ready : Truth, refResolved : Truth, profilesValid : Truth,
           allSynced : Truth, sidecar : Truth]
GatewayStates == {"absent", "Pending", "Synced", "Error", "MissingSidecar"}
Status == [resolution : {"", "Resolved", "Error"}, commit : OrNone(Commits),
           ref : OrNone(Refs), recent : BOOLEAN,
           gateways : [Pods -> GatewayStates], conds : Conds]
NoStatus ==
  [resolution |-> "", commit |-> None, ref |-> None, recent |-> FALSE,
   gateways |-> [p \in Pods |-> "absent"],
   conds |-> [ready |-> "Unknown", refResolved |-> "Unknown",
              profilesValid |-> "Unknown", allSynced |-> "Unknown",
              sidecar |-> "Unknown"]]
\* normal: the stored spec survives a round trip through the Go type unchanged.
CR   == [exists : BOOLEAN, deleting : BOOLEAN, finalizer : BOOLEAN,
         normal : BOOLEAN, ref : OrNone(Refs), requested : OrNone(Refs),
         paused : BOOLEAN, valid : BOOLEAN, status : Status]
NoCR == [exists |-> FALSE, deleting |-> FALSE, finalizer |-> FALSE,
         normal |-> FALSE, ref |-> None, requested |-> None, paused |-> FALSE,
         valid |-> TRUE, status |-> NoStatus]
Result   == [commit : OrNone(Commits), ref : OrNone(Refs)]
NoResult == [commit |-> None, ref |-> None]
Meta     == [exists : BOOLEAN, commit : OrNone(Commits), ref : OrNone(Refs),
             paused : BOOLEAN, valid : BOOLEAN]
NoMeta   == [exists |-> FALSE, commit |-> None, ref |-> None,
             paused |-> FALSE, valid |-> TRUE]
NoReport == [exists |-> FALSE, entry |-> [p \in Pods |-> None]]
Steps == {"idle", "cleanup", "cleanupStatus", "removeFinalizer", "addFinalizer",
          "resolve", "meta", "discover", "patch", "clear", "clearPatch"}

(* One type invariant: objects, work queue and locals have their Go types. *)
TypeOK ==
  /\ tip \in [Refs -> OrNone(Commits)]
  /\ cr \in CR /\ cache \in CR /\ event \in BOOLEAN
  /\ meta \in Meta
  /\ report \in [exists : BOOLEAN,
                 entry : [Pods -> OrNone({"Pending", "Synced", "Error"})]]
  /\ pods \in [Pods -> {"absent", "pending", "running", "bare"}]
  /\ bound \in SUBSET Pods /\ secrets \in SUBSET {"git", "apiKey"}
  /\ stable \in BOOLEAN /\ dirty \in BOOLEAN /\ timer \in BOOLEAN
  /\ pc \in Steps /\ gs \in CR /\ st \in Status /\ res \in Result
  /\ ret \in {"none", "paused", "backoff", "ok"}
  /\ moves \in 0..MaxMoves

Init ==
  /\ tip \in [Refs -> Commits]
  /\ cr = NoCR /\ cache = NoCR /\ event = FALSE
  /\ meta = NoMeta /\ report = NoReport
  /\ pods = [p \in Pods |-> "absent"] /\ bound = {}
  /\ secrets = {"git", "apiKey"} /\ stable = FALSE
  /\ dirty = FALSE /\ timer = FALSE
  /\ pc = "idle" /\ gs = NoCR /\ st = NoStatus /\ res = NoResult
  /\ ret = "none" /\ moves = 0

Fails(call) == ~stable /\ call \in Faults

\* Reconcile returns; what it leaves in the work queue is up to the caller.
Done ==
  /\ pc' = "idle" /\ gs' = NoCR /\ st' = NoStatus /\ res' = NoResult
  /\ ret' = "none"

\* Reconcile returns an error: the key is queued again (rate limited).
ReturnError == Done /\ dirty' = TRUE /\ UNCHANGED timer

-----------------------------------------------------------------------------
(* Reconcile up to the resolution of the ref.                               *)

\* Paths and variable names; the outcome only goes into a condition.
ValidateProfiles(c) == IF c.valid THEN "True" ELSE "False"

\* The Secrets a GatewaySync names exist.
ValidateGitSecrets   == "git" \in secrets
ValidateAPIKeySecret == "apiKey" \in secrets

\* Before the ref is resolved: validateProfiles, then validateGitSecrets.
Begin(c) ==
  IF ValidateGitSecrets
  THEN /\ st' = [c.status EXCEPT !.conds.profilesValid = ValidateProfiles(c)]
       /\ pc' = "resolve" /\ ret' = "none"
  ELSE /\ st' = [c.status EXCEPT !.conds.profilesValid = ValidateProfiles(c),
                                 !.conds.ready = "False"]
       /\ pc' = "patch" /\ ret' = "backoff"

Reconcile ==
  /\ pc = "idle" /\ dirty
  /\ dirty' = FALSE
  /\ \/ /\ ~cache.exists \/ (cache.deleting /\ ~cache.finalizer)
        /\ Done
     \/ /\ cache.exists /\ cache.deleting /\ cache.finalizer
        /\ gs' = cache /\ pc' = "cleanup" /\ UNCHANGED <<st, ret>>
     \/ /\ cache.exists /\ ~cache.deleting /\ ~cache.finalizer
        /\ gs' = cache /\ pc' = "addFinalizer" /\ UNCHANGED <<st, ret>>
     \/ /\ cache.exists /\ ~cache.deleting /\ cache.finalizer /\ cache.paused
        /\ gs' = cache /\ pc' = "patch" /\ ret' = "paused"
        /\ st' = [cache.status EXCEPT !.conds.ready = "False"]
     \/ /\ cache.exists /\ ~cache.deleting /\ cache.finalizer /\ ~cache.paused
        /\ gs' = cache /\ Begin(cache)
  /\ res' = NoResult
  /\ UNCHANGED <<apiVars, envVars, timer>>

\* The Update is refused if the cached copy is out of date.  A metadata-only
\* update does not pass the predicate; one that also normalises the spec does.
AddFinalizer ==
  /\ pc = "addFinalizer"
  /\ \/ /\ cr = gs
        /\ cr' = [cr EXCEPT !.finalizer = TRUE, !.normal = TRUE]
        /\ event' = (event \/ ~cr.normal)
        /\ Done /\ UNCHANGED queue
     \/ /\ cr # gs \/ Fails("update")
        /\ ReturnError /\ UNCHANGED <<cr, event>>
  /\ UNCHANGED <<cache, meta, report, bound, envVars>>

\* cleanupOwnedResources deletes one object after the other.
CleanupMeta ==
  /\ pc = "cleanup"
  /\ \/ /\ meta' = NoMeta /\ pc' = "cleanupStatus"
        /\ dirty' = (dirty \/ meta.exists)
        /\ UNCHANGED <<timer, gs, st, res, ret>>
     \/ Fails("delete") /\ ReturnError /\ UNCHANGED meta
  /\ UNCHANGED <<cr, cache, event, report, bound, envVars>>

CleanupStatus ==
  /\ pc = "cleanupStatus"
  /\ \/ /\ report' = NoReport /\ pc' = "removeFinalizer"
        /\ UNCHANGED <<queue, gs, st, res, ret>>
     \/ Fails("delete") /\ ReturnError /\ UNCHANGED report
  /\ UNCHANGED <<cr, cache, event, meta, bound, envVars>>

\* Mutant of RemoveFinalizer: the finalizer goes before the cleanup is done.
RemoveFinalizerEarly ==
  /\ pc \in {"cleanup", "removeFinalizer"}
  /\ cr = gs /\ cr' = NoCR /\ event' = TRUE
  /\ Done /\ UNCHANGED queue
  /\ UNCHANGED <<cache, meta, report, bound, envVars>>

RemoveFinalizer ==
  /\ pc = "removeFinalizer"
  /\ \/ /\ cr = gs /\ cr' = NoCR /\ event' = TRUE
        /\ Done /\ UNCHANGED queue
     \/ /\ cr # gs \/ Fails("update")
        /\ ReturnError /\ UNCHANGED <<cr, event>>
  /\ UNCHANGED <<cache, meta, report, bound, envVars>>

-----------------------------------------------------------------------------
(* resolveRef.                                                              *)

\* The requested-ref annotation overrides spec.git.ref.
Effective(c) == IF c.requested # None THEN c.requested ELSE c.ref

\* Mutant of UseCached: a resolved ref is never asked for again.
UseCachedForever ==
  /\ Polling /\ gs.status.resolution = "Resolved"
  /\ gs.status.ref = Effective(gs) /\ gs.status.commit # None

\* The last result is used again within a polling interval of the last change.
UseCached ==
  /\ Polling /\ gs.status.resolution = "Resolved"
  /\ gs.status.ref = Effective(gs) /\ gs.status.commit # None
  /\ gs.status.recent

\* After the ref is resolved: status fields, then validateAPIKeySecret.
Resolved(commit, ref) ==
  LET s == [st EXCEPT !.conds.refResolved = "True", !.resolution = "Resolved"]
      n == IF st.commit = commit THEN s
           ELSE [s EXCEPT !.commit = commit, !.ref = ref, !.recent = TRUE]
  IN IF ValidateAPIKeySecret
     THEN /\ st' = n /\ pc' = "meta" /\ UNCHANGED ret
          /\ res' = [commit |-> commit, ref |-> ref]
     ELSE /\ st' = [n EXCEPT !.conds.ready = "False"]
          /\ pc' = "patch" /\ ret' = "backoff" /\ UNCHANGED res

\* GoGitClient.LsRemote and matchRef: None if the remote does not have the ref.
LsRemote(ref) == tip[ref]

ResolveRef ==
  /\ pc = "resolve"
  /\ LET ref == Effective(gs) IN
     \/ /\ UseCached
        /\ Resolved(gs.status.commit, ref)
     \/ /\ ~UseCached /\ LsRemote(ref) # None
        /\ Resolved(LsRemote(ref), ref)
     \/ /\ ~UseCached /\ (LsRemote(ref) = None \/ Fails("lsRemote"))
        /\ st' = [st EXCEPT !.conds.refResolved = "False",
                            !.resolution = "Error"]
        /\ pc' = "patch" /\ ret' = "backoff" /\ UNCHANGED res
  /\ UNCHANGED <<apiVars, envVars, queue, gs>>

-----------------------------------------------------------------------------
(* Metadata, gateways, RBAC and conditions.                                 *)

\* What is published: the result, the pause and the profiles of resolveProfiles,
\* valid or not.
Published == [exists |-> TRUE, commit |-> res.commit, ref |-> res.ref,
              paused |-> gs.paused, valid |-> gs.valid]

\* The ConfigMap is owned by the GatewaySync: a change queues the key again.
EnsureMetadataConfigMap ==
  /\ pc = "meta"
  /\ \/ meta' = Published
     \/ Fails("meta") /\ UNCHANGED meta
  /\ dirty' = (dirty \/ meta' # meta)
  /\ pc' = "discover"
  /\ UNCHANGED <<cr, cache, event, report, bound, envVars, timer, gs, st, res,
                 ret>>

\* discoverGateways, without and with collectGatewayStatus: running pods only;
\* an agent's report replaces whatever was found out about the pod.
Discovered ==
  [p \in Pods |-> CASE pods[p] = "running" -> "Pending"
                    [] pods[p] = "bare" -> "MissingSidecar"
                    [] OTHER -> "absent"]
Collected ==
  [p \in Pods |-> IF Discovered[p] # "absent" /\ report.exists
                     /\ report.entry[p] # None
                  THEN report.entry[p] ELSE Discovered[p]]

\* Mutant of Subjects: pods that wait for their agent are left out.
SubjectsRunning == {p \in Pods : pods[p] \in {"running", "bare"}}

\* collectServiceAccountsFromPods: every pod, whatever its phase.
Subjects == {p \in Pods : pods[p] # "absent"}

\* updateAllGatewaysSyncedCondition: at least one gateway, and all of them.
AllSynced(g) == /\ \E p \in Pods : g[p] = "Synced"
                /\ \A p \in Pods : g[p] \in {"absent", "Synced"}

Bool(b) == IF b THEN "True" ELSE "False"

\* SidecarInjected is left alone when no gateway was discovered.
Conditions(c, g) ==
  [c EXCEPT
     !.allSynced = Bool(AllSynced(g)),
     !.sidecar = IF \A p \in Pods : g[p] = "absent" THEN c.sidecar
                 ELSE Bool(\A p \in Pods : g[p] # "MissingSidecar"),
     !.ready = Bool(/\ c.refResolved = "True" /\ c.profilesValid = "True"
                    /\ AllSynced(g))]

\* The RoleBinding is owned by the GatewaySync: a change queues the key again.
\* A failed List or write leaves the subjects as they are.
EnsureAgentRoleBinding ==
  /\ bound' \in {Subjects} \cup (IF Fails("rbac") THEN {bound} ELSE {})
  /\ dirty' = (dirty \/ bound' # bound)

\* discoverGateways, collectGatewayStatus, ensureAgentRoleBinding and the two
\* condition updates.
DiscoverGateways ==
  /\ pc = "discover"
  /\ \E g \in {Collected}
              \cup (IF Fails("report") THEN {Discovered} ELSE {})
              \cup (IF Fails("list") THEN {st.gateways} ELSE {}) :
       st' = [st EXCEPT !.gateways = g, !.conds = Conditions(st.conds, g)]
  /\ EnsureAgentRoleBinding
  /\ pc' = "patch" /\ ret' = "ok"
  /\ UNCHANGED <<cr, cache, event, meta, report, envVars, timer, gs, res>>

-----------------------------------------------------------------------------
(* patchStatus, clearRequestedRefIfCaughtUp and the requeue.                *)

Pick(server, base, new) == IF new = base THEN server ELSE new

\* client.MergeFrom(base): only the fields that this reconcile changed.  An
\* array is replaced as a whole, and `touched' arrays changed in what is not
\* modelled (times, reasons, messages).
Merge(s, base, new, touched) ==
  [resolution |-> Pick(s.resolution, base.resolution, new.resolution),
   commit |-> Pick(s.commit, base.commit, new.commit),
   ref |-> Pick(s.ref, base.ref, new.ref),
   recent |-> IF new.commit = base.commit THEN s.recent ELSE new.recent,
   gateways |-> IF "gateways" \in touched THEN new.gateways
                ELSE Pick(s.gateways, base.gateways, new.gateways),
   conds |-> IF "conds" \in touched THEN new.conds
             ELSE Pick(s.conds, base.conds, new.conds)]

\* Mutant of BackoffRequeue: the delay is reported but not returned.
BackoffRequeueDropped == Done /\ UNCHANGED queue

\* Result{RequeueAfter: delay}, whether or not the patch went through.
BackoffRequeue == Done /\ timer' = TRUE /\ UNCHANGED dirty

\* The client decodes the server's answer into gs.  Decoding adds to a map and
\* never removes from it: an annotation that is gone stays in gs.
Answer(c) ==
  [c EXCEPT !.requested = IF @ = None THEN gs.requested ELSE @]

PatchStatus ==
  /\ pc = "patch"
  /\ \/ /\ cr.exists
        /\ \E touched \in SUBSET {"gateways", "conds"} :
             cr' = [cr EXCEPT !.status = Merge(cr.status, gs.status, st, touched)]
        /\ \/ ret = "backoff" /\ BackoffRequeue
           \/ ret = "paused" /\ Done /\ UNCHANGED queue
           \/ /\ ret = "ok" /\ pc' = "clear" /\ gs' = Answer(cr')
              /\ UNCHANGED <<queue, st, res, ret>>
     \/ /\ ~cr.exists \/ Fails("patch")
        /\ UNCHANGED cr
        /\ \/ ret = "backoff" /\ BackoffRequeue
           \/ ret # "backoff" /\ ReturnError
  /\ UNCHANGED <<cache, event, meta, report, bound, envVars>>

\* Mutant of Finish: the polling interval is not returned.
FinishNoRequeue == Done /\ UNCHANGED queue

\* requeueInterval: nothing is scheduled when polling is disabled.
Finish == Done /\ timer' = (timer \/ Polling) /\ UNCHANGED dirty

\* The comparison uses gs as the patch has left it; the annotation is read
\* again, from the cache, which may be older.
ClearRequestedRef ==
  /\ pc = "clear"
  /\ LET caughtUp == /\ gs.requested # None
                     /\ Base[gs.requested] = Base[gs.ref]
                     /\ cache.exists /\ cache.requested = gs.requested
     IN \/ /\ caughtUp /\ pc' = "clearPatch"
           /\ UNCHANGED <<queue, gs, st, res, ret>>
        \/ ~caughtUp /\ Finish
  /\ UNCHANGED <<apiVars, envVars>>

\* Mutant of ClearPatch: the annotation is emptied, not removed.
ClearPatchEmpties ==
  /\ pc = "clearPatch"
  /\ cr' = [cr EXCEPT !.requested = ""] /\ event' = TRUE
  /\ Finish
  /\ UNCHANGED <<cache, meta, report, bound, envVars>>

\* A merge patch that removes the annotation, whatever its value is by now.
ClearPatch ==
  /\ pc = "clearPatch"
  /\ \/ /\ cr.exists
        /\ cr' = [cr EXCEPT !.requested = None]
        /\ event' = (event \/ cr.requested # None)
     \/ (~cr.exists \/ Fails("clear")) /\ UNCHANGED <<cr, event>>
  /\ Finish
  /\ UNCHANGED <<cache, meta, report, bound, envVars>>

-----------------------------------------------------------------------------
(* Watch, work queue and time.                                              *)

WatchCR ==
  /\ event \/ cache # cr
  /\ cache' = cr /\ dirty' = (dirty \/ event) /\ event' = FALSE
  /\ UNCHANGED <<cr, meta, report, bound, envVars, timer, locals>>

TimerFires ==
  /\ timer /\ timer' = FALSE /\ dirty' = TRUE
  /\ UNCHANGED <<apiVars, envVars, locals>>

\* A polling interval has passed since LastSyncTime.
Old(c) == [c EXCEPT !.status.recent = FALSE]
Elapse ==
  /\ cr.status.recent \/ cache.status.recent
  /\ cr' = Old(cr) /\ cache' = Old(cache) /\ gs' = Old(gs)
  /\ UNCHANGED <<event, meta, report, bound, envVars, queue, pc, st, res, ret>>

\* The controller restarts (or loses its lease): every object is queued.
RestartController ==
  /\ ~stable /\ "restart" \in Env
  /\ cache' = cr /\ event' = FALSE /\ dirty' = cr.exists /\ timer' = FALSE
  /\ Done
  /\ UNCHANGED <<cr, meta, report, bound, envVars>>

-----------------------------------------------------------------------------
(* The webhook receiver.                                                    *)

\* handleWebhook of an authorised payload that names ref.  Its Get reads the
\* cache, its Update is refused (500) if the cache is out of date.
HandleWebhook(ref) ==
  /\ ~stable /\ "webhook" \in Env /\ cache.exists
  /\ \/ /\ cache.requested = ref
        /\ UNCHANGED <<cr, event>>
     \/ /\ cache.requested # ref /\ cache = cr
        /\ cr' = [cr EXCEPT !.requested = ref, !.normal = TRUE]
        /\ event' = TRUE
  /\ UNCHANGED <<cache, meta, report, bound, envVars, queue, locals>>

-----------------------------------------------------------------------------
(* Users, the remote repository, pods and their agents.                     *)

Create(ref, normal) ==
  /\ ~stable /\ ~cr.exists /\ (normal => "normal" \in Env)
  /\ cr' = [NoCR EXCEPT !.exists = TRUE, !.ref = ref, !.normal = normal]
  /\ event' = TRUE
  /\ UNCHANGED <<cache, meta, report, bound, envVars, queue, locals>>

EditSpec(ref, paused, valid) ==
  /\ ~stable /\ cr.exists /\ ~cr.deleting
  /\ ref # cr.ref => "edit" \in Env
  /\ paused # cr.paused => "pause" \in Env
  /\ valid # cr.valid => "profiles" \in Env
  /\ cr' = [cr EXCEPT !.ref = ref, !.paused = paused, !.valid = valid]
  /\ cr' # cr /\ event' = TRUE
  /\ UNCHANGED <<cache, meta, report, bound, envVars, queue, locals>>

DeleteCR ==
  /\ ~stable /\ "delete" \in Env /\ cr.exists /\ ~cr.deleting
  /\ cr' = IF cr.finalizer THEN [cr EXCEPT !.deleting = TRUE] ELSE NoCR
  /\ event' = TRUE
  /\ UNCHANGED <<cache, meta, report, bound, envVars, queue, locals>>

Push(ref, commit) ==
  /\ ~stable /\ "push" \in Env /\ tip[ref] # commit
  /\ tip' = [tip EXCEPT ![ref] = commit]
  /\ UNCHANGED <<apiVars, pods, secrets, stable, queue, locals>>

ToggleSecret(s) ==
  /\ ~stable /\ "secrets" \in Env
  /\ secrets' = IF s \in secrets THEN secrets \ {s} ELSE secrets \cup {s}
  /\ UNCHANGED <<apiVars, tip, pods, stable, queue, locals>>

\* A pod comes (with the agent injected or without it) or goes.
MovePod(p, phase) ==
  /\ ~stable /\ "pods" \in Env /\ pods[p] # phase
  /\ phase = "bare" => "bare" \in Env /\ pods[p] = "absent"
  /\ phase = "pending" => pods[p] = "absent"
  /\ pods' = [pods EXCEPT ![p] = phase] /\ dirty' = TRUE
  /\ UNCHANGED <<apiVars, tip, secrets, stable, timer, locals>>

\* The startup probe of the agent passes: it could read the metadata.
PodRuns(p) ==
  /\ pods[p] = "pending" /\ p \in bound /\ meta.exists
  /\ pods' = [pods EXCEPT ![p] = "running"] /\ dirty' = TRUE
  /\ UNCHANGED <<apiVars, tip, secrets, stable, timer, locals>>

\* The status ConfigMap has no owner: nothing is queued.
AgentReports(p, s) ==
  /\ ~stable /\ "agents" \in Env
  /\ pods[p] \in {"pending", "running"} /\ p \in bound
  /\ report' = [exists |-> TRUE, entry |-> [report.entry EXCEPT ![p] = s]]
  /\ report' # report
  /\ UNCHANGED <<cr, cache, event, meta, bound, envVars, queue, locals>>

Stabilise ==
  /\ ~stable /\ cr.exists /\ ~cr.deleting /\ ~cr.paused
  /\ tip[Effective(cr)] # None /\ secrets = {"git", "apiKey"}
  /\ stable' = TRUE
  /\ UNCHANGED <<apiVars, tip, pods, secrets, queue, locals>>

-----------------------------------------------------------------------------
ReconcileStep ==
  /\ \/ Reconcile \/ AddFinalizer \/ CleanupMeta \/ CleanupStatus
     \/ RemoveFinalizer \/ ResolveRef \/ EnsureMetadataConfigMap
     \/ DiscoverGateways \/ PatchStatus \/ ClearRequestedRef \/ ClearPatch
  /\ UNCHANGED moves

Clock == (WatchCR \/ TimerFires \/ Elapse) /\ UNCHANGED moves

PodStep(p) == PodRuns(p) /\ UNCHANGED moves

Move ==
  \/ RestartController
  \/ \E r \in Refs : HandleWebhook(r)
  \/ \E r \in Refs, n \in BOOLEAN : Create(r, n)
  \/ \E r \in Refs, b \in BOOLEAN, v \in BOOLEAN : EditSpec(r, b, v)
  \/ DeleteCR
  \/ \E r \in Refs, c \in OrNone(Commits) : Push(r, c)
  \/ \E s \in {"git", "apiKey"} : ToggleSecret(s)
  \/ \E p \in Pods, f \in {"absent", "pending", "bare"} : MovePod(p, f)
  \/ \E p \in Pods, s \in {"Pending", "Synced", "Error"} : AgentReports(p, s)

Surroundings == \/ moves < MaxMoves /\ moves' = moves + 1 /\ Move
                \/ Stabilise /\ UNCHANGED moves

Next == \/ ReconcileStep \/ Clock \/ Surroundings
        \/ \E p \in Pods : PodStep(p)

Spec == Init /\ [][Next]_vars

\* The work queue is served, watches deliver, timers fire, time passes and a
\* pod whose agent can read the metadata comes up.
Fairness ==
  /\ WF_vars(ReconcileStep) /\ WF_vars(WatchCR /\ UNCHANGED moves)
  /\ WF_vars(TimerFires /\ UNCHANGED moves)
  /\ WF_vars(Elapse /\ UNCHANGED moves)
  /\ \A p \in Pods : WF_vars(PodStep(p))

FairSpec == Spec /\ Fairness

-----------------------------------------------------------------------------
(* Properties.                                                              *)

\* The metadata ConfigMap exists only under a GatewaySync that still has its
\* finalizer: agents never act on the metadata of a deleted object.
MetaOwned == meta.exists => cr.exists /\ cr.finalizer

Queued == dirty \/ timer \/ event
Started == cr.status.resolution # ""

\* With polling enabled, a GatewaySync that has been reconciled once never
\* falls out of the work queue unless it is paused: whatever fails, and however
\* stale the copy was that the last reconcile worked on, another one follows.
StaysScheduled ==
  Polling /\ pc = "idle" /\ cr.exists /\ Started /\ ~cr.paused => Queued

\* What the two invariants above rest on.  An object that exists names a ref.
\* The finalizer keeps the object while a reconcile works on it, and no copy,
\* however old, mixes up an object that is being deleted with a live one.  What
\* the cache or the reconcile has not seen of the spec is announced by an event
\* or by the queued key, until the patch of the status brings gs up to date.
Live(c) == c.exists /\ c.finalizer /\ ~c.deleting
Named == /\ cr.exists => cr.ref # None
         /\ cache.exists => cache.ref # None
         /\ pc # "idle" => gs.exists /\ gs.ref # None
Held == /\ cr.exists /\ ~cr.finalizer => ~Started
        /\ Live(cache) => cr.exists /\ cr.finalizer
        /\ pc \in {"resolve", "meta", "discover", "patch", "clear",
                   "clearPatch"} => cr.exists /\ cr.finalizer
        /\ pc \in {"cleanupStatus", "removeFinalizer"} => ~meta.exists
Parted == /\ cr.finalizer => cr.exists
          /\ cr.deleting => cr.exists /\ cr.finalizer
          /\ cache.deleting => cache.exists /\ cache.finalizer /\ ~Live(cr)
          /\ pc = "addFinalizer" => /\ ~gs.finalizer /\ ~gs.deleting
                                    /\ cache.deleting => cr.finalizer
          /\ pc \in {"cleanup", "cleanupStatus", "removeFinalizer"}
               => gs.deleting /\ ~Live(cache) /\ ~Live(cr)
SpecOf(c) == <<c.exists, c.deleting, c.ref, c.requested, c.paused, c.valid>>
Announced == /\ SpecOf(cache) # SpecOf(cr) => event
             /\ pc \notin {"idle", "clear", "clearPatch"}
                  => (SpecOf(gs) # SpecOf(cache) => dirty)
             /\ pc = "patch" /\ ret = "paused" => gs.paused

\* The inductive invariant: nothing a reconcile relies on goes away under it,
\* and no change of the spec goes unnoticed.
ControllerInv == /\ TypeOK /\ Named /\ Held /\ Parted /\ Announced
                 /\ MetaOwned /\ StaysScheduled

Wanted == [exists |-> TRUE, commit |-> tip[Effective(cr)],
           ref |-> Effective(cr), paused |-> FALSE, valid |-> cr.valid]

\* Once the surroundings are quiet the agents are told the commit of the ref in
\* effect: cached resolutions expire, stale copies and failed writes are
\* followed by another reconcile, and clearing the override changes nothing.
RefFollowed ==
  (<>(stable /\ Started /\ tip[cr.ref] # None)) =>
     <>[](cr.exists /\ meta = Wanted /\ cr.status.conds.refResolved = "True")

\* ... and Ready says whether the profiles are valid and every gateway found
\* last reported Synced, although the status ConfigMap is not watched and a
\* patch leaves out what the reconcile believed unchanged.
Found == {p \in Pods : pods[p] \in {"running", "bare"}}
AllReportSynced == /\ cr.valid /\ Found # {}
                   /\ \A p \in Found : report.entry[p] = "Synced"
ReadySettles ==
  (<>(stable /\ Started)) =>
     <>[](cr.status.conds.ready = "True" <=> AllReportSynced)

\* No agent waits for ever for the permission to read the metadata: the
\* RoleBinding names pods that are not running yet.
AgentsUnblocked ==
  (<>(stable /\ Started)) => <>[](\A p \in Pods : pods[p] # "pending")
=============================================================================

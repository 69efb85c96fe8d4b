-------------------------- MODULE ControllerProofs --------------------------
(***************************************************************************)
(* What is proved about Controller for every set of refs, commits and pods,*)
(* every choice of failing calls and every bound on the moves of the       *)
(* surroundings.                                                           *)
(***************************************************************************)
EXTENDS Controller, TLAPS

\* TypeOK by groups of variables.
ReportType == [exists : BOOLEAN,
               entry : [Pods -> OrNone({"Pending", "Synced", "Error"})]]
ApiType   == /\ cr \in CR /\ cache \in CR /\ event \in BOOLEAN
             /\ meta \in Meta /\ report \in ReportType /\ bound \in SUBSET Pods
EnvType   == /\ tip \in [Refs -> OrNone(Commits)]
             /\ pods \in [Pods -> {"absent", "pending", "running", "bare"}]
             /\ secrets \in SUBSET {"git", "apiKey"} /\ stable \in BOOLEAN
QueueType == dirty \in BOOLEAN /\ timer \in BOOLEAN
LocalType == /\ pc \in Steps /\ gs \in CR /\ st \in Status /\ res \in Result
             /\ ret \in {"none", "paused", "backoff", "ok"}
MoveType  == moves \in 0..MaxMoves

\* TypeOK is the conjunction of the groups.
LEMMA TypeParts ==
  TypeOK <=> /\ ApiType /\ EnvType /\ QueueType /\ LocalType
             /\ MoveType
BY DEF TypeOK, ApiType, EnvType, QueueType, LocalType, MoveType,
       ReportType

\* The same for the next state.
LEMMA TypePartsPrimed ==
  TypeOK' <=> /\ ApiType' /\ EnvType' /\ QueueType' /\ LocalType'
              /\ MoveType'
BY TypeParts, PTL

\* A group of variables that does not change keeps its type.
LEMMA TypeUnchanged ==
  /\ ApiType /\ UNCHANGED apiVars => ApiType'
  /\ EnvType /\ UNCHANGED envVars => EnvType'
  /\ QueueType /\ UNCHANGED queue => QueueType'
  /\ LocalType /\ UNCHANGED locals => LocalType'
  /\ MoveType /\ UNCHANGED moves => MoveType'
BY DEF ApiType, EnvType, QueueType, LocalType, MoveType, apiVars,
       envVars, queue, locals

\* The named values belong to the sets the types are made of.
LEMMA Values ==
  /\ NoStatus \in Status
  /\ NoCR \in CR
  /\ NoMeta \in Meta
  /\ NoResult \in Result
  /\ NoReport \in ReportType
  /\ NoCR.exists = FALSE /\ NoCR.finalizer = FALSE /\ NoCR.deleting = FALSE
  /\ NoCR.status.resolution = "" /\ NoMeta.exists = FALSE
  /\ \A c \in CR : c.status \in Status
<1>1. NoStatus \in Status
  BY DEF NoStatus, Status, OrNone, GatewayStates, Conds, Truth
<1>2. NoCR \in CR
  BY <1>1 DEF NoCR, CR, OrNone
<1>3. NoMeta \in Meta /\ NoResult \in Result /\ NoReport \in ReportType
  BY DEF NoMeta, Meta, NoResult, Result, NoReport, ReportType, OrNone
<1>4. /\ NoCR.exists = FALSE /\ NoCR.finalizer = FALSE /\ NoCR.deleting = FALSE
      /\ NoCR.status.resolution = "" /\ NoMeta.exists = FALSE
  BY DEF NoCR, NoMeta, NoStatus
<1>5. \A c \in CR : c.status \in Status
  BY DEF CR
<1>6. QED
  BY <1>1, <1>2, <1>3, <1>4, <1>5

\* Setting a condition, a field or the gateways of a status gives a status.
LEMMA StatusUpdates ==
  ASSUME NEW s \in Status, NEW t \in Truth
  PROVE  /\ [s EXCEPT !.conds.profilesValid = t] \in Status
         /\ [s EXCEPT !.conds.ready = t] \in Status
         /\ [s EXCEPT !.conds.refResolved = t] \in Status
         /\ \A x \in {"", "Resolved", "Error"} :
              [s EXCEPT !.resolution = x] \in Status
         /\ \A c \in OrNone(Commits), r \in OrNone(Refs) :
              [s EXCEPT !.commit = c, !.ref = r, !.recent = TRUE] \in Status
<1>1. s.conds \in Conds
  BY DEF Status
<1>2. /\ [s.conds EXCEPT !.profilesValid = t] \in Conds
      /\ [s.conds EXCEPT !.ready = t] \in Conds
      /\ [s.conds EXCEPT !.refResolved = t] \in Conds
  BY <1>1 DEF Conds
<1>3. /\ [s EXCEPT !.conds.profilesValid = t] \in Status
      /\ [s EXCEPT !.conds.ready = t] \in Status
      /\ [s EXCEPT !.conds.refResolved = t] \in Status
  BY <1>2 DEF Status
<1>4. QED
  BY <1>3 DEF Status

\* The initial state has the right types.
LEMMA TypeInit == Init => TypeOK
<1> SUFFICES ASSUME Init PROVE TypeOK
  OBVIOUS
<1>1. ApiType
  BY Values DEF Init, ApiType
<1>2. EnvType
  BY DEF Init, EnvType, OrNone
<1>3. LocalType
  BY Values DEF Init, LocalType, Steps
<1>4. QueueType
  BY DEF Init, QueueType
<1>5. MoveType
  <2>1. MaxMoves \in Nat
    BY ControllerAssumption
  <2>2. QED
    BY <2>1 DEF Init, MoveType
<1>6. QED
  BY <1>1, <1>2, <1>3, <1>4, <1>5, TypeParts

\* Returning resets the locals; the queue keeps its type.
LEMMA DoneType == Done => LocalType' /\ pc' = "idle"
BY Values DEF Done, LocalType, Steps

\* Every group but the bound on the moves, which Next treats by itself.
Typed == ApiType /\ EnvType /\ QueueType /\ LocalType

\* Changing fields of an object to values of their types gives an object.
LEMMA CRUpdates ==
  ASSUME NEW c \in CR
  PROVE  /\ [c EXCEPT !.finalizer = TRUE, !.normal = TRUE] \in CR
         /\ [c EXCEPT !.deleting = TRUE] \in CR
         /\ \A s \in Status : [c EXCEPT !.status = s] \in CR
         /\ \A r \in OrNone(Refs) :
              /\ [c EXCEPT !.requested = r] \in CR
              /\ [c EXCEPT !.requested = r, !.normal = TRUE] \in CR
         /\ \A r \in Refs, b, v \in BOOLEAN :
              [c EXCEPT !.ref = r, !.paused = b, !.valid = v] \in CR
         /\ \A r \in Refs, n \in BOOLEAN :
              [c EXCEPT !.exists = TRUE, !.ref = r, !.normal = n] \in CR
         /\ Old(c) \in CR
<1>1. c.status \in Status
  BY DEF CR
<1>2. [c.status EXCEPT !.recent = FALSE] \in Status
  BY <1>1 DEF Status
<1>3. Old(c) \in CR
  BY <1>2 DEF Old, CR
<1>4. QED
  BY <1>3 DEF CR, OrNone

\* A reconcile starts with well-typed locals.
LEMMA ReconcileType == Typed /\ Reconcile => Typed'
<1> SUFFICES ASSUME Typed, Reconcile PROVE Typed'
  OBVIOUS
<1> USE DEF Typed
<1>1. ApiType' /\ EnvType' /\ QueueType'
  BY TypeUnchanged DEF Reconcile, QueueType
<1>2. cache \in CR /\ cache.status \in Status
  BY Values DEF ApiType
<1>3. ASSUME Begin(cache), gs' = cache, res' = NoResult PROVE LocalType'
  <2> DEFINE v == ValidateProfiles(cache)
             s == [cache.status EXCEPT !.conds.profilesValid = v]
  <2>1. v \in Truth /\ "False" \in Truth
    BY DEF Truth, ValidateProfiles
  <2>2. s \in Status
    BY <1>2, <2>1, StatusUpdates
  <2>3. [s EXCEPT !.conds.ready = "False"] \in Status
    BY <2>1, <2>2, StatusUpdates
  <2>4. [cache.status EXCEPT !.conds.profilesValid = v,
                             !.conds.ready = "False"] \in Status
    <3>1. [cache.status.conds EXCEPT !.profilesValid = v, !.ready = "False"]
            \in Conds
      BY <1>2, <2>1 DEF Status, Conds
    <3>2. QED
      BY <1>2, <3>1 DEF Status, Conds
  <2>5. st' \in Status
    BY <1>3, <2>2, <2>4 DEF Begin
  <2>6. QED
    BY <1>2, <1>3, <2>5, Values DEF Begin, LocalType, Steps
<1>4. ASSUME pc' = "patch", gs' = cache, ret' = "paused", res' = NoResult,
             st' = [cache.status EXCEPT !.conds.ready = "False"]
      PROVE  LocalType'
  BY <1>2, <1>4, Values, StatusUpdates DEF LocalType, Steps, Truth
<1>5. ASSUME pc' \in {"cleanup", "addFinalizer"}, gs' = cache,
             res' = NoResult, UNCHANGED <<st, ret>>
      PROVE  LocalType'
  BY <1>2, <1>5, Values DEF LocalType, Steps
<1>6. LocalType'
  BY <1>3, <1>4, <1>5, DoneType DEF Reconcile
<1>7. QED
  BY <1>1, <1>6

\* Adding and removing the finalizer and the cleanup between them.
LEMMA FinalizerType ==
  Typed /\ (AddFinalizer \/ CleanupMeta \/ CleanupStatus \/ RemoveFinalizer)
    => Typed'
<1> SUFFICES ASSUME Typed, AddFinalizer \/ CleanupMeta \/ CleanupStatus
                           \/ RemoveFinalizer
             PROVE  Typed'
  OBVIOUS
<1> USE DEF Typed
<1>1. EnvType'
  BY TypeUnchanged DEF AddFinalizer, CleanupMeta, CleanupStatus,
                       RemoveFinalizer
<1>2. LocalType' /\ QueueType'
  BY DoneType DEF AddFinalizer, CleanupMeta, CleanupStatus, RemoveFinalizer,
                  ReturnError, LocalType, QueueType, ApiType, Steps, queue
<1>3. ApiType'
  BY Values, CRUpdates DEF AddFinalizer, CleanupMeta, CleanupStatus,
                           RemoveFinalizer, ApiType
<1>4. QED
  BY <1>1, <1>2, <1>3

\* The reconcile works on an object that names a ref.
LEMMA EffectiveRef ==
  ASSUME NEW c \in CR, c.ref # None
  PROVE  Effective(c) \in Refs
BY DEF Effective, CR, OrNone

\* Resolving the ref leads to a commit of the repository or to an error.
LEMMA ResolveType == Typed /\ Named /\ ResolveRef => Typed'
<1> SUFFICES ASSUME Typed, Named, ResolveRef PROVE Typed'
  OBVIOUS
<1> USE DEF Typed
<1>1. ApiType' /\ EnvType' /\ QueueType'
  BY TypeUnchanged DEF ResolveRef
<1>2. gs \in CR /\ gs.status \in Status /\ st \in Status /\ UNCHANGED gs
  BY Values DEF LocalType, ResolveRef
<1>3. Effective(gs) \in Refs
  BY <1>2, EffectiveRef DEF Named, ResolveRef
<1>4. ASSUME NEW commit \in Commits, NEW ref \in Refs, Resolved(commit, ref)
      PROVE  LocalType'
  <2> DEFINE s == [st EXCEPT !.conds.refResolved = "True",
                             !.resolution = "Resolved"]
             n == IF st.commit = commit THEN s
                  ELSE [s EXCEPT !.commit = commit, !.ref = ref,
                                 !.recent = TRUE]
  <2>1. [st.conds EXCEPT !.refResolved = "True"] \in Conds
    BY <1>2 DEF Status, Conds, Truth
  <2>2. s \in Status
    BY <1>2, <2>1 DEF Status
  <2>3. n \in Status
    BY <2>2 DEF Status, OrNone
  <2>4. [n EXCEPT !.conds.ready = "False"] \in Status
    BY <2>3, StatusUpdates DEF Truth
  <2>5. /\ st' \in Status /\ pc' \in Steps
        /\ ret' \in {"none", "paused", "backoff", "ok"}
    BY <1>4, <2>3, <2>4 DEF Resolved, Steps, LocalType
  <2>6. res' \in Result
    BY <1>4 DEF Resolved, Result, LocalType, OrNone
  <2>7. QED
    BY <1>2, <2>5, <2>6 DEF LocalType
<1>5. ASSUME st' = [st EXCEPT !.conds.refResolved = "False",
                              !.resolution = "Error"],
             pc' = "patch", ret' = "backoff", UNCHANGED res
      PROVE  LocalType'
  <2>1. [st.conds EXCEPT !.refResolved = "False"] \in Conds
    BY <1>2 DEF Status, Conds, Truth
  <2>2. st' \in Status
    BY <1>2, <1>5, <2>1 DEF Status
  <2>3. QED
    BY <1>2, <1>5, <2>2 DEF LocalType, Steps
<1>6. CASE UseCached /\ Resolved(gs.status.commit, Effective(gs))
  <2>1. gs.status.commit \in Commits
    BY <1>2, <1>6 DEF UseCached, Status, OrNone
  <2>2. QED
    BY <1>1, <1>3, <1>4, <1>6, <2>1
<1>7. CASE LsRemote(Effective(gs)) # None
           /\ Resolved(LsRemote(Effective(gs)), Effective(gs))
  <2>1. LsRemote(Effective(gs)) \in Commits
    BY <1>3, <1>7 DEF LsRemote, EnvType, OrNone
  <2>2. QED
    BY <1>1, <1>3, <1>4, <1>7, <2>1
<1>8. QED
  BY <1>1, <1>5, <1>6, <1>7 DEF ResolveRef

\* What discoverGateways and collectGatewayStatus find are gateway states.
LEMMA GatewaysFound ==
  Typed => /\ Discovered \in [Pods -> GatewayStates]
           /\ Collected \in [Pods -> GatewayStates]
           /\ Subjects \in SUBSET Pods
<1> SUFFICES ASSUME Typed PROVE /\ Discovered \in [Pods -> GatewayStates]
                                /\ Collected \in [Pods -> GatewayStates]
                                /\ Subjects \in SUBSET Pods
  OBVIOUS
<1>1. ASSUME NEW p \in Pods PROVE Discovered[p] \in GatewayStates
  BY DEF Discovered, GatewayStates
<1>2. Discovered \in [Pods -> GatewayStates]
  BY <1>1 DEF Discovered
<1>3. ASSUME NEW p \in Pods, report.entry[p] # None
      PROVE  report.entry[p] \in GatewayStates
  BY <1>3 DEF Typed, ApiType, ReportType, OrNone, GatewayStates
<1>4. Collected \in [Pods -> GatewayStates]
  BY <1>1, <1>3 DEF Collected
<1>5. QED
  BY <1>2, <1>4 DEF Subjects

\* Metadata, gateways and conditions keep their types.
LEMMA PublishType ==
  Typed /\ (EnsureMetadataConfigMap \/ DiscoverGateways) => Typed'
<1> SUFFICES ASSUME Typed, EnsureMetadataConfigMap \/ DiscoverGateways
             PROVE  Typed'
  OBVIOUS
<1> USE DEF Typed
<1>1. CASE EnsureMetadataConfigMap
  <2>1. EnvType'
    BY <1>1, TypeUnchanged DEF EnsureMetadataConfigMap
  <2>2. LocalType' /\ QueueType'
    BY <1>1 DEF EnsureMetadataConfigMap, LocalType, QueueType, Steps
  <2>3. meta' \in Meta
    <3>1. /\ res.commit \in OrNone(Commits) /\ res.ref \in OrNone(Refs)
          /\ gs.paused \in BOOLEAN /\ gs.valid \in BOOLEAN /\ meta \in Meta
      BY DEF LocalType, ApiType, Result, CR
    <3>2. Published \in Meta
      BY <3>1 DEF Published, Meta
    <3>3. QED
      BY <1>1, <3>1, <3>2 DEF EnsureMetadataConfigMap
  <2>4. ApiType'
    BY <1>1, <2>3 DEF EnsureMetadataConfigMap, ApiType
  <2>5. QED
    BY <2>1, <2>2, <2>4
<1>2. CASE DiscoverGateways
  <2>1. EnvType'
    BY <1>2, TypeUnchanged DEF DiscoverGateways, EnsureAgentRoleBinding
  <2>2. bound' \in SUBSET Pods
    BY <1>2, GatewaysFound DEF DiscoverGateways, EnsureAgentRoleBinding, ApiType
  <2>3. ApiType'
    BY <1>2, <2>2 DEF DiscoverGateways, EnsureAgentRoleBinding, ApiType
  <2>4. st \in Status /\ st.gateways \in [Pods -> GatewayStates]
        /\ st.conds \in Conds
    BY DEF LocalType, Status
  <2>5. ASSUME NEW g \in [Pods -> GatewayStates]
        PROVE  [st EXCEPT !.gateways = g, !.conds = Conditions(st.conds, g)]
                 \in Status
    <3>1. \A b \in BOOLEAN : Bool(b) \in Truth
      BY DEF Bool, Truth
    <3>2. st.conds.sidecar \in Truth
      BY <2>4 DEF Conds
    <3>3. (\A p \in Pods : g[p] # "MissingSidecar") \in BOOLEAN
          /\ AllSynced(g) \in BOOLEAN
      BY DEF AllSynced
    <3>4. Bool(\A p \in Pods : g[p] # "MissingSidecar") \in Truth
          /\ Bool(AllSynced(g)) \in Truth
      BY <3>1, <3>3
    <3>5. Bool(/\ st.conds.refResolved = "True"
               /\ st.conds.profilesValid = "True" /\ AllSynced(g)) \in Truth
      BY DEF Bool, Truth
    <3>6. Conditions(st.conds, g) \in Conds
      BY <2>4, <3>2, <3>4, <3>5 DEF Conditions, Conds
    <3>7. QED
      BY <2>4, <3>6 DEF Status
  <2>6. st' \in Status
    <3>1. PICK g \in {Collected, Discovered, st.gateways} :
            st' = [st EXCEPT !.gateways = g, !.conds = Conditions(st.conds, g)]
      BY <1>2 DEF DiscoverGateways, EnsureAgentRoleBinding
    <3>2. g \in [Pods -> GatewayStates]
      BY <2>4, GatewaysFound
    <3>3. QED
      BY <2>5, <3>1, <3>2
  <2>7. LocalType' /\ QueueType'
    BY <1>2, <2>6 DEF DiscoverGateways, EnsureAgentRoleBinding, LocalType, QueueType, Steps
  <2>8. QED
    BY <2>1, <2>3, <2>7
<1>3. QED
  BY <1>1, <1>2

\* A merge of well-typed statuses is a status.
LEMMA MergeType ==
  ASSUME NEW s \in Status, NEW b \in Status, NEW n \in Status, NEW t
  PROVE  Merge(s, b, n, t) \in Status
BY DEF Merge, Pick, Status

\* The status patch, the removal of the annotation and the return.
LEMMA PatchType ==
  Typed /\ (PatchStatus \/ ClearRequestedRef \/ ClearPatch) => Typed'
<1> SUFFICES ASSUME Typed, PatchStatus \/ ClearRequestedRef \/ ClearPatch
             PROVE  Typed'
  OBVIOUS
<1> USE DEF Typed
<1>1. EnvType'
  BY TypeUnchanged DEF PatchStatus, ClearRequestedRef, ClearPatch
<1>2. \A t : Merge(cr.status, gs.status, st, t) \in Status
  BY Values, MergeType DEF ApiType, LocalType
<1>3. ApiType'
  <2>1. cr' \in CR
    <3>1. \/ UNCHANGED cr
          \/ \E t : cr' = [cr EXCEPT !.status = Merge(cr.status, gs.status, st, t)]
          \/ cr' = [cr EXCEPT !.requested = None]
      BY DEF PatchStatus, ClearRequestedRef, ClearPatch, apiVars
    <3>2. cr \in CR /\ None \in OrNone(Refs)
      BY DEF ApiType, OrNone
    <3>3. QED
      BY <1>2, <3>1, <3>2, CRUpdates
  <2>2. event' \in BOOLEAN
    BY DEF PatchStatus, ClearRequestedRef, ClearPatch, ApiType, apiVars
  <2>3. UNCHANGED <<cache, meta, report, bound>>
    BY DEF PatchStatus, ClearRequestedRef, ClearPatch, apiVars
  <2>4. QED
    BY <2>1, <2>2, <2>3 DEF ApiType
<1>4. LocalType' /\ QueueType'
  <2>1. Polling \in BOOLEAN
    BY ControllerAssumption
  <2>2. Finish => LocalType' /\ QueueType'
    BY <2>1, DoneType DEF Finish, QueueType
  <2>3. BackoffRequeue \/ ReturnError => LocalType' /\ QueueType'
    BY DoneType DEF BackoffRequeue, ReturnError, QueueType
  <2>4. Done /\ UNCHANGED queue => LocalType' /\ QueueType'
    BY DoneType, TypeUnchanged
  <2>5. pc' \in Steps /\ UNCHANGED <<queue, gs, st, res, ret>>
          => LocalType' /\ QueueType'
    BY TypeUnchanged DEF LocalType
  <2>6. ASSUME pc' \in Steps, gs' = Answer(cr'),
               UNCHANGED <<queue, st, res, ret>>
        PROVE  LocalType' /\ QueueType'
    <3>1. Answer(cr') \in CR
      BY <1>3, CRUpdates DEF Answer, ApiType, LocalType, CR
    <3>2. QED
      BY <2>6, <3>1, TypeUnchanged DEF LocalType
  <2>7. QED
    BY <2>2, <2>3, <2>4, <2>5, <2>6
       DEF PatchStatus, ClearRequestedRef, ClearPatch, Steps
<1>5. QED
  BY <1>1, <1>3, <1>4

\* Watch events, timers, time and restarts.
LEMMA ClockType ==
  Typed /\ (WatchCR \/ TimerFires \/ Elapse \/ RestartController) => Typed'
<1> SUFFICES ASSUME Typed, WatchCR \/ TimerFires \/ Elapse
                           \/ RestartController
             PROVE  Typed'
  OBVIOUS
<1> USE DEF Typed
<1>1. EnvType'
  BY TypeUnchanged DEF WatchCR, TimerFires, Elapse, RestartController
<1>2. CASE WatchCR
  <2>1. ApiType' /\ QueueType' /\ LocalType'
    BY <1>2, TypeUnchanged DEF WatchCR, ApiType, QueueType
  <2>2. QED
    BY <1>1, <2>1
<1>3. CASE TimerFires
  <2>1. ApiType' /\ QueueType' /\ LocalType'
    BY <1>3, TypeUnchanged DEF TimerFires, QueueType
  <2>2. QED
    BY <1>1, <2>1
<1>4. CASE Elapse
  <2>1. Old(cr) \in CR /\ Old(cache) \in CR /\ Old(gs) \in CR
    BY CRUpdates DEF ApiType, LocalType
  <2>2. ApiType' /\ QueueType' /\ LocalType'
    BY <1>4, <2>1, TypeUnchanged DEF Elapse, ApiType, LocalType
  <2>3. QED
    BY <1>1, <2>2
<1>5. CASE RestartController
  <2>1. cr.exists \in BOOLEAN
    BY DEF ApiType, CR
  <2>2. ApiType' /\ QueueType' /\ LocalType'
    BY <1>5, <2>1, DoneType DEF RestartController, ApiType, QueueType
  <2>3. QED
    BY <1>1, <2>2
<1>6. QED
  BY <1>2, <1>3, <1>4, <1>5

\* Webhooks and edits of the object.
LEMMA EditType ==
  ASSUME Typed, NEW r \in Refs, NEW b \in BOOLEAN, NEW v \in BOOLEAN,
         HandleWebhook(r) \/ Create(r, b) \/ EditSpec(r, b, v) \/ DeleteCR
  PROVE  Typed'
<1> USE DEF Typed
<1>1. EnvType' /\ QueueType' /\ LocalType'
  BY TypeUnchanged DEF HandleWebhook, Create, EditSpec, DeleteCR
<1>2. cr' \in CR
  <2>1. \/ UNCHANGED cr \/ cr' = NoCR
        \/ cr' = [cr EXCEPT !.requested = r, !.normal = TRUE]
        \/ cr' = [NoCR EXCEPT !.exists = TRUE, !.ref = r, !.normal = b]
        \/ cr' = [cr EXCEPT !.ref = r, !.paused = b, !.valid = v]
        \/ cr' = [cr EXCEPT !.deleting = TRUE]
    BY DEF HandleWebhook, Create, EditSpec, DeleteCR
  <2>2. cr \in CR /\ NoCR \in CR /\ r \in OrNone(Refs)
    BY Values DEF ApiType, OrNone
  <2>3. [NoCR EXCEPT !.exists = TRUE, !.ref = r, !.normal = b] \in CR
    BY <2>2, CRUpdates
  <2>4. /\ [cr EXCEPT !.requested = r, !.normal = TRUE] \in CR
        /\ [cr EXCEPT !.ref = r, !.paused = b, !.valid = v] \in CR
        /\ [cr EXCEPT !.deleting = TRUE] \in CR
    BY <2>2, CRUpdates
  <2>5. QED
    BY <2>1, <2>2, <2>3, <2>4
<1>3. ApiType'
  BY <1>2 DEF HandleWebhook, Create, EditSpec, DeleteCR, ApiType
<1>4. QED
  BY <1>1, <1>3

\* The remote repository, the Secrets, the pods and their agents.
LEMMA WorldType ==
  ASSUME Typed,
         \/ \E r \in Refs, c \in OrNone(Commits) : Push(r, c)
         \/ \E s \in {"git", "apiKey"} : ToggleSecret(s)
         \/ \E p \in Pods, f \in {"absent", "pending", "bare"} : MovePod(p, f)
         \/ \E p \in Pods : PodRuns(p)
         \/ \E p \in Pods, s \in {"Pending", "Synced", "Error"} :
              AgentReports(p, s)
         \/ Stabilise
  PROVE  Typed'
<1> USE DEF Typed
<1>1. LocalType'
  BY TypeUnchanged DEF Push, ToggleSecret, MovePod, PodRuns, AgentReports,
                       Stabilise
<1>2. QueueType'
  BY TypeUnchanged DEF Push, ToggleSecret, MovePod, PodRuns, AgentReports,
                       Stabilise, QueueType, queue
<1>3. EnvType'
  BY DEF Push, ToggleSecret, MovePod, PodRuns, AgentReports, Stabilise,
         EnvType, envVars
<1>4. ASSUME NEW p \in Pods, NEW s \in {"Pending", "Synced", "Error"},
             AgentReports(p, s)
      PROVE  ApiType'
  <2>1. [report.entry EXCEPT ![p] = s]
          \in [Pods -> OrNone({"Pending", "Synced", "Error"})]
    BY DEF ApiType, ReportType, OrNone
  <2>2. QED
    BY <1>4, <2>1 DEF AgentReports, ApiType, ReportType
<1>5. ApiType'
  BY <1>4, TypeUnchanged DEF Push, ToggleSecret, MovePod, PodRuns, Stabilise
<1>6. QED
  BY <1>1, <1>2, <1>3, <1>5

-----------------------------------------------------------------------------
\* What is to be shown of a step besides the types.
Safe == Named /\ Held /\ Parted /\ Announced /\ MetaOwned /\ StaysScheduled

\* Nothing exists initially.
LEMMA SafeInit == Init => Safe
BY Values DEF Init, Safe, Named, Held, Parted, Announced, MetaOwned,
              StaysScheduled, Started, Live, SpecOf

\* The fields of objects that are compared.
LEMMA Fields ==
  ASSUME NEW c \in CR
  PROVE  /\ c.exists \in BOOLEAN /\ c.deleting \in BOOLEAN
         /\ c.finalizer \in BOOLEAN /\ c.paused \in BOOLEAN
         /\ c.valid \in BOOLEAN
         /\ c.ref \in OrNone(Refs) /\ c.requested \in OrNone(Refs)
BY DEF CR

\* A reconcile takes the key from the queue.
LEMMA ReconcileSafe == Typed /\ Safe /\ Reconcile => Safe'
<1> SUFFICES ASSUME Typed, Safe, Reconcile PROVE Safe'
  OBVIOUS
<1> USE DEF Safe
<1>1. /\ UNCHANGED <<cr, cache, event, meta, timer>>
      /\ pc = "idle"
  BY DEF Reconcile, apiVars
<1>2. CASE (~cache.exists \/ (cache.deleting /\ ~cache.finalizer)) /\ Done
  <2>1. pc' = "idle"
    BY <1>2 DEF Done
  <2>2. ~cache.exists
    BY <1>2 DEF Parted
  <2>3. cr.exists => event
    BY <2>2, Fields DEF Announced, SpecOf, Typed, ApiType
  <2>4. QED
    BY <1>1, <2>1, <2>3 DEF Named, Held, Parted, Announced, MetaOwned,
       StaysScheduled, Started, Live, SpecOf, Queued
<1>3. CASE /\ cache.exists /\ gs' = cache
           /\ \/ cache.deleting /\ cache.finalizer /\ pc' = "cleanup"
              \/ ~cache.deleting /\ ~cache.finalizer /\ pc' = "addFinalizer"
              \/ Live(cache) /\ pc' = "patch" /\ (ret' = "paused" => cache.paused)
              \/ Live(cache) /\ pc' = "resolve"
  BY <1>1, <1>3 DEF Named, Held, Parted, Announced, MetaOwned, StaysScheduled,
     Started, Live, SpecOf
<1>4. QED
  BY <1>2, <1>3 DEF Reconcile, Begin, Live

\* What the object is after the finalizer is added.
LEMMA FinalizerAdded ==
  ASSUME NEW c \in CR, NEW d, d = [c EXCEPT !.finalizer = TRUE, !.normal = TRUE]
  PROVE  /\ SpecOf(d) = SpecOf(c) /\ d.finalizer /\ d.status = c.status
         /\ d.exists = c.exists /\ d.deleting = c.deleting
         /\ d.ref = c.ref /\ d.paused = c.paused
BY DEF CR, SpecOf

\* A returned error leaves the key in the queue.
LEMMA ErrorSafe ==
  Safe /\ ReturnError /\ UNCHANGED <<cr, cache, event, meta>> => Safe'
<1> SUFFICES ASSUME Safe, ReturnError, UNCHANGED <<cr, cache, event, meta>>
             PROVE  Safe'
  OBVIOUS
<1>1. pc' = "idle" /\ dirty' = TRUE
  BY DEF ReturnError, Done
<1>2. QED
  BY <1>1 DEF Safe, Named, Held, Parted, Announced, MetaOwned, StaysScheduled,
     Started, Live, SpecOf, Queued

\* The finalizer is added to a live object that was never reconciled.
LEMMA AddFinalizerSafe == Typed /\ Safe /\ AddFinalizer => Safe'
<1> SUFFICES ASSUME Typed, Safe, AddFinalizer PROVE Safe'
  OBVIOUS
<1> USE DEF Safe
<1>1. CASE ReturnError /\ UNCHANGED <<cr, event>>
  BY <1>1, ErrorSafe DEF AddFinalizer
<1>2. CASE /\ cr = gs /\ Done
           /\ cr' = [cr EXCEPT !.finalizer = TRUE, !.normal = TRUE]
  <2>1. /\ SpecOf(cr') = SpecOf(cr) /\ cr'.finalizer /\ cr'.exists = cr.exists
        /\ cr'.deleting = cr.deleting /\ cr'.ref = cr.ref
        /\ cr'.status = cr.status
    BY <1>2, FinalizerAdded DEF Typed, ApiType
  <2>2. /\ cr.exists /\ ~cr.finalizer /\ ~cr.deleting /\ ~cache.deleting
        /\ cr.status.resolution = ""
    BY <1>2 DEF AddFinalizer, Named, Held, Parted, Started
  <2>3. pc' = "idle" /\ UNCHANGED <<cache, meta>>
    BY <1>2 DEF AddFinalizer, Done
  <2>4. event => event'
    <3>1. event' = (event \/ ~gs.normal) \/ event' = event
      BY <1>2 DEF AddFinalizer
    <3>2. QED
      BY <3>1
  <2>5. QED
    BY <2>1, <2>2, <2>3, <2>4 DEF Named, Held, Parted, Announced, MetaOwned,
       StaysScheduled, Started, Live, SpecOf
<1>3. QED
  BY <1>1, <1>2 DEF AddFinalizer

\* The cleanup, and the removal of the finalizer once the metadata is gone.
LEMMA CleanupSafe ==
  Typed /\ Safe /\ (CleanupMeta \/ CleanupStatus \/ RemoveFinalizer) => Safe'
<1> SUFFICES ASSUME Typed, Safe,
                    CleanupMeta \/ CleanupStatus \/ RemoveFinalizer
             PROVE  Safe'
  OBVIOUS
<1> USE DEF Safe
<1>1. CASE ReturnError /\ UNCHANGED <<cr, event, meta>>
  BY <1>1, ErrorSafe DEF CleanupMeta, CleanupStatus, RemoveFinalizer
<1>2. CASE /\ pc = "cleanup" /\ pc' = "cleanupStatus" /\ meta' = NoMeta
           /\ (dirty => dirty') /\ UNCHANGED <<cr, cache, event, gs, ret>>
  BY <1>2, Values DEF Named, Held, Parted, Announced, MetaOwned,
     StaysScheduled, Started, Live, SpecOf
<1>3. CASE /\ pc = "cleanupStatus" /\ pc' = "removeFinalizer"
           /\ UNCHANGED <<dirty, cr, cache, event, gs, ret, meta>>
  BY <1>3 DEF Named, Held, Parted, Announced, MetaOwned,
     StaysScheduled, Started, Live, SpecOf
<1>4. CASE /\ pc = "removeFinalizer" /\ cr = gs /\ cr' = NoCR /\ event' = TRUE
           /\ Done /\ UNCHANGED <<cache, meta>>
  <2>1. pc' = "idle" /\ ~cr'.exists /\ ~cr'.deleting /\ ~cr'.finalizer
    BY <1>4, Values DEF Done
  <2>2. ~meta.exists /\ ~Live(cache)
    BY <1>4 DEF Held, Parted
  <2>3. QED
    BY <1>4, <2>1, <2>2 DEF Named, Held, Parted, Announced, MetaOwned,
       StaysScheduled, Started, Live
<1>5. QED
  BY <1>1, <1>2, <1>3, <1>4
     DEF CleanupMeta, CleanupStatus, RemoveFinalizer, queue

\* Steps within a reconcile that hold the object and return nothing yet.
LEMMA WorkingSafe ==
  ASSUME Safe, UNCHANGED <<cr, cache, event, gs>>, dirty => dirty',
         pc \in {"resolve", "meta", "discover", "patch", "clear"},
         pc' \in {"meta", "discover", "patch", "clear", "clearPatch"},
         pc' = "patch" => ret' # "paused",
         pc = "clear" => pc' = "clearPatch"
  PROVE  Safe'
BY DEF Safe, Named, Held, Parted, Announced, MetaOwned,
   StaysScheduled, Started, Live, SpecOf

\* From the resolution of the ref to the status.
LEMMA PublishSafe ==
  Typed /\ Safe /\ (ResolveRef \/ EnsureMetadataConfigMap \/ DiscoverGateways)
    => Safe'
<1> SUFFICES ASSUME Typed, Safe, ResolveRef \/ EnsureMetadataConfigMap
                                 \/ DiscoverGateways
             PROVE  Safe'
  OBVIOUS
<1>1. CASE ResolveRef
  <2>1. /\ pc = "resolve" /\ pc' \in {"meta", "patch"}
        /\ pc' = "patch" => ret' # "paused"
    BY <1>1 DEF ResolveRef, Resolved
  <2>2. UNCHANGED <<cr, cache, event, gs, dirty>>
    BY <1>1 DEF ResolveRef, apiVars, queue
  <2>3. QED
    BY <2>1, <2>2, WorkingSafe
<1>2. CASE EnsureMetadataConfigMap
  BY <1>2, WorkingSafe DEF EnsureMetadataConfigMap
<1>3. CASE DiscoverGateways
  <2>1. /\ pc = "discover" /\ pc' = "patch" /\ ret' = "ok"
        /\ UNCHANGED <<cr, cache, event, gs>> /\ (dirty => dirty')
    BY <1>3 DEF DiscoverGateways, EnsureAgentRoleBinding
  <2>2. QED
    BY <2>1, WorkingSafe
<1>4. QED
  BY <1>1, <1>2, <1>3

\* A return that leaves the key or a timer behind, or nothing more to be done.
LEMMA ReturnSafe ==
  ASSUME Safe, pc' = "idle", UNCHANGED <<cr, cache, event, meta>>,
         Polling /\ cr.exists /\ ~cr.paused => dirty' \/ timer' \/ event
  PROVE  Safe'
BY DEF Safe, Named, Held, Parted, Announced, MetaOwned, StaysScheduled,
   Started, Live, SpecOf, Queued

\* The status patch touches nothing but the status.
LEMMA PatchSafe == Typed /\ Safe /\ PatchStatus => Safe'
<1> SUFFICES ASSUME Typed, Safe, PatchStatus PROVE Safe'
  OBVIOUS
<1> USE DEF Safe
<1>1. /\ pc = "patch" /\ cr.exists /\ cr.finalizer
      /\ UNCHANGED <<cache, event, meta>>
  BY DEF PatchStatus, Held
<1>2. /\ SpecOf(cr') = SpecOf(cr) /\ cr'.finalizer /\ cr'.exists
      /\ cr'.deleting = cr.deleting /\ cr'.ref = cr.ref
      /\ cr'.paused = cr.paused
  <2>1. ASSUME NEW s, cr' = [cr EXCEPT !.status = s]
        PROVE  /\ SpecOf(cr') = SpecOf(cr) /\ cr'.finalizer /\ cr'.exists
               /\ cr'.deleting = cr.deleting /\ cr'.ref = cr.ref
               /\ cr'.paused = cr.paused
    BY <1>1, <2>1 DEF Typed, ApiType, CR, SpecOf
  <2>2. QED
    BY <1>1, <2>1 DEF PatchStatus
<1>3. CASE pc' = "clear" /\ gs' = Answer(cr') /\ UNCHANGED queue
  <2>1. gs'.exists /\ gs'.ref # None
    BY <1>1, <1>2, <1>3 DEF Answer, Named, Typed, ApiType, CR
  <2>2. QED
    BY <1>1, <1>2, <1>3, <2>1 DEF queue, Named, Held, Parted, Announced,
       MetaOwned, StaysScheduled, Started, Live, SpecOf
<1>4. CASE pc' = "idle" /\ (dirty' \/ timer')
  BY <1>1, <1>2, <1>4 DEF Named, Held, Parted, Announced, MetaOwned,
     StaysScheduled, Started, Live, SpecOf, Queued
<1>5. CASE ret = "paused" /\ pc' = "idle" /\ UNCHANGED queue
  <2>1. ~cr.paused => dirty \/ event
    BY <1>1, <1>5 DEF Announced, SpecOf
  <2>2. QED
    BY <1>1, <1>2, <1>5, <2>1 DEF queue, Named, Held, Parted, Announced,
       MetaOwned, StaysScheduled, Started, Live, SpecOf, Queued
<1>6. QED
  BY <1>3, <1>4, <1>5 DEF PatchStatus, BackoffRequeue, ReturnError, Done

\* The removal of the annotation is announced; polling sets the timer.
LEMMA ClearSafe == Typed /\ Safe /\ (ClearRequestedRef \/ ClearPatch) => Safe'
<1> SUFFICES ASSUME Typed, Safe, ClearRequestedRef \/ ClearPatch PROVE Safe'
  OBVIOUS
<1> USE DEF Safe
<1>1. CASE ClearRequestedRef
  <2>1. UNCHANGED <<cr, cache, event, meta>> /\ pc = "clear"
    BY <1>1 DEF ClearRequestedRef, apiVars
  <2>2. CASE pc' = "clearPatch" /\ UNCHANGED <<queue, gs, st, res, ret>>
    BY <2>1, <2>2, WorkingSafe DEF queue
  <2>3. CASE Finish
    <3>1. pc' = "idle" /\ (Polling => timer')
      BY <2>3 DEF Finish, Done
    <3>2. QED
      BY <2>1, <3>1, ReturnSafe
  <2>4. QED
    BY <1>1, <2>2, <2>3 DEF ClearRequestedRef
<1>2. CASE ClearPatch
  <2>1. /\ UNCHANGED <<cache, meta>> /\ pc = "clearPatch"
        /\ event => event'
        /\ pc' = "idle" /\ (Polling => timer')
    <3>1. UNCHANGED <<cache, meta>> /\ pc = "clearPatch" /\ pc' = "idle"
      BY <1>2 DEF ClearPatch, Finish, Done
    <3>2. event => event'
      BY <1>2 DEF ClearPatch
    <3>3. Polling => timer'
      BY <1>2 DEF ClearPatch, Finish
    <3>4. QED
      BY <3>1, <3>2, <3>3
  <2>2. /\ cr'.exists = cr.exists /\ cr'.deleting = cr.deleting
        /\ cr'.ref = cr.ref /\ cr'.paused = cr.paused
        /\ cr'.valid = cr.valid /\ cr'.finalizer = cr.finalizer
        /\ cr'.status = cr.status /\ (cr'.requested = cr.requested \/ event')
    <3>1. CASE UNCHANGED <<cr, event>>
      BY <3>1
    <3>2. CASE /\ cr' = [cr EXCEPT !.requested = None]
               /\ event' = (event \/ cr.requested # None)
      <4>1. cr \in CR
        BY DEF Typed, ApiType
      <4>2. cr'.requested = None
        BY <3>2, <4>1 DEF CR
      <4>3. cr'.requested = cr.requested \/ event'
        BY <3>2, <4>2
      <4>4. QED
        BY <3>2, <4>1, <4>3 DEF CR
    <3>3. QED
      BY <1>2, <3>1, <3>2 DEF ClearPatch
  <2>3. QED
    BY <2>1, <2>2 DEF Named, Held, Parted, Announced, MetaOwned,
       StaysScheduled, Started, Live, SpecOf, Queued
<1>3. QED
  BY <1>1, <1>2

\* The watch, timers, time and restarts.
LEMMA ClockSafe ==
  Typed /\ Safe /\ (WatchCR \/ TimerFires \/ Elapse \/ RestartController)
    => Safe'
<1> SUFFICES ASSUME Typed, Safe, WatchCR \/ TimerFires \/ Elapse
                                 \/ RestartController
             PROVE  Safe'
  OBVIOUS
<1> USE DEF Safe
<1>1. CASE WatchCR
  <2>1. /\ cache' = cr /\ dirty' = (dirty \/ event)
        /\ UNCHANGED <<cr, meta, timer, pc, gs, ret>>
    BY <1>1 DEF WatchCR, locals
  <2>2. Named' /\ Held' /\ Parted' /\ MetaOwned'
    BY <2>1 DEF Named, Held, Parted, MetaOwned, Started, Live
  <2>3. Announced'
    BY <2>1 DEF Announced, SpecOf
  <2>4. StaysScheduled'
    BY <2>1 DEF StaysScheduled, Queued, Started
  <2>5. QED
    BY <2>2, <2>3, <2>4
<1>2. CASE TimerFires
  BY <1>2 DEF TimerFires, apiVars, locals, Named, Held, Parted, Announced,
     MetaOwned, StaysScheduled, Started, Live, SpecOf, Queued
<1>3. CASE Elapse
  <2>1. ASSUME NEW c \in CR
        PROVE  /\ SpecOf(Old(c)) = SpecOf(c) /\ Old(c).exists = c.exists
               /\ Old(c).deleting = c.deleting /\ Old(c).ref = c.ref
               /\ Old(c).finalizer = c.finalizer /\ Old(c).paused = c.paused
               /\ Old(c).status.resolution = c.status.resolution
    <3>1. c.status \in Status
      BY DEF CR
    <3>2. [c.status EXCEPT !.recent = FALSE].resolution = c.status.resolution
      BY <3>1 DEF Status
    <3>3. QED
      BY <3>2 DEF Old, CR, SpecOf
  <2>2. cr \in CR /\ cache \in CR /\ gs \in CR
    BY DEF Typed, ApiType, LocalType
  <2>3. /\ SpecOf(cr') = SpecOf(cr) /\ SpecOf(cache') = SpecOf(cache)
        /\ SpecOf(gs') = SpecOf(gs)
        /\ cr'.finalizer = cr.finalizer /\ cache'.finalizer = cache.finalizer
        /\ gs'.finalizer = gs.finalizer
        /\ cr'.status.resolution = cr.status.resolution
    BY <1>3, <2>1, <2>2 DEF Elapse
  <2>4. UNCHANGED <<event, meta, dirty, timer, pc, ret>>
    BY <1>3 DEF Elapse, queue
  <2>5. /\ cr'.exists = cr.exists /\ cr'.deleting = cr.deleting
        /\ cr'.ref = cr.ref /\ cr'.paused = cr.paused
        /\ cache'.exists = cache.exists /\ cache'.deleting = cache.deleting
        /\ cache'.ref = cache.ref /\ cache'.paused = cache.paused
        /\ gs'.exists = gs.exists /\ gs'.deleting = gs.deleting
        /\ gs'.ref = gs.ref /\ gs'.paused = gs.paused
    BY <2>3 DEF SpecOf
  <2>6. Named'
    BY <2>4, <2>5 DEF Named
  <2>7. Held'
    BY <2>3, <2>4, <2>5 DEF Held, Live, Started
  <2>8. Parted'
    BY <2>3, <2>4, <2>5 DEF Parted, Live
  <2>9. Announced'
    BY <2>3, <2>4, <2>5 DEF Announced
  <2>10. MetaOwned'
    BY <2>3, <2>4, <2>5 DEF MetaOwned
  <2>11. StaysScheduled'
    BY <2>3, <2>4, <2>5 DEF StaysScheduled, Queued, Started
  <2>12. QED
    BY <2>6, <2>7, <2>8, <2>9, <2>10, <2>11
<1>4. CASE RestartController
  <2>1. /\ cache' = cr /\ dirty' = cr.exists /\ pc' = "idle"
        /\ UNCHANGED <<cr, meta>>
    BY <1>4 DEF RestartController, Done
  <2>2. QED
    BY <2>1 DEF Named, Held, Parted, Announced, MetaOwned, StaysScheduled,
       Started, Live, SpecOf, Queued
<1>5. QED
  BY <1>1, <1>2, <1>3, <1>4

\* Webhooks and edits are announced; an object that holds metadata stays until
\* its finalizer is removed.
LEMMA EditSafe ==
  ASSUME Typed, Safe, NEW r \in Refs, NEW b \in BOOLEAN, NEW v \in BOOLEAN,
         HandleWebhook(r) \/ Create(r, b) \/ EditSpec(r, b, v) \/ DeleteCR
  PROVE  Safe'
<1> USE DEF Safe
<1>1. UNCHANGED <<cache, meta, dirty, timer, pc, gs, ret>>
  BY DEF HandleWebhook, Create, EditSpec, DeleteCR, queue, locals
<1>2. r # None
  BY ControllerAssumption
<1>3. cr \in CR
  BY DEF Typed, ApiType
<1>4. CASE UNCHANGED <<cr, event>>
  BY <1>1, <1>4 DEF Named, Held, Parted, Announced, MetaOwned, StaysScheduled,
     Started, Live, SpecOf, Queued
<1>5. CASE /\ event' = TRUE
           /\ \/ cr' = [cr EXCEPT !.requested = r, !.normal = TRUE]
              \/ /\ cr' = [cr EXCEPT !.ref = r, !.paused = b, !.valid = v]
                 /\ ~cr.deleting
  <2>1. /\ cr'.exists = cr.exists /\ cr'.finalizer = cr.finalizer
        /\ cr'.deleting = cr.deleting /\ cr'.status = cr.status
        /\ cr'.ref = cr.ref \/ cr'.ref = r
    BY <1>3, <1>5 DEF CR
  <2>2. QED
    BY <1>1, <1>2, <1>5, <2>1 DEF Named, Held, Parted, Announced, MetaOwned,
       StaysScheduled, Started, Live, Queued
<1>6. CASE /\ event' = TRUE /\ ~cr.exists
           /\ cr' = [NoCR EXCEPT !.exists = TRUE, !.ref = r, !.normal = b]
  <2>1. /\ cr'.exists /\ ~cr'.finalizer /\ ~cr'.deleting /\ cr'.ref = r
        /\ cr'.status.resolution = ""
    BY <1>6, Values DEF CR
  <2>2. QED
    BY <1>1, <1>2, <1>6, <2>1 DEF Named, Held, Parted, Announced, MetaOwned,
       StaysScheduled, Started, Live, Queued
<1>7. CASE /\ event' = TRUE /\ ~cr.finalizer /\ cr' = NoCR
  <2>1. ~cr'.exists /\ ~cr'.finalizer /\ ~cr'.deleting
    BY <1>7, Values
  <2>2. QED
    BY <1>1, <1>7, <2>1 DEF Named, Held, Parted, Announced, MetaOwned,
       StaysScheduled, Started, Live, Queued
<1>8. CASE /\ event' = TRUE /\ cr.exists /\ cr.finalizer
           /\ cr' = [cr EXCEPT !.deleting = TRUE]
  <2>1. /\ cr'.exists /\ cr'.finalizer /\ cr'.deleting /\ cr'.ref = cr.ref
        /\ cr'.status = cr.status
    BY <1>3, <1>8 DEF CR
  <2>2. QED
    BY <1>1, <1>8, <2>1 DEF Named, Held, Parted, Announced, MetaOwned,
       StaysScheduled, Started, Live, Queued
<1>9. QED
  BY <1>4, <1>5, <1>6, <1>7, <1>8
     DEF HandleWebhook, Create, EditSpec, DeleteCR

\* The rest of the surroundings leaves the object, its metadata and the
\* reconcile alone.
LEMMA WorldSafe ==
  ASSUME Safe, UNCHANGED <<cr, cache, event, meta, timer, pc, gs, ret>>,
         dirty => dirty'
  PROVE  Safe'
BY DEF Safe, Named, Held, Parted, Announced, MetaOwned, StaysScheduled,
   Started, Live, SpecOf, Queued

\* ControllerInv is Safe with the types.
LEMMA InvParts == ControllerInv <=> Typed /\ MoveType /\ Safe
BY TypeParts DEF ControllerInv, Typed, Safe

\* The same for the next state.
LEMMA InvPartsPrimed == ControllerInv' <=> Typed' /\ MoveType' /\ Safe'
BY InvParts, PTL

\* Every step of the specification preserves the invariant.
LEMMA InvNext == ControllerInv /\ [Next]_vars => ControllerInv'
<1> SUFFICES ASSUME ControllerInv, [Next]_vars PROVE Typed' /\ MoveType' /\ Safe'
  BY InvPartsPrimed
<1>1. Typed /\ MoveType /\ Safe /\ Named
  BY InvParts DEF Safe
<1>2. MoveType'
  <2>1. MaxMoves \in Nat
    BY ControllerAssumption
  <2>2. moves' = moves \/ (moves < MaxMoves /\ moves' = moves + 1)
    <3>1. CASE UNCHANGED vars
      BY <3>1 DEF vars
    <3>2. CASE Next
      BY <3>2, Zenon DEF Next, ReconcileStep, Clock, Surroundings, PodStep
    <3>3. QED
      BY <3>1, <3>2
  <2>3. QED
    BY <1>1, <2>1, <2>2 DEF MoveType
<1>3. CASE ReconcileStep
  <2>1. Typed'
    BY <1>1, <1>3, ReconcileType, FinalizerType, ResolveType, PublishType,
       PatchType DEF ReconcileStep
  <2>2. Safe'
    BY <1>1, <1>3, ReconcileSafe, AddFinalizerSafe, CleanupSafe, PublishSafe,
       PatchSafe, ClearSafe DEF ReconcileStep
  <2>3. QED
    BY <1>2, <2>1, <2>2
<1>4. CASE Clock
  BY <1>1, <1>2, <1>4, ClockType, ClockSafe DEF Clock
<1>5. CASE RestartController
  BY <1>1, <1>2, <1>5, ClockType, ClockSafe
<1>6. CASE \E r \in Refs, b \in BOOLEAN, v \in BOOLEAN :
             \/ HandleWebhook(r) \/ Create(r, b) \/ EditSpec(r, b, v)
             \/ DeleteCR
  BY <1>1, <1>2, <1>6, EditType, EditSafe
<1>7. CASE \/ \E r \in Refs, c \in OrNone(Commits) : Push(r, c)
           \/ \E s \in {"git", "apiKey"} : ToggleSecret(s)
           \/ \E p \in Pods, f \in {"absent", "pending", "bare"} :
                MovePod(p, f)
           \/ \E p \in Pods : PodRuns(p)
           \/ \E p \in Pods, s \in {"Pending", "Synced", "Error"} :
                AgentReports(p, s)
           \/ Stabilise
  <2>1. /\ UNCHANGED <<cr, cache, event, meta, timer, pc, gs, ret>>
        /\ dirty => dirty'
    BY <1>7 DEF Push, ToggleSecret, MovePod, PodRuns, AgentReports, Stabilise,
                apiVars, locals, queue
  <2>2. QED
    BY <1>1, <1>2, <1>7, <2>1, WorldType, WorldSafe
<1>8. CASE UNCHANGED vars
  <2>1. /\ UNCHANGED <<apiVars, envVars, queue, locals>>
        /\ UNCHANGED <<cr, cache, event, meta, timer, pc, gs, ret, dirty>>
    BY <1>8 DEF vars, apiVars, envVars, queue, locals
  <2>2. Typed'
    BY <1>1, <2>1, TypeUnchanged DEF Typed
  <2>3. QED
    BY <1>1, <1>2, <2>1, <2>2, WorldSafe
<1>9. CASE Move
  <2>1. \E r \in Refs : TRUE
    BY ControllerAssumption
  <2>2. CASE DeleteCR
    BY <1>6, <2>1, <2>2
  <2>3. CASE \E r \in Refs : HandleWebhook(r)
    BY <1>6, <2>3
  <2>4. CASE \E r \in Refs, n \in BOOLEAN : Create(r, n)
    BY <1>6, <2>4
  <2>5. CASE \E r \in Refs, b \in BOOLEAN, v \in BOOLEAN : EditSpec(r, b, v)
    BY <1>6, <2>5
  <2>6. QED
    BY <1>5, <1>7, <1>9, <2>2, <2>3, <2>4, <2>5 DEF Move
<1>10. QED
  BY <1>3, <1>4, <1>7, <1>8, <1>9 DEF Next, Surroundings, PodStep

\* For every set of refs, commits and pods, whatever calls fail and in whatever
\* order watches, timers, restarts, edits and webhooks come: the inductive
\* invariant of the controller holds.
THEOREM ControllerInvariant == Spec => []ControllerInv
<1>1. Init => ControllerInv
  BY TypeInit, SafeInit DEF ControllerInv, Safe
<1>2. QED
  BY <1>1, InvNext, PTL DEF Spec

\* Objects, work queue and locals of Reconcile always have their types; in
\* particular it never resolves or publishes a ref that nobody named.
THEOREM ControllerTypeCorrect == Spec => []TypeOK
<1>1. ControllerInv => TypeOK
  BY DEF ControllerInv
<1>2. QED
  BY <1>1, ControllerInvariant, PTL

\* The metadata ConfigMap never outlives the object it belongs to: the
\* finalizer is removed after cleanupOwnedResources, and no reconcile that
\* works on an old copy writes the metadata again.
THEOREM ControllerMetaOwned == Spec => []MetaOwned
<1>1. ControllerInv => MetaOwned
  BY DEF ControllerInv
<1>2. QED
  BY <1>1, ControllerInvariant, PTL

\* With polling enabled no error path of Reconcile, no restart and no stale
\* copy takes a started, unpaused GatewaySync out of the work queue for good.
THEOREM ControllerStaysScheduled == Spec => []StaysScheduled
<1>1. ControllerInv => StaysScheduled
  BY DEF ControllerInv
<1>2. QED
  BY <1>1, ControllerInvariant, PTL

-----------------------------------------------------------------------------
(* The commit and the ref of the status, two fields of a merge patch.       *)

\* LastSyncCommit is the commit of LastSyncRef, or both are empty.
Paired(s) == \/ s.commit = None /\ s.ref = None
             \/ s.ref \in Refs /\ s.commit = tip[s.ref]

\* The agents are told a commit of the ref they are told.
PublishedFits == meta.exists => meta.ref \in Refs /\ meta.commit = tip[meta.ref]

\* The inductive invariant behind it: every copy of the status is paired, a
\* reconcile changes both fields or neither, and what it has resolved fits.
PairInv ==
  /\ tip \in [Refs -> Commits]
  /\ Paired(cr.status) /\ Paired(cache.status) /\ Paired(gs.status)
  /\ Paired(st)
  /\ pc \in {"resolve", "meta", "discover", "patch"} =>
       (st.commit = gs.status.commit => st.ref = gs.status.ref)
  /\ pc = "resolve" => st.commit = gs.status.commit
  /\ pc = "meta" => res.ref \in Refs /\ res.commit = tip[res.ref]
  /\ PublishedFits

\* A merge of such a change is paired, however stale the base.
LEMMA MergePaired ==
  ASSUME tip \in [Refs -> Commits], NEW s \in Status, NEW b \in Status,
         NEW n \in Status, Paired(s), Paired(b), Paired(n),
         n.commit = b.commit => n.ref = b.ref, NEW t
  PROVE  Paired(Merge(s, b, n, t))
<1> DEFINE m == Merge(s, b, n, t)
<1>0. m.commit = Pick(s.commit, b.commit, n.commit)
      /\ m.ref = Pick(s.ref, b.ref, n.ref)
  BY DEF Merge
<1>1. CASE n.commit = b.commit
  BY <1>0, <1>1 DEF Pick, Paired
<1>2. CASE n.commit # b.commit
  <2>1. n.ref # b.ref
    BY <1>2, ControllerAssumption DEF Paired
  <2> QED BY <1>0, <1>2, <2>1 DEF Pick, Paired
<1>3. QED
  BY <1>1, <1>2

\* The named values are paired.
LEMMA EmptyPaired == Paired(NoStatus) /\ Paired(NoCR.status)
BY DEF Paired, NoStatus, NoCR

\* A step that publishes nothing and leaves every copy of the status paired.
LEMMA PairFrame ==
  ASSUME PairInv, UNCHANGED tip,
         \A s \in {cr'.status, cache'.status, gs'.status, st'} : Paired(s),
         pc' \in {"resolve", "meta", "discover", "patch"} =>
           (st'.commit = gs'.status.commit => st'.ref = gs'.status.ref),
         pc' = "resolve" => st'.commit = gs'.status.commit,
         pc' = "meta" => res'.ref \in Refs /\ res'.commit = tip[res'.ref],
         UNCHANGED meta \/ meta' = NoMeta
  PROVE  PairInv'
<1>1. PublishedFits'
  BY DEF PairInv, PublishedFits, NoMeta
<1>2. Paired(cr.status)' /\ Paired(cache.status)' /\ Paired(gs.status)'
      /\ Paired(st)'
  BY DEF Paired
<1>3. QED
  BY <1>1, <1>2 DEF PairInv

\* Conditions, gateways and times are none of the two fields.
LEMMA PairOf ==
  ASSUME NEW s \in Status, Paired(s), NEW n, n.commit = s.commit, n.ref = s.ref
  PROVE  Paired(n)
BY DEF Paired

\* The copies of an invariant state.
LEMMA Copies ==
  ASSUME Typed, PairInv
  PROVE  /\ \A s \in {cr.status, cache.status, gs.status, st} :
              s \in Status /\ Paired(s)
         /\ cr \in CR /\ cache \in CR /\ gs \in CR
BY Values DEF Typed, ApiType, LocalType, PairInv

\* A reconcile that returns.
LEMMA DonePairs ==
  ASSUME Typed, PairInv, Done, UNCHANGED <<tip, cache>>,
         UNCHANGED meta \/ meta' = NoMeta, Paired(cr'.status)
  PROVE  PairInv'
BY PairFrame, EmptyPaired, Copies DEF Done

\* The beginning of a reconcile: the status it builds is its copy's.
LEMMA ReconcilePairs == Typed /\ PairInv /\ Reconcile => PairInv'
<1> SUFFICES ASSUME Typed, PairInv, Reconcile PROVE PairInv'
  OBVIOUS
<1>0. UNCHANGED <<tip, cr, cache, meta>> /\ cache.status \in Status
  BY Copies DEF Reconcile, apiVars, envVars
<1>1. CASE Done
  BY <1>0, <1>1, DonePairs, Copies
<1>2. CASE gs' = cache /\ UNCHANGED st
           /\ pc' \in {"cleanup", "addFinalizer"}
  BY <1>0, <1>2, PairFrame, Copies
<1>3. ASSUME gs' = cache, st'.commit = cache.status.commit,
             st'.ref = cache.status.ref, pc' \in {"resolve", "patch"}
      PROVE  PairInv'
  <2>1. Paired(st')
    BY <1>0, <1>3, PairOf, Copies
  <2> QED BY <1>0, <1>3, <2>1, PairFrame, Copies
<1>4. \A x : [cache.status EXCEPT !.conds.ready = x].commit = cache.status.commit
             /\ [cache.status EXCEPT !.conds.ready = x].ref = cache.status.ref
  BY <1>0 DEF Status
<1>5. ASSUME gs' = cache, Begin(cache) PROVE PairInv'
  BY <1>0, <1>3, <1>5 DEF Begin, Status
<1>6. QED
  BY <1>1, <1>2, <1>3, <1>4, <1>5 DEF Reconcile

\* The finalizer and the cleanup leave the status alone.
LEMMA FinalizerPairs ==
  Typed /\ PairInv
    /\ (AddFinalizer \/ CleanupMeta \/ CleanupStatus \/ RemoveFinalizer)
    => PairInv'
<1> SUFFICES ASSUME Typed, PairInv,
                    AddFinalizer \/ CleanupMeta \/ CleanupStatus
                      \/ RemoveFinalizer
             PROVE  PairInv'
  OBVIOUS
<1>1. UNCHANGED <<tip, cache>> /\ (UNCHANGED meta \/ meta' = NoMeta)
  BY DEF AddFinalizer, CleanupMeta, CleanupStatus, RemoveFinalizer, envVars
<1>2. cr'.status = cr.status \/ cr'.status = NoCR.status
  BY Copies DEF AddFinalizer, CleanupMeta, CleanupStatus, RemoveFinalizer, CR
<1>3. Paired(cr'.status)
  BY <1>2, EmptyPaired, Copies
<1>4. CASE Done
  BY <1>1, <1>3, <1>4, DonePairs
<1>5. CASE pc' \in {"cleanupStatus", "removeFinalizer"}
           /\ UNCHANGED <<gs, st, res>>
  BY <1>1, <1>3, <1>5, PairFrame, Copies
<1>6. QED
  BY <1>4, <1>5
     DEF AddFinalizer, CleanupMeta, CleanupStatus, RemoveFinalizer, ReturnError

\* What is resolved is the commit of the ref, from the remote or from the
\* copy; the two fields of the status change together.
LEMMA ResolvePairs == Typed /\ Named /\ PairInv /\ ResolveRef => PairInv'
<1> SUFFICES ASSUME Typed, Named, PairInv, ResolveRef PROVE PairInv'
  OBVIOUS
<1>0. /\ UNCHANGED <<tip, cr, cache, meta, gs>> /\ pc = "resolve"
      /\ st \in Status /\ tip \in [Refs -> Commits]
      /\ st.commit = gs.status.commit /\ st.ref = gs.status.ref
  BY Copies DEF ResolveRef, apiVars, envVars, PairInv
<1>1. Effective(gs) \in Refs
  BY <1>0, Copies, EffectiveRef DEF Named
<1>2. ASSUME NEW commit, NEW ref \in Refs, commit = tip[ref],
             Resolved(commit, ref)
      PROVE  PairInv'
  <2>1. \/ st'.commit = st.commit /\ st'.ref = st.ref /\ st.commit = commit
        \/ st'.commit = commit /\ st'.ref = ref /\ st.commit # commit
    BY <1>0, <1>2 DEF Resolved, Status
  <2>2. Paired(st')
    BY <1>0, <1>2, <2>1, Copies DEF Paired
  <2>3. st'.commit = gs'.status.commit => st'.ref = gs'.status.ref
    BY <1>0, <2>1
  <2>4. pc' \in {"meta", "patch"}
        /\ (pc' = "meta" => res' = [commit |-> commit, ref |-> ref])
    BY <1>2 DEF Resolved
  <2> QED BY <1>0, <1>2, <2>2, <2>3, <2>4, PairFrame, Copies
<1>3. CASE UseCached /\ Resolved(gs.status.commit, Effective(gs))
  <2>1. gs.status.commit = tip[Effective(gs)]
    BY <1>1, <1>3, Copies DEF UseCached, Paired
  <2> QED BY <1>1, <1>2, <1>3, <2>1
<1>4. CASE Resolved(LsRemote(Effective(gs)), Effective(gs))
  BY <1>1, <1>2, <1>4 DEF LsRemote
<1>5. CASE st' = [st EXCEPT !.conds.refResolved = "False",
                            !.resolution = "Error"]
           /\ pc' = "patch"
  <2>1. st'.commit = st.commit /\ st'.ref = st.ref
    BY <1>0, <1>5 DEF Status
  <2>2. Paired(st')
    BY <2>1, PairOf, Copies
  <2> QED BY <1>0, <1>5, <2>1, <2>2, PairFrame, Copies
<1>6. QED
  BY <1>3, <1>4, <1>5 DEF ResolveRef

\* The metadata and the gateways.
LEMMA PublishPairs ==
  Typed /\ PairInv /\ (EnsureMetadataConfigMap \/ DiscoverGateways) => PairInv'
<1> SUFFICES ASSUME Typed, PairInv, EnsureMetadataConfigMap \/ DiscoverGateways
             PROVE  PairInv'
  OBVIOUS
<1>0. UNCHANGED <<tip, cr, cache, gs>> /\ st \in Status
  BY Copies DEF EnsureMetadataConfigMap, DiscoverGateways, envVars
<1>1. CASE EnsureMetadataConfigMap /\ UNCHANGED meta
  <2>1. pc = "meta" /\ pc' = "discover" /\ UNCHANGED st
    BY <1>1 DEF EnsureMetadataConfigMap
  <2> QED BY <1>0, <1>1, <2>1, PairFrame, Copies DEF PairInv
<1>2. CASE EnsureMetadataConfigMap /\ meta' = Published
  <2>1. pc = "meta" /\ pc' = "discover" /\ UNCHANGED st
    BY <1>2 DEF EnsureMetadataConfigMap
  <2>2. meta'.ref \in Refs /\ meta'.commit = tip[meta'.ref]
    BY <1>2, <2>1 DEF Published, PairInv
  <2> QED BY <1>0, <2>1, <2>2 DEF PairInv, PublishedFits, Paired
<1>3. CASE DiscoverGateways
  <2>1. /\ pc = "discover" /\ pc' = "patch" /\ UNCHANGED meta
        /\ st'.commit = st.commit /\ st'.ref = st.ref
    BY <1>0, <1>3 DEF DiscoverGateways, Status
  <2>2. Paired(st')
    BY <2>1, PairOf, Copies
  <2> QED BY <1>0, <2>1, <2>2, PairFrame, Copies DEF PairInv
<1>4. QED
  BY <1>1, <1>2, <1>3 DEF EnsureMetadataConfigMap

\* The status patch: the base may be older than what the server has.
LEMMA PatchPairs ==
  Typed /\ PairInv /\ (PatchStatus \/ ClearRequestedRef \/ ClearPatch)
    => PairInv'
<1> SUFFICES ASSUME Typed, PairInv,
                    PatchStatus \/ ClearRequestedRef \/ ClearPatch
             PROVE  PairInv'
  OBVIOUS
<1>0. UNCHANGED <<tip, cache, meta>> /\ cr \in CR
  BY Copies DEF PatchStatus, ClearRequestedRef, ClearPatch, apiVars, envVars
<1>1. Paired(cr'.status)
  <2>1. CASE cr'.status = cr.status
    BY <2>1, Copies
  <2>2. CASE PatchStatus /\ \E t : cr' =
               [cr EXCEPT !.status = Merge(cr.status, gs.status, st, t)]
    <3>1. st.commit = gs.status.commit => st.ref = gs.status.ref
      BY <2>2 DEF PatchStatus, PairInv
    <3>2. \A t : Paired(Merge(cr.status, gs.status, st, t))
      BY <3>1, MergePaired, Copies DEF PairInv
    <3> QED BY <1>0, <2>2, <3>2 DEF CR
  <2>3. \/ UNCHANGED cr
        \/ PatchStatus /\ \E t : cr' =
             [cr EXCEPT !.status = Merge(cr.status, gs.status, st, t)]
        \/ cr' = [cr EXCEPT !.requested = None]
    BY DEF PatchStatus, ClearRequestedRef, ClearPatch, apiVars
  <2> QED BY <1>0, <2>1, <2>2, <2>3 DEF CR
<1>2. CASE Done
  BY <1>0, <1>1, <1>2, DonePairs
<1>3. CASE pc' \in {"clear", "clearPatch"} /\ UNCHANGED <<gs, st>>
  BY <1>0, <1>1, <1>3, PairFrame, Copies
<1>4. CASE pc' = "clear" /\ gs' = Answer(cr') /\ UNCHANGED st /\ PatchStatus
  <2>1. cr' \in CR
    BY PatchType, <1>4 DEF Typed, ApiType
  <2>2. gs'.status = cr'.status
    BY <1>4, <2>1 DEF Answer, CR
  <2> QED BY <1>0, <1>1, <1>4, <2>2, PairFrame, Copies
<1>5. QED
  BY <1>2, <1>3, <1>4 DEF PatchStatus, ClearRequestedRef, ClearPatch, Finish,
                          BackoffRequeue, ReturnError

\* Watch, time and restarts copy the status, or age it.
LEMMA ClockPairs ==
  Typed /\ PairInv /\ (WatchCR \/ TimerFires \/ Elapse \/ RestartController)
    => PairInv'
<1> SUFFICES ASSUME Typed, PairInv,
                    WatchCR \/ TimerFires \/ Elapse \/ RestartController
             PROVE  PairInv'
  OBVIOUS
<1>0. UNCHANGED <<tip, meta>>
  BY DEF WatchCR, TimerFires, Elapse, RestartController, apiVars, envVars
<1>1. CASE WatchCR \/ TimerFires
  <2>1. UNCHANGED <<cr, pc, gs, st, res>> /\ cache' \in {cache, cr}
    BY <1>1 DEF WatchCR, TimerFires, apiVars, locals
  <2> QED BY <1>0, <2>1, PairFrame, Copies DEF PairInv
<1>2. CASE RestartController
  <2>1. UNCHANGED cr /\ cache' = cr /\ Done
    BY <1>2 DEF RestartController
  <2> QED BY <1>0, <2>1, PairFrame, EmptyPaired, Copies DEF Done
<1>3. CASE Elapse
  <2>1. \A c \in CR : /\ Old(c).status.commit = c.status.commit
                      /\ Old(c).status.ref = c.status.ref
    BY DEF Old, CR, Status
  <2>2. /\ cr' = Old(cr) /\ cache' = Old(cache) /\ gs' = Old(gs)
        /\ UNCHANGED <<pc, st, res>>
    BY <1>3 DEF Elapse
  <2>3. /\ Paired(cr'.status) /\ Paired(cache'.status) /\ Paired(gs'.status)
    BY <2>1, <2>2, PairOf, Copies
  <2>4. gs'.status.commit = gs.status.commit /\ gs'.status.ref = gs.status.ref
    BY <2>1, <2>2, Copies
  <2> QED BY <1>0, <2>2, <2>3, <2>4, PairFrame, Copies DEF PairInv
<1>4. QED
  BY <1>1, <1>2, <1>3

\* Users and the receiver write the spec, annotations and marks only.
LEMMA EditPairs ==
  ASSUME Typed, PairInv, NEW r, NEW b, NEW v,
         HandleWebhook(r) \/ Create(r, b) \/ EditSpec(r, b, v) \/ DeleteCR
  PROVE  PairInv'
<1>1. UNCHANGED <<tip, cache, meta, pc, gs, st, res>>
  BY DEF HandleWebhook, Create, EditSpec, DeleteCR, envVars, locals
<1>2. cr'.status = cr.status \/ cr'.status = NoCR.status
  BY Copies, Values DEF HandleWebhook, Create, EditSpec, DeleteCR, CR
<1>3. Paired(cr'.status)
  BY <1>2, EmptyPaired, Copies
<1>4. QED
  BY <1>1, <1>3, PairFrame, Copies DEF PairInv

\* Every step, where no ref is moved.
LEMMA PairStep ==
  ASSUME "push" \notin Env, ControllerInv, PairInv, [Next]_vars
  PROVE  PairInv'
<1>1. Typed /\ Named
  BY InvParts DEF Safe
<1>2. CASE ReconcileStep
  BY <1>1, <1>2, ReconcilePairs, FinalizerPairs, ResolvePairs, PublishPairs,
     PatchPairs DEF ReconcileStep
<1>3. CASE Clock \/ RestartController
  BY <1>1, <1>3, ClockPairs DEF Clock
<1>4. CASE \E r, b, v :
             \/ HandleWebhook(r) \/ Create(r, b) \/ EditSpec(r, b, v)
             \/ DeleteCR
  BY <1>1, <1>4, EditPairs
<1>5. CASE \/ \E s \in {"git", "apiKey"} : ToggleSecret(s)
           \/ \E p \in Pods, f \in {"absent", "pending", "bare"} :
                MovePod(p, f)
           \/ \E p \in Pods : PodRuns(p)
           \/ \E p \in Pods, s \in {"Pending", "Synced", "Error"} :
                AgentReports(p, s)
           \/ Stabilise
           \/ UNCHANGED vars
  <2>1. UNCHANGED <<tip, cr, cache, meta, pc, gs, st, res>>
    BY <1>5 DEF ToggleSecret, MovePod, PodRuns, AgentReports, Stabilise, vars,
                apiVars, envVars, locals
  <2> QED BY <1>1, <2>1, PairFrame, Copies DEF PairInv
<1>6. CASE Move
  BY <1>3, <1>4, <1>5, <1>6 DEF Move, Push
<1>7. QED
  BY <1>2, <1>3, <1>5, <1>6 DEF Next, Surroundings, PodStep

\* Where refs do not move (tags), the agents are never told the commit of
\* another ref: not by a cached result, not by a reconcile of a stale copy, and
\* not by the merge of two reconciles' patches, whatever else happens.  With
\* moving branches this fails: the two fields may then come from two patches.
THEOREM ControllerPublishedFits ==
  ASSUME "push" \notin Env
  PROVE  Spec => []PublishedFits
<1>1. Init => PairInv
  BY EmptyPaired DEF Init, PairInv, PublishedFits, NoMeta
<1>2. ControllerInv /\ PairInv /\ [Next]_vars => PairInv'
  BY PairStep
<1>3. PairInv => PublishedFits
  BY DEF PairInv
<1>4. QED
  BY <1>1, <1>2, <1>3, ControllerInvariant, PTL DEF Spec
=============================================================================

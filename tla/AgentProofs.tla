---------------------------- MODULE AgentProofs ----------------------------
(***************************************************************************)
(* What is proved about Agent for every set of commits, refs and profile   *)
(* documents, every choice of failing calls and every environment.         *)
(***************************************************************************)
EXTENDS Agent, TLAPS

\* The named values belong to the sets the types are made of.
LEMMA Values ==
  /\ NoContent \in Content
  /\ NoJob \in Job
  /\ \A s \in Outcomes \cup {"None"}, c \in OrNone(Commits) :
       Entry(s, c) \in Status
  /\ \A c \in OrNone(Commits), d \in OrNone(Docs) :
       [commit |-> c, profiles |-> d] \in Content
  /\ Commits \subseteq OrNone(Commits)
  /\ Docs \subseteq OrNone(Docs)
  /\ Refs \subseteq OrNone(Refs)
  /\ None \in OrNone(Commits)
BY DEF Content, NoContent, OrNone, Status, Entry, Outcomes, Job, NoJob

\* The initial state has the right types.
LEMMA TypeInit == Init => TypeOK
<1> SUFFICES ASSUME Init PROVE TypeOK
  OBVIOUS
<1> USE DEF Init
<1>1. /\ tip \in [Refs -> Commits]
      /\ meta \in [exists : BOOLEAN, commit : Commits, ref : Refs,
                   profiles : Docs, paused : BOOLEAN]
  OBVIOUS
<1>2. gateway \in [up : BOOLEAN, commissioned : BOOLEAN, loaded : Content]
  BY Values
<1>3. repo \in OrNone(Commits) /\ live \in Content /\ status \in Status
  BY Values
<1>4. /\ pc \in [Procs -> MainSteps \cup PostSteps]
      /\ pc["main"] \in MainSteps /\ pc["post"] \in PostSteps
  BY DEF Both, Procs, MainSteps, PostSteps
<1>5. job \in [Procs -> Job]
  BY Values DEF Both
<1>6. syncMu \in OrNone(Procs) /\ lastSynced \in Content
  BY Values DEF OrNone
<1>7. QED
  BY <1>1, <1>2, <1>3, <1>4, <1>5, <1>6 DEF TypeOK

\* The parts of TypeOK an action of the agent may change.
EnvType  == /\ tip \in [Refs -> Commits]
            /\ meta \in [exists : BOOLEAN, commit : Commits, ref : Refs,
                         profiles : Docs, paused : BOOLEAN]
            /\ gateway \in [up : BOOLEAN, commissioned : BOOLEAN,
                            loaded : Content]
            /\ designers \in BOOLEAN /\ ctxDone \in BOOLEAN
            /\ stable \in BOOLEAN
DiskType == repo \in OrNone(Commits) /\ live \in Content
PcType   == /\ pc \in [Procs -> MainSteps \cup PostSteps]
            /\ pc["main"] \in MainSteps /\ pc["post"] \in PostSteps
            /\ job \in [Procs -> Job]
LockType == syncMu \in OrNone(Procs) /\ syncInProgress \in BOOLEAN
MemType  == /\ lastSynced \in Content
            /\ backoff \in BOOLEAN /\ ready \in BOOLEAN
            /\ shuttingDown \in BOOLEAN
WatchType == syncCh \in BOOLEAN /\ seen \in {"none", "stale", "current"}

\* TypeOK by groups of variables, so that an action cites one group.
LEMMA TypeParts ==
  TypeOK <=> /\ EnvType /\ DiskType /\ status \in Status /\ PcType
             /\ LockType /\ MemType /\ WatchType
BY DEF TypeOK, EnvType, DiskType, PcType, LockType, MemType, WatchType

\* The same for the next state.
LEMMA TypePartsPrimed ==
  TypeOK' <=> /\ EnvType' /\ DiskType' /\ (status \in Status)' /\ PcType'
              /\ LockType' /\ MemType' /\ WatchType'
BY TypeParts, PTL

\* A group of variables that does not change keeps its type.
LEMMA TypeUnchanged ==
  /\ EnvType /\ UNCHANGED envVars => EnvType'
  /\ DiskType /\ UNCHANGED diskVars => DiskType'
  /\ LockType /\ UNCHANGED lockVars => LockType'
  /\ MemType /\ UNCHANGED memVars => MemType'
  /\ WatchType /\ UNCHANGED watchVars => WatchType'
BY DEF EnvType, DiskType, LockType, MemType, WatchType, envVars, diskVars,
       lockVars, memVars, watchVars

\* WriteStatusConfigMap leaves a well-formed entry.
LEMMA TypeWrite ==
  ASSUME NEW p, NEW c, NEW s \in Status, status \in Status,
         WriteStatus(p, c, s)
  PROVE  (status \in Status)'
BY DEF WriteStatus

\* The end of the process (Run returning, or a kill) keeps the types.
LEMMA TypeGone == TypeOK /\ ProcessGone => TypeOK'
<1> SUFFICES ASSUME TypeOK, ProcessGone PROVE TypeOK'
  OBVIOUS
<1> USE TypeParts DEF ProcessGone
<1>1. EnvType' /\ (status \in Status)'
  BY TypeUnchanged
<1>2. DiskType'
  BY Values DEF DiskType
<1>3. PcType'
  BY Values DEF PcType, Both, Procs, MainSteps, PostSteps
<1>4. LockType' /\ MemType' /\ WatchType'
  BY Values DEF LockType, MemType, WatchType, OrNone
<1>5. QED
  BY <1>1, <1>2, <1>3, <1>4, TypePartsPrimed

\* Setting the locals of a sync keeps them well-formed.
LEMMA JobType ==
  ASSUME PcType, NEW p \in Procs
  PROVE  /\ job[p] \in Job
         /\ job[p].commit \in OrNone(Commits) /\ job[p].ref \in OrNone(Refs)
         /\ job[p].profiles \in OrNone(Docs) /\ job[p].plan \in OrNone(Docs)
         /\ job[p].outcome \in OrNone(Outcomes)
BY DEF PcType, Job

\* syncOnce returning to any of its three callers keeps the types.
LEMMA TypeReturn ==
  ASSUME TypeOK, NEW p \in Procs, NEW ok \in BOOLEAN, Return(p, ok)
  PROVE  /\ PcType' /\ LockType'
         /\ backoff' \in BOOLEAN /\ ready' \in BOOLEAN
<1> USE TypeParts, Values DEF PcType, LockType, OrNone, Procs
<1>1. CASE p = "main" /\ ~ready
  <2> DEFINE next == [NoJob EXCEPT !.commit = job["main"].commit,
                                   !.ref = job["main"].ref]
  <2>1. next \in Job
    BY JobType DEF NoJob, Job
  <2>2. job' = Both(NoJob, next) /\ pc' = Both("select", "poll")
        /\ ready' = TRUE /\ UNCHANGED <<lockVars, backoff>>
    BY <1>1 DEF Return
  <2> HIDE DEF next
  <2>3. job' \in [Procs -> Job]
    BY <2>1, <2>2 DEF Both
  <2>4. /\ pc' \in [Procs -> MainSteps \cup PostSteps]
        /\ pc'["main"] \in MainSteps /\ pc'["post"] \in PostSteps
    BY <2>2 DEF Both, MainSteps, PostSteps
  <2>5. QED
    BY <2>2, <2>3, <2>4 DEF lockVars, MemType
<1>2. CASE p = "main" /\ ready
  BY <1>2 DEF Return, MemType, MainSteps
<1>3. CASE p = "post"
  BY <1>3 DEF Return, MemType, PostSteps
<1>4. QED
  BY <1>1, <1>2, <1>3

\* reportError followed by an error return keeps the types.
LEMMA TypeFail ==
  ASSUME TypeOK, JobOK, NEW p \in Procs, FailSync(p), DiskType'
  PROVE  TypeOK' /\ JobOK'
<1>1. job[p].commit \in OrNone(Commits)
  BY TypeParts, JobType
<1>2. Entry("Error", job[p].commit) \in Status
  BY <1>1, Values DEF Outcomes
<1>3. (status \in Status)'
  BY <1>2, TypeParts, TypeWrite DEF FailSync
<1>4. PcType' /\ LockType' /\ backoff' \in BOOLEAN /\ ready' \in BOOLEAN
  BY TypeReturn DEF FailSync
<1>5. EnvType' /\ MemType' /\ WatchType'
  BY <1>4, TypeParts, TypeUnchanged DEF FailSync, MemType
<1>6. JobOK'
  BY TypeParts DEF FailSync, Return, JobOK, PcType, Both, Procs, SyncSteps
<1>7. QED
  BY <1>3, <1>4, <1>5, <1>6, TypePartsPrimed

\* Agent.Run up to the initial sync keeps the types.
LEMMA TypeBoot ==
  ASSUME TypeOK, JobOK, WaitForMetadata \/ InitialClone
  PROVE  TypeOK' /\ JobOK'
<1>1. CASE ProcessGone
  BY <1>1, TypeGone DEF ProcessGone, JobOK, Both, Procs
<1>2. CASE WaitForMetadata /\ ~ProcessGone
  <2>1. PcType' /\ JobOK'
    BY <1>2, TypeParts, Values
    DEF WaitForMetadata, JobOK, PcType, EnvType, Job, Procs, MainSteps
  <2>2. QED
    BY <1>2, <2>1, TypeParts, TypePartsPrimed, TypeUnchanged
    DEF WaitForMetadata
<1>3. CASE InitialClone /\ ~ProcessGone
  <2>1. CloneOrFetch(job["main"].ref) \in Commits
    BY <1>3, TypeParts DEF CloneOrFetch, InitialClone, JobOK, EnvType
  <2>2. PcType' /\ JobOK'
    BY <1>3, <2>1, TypeParts, Values
    DEF InitialClone, JobOK, PcType, Job, Procs, MainSteps, SyncSteps
  <2>3. DiskType'
    BY <1>3, <2>1, TypeParts, Values DEF InitialClone, DiskType
  <2>4. QED
    BY <1>3, <2>2, <2>3, TypeParts, TypePartsPrimed, TypeUnchanged
    DEF InitialClone
<1>4. QED
  BY <1>1, <1>2, <1>3

\* The four steps of syncOnce keep the types, in either goroutine.
LEMMA TypeSync ==
  ASSUME TypeOK, JobOK, NEW p \in Procs, SyncOnce(p)
  PROVE  TypeOK' /\ JobOK'
<1>1. CASE SyncWithProfile(p)
  <2>1. CASE FailSync(p) /\ UNCHANGED live
    BY <2>1, TypeFail, TypeParts DEF FailSync, DiskType
  <2>2. CASE /\ job' = [job EXCEPT ![p].plan = meta.profiles]
             /\ pc' = [pc EXCEPT ![p] = IF Resolve[meta.profiles].paused
                                        THEN "scan" ELSE "exec"]
             /\ UNCHANGED <<envVars, diskVars, status, lockVars, memVars,
                            watchVars>>
    <3>1. PcType' /\ JobOK'
      BY <1>1, <2>2, TypeParts, Values
      DEF JobOK, PcType, EnvType, Job, Procs, MainSteps, PostSteps, SyncSteps
    <3>2. QED
      BY <2>2, <3>1, TypeParts, TypePartsPrimed, TypeUnchanged
  <2>3. QED
    BY <1>1, <2>1, <2>2 DEF SyncWithProfile
<1>2. CASE ExecutePlan(p)
  <2>1. DiskType'
    BY <1>2, TypeParts, JobType, Values
    DEF ExecutePlan, Planned, FailSync, DiskType
  <2>2. CASE FailSync(p)
    BY <2>1, <2>2, TypeFail
  <2>3. CASE /\ pc' = [pc EXCEPT ![p] = "scan"]
             /\ UNCHANGED <<envVars, repo, status, job, lockVars, memVars,
                            watchVars>>
    <3>1. PcType' /\ JobOK'
      BY <1>2, <2>3, TypeParts
      DEF JobOK, PcType, Procs, MainSteps, PostSteps, SyncSteps
    <3>2. QED
      BY <2>1, <2>3, <3>1, TypeParts, TypePartsPrimed, TypeUnchanged
  <2>4. QED
    BY <1>2, <2>2, <2>3 DEF ExecutePlan
<1>3. CASE Scan(p)
  <2>1. gateway' \in [up : BOOLEAN, commissioned : BOOLEAN, loaded : Content]
    BY <1>3, TypeParts, Values DEF Scan, TriggerScan, EnvType, DiskType
  <2>2. EnvType' /\ DiskType' /\ (status \in Status)' /\ WatchType'
    BY <1>3, <2>1, TypeParts, TypeUnchanged DEF Scan, EnvType
  <2>3. CASE shuttingDown
    <3>1. lastSynced' \in Content
      BY <1>3, <2>3, TypeParts, JobType, Values DEF Scan
    <3>2. PcType' /\ LockType' /\ backoff' \in BOOLEAN /\ ready' \in BOOLEAN
      BY <1>3, <2>3, TypeReturn DEF Scan
    <3>3. JobOK'
      BY <1>3, <2>3, TypeParts
      DEF Scan, Return, JobOK, PcType, Both, Procs, SyncSteps
    <3>4. QED
      BY <1>3, <2>2, <2>3, <3>1, <3>2, <3>3, TypeParts, TypePartsPrimed
      DEF Scan, MemType
  <2>4. CASE ~shuttingDown
    <3>1. PICK o \in Outcomes :
            /\ job' = [job EXCEPT ![p].outcome = o]
            /\ pc' = [pc EXCEPT ![p] = "report"]
            /\ UNCHANGED <<lockVars, memVars>>
      BY <1>3, <2>4 DEF Scan, ScanOutcome, Outcomes
    <3>2. PcType' /\ JobOK'
      BY <1>3, <3>1, TypeParts
      DEF JobOK, PcType, Job, OrNone, Procs, MainSteps, PostSteps, SyncSteps
    <3>3. QED
      BY <2>2, <3>1, <3>2, TypeParts, TypePartsPrimed, TypeUnchanged
  <2>5. QED
    BY <2>3, <2>4
<1>4. CASE Report(p)
  <2>1. (status \in Status)'
    BY <1>4, TypeParts, JobType, Values, TypeWrite DEF Report, JobOK
  <2>2. PcType' /\ LockType' /\ backoff' \in BOOLEAN /\ ready' \in BOOLEAN
    BY <1>4, TypeReturn DEF Report
  <2>3. lastSynced' \in Content
    BY <1>4, TypeParts, JobType, Values DEF Report, Recorded, MemType
  <2>4. JobOK'
    BY <1>4, TypeParts DEF Report, Return, JobOK, PcType, Both, Procs, SyncSteps
  <2>5. QED
    BY <1>4, <2>1, <2>2, <2>3, <2>4, TypeParts, TypePartsPrimed, TypeUnchanged
    DEF Report, MemType
<1>5. QED
  BY <1>1, <1>2, <1>3, <1>4 DEF SyncOnce

\* An early return of handleSyncTrigger keeps the types.
LEMMA TypeAbandon ==
  ASSUME TypeOK, JobOK, NEW b \in BOOLEAN, Abandon(b)
  PROVE  PcType' /\ JobOK' /\ LockType' /\ MemType'
BY TypeParts, Values
DEF Abandon, JobOK, PcType, LockType, MemType, OrNone, Procs, MainSteps

\* handleSyncTrigger up to the fetch keeps the types.
LEMMA TypeTrigger ==
  ASSUME TypeOK, JobOK, OnEvent \/ TriggerRead \/ TriggerLock \/ FetchRepo
  PROVE  TypeOK' /\ JobOK'
<1>1. CASE OnEvent
  <2>1. PcType' /\ JobOK' /\ WatchType'
    BY <1>1, TypeParts DEF OnEvent, JobOK, PcType, WatchType, Procs, MainSteps
  <2>2. QED
    BY <1>1, <2>1, TypeParts, TypePartsPrimed, TypeUnchanged DEF OnEvent
<1>2. CASE TriggerRead
  <2>1. PcType' /\ JobOK'
    BY <1>2, TypeParts, Values
    DEF TriggerRead, JobOK, PcType, EnvType, Job, Procs, MainSteps
  <2>2. QED
    BY <1>2, <2>1, TypeParts, TypePartsPrimed, TypeUnchanged DEF TriggerRead
<1>3. CASE TriggerLock
  <2>1. PcType' /\ JobOK'
    BY <1>3, TypeParts, Values DEF TriggerLock, JobOK, PcType, Procs, MainSteps
  <2>2. LockType'
    BY <1>3, TypeParts DEF TriggerLock, LockType, OrNone, Procs, lockVars
  <2>3. QED
    BY <1>3, <2>1, <2>2, TypeParts, TypePartsPrimed, TypeUnchanged
    DEF TriggerLock
<1>4. CASE FetchRepo
  <2> DEFINE got == CloneOrFetch(job["main"].ref)
  <2>1. got \in Commits
    BY <1>4, TypeParts DEF CloneOrFetch, FetchRepo, JobOK, EnvType
  <2>2. DiskType'
    BY <1>4, <2>1, TypeParts, Values DEF FetchRepo, DiskType
  <2>3. /\ Entry("Error", got) \in Status
        /\ Entry("Error", job["main"].commit) \in Status
    BY <2>1, TypeParts, JobType, Values DEF Outcomes, Procs
  <2>4. (status \in Status)'
    BY <1>4, <2>3, TypeParts, TypeWrite DEF FetchRepo
  <2>5. CASE Abandon(TRUE) \/ Abandon(backoff)
    <3>1. PcType' /\ JobOK' /\ LockType' /\ MemType'
      BY <2>5, TypeAbandon, TypeParts DEF MemType
    <3>2. QED
      BY <1>4, <2>2, <2>4, <3>1, TypeParts, TypePartsPrimed, TypeUnchanged
      DEF FetchRepo
  <2>6. CASE /\ job' = Fetched(got)
             /\ pc'["main"] \in {"plan", "designer"}
             /\ pc' = [pc EXCEPT !["main"] = pc'["main"]]
             /\ UNCHANGED <<status, lockVars, memVars>>
    <3>1. PcType' /\ JobOK'
      BY <2>1, <2>6, TypeParts, Values
      DEF Fetched, JobOK, PcType, Job, Procs, MainSteps, SyncSteps
    <3>2. QED
      BY <1>4, <2>2, <2>4, <2>6, <3>1, TypeParts, TypePartsPrimed,
         TypeUnchanged DEF FetchRepo
  <2>7. QED
    BY <1>4, <2>5, <2>6, TypeParts DEF FetchRepo, PcType, Procs
<1>5. QED
  BY <1>1, <1>2, <1>3, <1>4

\* checkDesignerSessions keeps the types.
LEMMA TypeDesigner ==
  ASSUME TypeOK, JobOK, CheckDesignerSessions \/ WaitForDesigners
  PROVE  TypeOK' /\ JobOK'
<1>1. /\ Entry("Error", job["main"].commit) \in Status
      /\ Blocked(TRUE) \in Status /\ Blocked(FALSE) \in Status
  BY TypeParts, JobType, Values
  DEF Outcomes, Procs, Blocked, Status, MemType, Content
<1>2. EnvType' /\ DiskType' /\ WatchType'
  BY TypeParts, TypeUnchanged DEF CheckDesignerSessions, WaitForDesigners
<1>3. (status \in Status)'
  BY <1>1, TypeParts, TypeWrite
  DEF CheckDesignerSessions, WaitForDesigners, WaitEnds, WaitTimesOut
<1>4. CASE Abandon(backoff)
  BY <1>2, <1>3, <1>4, TypeAbandon, TypeParts, TypePartsPrimed DEF MemType
<1>5. CASE /\ pc'["main"] \in {"plan", "wait"}
           /\ pc' = [pc EXCEPT !["main"] = pc'["main"]]
           /\ UNCHANGED <<job, lockVars, memVars>>
  <2>1. PcType' /\ JobOK'
    BY <1>5, TypeParts DEF JobOK, PcType, Procs, MainSteps, SyncSteps
  <2>2. QED
    BY <1>2, <1>3, <1>5, <2>1, TypeParts, TypePartsPrimed, TypeUnchanged
<1>6. QED
  BY <1>4, <1>5, TypeParts
  DEF CheckDesignerSessions, WaitForDesigners, WaitEnds, WaitTimesOut,
      ProceedToSync, PcType, Procs

\* Taking up the cancelled context, and leaving Run, keep the types.
LEMMA TypeExit ==
  ASSUME TypeOK, JobOK, Shutdown \/ Exit
  PROVE  TypeOK' /\ JobOK'
<1>1. CASE Shutdown
  <2>1. PcType' /\ JobOK' /\ MemType'
    BY <1>1, TypeParts DEF Shutdown, JobOK, PcType, MemType, Procs, MainSteps
  <2>2. QED
    BY <1>1, <2>1, TypeParts, TypePartsPrimed, TypeUnchanged DEF Shutdown
<1>2. CASE Exit
  BY <1>2, TypeGone DEF Exit, ProcessGone, JobOK, Both, Procs
<1>3. QED
  BY <1>1, <1>2

\* postCommissionSync up to its sync keeps the types.
LEMMA TypePost ==
  ASSUME TypeOK, JobOK, PortCheck \/ PostLock
  PROVE  TypeOK' /\ JobOK'
<1>1. PcType' /\ JobOK'
  BY TypeParts, Values
  DEF PortCheck, PostLock, JobOK, PcType, MemType, Content, Job, Procs,
      PostSteps, SyncSteps
<1>2. LockType'
  BY TypeParts DEF PortCheck, PostLock, LockType, OrNone, Procs, lockVars
<1>3. QED
  BY <1>1, <1>2, TypeParts, TypePartsPrimed, TypeUnchanged
  DEF PortCheck, PostLock

\* The watcher and the end of a backoff keep the types.
LEMMA TypeClock ==
  ASSUME TypeOK, JobOK, FallbackTick \/ PollConfigMap \/ BackoffExpires
  PROVE  TypeOK' /\ JobOK'
<1>1. WatchType' /\ MemType'
  BY TypeParts
  DEF FallbackTick, PollConfigMap, BackoffExpires, WatchType, MemType, memVars,
      watchVars
<1>2. /\ UNCHANGED <<envVars, diskVars, status, lockVars>>
      /\ PcType' /\ JobOK'
  BY TypeParts
  DEF FallbackTick, PollConfigMap, BackoffExpires, PcType, JobOK
<1>3. QED
  BY <1>1, <1>2, TypeParts, TypePartsPrimed, TypeUnchanged

\* What the surroundings do keeps the types.
LEMMA TypeSurroundings ==
  ASSUME TypeOK, JobOK, Surroundings
  PROVE  TypeOK' /\ JobOK'
<1> DEFINE Still == UNCHANGED <<status, pc, job, lockVars, memVars>>
<1>1. ASSUME Still, EnvType', DiskType', WatchType' PROVE TypeOK' /\ JobOK'
  BY <1>1, TypeParts, TypePartsPrimed, TypeUnchanged DEF JobOK, PcType
<1>2. ASSUME NEW r \in Refs, NEW c \in Commits, MoveTip(r, c)
      PROVE  TypeOK' /\ JobOK'
  <2>1. EnvType' /\ DiskType' /\ WatchType'
    BY <1>2, TypeParts, TypeUnchanged DEF MoveTip, EnvType
  <2>2. QED
    BY <1>1, <1>2, <2>1 DEF MoveTip, agentVars
<1>3. ASSUME NEW r \in Refs, NEW d \in Docs, NEW b \in BOOLEAN,
             WriteMeta(r, d, b)
      PROVE  TypeOK' /\ JobOK'
  <2>1. EnvType' /\ DiskType' /\ WatchType'
    BY <1>3, TypeParts, TypeUnchanged DEF WriteMeta, EnvType, WatchType
  <2>2. QED
    BY <1>1, <1>3, <2>1 DEF WriteMeta, agentVars
<1>4. CASE DeleteMeta \/ ToggleDesigners \/ Sigterm \/ Stabilise
  <2>1. EnvType' /\ DiskType' /\ WatchType'
    BY <1>4, TypeParts, TypeUnchanged
    DEF DeleteMeta, ToggleDesigners, Sigterm, Stabilise, EnvType
  <2>2. QED
    BY <1>1, <1>4, <2>1
    DEF DeleteMeta, ToggleDesigners, Sigterm, Stabilise, agentVars
<1>5. CASE GatewayBoot \/ GatewayCrash
  <2>1. DiskType'
    BY <1>5, TypeParts, TypeUnchanged, Values
    DEF GatewayBoot, GatewayCrash, DiskType
  <2>2. CASE GatewayBoot
    <3>1. gateway' \in [up : BOOLEAN, commissioned : BOOLEAN, loaded : Content]
      BY <2>1, <2>2 DEF GatewayBoot, DiskType
    <3>2. EnvType' /\ WatchType'
      BY <2>2, <3>1, TypeParts, TypeUnchanged DEF GatewayBoot, EnvType
    <3>3. QED
      BY <1>1, <2>1, <2>2, <3>2 DEF GatewayBoot, agentVars
  <2>3. CASE GatewayCrash
    <3>1. EnvType' /\ WatchType'
      BY <2>3, TypeParts, TypeUnchanged, Values DEF GatewayCrash, EnvType
    <3>2. QED
      BY <1>1, <2>1, <2>3, <3>1 DEF GatewayCrash, agentVars
  <2>4. QED
    BY <1>5, <2>2, <2>3
<1>6. CASE Kill
  BY <1>6, TypeGone DEF Kill, ProcessGone, JobOK, Both, Procs
<1>7. CASE Restart
  <2>1. PcType' /\ JobOK'
    BY <1>7, TypeParts DEF Restart, JobOK, PcType, Procs, MainSteps
  <2>2. EnvType' /\ DiskType'
    BY <1>7, TypeParts, Values DEF Restart, EnvType, DiskType
  <2>3. QED
    BY <1>7, <2>1, <2>2, TypeParts, TypePartsPrimed, TypeUnchanged DEF Restart
<1>8. QED
  BY <1>2, <1>3, <1>4, <1>5, <1>6, <1>7 DEF Surroundings

\* Every step keeps the types, given what the locals of a sync hold.
LEMMA TypeStep == TypeOK /\ JobOK /\ [Next]_vars => TypeOK' /\ JobOK'
<1> SUFFICES ASSUME TypeOK, JobOK, [Next]_vars PROVE TypeOK' /\ JobOK'
  OBVIOUS
<1>1. CASE MainStep
  BY <1>1, TypeBoot, TypeSync, TypeTrigger, TypeDesigner, TypeExit
  DEF MainStep, Procs
<1>2. CASE PostStep
  BY <1>2, TypePost, TypeSync DEF PostStep, Procs
<1>3. CASE FallbackTick \/ PollConfigMap \/ BackoffExpires
  BY <1>3, TypeClock
<1>4. CASE Surroundings
  BY <1>4, TypeSurroundings
<1>5. CASE UNCHANGED vars
  BY <1>5 DEF vars, envVars, diskVars, lockVars, memVars, watchVars, TypeOK,
     JobOK
<1>6. QED
  BY <1>1, <1>2, <1>3, <1>4, <1>5 DEF Next

\* Type correctness of the agent: every variable keeps its type, whatever fails
\* and whoever interleaves.
THEOREM AgentTypeCorrect == Spec => []TypeOK
<1>1. Init => JobOK
  BY DEF Init, JobOK, Both, Procs
<1>2. QED
  BY <1>1, TypeInit, TypeStep, PTL DEF Spec

-----------------------------------------------------------------------------
(* Who holds syncMu, and what the main goroutine is doing then.             *)

\* No lock is held at first.
LEMMA LockInit == Init => LockDiscipline
BY AgentAssumption
DEF Init, LockDiscipline, NoTriggerAtShutdown, Syncing, SyncSteps, Both, Procs

\* When the process is gone no lock is held.
LEMMA LockGone == ASSUME ProcessGone PROVE LockDiscipline'
BY AgentAssumption
DEF ProcessGone, LockDiscipline, NoTriggerAtShutdown, Syncing, SyncSteps, Both,
    Procs

\* A returning sync gives up exactly the lock it holds.
LEMMA LockReturn ==
  ASSUME TypeOK, LockDiscipline, NEW p \in Procs, pc[p] \in SyncSteps,
         NEW ok, Return(p, ok)
  PROVE  LockDiscipline'
BY AgentAssumption, TypeParts
DEF Return, LockDiscipline, NoTriggerAtShutdown, Syncing, SyncSteps, Both,
    Procs, PcType, LockType, lockVars

\* So does an early return of handleSyncTrigger.
LEMMA LockAbandon ==
  ASSUME TypeOK, LockDiscipline, NEW b, Abandon(b),
         pc["main"] \in {"fetch", "designer", "wait"}
  PROVE  LockDiscipline'
BY AgentAssumption, TypeParts
DEF Abandon, LockDiscipline, NoTriggerAtShutdown, Syncing, SyncSteps, Procs,
    PcType, LockType

\* A goroutine moves within its critical section: the lock does not change.
LEMMA LockMove ==
  ASSUME TypeOK, LockDiscipline, NEW p \in Procs, NEW next,
         pc' = [pc EXCEPT ![p] = next],
         Syncing(p), next \in SyncSteps \cup {"designer", "wait"},
         p = "post" \/ ~ready => next \in SyncSteps,
         UNCHANGED <<lockVars, ready>>
  PROVE  LockDiscipline'
BY AgentAssumption, TypeParts
DEF LockDiscipline, NoTriggerAtShutdown, Syncing, SyncSteps, Procs, PcType,
    LockType, lockVars

\* Every step respects the discipline of syncMu.
LEMMA LockStep ==
  ASSUME TypeOK, LockDiscipline, [Next]_vars
  PROVE  LockDiscipline'
<1> DEFINE Still == UNCHANGED <<pc, lockVars, ready>>
<1>1. CASE Still
  BY <1>1 DEF LockDiscipline, NoTriggerAtShutdown, Syncing, lockVars
<1>2. CASE ProcessGone
  BY <1>2, LockGone
<1>3. CASE (WaitForMetadata \/ InitialClone) /\ ~ProcessGone
  BY <1>3, TypeParts
  DEF WaitForMetadata, InitialClone, LockDiscipline, NoTriggerAtShutdown,
      Syncing, SyncSteps, Procs, PcType, LockType, lockVars, memVars
<1>4. ASSUME NEW p \in Procs, SyncOnce(p) PROVE LockDiscipline'
  <2>1. pc[p] \in SyncSteps /\ Syncing(p)
    BY <1>4
    DEF SyncOnce, SyncWithProfile, ExecutePlan, Scan, Report, SyncSteps,
        Syncing
  <2>2. CASE \E ok : Return(p, ok)
    BY <2>1, <2>2, LockReturn
  <2>3. CASE /\ \E next \in SyncSteps : pc' = [pc EXCEPT ![p] = next]
             /\ UNCHANGED <<lockVars, ready>>
    BY <2>1, <2>3, LockMove
  <2>4. QED
    BY <1>4, <2>2, <2>3
    DEF SyncOnce, SyncWithProfile, ExecutePlan, Scan, Report, FailSync,
        SyncSteps, memVars
<1>5. CASE OnEvent \/ TriggerRead \/ Shutdown
  BY <1>5, TypeParts
  DEF OnEvent, TriggerRead, Shutdown, LockDiscipline, NoTriggerAtShutdown,
      Syncing, SyncSteps, Procs, PcType, LockType, lockVars, memVars
<1>6. CASE TriggerLock
  BY <1>6, AgentAssumption, TypeParts
  DEF TriggerLock, LockDiscipline, NoTriggerAtShutdown, Syncing, SyncSteps,
      Procs, PcType, LockType, lockVars, memVars
<1>7. CASE FetchRepo \/ CheckDesignerSessions \/ WaitForDesigners
  <2>1. Syncing("main") /\ ready /\ pc["main"] \in {"fetch", "designer", "wait"}
    BY <1>7
    DEF FetchRepo, CheckDesignerSessions, WaitForDesigners, Syncing,
        LockDiscipline, SyncSteps
  <2>2. CASE \E b : Abandon(b)
    BY <2>1, <2>2, LockAbandon
  <2>3. CASE /\ \E next \in {"plan", "designer", "wait"} :
                  pc' = [pc EXCEPT !["main"] = next]
             /\ UNCHANGED <<lockVars, ready>>
    <3>1. PICK next \in {"plan", "designer", "wait"} :
            pc' = [pc EXCEPT !["main"] = next]
      BY <2>3
    <3>2. QED
      BY <2>1, <2>3, <3>1, LockMove DEF Procs, SyncSteps
  <2>4. QED
    BY <1>7, <2>2, <2>3
    DEF FetchRepo, CheckDesignerSessions, WaitForDesigners, WaitEnds,
        WaitTimesOut, ProceedToSync, memVars
<1>8. CASE PortCheck \/ PostLock
  BY <1>8, AgentAssumption, TypeParts
  DEF PortCheck, PostLock, LockDiscipline, NoTriggerAtShutdown, Syncing,
      SyncSteps, Procs, PcType, LockType, lockVars, memVars
<1>9. CASE Restart
  BY <1>9, TypeParts
  DEF Restart, LockDiscipline, NoTriggerAtShutdown, Syncing, SyncSteps, Procs,
      PcType, LockType, lockVars, memVars
<1>10. CASE \/ FallbackTick \/ PollConfigMap \/ BackoffExpires
            \/ (Surroundings /\ ~Kill /\ ~Restart)
  <2>1. Still
    BY <1>10
    DEF FallbackTick, PollConfigMap, BackoffExpires, Surroundings, MoveTip,
        WriteMeta, DeleteMeta, GatewayBoot, GatewayCrash, ToggleDesigners,
        Sigterm, Stabilise, agentVars, memVars
  <2>2. QED
    BY <1>1, <2>1
<1>11. CASE UNCHANGED vars
  BY <1>1, <1>11 DEF vars, memVars
<1>12. CASE MainStep
  <2>1. CASE SyncOnce("main")
    BY <1>4, <2>1 DEF Procs
  <2>2. QED
    BY <1>2, <1>3, <1>5, <1>6, <1>7, <1>12, <2>1 DEF MainStep, Exit
<1>13. CASE PostStep
  BY <1>4, <1>8, <1>13 DEF PostStep, Procs
<1>14. QED
  BY <1>2, <1>9, <1>10, <1>11, <1>12, <1>13 DEF Next, Kill, Surroundings

\* syncMu has one holder, so only one goroutine syncs.
LEMMA LockImpliesExclusive == LockDiscipline => SyncExclusive
BY DEF LockDiscipline, SyncExclusive, Syncing, SyncSteps

-----------------------------------------------------------------------------
(* What a triggered sync works on, and what the gateway has loaded.         *)

\* The main goroutine leaves its sync, or there is none.
LEMMA CheckoutIdle ==
  ASSUME ~ready' \/ pc'["main"] \notin SyncSteps \cup {"designer", "wait"}
  PROVE  CheckoutInv'
BY DEF CheckoutInv, SyncSteps

\* Nothing of what CheckoutInv speaks about changes, except that commissioning
\* may wipe the data directory.
LEMMA CheckoutStill ==
  ASSUME CheckoutInv, UNCHANGED <<ready, repo>>,
         pc'["main"] = pc["main"], job'["main"] = job["main"],
         live' \in {live, NoContent}
  PROVE  CheckoutInv'
BY DEF CheckoutInv, NoContent

\* The steps of syncOnce keep CheckoutInv: post runs only while
\* main is outside its own sync.
LEMMA CheckoutSync ==
  ASSUME TypeOK, LockDiscipline, CheckoutInv, NEW p \in Procs, SyncOnce(p)
  PROVE  CheckoutInv'
<1> USE TypeParts DEF PcType, Procs
<1>1. CASE p = "main" /\ \E ok : Return(p, ok)
  BY <1>1, CheckoutIdle DEF Return, Both, SyncSteps
<1>2. CASE p = "main" /\ ~\E ok : Return(p, ok)
  <2>1. CASE SyncWithProfile(p)
    <3>1. /\ pc["main"] = "plan" /\ UNCHANGED <<ready, repo, live>>
          /\ job' = [job EXCEPT ![p].plan = meta.profiles]
          /\ pc' = [pc EXCEPT ![p] = IF Resolve[meta.profiles].paused
                                     THEN "scan" ELSE "exec"]
      BY <1>2, <2>1 DEF SyncWithProfile, FailSync, diskVars, memVars
    <3>2. /\ job'["main"].commit = job["main"].commit
          /\ job'["main"].plan = meta.profiles
      BY <1>2, <3>1 DEF Job
    <3>3. QED
      BY <1>2, <3>1, <3>2 DEF CheckoutInv, SyncSteps
  <2>2. CASE ExecutePlan(p)
    <3>1. /\ pc["main"] = "exec" /\ UNCHANGED <<ready, repo, job>>
          /\ live' = IF Resolve[job["main"].plan].dryRun THEN live
                     ELSE [commit |-> repo, profiles |-> job["main"].plan]
      BY <1>2, <2>2 DEF ExecutePlan, Planned, FailSync, memVars
    <3>2. CASE Resolve[job["main"].plan].dryRun
      BY <3>1, <3>2 DEF CheckoutInv, SyncSteps
    <3>3. CASE ~Resolve[job["main"].plan].dryRun
      <4>1. live'.commit = repo
        BY <3>1, <3>3
      <4>2. QED
        BY <3>1, <4>1 DEF CheckoutInv, SyncSteps
    <3>4. QED
      BY <3>2, <3>3
  <2>3. CASE Scan(p)
    <3>1. /\ pc["main"] = "scan" /\ UNCHANGED <<ready, repo, live>>
          /\ \E o : job' = [job EXCEPT ![p].outcome = o]
      BY <1>2, <2>3 DEF Scan, diskVars, memVars
    <3>2. /\ job'["main"].commit = job["main"].commit
          /\ job'["main"].plan = job["main"].plan
      BY <1>2, <3>1 DEF Job
    <3>3. QED
      BY <3>1, <3>2 DEF CheckoutInv, SyncSteps
  <2>4. QED
    BY <1>2, <2>1, <2>2, <2>3 DEF SyncOnce, Report
<1>3. CASE p = "post"
  <2>1. ready /\ ~Syncing("main") /\ pc["main"] \notin SyncSteps
    BY <1>3, LockImpliesExclusive
    DEF SyncOnce, SyncWithProfile, ExecutePlan, Scan, Report, LockDiscipline,
        SyncExclusive, Syncing, SyncSteps
  <2>2. pc'["main"] = pc["main"]
    BY <1>3
    DEF SyncOnce, SyncWithProfile, ExecutePlan, Scan, Report, FailSync, Return
  <2>3. QED
    BY <2>1, <2>2, CheckoutIdle DEF Syncing
<1>4. QED
  BY <1>1, <1>2, <1>3

\* FetchRepo establishes CheckoutInv for the sync that follows it.
LEMMA CheckoutTrigger ==
  ASSUME TypeOK, LockDiscipline, CheckoutInv,
         FetchRepo \/ CheckDesignerSessions \/ WaitForDesigners
  PROVE  CheckoutInv'
<1> USE TypeParts DEF PcType, Procs
<1>1. CASE \E b : Abandon(b)
  BY <1>1, CheckoutIdle DEF Abandon, SyncSteps
<1>2. CASE FetchRepo /\ ~\E b : Abandon(b)
  BY <1>2 DEF FetchRepo, Fetched, CheckoutInv, SyncSteps, Job
<1>3. CASE (CheckDesignerSessions \/ WaitForDesigners) /\ ~\E b : Abandon(b)
  <2>1. /\ pc["main"] \in {"designer", "wait"}
        /\ pc'["main"] \in {"plan", "wait"}
        /\ UNCHANGED <<ready, repo, job>>
    BY <1>3
    DEF CheckDesignerSessions, WaitForDesigners, WaitEnds, WaitTimesOut,
        ProceedToSync, diskVars, memVars
  <2>2. QED
    BY <2>1 DEF CheckoutInv, SyncSteps
<1>4. QED
  BY <1>1, <1>2, <1>3

\* Every step keeps CheckoutInv.
LEMMA CheckoutStep ==
  ASSUME TypeOK, LockDiscipline, CheckoutInv, [Next]_vars
  PROVE  CheckoutInv'
<1> USE TypeParts DEF PcType, Procs
<1>1. CASE ProcessGone
  BY <1>1, CheckoutIdle DEF ProcessGone
<1>2. CASE (WaitForMetadata \/ InitialClone) /\ ~ProcessGone
  BY <1>2, CheckoutIdle
  DEF WaitForMetadata, InitialClone, LockDiscipline, memVars
<1>3. ASSUME NEW p \in Procs, SyncOnce(p) PROVE CheckoutInv'
  BY <1>3, CheckoutSync
<1>4. CASE OnEvent \/ TriggerRead \/ TriggerLock \/ Shutdown
  BY <1>4, CheckoutIdle
  DEF OnEvent, TriggerRead, TriggerLock, Shutdown, SyncSteps
<1>5. CASE FetchRepo \/ CheckDesignerSessions \/ WaitForDesigners
  BY <1>5, CheckoutTrigger
<1>6. CASE PortCheck \/ PostLock
  BY <1>6, CheckoutStill DEF PortCheck, PostLock, diskVars, memVars
<1>7. CASE Restart
  BY <1>7, CheckoutIdle DEF Restart, SyncSteps
<1>8. CASE \/ FallbackTick \/ PollConfigMap \/ BackoffExpires
           \/ (Surroundings /\ ~Kill /\ ~Restart)
  BY <1>8, CheckoutStill
  DEF FallbackTick, PollConfigMap, BackoffExpires, Surroundings, MoveTip,
      WriteMeta, DeleteMeta, GatewayBoot, GatewayCrash, ToggleDesigners,
      Sigterm, Stabilise, agentVars, diskVars, memVars
<1>9. CASE UNCHANGED vars
  BY <1>9, CheckoutStill DEF vars, diskVars, memVars
<1>10. CASE MainStep
  <2>1. CASE SyncOnce("main")
    BY <1>3, <2>1
  <2>2. QED
    BY <1>1, <1>2, <1>4, <1>5, <1>10, <2>1 DEF MainStep, Exit
<1>11. QED
  BY <1>1, <1>3, <1>6, <1>7, <1>8, <1>9, <1>10
  DEF Next, Kill, PostStep, Surroundings
-----------------------------------------------------------------------------
(* Nothing is copied between a scan and its report.                         *)

\* The goroutines at their report, the gateway and the data directory stay.
LEMMA LoadedStill ==
  ASSUME SyncedMeansLoaded, UNCHANGED <<gateway, live>>,
         \A p \in Procs :
           pc'[p] = "report" => pc[p] = "report" /\ job'[p] = job[p]
  PROVE  SyncedMeansLoaded'
BY DEF SyncedMeansLoaded

\* The steps of syncOnce keep SyncedMeansLoaded: by the lock, nothing
\* is copied between the scan of one goroutine and its report.
LEMMA LoadedSync ==
  ASSUME TypeOK, LockDiscipline, SyncedMeansLoaded, NEW p \in Procs, SyncOnce(p)
  PROVE  SyncedMeansLoaded'
<1> DEFINE other == IF p = "main" THEN "post" ELSE "main"
<1> USE TypeParts DEF PcType, Procs
<1>1. /\ pc[p] \in SyncSteps /\ pc[other] \notin SyncSteps
      /\ pc'[other] # "report"
  <2>1. pc[p] \in SyncSteps /\ pc[other] \notin SyncSteps
    BY LockImpliesExclusive
    DEF SyncOnce, SyncWithProfile, ExecutePlan, Scan, Report, SyncSteps,
        SyncExclusive, Syncing
  <2>2. pc'[other] \in {pc[other], "poll"}
    BY DEF SyncOnce, SyncWithProfile, ExecutePlan, Scan, Report, FailSync,
           Return, Both
  <2>3. QED
    BY <2>1, <2>2 DEF SyncSteps
<1>2. CASE pc'[p] # "report"
  BY <1>1, <1>2 DEF SyncedMeansLoaded
<1>3. CASE pc'[p] = "report"
  <2>1. Scan(p) /\ ~shuttingDown /\ live' = live
    BY <1>1, <1>3
    DEF SyncOnce, SyncWithProfile, ExecutePlan, Scan, Report, FailSync, Return,
        Both, diskVars
  <2>2. PICK o \in Outcomes :
          /\ job' = [job EXCEPT ![p].outcome = o]
          /\ \/ Resolve[job[p].plan].dryRun
             \/ o # "Synced"
             \/ gateway' = [gateway EXCEPT !.loaded = live]
    BY <2>1 DEF Scan, TriggerScan, ScanOutcome, Outcomes
  <2>3. job'[p].plan = job[p].plan /\ job'[p].outcome = o
    BY <2>2 DEF Job
  <2>4. gateway' = [gateway EXCEPT !.loaded = live] => gateway'.loaded = live'
    BY <2>1 DEF EnvType
  <2>5. QED
    BY <1>1, <2>2, <2>3, <2>4 DEF SyncedMeansLoaded
<1>4. QED
  BY <1>2, <1>3

\* Every step keeps SyncedMeansLoaded.
LEMMA LoadedStep ==
  ASSUME TypeOK, LockDiscipline, SyncedMeansLoaded, [Next]_vars
  PROVE  SyncedMeansLoaded'
<1> USE TypeParts DEF PcType, Procs
<1>1. CASE ProcessGone
  BY <1>1 DEF ProcessGone, SyncedMeansLoaded, Both
<1>2. CASE (WaitForMetadata \/ InitialClone) /\ ~ProcessGone
  BY <1>2, LoadedStill DEF WaitForMetadata, InitialClone, envVars, diskVars
<1>3. ASSUME NEW p \in Procs, SyncOnce(p) PROVE SyncedMeansLoaded'
  BY <1>3, LoadedSync
<1>4. CASE OnEvent \/ TriggerRead \/ TriggerLock \/ Shutdown
  BY <1>4, LoadedStill
  DEF OnEvent, TriggerRead, TriggerLock, Shutdown, envVars, diskVars
<1>5. CASE FetchRepo \/ CheckDesignerSessions \/ WaitForDesigners
  BY <1>5, LoadedStill
  DEF FetchRepo, Fetched, CheckDesignerSessions, WaitForDesigners, WaitEnds,
      WaitTimesOut, ProceedToSync, Abandon, envVars, diskVars
<1>6. CASE PortCheck \/ PostLock
  BY <1>6, LoadedStill DEF PortCheck, PostLock, envVars, diskVars
<1>7. CASE Restart
  BY <1>7, LockDiscipline DEF Restart, SyncedMeansLoaded, LockDiscipline
<1>8. CASE \/ FallbackTick \/ PollConfigMap \/ BackoffExpires
           \/ (Surroundings /\ ~Kill /\ ~Restart /\ ~GatewayBoot
                            /\ ~GatewayCrash)
  BY <1>8, LoadedStill
  DEF FallbackTick, PollConfigMap, BackoffExpires, Surroundings, MoveTip,
      WriteMeta, DeleteMeta, ToggleDesigners, Sigterm, Stabilise, agentVars,
      envVars, diskVars
<1>9. CASE GatewayBoot \/ GatewayCrash
  <2>1. UNCHANGED <<pc, job>>
    BY <1>9 DEF GatewayBoot, GatewayCrash, agentVars
  <2>2. gateway'.up => gateway'.loaded = live'
    <3>1. CASE GatewayBoot
      BY <3>1 DEF GatewayBoot
    <3>2. CASE GatewayCrash
      BY <3>2, TypeParts DEF GatewayCrash, EnvType
    <3>3. QED
      BY <1>9, <3>1, <3>2
  <2>3. QED
    BY <2>1, <2>2 DEF SyncedMeansLoaded
<1>10. CASE UNCHANGED vars
  BY <1>10, LoadedStill DEF vars, envVars, diskVars
<1>11. CASE MainStep
  <2>1. CASE SyncOnce("main")
    BY <1>3, <2>1
  <2>2. QED
    BY <1>1, <1>2, <1>4, <1>5, <1>11, <2>1 DEF MainStep, Exit
<1>12. QED
  BY <1>1, <1>3, <1>6, <1>7, <1>8, <1>9, <1>10, <1>11
  DEF Next, Kill, PostStep, Surroundings

-----------------------------------------------------------------------------
(* The inductive invariant and what follows from it.                        *)

\* The invariant holds initially.
LEMMA AgentInvInit == Init => AgentInv
BY TypeInit, LockInit
DEF Init, AgentInv, JobOK, CheckoutInv, SyncedMeansLoaded, Both, Procs

\* The invariant is inductive.
LEMMA AgentInvStep == AgentInv /\ [Next]_vars => AgentInv'
BY TypeStep, LockStep, CheckoutStep, LoadedStep DEF AgentInv

\* The invariant the other theorems rest on holds of every behaviour.
THEOREM AgentInvariant == Spec => []AgentInv
BY AgentInvInit, AgentInvStep, PTL DEF Spec

\* The triggered, the initial and the post-commission sync never overlap in the
\* checkout, the staging directory or the live directory.
THEOREM AgentSyncExclusive == Spec => []SyncExclusive
<1>1. AgentInv => SyncExclusive
  BY LockImpliesExclusive DEF AgentInv
<1>2. QED
  BY <1>1, AgentInvariant, PTL

\* The drain of a graceful shutdown is never entered: when the main goroutine
\* takes up the cancelled context no triggered sync is in progress.
THEOREM AgentNoTriggerAtShutdown == Spec => []NoTriggerAtShutdown
<1>1. AgentInv => NoTriggerAtShutdown
  BY DEF AgentInv, LockDiscipline
<1>2. QED
  BY <1>1, AgentInvariant, PTL

\* Both goroutines report Synced only while a running gateway has loaded what
\* is in its data directory.
THEOREM AgentSyncedMeansLoaded == Spec => []SyncedMeansLoaded
<1>1. AgentInv => SyncedMeansLoaded
  BY DEF AgentInv
<1>2. QED
  BY <1>1, AgentInvariant, PTL

\* A triggered sync reports the commit it copied, not the one announced.
THEOREM AgentReportsCopiedCommit == Spec => []TriggerReportsCopiedCommit
<1>1. AgentInv => TriggerReportsCopiedCommit
  BY DEF AgentInv, CheckoutInv, TriggerReportsCopiedCommit
<1>2. QED
  BY <1>1, AgentInvariant, PTL

-----------------------------------------------------------------------------
(* The Designer flag of the status entry, while the main goroutine's writes *)
(* of it succeed.                                                           *)

\* The flag is not stuck, and only an agent that has become ready shuts down:
\* without that the initial sync could return past its report.
BlockedInv == BlockedMeansWaiting /\ (shuttingDown => ready)

\* A status write that nothing stops leaves an entry of the wanted flag.
LEMMA WriteClears ==
  ASSUME <<"main", "write">> \notin Faults, NEW c, NEW s, ~s.blocked,
         WriteStatus("main", c, s)
  PROVE  status'.blocked => c
BY DEF WriteStatus, Fails

\* A write of the other goroutine never sets the flag.
LEMMA WriteKeepsClear ==
  ASSUME NEW p, NEW c, NEW s, ~s.blocked, WriteStatus(p, c, s)
  PROVE  status'.blocked => status.blocked
BY DEF WriteStatus

\* Neither the entry, the main goroutine nor the context moves.
LEMMA BlockedStill ==
  ASSUME BlockedInv, UNCHANGED <<status, ctxDone, ready, shuttingDown>>,
         pc["main"] = "wait" => pc'["main"] = "wait"
  PROVE  BlockedInv'
BY DEF BlockedInv, BlockedMeansWaiting

\* The steps of syncOnce: the initial sync, which makes the agent ready, has
\* written an entry without the flag unless the context is done.
LEMMA BlockedSync ==
  ASSUME <<"main", "write">> \notin Faults, TypeOK, LockDiscipline, BlockedInv,
         NEW p \in Procs, SyncOnce(p)
  PROVE  BlockedInv'
<1> USE TypeParts DEF PcType, Procs
<1>1. ctxDone' = ctxDone /\ shuttingDown' = shuttingDown /\ pc[p] \in SyncSteps
  BY DEF SyncOnce, SyncWithProfile, ExecutePlan, Scan, Report, FailSync,
         envVars, memVars, SyncSteps
<1>2. ready => ready'
  BY DEF SyncOnce, SyncWithProfile, ExecutePlan, Scan, Report, FailSync,
         Return, memVars
<1>3. CASE status' = status /\ ready' = ready
  <2>1. pc["main"] = "wait" => pc'["main"] = "wait"
    <3>1. CASE p = "main"
      BY <1>1, <3>1 DEF SyncSteps
    <3>2. CASE p = "post"
      BY <3>2
      DEF SyncOnce, SyncWithProfile, ExecutePlan, Scan, Report, FailSync,
          Return
    <3>3. QED
      BY <3>1, <3>2
  <2>2. QED
    BY <1>1, <1>3, <2>1, BlockedStill
<1>4. CASE \E s : ~s.blocked /\ WriteStatus(p, Cancelled(p), s)
  <2>1. PICK s : ~s.blocked /\ WriteStatus(p, Cancelled(p), s)
    BY <1>4
  <2>2. CASE p = "main"
    <3>1. status'.blocked => ctxDone
      BY <2>1, <2>2, WriteClears DEF Cancelled
    <3>2. QED
      BY <1>1, <1>2, <3>1 DEF BlockedInv, BlockedMeansWaiting
  <2>3. CASE p = "post"
    <3>1. status'.blocked => status.blocked
      BY <2>1, WriteKeepsClear
    <3>2. ready /\ pc'["main"] = pc["main"]
      BY <1>1, <2>3
      DEF LockDiscipline, SyncSteps, SyncOnce, SyncWithProfile, ExecutePlan,
          Scan, Report, FailSync, Return
    <3>3. QED
      BY <1>1, <1>2, <3>1, <3>2 DEF BlockedInv, BlockedMeansWaiting
  <2>4. QED
    BY <2>2, <2>3
<1>5. CASE SyncWithProfile(p)
  <2>1. CASE FailSync(p)
    BY <1>4, <2>1 DEF FailSync, Entry
  <2>2. CASE ~FailSync(p)
    BY <1>3, <1>5, <2>2 DEF SyncWithProfile, memVars
  <2>3. QED
    BY <2>1, <2>2
<1>6. CASE ExecutePlan(p)
  <2>1. CASE FailSync(p)
    BY <1>4, <2>1 DEF FailSync, Entry
  <2>2. CASE ~FailSync(p)
    BY <1>3, <1>6, <2>2 DEF ExecutePlan, memVars
  <2>3. QED
    BY <2>1, <2>2
<1>7. CASE Scan(p)
  <2>1. status' = status
    BY <1>7 DEF Scan
  <2>2. ready' = ready
    BY <1>7 DEF Scan, Return, memVars, BlockedInv, MemType
  <2>3. QED
    BY <1>3, <2>1, <2>2
<1>8. CASE Report(p)
  BY <1>4, <1>8 DEF Report, Entry
<1>9. QED
  BY <1>5, <1>6, <1>7, <1>8 DEF SyncOnce

\* The fetch and the wait for Designer sessions: every way out of the wait
\* clears the flag, through the deferred call.
LEMMA BlockedTrigger ==
  ASSUME <<"main", "write">> \notin Faults, BlockedInv, TypeOK,
         FetchRepo \/ CheckDesignerSessions \/ WaitForDesigners
  PROVE  BlockedInv'
<1> USE TypeParts DEF PcType, Procs
<1>1. UNCHANGED <<ctxDone, ready, shuttingDown>>
  BY DEF FetchRepo, CheckDesignerSessions, WaitForDesigners, WaitEnds,
         WaitTimesOut, ProceedToSync, Abandon, envVars, memVars
<1>2. ASSUME NEW s, ~s.blocked, WriteStatus("main", ctxDone, s)
      PROVE  BlockedInv'
  <2>1. status'.blocked => ctxDone
    BY <1>2, WriteClears
  <2>2. QED
    BY <1>1, <2>1 DEF BlockedInv, BlockedMeansWaiting
<1>3. ASSUME NEW c, WriteStatus("main", ctxDone, Entry("Error", c))
      PROVE  BlockedInv'
  BY <1>2, <1>3 DEF Entry
<1>4. CASE FetchRepo
  <2>1. CASE UNCHANGED status
    BY <1>1, <1>4, <2>1, BlockedStill DEF FetchRepo
  <2>2. QED
    BY <1>4, <1>3, <2>1 DEF FetchRepo
<1>5. CASE CheckDesignerSessions
  <2>1. CASE UNCHANGED status
    BY <1>1, <1>5, <2>1, BlockedStill DEF CheckDesignerSessions
  <2>2. CASE pc'["main"] = "wait"
    BY <1>1, <2>2 DEF BlockedInv, BlockedMeansWaiting
  <2>3. QED
    BY <1>5, <1>3, <2>1, <2>2 DEF CheckDesignerSessions
<1>6. CASE WaitForDesigners
  BY <1>2, <1>6
  DEF WaitForDesigners, WaitEnds, WaitTimesOut, Blocked, Fails
<1>7. QED
  BY <1>4, <1>5, <1>6

\* Every step keeps the flag honest.
LEMMA BlockedStep ==
  ASSUME <<"main", "write">> \notin Faults, TypeOK, LockDiscipline, BlockedInv,
         [Next]_vars
  PROVE  BlockedInv'
<1> USE TypeParts DEF PcType, Procs
<1>1. CASE ProcessGone
  BY <1>1 DEF ProcessGone, BlockedInv, BlockedMeansWaiting
<1>2. CASE (WaitForMetadata \/ InitialClone) /\ ~ProcessGone
  BY <1>2, BlockedStill DEF WaitForMetadata, InitialClone, envVars, memVars
<1>3. ASSUME NEW p \in Procs, SyncOnce(p) PROVE BlockedInv'
  BY <1>3, BlockedSync
<1>4. CASE OnEvent \/ TriggerRead \/ TriggerLock
  BY <1>4, BlockedStill DEF OnEvent, TriggerRead, TriggerLock, envVars, memVars
<1>5. CASE Shutdown
  BY <1>5
  DEF Shutdown, BlockedInv, BlockedMeansWaiting, LockDiscipline, SyncSteps,
      envVars
<1>6. CASE FetchRepo \/ CheckDesignerSessions \/ WaitForDesigners
  BY <1>6, BlockedTrigger
<1>7. CASE PortCheck \/ PostLock
  BY <1>7, BlockedStill DEF PortCheck, PostLock, envVars, memVars
<1>8. CASE Restart
  BY <1>8
  DEF Restart, BlockedInv, BlockedMeansWaiting, LockDiscipline, memVars
<1>9. CASE Sigterm
  BY <1>9 DEF Sigterm, BlockedInv, BlockedMeansWaiting, agentVars, memVars
<1>10. CASE \/ FallbackTick \/ PollConfigMap \/ BackoffExpires
            \/ (Surroundings /\ ~Kill /\ ~Restart /\ ~Sigterm)
  BY <1>10, BlockedStill
  DEF FallbackTick, PollConfigMap, BackoffExpires, Surroundings, MoveTip,
      WriteMeta, DeleteMeta, GatewayBoot, GatewayCrash, ToggleDesigners,
      Stabilise, agentVars, envVars, memVars
<1>11. CASE UNCHANGED vars
  BY <1>11, BlockedStill DEF vars, envVars, memVars
<1>12. CASE MainStep
  <2>1. CASE SyncOnce("main")
    BY <1>3, <2>1
  <2>2. QED
    BY <1>1, <1>2, <1>4, <1>5, <1>6, <1>12, <2>1 DEF MainStep, Exit
<1>13. QED
  BY <1>1, <1>3, <1>7, <1>8, <1>9, <1>10, <1>11, <1>12
  DEF Next, Kill, PostStep, Surroundings

\* While the status writes of the main goroutine succeed, a running agent that
\* has become ready shows designerSessionsBlocked only while it really waits
\* for Designer sessions: through crashes, restarts and every other fault.
THEOREM AgentBlockedMeansWaiting ==
  ASSUME <<"main", "write">> \notin Faults
  PROVE  Spec => []BlockedMeansWaiting
<1>1. Init => BlockedInv
  BY DEF Init, BlockedInv, BlockedMeansWaiting, Entry
<1>2. AgentInv /\ BlockedInv /\ [Next]_vars => BlockedInv'
  BY BlockedStep DEF AgentInv
<1>3. BlockedInv => BlockedMeansWaiting
  BY DEF BlockedInv
<1>4. QED
  BY <1>1, <1>2, <1>3, AgentInvariant, PTL DEF Spec

-----------------------------------------------------------------------------
(* The record of what was synced.                                           *)

\* Only the initial sync, which ends before the agent is ready, is Pending.
PendingInv ==
  \A p \in Procs : pc[p] = "report" /\ job[p].outcome = "Pending" => ~ready

\* A goroutine gets to its report through Scan.
LEMMA PendingStill ==
  ASSUME PendingInv, ready' => ready,
         \A p \in Procs : pc'[p] = "report" => pc[p] = "report" /\ job'[p] = job[p]
  PROVE  PendingInv'
BY DEF PendingInv

\* syncOnce returns: the caller is not at a report, and if the agent becomes
\* ready by it, nobody is.
LEMMA PendingReturn ==
  ASSUME TypeOK, LockDiscipline, PendingInv, NEW p \in Procs, NEW ok,
         pc[p] \in SyncSteps, Return(p, ok)
  PROVE  PendingInv'
<1> USE TypeParts DEF PcType, Procs
<1>1. CASE p = "main" /\ ~ready
  BY <1>1 DEF Return, Both, PendingInv
<1>2. CASE p = "main" /\ ready
  BY <1>2, PendingStill DEF Return
<1>3. CASE p = "post"
  BY <1>3, PendingStill DEF Return
<1>4. QED
  BY <1>1, <1>2, <1>3

\* The steps of syncOnce.
LEMMA PendingSync ==
  ASSUME TypeOK, LockDiscipline, PendingInv, NEW p \in Procs, SyncOnce(p)
  PROVE  PendingInv'
<1> USE TypeParts DEF PcType, Procs
<1>1. pc[p] \in SyncSteps
  BY DEF SyncOnce, SyncWithProfile, ExecutePlan, Scan, Report, SyncSteps
<1>2. CASE \E ok : Return(p, ok)
  BY <1>1, <1>2, PendingReturn
<1>3. CASE SyncWithProfile(p)
  <2>1. CASE FailSync(p)
    BY <1>2, <2>1 DEF FailSync
  <2>2. CASE ~FailSync(p)
    BY <1>3, <2>2, PendingStill DEF SyncWithProfile, memVars
  <2>3. QED
    BY <2>1, <2>2
<1>4. CASE ExecutePlan(p)
  <2>1. CASE FailSync(p)
    BY <1>2, <2>1 DEF FailSync
  <2>2. CASE ~FailSync(p)
    BY <1>4, <2>2, PendingStill DEF ExecutePlan, memVars
  <2>3. QED
    BY <2>1, <2>2
<1>5. ASSUME NEW outcome, outcome = "Pending" => p = "main" /\ ~ready,
             job' = [job EXCEPT ![p].outcome = outcome],
             pc' = [pc EXCEPT ![p] = "report"], UNCHANGED ready
      PROVE  PendingInv'
  BY <1>5, JobType DEF PendingInv, Job
<1>6. CASE Scan(p)
  BY <1>2, <1>5, <1>6 DEF Scan, ScanOutcome, memVars
<1>7. CASE Report(p)
  BY <1>2, <1>7 DEF Report
<1>8. QED
  BY <1>3, <1>4, <1>6, <1>7 DEF SyncOnce

\* Every step keeps PendingInv.
LEMMA PendingStep ==
  ASSUME TypeOK, LockDiscipline, PendingInv, [Next]_vars
  PROVE  PendingInv'
<1> USE TypeParts DEF PcType, Procs
<1>1. CASE ProcessGone
  BY <1>1 DEF ProcessGone, PendingInv, Both
<1>2. CASE (WaitForMetadata \/ InitialClone) /\ ~ProcessGone
  BY <1>2, PendingStill DEF WaitForMetadata, InitialClone, memVars
<1>3. ASSUME NEW p \in Procs, SyncOnce(p) PROVE PendingInv'
  BY <1>3, PendingSync
<1>4. CASE OnEvent \/ TriggerRead \/ TriggerLock \/ Shutdown
  BY <1>4, PendingStill
  DEF OnEvent, TriggerRead, TriggerLock, Shutdown, memVars
<1>5. CASE FetchRepo \/ CheckDesignerSessions \/ WaitForDesigners
  <2> DEFINE Elsewhere == /\ UNCHANGED ready /\ pc'["main"] # "report"
                          /\ pc'["post"] = pc["post"] /\ job'["post"] = job["post"]
  <2>1. ASSUME NEW b, Abandon(b) PROVE Elsewhere
    BY <2>1 DEF Abandon
  <2>2. ASSUME FetchRepo, ~\E b : Abandon(b) PROVE Elsewhere
    BY <2>2 DEF FetchRepo, Fetched, memVars
  <2>3. ASSUME ProceedToSync PROVE Elsewhere
    BY <2>3 DEF ProceedToSync, memVars
  <2>4. ASSUME CheckDesignerSessions, ~\E b : Abandon(b), ~ProceedToSync
        PROVE  Elsewhere
    BY <2>4 DEF CheckDesignerSessions, memVars
  <2>5. Elsewhere
    BY <1>5, <2>1, <2>2, <2>3, <2>4 DEF WaitForDesigners, WaitEnds, WaitTimesOut
  <2>6. QED
    BY <2>5, PendingStill
<1>6. CASE PortCheck \/ PostLock \/ Restart
  BY <1>6, PendingStill DEF PortCheck, PostLock, Restart, memVars
<1>7. CASE \/ FallbackTick \/ PollConfigMap \/ BackoffExpires
           \/ (Surroundings /\ ~Kill /\ ~Restart)
  BY <1>7, PendingStill
  DEF FallbackTick, PollConfigMap, BackoffExpires, Surroundings, MoveTip,
      WriteMeta, DeleteMeta, GatewayBoot, GatewayCrash, ToggleDesigners,
      Sigterm, Stabilise, agentVars, memVars
<1>8. CASE UNCHANGED vars
  BY <1>8, PendingStill DEF vars, memVars
<1>9. CASE MainStep
  <2>1. CASE SyncOnce("main")
    BY <1>3, <2>1
  <2>2. QED
    BY <1>1, <1>2, <1>4, <1>5, <1>9, <2>1 DEF MainStep, Exit
<1>10. QED
  BY <1>1, <1>3, <1>6, <1>7, <1>8, <1>9 DEF Next, Kill, PostStep, Surroundings

\* The record changes at the end of syncOnce or with the process.
LEMMA RecordWriters ==
  ASSUME [Next]_vars, lastSynced' # lastSynced, ready'
  PROVE  \E p \in Procs : Report(p) \/ (Scan(p) /\ shuttingDown)
<1> USE DEF Procs
<1>1. ~ProcessGone
  BY DEF ProcessGone
<1>2. ASSUME NEW p \in Procs, SyncOnce(p)
      PROVE  Report(p) \/ (Scan(p) /\ shuttingDown)
  BY <1>2
  DEF SyncOnce, SyncWithProfile, ExecutePlan, Scan, FailSync, memVars
<1>3. CASE MainStep
  <2>1. SyncOnce("main")
    BY <1>1, <1>3
    DEF MainStep, WaitForMetadata, InitialClone, OnEvent, TriggerRead,
        TriggerLock, FetchRepo, CheckDesignerSessions, WaitForDesigners,
        WaitEnds, WaitTimesOut, ProceedToSync, Abandon, Shutdown, Exit, memVars
  <2>2. QED
    BY <1>2, <2>1
<1>4. CASE PostStep
  BY <1>2, <1>4 DEF PostStep, PortCheck, PostLock, memVars
<1>5. QED
  BY <1>1, <1>3, <1>4
  DEF Next, FallbackTick, PollConfigMap, BackoffExpires, Surroundings, MoveTip,
      WriteMeta, DeleteMeta, GatewayBoot, GatewayCrash, ToggleDesigners,
      Sigterm, Kill, Restart, Stabilise, agentVars, memVars, vars

\* A report that records has an outcome other than Error, and not Pending once
\* the agent is ready: it is Synced.
LEMMA RecordConfirmed ==
  ASSUME AgentInv, PendingInv, [Next]_vars
  PROVE  RecordStep
<1> SUFFICES ASSUME ready, ready', ~shuttingDown, lastSynced' # lastSynced
             PROVE  \E p \in Procs : Confirmed(p)
  BY DEF RecordStep
<1>1. PICK p \in Procs : Report(p)
  BY RecordWriters
<1>2. /\ pc[p] = "report" /\ job[p].outcome # "Error"
      /\ lastSynced' = [commit |-> job[p].commit, profiles |-> job[p].profiles]
  BY <1>1 DEF Report, Recorded
<1>3. job[p].outcome = "Synced"
  BY <1>2 DEF AgentInv, JobOK, PendingInv, Outcomes
<1>4. Resolve[job[p].plan].dryRun \/ (gateway.up => gateway.loaded = live)
  BY <1>2, <1>3 DEF AgentInv, SyncedMeansLoaded
<1>5. p = "main" => repo = job["main"].commit
  BY <1>2 DEF AgentInv, CheckoutInv, SyncSteps
<1>6. Confirmed(p)
  BY <1>2, <1>4, <1>5 DEF Confirmed, Syncing, SyncSteps
<1>7. QED
  BY <1>6

\* Once the agent is ready it takes a commit for done only if the gateway has
\* loaded what the sync left in its data directory: a scan or a copy that fails,
\* in either goroutine and whatever else happens, keeps the record open for
\* the retry.
THEOREM AgentRecordMeansLoaded == Spec => RecordMeansLoaded
<1>1. Init => PendingInv
  BY DEF Init, PendingInv, Both, Procs
<1>2. AgentInv /\ PendingInv /\ [Next]_vars => PendingInv'
  BY PendingStep DEF AgentInv
<1>3. AgentInv /\ PendingInv /\ [Next]_vars => [RecordStep]_vars
  BY RecordConfirmed
<1>4. QED
  BY <1>1, <1>2, <1>3, AgentInvariant, PTL DEF Spec, RecordMeansLoaded
=============================================================================

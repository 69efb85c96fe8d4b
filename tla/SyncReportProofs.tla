-------------------------- MODULE SyncReportProofs --------------------------
(***************************************************************************)
(* What is proved about the numbers ExecutePlan returns, about the         *)
(* directories that the removal of orphans leaves, and that ExecutePlan    *)
(* implements DirectoryUpdate: on top of EngineInv of SyncEngineProofs,    *)
(* for every tree, plan and filter.                                        *)
(***************************************************************************)
EXTENDS SyncEngineProofs

\* What the merge has counted: the files that staging has and it has visited.
MergeReport ==
  /\ report.added = {p \in Paths \ todo : staging[p] \in Contents
                                          /\ base[p] = Absent}
  /\ report.modified = {p \in Paths \ todo : staging[p] \in Contents
                                             /\ base[p] \notin {Absent, staging[p]}}

\* What the removal of orphans has counted: the files that are gone.
CleanReport ==
  report.deleted = {p \in Paths : /\ base[p] \in Contents /\ live[p] = Absent
                                  /\ staging[p] = Absent}

\* The inductive invariant of the report.  The file that copyFile has a
\* temporary file for is not equal already.
ReportInv ==
  /\ pc \in {"idle", "stage"} => report = NoReport
  /\ pc \in {"merge", "copy", "clean"} => MergeReport
  /\ pc \in {"merge", "copy"} => report.deleted = {} /\ report.litter = {}
  /\ pc = "copy" => live[cur] # staging[cur]
  /\ pc = "clean" => todo = {} /\ CleanReport
  /\ ReportsChanges

-----------------------------------------------------------------------------
(* The target in terms of staging.                                          *)

\* What the profile asks for, once staging is complete.
LEMMA TargetIs ==
  ASSUME TypeOK, StagingIs(Len(plan.maps)), NEW p \in Paths
  PROVE  /\ staging[p] \in Contents => Target(plan, base, p) = staging[p]
         /\ staging[p] \notin Contents =>
              Target(plan, base, p) =
                IF Owned(plan, p) /\ base[p] \in Contents THEN Absent
                ELSE Leaf(base[p])
BY StagingSupplied DEF Target

\* The three sets of ReportsChanges, in terms of staging.
LEMMA ChangesByStaging ==
  ASSUME TypeOK, StagingIs(Len(plan.maps))
  PROVE  /\ {p \in Paths : base[p] = Absent /\ Target(plan, base, p) # Absent}
              = {p \in Paths : staging[p] \in Contents /\ base[p] = Absent}
         /\ {p \in Paths : /\ base[p] # Absent
                           /\ Target(plan, base, p) \notin
                                {Absent, Leaf(base[p])}}
              = {p \in Paths : staging[p] \in Contents
                               /\ base[p] \notin {Absent, staging[p]}}
         /\ {p \in Paths : /\ Leaf(base[p]) # Absent
                           /\ Target(plan, base, p) = Absent}
              = {p \in Paths : /\ base[p] \in Contents
                               /\ staging[p] \notin Contents
                               /\ Owned(plan, p)}
<1>1. ASSUME NEW p \in Paths
      PROVE  /\ base[p] = Absent /\ Target(plan, base, p) # Absent
                  <=> staging[p] \in Contents /\ base[p] = Absent
             /\ base[p] # Absent
                /\ Target(plan, base, p) \notin {Absent, Leaf(base[p])}
                  <=> staging[p] \in Contents
                      /\ base[p] \notin {Absent, staging[p]}
             /\ Leaf(base[p]) # Absent /\ Target(plan, base, p) = Absent
                  <=> /\ base[p] \in Contents /\ staging[p] \notin Contents
                      /\ Owned(plan, p)
  <2>1. base[p] \in Entry /\ Leaf(Absent) = Absent
        /\ (base[p] # Dir => Leaf(base[p]) = base[p]) /\ Leaf(Dir) = Absent
        /\ \A x \in Contents : x # Absent /\ x # Dir
    BY Entries DEF Leaf
  <2>2. CASE staging[p] \in Contents
    <3>1. Target(plan, base, p) = staging[p]
      BY <2>2, TargetIs
    <3> QED BY <2>1, <2>2, <3>1
  <2>3. CASE staging[p] \notin Contents
    <3>1. Target(plan, base, p) = IF Owned(plan, p) /\ base[p] \in Contents
                                  THEN Absent ELSE Leaf(base[p])
      BY <2>3, TargetIs
    <3> QED BY <2>1, <2>3, <3>1
  <2> QED BY <2>2, <2>3
<1>2. QED
  BY <1>1

\* ReportsChanges, from the three sets.
LEMMA ReportIsRight ==
  ASSUME pc = "finish" /\ ~KindChange(plan, base) =>
           /\ report.added =
                {p \in Paths : base[p] = Absent /\ Target(plan, base, p) # Absent}
           /\ report.modified =
                {p \in Paths : /\ base[p] # Absent
                               /\ Target(plan, base, p) \notin
                                    {Absent, Leaf(base[p])}}
           /\ report.deleted =
                {p \in Paths : /\ Leaf(base[p]) # Absent
                               /\ Target(plan, base, p) = Absent}
  PROVE  ReportsChanges
BY DEF ReportsChanges

\* A report that is not finished is right.
LEMMA Unfinished ==
  ASSUME pc' # "finish" PROVE ReportsChanges'
BY DEF ReportsChanges

-----------------------------------------------------------------------------
(* The steps of a sync.                                                     *)

\* A sync that begins, or ends, has counted nothing.
LEMMA NothingCounted ==
  ASSUME pc' \in {"idle", "stage"}, report' = NoReport
  PROVE  ReportInv'
BY Unfinished DEF ReportInv

\* A dry run reports the differences of the two trees.
LEMMA DryRunReports ==
  ASSUME EngineInv, StagingDone, plan.dry
  PROVE  ReportsChanges'
<1>0. /\ TypeOK /\ live = base /\ StagingIs(Len(plan.maps)) /\ WellFormed(live)
      /\ pc' = "finish" /\ profile' = profile /\ base' = base /\ plan' = plan
      /\ report' = DryRunDiff(plan, live, temps, staging)
      /\ profile \in DOMAIN Profiles /\ plan = Profiles[profile]
  <2>1. pc = "stage" /\ at > Len(plan.maps) /\ at <= Len(plan.maps) + 1
        /\ at \in Int /\ Len(plan.maps) \in Nat /\ StagingIs(at - 1)
    BY PlanType DEF StagingDone, EngineInv, TypeOK
  <2>2. at - 1 = Len(plan.maps)
    BY <2>1
  <2> QED BY <2>1, <2>2 DEF StagingDone, EngineInv, TypeOK, plan
<1> SUFFICES ASSUME ~KindChange(plan, base)
             PROVE  /\ report'.added = {p \in Paths : staging[p] \in Contents
                                                      /\ base[p] = Absent}
                    /\ report'.modified =
                         {p \in Paths : staging[p] \in Contents
                                        /\ base[p] \notin {Absent, staging[p]}}
                    /\ report'.deleted =
                         {p \in Paths : /\ base[p] \in Contents
                                        /\ staging[p] \notin Contents
                                        /\ Owned(plan, p)}
  BY <1>0, ChangesByStaging DEF ReportsChanges
<1>1. ASSUME NEW p \in Paths, staging[p] \in Contents
      PROVE  NotExist(live, p) <=> base[p] = Absent
  <2>1. PICK i \in DOMAIN plan.maps : p \in ProvidedFiles(plan, plan.maps[i])
    BY <1>0, <1>1, StagingSupplied DEF Suppliers
  <2>2. p \in Provides(plan, plan.maps[i])
    BY <2>1 DEF ProvidedFiles
  <2>3. \A d \in Above[p] : Leaf(base[d]) = Absent
    BY <2>2 DEF KindChange
  <2>4. \A d \in Above[p] : base[d] \in {Absent, Dir}
    BY <2>3 DEF Leaf
  <2> QED BY <1>0, <2>4 DEF NotExist
<1>2. ASSUME NEW p \in Paths
      PROVE  p \in Orphans(plan, live, staging)
               <=> /\ base[p] \in Contents /\ staging[p] \notin Contents
                   /\ Owned(plan, p)
  <2>1. ASSUME p \in Orphans(plan, live, staging)
        PROVE  /\ base[p] \in Contents /\ staging[p] \notin Contents
               /\ Owned(plan, p)
    BY <1>0, <2>1, DataAssumption
    DEF Orphans, NotExist, Enters, Owned, UnderManagedRoot
  <2>2. ASSUME base[p] \in Contents, staging[p] \notin Contents, Owned(plan, p)
        PROVE  p \in Orphans(plan, live, staging)
    <3>1. Leaf(base[p]) # Absent /\ base[p] # Absent
      BY <1>0, <2>2, Entries
    <3>2. staging[p] = Absent
      BY <1>0, <2>2, <3>1, StagingSupplied, StagedByMapping
    <3>3. ASSUME NEW d \in Above[p] PROVE staging[d] \in {Absent, Dir}
      <4>1. d \in Paths /\ base[d] = Dir
        BY <1>0, <3>1, TreeAssumption DEF WellFormed
      <4>2. staging[d] \notin Contents
        BY <1>0, <4>1, StagedByMapping
      <4> QED BY <1>0, <4>1, <4>2, StagingSupplied
    <3>4. PICK i \in DOMAIN plan.maps :
            ~plan.maps[i].slash /\ plan.maps[i].dest \in {p} \cup Above[p]
      BY <2>2 DEF Owned
    <3>5. ~Filtered(plan, p) /\ \A d \in Above[p] : ~Filtered(plan, d)
      BY <2>2 DEF Owned
    <3>6. \A d \in Above[p] : Enters(plan, d)
      BY <1>0, <3>4, <3>5, WalkReaches
    <3>7. UnderManagedRoot(plan, p)
      BY <3>4 DEF UnderManagedRoot
    <3> QED BY <1>0, <2>2, <3>2, <3>3, <3>5, <3>6, <3>7 DEF Orphans, NotExist
  <2> QED BY <2>1, <2>2
<1>3. /\ report'.added = {p \in Paths : staging[p] \in Contents
                                        /\ NotExist(live, p)}
      /\ report'.modified = {p \in Paths : staging[p] \in Contents
                                           /\ ~NotExist(live, p)
                                           /\ live[p] # staging[p]}
      /\ report'.deleted = Orphans(plan, live, staging)
  BY <1>0 DEF DryRunDiff
<1>4. report'.added = {p \in Paths : staging[p] \in Contents
                                     /\ base[p] = Absent}
  BY <1>1, <1>3
<1>5. report'.modified = {p \in Paths : staging[p] \in Contents
                                        /\ base[p] \notin {Absent, staging[p]}}
  BY <1>0, <1>1, <1>3
<1>6. Orphans(plan, live, staging) \subseteq Paths
  BY DEF Orphans
<1>7. report'.deleted = {p \in Paths : /\ base[p] \in Contents
                                       /\ staging[p] \notin Contents
                                       /\ Owned(plan, p)}
  BY <1>2, <1>3, <1>6
<1>8. QED
  BY <1>4, <1>5, <1>7

\* The end of staging: the dry run has its report, the merge has none yet.
LEMMA StagingDoneReports ==
  ASSUME EngineInv, ReportInv, StagingDone
  PROVE  ReportInv'
<1>1. CASE plan.dry
  <2>1. pc' = "finish"
    BY <1>1 DEF StagingDone
  <2> QED BY <1>1, <2>1, DryRunReports DEF ReportInv
<1>2. CASE ~plan.dry
  <2>1. /\ pc' = "merge" /\ report' = NoReport /\ staging' = staging
        /\ todo' = {p \in Paths : staging[p] # Absent} /\ base' = base
    BY <1>2 DEF StagingDone, ReportInv
  <2>2. \A p \in Paths \ todo' : staging'[p] \notin Contents
    BY <2>1, DataAssumption
  <2>3. MergeReport'
    BY <2>1, <2>2 DEF MergeReport, NoReport
  <2> QED BY <2>1, <2>3, Unfinished DEF ReportInv, NoReport
<1>3. QED
  BY <1>1, <1>2

\* A directory, or a file that is equal already, is visited and not counted.
LEMMA VisitReports ==
  ASSUME EngineInv, ReportInv, NEW p \in Paths, pc = "merge", pc' = "merge",
         todo' = todo \ {p}, UNCHANGED <<staging, base, report>>,
         staging[p] \notin Contents \/ (staging[p] \in Contents
                                        /\ base[p] = staging[p])
  PROVE  ReportInv'
<1>1. \A c \in Contents : c # Absent
  BY DataAssumption
<1>2. /\ {q \in Paths \ todo' : staging[q] \in Contents /\ base[q] = Absent}
           = {q \in Paths \ todo : staging[q] \in Contents /\ base[q] = Absent}
      /\ {q \in Paths \ todo' : staging[q] \in Contents
                                /\ base[q] \notin {Absent, staging[q]}}
           = {q \in Paths \ todo : staging[q] \in Contents
                                   /\ base[q] \notin {Absent, staging[q]}}
  BY <1>1
<1>3. MergeReport'
  BY <1>2 DEF MergeReport, ReportInv
<1>4. QED
  BY <1>3, Unfinished DEF ReportInv

\* The walk over staging counts nothing before the rename.
LEMMA MergeReports ==
  ASSUME EngineInv, ReportInv, NEW p \in Paths,
         MergeDirectory(p) \/ CopyToTemp(p)
  PROVE  ReportInv'
<1>0. TypeOK /\ pc = "merge" /\ p \in todo /\ MergeAt(p)
      /\ ~plan.dry /\ StagingIs(Len(plan.maps))
  BY DEF EngineInv, MergeDirectory, CopyToTemp, Visits
<1>1. live[p] = base[p] /\ staging[p] # Absent
  BY <1>0 DEF MergeAt
<1>2. CASE MergeDirectory(p)
  <2>1. CASE live[p] \in {Absent, Dir}
    BY <1>0, <1>2, <2>1, VisitReports, DataAssumption DEF MergeDirectory
  <2>2. CASE live[p] \notin {Absent, Dir}
    BY <1>2, <2>2, NothingCounted DEF MergeDirectory, Ends
  <2> QED BY <2>1, <2>2
<1>3. CASE CopyToTemp(p)
  <2>0. staging[p] \in Contents
    BY <1>0, <1>1, <1>3, StagingSupplied DEF CopyToTemp
  <2>1. CASE live[p] = staging[p]
    BY <1>0, <1>1, <1>3, <2>0, <2>1, VisitReports DEF CopyToTemp
  <2>2. CASE live[p] # staging[p]
    <3>1. /\ pc' = "copy" /\ UNCHANGED <<todo, staging, base, report>>
          /\ live'[cur'] # staging'[cur']
      BY <1>3, <2>2 DEF CopyToTemp
    <3>2. MergeReport'
      BY <1>0, <3>1 DEF MergeReport, ReportInv
    <3> QED BY <1>0, <3>1, <3>2, Unfinished DEF ReportInv
  <2> QED BY <2>1, <2>2
<1>4. QED
  BY <1>2, <1>3

\* A renamed file is added where nothing was, and modified otherwise: the file
\* being copied differs from what was there.
LEMMA RenameReports ==
  ASSUME EngineInv, ReportInv, Rename
  PROVE  ReportInv'
<1>0. /\ TypeOK /\ pc = "copy" /\ cur \in todo /\ cur \in Paths
      /\ staging[cur] \in Contents /\ MergeAt(cur)
      /\ UNCHANGED <<staging, base>>
  BY DEF EngineInv, Rename, TypeOK
<1>1. live[cur] = base[cur] /\ base[cur] # staging[cur]
  BY <1>0 DEF MergeAt, ReportInv
<1>2. CASE live[cur] = Dir
  BY <1>2, NothingCounted DEF Rename, Ends
<1>3. CASE live[cur] # Dir
  <2>1. /\ pc' = "merge" /\ todo' = todo \ {cur}
        /\ report' = IF live[cur] = Absent
                     THEN [report EXCEPT !.added = @ \cup {cur}]
                     ELSE [report EXCEPT !.modified = @ \cup {cur}]
    BY <1>3 DEF Rename
  <2>2. /\ report \in [added : SUBSET Paths, modified : SUBSET Paths,
                       deleted : SUBSET Paths, litter : SUBSET Paths]
        /\ MergeReport /\ report.deleted = {} /\ report.litter = {}
    BY <1>0 DEF TypeOK, ReportInv
  <2>3. /\ report'.deleted = {} /\ report'.litter = {}
        /\ report'.added = IF base[cur] = Absent
                           THEN report.added \cup {cur} ELSE report.added
        /\ report'.modified = IF base[cur] = Absent THEN report.modified
                              ELSE report.modified \cup {cur}
    BY <1>1, <2>1, <2>2
  <2>4. report'.added = {q \in Paths \ todo' : staging[q] \in Contents
                                               /\ base[q] = Absent}
    BY <1>0, <2>1, <2>2, <2>3 DEF MergeReport
  <2>5. report'.modified =
          {q \in Paths \ todo' : staging[q] \in Contents
                                 /\ base[q] \notin {Absent, staging[q]}}
    BY <1>0, <1>1, <2>1, <2>2, <2>3 DEF MergeReport
  <2>6. MergeReport'
    BY <1>0, <2>4, <2>5 DEF MergeReport
  <2> QED BY <2>1, <2>3, <2>6, Unfinished DEF ReportInv
<1>4. QED
  BY <1>2, <1>3

\* The merge is done, and nothing is removed yet.
LEMMA MergeDoneReports ==
  ASSUME EngineInv, ReportInv, MergeDone
  PROVE  ReportInv'
<1>0. /\ pc = "merge" /\ todo = {} /\ pc' = "clean" /\ report.deleted = {}
      /\ \A p \in Paths : MergeAt(p)
      /\ UNCHANGED <<live, staging, base, todo, report>>
  BY DEF EngineInv, MergeDone, ReportInv
<1>1. ASSUME NEW p \in Paths, base[p] \in Contents, staging[p] = Absent
      PROVE  live[p] # Absent
  BY <1>0, <1>1, DataAssumption DEF MergeAt
<1>2. CleanReport'
  BY <1>0, <1>1 DEF CleanReport
<1>3. MergeReport'
  BY <1>0 DEF MergeReport, ReportInv
<1>4. QED
  BY <1>0, <1>2, <1>3, Unfinished DEF ReportInv

\* Where a file was that staging does not have, there is no directory now.
LEMMA NoDirectoryForFile ==
  ASSUME EngineInv, pc = "clean", NEW q \in Paths, base[q] \in Contents,
         staging[q] = Absent
  PROVE  live[q] # Dir
<1>1. TypeOK /\ CleanAt(q)
  BY DEF EngineInv
<1>2. Leaf(live[q]) = Leaf(base[q]) \/ live[q] = Absent
  BY <1>1, Entries DEF CleanAt
<1>3. QED
  BY <1>1, <1>2, Entries

\* What Prune leaves at a path: it touches only directories above p.
LEMMA PruneAt ==
  ASSUME NEW pl, NEW l, NEW ts, NEW p \in Paths, NEW q \in Paths
  PROVE  /\ Prune(pl, l, ts, p)[q] = IF q \in EmptyParents(pl, l, ts, p)
                                     THEN Absent ELSE l[q]
         /\ q \in EmptyParents(pl, l, ts, p) => q \in Above[p]
BY DEF Prune, EmptyParents

\* An orphan that goes is counted; the directories pruned with it are not.
LEMMA RemoveOrphanReports ==
  ASSUME EngineInv, ReportInv, NEW p \in Paths, RemoveOrphan(p)
  PROVE  ReportInv'
<1> DEFINE gone == [live EXCEPT ![p] = Absent]
<1>0. /\ TypeOK /\ pc = "clean" /\ pc' = "clean" /\ WellFormed(live)
      /\ live \in [Paths -> Entry] /\ CleanAt(p)
      /\ live' = Prune(plan, gone, temps, p)
      /\ report' = [report EXCEPT !.deleted = @ \cup {p}]
      /\ report \in [added : SUBSET Paths, modified : SUBSET Paths,
                     deleted : SUBSET Paths, litter : SUBSET Paths]
      /\ live[p] \in Contents /\ staging[p] = Absent
      /\ UNCHANGED <<staging, base, todo>>
  BY DEF EngineInv, RemoveOrphan, Orphans, NotExist, TypeOK, WellFormed
<1>1. base[p] \in Contents
  <2>1. Leaf(live[p]) = Leaf(base[p]) \/ live[p] = Absent
    BY <1>0, Entries DEF CleanAt
  <2> QED BY <1>0, <2>1, Entries, DataAssumption DEF Leaf
<1>2. gone[p] = Absent /\ \A q \in Paths : q # p => gone[q] = live[q]
  BY <1>0
<1> HIDE DEF gone
<1>3. live'[p] = Absent
  BY <1>0, <1>2, PruneAt
<1>4. ASSUME NEW q \in Paths, q # p, base[q] \in Contents, staging[q] = Absent
      PROVE  live'[q] = Absent <=> live[q] = Absent
  <2>1. CASE q \in EmptyParents(plan, gone, temps, p)
    <3>1. q \in Above[p]
      BY <2>1, PruneAt
    <3>2. live[q] = Dir
      BY <1>0, <3>1, DataAssumption DEF WellFormed
    <3> QED BY <1>0, <1>4, <3>2, NoDirectoryForFile
  <2>2. CASE q \notin EmptyParents(plan, gone, temps, p)
    <3>1. live'[q] = gone[q]
      BY <1>0, <2>2, PruneAt
    <3> QED BY <1>2, <1>4, <3>1
  <2> QED BY <2>1, <2>2
<1>5. /\ report'.deleted = report.deleted \cup {p}
      /\ report'.added = report.added /\ report'.modified = report.modified
  BY <1>0
<1>6. CleanReport'
  <2>1. report.deleted = {q \in Paths : /\ base[q] \in Contents
                                        /\ live[q] = Absent
                                        /\ staging[q] = Absent}
    BY <1>0 DEF ReportInv, CleanReport
  <2>2. report'.deleted = {q \in Paths : /\ base[q] \in Contents
                                         /\ live'[q] = Absent
                                         /\ staging[q] = Absent}
    BY <1>0, <1>1, <1>3, <1>4, <1>5, <2>1
  <2> QED BY <1>0, <2>2 DEF CleanReport
<1>7. MergeReport'
  BY <1>0, <1>5 DEF MergeReport, ReportInv
<1>8. QED
  BY <1>0, <1>6, <1>7, Unfinished DEF ReportInv

\* The removal of a temporary file removes no file of the report.
LEMMA RemoveLitterReports ==
  ASSUME EngineInv, ReportInv, NEW p \in Paths, RemoveLitter(p)
  PROVE  ReportInv'
<1>0. /\ TypeOK /\ pc = "clean" /\ pc' = "clean"
      /\ live' = IF live[p] = Absent THEN Prune(plan, live, temps \ {p}, p)
                 ELSE live
      /\ report' = [report EXCEPT !.litter = @ \cup {p}]
      /\ report \in [added : SUBSET Paths, modified : SUBSET Paths,
                     deleted : SUBSET Paths, litter : SUBSET Paths]
      /\ \A d \in Above[p] : live[d] = Dir
      /\ UNCHANGED <<staging, base, todo>>
  BY DEF EngineInv, RemoveLitter, Litter, TypeOK
<1>1. ASSUME NEW q \in Paths, base[q] \in Contents, staging[q] = Absent
      PROVE  live'[q] = Absent <=> live[q] = Absent
  <2>1. CASE live[p] = Absent /\ q \in EmptyParents(plan, live, temps \ {p}, p)
    <3>1. live[q] = Dir
      BY <1>0, <2>1, PruneAt
    <3> QED BY <1>0, <1>1, <3>1, NoDirectoryForFile
  <2>2. CASE ~(live[p] = Absent
               /\ q \in EmptyParents(plan, live, temps \ {p}, p))
    <3>1. live'[q] = live[q]
      BY <1>0, <2>2, PruneAt
    <3> QED BY <3>1
  <2> QED BY <2>1, <2>2
<1>2. /\ report'.deleted = report.deleted
      /\ report'.added = report.added /\ report'.modified = report.modified
  BY <1>0
<1>3. CleanReport'
  BY <1>0, <1>1, <1>2 DEF ReportInv, CleanReport
<1>4. MergeReport'
  BY <1>0, <1>2 DEF MergeReport, ReportInv
<1>5. QED
  BY <1>0, <1>3, <1>4, Unfinished DEF ReportInv

\* When no orphan is left, what has been counted is what has changed.
LEMMA CleanDoneReports ==
  ASSUME EngineInv, ReportInv, CleanDone
  PROVE  ReportInv'
<1>0. /\ TypeOK /\ ~plan.dry /\ StagingIs(Len(plan.maps)) /\ pc = "clean"
      /\ \A p \in Paths : CleanAt(p)
      /\ MergeReport /\ todo = {} /\ CleanReport /\ pc' = "finish"
      /\ UNCHANGED <<live, staging, profile, base, report>> /\ plan' = plan
  BY SamePlan DEF EngineInv, CleanDone, ReportInv
<1>1. ASSUME NEW p \in Paths PROVE Leaf(live[p]) = Want(p)
  <2>1. ResultExact'
    BY CleanDoneInv DEF EngineInv
  <2>2. Leaf(live[p])' = Want(p)'
    BY <1>0, <2>1 DEF ResultExact
  <2> QED BY <1>0, <2>2, SamePlan
<1>2. ASSUME NEW p \in Paths, base[p] \in Contents
      PROVE  live[p] = Absent /\ staging[p] = Absent
               <=> staging[p] \notin Contents /\ Owned(plan, p)
  <2>1. Leaf(base[p]) # Absent /\ base[p] # Absent
    BY <1>0, <1>2, Entries
  <2>2. ASSUME live[p] = Absent, staging[p] = Absent
        PROVE  staging[p] \notin Contents /\ Owned(plan, p)
    BY <1>0, <2>1, <2>2, Entries DEF CleanAt
  <2>3. ASSUME staging[p] \notin Contents, Owned(plan, p)
        PROVE  live[p] = Absent /\ staging[p] = Absent
    <3>1. staging[p] # Dir
      BY <1>0, <2>1, Entries DEF CleanAt
    <3>2. staging[p] = Absent
      BY <1>0, <2>3, <3>1, StagingSupplied
    <3>3. Want(p) = Absent
      BY <1>0, <1>2, <2>3, TargetIs DEF Want
    <3>4. Leaf(live[p]) = Absent
      BY <1>1, <3>3
    <3>5. Leaf(live[p]) # Leaf(base[p])
      BY <2>1, <3>4
    <3> QED BY <1>0, <3>2, <3>5, Entries DEF CleanAt
  <2> QED BY <2>2, <2>3
<1>3. report.deleted = {p \in Paths : /\ base[p] \in Contents
                                      /\ staging[p] \notin Contents
                                      /\ Owned(plan, p)}
  BY <1>0, <1>2 DEF CleanReport
<1>4. /\ report.added = {p \in Paths : staging[p] \in Contents
                                       /\ base[p] = Absent}
      /\ report.modified = {p \in Paths : staging[p] \in Contents
                                          /\ base[p] \notin {Absent, staging[p]}}
  BY <1>0 DEF MergeReport
<1>5. ReportsChanges'
  BY <1>0, <1>3, <1>4, ChangesByStaging DEF ReportsChanges
<1>6. QED
  BY <1>0, <1>5 DEF ReportInv

-----------------------------------------------------------------------------
(* The gateway's own files.                                                 *)

\* A path that the gateway writes is no part of the plan.
LEMMA RuntimePath ==
  ASSUME TypeOK, NEW p \in Paths, p \in Runtime
  PROVE  /\ ~Owned(plan, p) /\ Suppliers(plan, p) = {}
         /\ \A i \in DOMAIN plan.maps : \A q \in Provides(plan, plan.maps[i]) :
              p # q /\ p \notin Above[q]
BY RuntimeAssumption DEF TypeOK, plan, Suppliers, ProvidedFiles

\* ... so it is not in staging,
LEMMA RuntimeNotStaged ==
  ASSUME TypeOK, NEW p \in Paths, p \in Runtime, StagingIs(Len(plan.maps))
  PROVE  staging[p] = Absent
<1>0. profile \in DOMAIN Profiles /\ plan = Profiles[profile]
  BY DEF TypeOK, plan
<1>1. staging[p] \notin Contents
  BY RuntimePath, StagingSupplied
<1>2. ASSUME staging[p] = Dir PROVE FALSE
  <2>1. PICK i \in DOMAIN plan.maps : Staged(plan, plan.maps[i], p) = Dir
    BY <1>2 DEF StagingIs
  <2>2. p \notin ProvidedFiles(plan, plan.maps[i])
    BY RuntimePath DEF ProvidedFiles
  <2> QED BY <1>0, <2>1, <2>2, RuntimePath, StagedCases
<1>3. QED
  BY <1>1, <1>2, StagingSupplied

\* ... and what it holds makes no path change its kind.
LEMMA RuntimeKind ==
  ASSUME TypeOK, NEW p \in Paths, p \in Runtime, NEW b, NEW c,
         \A q \in Paths : q # p => b[q] = c[q], KindChange(plan, b)
  PROVE  KindChange(plan, c)
<1>1. PICK i \in DOMAIN plan.maps : \E q \in Provides(plan, plan.maps[i]) :
        \/ b[q] = Dir /\ plan.maps[i].tree[q] # Dir
        \/ Leaf(b[q]) # Absent /\ plan.maps[i].tree[q] = Dir
        \/ \E d \in Above[q] : Leaf(b[d]) # Absent
  BY DEF KindChange
<1>2. PICK q \in Provides(plan, plan.maps[i]) :
        \/ b[q] = Dir /\ plan.maps[i].tree[q] # Dir
        \/ Leaf(b[q]) # Absent /\ plan.maps[i].tree[q] = Dir
        \/ \E d \in Above[q] : Leaf(b[d]) # Absent
  BY <1>1
<1>3. q \in Paths /\ Above[q] \subseteq Paths /\ q # p /\ p \notin Above[q]
  BY RuntimePath, PlanType, ProvidesPaths, TreeAssumption
<1>4. b[q] = c[q] /\ \A d \in Above[q] : b[d] = c[d]
  BY <1>3
<1>5. QED
  BY <1>2, <1>4 DEF KindChange

\* What the gateway writes is in no set of the report, before or after.
LEMMA GatewayReports ==
  ASSUME EngineInv, ReportInv, NEW p \in Paths,
         NEW c \in Written \cup {Absent}, GatewayWrites(p, c)
  PROVE  ReportInv'
<1>0. /\ TypeOK /\ p \in Runtime /\ c \in Contents \cup {Absent}
      /\ live' = [live EXCEPT ![p] = c] /\ base' = [base EXCEPT ![p] = c]
      /\ live \in [Paths -> Entry] /\ base \in [Paths -> Entry]
      /\ plan' = plan
      /\ UNCHANGED <<staging, pc, profile, todo, cur, report>>
  BY DataAssumption DEF EngineInv, TypeOK, GatewayWrites, WellFormed, plan
<1>1. /\ live'[p] = c /\ base'[p] = c
      /\ \A q \in Paths : q # p => live'[q] = live[q] /\ base'[q] = base[q]
  BY <1>0
<1>2. ASSUME pc \in {"merge", "copy", "clean"}
      PROVE  staging[p] = Absent /\ Absent \notin Contents
  BY <1>0, <1>2, RuntimeNotStaged, DataAssumption DEF EngineInv
<1>3. ASSUME pc \in {"merge", "copy", "clean"} PROVE MergeReport'
  <2>1. /\ report.added = {q \in Paths \ todo : staging[q] \in Contents
                                                /\ base'[q] = Absent}
        /\ report.modified =
             {q \in Paths \ todo : staging[q] \in Contents
                                   /\ base'[q] \notin {Absent, staging[q]}}
    BY <1>1, <1>2, <1>3 DEF ReportInv, MergeReport
  <2> QED BY <1>0, <2>1 DEF MergeReport
<1>4. ASSUME pc = "copy" PROVE live'[cur] # staging[cur]
  <2>1. cur \in Paths /\ staging[cur] \in Contents
    BY <1>4 DEF EngineInv, TypeOK
  <2>2. cur # p
    BY <1>2, <1>4, <2>1
  <2> QED BY <1>1, <1>4, <2>1, <2>2 DEF ReportInv
<1>5. ASSUME pc = "clean" PROVE CleanReport'
  <2>1. ~(base[p] \in Contents /\ live[p] = Absent)
    <3>1. CleanAt(p) /\ ~Owned(plan, p)
      BY <1>0, <1>5, RuntimePath DEF EngineInv
    <3>2. Leaf(live[p]) = Leaf(base[p])
      BY <1>2, <1>5, <3>1 DEF CleanAt
    <3> QED BY <1>0, <3>2, Entries
  <2>2. ~(base'[p] \in Contents /\ live'[p] = Absent)
    BY <1>1, <1>2, <1>5
  <2>3. report.deleted = {q \in Paths : /\ base'[q] \in Contents
                                        /\ live'[q] = Absent
                                        /\ staging[q] = Absent}
    BY <1>1, <1>5, <2>1, <2>2 DEF ReportInv, CleanReport
  <2> QED BY <1>0, <2>3 DEF CleanReport
<1>6. ASSUME pc = "finish", ~KindChange(plan, base')
      PROVE  /\ report.added = {q \in Paths : /\ base'[q] = Absent
                                              /\ Target(plan, base', q) # Absent}
             /\ report.modified =
                  {q \in Paths : /\ base'[q] # Absent
                                 /\ Target(plan, base', q) \notin
                                      {Absent, Leaf(base'[q])}}
             /\ report.deleted = {q \in Paths : /\ Leaf(base'[q]) # Absent
                                                /\ Target(plan, base', q) = Absent}
  <2>1. ~KindChange(plan, base)
    BY <1>0, <1>1, <1>6, RuntimeKind
  <2>2. /\ report.added = {q \in Paths : /\ base[q] = Absent
                                         /\ Target(plan, base, q) # Absent}
        /\ report.modified =
             {q \in Paths : /\ base[q] # Absent
                            /\ Target(plan, base, q) \notin
                                 {Absent, Leaf(base[q])}}
        /\ report.deleted = {q \in Paths : /\ Leaf(base[q]) # Absent
                                           /\ Target(plan, base, q) = Absent}
    BY <1>6, <2>1 DEF ReportInv, ReportsChanges
  <2>3. \A q \in Paths : q # p => Target(plan, base', q) = Target(plan, base, q)
    BY <1>1 DEF Target
  <2>4. /\ Target(plan, base', p) = Leaf(base'[p])
        /\ Target(plan, base, p) = Leaf(base[p])
    BY <1>0, RuntimePath DEF Target
  <2>5. Leaf(Absent) = Absent
    BY DataAssumption DEF Leaf
  <2> HIDE DEF Leaf
  <2> QED BY <1>1, <2>2, <2>3, <2>4, <2>5
<1>7. ReportsChanges'
  BY <1>0, <1>6 DEF ReportsChanges
<1>8. QED
  BY <1>0, <1>3, <1>4, <1>5, <1>7 DEF ReportInv

-----------------------------------------------------------------------------
(* The directories that the removal of orphans leaves.                      *)

\* A directory the plan owns, where something was removed, has something left.
Filled ==
  \A d \in Paths :
    /\ Owned(plan, d) /\ live[d] = Dir
    /\ Below(d) \cap Runtime = {}
    /\ Below(d) \cap (report.deleted \cup report.litter) # {}
    => \E q \in Paths : d \in Above[q] /\ (live[q] # Absent \/ q \in temps)

\* It is so from the first removal on.
FilledInv == pc \in {"clean", "finish"} /\ ~plan.dry => Filled

\* A plan owns no directory outside its managed roots.
LEMMA OwnedIsManaged ==
  ASSUME NEW pl, NEW d, Owned(pl, d)
  PROVE  UnderManagedRoot(pl, d)
BY DEF Owned, UnderManagedRoot

\* A directory above p that the pruning leaves, in a managed root, has a
\* temporary file in it or something that is left as well.
LEMMA PruneLeavesFilled ==
  ASSUME NEW pl, NEW l, NEW ts, ts \subseteq Paths, NEW p \in Paths,
         NEW d \in Above[p], UnderManagedRoot(pl, d),
         d \notin EmptyParents(pl, l, ts, p)
  PROVE  \E q \in Paths : /\ d \in Above[q]
                          /\ Prune(pl, l, ts, p)[q] # Absent \/ q \in ts
<1>1. \/ \E q \in Below(d) : l[q] # Absent /\ q \notin Above[p]
      \/ \E t \in ts : d \in Above[t]
  BY DEF EmptyParents
<1>2. CASE \E q \in Below(d) : l[q] # Absent /\ q \notin Above[p]
  BY <1>2, PruneAt DEF Below
<1>3. CASE \E t \in ts : d \in Above[t]
  BY <1>3
<1>4. QED
  BY <1>1, <1>2, <1>3

\* One removal at p, of a file or a temporary file, with its pruning: l is the
\* live directory without the file, ts the temporary files that remain.
LEMMA RemovalLeavesFilled ==
  ASSUME TypeOK, Filled, NEW p \in Paths, NEW l, NEW ts, ts \subseteq Paths,
         \A q \in Paths : q # p => l[q] = live[q],
         \A t \in temps : t = p \/ t \in ts,
         \A q \in Paths : live'[q] = Prune(plan, l, ts, p)[q], temps' = ts,
         l[p] # Dir, plan' = plan,
         report'.deleted \cup report'.litter
           = report.deleted \cup report.litter \cup {p}
  PROVE  Filled'
<1> SUFFICES ASSUME NEW d \in Paths, Owned(plan, d), live'[d] = Dir,
                    Below(d) \cap Runtime = {},
                    Below(d) \cap (report'.deleted \cup report'.litter) # {}
             PROVE  \E q \in Paths : /\ d \in Above[q]
                                     /\ live'[q] # Absent \/ q \in temps'
  BY DEF Filled
<1>1. d \notin EmptyParents(plan, l, ts, p) /\ l[d] = Dir
  BY PruneAt, DataAssumption
<1>2. CASE d \in Above[p]
  <2>1. \E q \in Paths : d \in Above[q]
          /\ (Prune(plan, l, ts, p)[q] # Absent \/ q \in ts)
    BY <1>1, <1>2, OwnedIsManaged, PruneLeavesFilled
  <2> QED BY <2>1
<1>3. CASE d \notin Above[p]
  <2>1. live[d] = Dir /\ p \notin Below(d)
    BY <1>1, <1>3 DEF Below
  <2>2. Below(d) \cap (report.deleted \cup report.litter) # {}
    BY <2>1
  <2>3. PICK q \in Paths : d \in Above[q] /\ (live[q] # Absent \/ q \in temps)
    BY <2>1, <2>2 DEF Filled
  <2>4. q # p /\ q \notin Above[p]
    BY <1>3, <2>3, TreeAssumption
  <2>5. live'[q] = live[q]
    BY <2>4, PruneAt
  <2> QED BY <2>3, <2>4, <2>5
<1>4. QED
  BY <1>2, <1>3

\* The two kinds of removal.
LEMMA RemoveFilled ==
  ASSUME EngineInv, FilledInv, NEW p \in Paths,
         RemoveOrphan(p) \/ RemoveLitter(p)
  PROVE  FilledInv'
<1>0. /\ TypeOK /\ pc = "clean" /\ pc' = "clean" /\ ~plan.dry /\ Filled
      /\ live \in [Paths -> Entry] /\ temps \subseteq Paths
      /\ report \in [added : SUBSET Paths, modified : SUBSET Paths,
                     deleted : SUBSET Paths, litter : SUBSET Paths]
      /\ plan' = plan
  BY DEF EngineInv, FilledInv, RemoveOrphan, RemoveLitter, TypeOK, WellFormed,
         plan
<1>1. report'.deleted \cup report'.litter
        = report.deleted \cup report.litter \cup {p}
  BY <1>0 DEF RemoveOrphan, RemoveLitter
<1>2. CASE RemoveOrphan(p)
  <2> DEFINE gone == [live EXCEPT ![p] = Absent]
  <2>1. live' = Prune(plan, gone, temps, p) /\ temps' = temps
    BY <1>2 DEF RemoveOrphan
  <2>2. gone[p] # Dir /\ \A q \in Paths : q # p => gone[q] = live[q]
    BY <1>0, DataAssumption
  <2> HIDE DEF gone
  <2>3. Filled'
    BY <1>0, <1>1, <2>1, <2>2, RemovalLeavesFilled
  <2> QED BY <1>0, <2>3 DEF FilledInv
<1>3. CASE RemoveLitter(p) /\ live[p] = Absent
  <2>1. live' = Prune(plan, live, temps \ {p}, p) /\ temps' = temps \ {p}
    BY <1>3 DEF RemoveLitter
  <2>2. live[p] # Dir /\ temps \ {p} \subseteq Paths
    BY <1>0, <1>3, DataAssumption
  <2>3. Filled'
    BY <1>0, <1>1, <2>1, <2>2, RemovalLeavesFilled
  <2> QED BY <1>0, <2>3 DEF FilledInv
<1>4. CASE RemoveLitter(p) /\ live[p] # Absent
  <2>1. live' = live /\ temps' = temps \ {p}
    BY <1>4 DEF RemoveLitter
  <2>2. Filled'
    <3> SUFFICES ASSUME NEW d \in Paths, Owned(plan, d), live[d] = Dir,
                        Below(d) \cap Runtime = {},
                        Below(d) \cap (report'.deleted \cup report'.litter) # {}
                 PROVE  \E q \in Paths : /\ d \in Above[q]
                                         /\ live[q] # Absent \/ q \in temps'
      BY <1>0, <2>1 DEF Filled
    <3>1. CASE d \in Above[p]
      BY <1>4, <3>1
    <3>2. CASE d \notin Above[p]
      <4>1. Below(d) \cap (report.deleted \cup report.litter) # {}
        BY <1>1, <3>2 DEF Below
      <4>2. PICK q \in Paths :
              d \in Above[q] /\ (live[q] # Absent \/ q \in temps)
        BY <1>0, <4>1 DEF Filled
      <4> QED BY <2>1, <3>2, <4>2
    <3> QED BY <3>1, <3>2
  <2> QED BY <1>0, <2>2 DEF FilledInv
<1>5. QED
  BY <1>2, <1>3, <1>4

\* The gateway writes nowhere below a directory Filled speaks of.
LEMMA GatewayFilled ==
  ASSUME EngineInv, FilledInv, NEW p \in Paths,
         NEW c \in Written \cup {Absent}, GatewayWrites(p, c)
  PROVE  FilledInv'
<1>0. /\ p \in Runtime /\ live' = [live EXCEPT ![p] = c] /\ c # Dir
      /\ live \in [Paths -> Entry] /\ plan' = plan
      /\ UNCHANGED <<temps, pc, report>>
  BY DataAssumption DEF EngineInv, TypeOK, GatewayWrites, WellFormed, plan
<1>1. live'[p] # Dir /\ \A q \in Paths : q # p => live'[q] = live[q]
  BY <1>0
<1>2. ASSUME Filled PROVE Filled'
  <2> SUFFICES ASSUME NEW d \in Paths, Owned(plan, d), live'[d] = Dir,
                      Below(d) \cap Runtime = {},
                      Below(d) \cap (report.deleted \cup report.litter) # {}
               PROVE  \E q \in Paths : /\ d \in Above[q]
                                       /\ live'[q] # Absent \/ q \in temps
    BY <1>0 DEF Filled
  <2>1. live[d] = Dir
    BY <1>1
  <2>2. PICK q \in Paths : d \in Above[q] /\ (live[q] # Absent \/ q \in temps)
    BY <1>2, <2>1 DEF Filled
  <2>3. q # p
    BY <1>0, <2>2 DEF Below
  <2> QED BY <1>1, <2>2, <2>3
<1>3. QED
  BY <1>0, <1>2 DEF FilledInv

-----------------------------------------------------------------------------
(* The invariants of the report and of the directories, and what follows.   *)

\* Every step keeps them.
LEMMA ReportStep ==
  ASSUME EngineInv, ReportInv, FilledInv, [Next]_vars
  PROVE  ReportInv' /\ FilledInv'
<1>1. ASSUME NEW n \in DOMAIN Profiles, Start(n)
      PROVE  ReportInv' /\ FilledInv'
  <2>1. pc' \in {"idle", "stage"} /\ report' = NoReport
    BY <1>1 DEF Start, Ends, ReportInv
  <2> QED BY <2>1, NothingCounted DEF FilledInv
<1>2. CASE StageMapping
  <2>1. pc' \in {"idle", "stage"} /\ report' = NoReport
    BY <1>2 DEF StageMapping, Ends, ReportInv
  <2> QED BY <2>1, NothingCounted DEF FilledInv
<1>3. CASE StagingDone
  <2>1. pc' \in {"clean", "finish"} => plan.dry
    BY <1>3 DEF StagingDone
  <2>2. plan' = plan
    BY <1>3 DEF StagingDone, plan
  <2> QED BY <1>3, <2>1, <2>2, StagingDoneReports DEF FilledInv
<1>4. ASSUME NEW p \in Paths, MergeDirectory(p) \/ CopyToTemp(p)
      PROVE  ReportInv' /\ FilledInv'
  <2>1. pc' \notin {"clean", "finish"}
    BY <1>4 DEF MergeDirectory, CopyToTemp, Visits, Ends
  <2> QED BY <1>4, <2>1, MergeReports DEF FilledInv
<1>5. CASE Rename
  <2>1. pc' \notin {"clean", "finish"}
    BY <1>5 DEF Rename, Ends
  <2> QED BY <1>5, <2>1, RenameReports DEF FilledInv
<1>6. CASE MergeDone
  <2>1. report'.deleted = {} /\ report'.litter = {}
    BY <1>6 DEF MergeDone, ReportInv
  <2>2. Filled'
    BY <2>1 DEF Filled
  <2> QED BY <1>6, <2>2, MergeDoneReports DEF FilledInv
<1>7. ASSUME NEW p \in Paths, RemoveOrphan(p) \/ RemoveLitter(p)
      PROVE  ReportInv' /\ FilledInv'
  BY <1>7, RemoveOrphanReports, RemoveLitterReports, RemoveFilled
<1>8. CASE CleanDone
  <2>1. /\ pc = "clean" /\ UNCHANGED <<live, temps, report, profile>>
        /\ plan' = plan
    BY <1>8 DEF CleanDone, plan
  <2>2. Filled => Filled'
    BY <2>1 DEF Filled
  <2> QED BY <1>8, <2>1, <2>2, CleanDoneReports DEF FilledInv
<1>9. CASE Finish \/ IOFails \/ Killed
  <2>1. pc' = "idle" /\ report' = NoReport
    BY <1>9 DEF Finish, IOFails, Killed, Ends
  <2> QED BY <2>1, NothingCounted DEF FilledInv
<1>10. ASSUME NEW p \in Paths, NEW c \in Written \cup {Absent},
              GatewayWrites(p, c)
       PROVE  ReportInv' /\ FilledInv'
  BY <1>10, GatewayReports, GatewayFilled
<1>11. CASE UNCHANGED vars
  <2>1. /\ UNCHANGED <<live, temps, staging, pc, profile, todo, cur, report,
                       base>>
        /\ plan' = plan
    BY <1>11 DEF vars, plan
  <2>2. ReportInv'
    BY <2>1 DEF ReportInv, MergeReport, CleanReport, ReportsChanges
  <2>3. FilledInv'
    BY <2>1 DEF FilledInv, Filled
  <2> QED BY <2>2, <2>3
<1>12. QED
  BY <1>1, <1>2, <1>3, <1>4, <1>5, <1>6, <1>7, <1>8, <1>9, <1>10, <1>11
  DEF Next

\* They hold in every state.
THEOREM ReportInvariant == Spec => [](ReportInv /\ FilledInv)
<1>1. Init => ReportInv /\ FilledInv
  BY DEF Init, ReportInv, FilledInv, ReportsChanges
<1>2. EngineInv /\ ReportInv /\ FilledInv /\ [Next]_vars
        => (ReportInv /\ FilledInv)'
  BY ReportStep
<1>3. QED
  BY <1>1, <1>2, EngineInvariant, PTL DEF Spec

\* The files that a completed sync or dry run counts as added, modified and
\* deleted are those whose content it changes, or would change.
THEOREM ReportIsOfChanges == Spec => []ReportsChanges
<1>1. ReportInv => ReportsChanges
  BY DEF ReportInv
<1>2. QED
  BY <1>1, ReportInvariant, PTL

\* Removing an orphan or a temporary file takes with it the directories that
\* it leaves empty: none that the plan owns stays hollow.
THEOREM NoDirectoryLeftHollow == Spec => []NoHollowDirectory
<1>1. FilledInv => NoHollowDirectory
  BY DEF FilledInv, Filled, NoHollowDirectory
<1>2. QED
  BY <1>1, ReportInvariant, PTL

-----------------------------------------------------------------------------
(* The sync as an update of the files, DirectoryUpdate.                     *)

\* A path holds a file, a link or nothing.
LEMMA FileAt ==
  ASSUME NEW l \in [Paths -> Entry]
  PROVE  /\ FilesOf(l) \in [Paths -> Contents \cup {Absent, Link}]
         /\ \A p \in Paths : FilesOf(l)[p] = Leaf(l[p])
BY DEF FilesOf, Leaf, Entry

\* The goal of the update is what the profile asks for.
LEMMA GoalIsWanted ==
  ASSUME TypeOK, NEW p \in Paths
  PROVE  Update!Goal(p) = Want(p)
<1>1. FilesOf(base)[p] = Leaf(base[p]) /\ base[p] \in Entry
  BY FileAt, Entries DEF TypeOK
<1>2. /\ Leaf(Leaf(base[p])) = Leaf(base[p])
      /\ Leaf(base[p]) \in Contents <=> base[p] \in Contents
  BY <1>1, DataAssumption DEF Leaf, Entry
<1>3. Target(plan, FilesOf(base), p) = Target(plan, base, p)
  BY <1>1, <1>2 DEF Target
<1>4. QED
  BY <1>1, <1>3 DEF Update!Goal, ResultOf, Want, plan

\* A step that leaves every file as it was is none of the update's.
LEMMA FilesKept ==
  ASSUME \A p \in Paths : Leaf(live'[p]) = Leaf(live[p]),
         UNCHANGED <<profile, base, why>>, pc' = "idle" <=> pc = "idle"
  PROVE  UNCHANGED Update!vars
<1>1. FilesOf(live)' = FilesOf(live)
  BY DEF FilesOf
<1>2. QED
  BY <1>1 DEF Update!vars, FilesOf

\* A sync that fails or is killed has touched no file in its last step.
LEMMA UpdateAborts ==
  ASSUME NEW o, Ends(o), o # "ok", pc # "idle",
         UNCHANGED <<live, base, profile>>
  PROVE  Update!Next
<1>1. Update!Abort
  BY DEF Update!Abort, Ends, FilesOf
<1>2. QED
  BY <1>1 DEF Update!Next

\* No error is called success.
LEMMA ErrorsAreNot ==
  /\ \A pl : PlanError(pl) # "ok"
  /\ \A pl, m, t : StageError(pl, m, t) # "ok"
<1>1. \A m : BuildError(m) # "ok"
  BY DEF BuildError
<1>2. \A pl, m, t : StageError(pl, m, t) # "ok"
  BY DEF StageError
<1>3. \A pl : PlanError(pl) # "ok"
  BY <1>1 DEF PlanError
<1>4. QED
  BY <1>2, <1>3

\* A sync that begins, or that buildSyncPlan refuses.
LEMMA UpdateAsked ==
  ASSUME EngineInv, NEW n \in DOMAIN Profiles, Start(n)
  PROVE  Update!Next
<1>1. /\ pc = "idle" /\ profile' = n /\ base' = live /\ live' = live
      /\ why' # "ok"
  BY ErrorsAreNot DEF Start, Ends
<1>2. Update!Ask
  BY <1>1 DEF Update!Ask, FilesOf
<1>3. QED
  BY <1>2 DEF Update!Next

\* One file changes, and it is p.
LEMMA UpdateChanges ==
  ASSUME EngineInv, EngineInv', NEW p \in Paths,
         Leaf(live'[p]) # Leaf(live[p]),
         \A q \in Paths : q # p => Leaf(live'[q]) = Leaf(live[q])
  PROVE  /\ Update!Change(p)
         /\ FilesOf(live)'[p] = Leaf(live'[p])
<1>1. live \in [Paths -> Entry] /\ live' \in [Paths -> Entry]
  BY DEF EngineInv, TypeOK, WellFormed
<1>2. /\ FilesOf(live') \in [Paths -> Contents \cup {Absent, Link}]
      /\ \A q \in Paths : /\ FilesOf(live')[q] = Leaf(live'[q])
                          /\ FilesOf(live)[q] = Leaf(live[q])
  BY <1>1, FileAt
<1>3. FilesOf(live)' = FilesOf(live')
  BY DEF FilesOf
<1>4. QED
  BY <1>2, <1>3 DEF Update!Change

\* The rename puts the file the profile asks for in its place.
LEMMA UpdatePuts ==
  ASSUME EngineInv, EngineInv', Rename, live[cur] # Dir
  PROVE  Update!Next \/ UNCHANGED Update!vars
<1>0. /\ TypeOK /\ pc = "copy" /\ pc' = "merge" /\ cur \in Paths
      /\ ~plan.dry /\ StagingIs(Len(plan.maps))
      /\ staging[cur] \in Contents /\ live' = [live EXCEPT ![cur] = staging[cur]]
      /\ live \in [Paths -> Entry] /\ UNCHANGED <<profile, base, why>>
  BY DEF EngineInv, Rename, TypeOK, WellFormed
<1>1. /\ Leaf(live'[cur]) = staging[cur] /\ staging[cur] # Absent
      /\ \A q \in Paths : q # cur => Leaf(live'[q]) = Leaf(live[q])
  BY <1>0, Entries
<1>2. CASE Leaf(live'[cur]) = Leaf(live[cur])
  BY <1>0, <1>1, <1>2, FilesKept
<1>3. CASE Leaf(live'[cur]) # Leaf(live[cur])
  <2>1. Update!Change(cur) /\ FilesOf(live)'[cur] = staging[cur]
    BY <1>0, <1>1, <1>3, UpdateChanges
  <2>2. Update!Goal(cur) = staging[cur]
    BY <1>0, GoalIsWanted, StagingIsWanted
  <2>3. Update!Put(cur)
    BY <1>0, <1>1, <2>1, <2>2 DEF Update!Put, FilesOf
  <2> QED BY <1>0, <2>1, <2>3 DEF Update!Next
<1>4. QED
  BY <1>2, <1>3

\* Every file that is wanted is in place when orphans are removed.
LEMMA WantedInPlace ==
  ASSUME EngineInv, pc = "clean", NEW p \in Paths, Want(p) # Absent
  PROVE  Leaf(live[p]) = Want(p)
<1>0. TypeOK /\ ~plan.dry /\ StagingIs(Len(plan.maps)) /\ CleanAt(p)
  BY DEF EngineInv
<1>1. CASE staging[p] = Absent
  <2>1. Want(p) = IF Owned(plan, p) /\ base[p] \in Contents THEN Absent
                  ELSE Leaf(base[p])
    BY <1>0, <1>1, StagingIsWanted, UnsuppliedWant, Entries
  <2>2. \/ Leaf(live[p]) = Leaf(base[p])
        \/ live[p] = Absent /\ base[p] \in Contents /\ Owned(plan, p)
    BY <1>0, <1>1, Entries DEF CleanAt
  <2> QED BY <2>1, <2>2
<1>2. CASE staging[p] = Dir
  <2>1. Want(p) = IF Owned(plan, p) /\ base[p] \in Contents THEN Absent
                  ELSE Leaf(base[p])
    BY <1>0, <1>2, StagingIsWanted, UnsuppliedWant, Entries
  <2>2. Leaf(base[p]) = Absent
    BY <1>0, <1>2, Entries DEF CleanAt
  <2> QED BY <2>1, <2>2
<1>3. CASE staging[p] \in Contents
  BY <1>0, <1>3, StagingIsWanted, Entries DEF CleanAt
<1>4. QED
  BY <1>0, <1>1, <1>2, <1>3, StagingIsWanted

\* An orphan is a file that the profile does not ask for; the directories that
\* go with it are no files.
LEMMA UpdateRemoves ==
  ASSUME EngineInv, EngineInv', NEW p \in Paths, RemoveOrphan(p)
  PROVE  Update!Next
<1> DEFINE gone == [live EXCEPT ![p] = Absent]
<1>0. /\ TypeOK /\ pc = "clean" /\ pc' = "clean"
      /\ ~plan.dry /\ StagingIs(Len(plan.maps)) /\ CleanAt(p)
      /\ live \in [Paths -> Entry] /\ WellFormed(live)
      /\ live' = Prune(plan, gone, temps, p)
      /\ UNCHANGED <<profile, base, why>>
  BY DEF EngineInv, RemoveOrphan, TypeOK, WellFormed
<1>1. /\ live[p] \in Contents /\ staging[p] = Absent
      /\ ~Filtered(plan, p) /\ \A d \in Above[p] : ~Filtered(plan, d)
      /\ UnderManagedRoot(plan, p)
  BY DEF RemoveOrphan, Orphans, NotExist, Enters
<1>2. Want(p) = Absent
  <2>1. Owned(plan, p)
    BY <1>1 DEF Owned, UnderManagedRoot
  <2>2. Leaf(live[p]) = Leaf(base[p]) \/ live[p] = Absent
    BY <1>0, <1>1, Entries DEF CleanAt
  <2>3. base[p] \in Contents
    BY <2>2, <1>0, <1>1, Entries, DataAssumption DEF Leaf
  <2>4. Suppliers(plan, p) = {}
    BY <1>0, <1>1, StagingIsWanted, Entries
  <2> QED BY <1>0, <2>1, <2>3, <2>4, UnsuppliedWant
<1>3. /\ gone[p] = Absent /\ \A q \in Paths : q # p => gone[q] = live[q]
      /\ \A d \in Above[p] : d # p /\ d \in Paths /\ live[d] = Dir
  BY <1>0, <1>1, TreeAssumption, DataAssumption DEF WellFormed
<1> HIDE DEF gone
<1>4. \A q \in Paths : live'[q] = gone[q] \/ (q \in Above[p] /\ live'[q] = Absent)
  BY <1>0 DEF Prune, EmptyParents
<1>5. /\ Leaf(live'[p]) = Absent /\ Leaf(live[p]) # Absent
      /\ \A q \in Paths : q # p => Leaf(live'[q]) = Leaf(live[q])
  BY <1>0, <1>1, <1>3, <1>4, Entries
<1>6. Update!Change(p) /\ FilesOf(live)'[p] = Absent
  BY <1>5, UpdateChanges
<1>7. /\ Update!Goal(p) = Absent
      /\ \A q \in Paths : Update!Goal(q) # Absent =>
           FilesOf(live)[q] = Update!Goal(q)
  BY <1>0, <1>2, GoalIsWanted, WantedInPlace, FileAt
<1>8. Update!Remove(p)
  BY <1>0, <1>6, <1>7 DEF Update!Remove, FilesOf
<1>9. QED
  BY <1>6, <1>8 DEF Update!Next

\* The gateway writes a file of its own, which is as the profile would have it
\* before and after.
LEMMA UpdateOwnWrite ==
  ASSUME EngineInv, EngineInv', NEW p \in Paths,
         NEW c \in Written \cup {Absent}, GatewayWrites(p, c)
  PROVE  Update!Next \/ UNCHANGED Update!vars
<1>0. /\ TypeOK /\ TypeOK' /\ p \in Runtime /\ c \in Contents \cup {Absent}
      /\ live' = [live EXCEPT ![p] = c] /\ base' = [base EXCEPT ![p] = c]
      /\ live \in [Paths -> Entry] /\ base \in [Paths -> Entry]
      /\ base' \in [Paths -> Entry]
      /\ plan' = plan /\ UNCHANGED <<pc, profile, why>>
  BY DataAssumption DEF EngineInv, TypeOK, GatewayWrites, WellFormed, plan
<1>1. /\ live'[p] = c /\ base'[p] = c /\ Leaf(c) = c
      /\ \A q \in Paths : q # p => live'[q] = live[q] /\ base'[q] = base[q]
  BY <1>0, Entries
<1>2. Want(p) = Leaf(base[p]) /\ Want(p)' = c
  BY <1>0, <1>1, RuntimePath DEF Want, Target
<1>3. Leaf(live[p]) = Leaf(base[p])
  BY <1>2, Always DEF OldOrNew
<1>4. \A q \in Paths : FilesOf(base)[q] = Leaf(base[q])
                       /\ FilesOf(base')[q] = Leaf(base'[q])
                       /\ FilesOf(live)[q] = Leaf(live[q])
  BY <1>0, FileAt
<1>5. FilesOf(base)' = [FilesOf(base) EXCEPT ![p] = c]
  <2>1. FilesOf(base') = [q \in Paths |-> Leaf(base'[q])]
        /\ FilesOf(base) = [q \in Paths |-> Leaf(base[q])]
    BY DEF FilesOf
  <2>2. \A q \in Paths : Leaf(base'[q]) = IF q = p THEN c ELSE Leaf(base[q])
    BY <1>1
  <2>3. FilesOf(base)' = FilesOf(base')
    BY DEF FilesOf
  <2> QED BY <2>1, <2>2, <2>3
<1>6. CASE Leaf(live[p]) = c
  <2>1. \A q \in Paths : /\ Leaf(live'[q]) = Leaf(live[q])
                         /\ Leaf(base'[q]) = Leaf(base[q])
    BY <1>1, <1>3, <1>6
  <2>2. FilesOf(live)' = FilesOf(live) /\ FilesOf(base)' = FilesOf(base)
    BY <2>1 DEF FilesOf
  <2> QED BY <1>0, <2>2 DEF Update!vars
<1>7. CASE Leaf(live[p]) # c
  <2>1. Update!Change(p) /\ FilesOf(live)'[p] = c
    BY <1>1, <1>7, UpdateChanges
  <2>2. Update!Goal(p) = FilesOf(live)[p]
    BY <1>0, <1>2, <1>3, <1>4, GoalIsWanted
  <2>3. ResultOf(profile, FilesOf(base)', p) = c
    <3>1. FilesOf(base)'[p] = c
      BY <1>1, <1>4 DEF FilesOf
    <3>2. ~Owned(Profiles[profile], p) /\ Suppliers(Profiles[profile], p) = {}
      BY <1>0, RuntimePath DEF plan
    <3> QED BY <1>1, <3>1, <3>2 DEF ResultOf, Target
  <2>4. Update!OwnWrite(p)
    BY <1>0, <1>5, <2>1, <2>2, <2>3 DEF Update!OwnWrite
  <2> QED BY <2>1, <2>4 DEF Update!Next
<1>8. QED
  BY <1>6, <1>7

\* A completed sync has reached its goal.
LEMMA UpdateCompletes ==
  ASSUME EngineInv, Finish
  PROVE  Update!Next
<1>0. /\ TypeOK /\ pc = "finish" /\ pc' = "idle" /\ why' = "ok"
      /\ UNCHANGED <<live, base, profile>> /\ live \in [Paths -> Entry]
      /\ \A p \in Paths : Leaf(live[p]) = Want(p)
  BY DEF EngineInv, Finish, Ends, TypeOK, WellFormed, ResultExact
<1>1. \A p \in Paths : FilesOf(live)[p] = Update!Goal(p)
  BY <1>0, FileAt, GoalIsWanted
<1>2. Update!Complete
  BY <1>0, <1>1 DEF Update!Complete, FilesOf
<1>3. QED
  BY <1>2 DEF Update!Next

\* The update begins where the sync does.
LEMMA UpdateInit == Init => Update!Init
<1> SUFFICES ASSUME Init PROVE Update!Init
  OBVIOUS
<1>1. live \in [Paths -> Entry] /\ profile \in DOMAIN Profiles /\ base = live
  BY DataAssumption DEF Init, WellFormed
<1>2. FilesOf(live) \in [Paths -> Contents \cup {Absent, Link}]
  BY <1>1, FileAt
<1>3. QED
  BY <1>1, <1>2 DEF Init, Update!Init

\* Every step of the engine is a step of the update, or changes no file.
LEMMA UpdateNext ==
  ASSUME EngineInv, EngineInv', [Next]_vars
  PROVE  Update!Next \/ UNCHANGED Update!vars
<1>0. live \in [Paths -> Entry]
  BY DEF EngineInv, TypeOK, WellFormed
<1>1. ASSUME NEW n \in DOMAIN Profiles, Start(n) PROVE Update!Next
  BY <1>1, UpdateAsked
<1>2. CASE StageMapping
  <2>1. CASE StageError(plan, plan.maps[at], staging) # "none"
    BY <1>2, <2>1, ErrorsAreNot, UpdateAborts DEF StageMapping
  <2>2. CASE StageError(plan, plan.maps[at], staging) = "none"
    BY <1>2, <2>2, FilesKept DEF StageMapping
  <2> QED BY <2>1, <2>2
<1>3. CASE StagingDone
  BY <1>3, FilesKept DEF StagingDone
<1>4. ASSUME NEW p \in Paths, MergeDirectory(p)
      PROVE  Update!Next \/ UNCHANGED Update!vars
  <2>1. CASE live[p] \in {Absent, Dir}
    <3>1. \A q \in Paths : Leaf(live'[q]) = Leaf(live[q])
      BY <1>0, <1>4, <2>1 DEF MergeDirectory, Leaf
    <3> QED BY <1>4, <2>1, <3>1, FilesKept DEF MergeDirectory, Visits
  <2>2. CASE live[p] \notin {Absent, Dir}
    BY <1>4, <2>2, UpdateAborts DEF MergeDirectory, Visits
  <2> QED BY <2>1, <2>2
<1>5. ASSUME NEW p \in Paths, CopyToTemp(p) PROVE UNCHANGED Update!vars
  BY <1>5, FilesKept DEF CopyToTemp, Visits
<1>6. CASE Rename
  <2>1. CASE live[cur] = Dir
    BY <1>6, <2>1, UpdateAborts DEF Rename
  <2> QED BY <1>6, <2>1, UpdatePuts
<1>7. CASE MergeDone \/ CleanDone
  BY <1>7, FilesKept DEF MergeDone, CleanDone
<1>8. ASSUME NEW p \in Paths, RemoveOrphan(p) PROVE Update!Next
  BY <1>8, UpdateRemoves
<1>9. ASSUME NEW p \in Paths, RemoveLitter(p) PROVE UNCHANGED Update!vars
  <2>1. \A d \in Above[p] : d \in Paths /\ live[d] = Dir
    BY <1>9, TreeAssumption DEF RemoveLitter, Litter, EngineInv, TypeOK
  <2>2. \A q \in Paths : live'[q] = live[q]
                         \/ (live[q] = Dir /\ live'[q] = Absent)
    BY <1>9, <2>1 DEF RemoveLitter, Prune, EmptyParents
  <2>3. \A q \in Paths : Leaf(live'[q]) = Leaf(live[q])
    BY <2>2 DEF Leaf
  <2> QED BY <1>9, <2>3, FilesKept DEF RemoveLitter
<1>10. CASE Finish
  BY <1>10, UpdateCompletes
<1>11. CASE IOFails \/ Killed
  BY <1>11, UpdateAborts DEF IOFails, Killed
<1>12. ASSUME NEW p \in Paths, NEW c \in Written \cup {Absent},
              GatewayWrites(p, c)
       PROVE  Update!Next \/ UNCHANGED Update!vars
  BY <1>12, UpdateOwnWrite
<1>13. CASE UNCHANGED vars
  BY <1>13, FilesKept DEF vars
<1>14. QED
  BY <1>1, <1>2, <1>3, <1>4, <1>5, <1>6, <1>7, <1>8, <1>9, <1>10, <1>11, <1>12,
     <1>13 DEF Next

\* ExecutePlan implements DirectoryUpdate, whatever fails and whenever it is
\* killed: file by file towards the goal, removals last, success only at it.
THEOREM SyncImplementsUpdate == Spec => ImplementsUpdate
<1>1. EngineInv /\ EngineInv' /\ [Next]_vars => [Update!Next]_(Update!vars)
  BY UpdateNext
<1>2. QED
  BY <1>1, UpdateInit, EngineInvariant, PTL
     DEF Spec, ImplementsUpdate, Update!Spec
=============================================================================

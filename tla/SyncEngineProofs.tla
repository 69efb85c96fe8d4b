-------------------------- MODULE SyncEngineProofs --------------------------
(***************************************************************************)
(* What is proved about SyncEngine for every tree of paths, every set of   *)
(* profiles and filters, and kills and I/O errors at any step.             *)
(***************************************************************************)
EXTENDS SyncEngine, TLAPS

\* A profile is a sequence of mappings.
LEMMA PlanType ==
  ASSUME TypeOK
  PROVE  /\ plan \in Plan
         /\ Len(plan.maps) \in Nat
         /\ DOMAIN plan.maps = 1..Len(plan.maps)
         /\ \A i \in DOMAIN plan.maps : plan.maps[i] \in Mapping
<1>1. plan \in Plan
  BY DataAssumption DEF TypeOK, plan
<1>2. QED
  BY <1>1 DEF Plan

\* The transformation of a file that a mapping supplies.
LEMMA TransformType ==
  ASSUME NEW m \in Mapping, NEW p \in Paths, m.tree[p] \in Contents
  PROVE  Transform(m, p) \in Contents \cup {Bad}
<1> DEFINE text == IF m.template THEN Rendered[m.tree[p]] ELSE m.tree[p]
<1>1. text \in Contents \cup {Bad}
  BY DataAssumption
<1>2. text # Bad => Patched[text] \in Contents \cup {Bad}
  BY <1>1, DataAssumption
<1>3. QED
  BY <1>1, <1>2 DEF Transform

\* What a mapping provides is a set of paths at and below its destination.
LEMMA ProvidesPaths ==
  ASSUME NEW pl, NEW m \in Mapping
  PROVE  /\ Provides(pl, m) \subseteq Paths
         /\ ProvidedFiles(pl, m) \subseteq Provides(pl, m)
         /\ \A p \in ProvidedFiles(pl, m) : m.tree[p] \in Contents
BY DEF Provides, ProvidedFiles, Below, Mapping

\* A file that is supplied has nothing supplied below it.
LEMMA FilesAreLeaves ==
  ASSUME NEW n \in DOMAIN Profiles, NEW i \in DOMAIN Profiles[n].maps,
         NEW q \in Provides(Profiles[n], Profiles[n].maps[i]),
         NEW d \in Above[q]
  PROVE  d \notin ProvidedFiles(Profiles[n], Profiles[n].maps[i])
<1> DEFINE pl == Profiles[n]
           m == pl.maps[i]
<1>0. m \in Mapping
  BY DataAssumption DEF Plan
<1>a. q \in Paths /\ d \in Paths
  BY <1>0, ProvidesPaths, TreeAssumption
<1> SUFFICES ASSUME d \in ProvidedFiles(pl, m) PROVE FALSE
  OBVIOUS
<1>1. d \in Provides(pl, m) /\ m.tree[d] \in Contents
  BY <1>0, ProvidesPaths
<1>2. CASE TypeOf(m) = "file"
  <2>1. q = m.dest /\ d = m.dest
    BY <1>1, <1>2 DEF Provides
  <2> QED BY <2>1, <1>a, TreeAssumption
<1>3. CASE TypeOf(m) # "file"
  <2>1. d \in Below(m.dest) /\ q \in Below(m.dest) /\ m.tree[q] # Absent
    BY <1>1, <1>3 DEF Provides
  <2>2. m.tree[d] = Dir
    BY <2>1, DataAssumption
  <2> QED BY <2>2, <1>1, DataAssumption
<1>4. QED
  BY <1>2, <1>3

\* The entry a mapping leaves at a path.
LEMMA StagedCases ==
  ASSUME NEW n \in DOMAIN Profiles, NEW i \in DOMAIN Profiles[n].maps,
         NEW p \in Paths
  PROVE  LET pl == Profiles[n]
             m == pl.maps[i] IN
         /\ p \in ProvidedFiles(pl, m) =>
              Staged(pl, m, p) = Transform(m, p)
         /\ p \notin ProvidedFiles(pl, m) => Staged(pl, m, p) \in {Absent, Dir}
         /\ p \notin ProvidedFiles(pl, m) /\ Staged(pl, m, p) = Absent =>
              p \notin Provides(pl, m) /\ \A q \in Provides(pl, m) : p \notin Above[q]
         /\ p \notin ProvidedFiles(pl, m) /\ Staged(pl, m, p) = Dir =>
              p \in Provides(pl, m) \/ \E q \in Provides(pl, m) : p \in Above[q]
<1> DEFINE pl == Profiles[n]
           m == pl.maps[i]
<1>1. CASE p \in ProvidedFiles(pl, m)
  <2>1. \A q \in Provides(pl, m) : p \notin Above[q]
    BY <1>1, FilesAreLeaves
  <2>2. Staged(pl, m, p) = Transform(m, p)
    BY <1>1, <2>1 DEF Staged
  <2> QED BY <1>1, <2>2
<1>2. CASE p \notin ProvidedFiles(pl, m) /\ p \in Provides(pl, m)
  BY <1>2, DataAssumption DEF Staged
<1>3. CASE p \notin Provides(pl, m) /\ \E q \in Provides(pl, m) : p \in Above[q]
  BY <1>3, DataAssumption DEF Staged, ProvidedFiles
<1>4. CASE p \notin Provides(pl, m) /\ \A q \in Provides(pl, m) : p \notin Above[q]
  BY <1>4, DataAssumption DEF Staged, ProvidedFiles
<1>5. QED
  BY <1>1, <1>2, <1>3, <1>4

\* The last of a set that gained a new greatest element.
LEMMA LastOfNext ==
  ASSUME NEW n \in Nat, NEW S, S \subseteq 1..n
  PROVE  LastOf(S \cup {n + 1}) = n + 1
<1>1. \A j \in S \cup {n + 1} : j <= n + 1
  OBVIOUS
<1>2. \A i \in S \cup {n + 1} :
        (\A j \in S \cup {n + 1} : j <= i) => i = n + 1
  OBVIOUS
<1>3. QED
  BY <1>1, <1>2 DEF LastOf

\* Nothing is staged on an error.
LEMMA NoStageError ==
  ASSUME NEW pl, NEW m, NEW t, StageError(pl, m, t) = "none"
  PROVE  /\ \A p \in ProvidedFiles(pl, m) : Transform(m, p) # Bad
         /\ \A p \in Paths : t[p] # Absent /\ Staged(pl, m, p) # Absent
              => (t[p] = Dir <=> Staged(pl, m, p) = Dir)
         /\ m.src # "missing"
BY DEF StageError

\* One mapping overlaid on a staging directory that is a tree gives a tree.
LEMMA OverlayTree ==
  ASSUME NEW n \in DOMAIN Profiles, NEW i \in DOMAIN Profiles[n].maps,
         WellFormed(staging),
         StageError(Profiles[n], Profiles[n].maps[i], staging) = "none"
  PROVE  WellFormed(Overlay(Profiles[n], Profiles[n].maps[i], staging))
<1> DEFINE pl == Profiles[n]
           m == pl.maps[i]
           new == Overlay(pl, m, staging)
<1>0. m \in Mapping
  BY DataAssumption DEF Plan
<1>1. \A p \in Paths : Staged(pl, m, p) \in Entry
  <2> TAKE p \in Paths
  <2>1. CASE p \in ProvidedFiles(pl, m)
    BY <2>1, <1>0, StagedCases, TransformType, ProvidesPaths, NoStageError
       DEF Entry
  <2>2. CASE p \notin ProvidedFiles(pl, m)
    BY <2>2, StagedCases DEF Entry
  <2> QED BY <2>1, <2>2
<1>2. new \in [Paths -> Entry]
  BY <1>1 DEF Overlay, WellFormed
<1>3. ASSUME NEW p \in Paths, new[p] # Absent, NEW d \in Above[p]
      PROVE  new[d] = Dir
  <2>0. d \in Paths
    BY TreeAssumption
  <2>1. CASE Staged(pl, m, p) # Absent
    <3>1. PICK q \in Provides(pl, m) : q = p \/ p \in Above[q]
      BY <2>1, StagedCases DEF ProvidedFiles
    <3>2. q \in Paths /\ d \in Above[q]
      BY <3>1, <1>0, ProvidesPaths, TreeAssumption
    <3>3. d \notin ProvidedFiles(pl, m)
      BY <3>2, FilesAreLeaves
    <3>4. Staged(pl, m, d) = Dir
      BY <3>2, <3>3, <2>0, StagedCases
    <3> QED BY <3>4, <2>0, DataAssumption DEF Overlay
  <2>2. CASE Staged(pl, m, p) = Absent
    <3>1. staging[p] # Absent
      BY <2>2, <1>3 DEF Overlay
    <3>2. staging[d] = Dir
      BY <3>1 DEF WellFormed
    <3>3. Staged(pl, m, d) = Absent \/ Staged(pl, m, d) = Dir
      BY <3>2, <2>0, NoStageError, DataAssumption
    <3> QED BY <3>2, <3>3, <2>0 DEF Overlay
  <2>3. QED
    BY <2>1, <2>2
<1>4. QED
  BY <1>2, <1>3 DEF WellFormed

\* The mapping that is staged next extends what staging holds.
LEMMA StagingExtends ==
  ASSUME TypeOK, pc = "stage", at <= Len(plan.maps), StagingIs(at - 1),
         StageError(plan, plan.maps[at], staging) = "none",
         staging' = Overlay(plan, plan.maps[at], staging), at' = at + 1,
         profile' = profile
  PROVE  StagingIs(at - 1)'
<1> DEFINE m == plan.maps[at]
           n == at - 1
<1>0. /\ at \in DOMAIN plan.maps /\ n \in Nat /\ at = n + 1
      /\ m \in Mapping /\ profile \in DOMAIN Profiles
      /\ plan = Profiles[profile] /\ plan' = plan
  BY PlanType DEF TypeOK, plan
<1> SUFFICES ASSUME NEW p \in Paths
             PROVE
               LET S == Suppliers(plan, p) \cap (1..at) IN
               /\ staging'[p] # Link
               /\ staging'[p] \in Contents <=> S # {}
               /\ S # {} => staging'[p] = Transform(plan.maps[LastOf(S)], p)
               /\ staging'[p] = Dir =>
                    \E i \in DOMAIN plan.maps : Staged(plan, plan.maps[i], p) = Dir
  <2>1. at' - 1 = at
    BY <1>0
  <2> QED BY <1>0, <2>1 DEF StagingIs, Suppliers
<1> DEFINE S == Suppliers(plan, p) \cap (1..n)
           T == Suppliers(plan, p) \cap (1..at)
<1>1. /\ staging[p] # Link
      /\ staging[p] \in Contents <=> S # {}
      /\ S # {} => staging[p] = Transform(plan.maps[LastOf(S)], p)
      /\ staging[p] = Dir =>
           \E i \in DOMAIN plan.maps : Staged(plan, plan.maps[i], p) = Dir
  BY DEF StagingIs
<1>2. staging'[p] = IF Staged(plan, m, p) = Absent THEN staging[p]
                    ELSE Staged(plan, m, p)
  BY DEF Overlay
<1>3. CASE p \in ProvidedFiles(plan, m)
  <2>1. T = S \cup {n + 1}
    BY <1>3, <1>0 DEF Suppliers
  <2>2. LastOf(T) = at
    BY <2>1, <1>0, LastOfNext
  <2>3. Staged(plan, m, p) = Transform(m, p) /\ Transform(m, p) \in Contents
    BY <1>3, <1>0, StagedCases, TransformType, ProvidesPaths, NoStageError
  <2>4. staging'[p] = Transform(m, p)
    BY <1>2, <2>3, DataAssumption
  <2> QED BY <2>1, <2>2, <2>3, <2>4, DataAssumption
<1>4. CASE p \notin ProvidedFiles(plan, m)
  <2>1. T = S
    BY <1>4, <1>0 DEF Suppliers
  <2>2. Staged(plan, m, p) \in {Absent, Dir}
    BY <1>4, <1>0, StagedCases
  <2>3. CASE Staged(plan, m, p) = Absent
    BY <2>1, <2>3, <1>1, <1>2
  <2>4. CASE Staged(plan, m, p) = Dir
    <3>1. staging'[p] = Dir
      BY <2>4, <1>2, DataAssumption
    <3>2. staging[p] = Absent \/ staging[p] = Dir
      BY <2>4, NoStageError, DataAssumption
    <3>3. S = {}
      BY <3>2, <1>1, DataAssumption
    <3> QED BY <3>1, <3>3, <2>1, <2>4, <1>0, DataAssumption
  <2>5. QED
    BY <2>2, <2>3, <2>4
<1>5. QED
  BY <1>3, <1>4

\* Once staging is complete, a dry run included, its files are the supplied
\* ones, each as its last supplier transforms it.
LEMMA StagingSupplied ==
  ASSUME TypeOK, StagingIs(Len(plan.maps)), NEW p \in Paths
  PROVE  /\ staging[p] \in Contents <=> Suppliers(plan, p) # {}
         /\ Suppliers(plan, p) # {} =>
              staging[p] = Transform(plan.maps[LastOf(Suppliers(plan, p))], p)
         /\ staging[p] \in Contents \cup {Absent, Dir}
<1>1. Suppliers(plan, p) \cap (1..Len(plan.maps)) = Suppliers(plan, p)
  BY PlanType DEF Suppliers
<1>2. /\ staging[p] # Link
      /\ staging[p] \in Contents <=> Suppliers(plan, p) # {}
      /\ Suppliers(plan, p) # {} =>
           staging[p] = Transform(plan.maps[LastOf(Suppliers(plan, p))], p)
  BY <1>1 DEF StagingIs
<1>3. staging[p] \in Entry
  BY DEF TypeOK, WellFormed
<1>4. QED
  BY <1>2, <1>3 DEF Entry

\* Once staging is complete it holds what the profile asks for.
LEMMA StagingIsWanted ==
  ASSUME TypeOK, ~plan.dry, StagingIs(Len(plan.maps)), NEW p \in Paths
  PROVE  /\ staging[p] \in Contents <=> Suppliers(plan, p) # {}
         /\ staging[p] \in Contents => Want(p) = staging[p]
         /\ staging[p] \in Contents \cup {Absent, Dir}
<1>1. Suppliers(plan, p) # {} =>
        Want(p) = Transform(plan.maps[LastOf(Suppliers(plan, p))], p)
  BY DEF Want, Target
<1>2. QED
  BY <1>1, StagingSupplied

\* What an unsupplied path should be.
LEMMA UnsuppliedWant ==
  ASSUME ~plan.dry, NEW p \in Paths, Suppliers(plan, p) = {}
  PROVE  Want(p) = IF Owned(plan, p) /\ base[p] \in Contents THEN Absent
                   ELSE Leaf(base[p])
BY DEF Want, Target

\* The entries of the live directory and of the history variable.
LEMMA Entries ==
  ASSUME TypeOK, NEW p \in Paths
  PROVE  /\ live[p] \in Entry /\ base[p] \in Entry /\ staging[p] \in Entry
         /\ Above[p] \subseteq Paths
         /\ \A x \in Contents : x \notin {Absent, Dir, Link} /\ Leaf(x) = x
         /\ Leaf(Absent) = Absent /\ Leaf(Dir) = Absent /\ Leaf(Link) = Link
         /\ Absent # Dir /\ Absent # Link /\ Dir # Link
BY DataAssumption, TreeAssumption DEF TypeOK, WellFormed, Leaf

\* OldOrNew and DeletesLast follow from the invariant in every state.
LEMMA Always == EngineInv => OldOrNew /\ DeletesLast
<1> SUFFICES ASSUME EngineInv PROVE OldOrNew /\ DeletesLast
  OBVIOUS
<1>0. TypeOK
  BY DEF EngineInv
<1>1. CASE pc \in {"idle", "finish"}
  BY <1>1 DEF EngineInv
<1>2. CASE pc = "stage"
  <2>1. live = base
    BY <1>2 DEF EngineInv
  <2> QED BY <2>1 DEF OldOrNew, DeletesLast
<1>3. CASE pc \in {"merge", "copy"}
  <2>1. ~plan.dry /\ StagingIs(Len(plan.maps)) /\ \A p \in Paths : MergeAt(p)
    BY <1>3 DEF EngineInv
  <2>2. ASSUME NEW p \in Paths
        PROVE  /\ Leaf(live[p]) = Leaf(base[p]) \/ Leaf(live[p]) = Want(p)
               /\ ~(Leaf(base[p]) # Absent /\ Leaf(live[p]) = Absent)
    <3>1. MergeAt(p)
      BY <2>1
    <3>2. CASE p \in todo \/ staging[p] = Absent
      BY <3>1, <3>2 DEF MergeAt
    <3>3. CASE p \notin todo /\ staging[p] = Dir
      BY <3>1, <3>3, <1>0, Entries DEF MergeAt
    <3>4. CASE p \notin todo /\ staging[p] \in Contents
      BY <3>1, <3>4, <1>0, <2>1, Entries, StagingIsWanted DEF MergeAt
    <3> QED BY <3>2, <3>3, <3>4, <1>0, <2>1, StagingIsWanted
  <2> QED BY <2>2 DEF OldOrNew, DeletesLast
<1>4. CASE pc = "clean"
  <2>1. ~plan.dry /\ StagingIs(Len(plan.maps)) /\ \A p \in Paths : CleanAt(p)
    BY <1>4 DEF EngineInv
  <2>2. ASSUME NEW p \in Paths
        PROVE  /\ Leaf(live[p]) = Leaf(base[p]) \/ Leaf(live[p]) = Want(p)
               /\ Suppliers(plan, p) # {} => live[p] = Want(p)
    <3>1. CleanAt(p)
      BY <2>1
    <3>2. CASE staging[p] = Absent
      <4>1. Suppliers(plan, p) = {}
        BY <3>2, <1>0, <2>1, StagingIsWanted, Entries
      <4>2. \/ Leaf(live[p]) = Leaf(base[p])
            \/ live[p] = Absent /\ base[p] \in Contents /\ Owned(plan, p)
        BY <3>1, <3>2, <1>0, Entries DEF CleanAt
      <4> QED BY <4>1, <4>2, <2>1, <1>0, UnsuppliedWant, Entries
    <3>3. CASE staging[p] = Dir
      <4>1. Suppliers(plan, p) = {}
        BY <3>3, <1>0, <2>1, StagingIsWanted, Entries
      <4>2. Leaf(live[p]) = Absent /\ Leaf(base[p]) = Absent
        BY <3>1, <3>3, <1>0, Entries DEF CleanAt
      <4> QED BY <4>1, <4>2
    <3>4. CASE staging[p] \in Contents
      <4>1. live[p] = staging[p]
        BY <3>1, <3>4, <1>0, Entries DEF CleanAt
      <4> QED BY <4>1, <3>4, <1>0, <2>1, StagingIsWanted, Entries
    <3> QED BY <3>2, <3>3, <3>4, <1>0, <2>1, StagingIsWanted
  <2> QED BY <2>2 DEF OldOrNew, DeletesLast
<1>5. QED
  BY <1>0, <1>1, <1>2, <1>3, <1>4 DEF TypeOK

\* The profile of a state decides what is wanted, with the tree it began with.
LEMMA SamePlan ==
  ASSUME profile' = profile, base' = base
  PROVE  /\ plan' = plan
         /\ \A p \in Paths : Want(p)' = Want(p)
         /\ KindChange(plan, base)' = KindChange(plan, base)
BY DEF plan, Want

\* Every outcome that ExecutePlan or buildSyncPlan returns has a name.
LEMMA ErrorNames ==
  /\ \A pl : PlanError(pl) \in Outcomes \ {"kind"}
  /\ \A pl, m, t : StageError(pl, m, t) \in Outcomes \ {"kind"}
<1>1. \A m : BuildError(m) \in Outcomes \ {"kind"}
  BY DEF BuildError, Outcomes
<1>2. \A pl, m, t : StageError(pl, m, t) \in Outcomes \ {"kind"}
  BY DEF StageError, Outcomes
<1>3. \A pl : PlanError(pl) \in Outcomes \ {"kind"}
  BY <1>1 DEF PlanError, Outcomes
<1>4. QED
  BY <1>2, <1>3

\* A sync that ends leaves the live directory as it was.
LEMMA EndsInv ==
  ASSUME EngineInv, NEW o \in Outcomes, Ends(o), temps' \subseteq Paths,
         \A t \in temps' : \A d \in Above[t] : live[d] = Dir,
         UNCHANGED <<live, base, profile>>, WellFormed(staging)',
         o = "kind" => KindChange(plan, base)
  PROVE  EngineInv'
<1>0. TypeOK /\ OldOrNew /\ DeletesLast
  BY Always DEF EngineInv
<1>1. TypeOK'
  <2>1. 1 \in 1..(Len(plan.maps) + 1)
    BY <1>0, PlanType
  <2> QED BY <1>0, <2>1, SamePlan DEF TypeOK, Ends, NoReport, WellFormed
<1>2. OldOrNew' /\ DeletesLast'
  BY <1>0, SamePlan DEF OldOrNew, DeletesLast
<1>3. FailsOnlyOnKindChange'
  BY SamePlan DEF FailsOnlyOnKindChange, Ends
<1>4. QED
  BY <1>1, <1>2, <1>3 DEF EngineInv, Ends, ResultExact, LitterCollected

\* A sync begins with an empty staging directory, or is refused.
LEMMA StartInv ==
  ASSUME EngineInv, NEW n \in DOMAIN Profiles, Start(n)
  PROVE  EngineInv'
<1>0. TypeOK
  BY DEF EngineInv
<1>1. profile' = n /\ base' = live /\ live' = live /\ temps' = temps
  BY DEF Start
<1>2. plan' = Profiles[n] /\ Len(plan'.maps) \in Nat
  BY <1>1, DataAssumption DEF plan
<1>3. OldOrNew' /\ DeletesLast'
  BY <1>1 DEF OldOrNew, DeletesLast
<1>4. CASE PlanError(Profiles[n]) # "none"
  <2>1. Ends(PlanError(Profiles[n])) /\ staging' = staging
    BY <1>4 DEF Start
  <2>2. TypeOK'
    BY <1>0, <1>1, <1>2, <2>1, ErrorNames
       DEF TypeOK, Ends, NoReport, WellFormed
  <2>3. FailsOnlyOnKindChange'
    BY <2>1, ErrorNames DEF FailsOnlyOnKindChange, Ends
  <2> QED BY <1>3, <2>1, <2>2, <2>3
          DEF EngineInv, Ends, ResultExact, LitterCollected
<1>5. CASE PlanError(Profiles[n]) = "none"
  <2>1. /\ staging' = Empty /\ pc' = "stage" /\ why' = "none" /\ at' = 1
        /\ UNCHANGED <<todo, cur, report>>
    BY <1>5 DEF Start
  <2>2. WellFormed(Empty)
    BY DEF WellFormed, Empty, Entry
  <2>3. TypeOK'
    BY <1>0, <1>1, <1>2, <2>1, <2>2 DEF TypeOK, WellFormed, Outcomes
  <2>4. StagingIs(at - 1)'
    <3>1. at' - 1 = 0 /\ \A S : S \cap (1..0) = {}
      BY <2>1
    <3>2. \A p \in Paths : staging'[p] = Absent
      BY <2>1 DEF Empty
    <3> QED BY <3>1, <3>2, DataAssumption DEF StagingIs
  <2> QED BY <1>1, <2>1, <2>3, <2>4
          DEF EngineInv, ResultExact, LitterCollected, FailsOnlyOnKindChange
<1>6. QED
  BY <1>4, <1>5

\* One more mapping is staged, or the sync ends with live untouched.
LEMMA StageMappingInv ==
  ASSUME EngineInv, StageMapping
  PROVE  EngineInv'
<1> DEFINE m == plan.maps[at]
<1>0. /\ TypeOK /\ live = base /\ StagingIs(at - 1) /\ pc = "stage"
      /\ at \in DOMAIN plan.maps /\ at \in Nat /\ at <= Len(plan.maps)
      /\ profile \in DOMAIN Profiles /\ plan = Profiles[profile]
      /\ UNCHANGED <<live, temps, profile, base>>
  BY PlanType DEF EngineInv, StageMapping, TypeOK, plan
<1>1. CASE StageError(plan, m, staging) # "none"
  <2>1. Ends(StageError(plan, m, staging)) /\ staging' = staging
    BY <1>1 DEF StageMapping
  <2> QED BY <1>0, <2>1, ErrorNames, EndsInv DEF TypeOK, WellFormed
<1>2. CASE StageError(plan, m, staging) = "none"
  <2>1. /\ staging' = Overlay(plan, m, staging) /\ at' = at + 1
        /\ UNCHANGED <<pc, todo, cur, report, why>>
    BY <1>2 DEF StageMapping
  <2>2. WellFormed(staging')
    BY <1>0, <1>2, <2>1, OverlayTree DEF TypeOK
  <2>3. TypeOK'
    BY <1>0, <2>1, <2>2, SamePlan, PlanType DEF TypeOK, WellFormed
  <2>4. StagingIs(at - 1)'
    BY <1>0, <1>2, <2>1, StagingExtends
  <2> QED BY <1>0, <2>1, <2>3, <2>4, SamePlan
          DEF EngineInv, ResultExact, LitterCollected, FailsOnlyOnKindChange
<1>3. QED
  BY <1>1, <1>2

\* Staging is complete: the dry run leaves live alone, the merge has all to do.
LEMMA StagingDoneInv ==
  ASSUME EngineInv, StagingDone
  PROVE  EngineInv'
<1>0. /\ TypeOK /\ live = base /\ StagingIs(at - 1) /\ pc = "stage"
      /\ at - 1 = Len(plan.maps)
      /\ UNCHANGED <<live, temps, staging, profile, at, cur, why, base>>
  BY PlanType DEF EngineInv, StagingDone, TypeOK
<1>2. FailsOnlyOnKindChange'
  BY <1>0, SamePlan DEF FailsOnlyOnKindChange, EngineInv
<1>3. CASE plan.dry
  <2>1. /\ pc' = "finish" /\ todo' = todo
        /\ report' = DryRunDiff(plan, live, temps, staging)
    BY <1>3 DEF StagingDone
  <2>2. TypeOK'
    <3>1. report' \in [added : SUBSET Paths, modified : SUBSET Paths,
                      deleted : SUBSET Paths, litter : SUBSET Paths]
      BY <1>0, <2>1 DEF DryRunDiff, Orphans, Litter, TypeOK
    <3> QED BY <1>0, <2>1, <3>1, SamePlan DEF TypeOK, WellFormed
  <2>3. OldOrNew' /\ DeletesLast'
    BY <1>0 DEF OldOrNew, DeletesLast
  <2>4. ResultExact' /\ LitterCollected'
    BY <1>0, <1>3, SamePlan DEF ResultExact, LitterCollected, Want
  <2> QED BY <1>2, <2>1, <2>2, <2>3, <2>4 DEF EngineInv
<1>4. CASE ~plan.dry
  <2>1. /\ pc' = "merge" /\ report' = report
        /\ todo' = {p \in Paths : staging[p] # Absent}
    BY <1>4 DEF StagingDone
  <2>2. TypeOK'
    BY <1>0, <2>1, SamePlan DEF TypeOK, WellFormed
  <2>3. StagingIs(Len(plan.maps))'
    BY <1>0, SamePlan DEF StagingIs
  <2>4. \A p \in Paths : MergeAt(p)'
    BY <1>0, <2>1 DEF MergeAt
  <2> QED BY <1>0, <1>2, <1>4, <2>1, <2>2, <2>3, <2>4, SamePlan
          DEF EngineInv, ResultExact, LitterCollected
<1>5. QED
  BY <1>3, <1>4

\* An entry the merge has yet to visit: staged by some mapping.
LEMMA StagedByMapping ==
  ASSUME TypeOK, StagingIs(Len(plan.maps)), NEW p \in Paths,
         \/ staging[p] = Dir /\ Leaf(base[p]) # Absent
         \/ staging[p] \in Contents /\ base[p] = Dir
  PROVE  KindChange(plan, base)
<1>0. profile \in DOMAIN Profiles /\ plan = Profiles[profile]
  BY DEF TypeOK, plan
<1>1. CASE staging[p] = Dir /\ Leaf(base[p]) # Absent
  <2>1. PICK i \in DOMAIN plan.maps : Staged(plan, plan.maps[i], p) = Dir
    BY <1>1 DEF StagingIs
  <2> DEFINE m == plan.maps[i]
  <2>2. m \in Mapping
    BY PlanType
  <2>3. CASE p \in ProvidedFiles(plan, m)
    <3>1. Dir \in Contents \cup {Bad}
      BY <1>0, <2>1, <2>2, <2>3, StagedCases, TransformType, ProvidesPaths
    <3>2. Dir = Bad
      BY <3>1, DataAssumption
    <3> QED BY <3>2, DataAssumption
  <2>4. CASE p \in Provides(plan, m) /\ p \notin ProvidedFiles(plan, m)
    <3>1. m.tree[p] \in Entry /\ m.tree[p] \notin Contents
      BY <2>2, <2>4 DEF Mapping, ProvidedFiles
    <3>2. m.tree[p] # Absent /\ m.tree[p] # Link
      <4>1. CASE TypeOf(m) = "file"
        <5>1. p = m.dest /\ m.src \in {"file", "linkfile"}
          BY <2>4, <4>1 DEF Provides, TypeOf
        <5> QED BY <5>1, <3>1, <1>0, DataAssumption
      <4>2. CASE TypeOf(m) # "file"
        BY <2>4, <4>2 DEF Provides
      <4> QED BY <4>1, <4>2
    <3>3. m.tree[p] = Dir
      BY <3>1, <3>2 DEF Entry
    <3> QED BY <1>1, <2>4, <3>3 DEF KindChange
  <2>5. CASE p \notin Provides(plan, m)
    <3>1. PICK q \in Provides(plan, m) : p \in Above[q]
      BY <1>0, <2>1, <2>5, StagedCases DEF ProvidedFiles
    <3> QED BY <1>1, <3>1 DEF KindChange
  <2>6. QED
    BY <2>3, <2>4, <2>5
<1>2. CASE staging[p] \in Contents /\ base[p] = Dir
  <2>1. PICK i \in DOMAIN plan.maps : p \in ProvidedFiles(plan, plan.maps[i])
    BY <1>2, StagingSupplied DEF Suppliers
  <2>2. p \in Provides(plan, plan.maps[i]) /\ plan.maps[i].tree[p] \in Contents
    BY <2>1, PlanType, ProvidesPaths
  <2> QED BY <1>2, <2>2, DataAssumption DEF KindChange
<1>3. QED
  BY <1>1, <1>2

\* A directory below which the merge is at work has been merged.
LEMMA ParentsMerged ==
  ASSUME EngineInv, pc \in {"merge", "copy"}, NEW p \in todo,
         Above[p] \cap todo = {}
  PROVE  \A d \in Above[p] : live[d] = Dir
<1>0. TypeOK /\ p \in Paths
  BY DEF EngineInv, TypeOK
<1> TAKE d \in Above[p]
<1>1. d \in Paths /\ d \notin todo
  BY <1>0, TreeAssumption
<1>2. MergeAt(p) /\ MergeAt(d)
  BY <1>0, <1>1 DEF EngineInv
<1>3. staging[p] # Absent
  BY <1>2 DEF MergeAt
<1>4. staging[d] = Dir
  BY <1>0, <1>3 DEF TypeOK, WellFormed
<1>5. QED
  BY <1>1, <1>2, <1>4, DataAssumption DEF MergeAt

\* The walk meets a directory before what is in it.
LEMMA VisitsParentsFirst ==
  ASSUME TypeOK, NEW p \in Paths, Visits(p)
  PROVE  p \in todo /\ pc = "merge" /\ Above[p] \cap todo = {}
<1>1. \A q \in todo : Rank[p] <= Rank[q]
  BY DEF Visits
<1>2. \A q \in Above[p] : q \in Paths /\ Rank[q] < Rank[p]
  BY TreeAssumption
<1>3. \A q \in Paths : Rank[q] \in Nat
  BY TreeAssumption
<1>4. ASSUME NEW q \in Above[p] \cap todo PROVE FALSE
  BY <1>1, <1>2, <1>3
<1>5. QED
  BY <1>4 DEF Visits

\* The merge makes a directory where there is none or one already.
LEMMA MergeDirectoryInv ==
  ASSUME EngineInv, NEW p \in Paths, MergeDirectory(p)
  PROVE  EngineInv'
<1>0. /\ TypeOK /\ pc = "merge" /\ p \in todo /\ staging[p] = Dir
      /\ Above[p] \cap todo = {}
      /\ ~plan.dry /\ StagingIs(Len(plan.maps))
      /\ \A q \in Paths : MergeAt(q)
      /\ UNCHANGED <<temps, staging, profile, base>>
  BY VisitsParentsFirst DEF EngineInv, MergeDirectory
<1>1. live[p] = base[p]
  BY <1>0 DEF MergeAt
<1>2. CASE live[p] \in {Absent, Dir}
  <2>1. /\ live' = [live EXCEPT ![p] = Dir] /\ todo' = todo \ {p}
        /\ UNCHANGED <<pc, at, cur, report, why>>
    BY <1>2 DEF MergeDirectory
  <2>2. WellFormed(live')
    <3>1. live' \in [Paths -> Entry] /\ live \in [Paths -> Entry]
      BY <1>0, <2>1 DEF TypeOK, WellFormed, Entry
    <3>2. ASSUME NEW q \in Paths, live'[q] # Absent, NEW d \in Above[q]
          PROVE  live'[d] = Dir
      <4>1. d \in Paths
        BY TreeAssumption
      <4>2. live[d] = Dir
        <5>1. CASE q = p
          BY <5>1, <1>0, ParentsMerged
        <5>2. CASE q # p
          BY <5>2, <3>1, <3>2, <2>1, <1>0 DEF TypeOK, WellFormed
        <5> QED BY <5>1, <5>2
      <4> QED BY <4>1, <4>2, <3>1, <2>1
    <3> QED BY <3>1, <3>2 DEF WellFormed
  <2>3. TypeOK'
    <3>1. \A q \in Paths : live[q] = Dir => live'[q] = Dir
      BY <1>0, <2>1 DEF TypeOK, WellFormed
    <3>2. \A t \in temps : \A d \in Above[t] : live'[d] = Dir
      BY <1>0, <3>1, TreeAssumption DEF TypeOK
    <3> QED BY <1>0, <2>1, <2>2, <3>2, SamePlan DEF TypeOK, WellFormed
  <2>4. StagingIs(Len(plan.maps))'
    BY <1>0, SamePlan DEF StagingIs
  <2>5. ASSUME NEW q \in Paths PROVE MergeAt(q)'
    <3>0. live \in [Paths -> Entry]
      BY <1>0 DEF TypeOK, WellFormed
    <3>1. CASE q = p
      BY <3>0, <3>1, <1>0, <1>1, <1>2, <2>1, Entries DEF MergeAt
    <3>2. CASE q # p
      <4>1. MergeAt(q)
        BY <1>0
      <4> QED BY <3>0, <3>2, <4>1, <1>0, <2>1 DEF MergeAt
    <3> QED BY <3>1, <3>2
  <2> QED BY <1>0, <2>1, <2>3, <2>4, <2>5, SamePlan
          DEF EngineInv, ResultExact, LitterCollected, FailsOnlyOnKindChange
<1>3. CASE live[p] \notin {Absent, Dir}
  <2>1. Ends("kind") /\ live' = live
    BY <1>3 DEF MergeDirectory
  <2>2. KindChange(plan, base)
    <3>1. Leaf(base[p]) # Absent
      BY <1>1, <1>3 DEF Leaf
    <3> QED BY <3>1, <1>0, StagedByMapping
  <2> QED BY <1>0, <2>1, <2>2, EndsInv DEF TypeOK, WellFormed, Outcomes
<1>4. QED
  BY <1>2, <1>3

\* A temporary file is written beside the target.
LEMMA CopyToTempInv ==
  ASSUME EngineInv, NEW p \in Paths, CopyToTemp(p)
  PROVE  EngineInv'
<1>0. /\ TypeOK /\ pc = "merge" /\ p \in todo /\ staging[p] # Dir
      /\ Above[p] \cap todo = {}
      /\ ~plan.dry /\ StagingIs(Len(plan.maps))
      /\ \A q \in Paths : MergeAt(q)
      /\ UNCHANGED <<live, staging, profile, at, report, why, base>>
  BY VisitsParentsFirst DEF EngineInv, CopyToTemp
<1>1. staging[p] \in Contents
  BY <1>0, StagingIsWanted DEF MergeAt
<1>2. StagingIs(Len(plan.maps))'
  BY <1>0, SamePlan DEF StagingIs
<1>3. FailsOnlyOnKindChange'
  BY <1>0, SamePlan DEF FailsOnlyOnKindChange, EngineInv
<1>4. CASE live[p] = staging[p]
  <2>1. todo' = todo \ {p} /\ UNCHANGED <<temps, pc, cur>>
    BY <1>4 DEF CopyToTemp
  <2>2. TypeOK'
    BY <1>0, <2>1, SamePlan DEF TypeOK, WellFormed
  <2>3. \A q \in Paths : MergeAt(q)'
    BY <1>0, <1>1, <1>4, <2>1, DataAssumption DEF MergeAt
  <2> QED BY <1>0, <1>2, <1>3, <2>1, <2>2, <2>3, SamePlan
          DEF EngineInv, ResultExact, LitterCollected
<1>5. CASE live[p] # staging[p]
  <2>1. temps' = temps /\ cur' = p /\ pc' = "copy" /\ todo' = todo
    BY <1>5 DEF CopyToTemp
  <2>2. TypeOK'
    BY <1>0, <2>1, SamePlan DEF TypeOK, WellFormed
  <2>3. \A q \in Paths : MergeAt(q)'
    BY <1>0, <2>1 DEF MergeAt
  <2> QED BY <1>0, <1>1, <1>2, <1>3, <2>1, <2>2, <2>3, SamePlan
          DEF EngineInv, ResultExact, LitterCollected
<1>6. QED
  BY <1>4, <1>5

\* The rename puts the whole new content in place of the old.
LEMMA RenameInv ==
  ASSUME EngineInv, Rename
  PROVE  EngineInv'
<1>0. /\ TypeOK /\ pc = "copy" /\ cur \in todo /\ cur \in Paths
      /\ staging[cur] \in Contents /\ Above[cur] \cap todo = {}
      /\ ~plan.dry /\ StagingIs(Len(plan.maps))
      /\ \A q \in Paths : MergeAt(q)
      /\ UNCHANGED <<staging, profile, base>>
      /\ temps' = temps
  BY DEF EngineInv, Rename, TypeOK
<1>1. live[cur] = base[cur]
  BY <1>0 DEF MergeAt
<1>2. CASE live[cur] # Dir
  <2>1. /\ live' = [live EXCEPT ![cur] = staging[cur]]
        /\ todo' = todo \ {cur} /\ pc' = "merge" /\ cur' = Absent
        /\ UNCHANGED <<at, why>>
        /\ report' = IF live[cur] = Absent
                     THEN [report EXCEPT !.added = @ \cup {cur}]
                     ELSE [report EXCEPT !.modified = @ \cup {cur}]
    BY <1>2 DEF Rename
  <2>2. WellFormed(live')
    <3>1. live' \in [Paths -> Entry] /\ live \in [Paths -> Entry]
      BY <1>0, <2>1 DEF TypeOK, WellFormed, Entry
    <3>2. ASSUME NEW q \in Paths, live'[q] # Absent, NEW d \in Above[q]
          PROVE  live'[d] = Dir
      <4>1. d \in Paths
        BY TreeAssumption
      <4>2. live[d] = Dir
        <5>1. CASE q = cur
          BY <5>1, <1>0, ParentsMerged
        <5>2. CASE q # cur
          BY <5>2, <3>1, <3>2, <2>1, <1>0 DEF TypeOK, WellFormed
        <5> QED BY <5>1, <5>2
      <4>3. d # cur
        BY <4>2, <1>2
      <4> QED BY <4>1, <4>2, <4>3, <3>1, <2>1
    <3> QED BY <3>1, <3>2 DEF WellFormed
  <2>3. report' \in [added : SUBSET Paths, modified : SUBSET Paths,
                    deleted : SUBSET Paths, litter : SUBSET Paths]
    BY <1>0, <2>1 DEF TypeOK
  <2>4. TypeOK'
    <3>1. \A q \in Paths : live[q] = Dir => live'[q] = Dir
      BY <1>0, <1>2, <2>1 DEF TypeOK, WellFormed
    <3>2. \A t \in temps : \A d \in Above[t] : live'[d] = Dir
      BY <1>0, <3>1, TreeAssumption DEF TypeOK
    <3> QED BY <1>0, <2>1, <2>2, <2>3, <3>2, SamePlan DEF TypeOK, WellFormed
  <2>5. StagingIs(Len(plan.maps))'
    BY <1>0, SamePlan DEF StagingIs
  <2>6. ASSUME NEW q \in Paths PROVE MergeAt(q)'
    <3>0. live \in [Paths -> Entry]
      BY <1>0 DEF TypeOK, WellFormed
    <3>1. CASE q = cur
      BY <3>0, <3>1, <1>0, <2>1, DataAssumption DEF MergeAt
    <3>2. CASE q # cur
      <4>1. MergeAt(q)
        BY <1>0
      <4> QED BY <3>0, <3>2, <4>1, <1>0, <2>1 DEF MergeAt
    <3> QED BY <3>1, <3>2
  <2> QED BY <1>0, <2>1, <2>4, <2>5, <2>6, SamePlan
          DEF EngineInv, ResultExact, LitterCollected, FailsOnlyOnKindChange
<1>3. CASE live[cur] = Dir
  <2>1. Ends("kind") /\ live' = live
    BY <1>3 DEF Rename
  <2>2. KindChange(plan, base)
    BY <1>0, <1>1, <1>3, StagedByMapping
  <2> QED BY <1>0, <2>1, <2>2, EndsInv DEF TypeOK, WellFormed, Outcomes
<1>4. QED
  BY <1>2, <1>3

\* Once the merge has visited everything, only orphans are left to remove.
LEMMA MergeDoneInv ==
  ASSUME EngineInv, MergeDone
  PROVE  EngineInv'
<1>0. /\ TypeOK /\ pc = "merge" /\ todo = {} /\ pc' = "clean"
      /\ ~plan.dry /\ StagingIs(Len(plan.maps))
      /\ \A q \in Paths : MergeAt(q)
      /\ UNCHANGED <<live, temps, staging, profile, at, todo, cur, report,
                     why, base>>
  BY DEF EngineInv, MergeDone
<1>1. TypeOK'
  BY <1>0, SamePlan DEF TypeOK, WellFormed
<1>2. StagingIs(Len(plan.maps))'
  BY <1>0, SamePlan DEF StagingIs
<1>3. ASSUME NEW p \in Paths PROVE CleanAt(p)'
  <2>1. MergeAt(p) /\ plan' = plan
    BY <1>0, SamePlan
  <2>2. CASE staging[p] = Absent
    BY <1>0, <2>1, <2>2, Entries DEF MergeAt, CleanAt
  <2>3. CASE staging[p] = Dir
    BY <1>0, <2>1, <2>3, Entries DEF MergeAt, CleanAt
  <2>4. CASE staging[p] \in Contents
    BY <1>0, <2>1, <2>4, Entries DEF MergeAt, CleanAt
  <2> QED BY <1>0, <2>2, <2>3, <2>4, StagingIsWanted
<1>4. QED
  BY <1>0, <1>1, <1>2, <1>3, SamePlan
     DEF EngineInv, ResultExact, LitterCollected, FailsOnlyOnKindChange

\* Whatever is below a managed root is under it.
LEMMA UnderIsClosed ==
  ASSUME NEW pl, NEW q \in Paths, NEW d \in Above[q], UnderManagedRoot(pl, d)
  PROVE  UnderManagedRoot(pl, q)
BY TreeAssumption DEF UnderManagedRoot

\* Removing the directories left empty above a path that is absent leaves a
\* tree, and touches only directories.
LEMMA PruneTree ==
  ASSUME NEW pl, NEW l, NEW ts, ts \subseteq Paths, NEW p \in Paths,
         l \in [Paths -> Entry], l[p] = Absent,
         \A q \in Paths : l[q] # Absent => \A d \in Above[q] : l[d] = Dir,
         \A d \in Above[p] : l[d] = Dir
  PROVE  /\ WellFormed(Prune(pl, l, ts, p))
         /\ \A q \in Paths : Prune(pl, l, ts, p)[q] = l[q]
              \/ (l[q] = Dir /\ Prune(pl, l, ts, p)[q] = Absent)
<1> DEFINE E == EmptyParents(pl, l, ts, p)
           new == Prune(pl, l, ts, p)
<1>1. \A q \in Paths : new[q] = IF q \in E THEN Absent ELSE l[q]
  BY DEF Prune
<1>2. E \subseteq Above[p]
  BY DEF EmptyParents
<1>3. new \in [Paths -> Entry]
  BY DEF Prune, Entry
<1>4. ASSUME NEW q \in Paths, new[q] # Absent, NEW d \in Above[q]
      PROVE  new[d] = Dir
  <2>0. d \in Paths /\ q \notin E /\ l[q] # Absent
    BY <1>1, <1>4, TreeAssumption
  <2>1. l[d] = Dir
    BY <2>0
  <2>2. ASSUME d \in E PROVE FALSE
    <3>1. /\ UnderManagedRoot(pl, d)
          /\ \A x \in Below(d) : l[x] = Absent \/ x \in Above[p]
          /\ \A t \in ts : d \notin Above[t]
      BY <2>2 DEF EmptyParents
    <3>2. q \in Above[p]
      BY <2>0, <3>1 DEF Below
    <3>3. UnderManagedRoot(pl, q)
      BY <3>1, UnderIsClosed
    <3>4. \A x \in Below(q) : x \in Below(d)
      BY TreeAssumption DEF Below
    <3>5. \A t \in ts : q \notin Above[t]
      BY <3>1, TreeAssumption
    <3>6. q \in E
      BY <3>1, <3>2, <3>3, <3>4, <3>5 DEF EmptyParents
    <3> QED BY <3>6, <2>0
  <2> QED BY <1>1, <2>0, <2>1, <2>2
<1>5. WellFormed(new)
  BY <1>3, <1>4 DEF WellFormed
<1>6. QED
  BY <1>1, <1>2, <1>5, TreeAssumption

\* A directory with a temporary file in it is not empty.
LEMMA PruneKeepsTemps ==
  ASSUME NEW pl, NEW l, NEW ts, ts \subseteq Paths, NEW p \in Paths,
         NEW t \in ts, NEW d \in Above[t], l[d] = Dir
  PROVE  Prune(pl, l, ts, p)[d] = Dir
<1>1. d \notin EmptyParents(pl, l, ts, p) /\ d \in Paths
  BY TreeAssumption DEF EmptyParents
<1>2. QED
  BY <1>1 DEF Prune

\* Pruning directories does not disturb what the removal of orphans knows.
LEMMA CleanAfterPrune ==
  ASSUME TypeOK, NEW l, NEW q \in Paths, CleanAt(q),
         l[q] = live[q] \/ (live[q] = Dir /\ l[q] = Absent),
         live'[q] = l[q], UNCHANGED <<staging, profile, base>>
  PROVE  CleanAt(q)'
<1>0. plan' = plan
  BY SamePlan
<1>1. CASE staging[q] = Absent
  BY <1>0, <1>1, Entries DEF CleanAt
<1>2. CASE staging[q] = Dir
  BY <1>0, <1>2, Entries DEF CleanAt
<1>3. CASE staging[q] \notin {Absent, Dir}
  <2>1. live[q] = staging[q]
    BY <1>3 DEF CleanAt
  <2> QED BY <1>0, <1>3, <2>1, Entries DEF CleanAt
<1>4. QED
  BY <1>1, <1>2, <1>3

\* An orphan goes, with the directories it leaves empty.
LEMMA RemoveOrphanInv ==
  ASSUME EngineInv, NEW p \in Paths, RemoveOrphan(p)
  PROVE  EngineInv'
<1> DEFINE gone == [live EXCEPT ![p] = Absent]
<1>0. /\ TypeOK /\ pc = "clean" /\ pc' = "clean"
      /\ ~plan.dry /\ StagingIs(Len(plan.maps))
      /\ \A q \in Paths : CleanAt(q)
      /\ live \in [Paths -> Entry] /\ WellFormed(live)
      /\ live' = Prune(plan, gone, temps, p)
      /\ report' = [report EXCEPT !.deleted = @ \cup {p}]
      /\ UNCHANGED <<temps, staging, profile, at, todo, cur, why, base>>
  BY DEF EngineInv, RemoveOrphan, TypeOK, WellFormed
<1>1. /\ live[p] \in Contents /\ staging[p] = Absent /\ ~Filtered(plan, p)
      /\ \A d \in Above[p] : ~Filtered(plan, d)
      /\ UnderManagedRoot(plan, p)
  BY DEF RemoveOrphan, Orphans, NotExist, Enters
<1>2. Owned(plan, p)
  BY <1>1 DEF Owned, UnderManagedRoot
<1>3. base[p] \in Contents
  <2>1. Leaf(live[p]) = Leaf(base[p]) \/ live[p] = Absent
    BY <1>0, <1>1, Entries DEF CleanAt
  <2> QED BY <2>1, <1>0, <1>1, Entries, DataAssumption DEF Leaf
<1>4. /\ gone \in [Paths -> Entry] /\ gone[p] = Absent
      /\ \A q \in Paths : q # p => gone[q] = live[q]
      /\ \A d \in Above[p] : d # p /\ gone[d] = Dir
      /\ \A q \in Paths : gone[q] # Absent => \A d \in Above[q] : gone[d] = Dir
  <2>1. gone \in [Paths -> Entry] /\ gone[p] = Absent
    BY <1>0 DEF Entry
  <2>2. \A q \in Paths : q # p => gone[q] = live[q]
    BY <1>0
  <2>3. \A d \in Above[p] : d # p /\ d \in Paths /\ live[d] = Dir
    BY <1>0, <1>1, TreeAssumption, DataAssumption DEF WellFormed
  <2>4. ASSUME NEW q \in Paths, gone[q] # Absent, NEW d \in Above[q]
        PROVE  gone[d] = Dir
    <3>1. q # p /\ live[q] # Absent /\ d \in Paths
      BY <2>1, <2>2, <2>4, TreeAssumption
    <3>2. live[d] = Dir
      BY <3>1, <1>0 DEF WellFormed
    <3>3. d # p
      BY <3>2, <1>1, DataAssumption
    <3> QED BY <3>1, <3>2, <3>3, <2>2
  <2> HIDE DEF gone
  <2> QED BY <2>1, <2>2, <2>3, <2>4
<1> HIDE DEF gone
<1>5. /\ WellFormed(live')
      /\ \A q \in Paths : live'[q] = gone[q]
           \/ (gone[q] = Dir /\ live'[q] = Absent)
      /\ \A t \in temps : \A d \in Above[t] : live'[d] = Dir
  <2>1. temps \subseteq Paths
    BY <1>0 DEF TypeOK
  <2>2. ASSUME NEW t \in temps, NEW d \in Above[t] PROVE gone[d] = Dir
    <3>1. live[d] = Dir /\ d \in Paths
      BY <1>0, <2>1, TreeAssumption DEF TypeOK
    <3> QED BY <3>1, <1>1, <1>4, DataAssumption
  <2>3. \A t \in temps : \A d \in Above[t] : live'[d] = Dir
    BY <1>0, <2>1, <2>2, PruneKeepsTemps
  <2>4. /\ WellFormed(live')
        /\ \A q \in Paths : live'[q] = gone[q]
             \/ (gone[q] = Dir /\ live'[q] = Absent)
    BY <1>0, <1>4, <2>1, PruneTree
  <2> QED BY <2>3, <2>4
<1>6. TypeOK'
  BY <1>0, <1>5, SamePlan DEF TypeOK, WellFormed
<1>7. StagingIs(Len(plan.maps))'
  BY <1>0, SamePlan DEF StagingIs
<1>8. ASSUME NEW q \in Paths PROVE CleanAt(q)'
  <2>1. CASE q = p
    <3>1. live'[p] = Absent
      BY <1>4, <1>5
    <3> QED BY <2>1, <3>1, <1>0, <1>1, <1>2, <1>3, SamePlan, Entries DEF CleanAt
  <2>2. CASE q # p
    BY <2>2, <1>0, <1>4, <1>5, CleanAfterPrune
  <2> QED BY <2>1, <2>2
<1>9. QED
  BY <1>0, <1>6, <1>7, <1>8, SamePlan
     DEF EngineInv, ResultExact, LitterCollected, FailsOnlyOnKindChange

\* A left-over temporary file goes.
LEMMA RemoveLitterInv ==
  ASSUME EngineInv, NEW p \in Paths, RemoveLitter(p)
  PROVE  EngineInv'
<1>0. /\ TypeOK /\ pc = "clean" /\ pc' = "clean"
      /\ ~plan.dry /\ StagingIs(Len(plan.maps))
      /\ \A q \in Paths : CleanAt(q)
      /\ live \in [Paths -> Entry] /\ WellFormed(live)
      /\ temps' = temps \ {p} /\ temps' \subseteq Paths
      /\ report' = [report EXCEPT !.litter = @ \cup {p}]
      /\ UNCHANGED <<staging, profile, at, todo, cur, why, base>>
  BY DEF EngineInv, RemoveLitter, TypeOK, WellFormed
<1>1. /\ WellFormed(live')
      /\ \A q \in Paths : live'[q] = live[q]
           \/ (live[q] = Dir /\ live'[q] = Absent)
      /\ \A t \in temps' : \A d \in Above[t] : live'[d] = Dir
  <2>0. /\ \A d \in Above[p] : live[d] = Dir
        /\ \A t \in temps' : \A d \in Above[t] : live[d] = Dir
    BY <1>0 DEF RemoveLitter, Litter, TypeOK
  <2>1. CASE live[p] # Absent
    BY <1>0, <2>0, <2>1 DEF RemoveLitter
  <2>2. CASE live[p] = Absent
    <3>1. live' = Prune(plan, live, temps', p)
      BY <2>2 DEF RemoveLitter
    <3>2. \A q \in Paths : live[q] # Absent => \A d \in Above[q] : live[d] = Dir
      BY <1>0 DEF WellFormed
    <3>3. ASSUME NEW t \in temps \ {p}, NEW d \in Above[t]
          PROVE  live'[d] = Dir
      <4>1. live' = Prune(plan, live, temps \ {p}, p) /\ live[d] = Dir
        BY <1>0, <2>0, <3>1
      <4>2. temps \ {p} \subseteq Paths
        BY <1>0
      <4> QED BY <4>1, <4>2, PruneKeepsTemps
    <3>4. /\ WellFormed(live')
          /\ \A q \in Paths : live'[q] = live[q]
               \/ (live[q] = Dir /\ live'[q] = Absent)
      BY <1>0, <2>0, <2>2, <3>1, <3>2, PruneTree
    <3> QED BY <1>0, <3>3, <3>4
  <2> QED BY <2>1, <2>2
<1>6. TypeOK'
  BY <1>0, <1>1, SamePlan DEF TypeOK, WellFormed
<1>7. StagingIs(Len(plan.maps))'
  BY <1>0, SamePlan DEF StagingIs
<1>8. \A q \in Paths : CleanAt(q)'
  BY <1>0, <1>1, CleanAfterPrune
<1>9. QED
  BY <1>0, <1>6, <1>7, <1>8, SamePlan
     DEF EngineInv, ResultExact, LitterCollected, FailsOnlyOnKindChange

\* Where a plan owns a path, the walk of cleanOrphans gets to it.
LEMMA WalkReaches ==
  ASSUME NEW n \in DOMAIN Profiles, NEW p \in Paths,
         NEW i \in DOMAIN Profiles[n].maps, ~Profiles[n].maps[i].slash,
         Profiles[n].maps[i].dest \in {p} \cup Above[p],
         NEW d \in Above[p], ~Filtered(Profiles[n], d)
  PROVE  Enters(Profiles[n], d)
<1> DEFINE m == Profiles[n].maps[i]
<1>a. m \in Mapping
  BY DataAssumption DEF Plan
<1>0. m.dest \in Paths
  BY <1>a DEF Mapping
<1>1. d = m.dest \/ d \in Above[m.dest] \/ m.dest \in Above[d]
  BY <1>0, TreeAssumption
<1>2. UnderManagedRoot(Profiles[n], d) \/ AncestorOfManagedRoot(Profiles[n], d)
  BY <1>1 DEF UnderManagedRoot, AncestorOfManagedRoot
<1>3. QED
  BY <1>2 DEF Enters

\* With no orphan left, the live directory is what the profile asks for.
LEMMA CleanDoneInv ==
  ASSUME EngineInv, CleanDone
  PROVE  EngineInv'
<1>0. /\ TypeOK /\ pc = "clean" /\ pc' = "finish"
      /\ ~plan.dry /\ StagingIs(Len(plan.maps))
      /\ \A q \in Paths : CleanAt(q)
      /\ Orphans(plan, live, staging) = {} /\ Litter(plan, temps) = {}
      /\ profile \in DOMAIN Profiles /\ plan = Profiles[profile]
      /\ UNCHANGED <<live, temps, staging, profile, at, todo, cur, report,
                     why, base>>
  BY DEF EngineInv, CleanDone, TypeOK, plan
<1>1. TypeOK'
  BY <1>0, SamePlan DEF TypeOK, WellFormed
<1>2. OldOrNew' /\ DeletesLast'
  <2>1. OldOrNew /\ DeletesLast
    BY Always
  <2> QED BY <1>0, <2>1, SamePlan DEF OldOrNew, DeletesLast
<1>3. ASSUME NEW p \in Paths PROVE Leaf(live[p]) = Want(p)
  <2>1. CleanAt(p)
    BY <1>0
  <2>2. CASE staging[p] \in Contents
    BY <2>1, <2>2, <1>0, StagingIsWanted, Entries DEF CleanAt
  <2>3. CASE staging[p] = Dir
    <3>1. Suppliers(plan, p) = {}
      BY <2>3, <1>0, StagingIsWanted, Entries
    <3>2. Leaf(live[p]) = Absent /\ Leaf(base[p]) = Absent
      BY <2>1, <2>3, <1>0, Entries DEF CleanAt
    <3> QED BY <3>1, <3>2, <1>0, UnsuppliedWant
  <2>4. CASE staging[p] = Absent
    <3>1. Suppliers(plan, p) = {}
      BY <2>4, <1>0, StagingIsWanted, Entries
    <3>2. \/ Leaf(live[p]) = Leaf(base[p])
          \/ live[p] = Absent /\ base[p] \in Contents /\ Owned(plan, p)
      BY <2>1, <2>4, <1>0, Entries DEF CleanAt
    <3>3. CASE live[p] = Absent /\ base[p] \in Contents /\ Owned(plan, p)
      BY <3>1, <3>3, <1>0, UnsuppliedWant, Entries
    <3>4. CASE /\ Leaf(live[p]) = Leaf(base[p])
               /\ ~(Owned(plan, p) /\ base[p] \in Contents)
      BY <3>1, <3>4, <1>0, UnsuppliedWant
    <3>5. CASE /\ Leaf(live[p]) = Leaf(base[p])
               /\ Owned(plan, p) /\ base[p] \in Contents
      <4>1. live[p] \in Contents
        BY <3>5, <1>0, Entries DEF Leaf
      <4>2. PICK i \in DOMAIN plan.maps :
              ~plan.maps[i].slash /\ plan.maps[i].dest \in {p} \cup Above[p]
        BY <3>5 DEF Owned
      <4>3. ~Filtered(plan, p) /\ \A d \in Above[p] : ~Filtered(plan, d)
        BY <3>5 DEF Owned
      <4>4. \A d \in Above[p] : Enters(plan, d)
        BY <1>0, <4>2, <4>3, WalkReaches
      <4>5. UnderManagedRoot(plan, p)
        BY <4>2 DEF UnderManagedRoot
      <4>6. ASSUME NEW d \in Above[p] PROVE staging[d] \in {Absent, Dir}
        <5>1. d \in Paths /\ live[d] = Dir
          BY <1>0, <4>1, TreeAssumption, DataAssumption DEF TypeOK, WellFormed
        <5>2. staging[d] \notin Contents
          BY <5>1, <1>0, Entries DEF CleanAt
        <5> QED BY <5>1, <5>2, <1>0, StagingIsWanted
      <4>7. p \in Orphans(plan, live, staging)
        BY <2>4, <4>1, <4>3, <4>4, <4>5, <4>6 DEF Orphans, NotExist
      <4> QED BY <4>7, <1>0
    <3> QED BY <3>2, <3>3, <3>4, <3>5
  <2> QED BY <2>2, <2>3, <2>4, <1>0, StagingIsWanted
<1>4. ResultExact'
  BY <1>0, <1>3, SamePlan DEF ResultExact
<1>5. ASSUME NEW t \in temps \ plan.excludeTemps, NEW d \in Above[t],
             Owned(plan, d),
             \A e \in Above[t] : ~Filtered(plan, e)
      PROVE  FALSE
  <2>0. t \in Paths /\ d \in Paths
    BY <1>0, TreeAssumption DEF TypeOK
  <2>1. PICK i \in DOMAIN plan.maps :
          ~plan.maps[i].slash /\ plan.maps[i].dest \in {d} \cup Above[d]
    BY <1>5 DEF Owned
  <2>2. plan.maps[i].dest \in {t} \cup Above[t]
    BY <2>0, <2>1, TreeAssumption
  <2>3. \A e \in Above[t] : Enters(plan, e)
    BY <1>0, <1>5, <2>0, <2>1, <2>2, WalkReaches
  <2>4. UnderManagedRoot(plan, d)
    BY <2>1 DEF UnderManagedRoot
  <2>5. t \in Litter(plan, temps)
    BY <2>3, <2>4 DEF Litter
  <2> QED BY <2>5, <1>0
<1>6. LitterCollected'
  BY <1>0, <1>5, SamePlan DEF LitterCollected
<1>7. FailsOnlyOnKindChange'
  BY <1>0, SamePlan DEF FailsOnlyOnKindChange, EngineInv
<1>8. QED
  BY <1>0, <1>1, <1>2, <1>4, <1>6, <1>7 DEF EngineInv

\* An error or a kill leaves every file old or new.
LEMMA StopInv ==
  ASSUME EngineInv, Finish \/ IOFails \/ Killed
  PROVE  EngineInv'
<1>0. TypeOK /\ WellFormed(staging)
  BY DEF EngineInv, TypeOK
<1>1. WellFormed(Empty)
  BY DEF WellFormed, Empty, Entry
<1>2. CASE Finish
  BY <1>0, <1>1, <1>2, EndsInv DEF Finish, Outcomes, TypeOK
<1>3. CASE IOFails
  BY <1>0, <1>3, EndsInv DEF IOFails, Outcomes, WellFormed, TypeOK
<1>4. CASE Killed
  <2>1. /\ temps' = IF pc = "copy" THEN temps \cup {cur} ELSE temps
        /\ Ends("stopped") /\ UNCHANGED <<live, staging, profile, base>>
    BY <1>4 DEF Killed
  <2>2. pc = "copy" => cur \in Paths /\ \A d \in Above[cur] : live[d] = Dir
    BY <1>0, ParentsMerged DEF EngineInv, TypeOK
  <2>3. temps' \subseteq Paths /\ \A t \in temps' : \A d \in Above[t] : live[d] = Dir
    BY <1>0, <2>1, <2>2 DEF TypeOK
  <2> QED BY <1>0, <2>1, <2>3, EndsInv DEF Outcomes, WellFormed
<1>5. QED
  BY <1>2, <1>3, <1>4

\* The gateway writes a file of its own: it is no part of the plan.
LEMMA GatewayWritesInv ==
  ASSUME EngineInv, NEW p \in Paths, NEW c \in Written \cup {Absent},
         GatewayWrites(p, c)
  PROVE  EngineInv'
<1>0. /\ TypeOK /\ p \in Runtime /\ live[p] \in Contents \cup {Absent}
      /\ \A d \in Above[p] : live[d] = Dir
      /\ live' = [live EXCEPT ![p] = c] /\ base' = [base EXCEPT ![p] = c]
      /\ live \in [Paths -> Entry] /\ base \in [Paths -> Entry]
      /\ WellFormed(live)
      /\ profile \in DOMAIN Profiles /\ plan = Profiles[profile]
      /\ plan' = plan /\ c \in Contents \cup {Absent}
      /\ UNCHANGED <<temps, staging, pc, profile, at, todo, cur, report, why>>
  BY DataAssumption DEF EngineInv, TypeOK, GatewayWrites, WellFormed, plan
<1>1. /\ live'[p] = c /\ base'[p] = c
      /\ \A q \in Paths : q # p => live'[q] = live[q] /\ base'[q] = base[q]
      /\ live' \in [Paths -> Entry] /\ base' \in [Paths -> Entry]
  BY <1>0 DEF Entry
<1>2. /\ ~Owned(plan, p) /\ Suppliers(plan, p) = {}
      /\ \A i \in DOMAIN plan.maps : \A q \in Provides(plan, plan.maps[i]) :
           p # q /\ p \notin Above[q]
  BY <1>0, RuntimeAssumption DEF Suppliers, ProvidedFiles
<1>3. /\ \A q \in Paths : q # p => Want(q)' = Want(q)
      /\ Want(p)' = Leaf(c)
  <2>1. \A q \in Paths : q # p => Want(q)' = Want(q)
    BY <1>0, <1>1 DEF Want, Target
  <2>2. Want(p)' = Leaf(c)
    BY <1>0, <1>1, <1>2 DEF Want, Target
  <2> QED BY <2>1, <2>2
<1>4. \A q \in Paths : live[q] = Dir <=> live'[q] = Dir
  BY <1>0, <1>1, DataAssumption
<1>5. WellFormed(live')
  <2>1. ASSUME NEW q \in Paths, live'[q] # Absent, NEW d \in Above[q]
        PROVE  live'[d] = Dir
    <3>1. d \in Paths
      BY TreeAssumption
    <3>2. live[d] = Dir
      BY <1>0, <1>1, <2>1 DEF WellFormed
    <3> QED BY <3>1, <3>2, <1>4
  <2> QED BY <1>1, <2>1 DEF WellFormed
<1>6. TypeOK'
  <2>1. \A t \in temps : \A d \in Above[t] : live'[d] = Dir
    BY <1>0, <1>4, TreeAssumption DEF TypeOK
  <2> QED BY <1>0, <1>1, <1>5, <2>1 DEF TypeOK, WellFormed
<1>7. \A n : StagingIs(n)' <=> StagingIs(n)
  BY <1>0 DEF StagingIs
<1>8. OldOrNew => OldOrNew'
  BY <1>1, <1>3 DEF OldOrNew
<1>9. DeletesLast => DeletesLast'
  BY <1>0, <1>1, <1>2, <1>3 DEF DeletesLast
<1>10. ResultExact => ResultExact'
  BY <1>0, <1>1, <1>3 DEF ResultExact
<1>11. LitterCollected => LitterCollected'
  BY <1>0 DEF LitterCollected
<1>12. KindChange(plan, base) => KindChange(plan, base)'
  <2> SUFFICES ASSUME KindChange(plan, base) PROVE KindChange(plan', base')
    BY <1>0
  <2>0. PICK i \in DOMAIN plan.maps : \E q \in Provides(plan, plan.maps[i]) :
          \/ base[q] = Dir /\ plan.maps[i].tree[q] # Dir
          \/ Leaf(base[q]) # Absent /\ plan.maps[i].tree[q] = Dir
          \/ \E d \in Above[q] : Leaf(base[d]) # Absent
    BY DEF KindChange
  <2>1. PICK q \in Provides(plan, plan.maps[i]) :
          \/ base[q] = Dir /\ plan.maps[i].tree[q] # Dir
          \/ Leaf(base[q]) # Absent /\ plan.maps[i].tree[q] = Dir
          \/ \E d \in Above[q] : Leaf(base[d]) # Absent
    BY <2>0
  <2>a. plan \in Plan /\ plan.maps[i] \in Mapping
    BY <1>0, PlanType
  <2>b. q \in Paths
    BY <2>a, ProvidesPaths
  <2>2. q \in Paths /\ Above[q] \subseteq Paths /\ q # p /\ p \notin Above[q]
    BY <1>0, <1>2, <2>b, TreeAssumption
  <2>3. base'[q] = base[q] /\ \A d \in Above[q] : base'[d] = base[d]
    BY <1>1, <2>2
  <2> QED BY <1>0, <2>1, <2>3 DEF KindChange
<1>13. ASSUME pc \in {"merge", "copy", "clean"}
       PROVE  staging[p] \notin Contents /\ staging[p] # Dir
  <2>1. ~plan.dry /\ StagingIs(Len(plan.maps))
    BY <1>13 DEF EngineInv
  <2>2. staging[p] \notin Contents
    BY <1>0, <1>2, <2>1, StagingIsWanted
  <2>3. ASSUME staging[p] = Dir PROVE FALSE
    <3>1. PICK i \in DOMAIN plan.maps : Staged(plan, plan.maps[i], p) = Dir
      BY <2>1, <2>3 DEF StagingIs
    <3>2. p \notin ProvidedFiles(plan, plan.maps[i])
      BY <1>2 DEF ProvidedFiles
    <3> QED BY <1>0, <1>2, <3>1, <3>2, StagedCases
  <2> QED BY <2>2, <2>3
<1>14. ASSUME pc \in {"merge", "copy"} PROVE \A q \in Paths : MergeAt(q)'
  <2> TAKE q \in Paths
  <2>0. MergeAt(q) /\ MergeAt(p)
    BY <1>14 DEF EngineInv
  <2>1. CASE q = p
    <3>1. staging[p] = Absent
      <4>1. ~plan.dry /\ StagingIs(Len(plan.maps))
        BY <1>14 DEF EngineInv
      <4> QED BY <4>1, <1>0, <1>13, <1>14, StagingIsWanted
    <3>2. p \notin todo
      BY <2>0, <3>1 DEF MergeAt
    <3> QED BY <2>1, <3>1, <3>2, <1>0, <1>1 DEF MergeAt
  <2>2. CASE q # p
    BY <2>0, <2>2, <1>0, <1>1 DEF MergeAt
  <2> QED BY <2>1, <2>2
<1>15. ASSUME pc = "clean" PROVE \A q \in Paths : CleanAt(q)'
  <2> TAKE q \in Paths
  <2>0. CleanAt(q)
    BY <1>15 DEF EngineInv
  <2>1. CASE q = p
    <3>1. staging[p] = Absent
      <4>1. ~plan.dry /\ StagingIs(Len(plan.maps))
        BY <1>15 DEF EngineInv
      <4> QED BY <4>1, <1>0, <1>13, <1>15, StagingIsWanted
    <3> QED BY <2>1, <3>1, <1>0, <1>1, Entries DEF CleanAt
  <2>2. CASE q # p
    BY <2>0, <2>2, <1>0, <1>1 DEF CleanAt
  <2> QED BY <2>1, <2>2
<1>16. pc = "stage" => live' = base'
  BY <1>0 DEF EngineInv
<1>17. FailsOnlyOnKindChange'
  BY <1>0, <1>12 DEF FailsOnlyOnKindChange, EngineInv
<1>18. QED
  BY <1>0, <1>6, <1>7, <1>8, <1>9, <1>10, <1>11, <1>14, <1>15, <1>16, <1>17
     DEF EngineInv

\* No sync has begun.
LEMMA InitInv == Init => EngineInv
<1> SUFFICES ASSUME Init PROVE EngineInv
  OBVIOUS
<1>1. WellFormed(live) /\ WellFormed(Empty)
  BY DataAssumption DEF Init, WellFormed, Empty, Entry
<1>2. profile \in DOMAIN Profiles
  BY DataAssumption DEF Init
<1>3. 1 \in 1..(Len(plan.maps) + 1)
  BY <1>2, DataAssumption DEF plan
<1>4. TypeOK
  BY <1>1, <1>2, <1>3 DEF Init, TypeOK, NoReport, Outcomes, WellFormed
<1>5. OldOrNew /\ DeletesLast
  BY DEF Init, OldOrNew, DeletesLast
<1>6. QED
  BY <1>4, <1>5 DEF Init, EngineInv, ResultExact, LitterCollected,
                    FailsOnlyOnKindChange

\* A step that changes nothing.
LEMMA StutterInv ==
  ASSUME EngineInv, UNCHANGED vars
  PROVE  EngineInv'
<1>0. /\ UNCHANGED <<live, temps, staging, pc, profile, at, todo, cur, report,
                     why, base>>
      /\ plan' = plan
  BY SamePlan DEF vars
<1>1. TypeOK' /\ \A n : StagingIs(n)' <=> StagingIs(n)
  BY <1>0 DEF EngineInv, TypeOK, WellFormed, StagingIs
<1>2. \A p \in Paths : (MergeAt(p)' <=> MergeAt(p)) /\ (CleanAt(p)' <=> CleanAt(p))
  BY <1>0 DEF MergeAt, CleanAt
<1>3. OldOrNew' /\ DeletesLast'
  <2>1. OldOrNew /\ DeletesLast
    BY Always
  <2> QED BY <1>0, <2>1, SamePlan DEF OldOrNew, DeletesLast
<1>4. ResultExact' /\ LitterCollected' /\ FailsOnlyOnKindChange'
  BY <1>0, SamePlan
     DEF EngineInv, ResultExact, LitterCollected, FailsOnlyOnKindChange
<1>5. QED
  BY <1>0, <1>1, <1>2, <1>3, <1>4 DEF EngineInv

\* EngineInv holds in every state: staging is what the mappings staged so far
\* supply, and the live directory is where the step of ExecutePlan says it is.
THEOREM EngineInvariant == Spec => []EngineInv
<1>1. Init => EngineInv
  BY InitInv
<1>2. EngineInv /\ [Next]_vars => EngineInv'
  <2> SUFFICES ASSUME EngineInv, [Next]_vars PROVE EngineInv'
    OBVIOUS
  <2>1. CASE \E n \in DOMAIN Profiles : Start(n)
    BY <2>1, StartInv
  <2>2. CASE StageMapping \/ StagingDone
    BY <2>2, StageMappingInv, StagingDoneInv
  <2>3. CASE \E p \in Paths : MergeDirectory(p) \/ CopyToTemp(p)
    BY <2>3, MergeDirectoryInv, CopyToTempInv
  <2>4. CASE Rename \/ MergeDone \/ CleanDone
    BY <2>4, RenameInv, MergeDoneInv, CleanDoneInv
  <2>5. CASE \E p \in Paths : RemoveOrphan(p) \/ RemoveLitter(p)
    BY <2>5, RemoveOrphanInv, RemoveLitterInv
  <2>6. CASE Finish \/ IOFails \/ Killed
    BY <2>6, StopInv
  <2>7. CASE \E p \in Paths, c \in Written \cup {Absent} : GatewayWrites(p, c)
    BY <2>7, GatewayWritesInv
  <2>8. CASE UNCHANGED vars
    BY <2>8, StutterInv
  <2>9. QED
    BY <2>1, <2>2, <2>3, <2>4, <2>5, <2>6, <2>7, <2>8 DEF Next
<1>3. QED
  BY <1>1, <1>2, PTL DEF Spec

\* The variables keep their types, the live and the staging directory are
\* trees, and temporary files lie in directories that exist.
THEOREM EngineTypes == Spec => []TypeOK
<1>1. EngineInv => TypeOK
  BY DEF EngineInv
<1>2. QED
  BY <1>1, EngineInvariant, PTL

\* A completed sync leaves exactly the files the profile asks for.
THEOREM SyncIsExact == Spec => []ResultExact
<1>1. EngineInv => ResultExact
  BY DEF EngineInv
<1>2. QED
  BY <1>1, EngineInvariant, PTL

\* At any moment, after any kill or error, a file is the old one or the new.
THEOREM NothingIsTorn == Spec => []OldOrNew
<1>1. EngineInv => OldOrNew
  BY Always
<1>2. QED
  BY <1>1, EngineInvariant, PTL

\* Files are removed only when all the new ones are in place.
THEOREM RemovalComesLast == Spec => []DeletesLast
<1>1. EngineInv => DeletesLast
  BY Always
<1>2. QED
  BY <1>1, EngineInvariant, PTL

\* A completed sync removes the temporary files of killed ones.
THEOREM LitterIsCollected == Spec => []LitterCollected
<1>1. EngineInv => LitterCollected
  BY DEF EngineInv
<1>2. QED
  BY <1>1, EngineInvariant, PTL

\* The merge fails only where a path changes between file and directory.
THEOREM OnlyKindChangeFails == Spec => []FailsOnlyOnKindChange
<1>1. EngineInv => FailsOnlyOnKindChange
  BY DEF EngineInv
<1>2. QED
  BY <1>1, EngineInvariant, PTL
=============================================================================

----------------------------- MODULE SyncEngine -----------------------------
(* The sync engine: Engine.ExecutePlan and the plan that the agent builds  *)
(* for it from a profile and a checkout (internal/syncengine/plan.go,      *)
(* copy.go, exclude.go; internal/agent/profile.go).                        *)
(*                                                                         *)
(* A directory tree is a function from Paths to entries.  A sync wipes the *)
(* staging directory, overlays one mapping after the other on it, and then *)
(* either reports a difference (dry run) or merges staging into the live   *)
(* directory file by file and removes orphans.  Every file reaches the     *)
(* live directory through a temporary file and a rename, and the process   *)
(* may be killed, or a call may fail, between any two of these steps.  The *)
(* gateway writes its own files at any time.                               *)
EXTENDS Integers, Sequences, FiniteSets

CONSTANTS
  Paths,       \* relative paths below the live directory
  Above,       \* [Paths -> SUBSET Paths]: the strict ancestors of a path
  Rank,        \* [Paths -> Nat]: the order in which filepath.WalkDir goes
  Protected,   \* paths that match a protected pattern (.resources)
  Contents,    \* contents of regular files
  Rendered,    \* [Contents -> Contents \cup {Bad}]: what templating makes
  Patched,     \* [Contents -> Contents \cup {Bad}]: what the patches make
  Profiles,    \* what each profile and checkout asks for, see Plan
  Trees,       \* live directories a first sync may meet
  Runtime,     \* paths the gateway itself writes
  Written,     \* the contents it writes there
  Faults,      \* subset of {"kill", "io"}
  Absent, Dir, Link, Bad

\* What a path may be: nothing, a directory, a symbolic link to a file, or a
\* regular file with its content.
Entry == Contents \cup {Absent, Dir, Link}

\* A mapping of a profile, with the part of the checkout it names.  src is
\* what os.Stat and os.Lstat find at the source; "unresolved" is a source or
\* destination whose template cannot be rendered or that leaves the
\* directory.  tree is the source, placed at the destination.
Mapping ==
  [dest : Paths, slash : BOOLEAN, required : BOOLEAN,
   hint : {"", "dir", "file"},
   src : {"dir", "file", "missing", "linkdir", "linkfile", "broken",
          "unresolved"},
   tree : [Paths -> Entry], template : BOOLEAN, patches : SUBSET Paths]

\* A plan, with the paths that match its exclude patterns, and those whose
\* temporary files do: the patterns of a profile may match a name that copyFile
\* makes up.
Plan == [maps : Seq(Mapping), dry : BOOLEAN,
         exclude : SUBSET Paths, excludeTemps : SUBSET Paths]

Below(p) == {q \in Paths : p \in Above[q]}

\* A directory tree: whatever is there has directories above it.
WellFormed(l) ==
  /\ l \in [Paths -> Entry]
  /\ \A p \in Paths : l[p] # Absent => \A d \in Above[p] : l[d] = Dir

ASSUME TreeAssumption ==
  /\ Above \in [Paths -> SUBSET Paths]
  /\ \A p \in Paths : p \notin Above[p]
  /\ \A p \in Paths : \A q \in Above[p] : Above[q] \subseteq Above[p]
  /\ \A p \in Paths : \A q, r \in Above[p] :
       q = r \/ q \in Above[r] \/ r \in Above[q]
  /\ Rank \in [Paths -> Nat]
  /\ \A p \in Paths : \A q \in Above[p] : Rank[q] < Rank[p]

ASSUME DataAssumption ==
  /\ Contents \cap {Absent, Dir, Link, Bad} = {}
  /\ Absent # Dir /\ Absent # Link /\ Dir # Link /\ Bad # Dir
  /\ Rendered \in [Contents -> Contents \cup {Bad}]
  /\ Patched \in [Contents -> Contents \cup {Bad}]
  /\ Trees # {} /\ DOMAIN Profiles # {} /\ Written \subseteq Contents
  /\ \A l \in Trees : WellFormed(l)
  /\ \A n \in DOMAIN Profiles :
       /\ Profiles[n] \in Plan
       /\ \A i \in DOMAIN Profiles[n].maps :
            LET m == Profiles[n].maps[i] IN
            /\ m.src \in {"file", "linkfile"} => m.tree[m.dest] \in Contents
            /\ \A p \in Below(m.dest) : m.tree[p] # Absent =>
                 \A q \in Above[p] \cap Below(m.dest) : m.tree[q] = Dir

VARIABLES
  live,      \* the gateway's data directory
  temps,     \* paths beside which a killed copyFile left temporary files
  staging,   \* .sync-staging
  pc,        \* where ExecutePlan is
  profile,   \* the profile of the sync at hand, or of the last one
  at,        \* the mapping to be staged next
  todo,      \* staged entries that mergeStagingToLive has not visited
  cur,       \* the file copyFile is at
  report,    \* the files counted in SyncResult
  why,       \* how the last sync ended
  base       \* history: live as it was when the sync began, plus what the
             \* gateway wrote since

vars == <<live, temps, staging, pc, profile, at, todo, cur, report, why, base>>

Outcomes == {"none", "ok", "unresolved", "required", "hint", "missing",
             "link", "transform", "overlap", "kind", "stopped"}

plan == Profiles[profile]

Empty == [p \in Paths |-> Absent]
NoReport == [added |-> {}, modified |-> {}, deleted |-> {}, litter |-> {}]

\* os.Lstat says that p does not exist.  Below a file it says something else.
NotExist(l, p) == l[p] = Absent /\ \A d \in Above[p] : l[d] \in {Absent, Dir}

-----------------------------------------------------------------------------
(* The plan                                                                *)

\* ShouldExclude and IsProtected.
Filtered(pl, p) == p \in pl.exclude \cup Protected

\* inferMappingType: a source that os.Stat does not find counts as a
\* directory.
TypeOf(m) == IF m.src \in {"file", "linkfile"} THEN "file" ELSE "dir"

\* buildSyncPlan: why it refuses a mapping, or "none".
BuildError(m) ==
  CASE m.src = "unresolved" -> "unresolved"
    [] m.required /\ m.src \in {"missing", "broken"} -> "required"
    [] /\ m.hint # "" /\ m.src \notin {"missing", "broken"}
       /\ m.hint # TypeOf(m) -> "hint"
    [] OTHER -> "none"

\* The first mapping that is refused decides; "none" when all are accepted.
PlanError(pl) ==
  LET bad == {i \in DOMAIN pl.maps : BuildError(pl.maps[i]) # "none"} IN
  IF bad = {} THEN "none"
  ELSE BuildError(pl.maps[CHOOSE i \in bad : \A j \in bad : i <= j])

\* What a mapping stages: the destination of a single file, or what
\* stageDirectory's walk meets below the destination.  Links are skipped,
\* an excluded directory is not entered, and a link at the source itself
\* ends the walk.
Provides(pl, m) ==
  IF TypeOf(m) = "file"
  THEN {p \in {m.dest} : ~Filtered(pl, p)}
  ELSE {p \in Below(m.dest) :
          /\ m.src = "dir"
          /\ m.tree[p] \notin {Absent, Link}
          /\ \A q \in {p} \cup (Above[p] \cap Below(m.dest)) : ~Filtered(pl, q)}

\* ApplyTemplate and then ApplyPatches on a staged file; Bad is an error.
\* Binary content, a missing key and text that is not JSON are such errors.
Transform(m, p) ==
  LET raw  == m.tree[p]
      text == IF m.template THEN Rendered[raw] ELSE raw
  IN IF text # Bad /\ p \in m.patches THEN Patched[text] ELSE text

ProvidedFiles(pl, m) == {p \in Provides(pl, m) : m.tree[p] \in Contents}

\* What a mapping leaves at a path of the staging directory, parents created
\* by MkdirAll included.
Staged(pl, m, p) ==
  CASE p \in ProvidedFiles(pl, m) -> Transform(m, p)
    [] p \in Provides(pl, m) \ ProvidedFiles(pl, m) -> Dir
    [] \E q \in Provides(pl, m) : p \in Above[q] -> Dir
    [] OTHER -> Absent

Overlay(pl, m, s) ==
  [p \in Paths |-> IF Staged(pl, m, p) = Absent THEN s[p] ELSE Staged(pl, m, p)]

\* stageSingleFile and stageDirectory: why a mapping cannot be staged on s.
StageError(pl, m, s) ==
  CASE m.src = "missing" -> "missing"
    [] m.src = "linkfile" /\ Provides(pl, m) # {} -> "link"
    [] \E p \in ProvidedFiles(pl, m) : Transform(m, p) = Bad -> "transform"
    [] \E p \in Paths : /\ s[p] # Absent /\ Staged(pl, m, p) # Absent
                        /\ (s[p] = Dir) # (Staged(pl, m, p) = Dir) -> "overlap"
    [] OTHER -> "none"

-----------------------------------------------------------------------------
(* Managed roots                                                           *)

\* isUnderManagedRoot, on the roots of computeManagedRoots.  A root spelled
\* with a trailing slash is no path's prefix once another slash is added.
UnderManagedRoot(pl, p) ==
  \E i \in DOMAIN pl.maps :
    LET m == pl.maps[i] IN ~m.slash /\ (p = m.dest \/ m.dest \in Above[p])

\* isAncestorOfManagedRoot.
AncestorOfManagedRoot(pl, p) ==
  \E i \in DOMAIN pl.maps :
    LET m == pl.maps[i] IN p \in Above[m.dest] \/ (m.slash /\ p = m.dest)

\* Mutant: the walk does not enter the parents of a nested root.
EntersRootsOnly(pl, d) == ~Filtered(pl, d) /\ UnderManagedRoot(pl, d)

\* The walk of cleanOrphans and computeDryRunDiff enters a directory.
Enters(pl, d) ==
  /\ ~Filtered(pl, d)
  /\ UnderManagedRoot(pl, d) \/ AncestorOfManagedRoot(pl, d)

\* Files of tree l that the walk finds missing in staging.
Orphans(pl, l, s) ==
  {p \in Paths :
     /\ l[p] \in Contents /\ NotExist(s, p)
     /\ \A d \in Above[p] : Enters(pl, d)
     /\ ~Filtered(pl, p) /\ UnderManagedRoot(pl, p)}

\* Mutant: names of temporary files are passed over.
LitterKept(pl, ts) == {}

\* The same for temporary files left behind: their names are in no staging
\* directory and match no root of a file mapping.
Litter(pl, ts) ==
  {p \in ts \ pl.excludeTemps :
     /\ \A d \in Above[p] : Enters(pl, d)
     /\ \E d \in Above[p] : UnderManagedRoot(pl, d)}

\* Mutant: RemoveAll where Remove tells an empty directory from another.
ParentsUnchecked(pl, l, ts, p) == {d \in Above[p] : UnderManagedRoot(pl, d)}

\* The loop of cleanOrphans that removes directories left empty above p, up
\* to the managed root.
EmptyParents(pl, l, ts, p) ==
  {d \in Above[p] :
     /\ UnderManagedRoot(pl, d)
     /\ \A q \in Below(d) : l[q] = Absent \/ q \in Above[p]
     /\ \A t \in ts : d \notin Above[t]}

\* Mutant: directories are left as they are.
PruneNothing(pl, l, ts, p) == l

Prune(pl, l, ts, p) ==
  [q \in Paths |-> IF q \in EmptyParents(pl, l, ts, p) THEN Absent ELSE l[q]]

\* Mutant: the diff lists what the filters protect as deleted.
DryRunDiffUnfiltered(pl, l, ts, s) ==
  [added    |-> {p \in Paths : s[p] \in Contents /\ NotExist(l, p)},
   modified |-> {p \in Paths : s[p] \in Contents /\ ~NotExist(l, p)
                               /\ l[p] # s[p]},
   deleted  |-> {p \in Paths : /\ l[p] \in Contents /\ NotExist(s, p)
                               /\ UnderManagedRoot(pl, p)},
   litter   |-> Litter(pl, ts)]

\* computeDryRunDiff.
DryRunDiff(pl, l, ts, s) ==
  [added    |-> {p \in Paths : s[p] \in Contents /\ NotExist(l, p)},
   modified |-> {p \in Paths : s[p] \in Contents /\ ~NotExist(l, p)
                               /\ l[p] # s[p]},
   deleted  |-> Orphans(pl, l, s),
   litter   |-> Litter(pl, ts)]

-----------------------------------------------------------------------------
Init ==
  /\ live \in Trees
  /\ temps = {}
  /\ staging = Empty
  /\ pc = "idle"
  /\ profile = CHOOSE n \in DOMAIN Profiles : TRUE
  /\ at = 1
  /\ todo = {}
  /\ cur = Absent
  /\ report = NoReport
  /\ why = "none"
  /\ base = live

\* ExecutePlan returns, or never does: its local variables are gone.
Ends(outcome) ==
  /\ pc' = "idle"
  /\ why' = outcome
  /\ at' = 1 /\ todo' = {} /\ cur' = Absent /\ report' = NoReport

\* Mutant: the staging directory of an earlier sync is not removed.
StartKeepsStaging(n) ==
  /\ pc = "idle"
  /\ PlanError(Profiles[n]) = "none"
  /\ profile' = n
  /\ base' = live
  /\ pc' = "stage"
  /\ why' = "none"
  /\ UNCHANGED <<live, temps, staging, at, todo, cur, report>>

\* syncOnce calls buildSyncPlan and then ExecutePlan, which begins with a
\* fresh staging directory whatever an earlier sync left there.
Start(n) ==
  /\ pc = "idle"
  /\ profile' = n
  /\ base' = live
  /\ IF PlanError(Profiles[n]) # "none"
     THEN Ends(PlanError(Profiles[n])) /\ UNCHANGED staging
     ELSE /\ staging' = Empty
          /\ pc' = "stage"
          /\ why' = "none"
          /\ at' = 1
          /\ UNCHANGED <<todo, cur, report>>
  /\ UNCHANGED <<live, temps>>

StageMapping ==
  /\ pc = "stage" /\ at <= Len(plan.maps)
  /\ LET m == plan.maps[at]
         e == StageError(plan, m, staging)
     IN IF e # "none"
        THEN Ends(e) /\ UNCHANGED staging
        ELSE /\ staging' = Overlay(plan, m, staging)
             /\ at' = at + 1
             /\ UNCHANGED <<pc, todo, cur, report, why>>
  /\ UNCHANGED <<live, temps, profile, base>>

\* The branch on DryRun.
StagingDone ==
  /\ pc = "stage" /\ at > Len(plan.maps)
  /\ IF plan.dry
     THEN /\ report' = DryRunDiff(plan, live, temps, staging)
          /\ pc' = "finish"
          /\ UNCHANGED todo
     ELSE /\ todo' = {p \in Paths : staging[p] # Absent}
          /\ pc' = "merge"
          /\ UNCHANGED report
  /\ UNCHANGED <<live, temps, staging, profile, at, cur, why, base>>

\* The walk of mergeStagingToLive is at p.
Visits(p) ==
  /\ pc = "merge" /\ p \in todo
  /\ \A q \in todo : Rank[p] <= Rank[q]

MergeDirectory(p) ==
  /\ Visits(p) /\ staging[p] = Dir
  /\ IF live[p] \in {Absent, Dir}
     THEN /\ live' = [live EXCEPT ![p] = Dir]
          /\ todo' = todo \ {p}
          /\ UNCHANGED <<pc, at, cur, report, why>>
     ELSE Ends("kind") /\ UNCHANGED live
  /\ UNCHANGED <<temps, staging, profile, base>>

\* Mutant: the old file is removed before the new one is in place.
CopyInPlace(p) ==
  /\ Visits(p) /\ staging[p] # Dir
  /\ IF live[p] = staging[p]
     THEN todo' = todo \ {p} /\ UNCHANGED <<live, pc, cur>>
     ELSE /\ live' = [live EXCEPT ![p] = IF @ = Dir THEN Dir ELSE Absent]
          /\ cur' = p
          /\ pc' = "copy"
          /\ UNCHANGED todo
  /\ UNCHANGED <<temps, staging, profile, at, report, why, base>>

\* copyFile up to the rename: nothing to do for equal files, else the new
\* content goes to a temporary file of a fresh name, whatever lies beside it.
CopyToTemp(p) ==
  /\ Visits(p) /\ staging[p] # Dir
  /\ IF live[p] = staging[p]
     THEN todo' = todo \ {p} /\ UNCHANGED <<pc, cur>>
     ELSE /\ cur' = p
          /\ pc' = "copy"
          /\ UNCHANGED todo
  /\ UNCHANGED <<live, temps, staging, profile, at, report, why, base>>

\* The rename of copyFile, and the counting in mergeStagingToLive.  A rename
\* onto a directory fails, and the deferred Remove takes the temporary file.
Rename ==
  /\ pc = "copy"
  /\ IF live[cur] = Dir
     THEN Ends("kind") /\ UNCHANGED live
     ELSE /\ live' = [live EXCEPT ![cur] = staging[cur]]
          /\ todo' = todo \ {cur}
          /\ report' =
               IF live[cur] = Absent
               THEN [report EXCEPT !.added = @ \cup {cur}]
               ELSE [report EXCEPT !.modified = @ \cup {cur}]
          /\ pc' = "merge"
          /\ cur' = Absent
          /\ UNCHANGED <<at, why>>
  /\ UNCHANGED <<temps, staging, profile, base>>

MergeDone ==
  /\ pc = "merge" /\ todo = {}
  /\ pc' = "clean"
  /\ UNCHANGED <<live, temps, staging, profile, at, todo, cur, report, why, base>>

\* cleanOrphans, one file at a time.
RemoveOrphan(p) ==
  /\ pc = "clean" /\ p \in Orphans(plan, live, staging)
  /\ live' = Prune(plan, [live EXCEPT ![p] = Absent], temps, p)
  /\ report' = [report EXCEPT !.deleted = @ \cup {p}]
  /\ UNCHANGED <<temps, staging, pc, profile, at, todo, cur, why, base>>

RemoveLitter(p) ==
  /\ pc = "clean" /\ p \in Litter(plan, temps)
  /\ temps' = temps \ {p}
  /\ live' = IF live[p] = Absent THEN Prune(plan, live, temps \ {p}, p)
             ELSE live
  /\ report' = [report EXCEPT !.litter = @ \cup {p}]
  /\ UNCHANGED <<staging, pc, profile, at, todo, cur, why, base>>

CleanDone ==
  /\ pc = "clean"
  /\ Orphans(plan, live, staging) = {} /\ Litter(plan, temps) = {}
  /\ pc' = "finish"
  /\ UNCHANGED <<live, temps, staging, profile, at, todo, cur, report, why, base>>

\* The staging directory goes, and the result is returned.
Finish ==
  /\ pc = "finish"
  /\ staging' = Empty
  /\ Ends("ok")
  /\ UNCHANGED <<live, temps, profile, base>>

\* Mutant: an error of the merge does not keep the orphans from being removed.
IOFailsIgnored ==
  /\ "io" \in Faults
  /\ pc = "merge"
  /\ pc' = "clean"
  /\ UNCHANGED <<live, temps, staging, profile, at, todo, cur, report, why, base>>

\* A call on a file fails: ExecutePlan returns the error.  copyFile's
\* deferred Remove takes its temporary file, the staging directory stays.
IOFails ==
  /\ "io" \in Faults
  /\ pc \in {"stage", "merge", "copy", "clean"}
  /\ Ends("stopped")
  /\ UNCHANGED <<live, temps, staging, profile, base>>

\* The process is killed: nothing is tidied up, the temporary file stays.
Killed ==
  /\ "kill" \in Faults
  /\ pc # "idle"
  /\ Ends("stopped")
  /\ temps' = IF pc = "copy" THEN temps \cup {cur} ELSE temps
  /\ UNCHANGED <<live, staging, profile, base>>

\* The gateway writes or removes a file of its own.
GatewayWrites(p, c) ==
  /\ p \in Runtime /\ live[p] \in Contents \cup {Absent}
  /\ \A d \in Above[p] : live[d] = Dir
  /\ live' = [live EXCEPT ![p] = c]
  /\ base' = [base EXCEPT ![p] = c]
  /\ UNCHANGED <<temps, staging, pc, profile, at, todo, cur, report, why>>

Next ==
  \/ \E n \in DOMAIN Profiles : Start(n)
  \/ StageMapping
  \/ StagingDone
  \/ \E p \in Paths : MergeDirectory(p)
  \/ \E p \in Paths : CopyToTemp(p)
  \/ Rename
  \/ MergeDone
  \/ \E p \in Paths : RemoveOrphan(p)
  \/ \E p \in Paths : RemoveLitter(p)
  \/ CleanDone
  \/ Finish
  \/ IOFails
  \/ Killed
  \/ \E p \in Paths, c \in Written \cup {Absent} : GatewayWrites(p, c)

Spec == Init /\ [][Next]_vars

-----------------------------------------------------------------------------
(* What a sync promises, stated from the profile alone                     *)

Leaf(x) == IF x = Dir THEN Absent ELSE x

Suppliers(pl, p) == {i \in DOMAIN pl.maps : p \in ProvidedFiles(pl, pl.maps[i])}

LastOf(S) == CHOOSE i \in S : \A j \in S : j <= i

\* The plan owns a path: some destination, not spelled with a trailing slash,
\* is the path or above it, and no part of the path is filtered.
Owned(pl, p) ==
  /\ \A q \in {p} \cup Above[p] : ~Filtered(pl, q)
  /\ \E i \in DOMAIN pl.maps :
       ~pl.maps[i].slash /\ pl.maps[i].dest \in {p} \cup Above[p]

\* The file that ought to be at a path after a sync that began with tree b:
\* the one of the last mapping that supplies it; none where the plan owns the
\* path; else what was there.
Target(pl, b, p) ==
  CASE Suppliers(pl, p) # {} ->
         Transform(pl.maps[LastOf(Suppliers(pl, p))], p)
    [] Suppliers(pl, p) = {} /\ Owned(pl, p) /\ b[p] \in Contents -> Absent
    [] OTHER -> Leaf(b[p])

Want(p) == IF plan.dry THEN Leaf(base[p]) ELSE Target(plan, base, p)

\* The plan makes a directory of a file, or a file of a directory.
KindChange(pl, b) ==
  \E i \in DOMAIN pl.maps : \E p \in Provides(pl, pl.maps[i]) :
    \/ b[p] = Dir /\ pl.maps[i].tree[p] # Dir
    \/ Leaf(b[p]) # Absent /\ pl.maps[i].tree[p] = Dir
    \/ \E d \in Above[p] : Leaf(b[d]) # Absent

\* The gateway's own files are none that a plan supplies or owns.
ASSUME RuntimeAssumption ==
  \A n \in DOMAIN Profiles : \A p \in Runtime :
    /\ ~Owned(Profiles[n], p)
    /\ \A i \in DOMAIN Profiles[n].maps :
         \A q \in Provides(Profiles[n], Profiles[n].maps[i]) : p # q /\ p \notin Above[q]

TypeOK ==
  /\ WellFormed(live)
  /\ temps \subseteq Paths /\ \A t \in temps : \A d \in Above[t] : live[d] = Dir
  /\ WellFormed(staging)
  /\ pc \in {"idle", "stage", "merge", "copy", "clean", "finish"}
  /\ profile \in DOMAIN Profiles
  /\ at \in 1..(Len(plan.maps) + 1)
  /\ todo \subseteq Paths
  /\ cur \in Paths \cup {Absent}
  /\ report \in [added : SUBSET Paths, modified : SUBSET Paths,
                 deleted : SUBSET Paths, litter : SUBSET Paths]
  /\ why \in Outcomes
  /\ base \in [Paths -> Entry]

\* A sync that completes leaves exactly the files the profile asks for: those
\* of the last mapping that supplies them, nothing else where a destination
\* owns the path, and every other file as the gateway has it.
ResultExact == pc = "finish" => \A p \in Paths : Leaf(live[p]) = Want(p)

\* Whenever the gateway looks, during a sync or after one that failed or was
\* killed, a file has its old content or the one the profile asks for; a dry
\* run and a path that is not owned keep the old one.
OldOrNew ==
  \A p \in Paths : Leaf(live[p]) = Leaf(base[p]) \/ Leaf(live[p]) = Want(p)

\* No file is removed before all the new ones are in place, whatever fails.
DeletesLast ==
  (\E p \in Paths : Leaf(base[p]) # Absent /\ Leaf(live[p]) = Absent)
    => \A p \in Paths : Suppliers(plan, p) # {} => live[p] = Want(p)

\* The files that a sync or a dry run counts are those whose content differs
\* between the tree it met and the one the profile asks for.
ReportsChanges ==
  pc = "finish" /\ ~KindChange(plan, base) =>
    LET T(p) == Target(plan, base, p) IN
    /\ report.added = {p \in Paths : base[p] = Absent /\ T(p) # Absent}
    /\ report.modified =
         {p \in Paths : base[p] # Absent /\ T(p) \notin {Absent, Leaf(base[p])}}
    /\ report.deleted = {p \in Paths : Leaf(base[p]) # Absent /\ T(p) = Absent}

\* Temporary files that a killed sync left in a directory the plan owns are
\* gone after the next sync that completes, unless a filter hides them.
LitterCollected ==
  pc = "finish" /\ ~plan.dry =>
    \A t \in temps \ plan.excludeTemps : \A d \in Above[t] :
      Owned(plan, d) => \E e \in Above[t] : Filtered(plan, e)

\* The removal of orphans leaves no directory empty within what the plan owns
\* and the gateway does not use.
NoHollowDirectory ==
  pc = "finish" =>
    \A d \in Paths :
      /\ Owned(plan, d) /\ live[d] = Dir /\ ~plan.dry
      /\ Below(d) \cap Runtime = {}
      /\ Below(d) \cap (report.deleted \cup report.litter) # {}
      => \E q \in Paths : d \in Above[q] /\ (live[q] # Absent \/ q \in temps)

\* The merge fails for no other reason than a path that changes its kind:
\* what killed and failed syncs leave behind never stops a later one.
FailsOnlyOnKindChange == why = "kind" => KindChange(plan, base)

\* The files of a tree, what a profile makes of them, and the sync as an update
\* of the one into the other.
FilesOf(l) == [p \in Paths |-> Leaf(l[p])]
ResultOf(n, f, p) == IF Profiles[n].dry THEN f[p] ELSE Target(Profiles[n], f, p)
Update == INSTANCE DirectoryUpdate WITH
            files <- FilesOf(live), origin <- FilesOf(base), order <- profile,
            active <- pc # "idle", ok <- why = "ok", Own <- Runtime,
            Orders <- DOMAIN Profiles, Result <- ResultOf, Gone <- Absent,
            Values <- Contents \cup {Absent, Link}

\* Seen through its files, ExecutePlan changes one file at a time, and only to
\* what the profile asks for, never back; it removes last, returns without an
\* error only when all is in place, and nothing but the gateway's own files
\* changes afterwards.  This is what the agent's ExecutePlan takes for granted.
ImplementsUpdate == Update!Spec

\* Staging holds what the first n mappings supply.
StagingIs(n) ==
  \A p \in Paths :
    LET S == Suppliers(plan, p) \cap (1..n) IN
    /\ staging[p] # Link
    /\ staging[p] \in Contents <=> S # {}
    /\ S # {} => staging[p] = Transform(plan.maps[LastOf(S)], p)
    /\ staging[p] = Dir =>
         \E i \in DOMAIN plan.maps : Staged(plan, plan.maps[i], p) = Dir

\* How far the merge has come at p.
MergeAt(p) ==
  IF p \in todo \/ staging[p] = Absent
  THEN live[p] = base[p] /\ (p \in todo => staging[p] # Absent)
  ELSE live[p] = staging[p] /\ (staging[p] = Dir => Leaf(base[p]) = Absent)

\* What the removal of orphans may have done at p.
CleanAt(p) ==
  CASE staging[p] = Absent ->
         \/ Leaf(live[p]) = Leaf(base[p])
         \/ live[p] = Absent /\ base[p] \in Contents /\ Owned(plan, p)
    [] staging[p] = Dir -> Leaf(live[p]) = Absent /\ Leaf(base[p]) = Absent
    [] OTHER -> live[p] = staging[p]

\* The inductive invariant behind the properties above: staging is what the
\* mappings so far supply, and the live directory is the old one, the new one
\* up to the file being copied, or the new one with some orphans.
EngineInv ==
  /\ TypeOK
  /\ pc = "stage" => live = base /\ StagingIs(at - 1)
  /\ pc \in {"merge", "copy", "clean"} =>
       ~plan.dry /\ StagingIs(Len(plan.maps))
  /\ pc \in {"merge", "copy"} => \A p \in Paths : MergeAt(p)
  /\ pc = "copy" => /\ cur \in todo /\ staging[cur] \in Contents
                    /\ Above[cur] \cap todo = {}
  /\ pc = "clean" => \A p \in Paths : CleanAt(p)
  /\ pc \in {"idle", "finish"} => OldOrNew /\ DeletesLast
  /\ ResultExact /\ LitterCollected /\ FailsOnlyOnKindChange

\* docs/docs/overview/architecture.md: "Clean: removes orphaned files within
\* managed paths only", here for destinations however they are spelled.
OrphansCleaned ==
  pc = "finish" /\ ~plan.dry =>
    \A i \in DOMAIN plan.maps : \A p \in Below(plan.maps[i].dest) :
      /\ live[p] \in Contents /\ Suppliers(plan, p) = {}
      => \E q \in {p} \cup Above[p] : Filtered(plan, q)
=============================================================================

---------------------------- MODULE MCSyncEngine ----------------------------
(* A small data directory and the profiles that are synced into it.        *)
EXTENDS SyncEngine, Functions, TLC

\* The paths as a walk meets them.
Walk == <<"cfg", "cfg/core", "cfg/core/x", "cfg/db", "proj",
          "proj/.resources", "proj/a", "proj/b", "proj/sub", "proj/sub/c">>
MCPaths == Range(Walk)
MCRank == [p \in MCPaths |-> CHOOSE i \in DOMAIN Walk : Walk[i] = p]
MCAbove ==
  [p \in MCPaths |->
     CASE p \in {"proj/a", "proj/b", "proj/sub", "proj/.resources"} -> {"proj"}
       [] p = "proj/sub/c" -> {"proj", "proj/sub"}
       [] p \in {"cfg/core", "cfg/db"} -> {"cfg"}
       [] p = "cfg/core/x" -> {"cfg", "cfg/core"}
       [] OTHER -> {}]

\* "text" is a template, "raw" is binary.
MCContents == {"c1", "c2", "text", "raw"}
MCRendered == [c \in MCContents |->
                 CASE c = "text" -> "c2" [] c = "raw" -> Bad [] OTHER -> c]
MCPatched == [c \in MCContents |->
                CASE c = "c1" -> "c2" [] c = "raw" -> Bad [] OTHER -> c]

\* The tree with the files of f, and the directories above them.
TreeOf(f) ==
  [p \in MCPaths |->
     IF p \in DOMAIN f THEN f[p]
     ELSE IF \E q \in DOMAIN f : p \in MCAbove[q] THEN Dir ELSE Absent]

DirMap(d, f) ==
  [dest |-> d, slash |-> FALSE, required |-> FALSE, hint |-> "",
   src |-> "dir", tree |-> TreeOf(f), template |-> FALSE, patches |-> {}]
FileMap(d, c) == [DirMap(d, d :> c) EXCEPT !.src = "file"]
Nothing == [p \in {} |-> Absent]
Sync(ms) == [maps |-> ms, dry |-> FALSE, exclude |-> {},
             excludeTemps |-> {}]

\* Three releases of one repository: the first writes its destination with a
\* trailing slash, the second drops, adds and changes files and overlays a
\* template, the third turns a directory into a file, excludes a file of the
\* second and has a link to a directory for a source.
Release1 ==
  <<[DirMap("proj", "proj/a" :> "c1" @@ "proj/sub/c" :> "c1"
                    @@ "proj/.resources" :> "c2") EXCEPT !.slash = TRUE],
    FileMap("cfg/core/x", "c1")>>
Release2 ==
  <<DirMap("proj", "proj/b" :> "c1" @@ "proj/sub" :> Link),
    [DirMap("proj", "proj/a" :> "text" @@ "proj/b" :> "c1")
       EXCEPT !.template = TRUE, !.patches = {"proj/b"}, !.hint = "dir"]>>
Release3 ==
  <<DirMap("proj", "proj/sub" :> "c1" @@ "proj/b" :> "c2"),
    [DirMap("cfg/core", Nothing) EXCEPT !.src = "linkdir"]>>

Releases ==
  "first" :> Sync(Release1) @@ "second" :> Sync(Release2)
  @@ "third" :> [Sync(Release3) EXCEPT !.exclude = {"proj/b"},
                                       !.excludeTemps = {"proj/b"}]
  @@ "preview" :> [Sync(Release2) EXCEPT !.dry = TRUE]

\* An optional source that is not there.
Optional ==
  "optional" :> Sync(<<[DirMap("proj", Nothing) EXCEPT !.src = "missing"]>>)

\* Profiles that some check refuses, the first of them for two reasons.
Broken == [DirMap("proj", Nothing) EXCEPT !.src = "broken", !.required = TRUE]
Unresolved == [DirMap("proj", Nothing) EXCEPT !.src = "unresolved"]
Bads ==
  <<<<Broken, Unresolved>>,
    <<[DirMap("proj", Nothing) EXCEPT !.hint = "file"]>>,
    <<[FileMap("cfg/core/x", "c1") EXCEPT !.src = "linkfile"]>>,
    <<[FileMap("cfg/core/x", "raw") EXCEPT !.template = TRUE]>>,
    <<FileMap("proj", "c1")>>>>
Refused ==
  [i \in DOMAIN Bads |-> Sync(<<DirMap("proj", "proj/a" :> "c2")>> \o Bads[i])]

AllProfiles == Releases @@ Optional
               @@ [n \in {ToString(i) : i \in DOMAIN Refused} |->
                     Refused[CHOOSE i \in DOMAIN Refused : ToString(i) = n]]

\* A gateway with files of its own, a link among them.
MCTrees ==
  {TreeOf("cfg/db" :> "c1" @@ "proj/.resources" :> "c1" @@ "proj/b" :> Link)}
=============================================================================

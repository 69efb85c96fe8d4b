---------------------------- MODULE MCGitAccess ----------------------------
(* Values of the constants of GitAccess for TLC.                           *)
EXTENDS GitAccess

CONSTANTS k1, k2, ssh, pat

\* k1 is polled; k2, which shares its installation, is not, and its agent has
\* a deploy key besides.
PollOne == [k \in Keys |-> IF k = k1 THEN 1 ELSE 0]
FirstDelay == [n \in {1} |-> 1]
FaultsOfOne == {k1} \X Calls

Configured ==
  [c \in Keys \cup Others |->
     CASE c = k1 -> {"githubApp"}
       [] c = k2 -> {"githubApp", "sshKey"}
       [] c = ssh -> {"sshKey", "knownHosts", "token"}
       [] c = pat -> {"token"}]
\* Only k1 is alone in its namespace.
Spread == [c \in Keys \cup Others |-> IF c = k1 THEN "north" ELSE "south"]
============================================================================

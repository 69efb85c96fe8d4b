--------------------------- MODULE DirectoryUpdate ---------------------------
(***************************************************************************)
(* What ExecutePlan promises the agent: an update of the data directory,   *)
(* file by file, towards a goal that is fixed when it begins.  No step     *)
(* shows a file that is neither the old nor the new one, or takes a file   *)
(* away from its goal again; files are removed when all others are in      *)
(* place.  An update that reports success has reached its goal, and stays  *)
(* there until the next one; one that fails or is cut off stops between    *)
(* two files.  Meanwhile the gateway writes files of its own, which no     *)
(* goal has a say in.                                                      *)
(*                                                                         *)
(* Directories, temporary files and the staging directory do not appear.   *)
(***************************************************************************)

CONSTANTS Paths,           \* paths of the data directory
          Values,          \* what may be found at one of them
          Gone,            \* the value "no file"
          Orders,          \* what an update may be asked for
          Result(_, _, _), \* what an order makes of files, at a path
          Own              \* paths the gateway itself writes

VARIABLES files,   \* the file at each path
          order,   \* of the current or the last update
          origin,  \* the files it began with, and the gateway's own ones
          active,  \* an update is under way
          ok       \* the last one reported success

vars == <<files, order, origin, active, ok>>

Goal(p) == Result(order, origin, p)

Init ==
  /\ files \in [Paths -> Values] /\ order \in Orders /\ origin = files
  /\ active = FALSE /\ ok = FALSE

\* An update is asked for; it begins, or is refused at once.
Ask ==
  /\ ~active /\ active' \in BOOLEAN /\ ok' = FALSE
  /\ order' \in Orders /\ origin' = files
  /\ UNCHANGED files

\* Nothing but the file at p changes.
Change(p) ==
  /\ files'[p] # files[p]
  /\ files' \in [Paths -> Values]
  /\ \A q \in Paths \ {p} : files'[q] = files[q]

Put(p) ==
  /\ active /\ files'[p] = Goal(p) /\ Goal(p) # Gone
  /\ UNCHANGED <<order, origin, active, ok>>

Remove(p) ==
  /\ active /\ files'[p] = Gone /\ Goal(p) = Gone
  /\ \A q \in Paths : Goal(q) # Gone => files[q] = Goal(q)
  /\ UNCHANGED <<order, origin, active, ok>>

Complete ==
  /\ active /\ active' = FALSE /\ ok' = TRUE
  /\ \A p \in Paths : files[p] = Goal(p)
  /\ UNCHANGED <<files, order, origin>>

Abort ==
  /\ active /\ active' = FALSE /\ ok' = FALSE
  /\ UNCHANGED <<files, order, origin>>

\* The gateway writes or removes a file of its own, before and after which the
\* goal is what is there.
OwnWrite(p) ==
  /\ p \in Own /\ files[p] = Goal(p)
  /\ origin' = [origin EXCEPT ![p] = files'[p]]
  /\ files'[p] = Result(order, origin', p)
  /\ UNCHANGED <<order, active, ok>>

Next == \/ Ask \/ Complete \/ Abort
        \/ \E p \in Paths : Change(p) /\ (Put(p) \/ Remove(p) \/ OwnWrite(p))

Spec == Init /\ [][Next]_vars
=============================================================================

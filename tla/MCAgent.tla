------------------------------ MODULE MCAgent ------------------------------
(* Values of the constants of Agent for TLC.                               *)
EXTENDS Agent

AllFaults == Procs \X Calls
MainFaults == {"main"} \X (Calls \ {"write"})
PostScanFaults == {"post"} \X {"scan"}

Plain == [found |-> TRUE, paused |-> FALSE, dryRun |-> FALSE,
          policy |-> "proceed"]

\* One profile document, or documents that differ in what they ask for.
OnlyPlain == [d \in Docs |-> Plain]
AllKinds ==
  [d \in Docs |-> CASE d = 1 -> [Plain EXCEPT !.found = FALSE]
                    [] d = 2 -> [Plain EXCEPT !.paused = TRUE]
                    [] d = 3 -> [Plain EXCEPT !.dryRun = TRUE]
                    [] d = 4 -> [Plain EXCEPT !.policy = "fail"]
                    [] d = 5 -> [Plain EXCEPT !.policy = "wait"]]
=============================================================================

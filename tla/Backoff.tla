------------------------------- MODULE Backoff -------------------------------
(***************************************************************************)
(* How long failures are waited out: the controller's backoff per          *)
(* GatewaySync (recordFailure, backoffDelay, resetBackoff and the places   *)
(* Reconcile calls them from) and the agent's backoff after failed fetches *)
(* and syncs.  Delays are in seconds.  What is abstracted from Controller  *)
(* and Agent is everything but success or failure of a reconcile or sync.  *)
(***************************************************************************)
EXTENDS Integers

CONSTANTS Keys,      \* GatewaySyncs, reconciled concurrently
          Causes,    \* checks of Reconcile that may fail
          Webhooks,  \* requested-ref annotations may be set
          MaxRow,    \* bound on the failures of one GatewaySync in a row
          MaxErrors  \* bound on the errors of the agent in a row

ASSUME BackoffAssumption ==
  /\ Causes \subseteq {"gitSecret", "ref", "apiKey"} /\ Webhooks \in BOOLEAN
  /\ MaxRow \in Nat /\ MaxErrors \in Nat

VARIABLES
  count,      \* r.backoff[key].failureCount, 0 if there is no entry
  requested,  \* the object carries the requested-ref annotation
  delay,      \* RequeueAfter of the last reconcile of the key, 0 if it was fine
              \* or if the process that had it pending is gone
  row,        \* failures since the last success or new webhook (history)
  reset,      \* keys whose count may restart while failures go on (history)
  errors,     \* a.consecutiveErrors
  wait        \* how far ahead of now a.backoffUntil was set, 0 if not

ctl  == <<count, requested, delay, row, reset>>
agt  == <<errors, wait>>
vars == <<ctl, agt>>

(* One type invariant: counters, flags and delays.                         *)
TypeOK ==
  /\ count \in [Keys -> Nat] /\ requested \in [Keys -> BOOLEAN]
  /\ delay \in [Keys -> 0..300] /\ row \in [Keys -> 0..MaxRow]
  /\ reset \in SUBSET Keys
  /\ errors \in 0..MaxErrors /\ wait \in -1..300

Init ==
  /\ count = [k \in Keys |-> 0] /\ requested = [k \in Keys |-> FALSE]
  /\ delay = [k \in Keys |-> 0] /\ row = [k \in Keys |-> 0]
  /\ reset = {}
  /\ errors = 0 /\ wait = 0

-----------------------------------------------------------------------------
(* The controller.                                                          *)

\* The loop of backoffDelay: delay *= 2 while it is below five minutes.
Doubled[i \in Nat] ==
  IF i = 0 THEN 30
  ELSE IF Doubled[i - 1] < 300 THEN 2 * Doubled[i - 1] ELSE Doubled[i - 1]

\* Mutant of backoffDelay: one doubling too many.
backoffDelayLate(n) ==
  IF n = 0 THEN 30 ELSE IF Doubled[n] > 300 THEN 300 ELSE Doubled[n]

\* Mutant of backoffDelay: the cap is only the end of the loop.
backoffDelayUncapped(n) == IF n = 0 THEN 30 ELSE Doubled[n - 1]

backoffDelay(n) ==
  IF n = 0 THEN 30 ELSE IF Doubled[n - 1] > 300 THEN 300 ELSE Doubled[n - 1]

\* Reset at the start of a reconcile whose object carries the annotation.
Start(k) == IF requested[k] THEN 0 ELSE count[k]

Failed(k, n) ==
  /\ row[k] < MaxRow
  /\ count' = [count EXCEPT ![k] = n]
  /\ delay' = [delay EXCEPT ![k] = backoffDelay(n)]
  /\ row' = [row EXCEPT ![k] = @ + 1]
  /\ UNCHANGED <<requested, agt>>

\* validateGitSecrets or resolveRef fails: recordFailure, backoffDelay.
FailsEarly(k) ==
  /\ {"gitSecret", "ref"} \cap Causes # {}
  /\ Failed(k, Start(k) + 1) /\ UNCHANGED reset

\* validateAPIKeySecret fails: resetBackoff has been called before it.
FailsLate(k) ==
  /\ "apiKey" \in Causes
  /\ Failed(k, 1) /\ reset' = reset \cup {k}

\* The reconcile succeeds; the annotation may be cleared by it.
Succeeds(k) ==
  /\ count' = [count EXCEPT ![k] = 0] /\ delay' = [delay EXCEPT ![k] = 0]
  /\ row' = [row EXCEPT ![k] = 0]
  /\ \E b \in {requested[k], FALSE} :
       /\ requested' = [requested EXCEPT ![k] = b]
       /\ reset' = IF b THEN reset ELSE reset \ {k}
  /\ UNCHANGED agt

\* A webhook asks for a ref: the documented reset.
Webhook(k) ==
  /\ Webhooks
  /\ requested' = [requested EXCEPT ![k] = TRUE] /\ row' = [row EXCEPT ![k] = 0]
  /\ reset' = reset \cup {k}
  /\ UNCHANGED <<count, delay, agt>>

\* The object is deleted: cleanup, then resetBackoff.
Deleted(k) ==
  /\ count' = [count EXCEPT ![k] = 0] /\ delay' = [delay EXCEPT ![k] = 0]
  /\ row' = [row EXCEPT ![k] = 0] /\ requested' = [requested EXCEPT ![k] = FALSE]
  /\ reset' = reset \ {k}
  /\ UNCHANGED agt

\* A new process: r.backoff is empty, no requeue is pending and every object
\* is reconciled at once, also one that goes on failing.
RestartController ==
  /\ count' = [k \in Keys |-> 0] /\ delay' = [k \in Keys |-> 0]
  /\ reset' = reset \cup {k \in Keys : row[k] # 0}
  /\ UNCHANGED <<requested, row, agt>>

-----------------------------------------------------------------------------
(* The agent.                                                               *)

\* The sign and size of the int64 nanoseconds 30s << k.  30s is 29296875 * 2^10
\* ns, so the shift drops all but the low 54 - k bits of 29296875 and the
\* highest of these becomes the sign: -1 stands for any negative duration, 301
\* for any above five minutes.
Kept(k) == 29296875 % 2^(54 - k)
Shifted(k) ==
  CASE k <= 3 -> 30 * 2^k
    [] k \in 4..28 -> 301
    [] k \in 29..53 -> IF Kept(k) >= 2^(53 - k) THEN -1
                       ELSE IF Kept(k) = 0 THEN 0 ELSE 301
    [] OTHER -> 0

\* Mutant of agentDelay: min is forgotten.
agentDelayUncapped(n) == Shifted(n - 1)

\* min(30*time.Second<<(n-1), 5*time.Minute)
agentDelay(n) == IF Shifted(n - 1) > 300 THEN 300 ELSE Shifted(n - 1)

\* git fetch or syncOnce fails.
SyncFails ==
  /\ errors < MaxErrors /\ errors' = errors + 1
  /\ wait' = agentDelay(errors + 1) /\ UNCHANGED ctl

\* A sync succeeds, or a new agent starts.
SyncSucceeds == errors' = 0 /\ wait' = 0 /\ UNCHANGED ctl

-----------------------------------------------------------------------------
Next == \/ \E k \in Keys : \/ FailsEarly(k) \/ FailsLate(k) \/ Succeeds(k)
                           \/ Webhook(k) \/ Deleted(k)
        \/ RestartController \/ SyncFails \/ SyncSucceeds

Spec == Init /\ [][Next]_vars

-----------------------------------------------------------------------------
(* Properties.                                                              *)

\* 30s -> 60s -> 120s -> 240s -> 5min cap (troubleshooting.md, CHANGELOG.md).
Documented(n) == IF n > 4 THEN 300 ELSE 30 * 2^(n - 1)

\* The n-th failure in a row of a GatewaySync is waited out as documented,
\* however the failures of several objects mix, and never for longer when the
\* counter has started again on the way: it does when the API key Secret is
\* missing (resetBackoff comes just before that check), by every reconcile of
\* an object that carries the annotation, and when the controller restarts.
DelaysAsDocumented ==
  \A k \in Keys : delay[k] # 0 /\ row[k] # 0 =>
    /\ delay[k] <= Documented(row[k])
    /\ k \notin reset => delay[k] = Documented(row[k])

\* The agent's n-th error in a row is waited out as documented, up to the 29th:
\* from the 30th on the shift overflows, and the wait is only known to be no
\* longer than five minutes.
AgentWaits ==
  wait <= 300 /\ (errors \in 1..29 => wait = Documented(errors))
=============================================================================

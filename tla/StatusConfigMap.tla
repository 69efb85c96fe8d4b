--------------------------- MODULE StatusConfigMap ---------------------------
(***************************************************************************)
(* WriteStatusConfigMap (internal/agent/configmap.go): the agents of all   *)
(* gateways of one GatewaySync write their status into one ConfigMap, each *)
(* under its own key, with Get, then Create or Update under the            *)
(* resourceVersion read, and up to Attempts attempts.  The controller      *)
(* deletes the ConfigMap when the GatewaySync is deleted.                  *)
(*                                                                         *)
(* A request is on its way until the API server handles it.  A caller that *)
(* times out, is cancelled or dies leaves its request behind.  Every       *)
(* status carries the time it was made (LastSyncTime), so an entry is      *)
(* identified with the number of the call that wrote it; 0 is "no entry".  *)
(***************************************************************************)
EXTENDS Naturals

CONSTANTS Agents,   \* gateways that report to the same GatewaySync
          Attempts, \* iterations of the retry loop
          MaxCalls, \* bound on the calls of one gateway
          MaxWipes  \* bound on the cleanups

ASSUME StatusAssumption ==
  Attempts \in Nat \ {0} /\ MaxCalls \in Nat /\ MaxWipes \in Nat

VARIABLES
  cm,      \* the status ConfigMap on the API server
  rev,     \* the API server's revision counter
  flight,  \* requests on their way to it
  pc,      \* where each agent is in WriteStatusConfigMap
  calls,   \* number of calls each agent has made
  lost,    \* attempts of the current call that were refused
  reply,   \* the answer to the current request
  result,  \* what the last call returned
  changed, \* changes of the ConfigMap since the call began (history)
  wipes    \* cleanups so far

local == <<pc, lost, reply, result>>
vars  == <<cm, rev, flight, calls, local, changed, wipes>>

Data    == [Agents -> Nat]
Empty   == [a \in Agents |-> 0]
Request == [from : Agents, call : Nat, kind : {"create", "update"}, rev : Nat,
            data : Data]
Replies == {"none", "ok", "conflict", "error"}

(* One type invariant: the ConfigMap, the requests and the callers.         *)
TypeOK ==
  /\ cm \in [exists : BOOLEAN, rev : Nat, data : Data]
  /\ rev \in Nat /\ flight \in SUBSET Request
  /\ pc \in [Agents -> {"idle", "get", "wait"}]
  /\ calls \in [Agents -> 0..MaxCalls] /\ lost \in [Agents -> 0..Attempts]
  /\ reply \in [Agents -> Replies]
  /\ result \in [Agents -> {"none", "nil", "error"}] /\ changed \in [Agents -> Nat]
  /\ wipes \in 0..MaxWipes

NoConfigMap == [exists |-> FALSE, rev |-> 0, data |-> Empty]

Init ==
  /\ cm = NoConfigMap /\ rev = 0 /\ flight = {}
  /\ pc = [a \in Agents |-> "idle"]
  /\ calls = Empty /\ lost = Empty /\ changed = Empty
  /\ reply = [a \in Agents |-> "none"] /\ result = reply /\ wipes = 0

-----------------------------------------------------------------------------
(* The caller.                                                              *)

Call(a) ==
  /\ pc[a] = "idle" /\ calls[a] < MaxCalls
  /\ pc' = [pc EXCEPT ![a] = "get"]
  /\ calls' = [calls EXCEPT ![a] = @ + 1]
  /\ lost' = [lost EXCEPT ![a] = 0]
  /\ changed' = [changed EXCEPT ![a] = 0]
  /\ result' = [result EXCEPT ![a] = "none"]
  /\ UNCHANGED <<cm, rev, flight, reply, wipes>>

\* Mutant of Written: the entries of the other gateways are not kept.
WrittenAlone(a) == [Empty EXCEPT ![a] = calls[a]]

\* cm.Data[gatewayName] = statusJSON
Written(a) == [cm.data EXCEPT ![a] = calls[a]]

\* c.Get, then c.Create or c.Update of what was read and changed.
GetAndSend(a) ==
  /\ pc[a] = "get"
  /\ flight' = flight \cup
       {[from |-> a, call |-> calls[a],
         kind |-> IF cm.exists THEN "update" ELSE "create",
         rev |-> cm.rev,
         data |-> IF cm.exists THEN Written(a)
                  ELSE [Empty EXCEPT ![a] = calls[a]]]}
  /\ pc' = [pc EXCEPT ![a] = "wait"]
  /\ reply' = [reply EXCEPT ![a] = "none"]
  /\ UNCHANGED <<cm, rev, calls, lost, result, changed, wipes>>

Return(a, r) ==
  /\ pc' = [pc EXCEPT ![a] = "idle"] /\ reply' = [reply EXCEPT ![a] = "none"]
  /\ result' = [result EXCEPT ![a] = r]
  /\ UNCHANGED <<cm, rev, flight, calls, changed, wipes>>

\* Mutant of Retry: the request is sent again as it is, without a new Get.
RetryStale(a) ==
  /\ lost' = [lost EXCEPT ![a] = @ + 1]
  /\ \/ /\ lost[a] + 1 < Attempts
        /\ UNCHANGED <<cm, rev, flight, calls, changed, wipes, pc, reply, result>>
     \/ lost[a] + 1 = Attempts /\ Return(a, "error")

\* AlreadyExists or Conflict: the loop goes on, or is over.
Retry(a) ==
  /\ lost' = [lost EXCEPT ![a] = @ + 1]
  /\ \/ /\ lost[a] + 1 < Attempts
        /\ pc' = [pc EXCEPT ![a] = "get"]
        /\ reply' = [reply EXCEPT ![a] = "none"]
        /\ UNCHANGED <<cm, rev, flight, calls, changed, wipes, result>>
     \/ lost[a] + 1 = Attempts /\ Return(a, "error")

\* Mutant of Answered: any other answer than a conflict counts as success.
AnsweredNil(a) ==
  /\ pc[a] = "wait"
  /\ \/ reply[a] \in {"ok", "error"} /\ Return(a, "nil") /\ UNCHANGED lost
     \/ reply[a] = "conflict" /\ Retry(a)

\* The answer arrives.
Answered(a) ==
  /\ pc[a] = "wait"
  /\ \/ reply[a] = "ok" /\ Return(a, "nil") /\ UNCHANGED lost
     \/ reply[a] = "error" /\ Return(a, "error") /\ UNCHANGED lost
     \/ reply[a] = "conflict" /\ Retry(a)

\* The Get fails, or the caller is cancelled or dies: the request stays.
GiveUp(a) == pc[a] # "idle" /\ Return(a, "error") /\ UNCHANGED lost

-----------------------------------------------------------------------------
(* The API server and the controller.                                       *)

Awaited(m) == pc[m.from] = "wait" /\ calls[m.from] = m.call

Answer(m, r) ==
  /\ flight' = flight \ {m}
  /\ reply' = IF Awaited(m) THEN [reply EXCEPT ![m.from] = r] ELSE reply

Accepts(m) == IF m.kind = "create" THEN ~cm.exists
              ELSE cm.exists /\ cm.rev = m.rev

Changes == changed' = [a \in Agents |-> changed[a] + 1]

Handle(m) ==
  /\ m \in flight
  /\ \/ /\ Accepts(m)
        /\ cm' = [exists |-> TRUE, rev |-> rev + 1, data |-> m.data]
        /\ rev' = rev + 1 /\ Changes /\ Answer(m, "ok")
     \/ /\ cm.exists /\ ~Accepts(m)
        /\ Answer(m, "conflict") /\ UNCHANGED <<cm, rev, changed>>
     \/ /\ m.kind = "update" /\ ~cm.exists
        /\ Answer(m, "error") /\ UNCHANGED <<cm, rev, changed>>
  /\ UNCHANGED <<pc, calls, lost, result, wipes>>

\* Any other refusal (permission, admission, storage).
Refuse(m) ==
  /\ m \in flight /\ Answer(m, "error")
  /\ UNCHANGED <<cm, rev, changed, pc, calls, lost, result, wipes>>

\* cleanupOwnedResources of the controller.
Cleanup ==
  /\ cm.exists /\ wipes < MaxWipes
  /\ cm' = NoConfigMap /\ wipes' = wipes + 1 /\ Changes
  /\ UNCHANGED <<rev, flight, calls, local>>

AgentStep(a) == Call(a) \/ GetAndSend(a) \/ Answered(a) \/ GiveUp(a)

Next == \/ \E a \in Agents : AgentStep(a)
        \/ \E m \in flight : Handle(m) \/ Refuse(m)
        \/ Cleanup

Spec == Init /\ [][Next]_vars

-----------------------------------------------------------------------------
(* Properties.                                                              *)

\* An attempt is refused only because somebody else's change came between its
\* Get and its write: a call that gives up after Attempts attempts has seen at
\* least as many changes, so the writers as a whole make progress.
RefusalsPaid == \A a \in Agents : lost[a] <= changed[a]

\* What is on its way belongs to a call that was made, in the current call at
\* most one request and none once it has been answered; a request that would
\* be accepted changes only the entry of its own gateway, to a later call.
FlightInv ==
  /\ \A m \in flight :
       /\ m.call \in 1..calls[m.from] /\ m.rev <= rev
       /\ m.data[m.from] = m.call
       /\ m.call = calls[m.from] => pc[m.from] # "get"
       /\ Awaited(m) => reply[m.from] = "none"
       /\ m.kind = "create" => \A b \in Agents \ {m.from} : m.data[b] = 0
       /\ Accepts(m) => /\ cm.data[m.from] < m.call
                        /\ \A b \in Agents \ {m.from} : m.data[b] = cm.data[b]
  /\ \A m, n \in flight : m.from = n.from /\ m.call = n.call => m = n
EntryInv ==
  /\ ~cm.exists => cm.data = Empty
  /\ cm.rev <= rev
  /\ \A a \in Agents :
       /\ cm.data[a] <= calls[a]
       /\ pc[a] # "wait" => reply[a] = "none"
       /\ pc[a] = "get" => cm.data[a] < calls[a]
       /\ pc[a] = "wait" /\ reply[a] \in {"none", "conflict"}
            => cm.data[a] < calls[a]
PaidInv ==
  /\ RefusalsPaid
  /\ \A a \in Agents :
       /\ pc[a] = "get" => lost[a] < Attempts
       /\ pc[a] = "wait" =>
            /\ lost[a] < Attempts
            /\ reply[a] = "conflict" => lost[a] < changed[a]
  /\ \A m \in flight :
       Awaited(m) /\ ~Accepts(m) => lost[m.from] < changed[m.from]

\* The inductive invariant of the status ConfigMap.
StatusInv == TypeOK /\ FlightInv /\ EntryInv /\ PaidInv

\* WriteStatusConfigMap gives every gateway a register of its own.
StateOf == [a \in Agents |-> IF pc[a] = "idle" THEN "idle"
                             ELSE IF reply[a] = "ok" THEN "done"
                             ELSE "pending"]
LateOf == [a \in Agents |->
             {m.call : m \in {n \in flight : n.from = a /\ ~Awaited(n)}}]
Store == INSTANCE StatusStore WITH store <- cm.data, state <- StateOf,
                                   late <- LateOf

\* Under concurrent writers, retries, lost answers, abandoned requests and
\* cleanups, a call takes effect at most once and on its own entry only, nil is
\* returned only after it did, and no late request replaces a newer status.
ImplementsStore == Store!Spec
=============================================================================

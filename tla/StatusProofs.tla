---------------------------- MODULE StatusProofs ----------------------------
(***************************************************************************)
(* What is proved about StatusConfigMap for every set of gateways, every   *)
(* number of attempts and every bound on calls and cleanups.               *)
(***************************************************************************)
EXTENDS StatusConfigMap, TLAPS

\* The initial state satisfies the invariant.
LEMMA InvInit == Init => StatusInv
<1> SUFFICES ASSUME Init PROVE StatusInv
  OBVIOUS
<1> USE StatusAssumption DEF Init, NoConfigMap, Empty
<1>1. TypeOK
  BY DEF TypeOK, Data, Replies
<1>2. FlightInv /\ EntryInv /\ PaidInv
  BY DEF FlightInv, EntryInv, PaidInv, RefusalsPaid
<1>3. QED
  BY <1>1, <1>2 DEF StatusInv

\* A new call: what is still on its way belongs to earlier calls.
LEMMA CallInv ==
  ASSUME StatusInv, NEW a \in Agents, Call(a)
  PROVE  StatusInv'
<1> USE StatusAssumption DEF StatusInv, Call
<1>1. TypeOK'
  BY DEF TypeOK
<1> USE DEF TypeOK, Request, Data
<1>2. FlightInv'
  BY DEF FlightInv, Awaited, Accepts
<1>3. EntryInv'
  BY DEF EntryInv
<1>4. PaidInv'
  BY DEF PaidInv, RefusalsPaid, Awaited, Accepts, FlightInv
<1>5. QED
  BY <1>1, <1>2, <1>3, <1>4

\* What GetAndSend puts on its way.
Sent(a) == [from |-> a, call |-> calls[a],
            kind |-> IF cm.exists THEN "update" ELSE "create",
            rev |-> cm.rev,
            data |-> IF cm.exists THEN Written(a)
                     ELSE [Empty EXCEPT ![a] = calls[a]]]

\* It is a request that would be accepted now and changes one entry.
LEMMA SentIs ==
  ASSUME StatusInv, NEW a \in Agents, pc[a] = "get"
  PROVE  /\ Sent(a) \in Request /\ Sent(a).from = a
         /\ Sent(a).call = calls[a] /\ Sent(a).call \in 1..calls[a]
         /\ Sent(a).rev <= rev
         /\ Sent(a).data[a] = calls[a] /\ Accepts(Sent(a))
         /\ cm.data[a] < calls[a]
         /\ \A b \in Agents \ {a} :
              /\ Sent(a).data[b] = cm.data[b]
              /\ Sent(a).kind = "create" => Sent(a).data[b] = 0
<1> USE DEF StatusInv, TypeOK, Data
<1>1. /\ cm.rev <= rev /\ cm.data[a] < calls[a] /\ (~cm.exists => cm.data = Empty)
      /\ calls[a] \in Nat /\ calls[a] \in 1..calls[a]
  BY DEF EntryInv
<1>2. /\ Sent(a).data \in Data /\ Sent(a).data[a] = calls[a]
      /\ \A b \in Agents \ {a} : Sent(a).data[b] = cm.data[b]
  BY <1>1 DEF Sent, Written, Empty
<1>3. Sent(a) \in Request
  BY <1>1, <1>2 DEF Sent, Request
<1>4. Accepts(Sent(a))
  BY DEF Accepts, Sent
<1>5. ASSUME Sent(a).kind = "create", NEW b \in Agents \ {a}
      PROVE  Sent(a).data[b] = 0
  BY <1>1, <1>2, <1>5 DEF Sent, Empty
<1>6. QED
  BY <1>1, <1>2, <1>3, <1>4, <1>5 DEF Sent

\* Sending: the call has no other request on its way.
LEMMA SendInv ==
  ASSUME StatusInv, NEW a \in Agents, GetAndSend(a)
  PROVE  StatusInv'
<1>0. PICK s : s = Sent(a)
  OBVIOUS
<1>1. /\ pc[a] = "get" /\ flight' = flight \cup {s}
      /\ pc' = [pc EXCEPT ![a] = "wait"]
      /\ reply' = [reply EXCEPT ![a] = "none"]
      /\ UNCHANGED <<cm, rev, calls, lost, result, changed, wipes>>
  BY <1>0 DEF GetAndSend, Sent
<1>2. /\ s \in Request /\ s.from = a /\ s.call = calls[a]
      /\ s.call \in 1..calls[a] /\ s.rev <= rev /\ s.data[a] = calls[a]
      /\ Accepts(s) /\ cm.data[a] < calls[a]
      /\ \A b \in Agents \ {a} : /\ s.data[b] = cm.data[b]
                                 /\ s.kind = "create" => s.data[b] = 0
  BY <1>0, <1>1, SentIs
<1> USE DEF StatusInv
<1>3. TypeOK'
  BY <1>1, <1>2 DEF TypeOK, Replies
<1> USE DEF TypeOK
<1>4. \A m \in flight : m.from \in Agents /\ m.call \in Nat
  BY DEF Request
<1>5. \A m \in flight : m.from = a => m.call # calls[a]
  BY <1>1 DEF FlightInv
<1>6. \A m \in flight : Awaited(m)' => Awaited(m) /\ m.from # a
  BY <1>1, <1>4, <1>5 DEF Awaited
<1>7. \A m : Accepts(m)' <=> Accepts(m)
  BY <1>1 DEF Accepts
<1>8. FlightInv'
  <2>1. ASSUME NEW m \in flight
        PROVE  /\ m.call \in 1..calls'[m.from] /\ m.rev <= rev'
               /\ m.data[m.from] = m.call
               /\ m.call = calls'[m.from] => pc'[m.from] # "get"
               /\ Awaited(m)' => reply'[m.from] = "none"
               /\ m.kind = "create" => \A b \in Agents \ {m.from} : m.data[b] = 0
               /\ Accepts(m)' =>
                    /\ cm'.data[m.from] < m.call
                    /\ \A b \in Agents \ {m.from} : m.data[b] = cm'.data[b]
    BY <1>1, <1>4, <1>6, <1>7 DEF FlightInv
  <2>2. /\ s.call \in 1..calls'[s.from] /\ s.rev <= rev'
        /\ s.data[s.from] = s.call
        /\ s.call = calls'[s.from] => pc'[s.from] # "get"
        /\ Awaited(s)' => reply'[s.from] = "none"
        /\ s.kind = "create" => \A b \in Agents \ {s.from} : s.data[b] = 0
        /\ Accepts(s)' =>
             /\ cm'.data[s.from] < s.call
             /\ \A b \in Agents \ {s.from} : s.data[b] = cm'.data[b]
    BY <1>1, <1>2
  <2>3. \A m, n \in flight' : m.from = n.from /\ m.call = n.call => m = n
    BY <1>1, <1>2, <1>5 DEF FlightInv
  <2>4. QED
    BY <1>1, <2>1, <2>2, <2>3 DEF FlightInv
<1>9. EntryInv'
  BY <1>1, <1>2 DEF EntryInv
<1>10. PaidInv'
  BY <1>1, <1>2, <1>6, <1>7 DEF PaidInv, RefusalsPaid
<1>11. QED
  BY <1>3, <1>8, <1>9, <1>10

\* The caller returns or tries again; nothing on its way is awaited any more.
LEMMA EndInv ==
  ASSUME StatusInv, NEW a \in Agents, Answered(a) \/ GiveUp(a)
  PROVE  StatusInv'
<1> USE DEF StatusInv
<1>1. /\ UNCHANGED <<cm, rev, flight, calls, changed, wipes>>
      /\ reply' = [reply EXCEPT ![a] = "none"]
  BY DEF Answered, GiveUp, Return, Retry
<1>2. \/ pc' = [pc EXCEPT ![a] = "idle"] /\ UNCHANGED lost
      \/ /\ pc[a] = "wait" /\ reply[a] = "conflict"
         /\ lost' = [lost EXCEPT ![a] = @ + 1]
         /\ \/ pc' = [pc EXCEPT ![a] = "idle"]
            \/ pc' = [pc EXCEPT ![a] = "get"] /\ lost[a] + 1 < Attempts
  BY DEF Answered, GiveUp, Return, Retry
<1>3. Attempts \in Nat \ {0}
  BY StatusAssumption
<1>4. pc[a] = "wait" => lost[a] < Attempts
  BY DEF PaidInv
<1>5. TypeOK'
  <2>1. lost' \in [Agents -> 0..Attempts]
    BY <1>2, <1>3, <1>4 DEF TypeOK
  <2>2. pc' \in [Agents -> {"idle", "get", "wait"}]
    BY <1>2 DEF TypeOK
  <2>3. result' \in [Agents -> {"none", "nil", "error"}]
    BY DEF Answered, GiveUp, Return, Retry, TypeOK
  <2>4. QED
    BY <1>1, <2>1, <2>2, <2>3 DEF TypeOK, Replies
<1> USE DEF TypeOK
<1>6. \A m \in flight : m.from \in Agents /\ m.call \in Nat
  BY DEF Request
<1>7. \A m \in flight : Awaited(m)' => Awaited(m) /\ m.from # a
  BY <1>1, <1>2, <1>6 DEF Awaited
<1>8. \A m : Accepts(m)' <=> Accepts(m)
  BY <1>1 DEF Accepts
<1>9. ASSUME NEW m \in flight, m.from = a, m.call = calls[a]
      PROVE  pc'[a] # "get"
  <2>1. Awaited(m) => reply[a] = "none"
    BY <1>9 DEF FlightInv
  <2>2. pc[a] = "wait" => Awaited(m)
    BY <1>9 DEF Awaited
  <2>3. QED
    BY <1>2, <2>1, <2>2
<1>10. FlightInv'
  <2>1. \A m \in flight : m.call = calls[m.from] => pc'[m.from] # "get"
    <3>1. TAKE m \in flight
    <3>2. CASE m.from = a
      BY <1>9, <3>2
    <3>3. CASE m.from # a
      BY <1>2, <1>6, <3>3 DEF FlightInv
    <3>4. QED
      BY <3>2, <3>3
  <2>2. \A m \in flight : Awaited(m)' => reply'[m.from] = "none"
    BY <1>1, <1>6, <1>7 DEF FlightInv
  <2>3. QED
    BY <1>1, <1>8, <2>1, <2>2 DEF FlightInv
<1>11. EntryInv'
  <2>1. ASSUME NEW b \in Agents
        PROVE  /\ cm.data[b] <= calls[b]
               /\ pc'[b] # "wait" => reply'[b] = "none"
               /\ pc'[b] = "get" => cm.data[b] < calls[b]
               /\ pc'[b] = "wait" /\ reply'[b] \in {"none", "conflict"}
                    => cm.data[b] < calls[b]
    <3>1. CASE b = a
      BY <1>1, <1>2, <3>1 DEF EntryInv
    <3>2. CASE b # a
      BY <1>1, <1>2, <3>2 DEF EntryInv
    <3>3. QED
      BY <3>1, <3>2
  <2>2. QED
    BY <1>1, <2>1 DEF EntryInv
<1>12. PaidInv'
  <2>1. ASSUME NEW b \in Agents
        PROVE  /\ lost'[b] <= changed'[b]
               /\ pc'[b] = "get" => lost'[b] < Attempts
               /\ pc'[b] = "wait" =>
                    /\ lost'[b] < Attempts
                    /\ reply'[b] = "conflict" => lost'[b] < changed'[b]
    <3>1. /\ lost[b] <= changed[b] /\ lost[b] \in Nat /\ changed[b] \in Nat
          /\ pc[b] = "get" => lost[b] < Attempts
          /\ pc[b] = "wait" => /\ lost[b] < Attempts
                               /\ reply[b] = "conflict" => lost[b] < changed[b]
      BY <1>3 DEF PaidInv, RefusalsPaid
    <3>2. CASE b = a
      BY <1>1, <1>2, <1>3, <3>1, <3>2
    <3>3. CASE b # a
      BY <1>1, <1>2, <3>1, <3>3
    <3>4. QED
      BY <3>2, <3>3
  <2>2. \A m \in flight' : Awaited(m)' /\ ~Accepts(m)' =>
                           lost'[m.from] < changed'[m.from]
    <3>1. \A b \in Agents \ {a} : lost'[b] = lost[b]
      BY <1>2
    <3>2. QED
      BY <1>1, <1>6, <1>7, <1>8, <3>1 DEF PaidInv
  <2>3. QED
    BY <2>1, <2>2 DEF PaidInv, RefusalsPaid
<1>13. QED
  BY <1>5, <1>10, <1>11, <1>12

\* A request that is refused leaves the ConfigMap alone.
LEMMA RefusedInv ==
  ASSUME StatusInv, NEW m \in flight, NEW r \in {"conflict", "error"},
         Answer(m, r), r = "conflict" => ~Accepts(m),
         UNCHANGED <<cm, rev, changed, pc, calls, lost, result, wipes>>
  PROVE  StatusInv'
<1> USE DEF StatusInv
<1>1. /\ flight' = flight \ {m}
      /\ reply' = IF Awaited(m) THEN [reply EXCEPT ![m.from] = r] ELSE reply
  BY DEF Answer
<1>2. TypeOK'
  BY <1>1 DEF TypeOK, Replies
<1> USE DEF TypeOK
<1>3. \A n \in flight : n.from \in Agents /\ n.call \in Nat
  BY DEF Request
<1>4. \A n : (Accepts(n)' <=> Accepts(n)) /\ (Awaited(n)' <=> Awaited(n))
  BY DEF Accepts, Awaited
<1>5. \A n \in flight' : Awaited(n) /\ Awaited(m) => n.from # m.from
  BY <1>1 DEF FlightInv, Awaited
<1>6. FlightInv'
  <2>1. \A n \in flight' : Awaited(n)' => reply'[n.from] = "none"
    BY <1>1, <1>3, <1>4, <1>5 DEF FlightInv
  <2>2. QED
    BY <1>1, <1>4, <2>1 DEF FlightInv
<1>7. Awaited(m) => reply[m.from] = "none" /\ pc[m.from] = "wait"
  BY DEF FlightInv, Awaited
<1>8. EntryInv'
  BY <1>1, <1>3, <1>7 DEF EntryInv
<1>9. PaidInv'
  <2>1. ASSUME NEW a \in Agents, pc[a] = "wait", reply'[a] = "conflict"
        PROVE  lost[a] < changed[a]
    BY <1>1, <1>3, <2>1 DEF PaidInv
  <2>2. QED
    BY <1>1, <1>4, <2>1 DEF PaidInv, RefusalsPaid
<1>10. QED
  BY <1>2, <1>6, <1>8, <1>9

\* After any change of the ConfigMap only creates are acceptable, and only if
\* it is gone; every caller has seen one more change.
LEMMA AcceptedInv ==
  ASSUME StatusInv, NEW m \in flight, Accepts(m), Answer(m, "ok"),
         cm' = [exists |-> TRUE, rev |-> rev + 1, data |-> m.data],
         rev' = rev + 1, Changes, UNCHANGED <<pc, calls, lost, result, wipes>>
  PROVE  StatusInv'
<1> USE DEF StatusInv
<1>1. /\ flight' = flight \ {m}
      /\ reply' = IF Awaited(m) THEN [reply EXCEPT ![m.from] = "ok"] ELSE reply
      /\ changed' = [a \in Agents |-> changed[a] + 1]
  BY DEF Answer, Changes
<1>2. m \in Request /\ m.data \in Data /\ m.from \in Agents /\ m.call \in Nat
  BY DEF TypeOK, Request
<1>3. TypeOK'
  BY <1>1, <1>2 DEF TypeOK, Replies
<1> USE DEF TypeOK
<1>4. \A n \in flight : n.from \in Agents /\ n.call \in Nat /\ n.rev \in Nat
                       /\ n.kind \in {"create", "update"}
  BY DEF Request
<1>5. \A n : Awaited(n)' <=> Awaited(n)
  BY DEF Awaited
<1>6. \A n \in flight : ~Accepts(n)'
  BY <1>4 DEF Accepts, FlightInv
<1>7. \A n \in flight' : Awaited(n) /\ Awaited(m) => n.from # m.from
  BY <1>1 DEF FlightInv, Awaited
<1>8. FlightInv'
  <2>1. \A n \in flight' : Awaited(n)' => reply'[n.from] = "none"
    BY <1>1, <1>4, <1>5, <1>7 DEF FlightInv
  <2>2. \A n \in flight' : n.rev <= rev'
    BY <1>1, <1>4 DEF FlightInv
  <2>3. QED
    BY <1>1, <1>6, <2>1, <2>2 DEF FlightInv
<1>9. EntryInv'
  <2>1. ASSUME NEW b \in Agents
        PROVE  /\ m.data[b] <= calls[b]
               /\ pc[b] # "wait" => reply'[b] = "none"
               /\ pc[b] = "get" => m.data[b] < calls[b]
               /\ pc[b] = "wait" /\ reply'[b] \in {"none", "conflict"}
                    => m.data[b] < calls[b]
    <3>1. CASE b # m.from
      <4>1. m.data[b] = cm.data[b]
        BY <3>1 DEF FlightInv
      <4>2. reply'[b] = reply[b]
        BY <1>1, <1>2, <3>1
      <4>3. QED
        BY <4>1, <4>2 DEF EntryInv
    <3>2. CASE b = m.from
      <4>1. /\ m.data[b] = m.call /\ m.call \in 1..calls[b]
            /\ m.call = calls[b] => pc[b] # "get"
            /\ Awaited(m) <=> pc[b] = "wait" /\ calls[b] = m.call
        BY <3>2 DEF FlightInv, Awaited
      <4>2. /\ Awaited(m) => reply'[b] = "ok"
            /\ ~Awaited(m) => reply'[b] = reply[b]
        BY <1>1, <1>2, <3>2
      <4>3. QED
        BY <4>1, <4>2 DEF EntryInv
    <3>3. QED
      BY <3>1, <3>2
  <2>2. QED
    BY <2>1 DEF EntryInv
<1>10. PaidInv'
  <2>1. ASSUME NEW b \in Agents
        PROVE  /\ lost[b] < changed'[b]
               /\ pc[b] \in {"get", "wait"} => lost[b] < Attempts
    BY <1>1 DEF PaidInv, RefusalsPaid
  <2>2. \A b \in Agents : lost[b] <= changed'[b]
    BY <1>1, <2>1
  <2>3. QED
    BY <1>1, <1>4, <2>1, <2>2 DEF PaidInv, RefusalsPaid
<1>11. QED
  BY <1>3, <1>8, <1>9, <1>10

\* The cleanup empties every entry.
LEMMA CleanupInv == StatusInv /\ Cleanup => StatusInv'
<1> SUFFICES ASSUME StatusInv, Cleanup PROVE StatusInv'
  OBVIOUS
<1> USE DEF StatusInv
<1>1. /\ cm' = NoConfigMap /\ wipes < MaxWipes /\ wipes' = wipes + 1
      /\ changed' = [a \in Agents |-> changed[a] + 1]
      /\ UNCHANGED <<rev, flight, calls, pc, lost, reply, result>>
  BY DEF Cleanup, Changes, local
<1>2. /\ ~NoConfigMap.exists /\ NoConfigMap.rev = 0 /\ NoConfigMap.data = Empty
      /\ Empty \in Data /\ \A a \in Agents : Empty[a] = 0
      /\ NoConfigMap \in [exists : BOOLEAN, rev : Nat, data : Data]
  BY DEF NoConfigMap, Empty, Data
<1>3. TypeOK'
  <2>1. wipes' \in 0..MaxWipes
    BY <1>1, StatusAssumption DEF TypeOK
  <2>2. QED
    BY <1>1, <1>2, <2>1 DEF TypeOK
<1> USE DEF TypeOK
<1>4. \A n \in flight : n.from \in Agents /\ n.call \in Nat
  BY DEF Request
<1>5. \A n : (Awaited(n)' <=> Awaited(n))
            /\ (Accepts(n)' <=> n.kind = "create")
  BY <1>1, <1>2 DEF Awaited, Accepts
<1>6. FlightInv'
  <2>1. ASSUME NEW n \in flight, n.kind = "create"
        PROVE  /\ cm'.data[n.from] < n.call
               /\ \A b \in Agents \ {n.from} : n.data[b] = cm'.data[b]
    BY <1>1, <1>2, <1>4, <2>1 DEF FlightInv
  <2>2. QED
    BY <1>1, <1>5, <2>1 DEF FlightInv
<1>7. EntryInv'
  BY <1>1, <1>2 DEF EntryInv, Data
<1>8. PaidInv'
  <2>1. ASSUME NEW b \in Agents
        PROVE  /\ lost[b] < changed'[b] /\ lost[b] <= changed'[b]
               /\ pc[b] \in {"get", "wait"} => lost[b] < Attempts
    BY <1>1 DEF PaidInv, RefusalsPaid
  <2>2. QED
    BY <1>1, <1>4, <2>1 DEF PaidInv, RefusalsPaid
<1>9. QED
  BY <1>3, <1>6, <1>7, <1>8

\* Every step preserves the invariant.
LEMMA InvNext == StatusInv /\ [Next]_vars => StatusInv'
<1> SUFFICES ASSUME StatusInv, [Next]_vars PROVE StatusInv'
  OBVIOUS
<1>1. ASSUME NEW a \in Agents, AgentStep(a) PROVE StatusInv'
  BY <1>1, CallInv, SendInv, EndInv DEF AgentStep
<1>2. ASSUME NEW m \in flight, Handle(m) PROVE StatusInv'
  <2>1. CASE Accepts(m) /\ Answer(m, "ok")
             /\ cm' = [exists |-> TRUE, rev |-> rev + 1, data |-> m.data]
             /\ rev' = rev + 1 /\ Changes
    BY <1>2, <2>1, AcceptedInv DEF Handle
  <2>2. CASE /\ ~Accepts(m) /\ Answer(m, "conflict")
             /\ UNCHANGED <<cm, rev, changed>>
    BY <1>2, <2>2, RefusedInv DEF Handle
  <2>3. CASE Answer(m, "error") /\ UNCHANGED <<cm, rev, changed>>
    BY <1>2, <2>3, RefusedInv DEF Handle
  <2>4. QED
    BY <1>2, <2>1, <2>2, <2>3 DEF Handle
<1>3. ASSUME NEW m \in flight, Refuse(m) PROVE StatusInv'
  BY <1>3, RefusedInv DEF Refuse
<1>4. CASE UNCHANGED vars
  <2>1. /\ TypeOK' /\ EntryInv' /\ RefusalsPaid'
    BY <1>4 DEF vars, local, StatusInv, TypeOK, EntryInv, PaidInv, RefusalsPaid
  <2>2. \A m : (Awaited(m)' <=> Awaited(m)) /\ (Accepts(m)' <=> Accepts(m))
    BY <1>4 DEF vars, local, Awaited, Accepts
  <2>3. FlightInv'
    BY <1>4, <2>2 DEF vars, local, StatusInv, FlightInv
  <2>4. PaidInv'
    BY <1>4, <2>1, <2>2 DEF vars, local, StatusInv, PaidInv
  <2>5. QED
    BY <2>1, <2>3, <2>4 DEF StatusInv
<1>5. QED
  BY <1>1, <1>2, <1>3, <1>4, CleanupInv DEF Next

\* For every number of gateways and attempts, and with answers lost and
\* requests left behind: the invariant of the status ConfigMap holds.
THEOREM StatusInvariant == Spec => []StatusInv
BY InvInit, InvNext, PTL DEF Spec

\* Optimistic concurrency is not wasteful: every refused attempt of
\* WriteStatusConfigMap is paid for by a change that somebody else made.
THEOREM StatusRefusalsPaid == Spec => []RefusalsPaid
<1>1. StatusInv => RefusalsPaid
  BY DEF StatusInv, PaidInv
<1>2. QED
  BY <1>1, StatusInvariant, PTL

-----------------------------------------------------------------------------
(* The refinement.                                                          *)

\* Initially all registers are empty and nobody writes.
LEMMA StoreInit == Init => Store!Init
BY DEF Init, Store!Init, Store!Empty, NoConfigMap, Empty, StateOf, LateOf,
       Awaited

\* Calls, returns and refused attempts are steps of the register's caller.
LEMMA StoreAgent ==
  ASSUME StatusInv, NEW a \in Agents, AgentStep(a)
  PROVE  Store!Next \/ UNCHANGED Store!vars
<1> USE DEF StatusInv, TypeOK
<1>1. \A m \in flight : m.from \in Agents /\ m.call \in Nat
  BY DEF Request
<1>2. CASE Call(a)
  <2>1. /\ pc[a] = "idle" /\ pc' = [pc EXCEPT ![a] = "get"]
        /\ calls[a] < MaxCalls /\ calls' = [calls EXCEPT ![a] = @ + 1]
        /\ result' = [result EXCEPT ![a] = "none"]
        /\ UNCHANGED <<cm, flight, reply>>
    BY <1>2 DEF Call
  <2>2. \A m \in flight : Awaited(m)' <=> Awaited(m)
    BY <1>1, <2>1 DEF Awaited
  <2>3. LateOf' = LateOf
    BY <2>1, <2>2 DEF LateOf
  <2>4. StateOf[a] = "idle" /\ StateOf' = [StateOf EXCEPT ![a] = "pending"]
    <3>1. reply[a] = "none"
      BY <2>1 DEF EntryInv
    <3>2. QED
      BY <2>1, <3>1 DEF StateOf
  <2>5. Store!Begin(a)
    BY <2>1, <2>3, <2>4 DEF Store!Begin
  <2>6. QED
    BY <2>5 DEF Store!Next
<1>3. CASE GetAndSend(a)
  <2>1. PICK s : s = Sent(a)
    OBVIOUS
  <2>2. /\ pc[a] = "get" /\ pc' = [pc EXCEPT ![a] = "wait"]
        /\ flight' = flight \cup {s} /\ s.from = a /\ s.call = calls[a]
        /\ reply' = [reply EXCEPT ![a] = "none"]
        /\ UNCHANGED <<cm, calls, result>>
    BY <1>3, <2>1 DEF GetAndSend, Sent
  <2>3. \A m \in flight : Awaited(m)' <=> Awaited(m)
    BY <1>1, <2>2 DEF Awaited, FlightInv
  <2>4. Awaited(s)'
    BY <2>2 DEF Awaited
  <2>5. LateOf' = LateOf
    BY <2>2, <2>3, <2>4 DEF LateOf
  <2>6. StateOf' = StateOf
    BY <2>2 DEF StateOf, EntryInv
  <2>7. QED
    BY <2>2, <2>5, <2>6 DEF Store!vars
<1>4. CASE Answered(a) \/ GiveUp(a)
  <2>1. /\ UNCHANGED <<cm, flight, calls>> /\ pc[a] # "idle"
        /\ reply' = [reply EXCEPT ![a] = "none"]
        /\ \/ /\ pc' = [pc EXCEPT ![a] = "idle"]
              /\ \/ result' = [result EXCEPT ![a] = "error"]
                 \/ /\ result' = [result EXCEPT ![a] = "nil"]
                    /\ pc[a] = "wait" /\ reply[a] = "ok"
           \/ /\ pc' = [pc EXCEPT ![a] = "get"] /\ reply[a] = "conflict"
              /\ UNCHANGED result
    BY <1>4 DEF Answered, GiveUp, Return, Retry
  <2>2. CASE /\ pc' = [pc EXCEPT ![a] = "get"] /\ reply[a] = "conflict"
             /\ UNCHANGED result
    <3>1. pc[a] = "wait"
      BY <2>1, <2>2 DEF EntryInv
    <3>2. \A m \in flight : Awaited(m)' <=> Awaited(m)
      BY <1>1, <2>1, <2>2, <3>1 DEF Awaited, FlightInv
    <3>3. LateOf' = LateOf
      BY <2>1, <3>2 DEF LateOf
    <3>4. StateOf' = StateOf
      BY <2>1, <2>2, <3>1 DEF StateOf
    <3>5. QED
      BY <2>1, <2>2, <3>3, <3>4 DEF Store!vars
  <2>3. ASSUME pc' = [pc EXCEPT ![a] = "idle"]
        PROVE  /\ StateOf[a] # "idle"
               /\ StateOf' = [StateOf EXCEPT ![a] = "idle"]
    BY <2>1, <2>3 DEF StateOf
  <2>4. ASSUME pc' = [pc EXCEPT ![a] = "idle"]
        PROVE  \A m \in flight : Awaited(m)' <=> Awaited(m) /\ m.from # a
    BY <1>1, <2>1, <2>4 DEF Awaited
  <2>5. CASE /\ pc' = [pc EXCEPT ![a] = "idle"]
             /\ result' = [result EXCEPT ![a] = "nil"]
             /\ pc[a] = "wait" /\ reply[a] = "ok"
    <3>1. \A m \in flight : m.from = a => ~Awaited(m)
      BY <2>5 DEF FlightInv
    <3>2. LateOf' = LateOf
      BY <2>1, <2>4, <2>5, <3>1 DEF LateOf
    <3>3. StateOf[a] = "done"
      BY <2>5 DEF StateOf
    <3>4. Store!Succeed(a)
      BY <2>1, <2>3, <2>5, <3>2, <3>3 DEF Store!Succeed
    <3>5. QED
      BY <3>4 DEF Store!Next
  <2>6. CASE /\ pc' = [pc EXCEPT ![a] = "idle"]
             /\ result' = [result EXCEPT ![a] = "error"]
    <3>1. CASE \A m \in flight : m.from = a => ~Awaited(m)
      <4>1. LateOf' = LateOf
        BY <2>1, <2>4, <2>6, <3>1 DEF LateOf
      <4>2. Store!Fail(a)
        BY <2>1, <2>3, <2>6, <4>1 DEF Store!Fail
      <4>3. QED
        BY <4>2 DEF Store!Next
    <3>2. CASE \E m \in flight : m.from = a /\ Awaited(m)
      <4>1. PICK m \in flight : m.from = a /\ Awaited(m)
        BY <3>2
      <4>2. m.call = calls[a] /\ reply[a] = "none"
        BY <4>1 DEF Awaited, FlightInv
      <4>3. StateOf[a] = "pending"
        BY <2>1, <4>2 DEF StateOf
      <4>4. \A n \in flight : n.from = a /\ Awaited(n) => n.call = calls[a]
        BY DEF Awaited
      <4>5. LateOf' = [LateOf EXCEPT ![a] = @ \cup {calls[a]}]
        <5> DEFINE Calls(b) == {n.call : n \in {k \in flight : k.from = b
                                                        /\ ~Awaited(k)}}
                   After(b) == {n.call : n \in {k \in flight :
                                  k.from = b /\ ~(Awaited(k) /\ k.from # a)}}
        <5>1. LateOf = [b \in Agents |-> Calls(b)]
          BY DEF LateOf
        <5>2. LateOf' = [b \in Agents |-> After(b)]
          BY <2>1, <2>4, <2>6 DEF LateOf
        <5>3. \A b \in Agents \ {a} : After(b) = Calls(b)
          OBVIOUS
        <5>4. After(a) = Calls(a) \cup {calls[a]}
          BY <4>1, <4>2, <4>4
        <5>5. QED
          BY <5>1, <5>2, <5>3, <5>4
      <4>6. Store!Fail(a)
        BY <2>1, <2>3, <2>6, <4>3, <4>5 DEF Store!Fail
      <4>7. QED
        BY <4>6 DEF Store!Next
    <3>3. QED
      BY <3>1, <3>2
  <2>7. QED
    BY <2>1, <2>2, <2>5, <2>6
<1>5. QED
  BY <1>2, <1>3, <1>4 DEF AgentStep

\* Taking a request off its way: awaited, or left behind by its caller.
LEMMA AnswerStep ==
  ASSUME StatusInv, NEW m \in flight, NEW r \in {"ok", "conflict", "error"},
         Answer(m, r), UNCHANGED <<pc, calls, result>>
  PROVE  /\ Awaited(m) => /\ LateOf' = LateOf /\ StateOf[m.from] = "pending"
                          /\ r # "ok" => StateOf' = StateOf
                          /\ r = "ok" =>
                               StateOf' = [StateOf EXCEPT ![m.from] = "done"]
         /\ ~Awaited(m) => /\ StateOf' = StateOf /\ m.call \in LateOf[m.from]
                           /\ LateOf' = [LateOf EXCEPT ![m.from] = @ \ {m.call}]
<1> USE DEF StatusInv, TypeOK
<1>1. /\ flight' = flight \ {m}
      /\ reply' = IF Awaited(m) THEN [reply EXCEPT ![m.from] = r] ELSE reply
  BY DEF Answer
<1>2. m.from \in Agents /\ m.call \in Nat
  BY DEF Request
<1>3. \A n : Awaited(n)' <=> Awaited(n)
  BY DEF Awaited
<1> DEFINE Calls(b) == {n.call : n \in {k \in flight : k.from = b
                                                       /\ ~Awaited(k)}}
           After(b) == {n.call : n \in {k \in flight \ {m} : k.from = b
                                                             /\ ~Awaited(k)}}
<1>4. LateOf = [b \in Agents |-> Calls(b)] /\ LateOf' = [b \in Agents |-> After(b)]
  BY <1>1, <1>3 DEF LateOf
<1>5. ASSUME Awaited(m)
      PROVE  /\ LateOf' = LateOf /\ StateOf[m.from] = "pending"
             /\ r # "ok" => StateOf' = StateOf
             /\ r = "ok" => StateOf' = [StateOf EXCEPT ![m.from] = "done"]
  <2>1. reply[m.from] = "none" /\ pc[m.from] = "wait"
    BY <1>5 DEF FlightInv, Awaited
  <2>2. \A b \in Agents : After(b) = Calls(b)
    BY <1>5
  <2>3. LateOf' = LateOf
    BY <1>4, <2>2
  <2>4. /\ StateOf[m.from] = "pending"
        /\ r # "ok" => StateOf' = StateOf
        /\ r = "ok" => StateOf' = [StateOf EXCEPT ![m.from] = "done"]
    BY <1>1, <1>2, <1>5, <2>1 DEF StateOf
  <2>5. QED
    BY <2>3, <2>4
<1>6. ASSUME ~Awaited(m)
      PROVE  /\ StateOf' = StateOf /\ m.call \in LateOf[m.from]
             /\ LateOf' = [LateOf EXCEPT ![m.from] = @ \ {m.call}]
  <2>1. StateOf' = StateOf
    BY <1>1, <1>6 DEF StateOf
  <2>2. m.call \in Calls(m.from)
    BY <1>6
  <2>3. After(m.from) = Calls(m.from) \ {m.call}
    <3>1. \A n \in flight : n.from = m.from /\ n.call = m.call => n = m
      BY DEF FlightInv
    <3>2. QED
      BY <3>1
  <2>4. \A b \in Agents \ {m.from} : After(b) = Calls(b)
    OBVIOUS
  <2> HIDE DEF Calls, After
  <2>5. LateOf[m.from] = Calls(m.from)
    BY <1>2, <1>4
  <2>6. LateOf' = [LateOf EXCEPT ![m.from] = @ \ {m.call}]
    BY <1>2, <1>4, <2>3, <2>4
  <2>7. QED
    BY <2>1, <2>2, <2>5, <2>6
<1>7. QED
  BY <1>5, <1>6

\* A refused request changes no register.
LEMMA StoreRefused ==
  ASSUME StatusInv, NEW m \in flight, NEW r \in {"conflict", "error"},
         Answer(m, r), UNCHANGED <<cm, pc, calls, result>>
  PROVE  Store!Next \/ UNCHANGED Store!vars
<1>1. m.from \in Agents
  BY DEF StatusInv, TypeOK, Request
<1>2. CASE Awaited(m)
  BY <1>2, AnswerStep DEF Store!vars
<1>3. CASE ~Awaited(m)
  <2>1. Store!Late(m.from, m.call) /\ m.call \in LateOf[m.from]
    BY <1>3, AnswerStep DEF Store!Late
  <2>2. QED
    BY <1>1, <2>1 DEF Store!Next
<1>4. QED
  BY <1>2, <1>3

\* An accepted request writes one register, to a later call than it holds.
LEMMA StoreAccepted ==
  ASSUME StatusInv, NEW m \in flight, Accepts(m), Answer(m, "ok"),
         cm' = [exists |-> TRUE, rev |-> rev + 1, data |-> m.data],
         UNCHANGED <<pc, calls, result>>
  PROVE  Store!Next \/ UNCHANGED Store!vars
<1> USE DEF StatusInv, TypeOK
<1>1. m.from \in Agents /\ m.data \in Data /\ m.call \in Nat
  BY DEF Request
<1>2. Store!Take(m.from, m.call)
  <2>1. /\ cm.data[m.from] < m.call /\ m.data[m.from] = m.call
        /\ \A b \in Agents \ {m.from} : m.data[b] = cm.data[b]
    BY DEF FlightInv
  <2>2. m.data = [cm.data EXCEPT ![m.from] = m.call]
    BY <1>1, <2>1 DEF Data
  <2>3. cm.data[m.from] \in Nat
    BY <1>1 DEF Data
  <2>4. QED
    BY <1>1, <2>1, <2>2, <2>3 DEF Store!Take
<1>3. CASE Awaited(m)
  <2>1. m.call = calls[m.from]
    BY <1>3 DEF Awaited
  <2>2. Store!Apply(m.from)
    BY <1>2, <1>3, <2>1, AnswerStep DEF Store!Apply
  <2>3. QED
    BY <1>1, <2>2 DEF Store!Next
<1>4. CASE ~Awaited(m)
  <2>1. Store!Late(m.from, m.call) /\ m.call \in LateOf[m.from]
    BY <1>2, <1>4, AnswerStep DEF Store!Late
  <2>2. QED
    BY <1>1, <2>1 DEF Store!Next
<1>5. QED
  BY <1>3, <1>4

\* Every step of the status ConfigMap is a step of the registers, or none.
LEMMA StoreNext == StatusInv /\ [Next]_vars => [Store!Next]_(Store!vars)
<1> SUFFICES ASSUME StatusInv, [Next]_vars
             PROVE  Store!Next \/ UNCHANGED Store!vars
  OBVIOUS
<1>1. ASSUME NEW a \in Agents, AgentStep(a)
      PROVE  Store!Next \/ UNCHANGED Store!vars
  BY <1>1, StoreAgent
<1>2. ASSUME NEW m \in flight, Handle(m)
      PROVE  Store!Next \/ UNCHANGED Store!vars
  <2>1. UNCHANGED <<pc, calls, result>>
    BY <1>2 DEF Handle
  <2>2. CASE Accepts(m) /\ Answer(m, "ok")
             /\ cm' = [exists |-> TRUE, rev |-> rev + 1, data |-> m.data]
    BY <2>1, <2>2, StoreAccepted
  <2>3. CASE Answer(m, "conflict") /\ UNCHANGED cm
    BY <2>1, <2>3, StoreRefused
  <2>4. CASE Answer(m, "error") /\ UNCHANGED cm
    BY <2>1, <2>4, StoreRefused
  <2>5. QED
    BY <1>2, <2>2, <2>3, <2>4 DEF Handle
<1>3. ASSUME NEW m \in flight, Refuse(m)
      PROVE  Store!Next \/ UNCHANGED Store!vars
  BY <1>3, StoreRefused DEF Refuse
<1>4. CASE Cleanup
  <2>1. /\ cm'.data = Empty /\ LateOf' = LateOf /\ StateOf' = StateOf
        /\ UNCHANGED <<calls, result>>
    BY <1>4 DEF Cleanup, NoConfigMap, local, LateOf, StateOf, Awaited
  <2>2. Store!Wipe
    BY <2>1 DEF Store!Wipe, Store!Empty, Empty
  <2>3. QED
    BY <2>2 DEF Store!Next
<1>5. CASE UNCHANGED vars
  BY <1>5 DEF vars, local, Store!vars, LateOf, StateOf, Awaited
<1>6. QED
  BY <1>1, <1>2, <1>3, <1>4, <1>5 DEF Next

\* WriteStatusConfigMap implements one register per gateway, for every number
\* of gateways and attempts: this is what lets Agent treat a status write as
\* one step.
THEOREM StatusImplementsStore == Spec => ImplementsStore
<1>1. Spec => Store!Spec
  BY StoreInit, StoreNext, StatusInvariant, PTL DEF Spec, Store!Spec
<1>2. QED
  BY <1>1 DEF ImplementsStore
=============================================================================

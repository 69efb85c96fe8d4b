----------------------------- MODULE StatusStore -----------------------------
(***************************************************************************)
(* What WriteStatusConfigMap promises the agents: one register per gateway.*)
(* A call of WriteStatusConfigMap takes effect at most once, at one point  *)
(* in time, and on the register of its own gateway only; it returns nil    *)
(* only after it took effect.  A call that returned an error may still     *)
(* take effect afterwards, but never replaces what a later call of the     *)
(* same gateway wrote.  The controller may wipe all registers (cleanup of  *)
(* a deleted GatewaySync).                                                 *)
(*                                                                         *)
(* Every status carries the time it was made, so a status is identified    *)
(* with the number of the call that writes it; 0 is "no entry".            *)
(***************************************************************************)
EXTENDS Naturals

CONSTANTS Agents,  \* gateways that report to the same GatewaySync
          MaxCalls \* bound on the calls of one gateway

VARIABLES store,   \* what each gateway's register holds
          calls,   \* number of calls each gateway has made
          state,   \* of its current call: not begun, without or with effect
          late,    \* calls that returned an error and may yet take effect
          result   \* what the last call returned

vars == <<store, calls, state, late, result>>

Empty == [a \in Agents |-> 0]

Init ==
  /\ store = Empty /\ calls = Empty
  /\ state = [a \in Agents |-> "idle"]
  /\ late = [a \in Agents |-> {}]
  /\ result = [a \in Agents |-> "none"]

Begin(a) ==
  /\ state[a] = "idle" /\ calls[a] < MaxCalls
  /\ calls' = [calls EXCEPT ![a] = @ + 1]
  /\ state' = [state EXCEPT ![a] = "pending"]
  /\ result' = [result EXCEPT ![a] = "none"]
  /\ UNCHANGED <<store, late>>

Take(a, n) == n > store[a] /\ store' = [store EXCEPT ![a] = n]

Apply(a) ==
  /\ state[a] = "pending" /\ Take(a, calls[a])
  /\ state' = [state EXCEPT ![a] = "done"]
  /\ UNCHANGED <<calls, late, result>>

Succeed(a) ==
  /\ state[a] = "done" /\ state' = [state EXCEPT ![a] = "idle"]
  /\ result' = [result EXCEPT ![a] = "nil"]
  /\ UNCHANGED <<store, calls, late>>

Fail(a) ==
  /\ state[a] # "idle" /\ state' = [state EXCEPT ![a] = "idle"]
  /\ result' = [result EXCEPT ![a] = "error"]
  /\ \/ UNCHANGED late
     \/ /\ state[a] = "pending"
        /\ late' = [late EXCEPT ![a] = @ \cup {calls[a]}]
  /\ UNCHANGED <<store, calls>>

Late(a, n) ==
  /\ late' = [late EXCEPT ![a] = @ \ {n}]
  /\ Take(a, n) \/ UNCHANGED store
  /\ UNCHANGED <<calls, state, result>>

Wipe == store' = Empty /\ UNCHANGED <<calls, state, late, result>>

Next == \/ Wipe
        \/ \E a \in Agents : Begin(a) \/ Apply(a) \/ Succeed(a) \/ Fail(a)
        \/ \E a \in Agents : \E n \in late[a] : Late(a, n)

Spec == Init /\ [][Next]_vars
=============================================================================

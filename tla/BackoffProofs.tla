---------------------------- MODULE BackoffProofs ----------------------------
(***************************************************************************)
(* What is proved about Backoff for every set of GatewaySyncs and every    *)
(* number of failures: both backoffs wait as documented.  The loop of      *)
(* backoffDelay is a recursive function; that it is past its cap from the  *)
(* fourth doubling on is an induction, carried out with the least number   *)
(* that would be a counterexample.                                         *)
(***************************************************************************)
EXTENDS Backoff, TLAPS, WellFoundedInduction

\* A well-founded relation that orders the numbers.
LEMMA NatOrder ==
  \E R : IsWellFoundedOn(R, Nat) /\ \A x, y \in Nat : x < y => <<x, y>> \in R
BY NatLessThanWellFounded DEF OpToRel

\* Every set of natural numbers that is not empty has a least element.
LEMMA LeastNumber ==
  ASSUME NEW T, T \subseteq Nat, T # {}
  PROVE  \E x \in T : \A y \in T : x <= y
<1>1. PICK R : /\ IsWellFoundedOn(R, Nat)
               /\ \A x, y \in Nat : x < y => <<x, y>> \in R
  BY NatOrder
<1>2. IsWellFoundedOn(R, Nat)
  BY <1>1
<1>3. \E x \in T : \A y \in T : ~(<<y, x>> \in R)
  BY <1>2, WFMin, Zenon
<1>4. PICK x \in T : \A y \in T : ~(<<y, x>> \in R)
  BY <1>3
<1>5. ASSUME NEW y \in T PROVE x <= y
  <2>1. x \in Nat /\ y \in Nat
    OBVIOUS
  <2>2. y < x => <<y, x>> \in R
    BY <1>1, <2>1
  <2>3. QED
    BY <1>4, <2>1, <2>2
<1>6. QED
  BY <1>5

-----------------------------------------------------------------------------
(* The loop of backoffDelay.                                                *)

\* A function that satisfies the equation of Doubled.
Doublings ==
  [i \in Nat |-> CASE i = 0 -> 30 [] i = 1 -> 60 [] i = 2 -> 120
                   [] i = 3 -> 240 [] OTHER -> 480]

\* Doubled satisfies its equation, since some function does.
LEMMA DoubledEquation ==
  Doubled = [i \in Nat |-> IF i = 0 THEN 30
                           ELSE IF Doubled[i - 1] < 300 THEN 2 * Doubled[i - 1]
                           ELSE Doubled[i - 1]]
<1>1. Doublings = [i \in Nat |->
                     IF i = 0 THEN 30
                     ELSE IF Doublings[i - 1] < 300 THEN 2 * Doublings[i - 1]
                     ELSE Doublings[i - 1]]
  BY DEF Doublings
<1>2. QED
  BY <1>1 DEF Doubled

\* One turn of the loop.
LEMMA DoubledStep ==
  /\ Doubled[0] = 30
  /\ \A i \in Nat : Doubled[i + 1] = IF Doubled[i] < 300 THEN 2 * Doubled[i]
                                     ELSE Doubled[i]
<1>1. ASSUME NEW i \in Nat
      PROVE  Doubled[i] = IF i = 0 THEN 30
                          ELSE IF Doubled[i - 1] < 300 THEN 2 * Doubled[i - 1]
                          ELSE Doubled[i - 1]
  BY DoubledEquation
<1>2. Doubled[0] = 30
  BY <1>1
<1>3. ASSUME NEW i \in Nat
      PROVE  Doubled[i + 1] = IF Doubled[i] < 300 THEN 2 * Doubled[i]
                              ELSE Doubled[i]
  <2>1. i + 1 \in Nat /\ i + 1 # 0 /\ (i + 1) - 1 = i
    OBVIOUS
  <2>2. QED
    BY <1>1, <2>1
<1>4. QED
  BY <1>2, <1>3

\* The delays before the cap.
LEMMA DoubledFirst ==
  /\ Doubled[0] = 30 /\ Doubled[1] = 60 /\ Doubled[2] = 120
  /\ Doubled[3] = 240 /\ Doubled[4] = 480
<1>1. Doubled[0 + 1] = 60
  BY DoubledStep
<1>2. Doubled[1 + 1] = 120
  BY <1>1, DoubledStep
<1>3. Doubled[2 + 1] = 240
  BY <1>2, DoubledStep
<1>4. Doubled[3 + 1] = 480
  BY <1>3, DoubledStep
<1>5. QED
  BY <1>1, <1>2, <1>3, <1>4, DoubledStep

\* The loop stops at the fourth doubling: by induction, 480 from there on.
LEMMA DoubledStops == \A i \in Nat : i >= 4 => Doubled[i] = 480
<1> DEFINE Bad == {i \in Nat : i >= 4 /\ Doubled[i] # 480}
<1>1. Bad = {}
  <2> SUFFICES ASSUME Bad # {} PROVE FALSE
    OBVIOUS
  <2>1. \E x \in Bad : \A y \in Bad : x <= y
    BY LeastNumber
  <2>2. PICK x \in Bad : \A y \in Bad : x <= y
    BY <2>1
  <2>3. x \in Nat /\ x > 4 /\ Doubled[x] # 480
    BY DoubledFirst
  <2>4. x - 1 \in Nat /\ x - 1 >= 4 /\ x - 1 \notin Bad /\ (x - 1) + 1 = x
    BY <2>2, <2>3
  <2>5. Doubled[x - 1] = 480
    BY <2>4
  <2>6. Doubled[(x - 1) + 1] = 480
    BY <2>4, <2>5, DoubledStep
  <2>7. QED
    BY <2>3, <2>4, <2>6
<1>2. QED
  BY <1>1

\* The n-th delay is the documented one, and at most five minutes.
LEMMA DelayIsDocumented ==
  \A n \in Nat \ {0} :
    backoffDelay(n) = Documented(n) /\ Documented(n) \in 30..300
<1> SUFFICES ASSUME NEW n \in Nat \ {0}
             PROVE  backoffDelay(n) = Documented(n) /\ Documented(n) \in 30..300
  OBVIOUS
<1>1. 2^0 = 1 /\ 2^1 = 2 /\ 2^2 = 4 /\ 2^3 = 8
  OBVIOUS
<1>2. CASE n > 4
  <2>1. n - 1 \in Nat /\ n - 1 >= 4
    BY <1>2
  <2>2. Doubled[n - 1] = 480
    BY <2>1, DoubledStops
  <2>3. QED
    BY <1>2, <2>2 DEF backoffDelay, Documented
<1>3. CASE n = 1
  BY <1>1, <1>3, DoubledFirst DEF backoffDelay, Documented
<1>4. CASE n = 2
  BY <1>1, <1>4, DoubledFirst DEF backoffDelay, Documented
<1>5. CASE n = 3
  BY <1>1, <1>5, DoubledFirst DEF backoffDelay, Documented
<1>6. CASE n = 4
  BY <1>1, <1>6, DoubledFirst DEF backoffDelay, Documented
<1>7. QED
  BY <1>2, <1>3, <1>4, <1>5, <1>6

\* Fewer failures are never waited out for longer.
LEMMA DocumentedMonotone ==
  \A m, n \in Nat \ {0} : m <= n => Documented(m) <= Documented(n)
<1> SUFFICES ASSUME NEW m \in Nat \ {0}, NEW n \in Nat \ {0}, m <= n
             PROVE  Documented(m) <= Documented(n)
  OBVIOUS
<1>1. 2^0 = 1 /\ 2^1 = 2 /\ 2^2 = 4 /\ 2^3 = 8
  OBVIOUS
<1>2. ASSUME NEW k \in Nat \ {0}
      PROVE  Documented(k) = CASE k = 1 -> 30 [] k = 2 -> 60 [] k = 3 -> 120
                               [] k = 4 -> 240 [] OTHER -> 300
  <2>1. k > 4 \/ k = 1 \/ k = 2 \/ k = 3 \/ k = 4
    OBVIOUS
  <2>2. CASE k > 4
    BY <2>2 DEF Documented
  <2>3. CASE k = 1
    BY <1>1, <2>3 DEF Documented
  <2>4. CASE k = 2
    BY <1>1, <2>4 DEF Documented
  <2>5. CASE k = 3
    BY <1>1, <2>5 DEF Documented
  <2>6. CASE k = 4
    BY <1>1, <2>6 DEF Documented
  <2>7. QED
    BY <2>1, <2>2, <2>3, <2>4, <2>5, <2>6
<1>3. QED
  BY <1>2

-----------------------------------------------------------------------------
(* The shift of the agent.                                                  *)

\* What min(30s << k, 5min) is, by the number of errors: the documented delays
\* up to the 29th error, at most five minutes whatever the shift leaves.
LEMMA AgentDelays ==
  \A n \in Nat \ {0} :
    /\ agentDelay(n) \in -1..300
    /\ n <= 29 => agentDelay(n) = Documented(n)
<1> SUFFICES ASSUME NEW n \in Nat \ {0}
             PROVE  /\ agentDelay(n) \in -1..300
                    /\ n <= 29 => agentDelay(n) = Documented(n)
  OBVIOUS
<1>1. 2^0 = 1 /\ 2^1 = 2 /\ 2^2 = 4 /\ 2^3 = 8
  OBVIOUS
<1>2. CASE n = 1
  BY <1>1, <1>2 DEF agentDelay, Shifted, Documented
<1>3. CASE n = 2
  BY <1>1, <1>3 DEF agentDelay, Shifted, Documented
<1>4. CASE n = 3
  BY <1>1, <1>4 DEF agentDelay, Shifted, Documented
<1>5. CASE n = 4
  BY <1>1, <1>5 DEF agentDelay, Shifted, Documented
<1>6. CASE n > 4 /\ n <= 29
  <2>1. ~(n - 1 <= 3) /\ n - 1 \in 4..28
    BY <1>6
  <2>2. Shifted(n - 1) = 301
    BY <2>1 DEF Shifted
  <2>3. QED
    BY <1>6, <2>2 DEF agentDelay, Documented
<1>7. CASE n > 29
  <2>1. ~(n - 1 <= 3) /\ n - 1 \notin 4..28
    BY <1>7
  <2>2. Shifted(n - 1) \in {-1, 0, 301}
    BY <2>1 DEF Shifted
  <2>3. QED
    BY <1>7, <2>2 DEF agentDelay
<1>8. QED
  BY <1>2, <1>3, <1>4, <1>5, <1>6, <1>7

-----------------------------------------------------------------------------
(* The inductive invariant.                                                 *)

\* How the counter of a GatewaySync follows its failures in a row: exactly,
\* unless it may have been reset on the way; never ahead of them, unless a
\* webhook has just started a new row.  A pending delay is that of the counter.
CountsFollow ==
  \A k \in Keys :
    /\ requested[k] => k \in reset
    /\ ~requested[k] => count[k] <= row[k]
    /\ k \notin reset => count[k] = row[k]
    /\ row[k] # 0 /\ delay[k] # 0
         => count[k] \in 1..row[k] /\ delay[k] = backoffDelay(count[k])

BackoffInv == TypeOK /\ CountsFollow /\ AgentWaits

\* The invariant holds initially.
LEMMA BackoffInit == Init => BackoffInv
BY BackoffAssumption DEF Init, BackoffInv, TypeOK, CountsFollow, AgentWaits

\* What a step leaves alone of the agent's backoff stays right.
LEMMA AgentStill ==
  ASSUME BackoffInv, UNCHANGED agt
  PROVE  AgentWaits' /\ errors' \in 0..MaxErrors /\ wait' \in -1..300
BY DEF BackoffInv, TypeOK, AgentWaits, agt

\* A recorded failure: the counter grows by at most one, the row by one.
LEMMA FailedStep ==
  ASSUME BackoffInv, NEW k \in Keys, NEW n \in Nat \ {0}, Failed(k, n),
         n <= row[k] + 1, reset' \in SUBSET Keys, reset \subseteq reset',
         k \notin reset' => n = row[k] + 1,
         \A j \in Keys \ {k} : j \in reset' => j \in reset
  PROVE  BackoffInv'
<1> USE DEF BackoffInv, TypeOK
<1>1. backoffDelay(n) \in 0..300
  BY DelayIsDocumented
<1> HIDE DEF backoffDelay
<1>2. TypeOK'
  BY <1>1, AgentStill, BackoffAssumption DEF Failed
<1>3. ASSUME NEW j \in Keys
      PROVE  /\ requested'[j] => j \in reset'
             /\ ~requested'[j] => count'[j] <= row'[j]
             /\ j \notin reset' => count'[j] = row'[j]
             /\ row'[j] # 0 /\ delay'[j] # 0
                  => /\ count'[j] \in 1..row'[j]
                     /\ delay'[j] = backoffDelay(count'[j])
  <2>1. CASE j = k
    <3>1. /\ count'[k] = n /\ row'[k] = row[k] + 1
          /\ delay'[k] = backoffDelay(n) /\ requested' = requested
      BY DEF Failed
    <3>2. QED
      BY <2>1, <3>1 DEF CountsFollow
  <2>2. CASE j # k
    <3>1. /\ count'[j] = count[j] /\ row'[j] = row[j]
          /\ delay'[j] = delay[j] /\ requested' = requested
      BY <2>2 DEF Failed
    <3>2. QED
      BY <2>2, <3>1 DEF CountsFollow
  <2>3. QED
    BY <2>1, <2>2
<1>4. CountsFollow'
  BY <1>3 DEF CountsFollow
<1>5. QED
  BY <1>2, <1>4, AgentStill DEF Failed

\* A step of another key leaves what CountsFollow says of this one alone.
LEMMA OtherKeys ==
  ASSUME CountsFollow, NEW j \in Keys,
         count'[j] = count[j], row'[j] = row[j], delay'[j] = delay[j],
         requested'[j] = requested[j], j \in reset' <=> j \in reset
  PROVE  /\ requested'[j] => j \in reset'
         /\ ~requested'[j] => count'[j] <= row'[j]
         /\ j \notin reset' => count'[j] = row'[j]
         /\ row'[j] # 0 /\ delay'[j] # 0
              => /\ count'[j] \in 1..row'[j]
                 /\ delay'[j] = backoffDelay(count'[j])
BY DEF CountsFollow

\* A reconcile that succeeds, and a deletion, start from nothing again.
LEMMA FreshStep ==
  ASSUME BackoffInv, NEW k \in Keys, Succeeds(k) \/ Deleted(k)
  PROVE  BackoffInv'
<1> USE DEF BackoffInv, TypeOK
<1>1. /\ count' = [count EXCEPT ![k] = 0] /\ delay' = [delay EXCEPT ![k] = 0]
      /\ row' = [row EXCEPT ![k] = 0] /\ UNCHANGED agt
  BY DEF Succeeds, Deleted
<1>2. PICK b \in {requested[k], FALSE} :
        /\ requested' = [requested EXCEPT ![k] = b]
        /\ reset' = IF b THEN reset ELSE reset \ {k}
  BY DEF Succeeds, Deleted
<1>3. TypeOK'
  <2>1. count' \in [Keys -> Nat] /\ delay' \in [Keys -> 0..300]
        /\ row' \in [Keys -> 0..MaxRow]
    BY <1>1, BackoffAssumption
  <2>2. b \in BOOLEAN
    BY <1>2
  <2>3. requested' \in [Keys -> BOOLEAN] /\ reset' \in SUBSET Keys
    BY <1>2, <2>2
  <2>4. QED
    BY <1>1, <2>1, <2>3, AgentStill
<1>4. ASSUME NEW j \in Keys
      PROVE  /\ requested'[j] => j \in reset'
             /\ ~requested'[j] => count'[j] <= row'[j]
             /\ j \notin reset' => count'[j] = row'[j]
             /\ row'[j] # 0 /\ delay'[j] # 0
                  => /\ count'[j] \in 1..row'[j]
                     /\ delay'[j] = backoffDelay(count'[j])
  <2>1. CASE j = k
    <3>1. count'[k] = 0 /\ row'[k] = 0 /\ requested'[k] = b
      BY <1>1, <1>2
    <3>2. b => k \in reset'
      BY <1>2 DEF CountsFollow
    <3>3. QED
      BY <2>1, <3>1, <3>2
  <2>2. CASE j # k
    <3>1. /\ count'[j] = count[j] /\ row'[j] = row[j] /\ delay'[j] = delay[j]
          /\ requested'[j] = requested[j] /\ (j \in reset' <=> j \in reset)
      BY <1>1, <1>2, <2>2
    <3>2. QED
      BY <3>1, OtherKeys
  <2>3. QED
    BY <2>1, <2>2
<1>5. CountsFollow'
  BY <1>4 DEF CountsFollow
<1>6. QED
  BY <1>1, <1>3, <1>5, AgentStill

\* A webhook starts a new row: the counter is ahead of it until the reconcile
\* that takes up the annotation.
LEMMA WebhookStep ==
  ASSUME BackoffInv, NEW k \in Keys, Webhook(k)
  PROVE  BackoffInv'
<1> USE DEF BackoffInv, TypeOK
<1>1. TypeOK'
  BY AgentStill, BackoffAssumption DEF Webhook
<1>2. ASSUME NEW j \in Keys
      PROVE  /\ requested'[j] => j \in reset'
             /\ ~requested'[j] => count'[j] <= row'[j]
             /\ j \notin reset' => count'[j] = row'[j]
             /\ row'[j] # 0 /\ delay'[j] # 0
                  => /\ count'[j] \in 1..row'[j]
                     /\ delay'[j] = backoffDelay(count'[j])
  <2>1. CASE j = k
    BY <2>1 DEF Webhook
  <2>2. CASE j # k
    <3>1. /\ count'[j] = count[j] /\ row'[j] = row[j] /\ delay'[j] = delay[j]
          /\ requested'[j] = requested[j] /\ (j \in reset' <=> j \in reset)
      BY <2>2 DEF Webhook
    <3>2. QED
      BY <3>1, OtherKeys
  <2>3. QED
    BY <2>1, <2>2
<1>3. CountsFollow'
  BY <1>2 DEF CountsFollow
<1>4. QED
  BY <1>1, <1>3, AgentStill DEF Webhook

\* A restart forgets the counters and the pending requeues.
LEMMA RestartStep ==
  ASSUME BackoffInv, RestartController
  PROVE  BackoffInv'
<1> USE DEF BackoffInv, TypeOK
<1>1. /\ count' = [k \in Keys |-> 0] /\ delay' = [k \in Keys |-> 0]
      /\ reset' = reset \cup {k \in Keys : row[k] # 0}
      /\ UNCHANGED <<requested, row, agt>>
  BY DEF RestartController
<1>2. TypeOK'
  BY <1>1, AgentStill
<1>3. CountsFollow'
  BY <1>1, BackoffAssumption DEF CountsFollow
<1>4. QED
  BY <1>1, <1>2, <1>3, AgentStill

\* The agent's failures and successes keep its own half of the invariant.
LEMMA AgentStep ==
  ASSUME BackoffInv, SyncFails \/ SyncSucceeds
  PROVE  BackoffInv'
<1> USE DEF BackoffInv, TypeOK
<1>1. CountsFollow'
  BY DEF SyncFails, SyncSucceeds, ctl, CountsFollow
<1>2. CASE SyncFails
  <2>1. errors + 1 \in Nat \ {0}
    BY BackoffAssumption
  <2>2. /\ agentDelay(errors + 1) \in -1..300
        /\ errors + 1 <= 29 => agentDelay(errors + 1) = Documented(errors + 1)
    BY <2>1, AgentDelays
  <2>3. errors' = errors + 1 /\ wait' = agentDelay(errors + 1)
        /\ errors < MaxErrors /\ UNCHANGED ctl
    BY <1>2 DEF SyncFails
  <2>4. TypeOK'
    BY <2>1, <2>2, <2>3, BackoffAssumption DEF ctl
  <2>5. AgentWaits'
    BY <2>1, <2>2, <2>3 DEF AgentWaits
  <2>6. QED
    BY <1>1, <2>4, <2>5
<1>3. CASE SyncSucceeds
  BY <1>1, <1>3, BackoffAssumption DEF SyncSucceeds, ctl, AgentWaits
<1>4. QED
  BY <1>2, <1>3

\* The invariant is inductive.
LEMMA BackoffStep == BackoffInv /\ [Next]_vars => BackoffInv'
<1> SUFFICES ASSUME BackoffInv, [Next]_vars PROVE BackoffInv'
  OBVIOUS
<1>1. ASSUME NEW k \in Keys, FailsEarly(k) PROVE BackoffInv'
  <2>1. /\ Start(k) + 1 \in Nat \ {0} /\ Start(k) <= row[k]
        /\ k \notin reset => Start(k) = row[k]
    BY BackoffAssumption DEF BackoffInv, TypeOK, CountsFollow, Start
  <2>2. /\ Failed(k, Start(k) + 1) /\ reset' = reset /\ reset \in SUBSET Keys
        /\ row[k] \in Nat /\ Start(k) \in Int
    BY <1>1, BackoffAssumption DEF FailsEarly, BackoffInv, TypeOK, Start
  <2>3. /\ Start(k) + 1 <= row[k] + 1
        /\ k \notin reset' => Start(k) + 1 = row[k] + 1
    BY <2>1, <2>2
  <2>4. QED
    BY <2>1, <2>2, <2>3, FailedStep
<1>2. ASSUME NEW k \in Keys, FailsLate(k) PROVE BackoffInv'
  <2>1. /\ Failed(k, 1) /\ 1 <= row[k] + 1 /\ 1 \in Nat \ {0}
        /\ reset' = reset \cup {k} /\ reset \subseteq Keys
    BY <1>2, BackoffAssumption DEF FailsLate, BackoffInv, TypeOK
  <2>2. QED
    BY <2>1, FailedStep
<1>3. ASSUME NEW k \in Keys, Succeeds(k) \/ Deleted(k) PROVE BackoffInv'
  BY <1>3, FreshStep
<1>4. ASSUME NEW k \in Keys, Webhook(k) PROVE BackoffInv'
  BY <1>4, WebhookStep
<1>5. CASE SyncFails \/ SyncSucceeds \/ RestartController
  BY <1>5, AgentStep, RestartStep
<1>6. CASE UNCHANGED vars
  BY <1>6
  DEF vars, ctl, agt, BackoffInv, TypeOK, CountsFollow, AgentWaits
<1>7. QED
  BY <1>1, <1>2, <1>3, <1>4, <1>5, <1>6 DEF Next

\* The invariant the theorems rest on holds of every behaviour.
THEOREM BackoffInvariant == Spec => []BackoffInv
BY BackoffInit, BackoffStep, PTL DEF Spec

\* Counters, flags and delays keep their types: no wait is longer than five
\* minutes.
THEOREM BackoffTypeCorrect == Spec => []TypeOK
<1>1. BackoffInv => TypeOK
  BY DEF BackoffInv
<1>2. QED
  BY <1>1, BackoffInvariant, PTL

\* The controller waits out the n-th failure in a row of a GatewaySync as
\* documented, and for no longer when its counter was reset on the way.
THEOREM BackoffDelaysAsDocumented == Spec => []DelaysAsDocumented
<1>1. BackoffInv => DelaysAsDocumented
  <2> SUFFICES ASSUME BackoffInv, NEW k \in Keys, row[k] # 0,
                      delay[k] # 0
               PROVE  /\ delay[k] <= Documented(row[k])
                      /\ k \notin reset => delay[k] = Documented(row[k])
    BY DEF DelaysAsDocumented
  <2>1. /\ count[k] \in Nat \ {0} /\ row[k] \in Nat \ {0} /\ count[k] <= row[k]
        /\ delay[k] = backoffDelay(count[k])
        /\ k \notin reset => count[k] = row[k]
    BY BackoffAssumption DEF BackoffInv, TypeOK, CountsFollow
  <2>2. delay[k] = Documented(count[k])
    BY <2>1, DelayIsDocumented
  <2>3. Documented(count[k]) <= Documented(row[k])
    BY <2>1, DocumentedMonotone
  <2>4. QED
    BY <2>1, <2>2, <2>3
<1>2. QED
  BY <1>1, BackoffInvariant, PTL

\* The agent waits out its first 29 errors in a row as documented, and never
\* longer than five minutes although the shift overflows from the 30th on.
THEOREM BackoffAgentWaits == Spec => []AgentWaits
<1>1. BackoffInv => AgentWaits
  BY DEF BackoffInv
<1>2. QED
  BY <1>1, BackoffInvariant, PTL
=============================================================================

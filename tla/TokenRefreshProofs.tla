------------------------- MODULE TokenRefreshProofs -------------------------
(***************************************************************************)
(* Proof that a polled GatewaySync's token does not expire in its Secret,  *)
(* for every number of GatewaySyncs, every choice of intervals, lifetimes  *)
(* and delays, and every fault the model has.                              *)
(***************************************************************************)
EXTENDS TokenRefresh, TLAPS

\* The part of the invariant that is about one GatewaySync.
KeyInv(k) ==
  /\ pc[k] = "store" => got[k] >= Lifetime - spent[k]
  /\ pc[k] = "lsRemote" => cache > Buffer - spent[k]
  /\ CacheSince(k, age[k]) /\ CacheSince(k, sync[k])
  /\ Covered(k) => Polled(k)

\* The record of one GatewaySync is left alone.
Same(j) ==
  /\ secret'[j] = secret[j] /\ due'[j] = due[j] /\ age'[j] = age[j]
  /\ count'[j] = count[j] /\ pc'[j] = pc[j] /\ spent'[j] = spent[j]
  /\ got'[j] = got[j] /\ sync'[j] = sync[j] /\ missed'[j] = missed[j]

\* The cached token stays, or a newly exchanged one replaces it.
CacheKept == cache' = cache \/ (cache' \in Int /\ cache' > Buffer)

\* What a failing call leaves alone, and what it may patch.
TokensKept == cache' = cache /\ secret' = secret
StatusPatched(k) ==
  /\ age' = age \/ age' = [age EXCEPT ![k] = sync[k]]
  /\ resolution' \in [Keys -> {"Unset", "Resolved", "Error"}]

\* The invariant, GatewaySync by GatewaySync.
LEMMA Split == TokenInv <=> TypeOK /\ \A k \in Keys : KeyInv(k)
  BY DEF TokenInv, CacheIsFresh, KeyInv

\* The parameters and the record of one GatewaySync are integers.
LEMMA Types ==
  ASSUME TypeOK, NEW k \in Keys
  PROVE  /\ Interval[k] \in Nat /\ Lifetime \in Nat /\ Buffer \in Nat /\ Span \in Nat
         /\ Setback \in Nat /\ Tolerated \in {0, 1} /\ MaxRow \in Nat \ {0}
         /\ cache \in Int /\ cache >= -1 /\ secret[k] \in Int /\ secret[k] >= -1
         /\ due[k] \in Int /\ due[k] >= -1 /\ age[k] \in Int /\ age[k] >= -1
         /\ sync[k] \in Int /\ sync[k] >= -1 /\ count[k] \in 0..MaxRow
         /\ spent[k] \in Int /\ spent[k] >= 0 /\ spent[k] <= Span
         /\ got[k] \in Int /\ got[k] >= 0 /\ missed[k] \in Nat
         /\ Grace(k) \in Nat
<1>1. missed[k] \in Nat /\ Grace(k) \in Nat
  BY TokenAssumption DEF TypeOK, Grace
<1>2. /\ Interval[k] \in Nat /\ Lifetime \in Nat /\ Buffer \in Nat /\ Span \in Nat
      /\ Setback \in Nat /\ Tolerated \in {0, 1} /\ MaxRow \in Nat \ {0}
  BY TokenAssumption
<1>3. cache \in Int /\ cache >= -1 /\ secret[k] \in Int /\ secret[k] >= -1
  BY <1>2 DEF TypeOK
<1>4. /\ due[k] \in Int /\ due[k] >= -1 /\ age[k] \in Int /\ age[k] >= -1
      /\ sync[k] \in Int /\ sync[k] >= -1
  BY DEF TypeOK
<1>5. /\ count[k] \in 0..MaxRow /\ spent[k] \in Int /\ spent[k] >= 0
      /\ spent[k] <= Span /\ got[k] \in Int /\ got[k] >= 0
  BY <1>2 DEF TypeOK
<1> QED
  BY <1>1, <1>2, <1>3, <1>4, <1>5

\* What another reconcile does to the cache, if anything, is to store a token
\* that is far from its expiry.
LEMMA Frame ==
  ASSUME TypeOK, NEW j \in Keys, KeyInv(j), Same(j), CacheKept
  PROVE  KeyInv(j)'
<1>1. CacheSince(j, age[j])' /\ CacheSince(j, sync[j])'
  BY Types DEF CacheKept, KeyInv, CacheSince, Same
<1>2. (pc[j] = "store" => got[j] >= Lifetime - spent[j])'
  BY Types DEF CacheKept, KeyInv, Same
<1>3. (pc[j] = "lsRemote" => cache > Buffer - spent[j])'
  BY Types DEF CacheKept, KeyInv, Same
<1>4. ASSUME Covered(j) PROVE Polled(j)'
  <2>1. Polled(j)
    BY <1>4 DEF KeyInv
  <2>2. Grace(j)' = Grace(j)
    BY DEF Grace, Same
  <2>3. SecretSince(j, age[j])' = SecretSince(j, age[j])
    BY <2>2 DEF SecretSince, Same
  <2>4. Shortcut(j)' = Shortcut(j)
    BY <2>2 DEF Shortcut, SecretSince, Same
  <2>5. Scheduled(j)'
    BY Types, <2>1, <2>2, <2>3, <2>4 DEF CacheKept, Polled, Scheduled, Same
  <2> QED
    BY Types, <2>1, <2>5 DEF CacheKept, Polled, Same
<1> QED
  BY <1>1, <1>2, <1>3, <1>4 DEF KeyInv, Covered, Margin

\* What the token in the Secret has left during a reconcile, and when one
\* begins.
LEMMA Remaining ==
  ASSUME TypeOK, NEW k \in Keys, KeyInv(k), Covered(k),
         missed[k] <= Tolerated, secret[k] # -1
  PROVE  secret[k] > Buffer - 3 * Span - 2 * Interval[k] - Grace(k)
<1>1. due[k] # -1 /\ Scheduled(k)
  BY DEF KeyInv, Polled
<1>2. CASE pc[k] = "idle"
  <2>1. secret[k] - due[k] > Buffer - 2 * Span - 2 * Interval[k] - Grace(k)
    BY <1>1, <1>2 DEF Scheduled
  <2>2. due[k] >= 0
    BY Types, <1>1
  <2> QED
    BY Types, <2>1, <2>2
<1>3. CASE pc[k] # "idle"
  BY Types, <1>1, <1>3 DEF Scheduled
<1> QED
  BY <1>2, <1>3

\* A reconcile that fails costs a polled GatewaySync at most the setback.
LEMMA RetryInv ==
  ASSUME TypeOK, NEW k \in Keys, KeyInv(k),
         NEW n \in {0, count[k]}, Retry(k, n),
         cache' = cache, secret' = secret,
         age'[k] = age[k] \/ age'[k] = sync[k]
  PROVE  KeyInv(k)'
<1>1. /\ pc'[k] = "idle" /\ spent'[k] = 0 /\ got'[k] = 0 /\ sync'[k] = -1
      /\ missed'[k] = Lesser(missed[k] + 1, Tolerated + 1)
      /\ due'[k] = Delay[Lesser(n + 1, MaxRow)]
  BY DEF TypeOK, Retry, Return
<1>3. CacheSince(k, age[k])' /\ CacheSince(k, sync[k])'
  BY <1>1, Types DEF KeyInv, CacheSince
<1>4. ASSUME Covered(k) PROVE Polled(k)'
  <2>1. missed'[k] # 0
    BY <1>1, Types DEF Lesser
  <2>2. due'[k] \in Nat
    BY <1>1, Types, TokenAssumption DEF Lesser
  <2>3. ASSUME missed'[k] <= Tolerated, secret[k] # -1
        PROVE  /\ secret[k] - due'[k] > Buffer - 2 * Span - 2 * Interval[k] - Grace(k)'
               /\ SecretSince(k, age[k])'
    <3>1. missed[k] = 0 /\ Tolerated = 1
      BY <2>3, <1>1, Types DEF Lesser
    <3>2. count[k] = 0
      BY <1>4, <3>1 DEF KeyInv, Polled
    <3>3. due'[k] <= Setback
      BY <1>1, <3>2, <1>4, Types DEF Lesser, Covered
    <3>4. secret[k] > Buffer - 3 * Span - 2 * Interval[k]
      BY <1>4, <2>3, <3>1, Types, Remaining DEF Grace
    <3>5. Grace(k)' = Setback + Span
      BY <2>1 DEF Grace
    <3>6. 2 * Interval[k] + Span <= Setback
      BY <1>4, Types DEF Covered
    <3>7. age'[k] \in Int
      BY Types
    <3>8. SecretSince(k, age[k])'
      BY Types, <3>4, <3>5, <3>6, <3>7 DEF SecretSince
    <3> QED
      BY Types, <2>2, <3>3, <3>4, <3>5, <3>8
  <2>4. Scheduled(k)'
    BY <1>1, <2>3 DEF Scheduled
  <2> QED
    BY <1>1, <2>1, <2>2, <2>4 DEF Polled
<1> QED
  BY <1>1, <1>3, <1>4 DEF KeyInv, Covered, Margin

\* A failed call returns the reconcile and moves at most the status.
LEMMA FailureInv ==
  ASSUME TypeOK, \A j \in Keys : KeyInv(j), NEW k \in Keys,
         NEW n \in {0, count[k]}, Retry(k, n), TokensKept, StatusPatched(k)
  PROVE  TypeOK' /\ \A j \in Keys : KeyInv(j)'
<1> USE DEF TokensKept, StatusPatched
<1>1. age'[k] = age[k] \/ age'[k] = sync[k]
  BY DEF TypeOK
<1>2. KeyInv(k)'
  BY <1>1, RetryInv
<1>3. ASSUME NEW j \in Keys, j # k PROVE KeyInv(j)'
  <2>1. Same(j)
    BY <1>3 DEF TypeOK, Same, Retry, Return
  <2>2. KeyInv(j) /\ CacheKept
    BY DEF CacheKept
  <2> QED
    BY <2>1, <2>2, Frame
<1>4. TypeOK'
  <2>1. Lesser(n + 1, MaxRow) \in 1..MaxRow
    BY Types DEF Lesser
  <2>2. Lesser(missed[k] + 1, Tolerated + 1) \in 0..Tolerated + 1
    BY Types DEF Lesser
  <2>3. due' \in [Keys -> Nat \cup {-1}] /\ count' \in [Keys -> 0..MaxRow]
    BY <2>1, TokenAssumption DEF TypeOK, Retry
  <2>4. missed' \in [Keys -> 0..Tolerated + 1]
    BY <2>2 DEF TypeOK, Retry
  <2>5. /\ pc' \in [Keys -> Steps] /\ spent' \in [Keys -> 0..Span]
        /\ got' \in [Keys -> 0..Lifetime] /\ sync' \in [Keys -> Nat \cup {-1}]
    BY TokenAssumption DEF TypeOK, Retry, Return, Steps
  <2>6. age' \in [Keys -> Nat \cup {-1}]
    BY DEF TypeOK
  <2> QED
    BY <2>3, <2>4, <2>5, <2>6 DEF TypeOK
<1> QED
  BY <1>2, <1>3, <1>4

-----------------------------------------------------------------------------
(* One lemma per action.                                                    *)

\* Up to resolveRef.
LEMMA BeginInv ==
  ASSUME TypeOK, \A j \in Keys : KeyInv(j), NEW k \in Keys, Begin(k)
  PROVE  TypeOK' /\ \A j \in Keys : KeyInv(j)'
<1>0. cache' = cache /\ secret' = secret /\ resolution' = resolution /\ age' = age
  BY DEF Begin, status
<1>1. CASE Faulty(k, "gitSecret") /\ \E n \in {0, count[k]} : Retry(k, n)
  <2>1. TokensKept /\ StatusPatched(k)
    BY <1>0 DEF TypeOK, TokensKept, StatusPatched
  <2>2. PICK n \in {0, count[k]} : Retry(k, n)
    BY <1>1
  <2> QED
    BY <2>1, <2>2, FailureInv
<1>2. CASE /\ \/ Recent(k) /\ Goto(k, "apiKey") /\ sync' = [sync EXCEPT ![k] = age[k]]
                 /\ count' = [count EXCEPT ![k] = 0]
              \/ /\ Goto(k, "token") /\ sync' = sync
                 /\ \E n \in {0, count[k]} : count' = [count EXCEPT ![k] = n]
           /\ UNCHANGED <<due, missed, got>>
  <2>1. TypeOK'
    <3>1. pc' \in [Keys -> Steps] /\ spent' \in [Keys -> 0..Span]
      BY <1>2 DEF TypeOK, Goto, Steps
    <3>2. sync' \in [Keys -> Nat \cup {-1}]
      BY <1>2 DEF TypeOK
    <3>3. count' \in [Keys -> 0..MaxRow]
      BY <1>2, Types DEF TypeOK
    <3> QED
      BY <1>0, <1>2, <3>1, <3>2, <3>3 DEF TypeOK
  <2>2. ASSUME NEW j \in Keys, j # k PROVE KeyInv(j)'
    <3>1. Same(j)
      BY <1>0, <1>2, <2>2 DEF TypeOK, Same, Goto
    <3>2. KeyInv(j) /\ CacheKept
      BY <1>0 DEF CacheKept
    <3> QED
      BY <3>1, <3>2, Frame
  <2>3. KeyInv(k)'
    <3>1. /\ pc[k] = "idle" /\ spent'[k] = spent[k] /\ Grace(k)' = Grace(k)
          /\ pc'[k] \in {"apiKey", "token"} /\ count'[k] \in {0, count[k]}
          /\ pc'[k] = "apiKey" =>
               Recent(k) /\ count'[k] = 0 /\ sync'[k] = age[k]
          /\ pc'[k] = "token" => sync'[k] = sync[k]
      BY <1>2 DEF TypeOK, Begin, Goto, Grace
    <3>2. CacheSince(k, age[k])' /\ CacheSince(k, sync[k])'
      BY <1>0, <3>1 DEF KeyInv, CacheSince
    <3>3. ASSUME Covered(k) PROVE Polled(k)'
      <4>1. Polled(k)
        BY <3>3 DEF KeyInv
      <4>2. due'[k] # -1 /\ due'[k] = due[k]
        BY <1>2, <4>1 DEF Polled
      <4>3. missed'[k] = 0 \/ pc'[k] = "apiKey" => count'[k] = 0
        BY <1>2, <3>1, <4>1, Types DEF Polled
      <4>4. ASSUME missed[k] <= Tolerated, secret[k] # -1 PROVE Scheduled(k)'
        <5>1. secret[k] - due[k] > Buffer - 2 * Span - 2 * Interval[k] - Grace(k)
          BY <3>1, <4>1, <4>4 DEF Polled, Scheduled
        <5>2. secret[k] > Buffer - 2 * Span - 2 * Interval[k] - Grace(k) - spent[k]
          BY <5>1, <4>2, Types
        <5>3. SecretSince(k, age[k])'
          BY <1>0, <3>1, <4>1, <4>4 DEF Polled, Scheduled, SecretSince
        <5>4. pc'[k] = "apiKey" => Shortcut(k)'
          BY <1>0, <3>1, <5>3, Types DEF Shortcut, SecretSince, Recent
        <5> QED
          BY <5>2, <5>3, <5>4, <1>0, <3>1 DEF Scheduled
      <4>5. Scheduled(k)'
        BY <4>4, <1>0, <1>2 DEF Scheduled
      <4>6. pc'[k] = "apiKey" =>
              cache = -1 \/ cache > Buffer - Span - Interval[k] - spent[k]
        BY <3>1, Types DEF KeyInv, CacheSince, Recent
      <4> QED
        BY <1>0, <3>1, <4>2, <4>3, <4>5, <4>6 DEF Polled
    <3> QED
      BY <3>1, <3>2, <3>3 DEF KeyInv, Covered, Margin
  <2> QED
    BY <2>1, <2>2, <2>3
<1> QED
  BY <1>1, <1>2 DEF Begin

\* A call that succeeds and changes nothing but the position.
LEMMA GotoTypes ==
  ASSUME TypeOK, NEW k \in Keys, NEW step \in Steps, Goto(k, step)
  PROVE  pc' \in [Keys -> Steps] /\ spent' \in [Keys -> 0..Span]
  BY DEF TypeOK, Goto

\* resolveRef fails.
LEMMA ResolutionFailsInv ==
  ASSUME TypeOK, \A j \in Keys : KeyInv(j), NEW k \in Keys,
         ResolutionFails(k), TokensKept
  PROVE  TypeOK' /\ \A j \in Keys : KeyInv(j)'
<1>1. Retry(k, count[k]) /\ StatusPatched(k)
  BY DEF ResolutionFails, PatchOr, StatusPatched, TypeOK, status
<1> QED
  BY <1>1, FailureInv

\* resolveGitHubAppToken: a cached token that is used is beyond the buffer.
LEMMA ResolveTokenInv ==
  ASSUME TypeOK, \A j \in Keys : KeyInv(j), NEW k \in Keys, ResolveToken(k)
  PROVE  TypeOK' /\ \A j \in Keys : KeyInv(j)'
<1>0. TokensKept
  BY DEF ResolveToken, ExchangeGitHubAppToken, TokensKept
<1>1. CASE ResolutionFails(k)
  BY <1>0, <1>1, ResolutionFailsInv
<1>2. CASE /\ \/ TokenValid /\ Goto(k, "lsRemote") /\ got' = got
              \/ Goto(k, "store") /\ got' = [got EXCEPT ![k] = Lifetime]
           /\ UNCHANGED <<sync, status, count, due, missed>>
  <2>0. pc[k] = "token"
    BY DEF ResolveToken, ExchangeGitHubAppToken
  <2>1. TypeOK'
    <3>1. pc' \in [Keys -> Steps] /\ spent' \in [Keys -> 0..Span]
      <4>1. {"lsRemote", "store"} \subseteq Steps
        BY DEF Steps
      <4> QED
        BY <1>2, <4>1, GotoTypes
    <3>2. got' \in [Keys -> 0..Lifetime]
      <4>1. Lifetime \in 0..Lifetime
        BY Types
      <4> QED
        BY <1>2, <4>1 DEF TypeOK
    <3> QED
      BY <1>0, <1>2, <3>1, <3>2 DEF TypeOK, TokensKept, status
  <2>2. ASSUME NEW j \in Keys, j # k PROVE KeyInv(j)'
    <3>1. Same(j)
      BY <1>0, <1>2, <2>2 DEF TypeOK, Same, Goto, TokensKept, status
    <3>2. KeyInv(j) /\ CacheKept
      BY <1>0 DEF CacheKept, TokensKept
    <3> QED
      BY <3>1, <3>2, Frame
  <2>3. KeyInv(k)'
    <3>1. /\ pc'[k] \in {"lsRemote", "store"} /\ spent'[k] = spent[k]
          /\ pc'[k] = "lsRemote" => TokenValid
          /\ pc'[k] = "store" => got'[k] = Lifetime
          /\ secret' = secret /\ cache' = cache /\ age' = age
      BY <1>0, <1>2 DEF TypeOK, Goto, TokensKept, status
    <3>2. CacheSince(k, age[k])' /\ CacheSince(k, sync[k])'
      BY <1>2, <3>1 DEF KeyInv, CacheSince
    <3>3. pc'[k] = "store" => got'[k] >= Lifetime - spent'[k]
      BY <3>1, Types
    <3>4. pc'[k] = "lsRemote" => cache' > Buffer - spent'[k]
      BY <3>1, Types DEF TokenValid
    <3>5. ASSUME Covered(k) PROVE Polled(k)'
      <4>1. Polled(k)
        BY <3>5 DEF KeyInv
      <4>2. Grace(k)' = Grace(k)
        BY <1>2 DEF Grace
      <4>3. Scheduled(k)'
        BY <1>2, <2>0, <3>1, <4>1, <4>2 DEF Polled, Scheduled, SecretSince
      <4> QED
        BY <1>2, <2>0, <3>1, <4>1, <4>3 DEF Polled
    <3> QED
      BY <3>2, <3>3, <3>4, <3>5 DEF KeyInv, Covered, Margin
  <2> QED
    BY <2>1, <2>2, <2>3
<1> QED
  BY <1>1, <1>2 DEF ResolveToken, ExchangeGitHubAppToken

\* storeGitHubToken: whoever stores, the new entry is beyond the buffer.
LEMMA StoreTokenInv ==
  ASSUME TypeOK, \A j \in Keys : KeyInv(j), NEW k \in Keys, StoreToken(k)
  PROVE  TypeOK' /\ \A j \in Keys : KeyInv(j)'
<1>0. /\ pc[k] = "store" /\ cache' = got[k] /\ got' = [got EXCEPT ![k] = 0]
      /\ Goto(k, "lsRemote")
      /\ UNCHANGED <<secret, due, status, count, sync, missed>>
  BY DEF StoreToken
<1>1. cache' \in 0..Lifetime /\ cache' \in Int /\ cache' > Buffer
  BY <1>0, Types, LifetimeAssumption DEF KeyInv, TypeOK
<1>2. CacheKept
  BY <1>1 DEF CacheKept
<1>3. TypeOK'
  <2>1. pc' \in [Keys -> Steps] /\ spent' \in [Keys -> 0..Span]
    BY <1>0, GotoTypes DEF Steps
  <2>2. got' \in [Keys -> 0..Lifetime] /\ cache' \in -1..Lifetime
    BY <1>0, <1>1, Types DEF TypeOK
  <2> QED
    BY <1>0, <2>1, <2>2 DEF TypeOK, status
<1>4. ASSUME NEW j \in Keys, j # k PROVE KeyInv(j)'
  <2>1. Same(j)
    BY <1>0, <1>4 DEF TypeOK, Same, Goto, status
  <2> QED
    BY <1>2, <2>1, Frame
<1>5. KeyInv(k)'
  <2>1. /\ pc'[k] = "lsRemote" /\ spent'[k] = spent[k] /\ age' = age
        /\ Grace(k)' = Grace(k)
    BY <1>0 DEF TypeOK, Goto, status, Grace
  <2>2. CacheSince(k, age[k])' /\ CacheSince(k, sync[k])'
    BY <1>0, <1>1, <2>1, Types DEF CacheSince
  <2>3. cache' > Buffer - spent'[k]
    BY <1>1, <2>1, Types
  <2>4. ASSUME Covered(k) PROVE Polled(k)'
    <3>1. Polled(k)
      BY <2>4 DEF KeyInv
    <3>2. Scheduled(k)'
      BY <1>0, <2>1, <3>1 DEF Polled, Scheduled, SecretSince
    <3> QED
      BY <1>0, <2>1, <3>1, <3>2 DEF Polled
  <2> QED
    BY <2>1, <2>2, <2>3, <2>4 DEF KeyInv, Covered, Margin
<1> QED
  BY <1>3, <1>4, <1>5

\* LsRemote has answered with a token that was valid.
LEMMA LsRemoteInv ==
  ASSUME TypeOK, \A j \in Keys : KeyInv(j), NEW k \in Keys, LsRemote(k)
  PROVE  TypeOK' /\ \A j \in Keys : KeyInv(j)'
<1>0. TokensKept /\ pc[k] = "lsRemote"
  BY DEF LsRemote, TokensKept
<1>1. CASE ResolutionFails(k)
  BY <1>0, <1>1, ResolutionFailsInv
<1>2. CASE /\ count' = [count EXCEPT ![k] = 0] /\ Goto(k, "apiKey")
           /\ \E t \in {age[k], 0} \ {-1} : sync' = [sync EXCEPT ![k] = t]
           /\ UNCHANGED <<got, status, due, missed>>
  <2>0. PICK t \in {age[k], 0} \ {-1} : sync' = [sync EXCEPT ![k] = t]
    BY <1>2
  <2>1. TypeOK'
    <3>1. pc' \in [Keys -> Steps] /\ spent' \in [Keys -> 0..Span]
      BY <1>2, GotoTypes DEF Steps
    <3>2. sync' \in [Keys -> Nat \cup {-1}]
      BY <2>0 DEF TypeOK
    <3>3. count' \in [Keys -> 0..MaxRow]
      BY <1>2, Types DEF TypeOK
    <3> QED
      BY <1>0, <1>2, <3>1, <3>2, <3>3 DEF TypeOK, TokensKept, status
  <2>2. ASSUME NEW j \in Keys, j # k PROVE KeyInv(j)'
    <3>1. Same(j)
      BY <1>0, <1>2, <2>0, <2>2 DEF TypeOK, Same, Goto, TokensKept, status
    <3>2. KeyInv(j) /\ CacheKept
      BY <1>0 DEF CacheKept, TokensKept
    <3> QED
      BY <3>1, <3>2, Frame
  <2>3. KeyInv(k)'
    <3>1. /\ pc'[k] = "apiKey" /\ spent'[k] = spent[k] /\ sync'[k] \in {age[k], 0}
          /\ secret' = secret /\ cache' = cache /\ age' = age /\ count'[k] = 0
          /\ Grace(k)' = Grace(k)
      BY <1>0, <1>2, <2>0 DEF TypeOK, Goto, TokensKept, status, Grace
    <3>2. cache > Buffer - spent[k]
      BY <1>0 DEF KeyInv
    <3>3. CacheSince(k, age[k])'
      BY <3>1 DEF KeyInv, CacheSince
    <3>4. CacheSince(k, sync[k])'
      BY <3>1, <3>2, Types DEF KeyInv, CacheSince
    <3>5. ASSUME Covered(k) PROVE Polled(k)'
      <4>1. Polled(k)
        BY <3>5 DEF KeyInv
      <4>2. Scheduled(k)'
        BY <1>0, <1>2, <3>1, <3>2, <4>1 DEF Polled, Scheduled, SecretSince
      <4>3. cache > Buffer - Span - Interval[k] - spent[k]
        BY <3>2, Types
      <4> QED
        BY <1>2, <3>1, <4>1, <4>2, <4>3 DEF Polled
    <3> QED
      BY <3>1, <3>3, <3>4, <3>5 DEF KeyInv, Covered, Margin
  <2> QED
    BY <2>1, <2>2, <2>3
<1> QED
  BY <1>1, <1>2 DEF LsRemote

\* validateAPIKeySecret
LEMMA CheckAPIKeyInv ==
  ASSUME TypeOK, \A j \in Keys : KeyInv(j), NEW k \in Keys, CheckAPIKey(k)
  PROVE  TypeOK' /\ \A j \in Keys : KeyInv(j)'
<1>0. TokensKept /\ pc[k] = "apiKey"
  BY DEF CheckAPIKey, TokensKept
<1>1. CASE Retry(k, count[k]) /\ PatchOr(k, PatchResolved(k))
  <2>1. StatusPatched(k)
    BY <1>1 DEF TypeOK, PatchOr, PatchResolved, StatusPatched, status
  <2> QED
    BY <1>0, <1>1, <2>1, FailureInv
<1>2. CASE Goto(k, "secret") /\ UNCHANGED <<got, sync, status, count, due, missed>>
  <2>1. TypeOK'
    <3>1. pc' \in [Keys -> Steps] /\ spent' \in [Keys -> 0..Span]
      BY <1>2, GotoTypes DEF Steps
    <3> QED
      BY <1>0, <1>2, <3>1 DEF TypeOK, TokensKept, status
  <2>2. ASSUME NEW j \in Keys, j # k PROVE KeyInv(j)'
    <3>1. Same(j)
      BY <1>0, <1>2, <2>2 DEF TypeOK, Same, Goto, TokensKept, status
    <3>2. KeyInv(j) /\ CacheKept
      BY <1>0 DEF CacheKept, TokensKept
    <3> QED
      BY <3>1, <3>2, Frame
  <2>3. KeyInv(k)'
    <3>1. /\ pc'[k] = "secret" /\ spent'[k] = spent[k] /\ Grace(k)' = Grace(k)
          /\ secret' = secret /\ cache' = cache /\ age' = age
      BY <1>0, <1>2 DEF TypeOK, Goto, TokensKept, status, Grace
    <3>2. CacheSince(k, age[k])' /\ CacheSince(k, sync[k])'
      BY <1>2, <3>1 DEF KeyInv, CacheSince
    <3>3. ASSUME Covered(k) PROVE Polled(k)'
      <4>1. Polled(k)
        BY <3>3 DEF KeyInv
      <4>2. Scheduled(k)'
        BY <1>0, <1>2, <3>1, <4>1 DEF Polled, Scheduled, Shortcut, SecretSince
      <4> QED
        BY <1>0, <1>2, <3>1, <4>1, <4>2 DEF Polled
    <3> QED
      BY <3>1, <3>2, <3>3 DEF KeyInv, Covered, Margin
  <2> QED
    BY <2>1, <2>2, <2>3
<1> QED
  BY <1>1, <1>2 DEF CheckAPIKey

\* ensureGitHubTokenSecret: after it the Secret is as fresh as the cache, or
\* another reconcile has failed, or there was no token and the Secret is the
\* one that the shortcut has relied on.
LEMMA WriteSecretInv ==
  ASSUME TypeOK, \A j \in Keys : KeyInv(j), NEW k \in Keys, WriteSecret(k)
  PROVE  TypeOK' /\ \A j \in Keys : KeyInv(j)'
<1>0. /\ pc[k] = "secret" /\ Goto(k, "requeue")
      /\ UNCHANGED <<cache, due, status, count, got, sync>>
  BY DEF WriteSecret
<1>1. \/ cache = -1 /\ UNCHANGED <<secret, missed>>
      \/ /\ cache # -1 /\ secret' = [secret EXCEPT ![k] = cache]
         /\ missed' = [missed EXCEPT ![k] = 0]
      \/ /\ secret' = secret
         /\ missed' = [missed EXCEPT ![k] = Lesser(@ + 1, Tolerated + 1)]
  BY DEF WriteSecret
<1>2. TypeOK'
  <2>1. pc' \in [Keys -> Steps] /\ spent' \in [Keys -> 0..Span]
    BY <1>0, GotoTypes DEF Steps
  <2>2. secret' \in [Keys -> -1..Lifetime]
    BY <1>1 DEF TypeOK
  <2>3. 0 \in 0..Tolerated + 1 /\ Lesser(missed[k] + 1, Tolerated + 1) \in 0..Tolerated + 1
    BY Types DEF Lesser
  <2>4. missed' \in [Keys -> 0..Tolerated + 1]
    BY <1>1, <2>3 DEF TypeOK
  <2> QED
    BY <1>0, <2>1, <2>2, <2>4 DEF TypeOK, status
<1>3. ASSUME NEW j \in Keys, j # k PROVE KeyInv(j)'
  <2>1. Same(j)
    BY <1>0, <1>1, <1>3 DEF TypeOK, Same, Goto, status
  <2>2. KeyInv(j) /\ CacheKept
    BY <1>0 DEF CacheKept
  <2> QED
    BY <2>1, <2>2, Frame
<1>4. KeyInv(k)'
  <2>1. /\ pc'[k] = "requeue" /\ spent'[k] = spent[k] /\ cache' = cache
        /\ age' = age /\ sync' = sync /\ count' = count /\ due' = due
    BY <1>0 DEF TypeOK, Goto, status
  <2>2. CacheSince(k, age[k])' /\ CacheSince(k, sync[k])'
    BY <2>1 DEF KeyInv, CacheSince
  <2>3. ASSUME Covered(k) PROVE Polled(k)'
    <3>1. Polled(k)
      BY <2>3 DEF KeyInv
    <3>2. ASSUME missed'[k] <= Tolerated, secret'[k] # -1
          PROVE  /\ secret'[k] > Buffer - 2 * Span - 2 * Interval[k] - Grace(k)' - spent[k]
                 /\ SecretSince(k, age[k])' /\ Shortcut(k)'
      <4>1. CASE cache = -1 /\ UNCHANGED <<secret, missed>>
        <5>1. Grace(k)' = Grace(k)
          BY <4>1 DEF Grace
        <5>2. ~(cache > Buffer - spent[k])
          BY <4>1, <2>3, Types DEF Covered, Margin
        <5>3. Shortcut(k)
          BY <1>0, <3>1, <3>2, <4>1, <5>2 DEF Polled, Scheduled
        <5> QED
          BY <1>0, <2>1, <3>1, <3>2, <4>1, <5>1, <5>3
             DEF Polled, Scheduled, Shortcut, SecretSince
      <4>2. CASE /\ cache # -1 /\ secret' = [secret EXCEPT ![k] = cache]
                 /\ missed' = [missed EXCEPT ![k] = 0]
        <5>1. secret'[k] = cache /\ Grace(k)' = 0
          BY <4>2 DEF TypeOK, Grace
        <5>2. cache > Buffer - Span - Interval[k] - spent[k]
          BY <1>0, <3>1, <4>2 DEF Polled
        <5>3. SecretSince(k, age[k])' /\ SecretSince(k, sync[k])'
          BY <2>1, <4>2, <5>1, Types DEF SecretSince, KeyInv, CacheSince
        <5>4. Shortcut(k)'
          BY <2>1, <5>1, <5>2, <5>3, Types DEF Shortcut
        <5>5. cache > Buffer - 2 * Span - 2 * Interval[k] - spent[k]
          BY <5>2, Types
        <5> QED
          BY <5>1, <5>3, <5>4, <5>5, Types
      <4>3. CASE /\ secret' = secret
                 /\ missed' = [missed EXCEPT ![k] = Lesser(@ + 1, Tolerated + 1)]
        <5>1. missed'[k] = Lesser(missed[k] + 1, Tolerated + 1)
          BY <4>3 DEF TypeOK
        <5>2. missed[k] = 0 /\ missed[k] <= Tolerated /\ missed'[k] # 0
          BY <3>2, <5>1, Types DEF Lesser
        <5>3. Grace(k) = 0 /\ Grace(k)' = Setback + Span
          BY <5>2 DEF Grace
        <5>4. secret[k] > Buffer - 3 * Span - 2 * Interval[k]
          BY <2>3, <3>2, <4>3, <5>2, <5>3, Remaining, Types
        <5>5. 2 * Interval[k] + Span <= Setback
          BY <2>3 DEF Covered
        <5>6. SecretSince(k, age[k])' /\ SecretSince(k, sync[k])'
          BY <2>1, <4>3, <5>3, <5>4, <5>5, Types DEF SecretSince
        <5>7. secret[k] > Buffer - Span - Interval[k] - (Setback + Span) - spent[k]
          BY <5>4, <5>5, Types
        <5>8. secret[k] > Buffer - 2 * Span - 2 * Interval[k] - (Setback + Span) - spent[k]
          BY <5>4, <5>5, Types
        <5> QED
          BY <2>1, <4>3, <5>3, <5>6, <5>7, <5>8 DEF Shortcut
      <4> QED
        BY <1>1, <4>1, <4>2, <4>3
    <3>3. Scheduled(k)'
      BY <2>1, <3>2 DEF Scheduled
    <3> QED
      BY <1>0, <2>1, <3>1, <3>3 DEF Polled
  <2> QED
    BY <2>1, <2>2, <2>3 DEF KeyInv, Covered, Margin
<1> QED
  BY <1>2, <1>3, <1>4

\* The requeue of a polled GatewaySync comes within its interval.
LEMMA FinishInv ==
  ASSUME TypeOK, \A j \in Keys : KeyInv(j), NEW k \in Keys, Finish(k)
  PROVE  TypeOK' /\ \A j \in Keys : KeyInv(j)'
<1> DEFINE r == RequeueInterval(k)
<1>0. pc[k] = "requeue" /\ Return(k) /\ UNCHANGED <<cache, secret, count, missed>>
  BY DEF Finish
<1>1. \/ /\ PatchResolved(k)
         /\ due' = [due EXCEPT ![k] = IF r = 0 THEN -1 ELSE r]
      \/ due' = [due EXCEPT ![k] = 0] /\ UNCHANGED status
  BY DEF Finish
<1>2. r \in Nat /\ (Interval[k] > 0 => r \in 1..Interval[k])
  BY Types DEF RequeueInterval
<1> HIDE DEF r
<1>3. TypeOK'
  <2>1. due' \in [Keys -> Nat \cup {-1}]
    BY <1>1, <1>2 DEF TypeOK
  <2>2. /\ age' \in [Keys -> Nat \cup {-1}]
        /\ resolution' \in [Keys -> {"Unset", "Resolved", "Error"}]
    BY <1>1 DEF TypeOK, PatchResolved, status
  <2>3. "idle" \in Steps /\ 0 \in 0..Span /\ 0 \in 0..Lifetime
    BY Types DEF Steps
  <2>4. /\ pc' \in [Keys -> Steps] /\ spent' \in [Keys -> 0..Span]
        /\ got' \in [Keys -> 0..Lifetime] /\ sync' \in [Keys -> Nat \cup {-1}]
    BY <1>0, <2>3 DEF TypeOK, Return
  <2> QED
    BY <1>0, <2>1, <2>2, <2>4 DEF TypeOK
<1>4. ASSUME NEW j \in Keys, j # k PROVE KeyInv(j)'
  <2>1. Same(j)
    BY <1>0, <1>1, <1>4 DEF TypeOK, Same, Return, PatchResolved, status
  <2>2. KeyInv(j) /\ CacheKept
    BY <1>0 DEF CacheKept
  <2> QED
    BY <2>1, <2>2, Frame
<1>5. KeyInv(k)'
  <2>1. /\ pc'[k] = "idle" /\ spent'[k] = 0 /\ sync'[k] = -1
        /\ age'[k] \in {age[k], sync[k]} /\ due'[k] \in {0, IF r = 0 THEN -1 ELSE r}
        /\ Grace(k)' = Grace(k)
    BY <1>0, <1>1 DEF TypeOK, Return, PatchResolved, status, Grace
  <2>2. CacheSince(k, age[k])' /\ CacheSince(k, sync[k])'
    BY <1>0, <2>1, Types DEF KeyInv, CacheSince
  <2>3. ASSUME Covered(k) PROVE Polled(k)'
    <3>1. Polled(k)
      BY <2>3 DEF KeyInv
    <3>2. due'[k] \in 0..Interval[k]
      BY <1>2, <2>1, <2>3, Types DEF Covered
    <3>3. ASSUME missed[k] <= Tolerated, secret[k] # -1
          PROVE  /\ secret[k] - due'[k] > Buffer - 2 * Span - 2 * Interval[k] - Grace(k)
                 /\ SecretSince(k, age[k])'
      <4>1. Shortcut(k) /\ SecretSince(k, age[k])
        BY <1>0, <3>1, <3>3 DEF Polled, Scheduled
      <4>2. SecretSince(k, age[k])'
        BY <1>0, <2>1, <4>1 DEF Shortcut, SecretSince
      <4>3. secret[k] > Buffer - Span - Interval[k] - Grace(k) - spent[k]
        BY <4>1 DEF Shortcut
      <4> QED
        BY <3>2, <4>2, <4>3, Types
    <3>4. Scheduled(k)'
      BY <1>0, <2>1, <3>3 DEF Scheduled
    <3>5. count'[k] = 0
      BY <1>0, <3>1 DEF Polled
    <3>6. due'[k] # -1
      BY <3>2, Types
    <3> QED
      BY <2>1, <3>4, <3>5, <3>6 DEF Polled
  <2> QED
    BY <2>1, <2>2, <2>3 DEF KeyInv, Covered, Margin
<1> QED
  BY <1>3, <1>4, <1>5

\* A restart forgets the cache and reconciles at once.
LEMMA RestartInv ==
  ASSUME TypeOK, \A j \in Keys : KeyInv(j), Restart
  PROVE  TypeOK' /\ \A j \in Keys : KeyInv(j)'
<1>0. /\ cache' = -1 /\ secret' = secret /\ age' = age /\ resolution' = resolution
  BY DEF Restart, status
<1>1. ASSUME NEW k \in Keys
      PROVE  /\ due'[k] = 0 /\ count'[k] = 0 /\ pc'[k] = "idle" /\ spent'[k] = 0
             /\ got'[k] = 0 /\ sync'[k] = -1
             /\ missed'[k] = IF pc[k] = "idle" THEN missed[k]
                             ELSE Lesser(missed[k] + 1, Tolerated + 1)
  BY DEF Restart
<1>2. TypeOK'
  <2>1. -1 \in -1..Lifetime
    BY TokenAssumption
  <2>2. due' \in [Keys -> Nat \cup {-1}] /\ count' \in [Keys -> 0..MaxRow]
    BY TokenAssumption DEF Restart
  <2>3. pc' \in [Keys -> Steps] /\ spent' \in [Keys -> 0..Span]
    BY TokenAssumption DEF Restart, Steps
  <2>4. got' \in [Keys -> 0..Lifetime] /\ sync' \in [Keys -> Nat \cup {-1}]
    BY TokenAssumption DEF Restart
  <2>5. missed' \in [Keys -> 0..Tolerated + 1]
    <3>1. ASSUME NEW k \in Keys
          PROVE  (IF pc[k] = "idle" THEN missed[k]
                  ELSE Lesser(missed[k] + 1, Tolerated + 1)) \in 0..Tolerated + 1
      <4>1. missed[k] \in 0..Tolerated + 1
        BY DEF TypeOK
      <4> QED
        BY <4>1, Types DEF Lesser
    <3> QED
      BY <3>1 DEF Restart
  <2> QED
    BY <1>0, <2>1, <2>2, <2>3, <2>4, <2>5 DEF TypeOK
<1>3. ASSUME NEW k \in Keys PROVE KeyInv(k)'
  <2>1. CacheSince(k, age[k])' /\ CacheSince(k, sync[k])'
    BY <1>0 DEF CacheSince
  <2>2. ASSUME Covered(k) PROVE Polled(k)'
    <3>1. Polled(k)
      BY <2>2 DEF KeyInv
    <3>2. ASSUME missed'[k] <= Tolerated, secret[k] # -1
          PROVE  /\ secret[k] > Buffer - 2 * Span - 2 * Interval[k] - Grace(k)'
                 /\ SecretSince(k, age[k])'
      <4>1. CASE pc[k] = "idle"
        <5>1. missed'[k] = missed[k] /\ Grace(k)' = Grace(k)
          BY <1>1, <4>1 DEF Grace
        <5>2. /\ secret[k] - due[k] > Buffer - 2 * Span - 2 * Interval[k] - Grace(k)
              /\ SecretSince(k, age[k])
          BY <3>1, <3>2, <4>1, <5>1 DEF Polled, Scheduled
        <5>3. due[k] >= 0
          BY <3>1, Types DEF Polled
        <5>4. SecretSince(k, age[k])'
          BY <1>0, <5>1, <5>2 DEF SecretSince
        <5> QED
          BY <5>1, <5>2, <5>3, <5>4, Types
      <4>2. CASE pc[k] # "idle"
        <5>1. missed[k] = 0 /\ missed[k] <= Tolerated /\ missed'[k] # 0
          BY <1>1, <3>2, <4>2, Types DEF Lesser
        <5>2. Grace(k) = 0 /\ Grace(k)' = Setback + Span
          BY <5>1 DEF Grace
        <5>3. secret[k] > Buffer - 3 * Span - 2 * Interval[k]
          BY <2>2, <3>2, <5>1, <5>2, Remaining, Types
        <5>4. 2 * Interval[k] + Span <= Setback
          BY <2>2 DEF Covered
        <5>5. SecretSince(k, age[k])'
          BY <1>0, <5>2, <5>3, <5>4, Types DEF SecretSince
        <5> QED
          BY <5>2, <5>3, <5>4, <5>5, Types
      <4> QED
        BY <4>1, <4>2
    <3>3. Scheduled(k)'
      BY <1>0, <1>1, <3>2, Types DEF Scheduled
    <3> QED
      BY <1>1, <3>3 DEF Polled
  <2> QED
    BY <1>1, <2>1, <2>2 DEF KeyInv, Covered, Margin
<1> QED
  BY <1>2, <1>3

\* What runs down loses one unit at most, and what is absent stays absent.
LEMMA LeftBounds ==
  ASSUME NEW d \in Int, d >= -1
  PROVE  /\ Left(d) \in Int /\ Left(d) >= d - 1 /\ Left(d) <= d
         /\ Left(d) >= -1 /\ (d >= 0 => Left(d) >= 0)
         /\ (Left(d) = -1 <=> d = -1) /\ (d > 0 => Left(d) = d - 1)
  BY DEF Left

\* An age below the interval has grown by one.
LEMMA OlderBounds ==
  ASSUME NEW k \in Keys, NEW a \in Int, a >= -1
  PROVE  /\ Older(a, k) \in Nat \cup {-1}
         /\ Older(a, k) \in 0..Interval[k] - 1 =>
              a \in 0..Interval[k] - 1 /\ Older(a, k) = a + 1
<1>1. Interval[k] \in Nat
  BY TokenAssumption
<1> QED
  BY <1>1 DEF Older, Lesser

\* Time passes.
LEMMA TickInv ==
  ASSUME TypeOK, \A j \in Keys : KeyInv(j), Tick
  PROVE  TypeOK' /\ \A j \in Keys : KeyInv(j)'
<1>0. /\ cache' = Left(cache) /\ resolution' = resolution /\ count' = count
      /\ pc' = pc /\ missed' = missed
  BY DEF Tick
<1>1. ASSUME NEW k \in Keys
      PROVE  /\ secret'[k] = Left(secret[k]) /\ got'[k] = Left(got[k])
             /\ due'[k] = Left(due[k]) /\ age'[k] = Older(age[k], k)
             /\ sync'[k] = Older(sync[k], k)
             /\ spent'[k] = IF pc[k] = "idle" THEN 0 ELSE spent[k] + 1
             /\ pc[k] = "idle" => due[k] # 0
             /\ pc[k] # "idle" => spent[k] < Span
  BY DEF Tick
<1>2. TypeOK'
  <2>1. ASSUME NEW k \in Keys
        PROVE  /\ Left(cache) \in -1..Lifetime /\ Left(secret[k]) \in -1..Lifetime
               /\ Left(got[k]) \in 0..Lifetime
    <3>1. cache \in -1..Lifetime /\ secret[k] \in -1..Lifetime /\ got[k] \in 0..Lifetime
      BY DEF TypeOK
    <3> QED
      BY <3>1, Types DEF Left
  <2>2. Left(cache) \in -1..Lifetime
    BY TokenAssumption DEF TypeOK, Left
  <2>3. ASSUME NEW k \in Keys PROVE Left(due[k]) \in Nat \cup {-1}
    BY Types DEF Left
  <2>4. ASSUME NEW k \in Keys
        PROVE  (IF pc[k] = "idle" THEN 0 ELSE spent[k] + 1) \in 0..Span
    BY <1>1, Types
  <2>5. ASSUME NEW k \in Keys
        PROVE  /\ Older(age[k], k) \in Nat \cup {-1}
               /\ Older(sync[k], k) \in Nat \cup {-1}
    BY Types, OlderBounds
  <2>6. secret' \in [Keys -> -1..Lifetime] /\ got' \in [Keys -> 0..Lifetime]
    BY <2>1 DEF Tick
  <2>7. due' \in [Keys -> Nat \cup {-1}]
    BY <2>3 DEF Tick
  <2>8. spent' \in [Keys -> 0..Span]
    BY <2>4 DEF Tick
  <2>9. age' \in [Keys -> Nat \cup {-1}] /\ sync' \in [Keys -> Nat \cup {-1}]
    BY <2>5 DEF Tick
  <2> QED
    BY <1>0, <2>2, <2>6, <2>7, <2>8, <2>9 DEF TypeOK
<1>3. ASSUME NEW k \in Keys PROVE KeyInv(k)'
  <2>1. /\ cache' \in Int /\ cache' >= cache - 1 /\ (cache' = -1 <=> cache = -1)
        /\ secret'[k] \in Int /\ secret'[k] >= secret[k] - 1
        /\ (secret'[k] = -1 <=> secret[k] = -1)
        /\ got'[k] \in Int /\ got'[k] >= got[k] - 1
        /\ due'[k] \in Int /\ (due'[k] = -1 <=> due[k] = -1)
        /\ (due[k] > 0 => due'[k] = due[k] - 1)
    BY <1>0, <1>1, Types, LeftBounds
  <2>2. /\ age'[k] \in 0..Interval[k] - 1 =>
             age[k] \in 0..Interval[k] - 1 /\ age'[k] = age[k] + 1
        /\ sync'[k] \in 0..Interval[k] - 1 =>
             sync[k] \in 0..Interval[k] - 1 /\ sync'[k] = sync[k] + 1
    BY <1>1, Types, OlderBounds
  <2>3. pc[k] # "idle" => spent'[k] = spent[k] + 1
    BY <1>1
  <2>4. CacheSince(k, age[k])' /\ CacheSince(k, sync[k])'
    BY <2>1, <2>2, Types DEF KeyInv, CacheSince
  <2>5. pc'[k] = "store" => got'[k] >= Lifetime - spent'[k]
    BY <1>0, <2>1, <2>3, Types DEF KeyInv
  <2>6. pc'[k] = "lsRemote" => cache' > Buffer - spent'[k]
    BY <1>0, <2>1, <2>3, Types DEF KeyInv
  <2>7. ASSUME Covered(k) PROVE Polled(k)'
    <3>1. Polled(k)
      BY <2>7 DEF KeyInv
    <3>2. Grace(k)' = Grace(k)
      BY <1>0 DEF Grace
    <3>3. pc'[k] \in {"apiKey", "secret"} =>
            cache' = -1 \/ cache' > Buffer - Span - Interval[k] - spent'[k]
      BY <1>0, <2>1, <2>3, <3>1, Types DEF Polled
    <3>4. ASSUME missed'[k] <= Tolerated, secret'[k] # -1 PROVE Scheduled(k)'
      <4> DEFINE slack == Buffer - 2 * Span - 2 * Interval[k] - Grace(k)
      <4>1. /\ pc[k] = "idle" => secret[k] - due[k] > slack
            /\ pc[k] # "idle" => secret[k] > slack - spent[k]
            /\ SecretSince(k, age[k])
            /\ pc[k] \in {"apiKey", "secret"} => cache > Buffer - spent[k] \/ Shortcut(k)
            /\ pc[k] = "requeue" => Shortcut(k)
        BY <1>0, <2>1, <3>1, <3>4 DEF Polled, Scheduled
      <4>2. SecretSince(k, age[k])'
        BY <2>1, <2>2, <3>2, <4>1, Types DEF SecretSince
      <4>3. pc[k] # "idle" /\ Shortcut(k) => Shortcut(k)'
        BY <2>1, <2>2, <2>3, <3>2, Types DEF Shortcut, SecretSince
      <4>4. pc[k] # "idle" /\ cache > Buffer - spent[k] => cache' > Buffer - spent'[k]
        BY <2>1, <2>3, Types
      <4>5. pc[k] = "idle" => secret'[k] - due'[k] > slack
        <5>1. pc[k] = "idle" => due[k] > 0
          BY <1>1, <3>1, Types DEF Polled
        <5> QED
          BY <2>1, <4>1, <5>1, Types
      <4>6. pc[k] # "idle" => secret'[k] > slack - spent'[k]
        BY <2>1, <2>3, <4>1, Types
      <4> QED
        BY <1>0, <3>2, <4>1, <4>2, <4>3, <4>4, <4>5, <4>6 DEF Scheduled
    <3>5. Scheduled(k)'
      BY <3>4 DEF Scheduled
    <3> QED
      BY <1>0, <2>1, <3>1, <3>3, <3>5 DEF Polled
  <2> QED
    BY <2>4, <2>5, <2>6, <2>7 DEF KeyInv, Covered, Margin
<1> QED
  BY <1>2, <1>3

-----------------------------------------------------------------------------
(* The theorems.                                                            *)

\* The invariant holds at first.
LEMMA InitInv == Init => TokenInv
<1> SUFFICES ASSUME Init PROVE TypeOK /\ \A k \in Keys : KeyInv(k)
  BY Split
<1>1. TypeOK
  BY TokenAssumption DEF Init, TypeOK, Steps
<1>2. ASSUME NEW k \in Keys PROVE KeyInv(k)
  BY TokenAssumption
     DEF Init, KeyInv, CacheSince, Polled, Scheduled, Covered, Margin
<1> QED
  BY <1>1, <1>2

\* Every step keeps it.
LEMMA NextInv == TokenInv /\ [TokenNext]_vars => TokenInv'
<1> SUFFICES ASSUME TypeOK, \A k \in Keys : KeyInv(k), [TokenNext]_vars
             PROVE  TypeOK' /\ \A k \in Keys : KeyInv(k)'
  <2>1. TokenInv' <=> TypeOK' /\ \A k \in Keys : KeyInv(k)'
    BY DEF TokenInv, CacheIsFresh, KeyInv
  <2> QED
    BY <2>1, Split
<1>1. ASSUME NEW k \in Keys, Begin(k) PROVE TypeOK' /\ \A j \in Keys : KeyInv(j)'
  BY <1>1, BeginInv
<1>2. ASSUME NEW k \in Keys, ResolveToken(k)
      PROVE TypeOK' /\ \A j \in Keys : KeyInv(j)'
  BY <1>2, ResolveTokenInv
<1>3. ASSUME NEW k \in Keys, StoreToken(k)
      PROVE TypeOK' /\ \A j \in Keys : KeyInv(j)'
  BY <1>3, StoreTokenInv
<1>4. ASSUME NEW k \in Keys, LsRemote(k)
      PROVE TypeOK' /\ \A j \in Keys : KeyInv(j)'
  BY <1>4, LsRemoteInv
<1>5. ASSUME NEW k \in Keys, CheckAPIKey(k)
      PROVE TypeOK' /\ \A j \in Keys : KeyInv(j)'
  BY <1>5, CheckAPIKeyInv
<1>6. ASSUME NEW k \in Keys, WriteSecret(k)
      PROVE TypeOK' /\ \A j \in Keys : KeyInv(j)'
  BY <1>6, WriteSecretInv
<1>7. ASSUME NEW k \in Keys, Finish(k) PROVE TypeOK' /\ \A j \in Keys : KeyInv(j)'
  BY <1>7, FinishInv
<1>8. CASE Restart
  BY <1>8, RestartInv
<1>9. CASE Tick
  BY <1>9, TickInv
<1>10. CASE UNCHANGED vars
  <2>1. TypeOK'
    BY <1>10 DEF vars, status, locals, TypeOK
  <2>2. ASSUME NEW j \in Keys PROVE KeyInv(j)'
    <3>1. Same(j) /\ CacheKept /\ KeyInv(j)
      BY <1>10 DEF vars, status, locals, Same, CacheKept
    <3> QED
      BY <3>1, Frame
  <2> QED
    BY <2>1, <2>2
<1> QED
  BY <1>1, <1>2, <1>3, <1>4, <1>5, <1>6, <1>7, <1>8, <1>9, <1>10 DEF TokenNext

\* A GatewaySync's token, its pending requeue and the age of its status stay
\* related as the requeue intervals of Reconcile intend.
THEOREM TokenInvariant == TokenSpec => []TokenInv
  BY InitInv, NextInv, PTL DEF TokenSpec

\* The invariant leaves the token in the Secret some time to live.
LEMMA InvFresh == TokenInv => TokenFresh
<1> SUFFICES ASSUME TokenInv, NEW k \in Keys, Covered(k), missed[k] <= Tolerated
             PROVE  secret[k] # 0
  BY DEF TokenFresh
<1>1. TypeOK /\ KeyInv(k)
  BY Split
<1>2. CASE secret[k] # -1
  <2>1. secret[k] > Buffer - 3 * Span - 2 * Interval[k] - Grace(k)
    BY <1>1, <1>2, Remaining
  <2>2. 2 * Interval[k] + 3 * Span + Grace(k) < Buffer
    BY <1>1, Types DEF Covered, Margin, Grace
  <2> QED
    BY <1>1, <2>1, <2>2, Types
<1> QED
  BY <1>2

\* The token in the Secret of a polled GatewaySync does not expire as long as
\* no more reconciles in a row fail than are tolerated: the shortcut for a
\* recent ref, restarts, the failed writes that Reconcile only logs and the
\* other users of the cache entry included.
THEOREM TokenStaysFresh == TokenSpec => []TokenFresh
  BY TokenInvariant, InvFresh, PTL
=============================================================================

---------------------------- MODULE TokenRefresh ----------------------------
(***************************************************************************)
(* GitHub App installation tokens (internal/controller, internal/git): the *)
(* controller exchanges the App's private key for a token, keeps it in a   *)
(* cache that all GatewaySyncs of the installation share, and writes it to *)
(* the Secret from which the agents of a GatewaySync read it.              *)
(*                                                                         *)
(* There is no clock: a token is represented by how long it is still valid *)
(* (0 once it has expired), a pending requeue by how long it will still    *)
(* take, a past event by its age, and Tick lets one unit of time pass for  *)
(* all of them.                                                            *)
(*                                                                         *)
(* Of Reconcile this keeps what decides when the next one runs and whether *)
(* the token is looked at: the shortcut for a ref that was resolved        *)
(* recently, the backoff, the early returns and the requeue interval.  A   *)
(* reconcile may begin at any time, because of an event; it begins at the  *)
(* latest when it is due, and lasts at most Span.  Reconciles of different *)
(* GatewaySyncs run concurrently, one step at a time.                      *)
(***************************************************************************)
EXTENDS Integers

CONSTANTS
  Keys,      \* the GatewaySyncs that authenticate through one installation
  Interval,  \* polling interval of each, 0 if polling is disabled
  Lifetime,  \* how long GitHub's tokens are valid
  Buffer,    \* tokenRefreshBuffer
  Delay,     \* backoffDelay after so many failures in a row
  MaxRow,    \* number of failures from which on the delay stays the same
  Span,      \* bound on the duration of a reconcile
  Faults,    \* which calls may fail for which GatewaySync
  Tolerated, \* failed reconciles in a row that a token is to survive
  Setback    \* bound on what one failed reconcile costs

Calls == {"gitSecret", "exchange", "lsRemote", "apiKey", "secret", "patch"}

ASSUME TokenAssumption ==
  /\ Interval \in [Keys -> Nat] /\ Lifetime \in Nat /\ Buffer \in Nat
  /\ MaxRow \in Nat \ {0} /\ Delay \in [1..MaxRow -> Nat]
  /\ Span \in Nat /\ Faults \subseteq Keys \X Calls
  /\ Setback \in Nat /\ Tolerated \in {0, 1}

\* A token outlives the reconcile that fetches it by more than the buffer.
ASSUME LifetimeAssumption == Buffer + Span < Lifetime

VARIABLES
  cache,       \* r.tokenCache of the installation, -1 if there is no entry
  secret,      \* Secret stoker-github-token-<name>, -1 if there is none
  due,         \* time until the work queue hands out the key, -1 for never
  resolution,  \* status.refResolutionStatus, "Unset" for the empty string
  age,         \* time since status.lastSyncTime (up to Interval), -1 if nil
  count,       \* r.backoff[key].failureCount
  pc, spent,   \* where the reconcile is, and how long it has taken
  got,         \* the token GitHub has answered with
  sync,        \* age of the LastSyncTime that the reconcile will patch
  missed       \* failed reconciles since the Secret was written (history)

status == <<resolution, age>>
locals == <<pc, spent, got, sync>>
vars   == <<cache, secret, due, status, count, locals, missed>>

Steps == {"idle", "token", "store", "lsRemote", "apiKey", "secret", "requeue"}

(* One type invariant: durations, counters and program positions; no token *)
(* counts as valid for longer than GitHub grants it.                       *)
TypeOK ==
  /\ cache \in -1..Lifetime /\ secret \in [Keys -> -1..Lifetime]
  /\ due \in [Keys -> Nat \cup {-1}]
  /\ resolution \in [Keys -> {"Unset", "Resolved", "Error"}]
  /\ age \in [Keys -> Nat \cup {-1}] /\ count \in [Keys -> 0..MaxRow]
  /\ pc \in [Keys -> Steps] /\ spent \in [Keys -> 0..Span]
  /\ got \in [Keys -> 0..Lifetime] /\ sync \in [Keys -> Nat \cup {-1}]
  /\ missed \in [Keys -> 0..Tolerated + 1]

Init ==
  /\ cache = -1 /\ secret = [k \in Keys |-> -1]
  /\ due = [k \in Keys |-> 0] /\ resolution = [k \in Keys |-> "Unset"]
  /\ age = [k \in Keys |-> -1] /\ count = [k \in Keys |-> 0]
  /\ pc = [k \in Keys |-> "idle"] /\ spent = [k \in Keys |-> 0]
  /\ got = [k \in Keys |-> 0] /\ sync = [k \in Keys |-> -1]
  /\ missed = [k \in Keys |-> 0]

Faulty(k, call) == <<k, call>> \in Faults
Lesser(a, b) == IF a < b THEN a ELSE b

-----------------------------------------------------------------------------
(* What the reconcile computes.                                             *)

\* resolveRef answers from the status: the ref was resolved less than one
\* polling interval ago.  (With polling disabled the interval is 0.)
Recent(k) == resolution[k] = "Resolved" /\ age[k] \in 0..Interval[k] - 1

\* Mutant of TokenValid: the token is used up to its expiry.
TokenValidToTheEnd == cache > 0

\* resolveGitHubAppToken returns the cached token.
TokenValid == cache > Buffer

\* requeueInterval, 0 for "no requeue".
RequeueInterval(k) ==
  LET refresh == cache - Buffer IN
    IF refresh > 0 /\ (Interval[k] = 0 \/ refresh < Interval[k])
    THEN refresh ELSE Interval[k]

Goto(k, step) == pc' = [pc EXCEPT ![k] = step] /\ UNCHANGED spent

\* Reconcile returns.
Return(k) ==
  /\ pc' = [pc EXCEPT ![k] = "idle"] /\ spent' = [spent EXCEPT ![k] = 0]
  /\ got' = [got EXCEPT ![k] = 0] /\ sync' = [sync EXCEPT ![k] = -1]

\* patchStatus after the ref was resolved.
PatchResolved(k) ==
  /\ resolution' = [resolution EXCEPT ![k] = "Resolved"]
  /\ age' = [age EXCEPT ![k] = sync[k]]

\* patchStatus where its error is ignored.
PatchOr(k, Patch) == Patch \/ (Faulty(k, "patch") /\ UNCHANGED status)

\* recordFailure, backoffDelay and the return with that delay.
Retry(k, failures) ==
  LET n == Lesser(failures + 1, MaxRow) IN
  /\ count' = [count EXCEPT ![k] = n]
  /\ due' = [due EXCEPT ![k] = Delay[n]]
  /\ missed' = [missed EXCEPT ![k] = Lesser(@ + 1, Tolerated + 1)]
  /\ Return(k)

-----------------------------------------------------------------------------
(* The steps of a reconcile.                                                *)

\* Up to resolveRef.  Whether the object names the ref that was resolved last
\* is left open; an annotated object starts with a fresh backoff.
Begin(k) ==
  /\ pc[k] = "idle"
  /\ \/ /\ Faulty(k, "gitSecret")
        /\ \E n \in {0, count[k]} : Retry(k, n)
     \/ /\ Recent(k)
        /\ Goto(k, "apiKey") /\ count' = [count EXCEPT ![k] = 0]
        /\ sync' = [sync EXCEPT ![k] = age[k]]
        /\ UNCHANGED <<due, missed, got>>
     \/ /\ \E n \in {0, count[k]} : count' = [count EXCEPT ![k] = n]
        /\ Goto(k, "token") /\ UNCHANGED <<sync, due, missed, got>>
  /\ UNCHANGED <<cache, secret, status>>

\* resolveRef returns an error.
ResolutionFails(k) ==
  /\ Retry(k, count[k])
  /\ PatchOr(k, /\ resolution' = [resolution EXCEPT ![k] = "Error"]
                /\ UNCHANGED age)

\* ExchangeGitHubAppToken: GitHub answers with a new token.
ExchangeGitHubAppToken(k) == got' = [got EXCEPT ![k] = Lifetime]

\* resolveGitHubAppToken up to the answer of GitHub.
ResolveToken(k) ==
  /\ pc[k] = "token"
  /\ \/ /\ TokenValid
        /\ Goto(k, "lsRemote")
        /\ UNCHANGED <<got, sync, status, count, due, missed>>
     \/ /\ ~TokenValid
        /\ ExchangeGitHubAppToken(k)
        /\ Goto(k, "store") /\ UNCHANGED <<sync, status, count, due, missed>>
     \/ ~TokenValid /\ Faulty(k, "exchange") /\ ResolutionFails(k)
  /\ UNCHANGED <<cache, secret>>

\* Mutant of StoreToken: the refresh buffer is added to the cached expiry.
StoreTokenPadded(k) ==
  /\ pc[k] = "store"
  /\ cache' = got[k] + Buffer /\ got' = [got EXCEPT ![k] = 0]
  /\ Goto(k, "lsRemote")
  /\ UNCHANGED <<secret, due, status, count, sync, missed>>

\* storeGitHubToken: of two concurrent exchanges the last to store wins.
StoreToken(k) ==
  /\ pc[k] = "store"
  /\ cache' = got[k] /\ got' = [got EXCEPT ![k] = 0] /\ Goto(k, "lsRemote")
  /\ UNCHANGED <<secret, due, status, count, sync, missed>>

\* LsRemote; LastSyncTime moves only if the commit is not the last one.
LsRemote(k) ==
  /\ pc[k] = "lsRemote"
  /\ \/ /\ count' = [count EXCEPT ![k] = 0] /\ Goto(k, "apiKey")
        /\ \E t \in {age[k], 0} \ {-1} : sync' = [sync EXCEPT ![k] = t]
        /\ UNCHANGED <<got, status, due, missed>>
     \/ Faulty(k, "lsRemote") /\ ResolutionFails(k)
  /\ UNCHANGED <<cache, secret>>

\* validateAPIKeySecret
CheckAPIKey(k) ==
  /\ pc[k] = "apiKey"
  /\ \/ /\ Goto(k, "secret")
        /\ UNCHANGED <<got, sync, status, count, due, missed>>
     \/ /\ Faulty(k, "apiKey")
        /\ Retry(k, count[k]) /\ PatchOr(k, PatchResolved(k))
  /\ UNCHANGED <<cache, secret>>

\* Mutant of WriteSecret: an existing Secret is left alone.
WriteSecretOnce(k) ==
  /\ pc[k] = "secret" /\ Goto(k, "requeue")
  /\ secret' = [secret EXCEPT ![k] = IF @ = -1 THEN cache ELSE @]
  /\ missed' = [missed EXCEPT ![k] = IF cache = -1 THEN @ ELSE 0]
  /\ UNCHANGED <<cache, due, status, count, got, sync>>

\* ensureGitHubTokenSecret, called by ensureMetadataConfigMap if a token is
\* cached.  Its error is logged and nothing else.
WriteSecret(k) ==
  /\ pc[k] = "secret" /\ Goto(k, "requeue")
  /\ \/ cache = -1 /\ UNCHANGED <<secret, missed>>
     \/ /\ cache # -1
        /\ secret' = [secret EXCEPT ![k] = cache]
        /\ missed' = [missed EXCEPT ![k] = 0]
     \/ /\ cache # -1 /\ Faulty(k, "secret")
        /\ missed' = [missed EXCEPT ![k] = Lesser(@ + 1, Tolerated + 1)]
        /\ UNCHANGED secret
  /\ UNCHANGED <<cache, due, status, count, got, sync>>

\* The status is patched and the reconcile returns its requeue interval; an
\* error of the patch is returned and the key retried at once.
Finish(k) ==
  /\ pc[k] = "requeue" /\ Return(k)
  /\ \/ /\ PatchResolved(k)
        /\ due' = [due EXCEPT ![k] = IF RequeueInterval(k) = 0 THEN -1
                                     ELSE RequeueInterval(k)]
     \/ /\ Faulty(k, "patch")
        /\ due' = [due EXCEPT ![k] = 0] /\ UNCHANGED status
  /\ UNCHANGED <<cache, secret, count, missed>>

-----------------------------------------------------------------------------
\* A new process reconciles everything at once and has an empty cache.  A
\* reconcile it interrupts counts as a failed one.
Restart ==
  /\ cache' = -1 /\ due' = [k \in Keys |-> 0]
  /\ count' = [k \in Keys |-> 0] /\ pc' = [k \in Keys |-> "idle"]
  /\ spent' = [k \in Keys |-> 0] /\ got' = [k \in Keys |-> 0]
  /\ sync' = [k \in Keys |-> -1]
  /\ missed' = [k \in Keys |-> IF pc[k] = "idle" THEN missed[k]
                                ELSE Lesser(missed[k] + 1, Tolerated + 1)]
  /\ UNCHANGED <<secret, status>>

\* A countdown and an age, one unit of time later.
Left(d) == IF d > 0 THEN d - 1 ELSE d
Older(a, k) == IF a = -1 THEN a ELSE Lesser(a + 1, Interval[k])

\* One unit of time passes, unless a reconcile is due or has taken its time.
Tick ==
  /\ \A k \in Keys : IF pc[k] = "idle" THEN due[k] # 0 ELSE spent[k] < Span
  /\ cache' = Left(cache)
  /\ secret' = [k \in Keys |-> Left(secret[k])]
  /\ got' = [k \in Keys |-> Left(got[k])]
  /\ due' = [k \in Keys |-> Left(due[k])]
  /\ age' = [k \in Keys |-> Older(age[k], k)]
  /\ sync' = [k \in Keys |-> Older(sync[k], k)]
  /\ spent' = [k \in Keys |-> IF pc[k] = "idle" THEN 0 ELSE spent[k] + 1]
  /\ UNCHANGED <<resolution, count, pc, missed>>

TokenNext ==
  \/ \E k \in Keys : \/ Begin(k) \/ ResolveToken(k) \/ StoreToken(k)
                     \/ LsRemote(k) \/ CheckAPIKey(k) \/ WriteSecret(k)
                     \/ Finish(k)
  \/ Restart \/ Tick

TokenSpec == Init /\ [][TokenNext]_vars

-----------------------------------------------------------------------------
\* What polling makes up for: the wait of a reconcile that used the shortcut,
\* the duration of reconciles, and the setback of a tolerated failure.
Margin(k, failures) ==
  2 * Interval[k] + 3 * Span + (IF failures = 0 THEN 0 ELSE Setback + Span)

\* Polled objects for which the margin is within the refresh buffer.
Covered(k) ==
  /\ Interval[k] > 0 /\ Delay[1] <= Setback
  /\ 2 * Interval[k] + Span <= Setback
  /\ Margin(k, Tolerated) < Buffer

\* The token in the Secret has not expired while no more reconciles in a row
\* have failed than are tolerated: neither the shortcut for a recent ref, nor
\* a restart, nor another GatewaySync that works on the same cache entry keeps
\* the refresh from coming before the expiry.
TokenFresh ==
  \A k \in Keys : Covered(k) /\ missed[k] <= Tolerated => secret[k] # 0

-----------------------------------------------------------------------------
(* The inductive invariant behind TokenFresh.                               *)

\* What failed reconciles have cost so far.
Grace(k) == IF missed[k] = 0 THEN 0 ELSE Setback + Span

\* An answer of GitHub is still fresh when it is stored, and the token with
\* which git is asked is valid.
CacheIsFresh ==
  \A k \in Keys : /\ pc[k] = "store" => got[k] >= Lifetime - spent[k]
                  /\ pc[k] = "lsRemote" => cache > Buffer - spent[k]

\* A LastSyncTime tells how old the cached token can be: the shortcut for a
\* recent ref skips the token check for one interval at most.
CacheSince(k, t) ==
  t \in 0..Interval[k] - 1 => cache = -1 \/ cache > Buffer - Span - t

SecretSince(k, t) ==
  t \in 0..Interval[k] - 1 => secret[k] > Buffer - Span - t - Grace(k)

\* After the shortcut the token is at most one interval older than when git
\* was last asked.
Shortcut(k) ==
  /\ secret[k] > Buffer - Span - Interval[k] - Grace(k) - spent[k]
  /\ SecretSince(k, sync[k])

\* The pending requeue comes early enough for the token in the Secret.
Scheduled(k) ==
  missed[k] <= Tolerated /\ secret[k] # -1 =>
    LET slack == Buffer - 2 * Span - 2 * Interval[k] - Grace(k) IN
    /\ pc[k] = "idle" => secret[k] - due[k] > slack
    /\ pc[k] # "idle" => secret[k] > slack - spent[k]
    /\ SecretSince(k, age[k])
    /\ pc[k] \in {"apiKey", "secret"} => cache > Buffer - spent[k] \/ Shortcut(k)
    /\ pc[k] = "requeue" => Shortcut(k)

Polled(k) ==
  /\ missed[k] = 0 \/ pc[k] \in {"apiKey", "secret", "requeue"} => count[k] = 0
  /\ due[k] # -1
  /\ pc[k] \in {"apiKey", "secret"} =>
       cache = -1 \/ cache > Buffer - Span - Interval[k] - spent[k]
  /\ Scheduled(k)

TokenInv ==
  /\ TypeOK /\ CacheIsFresh
  /\ \A k \in Keys : CacheSince(k, age[k]) /\ CacheSince(k, sync[k])
  /\ \A k \in Keys : Covered(k) => Polled(k)
=============================================================================

------------------------------ MODULE GitAccess ------------------------------
(***************************************************************************)
(* How an agent comes by its git credentials: the pod injector             *)
(* (internal/webhook/inject.go) picks the GatewaySync of a new pod and     *)
(* adds the agent with its environment, mounts and volumes; the kubelet    *)
(* starts the pod once the Secrets of its volumes exist; the agent's git   *)
(* client (internal/git) reads the file its environment names.  Composed   *)
(* with TokenRefresh, which writes one of these Secrets.                   *)
(*                                                                         *)
(* A GatewaySync's authentication is the set of fields of spec.git.auth    *)
(* that are set; the ones in Keys use the GitHub App.  Files are told      *)
(* apart by the directory they are mounted in, Secrets by what they hold.  *)
(***************************************************************************)
EXTENDS TokenRefresh, FiniteSets

CONSTANTS
  Others,     \* GatewaySyncs that do not use the GitHub App
  Auth,       \* spec.git.auth of each GatewaySync
  Namespace,  \* of each GatewaySync
  Pods,       \* gateway pods that ask for the agent
  None        \* no cr-name annotation, no pod

CRs == Keys \cup Others
Fields == {"sshKey", "knownHosts", "token", "githubApp"}

\* Nothing keeps a user from setting several methods; knownHosts is a field of
\* sshKey.
ASSUME AccessAssumption ==
  /\ Others \cap Keys = {} /\ None \notin CRs
  /\ Auth \in [CRs -> SUBSET Fields]
  /\ \A c \in CRs : "knownHosts" \in Auth[c] => "sshKey" \in Auth[c]
  /\ \A c \in CRs : "githubApp" \in Auth[c] <=> c \in Keys
  /\ DOMAIN Namespace = CRs

VARIABLES
  owner,   \* the GatewaySync whose agent was injected into the pod
  phase    \* "absent", "waiting" for its volumes or "running"

podVars == <<owner, phase>>
allVars == <<vars, podVars>>

PodsOK == /\ owner \in [Pods -> CRs \cup {None}]
          /\ phase \in [Pods -> {"absent", "waiting", "running"}]

-----------------------------------------------------------------------------
(* The injector.                                                            *)

\* resolveCRName: the annotation, or else the only GatewaySync of the
\* namespace.  The empty set is a denied admission.
ResolveCRName(ns, annotation) ==
  LET listed == {c \in CRs : Namespace[c] = ns} IN
    IF annotation # None THEN {annotation} \cap listed
    ELSE IF Cardinality(listed) = 1 THEN listed ELSE {}

\* Credential files in the environment of the container, with their directory.
BuildEnvVars(a) ==
  {<<"API_KEY_FILE", "api-key">>} \cup
  IF "sshKey" \in a
  THEN {<<"GIT_SSH_KEY_FILE", "git-credentials">>} \cup
       {<<"GIT_KNOWN_HOSTS_FILE", "known-hosts">> : x \in a \cap {"knownHosts"}}
  ELSE IF "token" \in a THEN {<<"GIT_TOKEN_FILE", "git-credentials">>}
  ELSE IF "githubApp" \in a THEN {<<"GIT_TOKEN_FILE", "git-token">>}
  ELSE {}

NeedsGitCredentialVolume(a) == a \cap {"sshKey", "token"} # {}
NeedsKnownHostsVolume(a) == {"sshKey", "knownHosts"} \subseteq a
NeedsGitHubTokenVolume(a) == "githubApp" \in a

\* Directory of each volume, and the Secret it is filled from.
AgentVolumeMounts(a) ==
  {<<"api-key", "api-key">>} \cup
  {m \in {<<"git-credentials", "git-credentials">>} : NeedsGitCredentialVolume(a)} \cup
  {m \in {<<"github-token", "git-token">>} : NeedsGitHubTokenVolume(a)} \cup
  {m \in {<<"known-hosts", "known-hosts">>} : NeedsKnownHostsVolume(a)}

\* Mutant of GitCredentialSecretName: a deploy key is looked for in the wrong
\* field.
GitCredentialSecretNameSwapped(a) ==
  IF "token" \in a THEN "accessToken"
  ELSE IF "githubApp" \in a THEN "privateKey" ELSE "git-credentials"

GitCredentialSecretName(a) ==
  IF "sshKey" \in a THEN "deployKey"
  ELSE IF "token" \in a THEN "accessToken"
  ELSE IF "githubApp" \in a THEN "privateKey" ELSE "git-credentials"

AgentVolumes(a) ==
  {<<"api-key", "apiKey">>} \cup
  {v \in {<<"git-credentials", GitCredentialSecretName(a)>>} :
     NeedsGitCredentialVolume(a)} \cup
  {v \in {<<"github-token", "installationToken">>} : NeedsGitHubTokenVolume(a)} \cup
  {v \in {<<"known-hosts", "hostKeys">>} : NeedsKnownHostsVolume(a)}

\* injectSidecar: the pod gets the agent of c, with the environment, the mounts
\* and the volumes above; what it needs besides (image, probes, ports, data
\* volume) decides nothing here.
InjectSidecar(p, c) ==
  /\ owner' = [owner EXCEPT ![p] = c]
  /\ phase' = [phase EXCEPT ![p] = "waiting"]

\* Handle: a pod that asks for the agent is created and admitted.  A pod that
\* is denied (no GatewaySync, several of them, a paused one, an unknown
\* profile) is not created.
Handle(p, ns, annotation) ==
  /\ phase[p] = "absent"
  /\ \E c \in ResolveCRName(ns, annotation) : InjectSidecar(p, c)
  /\ UNCHANGED vars

-----------------------------------------------------------------------------
(* Kubelet and agent.                                                       *)

\* The volumes are not optional: the pod starts when their Secrets exist.  The
\* users' own Secrets do.
Mountable(c) ==
  \A v \in AgentVolumes(Auth[c]) : v[2] = "installationToken" => secret[c] # -1

KubeletStarts(p) ==
  /\ phase[p] = "waiting" /\ Mountable(owner[p])
  /\ phase' = [phase EXCEPT ![p] = "running"]
  /\ UNCHANGED <<vars, owner>>

PodDeleted(p) ==
  /\ phase[p] # "absent"
  /\ phase' = [phase EXCEPT ![p] = "absent"]
  /\ owner' = [owner EXCEPT ![p] = None] /\ UNCHANGED vars

\* The Secrets whose content is found in the file that a variable names.
ReadFile(a, var) ==
  {s \in {v[2] : v \in AgentVolumes(a)} :
     \E e \in BuildEnvVars(a), m \in AgentVolumeMounts(a) :
       e[1] = var /\ e[2] = m[2] /\ <<m[1], s>> \in AgentVolumes(a)}
HasVar(a, var) == \E e \in BuildEnvVars(a) : e[1] = var

\* buildGitEnv: what git authenticates with, and whether it checks host keys.
BuildGitEnv(a) ==
  IF HasVar(a, "GIT_SSH_KEY_FILE")
  THEN [credential |-> ReadFile(a, "GIT_SSH_KEY_FILE"),
        hostKeys |-> ReadFile(a, "GIT_KNOWN_HOSTS_FILE")]
  ELSE [credential |-> ReadFile(a, "GIT_TOKEN_FILE"), hostKeys |-> {}]

\* What the controller authenticates with: resolveRef and ResolveAuth.
ResolveAuth(a) ==
  IF "githubApp" \in a
  THEN [credential |-> {"installationToken"}, hostKeys |-> {}]
  ELSE IF "sshKey" \in a
  THEN [credential |-> {"deployKey"},
        hostKeys |-> {"hostKeys" : x \in a \cap {"knownHosts"}}]
  ELSE [credential |-> {"accessToken" : x \in a \cap {"token"}},
        hostKeys |-> {}]

-----------------------------------------------------------------------------
AccessInit == /\ Init /\ owner = [p \in Pods |-> None]
              /\ phase = [p \in Pods |-> "absent"]

PodStep(p) ==
  \/ \E ns \in {Namespace[c] : c \in CRs}, ann \in CRs \cup {None} :
       Handle(p, ns, ann)
  \/ KubeletStarts(p) \/ PodDeleted(p)

Next == \/ TokenNext /\ UNCHANGED podVars
        \/ \E p \in Pods : PodStep(p)

Spec == AccessInit /\ [][Next]_allVars

-----------------------------------------------------------------------------
(* Properties.                                                              *)

\* The methods that both sides consider: next to another method the injector
\* passes over the GitHub App, which comes first for the controller.
Agreed(a) == IF a = {"githubApp"} THEN a ELSE a \ {"githubApp"}

\* The credential an agent finds through its environment, its mounts and its
\* volumes is the one its GatewaySync names, and the one with which the
\* controller resolved the ref unless a GitHub App is combined with another
\* method; if it is an installation token, it exists since before the pod
\* started and has not expired, unless more reconciles in a row have failed
\* than a token survives.
AgentAuthenticates ==
  \A p \in Pods : phase[p] = "running" =>
    LET c == owner[p] IN
    /\ BuildGitEnv(Auth[c]) = ResolveAuth(Agreed(Auth[c]))
    /\ "installationToken" \in BuildGitEnv(Auth[c]).credential
         /\ Covered(c) /\ missed[c] <= Tolerated => secret[c] > 0

\* The inductive invariant about pods.
PodInv == /\ PodsOK
          /\ \A p \in Pods : phase[p] # "absent" => owner[p] # None
          /\ \A p \in Pods : phase[p] = "running" /\ owner[p] \in Keys
                               => secret[owner[p]] # -1
=============================================================================

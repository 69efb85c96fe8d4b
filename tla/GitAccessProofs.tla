--------------------------- MODULE GitAccessProofs ---------------------------
(***************************************************************************)
(* Proof that a running agent finds the credential its GatewaySync names,  *)
(* for every set of GatewaySyncs, namespaces and pods, on top of the proof *)
(* about installation tokens.                                              *)
(***************************************************************************)
EXTENDS GitAccess, TokenRefreshProofs

-----------------------------------------------------------------------------
(* Environment, mounts and volumes of each kind of authentication.          *)

\* A variable that is not set names no file.
LEMMA ReadNone ==
  ASSUME NEW a, NEW var, \A e \in BuildEnvVars(a) : e[1] # var
  PROVE  ReadFile(a, var) = {} /\ ~HasVar(a, var)
  BY DEF ReadFile, HasVar

\* A variable that is set leads through one mount to one volume and Secret.
LEMMA ReadOne ==
  ASSUME NEW a, NEW var, NEW dir, NEW vol, NEW s,
         <<var, dir>> \in BuildEnvVars(a),
         \A e \in BuildEnvVars(a) : e[1] = var => e[2] = dir,
         <<vol, dir>> \in AgentVolumeMounts(a),
         \A m \in AgentVolumeMounts(a) : m[2] = dir => m[1] = vol,
         <<vol, s>> \in AgentVolumes(a),
         \A t : <<vol, t>> \in AgentVolumes(a) => t = s
  PROVE  ReadFile(a, var) = {s} /\ HasVar(a, var)
<1>1. HasVar(a, var)
  <2>1. <<var, dir>>[1] = var
    OBVIOUS
  <2> QED
    BY <2>1 DEF HasVar
<1>2. s \in ReadFile(a, var)
  <2>1. s \in {v[2] : v \in AgentVolumes(a)}
    <3>1. <<vol, s>>[2] = s
      OBVIOUS
    <3> QED
      BY <3>1
  <2>2. \E e \in BuildEnvVars(a), m \in AgentVolumeMounts(a) :
          e[1] = var /\ e[2] = m[2] /\ <<m[1], s>> \in AgentVolumes(a)
    <3>1. WITNESS <<var, dir>> \in BuildEnvVars(a), <<vol, dir>> \in AgentVolumeMounts(a)
    <3> QED
      OBVIOUS
  <2> QED
    BY <2>1, <2>2 DEF ReadFile
<1>3. ASSUME NEW t \in ReadFile(a, var) PROVE t = s
  <2>1. PICK e \in BuildEnvVars(a), m \in AgentVolumeMounts(a) :
          e[1] = var /\ e[2] = m[2] /\ <<m[1], t>> \in AgentVolumes(a)
    BY <1>3 DEF ReadFile
  <2> QED
    BY <2>1
<1> QED
  BY <1>1, <1>2, <1>3

\* Without authentication there is no credential file.
LEMMA Anonymous == BuildGitEnv({}) = ResolveAuth({})
<1>1. BuildEnvVars({}) = {<<"API_KEY_FILE", "api-key">>}
  BY DEF BuildEnvVars
<1>2. \A e \in BuildEnvVars({}) : e[1] \notin {"GIT_SSH_KEY_FILE", "GIT_TOKEN_FILE"}
  BY <1>1
<1>3. ReadFile({}, "GIT_TOKEN_FILE") = {} /\ ~HasVar({}, "GIT_SSH_KEY_FILE")
  BY <1>2, ReadNone
<1> QED
  BY <1>3 DEF BuildGitEnv, ResolveAuth

\* What the controller makes of a deploy key when there is no GitHub App.
LEMMA ResolveKey ==
  ASSUME NEW a, "sshKey" \in a
  PROVE  LET r == ResolveAuth(a \ {"githubApp"}) IN
         /\ "knownHosts" \in a
              => r = [credential |-> {"deployKey"}, hostKeys |-> {"hostKeys"}]
         /\ "knownHosts" \notin a
              => r = [credential |-> {"deployKey"}, hostKeys |-> {}]
         /\ r.credential = {"deployKey"}
<1> DEFINE b == a \ {"githubApp"}
<1>1. /\ "githubApp" \notin b /\ "sshKey" \in b
      /\ "knownHosts" \in b <=> "knownHosts" \in a
  OBVIOUS
<1> HIDE DEF b
<1>0. ResolveAuth(b)
        = [credential |-> {"deployKey"},
           hostKeys |-> {"hostKeys" : x \in b \cap {"knownHosts"}}]
  BY <1>1 DEF ResolveAuth
<1>2. ASSUME "knownHosts" \in b
      PROVE  ResolveAuth(b)
               = [credential |-> {"deployKey"}, hostKeys |-> {"hostKeys"}]
  <2>1. {"hostKeys" : x \in b \cap {"knownHosts"}} = {"hostKeys"}
    BY <1>2
  <2> QED BY <1>0, <2>1
<1>3. ASSUME "knownHosts" \notin b
      PROVE  ResolveAuth(b) = [credential |-> {"deployKey"}, hostKeys |-> {}]
  <2>1. {"hostKeys" : x \in b \cap {"knownHosts"}} = {}
    BY <1>3
  <2> QED BY <1>0, <2>1
<1>4. ResolveAuth(b).credential = {"deployKey"}
  BY <1>2, <1>3
<1> QED
  BY <1>1, <1>2, <1>3, <1>4 DEF b

\* A deploy key, with or without host keys.
LEMMA DeployKey ==
  ASSUME NEW a \in SUBSET Fields, "sshKey" \in a
  PROVE  BuildGitEnv(a) = ResolveAuth(a \ {"githubApp"})
<1>1. ReadFile(a, "GIT_SSH_KEY_FILE") = {"deployKey"} /\ HasVar(a, "GIT_SSH_KEY_FILE")
  <2>1. /\ <<"GIT_SSH_KEY_FILE", "git-credentials">> \in BuildEnvVars(a)
        /\ \A e \in BuildEnvVars(a) : e[1] = "GIT_SSH_KEY_FILE" => e[2] = "git-credentials"
    BY DEF BuildEnvVars
  <2>2. /\ <<"git-credentials", "git-credentials">> \in AgentVolumeMounts(a)
        /\ \A m \in AgentVolumeMounts(a) : m[2] = "git-credentials" => m[1] = "git-credentials"
    BY DEF AgentVolumeMounts, NeedsGitCredentialVolume, NeedsKnownHostsVolume,
           NeedsGitHubTokenVolume
  <2>3. /\ <<"git-credentials", "deployKey">> \in AgentVolumes(a)
        /\ \A t : <<"git-credentials", t>> \in AgentVolumes(a) => t = "deployKey"
    BY DEF AgentVolumes, GitCredentialSecretName, NeedsGitCredentialVolume,
           NeedsKnownHostsVolume, NeedsGitHubTokenVolume
  <2> QED
    BY <2>1, <2>2, <2>3, ReadOne
<1>2. CASE "knownHosts" \notin a
  <2>1. \A e \in BuildEnvVars(a) : e[1] # "GIT_KNOWN_HOSTS_FILE"
    BY <1>2 DEF BuildEnvVars
  <2>2. ReadFile(a, "GIT_KNOWN_HOSTS_FILE") = {}
    BY <2>1, ReadNone
  <2>3. ResolveAuth(a \ {"githubApp"})
          = [credential |-> {"deployKey"}, hostKeys |-> {}]
    BY <1>2, ResolveKey
  <2> QED
    BY <1>1, <2>2, <2>3 DEF BuildGitEnv
<1>3. CASE "knownHosts" \in a
  <2>1. /\ <<"GIT_KNOWN_HOSTS_FILE", "known-hosts">> \in BuildEnvVars(a)
        /\ \A e \in BuildEnvVars(a) : e[1] = "GIT_KNOWN_HOSTS_FILE" => e[2] = "known-hosts"
    BY <1>3 DEF BuildEnvVars
  <2>2. /\ <<"known-hosts", "known-hosts">> \in AgentVolumeMounts(a)
        /\ \A m \in AgentVolumeMounts(a) : m[2] = "known-hosts" => m[1] = "known-hosts"
    BY <1>3 DEF AgentVolumeMounts, NeedsGitCredentialVolume, NeedsKnownHostsVolume,
                NeedsGitHubTokenVolume
  <2>3. /\ <<"known-hosts", "hostKeys">> \in AgentVolumes(a)
        /\ \A t : <<"known-hosts", t>> \in AgentVolumes(a) => t = "hostKeys"
    BY <1>3 DEF AgentVolumes, GitCredentialSecretName, NeedsGitCredentialVolume,
                NeedsKnownHostsVolume, NeedsGitHubTokenVolume
  <2>4. ReadFile(a, "GIT_KNOWN_HOSTS_FILE") = {"hostKeys"}
    BY <2>1, <2>2, <2>3, ReadOne
  <2>5. ResolveAuth(a \ {"githubApp"})
          = [credential |-> {"deployKey"}, hostKeys |-> {"hostKeys"}]
    BY <1>3, ResolveKey
  <2> QED
    BY <1>1, <2>4, <2>5 DEF BuildGitEnv
<1> QED
  BY <1>2, <1>3

\* An access token and no deploy key.
LEMMA AccessToken ==
  ASSUME NEW a \in SUBSET Fields, "token" \in a, "sshKey" \notin a
  PROVE  BuildGitEnv(a) = ResolveAuth(a \ {"githubApp"})
<1>1. \A e \in BuildEnvVars(a) : e[1] # "GIT_SSH_KEY_FILE"
  BY DEF BuildEnvVars
<1>2. /\ <<"GIT_TOKEN_FILE", "git-credentials">> \in BuildEnvVars(a)
      /\ \A e \in BuildEnvVars(a) : e[1] = "GIT_TOKEN_FILE" => e[2] = "git-credentials"
  BY DEF BuildEnvVars
<1>3. /\ <<"git-credentials", "git-credentials">> \in AgentVolumeMounts(a)
      /\ \A m \in AgentVolumeMounts(a) : m[2] = "git-credentials" => m[1] = "git-credentials"
  BY DEF AgentVolumeMounts, NeedsGitCredentialVolume, NeedsKnownHostsVolume,
         NeedsGitHubTokenVolume
<1>4. /\ <<"git-credentials", "accessToken">> \in AgentVolumes(a)
      /\ \A t : <<"git-credentials", t>> \in AgentVolumes(a) => t = "accessToken"
  BY DEF AgentVolumes, GitCredentialSecretName, NeedsGitCredentialVolume,
         NeedsKnownHostsVolume, NeedsGitHubTokenVolume
<1>5. ReadFile(a, "GIT_TOKEN_FILE") = {"accessToken"} /\ ~HasVar(a, "GIT_SSH_KEY_FILE")
  BY <1>1, <1>2, <1>3, <1>4, ReadOne, ReadNone
<1> QED
  BY <1>5 DEF BuildGitEnv, ResolveAuth

\* The GitHub App alone.
LEMMA InstallationToken ==
  BuildGitEnv({"githubApp"}) = ResolveAuth({"githubApp"})
<1> DEFINE a == {"githubApp"}
<1>1. \A e \in BuildEnvVars(a) : e[1] # "GIT_SSH_KEY_FILE"
  BY DEF BuildEnvVars
<1>2. /\ <<"GIT_TOKEN_FILE", "git-token">> \in BuildEnvVars(a)
      /\ \A e \in BuildEnvVars(a) : e[1] = "GIT_TOKEN_FILE" => e[2] = "git-token"
  BY DEF BuildEnvVars
<1>3. /\ <<"github-token", "git-token">> \in AgentVolumeMounts(a)
      /\ \A m \in AgentVolumeMounts(a) : m[2] = "git-token" => m[1] = "github-token"
  BY DEF AgentVolumeMounts, NeedsGitCredentialVolume, NeedsKnownHostsVolume,
         NeedsGitHubTokenVolume
<1>4. /\ <<"github-token", "installationToken">> \in AgentVolumes(a)
      /\ \A t : <<"github-token", t>> \in AgentVolumes(a) => t = "installationToken"
  BY DEF AgentVolumes, GitCredentialSecretName, NeedsGitCredentialVolume,
         NeedsKnownHostsVolume, NeedsGitHubTokenVolume
<1> HIDE DEF a
<1>5. ReadFile(a, "GIT_TOKEN_FILE") = {"installationToken"}
      /\ ~HasVar(a, "GIT_SSH_KEY_FILE")
  BY <1>1, <1>2, <1>3, <1>4, ReadOne, ReadNone
<1> QED
  BY <1>5 DEF a, BuildGitEnv, ResolveAuth

\* Agent and controller use the same credential wherever both consider the
\* same methods, and only the GitHub App leads to an installation token.
LEMMA SameCredential ==
  ASSUME NEW c \in CRs
  PROVE  /\ BuildGitEnv(Auth[c]) = ResolveAuth(Agreed(Auth[c]))
         /\ "installationToken" \in BuildGitEnv(Auth[c]).credential => c \in Keys
<1> DEFINE a == Auth[c]
<1>1. /\ a \in SUBSET Fields /\ ("githubApp" \in a <=> c \in Keys)
      /\ "knownHosts" \in a => "sshKey" \in a
  BY AccessAssumption
<1> HIDE DEF a
<1>2. CASE "sshKey" \in a
  <2>1. Agreed(a) = a \ {"githubApp"}
    BY <1>2 DEF Agreed
  <2>2. "installationToken" \notin ResolveAuth(a \ {"githubApp"}).credential
    BY <1>2, ResolveKey
  <2> QED
    BY <1>1, <1>2, <2>1, <2>2, DeployKey DEF a
<1>3. CASE "sshKey" \notin a /\ "token" \in a
  <2>1. Agreed(a) = a \ {"githubApp"}
    BY <1>3 DEF Agreed
  <2>2. "installationToken" \notin ResolveAuth(a \ {"githubApp"}).credential
    BY <1>3 DEF ResolveAuth
  <2> QED
    BY <1>1, <1>3, <2>1, <2>2, AccessToken DEF a
<1>4. CASE a = {"githubApp"}
  BY <1>1, <1>4, InstallationToken DEF a, Agreed
<1>5. CASE a = {}
  <2>1. Agreed(a) = {}
    BY <1>5 DEF Agreed
  <2>2. "installationToken" \notin ResolveAuth({}).credential
    BY DEF ResolveAuth
  <2> QED
    BY <1>5, <2>1, <2>2, Anonymous DEF a
<1>6. a = {} \/ a = {"githubApp"} \/ "sshKey" \in a
      \/ ("sshKey" \notin a /\ "token" \in a)
  BY <1>1 DEF Fields
<1> QED
  BY <1>2, <1>3, <1>4, <1>5, <1>6

\* The pod of a GitHub App waits for the Secret of its token.
LEMMA TokenVolume ==
  ASSUME NEW a, "githubApp" \in a
  PROVE  <<"github-token", "installationToken">> \in AgentVolumes(a)
BY DEF AgentVolumes, NeedsGitHubTokenVolume

-----------------------------------------------------------------------------
(* Pods.                                                                    *)

\* A Secret that exists is not removed while its GatewaySync exists.
LEMMA SecretStays ==
  ASSUME TypeOK, [TokenNext]_vars, NEW k \in Keys, secret[k] # -1
  PROVE  secret'[k] # -1
<1>1. ASSUME NEW j \in Keys, WriteSecret(j) PROVE secret'[k] # -1
  BY <1>1 DEF WriteSecret, TypeOK
<1>2. CASE Tick
  <2>1. secret'[k] = Left(secret[k])
    BY <1>2 DEF Tick
  <2> QED
    BY <2>1, Types, LeftBounds
<1>3. CASE UNCHANGED secret
  BY <1>3
<1> QED
  BY <1>1, <1>2, <1>3
     DEF TokenNext, Begin, ResolveToken, StoreToken, LsRemote, CheckAPIKey, Finish,
         Restart, vars

\* Tokens and pods together.
AccessInv == TokenInv /\ PodInv

\* No pod exists at first.
LEMMA AccessInitInv == AccessInit => AccessInv
<1> SUFFICES ASSUME AccessInit PROVE TokenInv /\ PodInv
  BY DEF AccessInv
<1>1. TokenInv
  BY InitInv DEF AccessInit
<1> QED
  BY <1>1 DEF AccessInit, PodInv, PodsOK

\* A step of a pod leaves the controller alone.
LEMMA PodStepInv ==
  ASSUME AccessInv, NEW p \in Pods, PodStep(p)
  PROVE  PodInv' /\ UNCHANGED vars
<1> USE DEF AccessInv
<1>1. CASE \E ns \in {Namespace[c] : c \in CRs}, ann \in CRs \cup {None} : Handle(p, ns, ann)
  <2>1. PICK ns \in {Namespace[c] : c \in CRs}, ann \in CRs \cup {None} : Handle(p, ns, ann)
    BY <1>1
  <2>2. PICK c \in ResolveCRName(ns, ann) : InjectSidecar(p, c)
    BY <2>1 DEF Handle
  <2>3. c \in CRs /\ c # None
    BY AccessAssumption DEF ResolveCRName
  <2> QED
    BY <2>1, <2>2, <2>3 DEF Handle, InjectSidecar, PodInv, PodsOK, vars
<1>2. CASE KubeletStarts(p)
  <2>1. ASSUME owner[p] \in Keys PROVE secret[owner[p]] # -1
    <3>1. "githubApp" \in Auth[owner[p]]
      BY <2>1, AccessAssumption DEF CRs
    <3>2. \A v \in AgentVolumes(Auth[owner[p]]) :
            v[2] = "installationToken" => secret[owner[p]] # -1
      BY <1>2 DEF KubeletStarts, Mountable
    <3>3. <<"github-token", "installationToken">>[2] = "installationToken"
      OBVIOUS
    <3> QED
      BY <3>1, <3>2, <3>3, TokenVolume
  <2> QED
    BY <1>2, <2>1 DEF KubeletStarts, PodInv, PodsOK, vars
<1>3. CASE PodDeleted(p)
  BY <1>3, AccessAssumption DEF PodDeleted, PodInv, PodsOK, vars
<1> QED
  BY <1>1, <1>2, <1>3 DEF PodStep

\* Every step keeps the invariant.
LEMMA AccessNextInv == AccessInv /\ [Next]_allVars => AccessInv'
<1> SUFFICES ASSUME AccessInv, [Next]_allVars PROVE TokenInv' /\ PodInv'
  BY DEF AccessInv
<1>0. TokenInv /\ PodInv /\ TypeOK
  BY DEF AccessInv, TokenInv
<1>1. CASE [TokenNext]_vars /\ UNCHANGED podVars
  <2>1. TokenInv'
    BY <1>0, <1>1, NextInv
  <2>2. owner' = owner /\ phase' = phase
    BY <1>1 DEF podVars
  <2>3. \A k \in Keys : secret[k] # -1 => secret'[k] # -1
    BY <1>0, <1>1, SecretStays
  <2>4. PodInv'
    BY <1>0, <2>2, <2>3 DEF PodInv, PodsOK
  <2> QED
    BY <2>1, <2>4
<1>2. ASSUME NEW p \in Pods, PodStep(p) PROVE TokenInv' /\ PodInv'
  <2>1. PodInv' /\ UNCHANGED vars
    BY <1>2, PodStepInv
  <2> QED
    BY <1>0, <2>1, NextInv
<1> QED
  BY <1>1, <1>2 DEF Next, allVars

\* The invariant of the composition.
THEOREM AccessInvariant == Spec => []AccessInv
  BY AccessInitInv, AccessNextInv, PTL DEF Spec

\* Durations, counters and positions stay in their ranges whatever pods do.
THEOREM AccessTypes == Spec => []TypeOK
<1>1. AccessInv => TypeOK
  BY DEF AccessInv, TokenInv
<1> QED
  BY <1>1, AccessInvariant, PTL

\* Next to pods that come and go, the token in the Secret of a polled
\* GatewaySync does not expire either.
THEOREM SecretStaysFresh == Spec => []TokenFresh
<1>1. AccessInv => TokenFresh
  BY InvFresh DEF AccessInv
<1> QED
  BY <1>1, AccessInvariant, PTL

\* The invariant says what a running agent finds.
LEMMA InvAuthenticates == AccessInv => AgentAuthenticates
<1> SUFFICES ASSUME AccessInv, NEW p \in Pods, phase[p] = "running"
             PROVE  /\ BuildGitEnv(Auth[owner[p]])
                         = ResolveAuth(Agreed(Auth[owner[p]]))
                    /\ "installationToken" \in BuildGitEnv(Auth[owner[p]]).credential
                         /\ Covered(owner[p]) /\ missed[owner[p]] <= Tolerated
                          => secret[owner[p]] > 0
  BY DEF AgentAuthenticates
<1>1. owner[p] \in CRs
  BY DEF AccessInv, PodInv, PodsOK
<1>2. BuildGitEnv(Auth[owner[p]]) = ResolveAuth(Agreed(Auth[owner[p]]))
  BY <1>1, SameCredential
<1>3. ASSUME "installationToken" \in BuildGitEnv(Auth[owner[p]]).credential,
             Covered(owner[p]), missed[owner[p]] <= Tolerated
      PROVE  secret[owner[p]] > 0
  <2>1. owner[p] \in Keys
    BY <1>1, <1>3, SameCredential
  <2>2. secret[owner[p]] # -1
    BY <2>1 DEF AccessInv, PodInv
  <2>3. secret[owner[p]] # 0
    BY <1>3, <2>1, InvFresh DEF AccessInv, TokenFresh
  <2>4. secret[owner[p]] \in Int /\ secret[owner[p]] >= -1
    BY <2>1, Types DEF AccessInv, TokenInv
  <2> QED
    BY <2>2, <2>3, <2>4
<1> QED
  BY <1>2, <1>3

\* An agent that the injector has added and the kubelet has started finds the
\* credential with which the controller resolves the ref, and an installation
\* token that has not expired.
THEOREM AgentsAuthenticate == Spec => []AgentAuthenticates
  BY AccessInvariant, InvAuthenticates, PTL
=============================================================================

-------------------------------- MODULE Access --------------------------------
(***************************************************************************)
(* The door of the HTTP interface: the settings the process starts with,   *)
(* the service tokens they make, and what happens to a call before its     *)
(* handler runs: authentication, then the scope its route asks for.        *)
(*                                                                         *)
(* A token that has no namespace grants in the settings is given grants    *)
(* that stand for its scopes.  GovernancePolicy has a fall-back of its own *)
(* for callers without grants (HasNamespaceGrant in module Policy); the    *)
(* two must decide alike.                                                  *)
(***************************************************************************)
EXTENDS Policy, Naturals, Sequences

CONSTANTS
    Calls,         \* the HTTP calls made
    Requests,      \* what a call may ask: records with fields kind and credentials
    SettingsSet,   \* the settings the process may be started with
    MaxNow,        \* bound of the clock
    None           \* no request, no caller, no row

VARIABLES
    settings,   \* the environment the process reads
    service,    \* the process: "starting", "up" or "refused"
    now,        \* the clock that expiry is judged by
    pc,         \* what each call does next
    req,        \* its request
    caller,     \* the identity authentication gave it
    result      \* its answer: the HTTP error code, or the name of the success

accessVars == <<settings, service, now, pc, req, caller, result>>

Kinds == {"stars", "userStars", "install", "import", "publish", "organization",
          "namespace", "pack", "ownership", "evidence"}

-----------------------------------------------------------------------------
(* Settings *)

Rule == [scope : Scopes, provenance : BOOLEAN]

\* The publish rules of the built-in profile.
DefaultRules ==
    [untrusted |-> [scope |-> "publish", provenance |-> FALSE],
     internal  |-> [scope |-> "publish", provenance |-> TRUE],
     verified  |-> [scope |-> "admin", provenance |-> TRUE]]

\* A configured profile may give rules for some tiers only.
Profile == UNION {[tiers -> Rule] : tiers \in SUBSET Tiers}

\* The built-in profile is called "default" unless the settings say otherwise.
EffectiveProfiles(s) ==
    [p \in {"default"} \cup DOMAIN s.profiles |->
        IF p \in DOMAIN s.profiles THEN s.profiles[p] ELSE DefaultRules]

\* The active profile over the built-in one, tier by tier.
ActiveRules(s) ==
    LET active == EffectiveProfiles(s)[s.profile]
    IN  [t \in Tiers |-> IF t \in DOMAIN active THEN active[t] ELSE DefaultRules[t]]

\* One service token in the settings; "spelled" says that the field validators
\* accept its id, digest, expiry and grants. It expires at the time in "expires".
TokenSetting ==
    [id : TokenIds, secret : TokenIds, scopes : SUBSET Scopes, active : BOOLEAN,
     grants : SUBSET Grant, expires : SUBSET (1..MaxNow), spelled : BOOLEAN]

ASSUME AccessAssumption ==
    /\ MaxNow \in Nat
    /\ \A s \in SettingsSet : s.tokens \in Seq(TokenSetting)

\* The settings object is built, and the process starts, only if these hold.
SettingsAccepted(s) ==
    /\ s.profile \in DOMAIN EffectiveProfiles(s)
    /\ s.env = "prod" => s.hosts
    /\ s.env = "prod" /\ s.otel => s.endpoint
    /\ \A i, j \in DOMAIN s.tokens : s.tokens[i].id = s.tokens[j].id => i = j
    /\ \A i \in DOMAIN s.tokens : s.tokens[i].spelled
    /\ s.keyMatches

\* Mutant: the default grants reach every channel.
DefaultGrantsEverywhere(scopes) ==
    IF "admin" \in scopes
    THEN {[namespace |-> "*", roles |-> Roles, channels |-> {"*"}]}
    ELSE IF scopes \cap Roles = {}
    THEN {}
    ELSE {[namespace |-> "public", roles |-> scopes \cap Roles, channels |-> {"*"}]}

\* What a token without grants is given.
DefaultGrants(scopes) ==
    IF "admin" \in scopes
    THEN {[namespace |-> "*", roles |-> Roles, channels |-> {"*"}]}
    ELSE IF scopes \cap Roles = {}
    THEN {}
    ELSE {[namespace |-> "public", roles |-> scopes \cap Roles, channels |-> {"prod"}]}

EffectiveGrants(token) ==
    IF token.grants = {} THEN DefaultGrants(token.scopes) ELSE token.grants

TokensOf(s) == {s.tokens[i] : i \in DOMAIN s.tokens}

-----------------------------------------------------------------------------
(* Authentication and scope *)

\* The bearer credentials: none, not of the form id.secret, or a pair.
Credentials == [form : {"absent", "malformed", "pair"}, id : TokenIds, secret : TokenIds]

\* The first error of AuthService.authenticate, or "ok".
AuthCode(s, time, cred) ==
    LET known == {t \in TokensOf(s) : t.id = cred.id /\ t.secret = cred.secret}
    IN  CASE cred.form = "absent"                           -> "AUTHENTICATION_REQUIRED"
          [] cred.form = "malformed"                        -> "MALFORMED_AUTH_TOKEN"
          [] known = {}                                     -> "INVALID_AUTH_TOKEN"
          [] \A t \in known : ~t.active                     -> "INACTIVE_AUTH_TOKEN"
          [] \A t \in known : \E e \in t.expires : e <= time -> "EXPIRED_AUTH_TOKEN"
          [] OTHER                                          -> "ok"

CallerOf(s, cred) ==
    LET token == CHOOSE t \in TokensOf(s) : t.id = cred.id
    IN  [id |-> token.id, scopes |-> token.scopes, grants |-> EffectiveGrants(token)]

RequiredScope(kind) ==
    CASE kind \in {"stars", "userStars"} -> "telemetry"
      [] kind = "install"                -> "read"
      [] kind = "publish"                -> "publish"
      [] kind = "evidence"               -> "review"
      [] OTHER                           -> "admin"

-----------------------------------------------------------------------------
(* Steps *)

At(c, kind, phase) == pc[c] = phase /\ req[c].kind = kind

InService == {c \in Calls : pc[c] \notin {"idle", "done"}}

Goto(c, phase) ==
    /\ pc' = [pc EXCEPT ![c] = phase]
    /\ UNCHANGED <<settings, service, now, req, caller, result>>

Answer(c, answer) ==
    /\ pc' = [pc EXCEPT ![c] = "done"]
    /\ result' = [result EXCEPT ![c] = answer]
    /\ UNCHANGED <<settings, service, now, req, caller>>

AccessInit ==
    /\ settings \in SettingsSet
    /\ service = "starting"
    /\ now = 0
    /\ pc = [c \in Calls |-> "idle"]
    /\ req = [c \in Calls |-> None]
    /\ caller = [c \in Calls |-> None]
    /\ result = [c \in Calls |-> "none"]

\* The process reads its settings and serves, or does not start.
Start ==
    /\ service = "starting"
    /\ service' = IF SettingsAccepted(settings) THEN "up" ELSE "refused"
    /\ UNCHANGED <<settings, now, pc, req, caller, result>>

Tick ==
    /\ service = "up"
    /\ now < MaxNow
    /\ now' = now + 1
    /\ UNCHANGED <<settings, service, pc, req, caller, result>>

Arrive(c) ==
    /\ service = "up"
    /\ pc[c] = "idle"
    /\ \E r \in Requests : req' = [req EXCEPT ![c] = r]
    /\ pc' = [pc EXCEPT ![c] = "arrived"]
    /\ UNCHANGED <<settings, service, now, caller, result>>

\* The dependencies of the route: who calls, and with the scope it needs?
Refuse(c) ==
    LET code == AuthCode(settings, now, req[c].credentials)
    IN  /\ pc[c] = "arrived"
        /\ \/ /\ code # "ok"
              /\ Answer(c, code)
           \/ /\ code = "ok"
              /\ ~HasScope(CallerOf(settings, req[c].credentials), RequiredScope(req[c].kind))
              /\ Answer(c, "INSUFFICIENT_SCOPE")

Admit(c) ==
    LET who == CallerOf(settings, req[c].credentials)
    IN  /\ pc[c] = "arrived"
        /\ AuthCode(settings, now, req[c].credentials) = "ok"
        /\ HasScope(who, RequiredScope(req[c].kind))
        /\ caller' = [caller EXCEPT ![c] = who]
        /\ pc' = [pc EXCEPT ![c] = "handle"]
        /\ UNCHANGED <<settings, service, now, req, result>>

AccessStep(c) == Arrive(c) \/ Refuse(c) \/ Admit(c)

=============================================================================

-------------------------------- MODULE Policy --------------------------------
(***************************************************************************)
(* Who may read what: the decisions of GovernancePolicy for the built-in   *)
(* policy profile, and what a token's scopes and namespace grants give.    *)
(*                                                                         *)
(* A decision looks at one stored version: its lifecycle status, its       *)
(* governance columns, the namespace of its skill, and the rules of the    *)
(* policy pack attached to it.                                             *)
(***************************************************************************)
CONSTANTS
    Namespaces,   \* namespace slugs
    TokenIds      \* identifiers of service tokens

ASSUME PolicyAssumption == "public" \in Namespaces /\ "*" \notin Namespaces

Scopes   == {"read", "publish", "review", "admin", "telemetry"}
Roles    == {"read", "publish", "review", "admin"}
Statuses == {"published", "deprecated", "archived"}
Reviews  == {"pending_review", "approved", "rejected"}
Channels == {"dev", "staging", "prod"}
Tiers    == {"untrusted", "internal", "verified"}

\* In a grant "*" stands for every namespace or channel. As the channel of a
\* question it stands for none in particular.
Grant == [namespace : Namespaces \cup {"*"},
          roles     : SUBSET Roles,
          channels  : SUBSET (Channels \cup {"*"})]

Caller == [id : TokenIds, scopes : SUBSET Scopes, grants : SUBSET Grant]

\* The enforced rules of a policy pack; OpenRules are those of no pack at all.
Rules == [restricted : BOOLEAN, verified : BOOLEAN,
          tokens : SUBSET TokenIds, namespaces : SUBSET Namespaces]

OpenRules == [restricted |-> FALSE, verified |-> FALSE, tokens |-> {}, namespaces |-> {}]

-----------------------------------------------------------------------------
(* Scopes and grants *)

HasScope(caller, scope) == "admin" \in caller.scopes \/ scope \in caller.scopes

GivesRole(grant, role) == "admin" \in grant.roles \/ role \in grant.roles

Matches(grant, namespace, role, channel) ==
    /\ grant.namespace \in {"*", namespace}
    /\ GivesRole(grant, role)
    /\ channel = "*" \/ "*" \in grant.channels \/ channel \in grant.channels

\* A token without grants is a global administrator, or reads production of the
\* public namespace as far as its scopes go.
HasNamespaceGrant(caller, namespace, role, channel) ==
    IF caller.grants = {}
    THEN \/ "admin" \in caller.scopes
         \/ namespace = "public" /\ HasScope(caller, role) /\ channel \in {"*", "prod"}
    ELSE \E grant \in caller.grants : Matches(grant, namespace, role, channel)

\* The namespaces that a search for this caller is restricted to. A grant for all
\* namespaces lifts the restriction whatever its roles are.
AllowedNamespaces(caller, role) ==
    IF caller.grants = {}
    THEN IF "admin" \in caller.scopes THEN Namespaces
         ELSE IF HasScope(caller, role) THEN {"public"} ELSE {}
    ELSE IF \E grant \in caller.grants : grant.namespace = "*"
         THEN Namespaces
         ELSE {grant.namespace : grant \in {g \in caller.grants : GivesRole(g, role)}}

\* The channels that a search for this caller is restricted to, over all namespaces.
AllowedPromotionChannels(caller, role) ==
    IF caller.grants = {}
    THEN IF "admin" \in caller.scopes THEN Channels
         ELSE IF HasScope(caller, role) THEN {"prod"} ELSE {}
    ELSE LET granted == UNION {grant.channels : grant \in {g \in caller.grants : GivesRole(g, role)}}
         IN  IF "*" \in granted THEN Channels ELSE granted \cap Channels

-----------------------------------------------------------------------------
(* Decisions on a version row: [status, gov, namespace] *)

Gov(packs) == [review : Reviews, channel : Channels, trust : Tiers, pack : packs]

ExactReadStatuses == {"published", "deprecated"}

PackAllows(caller, row, rules) ==
    /\ rules.verified => row.gov.trust = "verified"
    /\ rules.restricted => caller.id \in rules.tokens \/ row.namespace \in rules.namespaces

Verdicts == {"allowed", "POLICY_NAMESPACE_FORBIDDEN", "POLICY_REVIEW_STATE_FORBIDDEN",
             "POLICY_PACK_FORBIDDEN", "POLICY_EXACT_READ_FORBIDDEN"}

\* What a reader with the scope meets on a version that is not archived.
ReaderVerdict(caller, row, rules) ==
    IF ~HasNamespaceGrant(caller, row.namespace, "read", "*")
    THEN "POLICY_NAMESPACE_FORBIDDEN"
    ELSE IF /\ row.gov.review # "approved"
            /\ ~HasNamespaceGrant(caller, row.namespace, "review", "*")
    THEN "POLICY_REVIEW_STATE_FORBIDDEN"
    ELSE IF ~HasNamespaceGrant(caller, row.namespace, "read", row.gov.channel)
    THEN "POLICY_NAMESPACE_FORBIDDEN"
    ELSE IF ~PackAllows(caller, row, rules)
    THEN "POLICY_PACK_FORBIDDEN"
    ELSE "allowed"

\* ensure_exact_read_allowed: the code of the violation, or "allowed".
Verdict(caller, row, rules) ==
    IF row.status \in ExactReadStatuses /\ HasScope(caller, "read")
    THEN ReaderVerdict(caller, row, rules)
    ELSE IF row.status = "archived" /\ HasScope(caller, "admin")
    THEN "allowed"
    ELSE "POLICY_EXACT_READ_FORBIDDEN"

IsVisible(caller, row, rules) == Verdict(caller, row, rules) = "allowed"

\* The denials that are also a fact of the enterprise audit trail.
AirlockCodes == {"POLICY_NAMESPACE_FORBIDDEN", "POLICY_REVIEW_STATE_FORBIDDEN",
                 "POLICY_PACK_FORBIDDEN"}

=============================================================================

-------------------------- MODULE CatalogProperties --------------------------
(***************************************************************************)
(* What the write side of the registry guarantees, and the statements of   *)
(* its documents that hold only while calls do not overlap.                *)
(***************************************************************************)
EXTENDS Catalog

Stored(x) == versions[x] # NoRow

Created(c) == result[c] = "created"

CreatedAs(c, x) == Created(c) /\ Coord(req[c]) = x

\* The audit trail says that call c made the change it asked for.
Allowed(c) == audit[c] # NoRow /\ audit[c].allowed

\* The allowed changes of version x by calls of a kind, in the audit table.
Events(x, kind) == {c \in Calls : Allowed(c) /\ req[c].kind = kind /\ Coord(req[c]) = x}

\* The calls that, by the audit trail, published the first version of a new skill s.
Founders(s) ==
    {c \in Calls : /\ Allowed(c) /\ req[c].kind = "publish"
                   /\ req[c].intent = "create_skill" /\ req[c].slug = s}

\* PublicationComplete.  A version is stored together with everything its
\* publication owes it: its skill, its content row, its search document, its
\* embedding row, and one allowed audit row of the one call that sent its artifact;
\* an audited publication is stored; no skill, content, document or embedding exists
\* without a version; and a skill exists only because some call asked for a new one.
\* Whether the caller hears of it is another matter: see AuditMatchesAnswers.
\* (create_version commits them in one transaction and rolls all of them back.)
PublicationComplete ==
    /\ \A x \in Coords : Stored(x) =>
        /\ skills[x[1]] # NoRow
        /\ versions[x].content \in contents
        /\ \E c \in Events(x, "publish") : req[c].digest = versions[x].content
    /\ \A x \in Coords : \A c, d \in Events(x, "publish") : Stored(x) /\ c = d
    /\ \A x \in Coords : (docs[x] # NoRow) <=> Stored(x)
    /\ embeddings = {x \in Coords : Stored(x)}
    /\ \A d \in contents : \E x \in Coords : Stored(x) /\ versions[x].content = d
    /\ \A s \in Slugs : skills[s] # NoRow =>
        /\ \E x \in Coords : x[1] = s /\ Stored(x)
        /\ Founders(s) # {}

\* AnswersHonest.  A call told "created" is the only one told so for its
\* coordinate and its artifact is the one stored there; a call told that the
\* version or the skill exists was told the truth; only publications hear so.
\* (version_exists, skill_exists and the unique constraints behind them, whichever
\* notices the conflict.)
AnswersHonest ==
    \A c \in Calls :
        /\ result[c] \in {"created", "duplicate_version", "skill_exists"}
           => req[c].kind = "publish"
        /\ Created(c) =>
            /\ Stored(Coord(req[c]))
            /\ versions[Coord(req[c])].content = req[c].digest
            /\ \A d \in Calls : CreatedAs(d, Coord(req[c])) => d = c
        /\ result[c] = "duplicate_version" => Stored(Coord(req[c]))
        /\ result[c] = "skill_exists" => skills[req[c].slug] # NoRow

\* AuditMatchesAnswers.  Who is told of a change, or refused by policy, left an audit
\* row that says so.  Who left an allowed row is told of the change and who left a
\* denied row is refused, unless the call fails after that row was committed; until
\* then it has only to answer.  No two rows share an id.
\* (audit_events written in the mutating transaction, denials by the recorder before
\* the exception is raised; the reload after the commit.)
Outcomes(c) ==
    IF ~audit[c].allowed THEN {"denied"}
    ELSE IF req[c].kind = "publish" THEN {"created"} ELSE {"updated"}

AuditMatchesAnswers ==
    /\ \A c \in Calls :
        /\ result[c] \in {"created", "updated"} => Allowed(c)
        /\ result[c] = "denied" => audit[c] # NoRow
        /\ audit[c] # NoRow =>
            IF pc[c] = "done"
            THEN result[c] \in Outcomes(c) \cup {"failed"}
            ELSE pc[c] = IF audit[c].allowed THEN "answer" ELSE "deny"
    /\ \A c, d \in Calls :
        audit[c] # NoRow /\ audit[d] # NoRow /\ audit[c].id = audit[d].id => c = d

\* RegistryImplemented.  The transactions implement the immutable registry: a
\* coordinate is bound once and for good, by the call the audit trail credits with
\* it, and nobody else is ever told that it published there.
Registry == INSTANCE ImmutableRegistry WITH
    Unbound  <- NoRow,
    artifact <- [x \in Coords |-> IF Stored(x) THEN versions[x].content ELSE NoRow],
    credit   <- [c \in Calls |-> IF Allowed(c) /\ req[c].kind = "publish"
                                 THEN Coord(req[c]) ELSE NoRow],
    told     <- {c \in Calls : Created(c)}

RegistryImplemented == Registry!RSpec

-----------------------------------------------------------------------------
(* The search projection *)

\* SearchMirrorsStatus.  The search document of a version shows the lifecycle status
\* of its row: discovery filters on the document and never looks at the row.
SearchMirrorsStatus ==
    \A x \in Coords : Stored(x) => docs[x].status = versions[x].status

\* SearchMirrorsGovernance.  It shows every governance column of the row, although
\* the two are written from different copies (the flushed columns, the entity).
SearchMirrorsGovernance ==
    \A x \in Coords : Stored(x) => docs[x].gov = versions[x].gov

\* SearchMirrorsNamespace.  It shows the namespace of the version's skill, which an
\* ownership change moves in all documents of the skill at once.
SearchMirrorsNamespace ==
    \A x \in Coords : Stored(x) => docs[x].namespace = skills[x[1]]

\* The change of call c commits in this step.
CommitsNow(c) == pc[c] # "answer" /\ pc'[c] = "answer"

\* CleanWriteMirrors.  A status or governance change that nothing overtook, the rows
\* still as it loaded them when it commits, leaves the columns it writes equal in the
\* row and in the search document, whatever state they were in before: a divergence
\* needs an overlap and is repaired by the next change that has none.
\* (update_version_status, update_version_governance with _sync_search_governance.)
CleanStep ==
    \A c \in Calls :
        LET x == Coord(req[c])
        IN  /\ CommitsNow(c) /\ req[c].kind = "status"
               /\ loaded[c].status = versions[x].status
               => docs'[x].status = versions'[x].status
            /\ CommitsNow(c) /\ req[c].kind = "governance"
               /\ loaded[c].gov = versions[x].gov /\ loadedDoc[c].gov = docs[x].gov
               => docs'[x].gov = versions'[x].gov

CleanWriteMirrors == [][CleanStep]_vars

-----------------------------------------------------------------------------
(* The lifecycle and the audit trail *)

\* ArchivedIsFinal.  A version never leaves the status "archived", from which the
\* policy profile allows no transition.
ArchivedIsFinal ==
    [][\A x \in Coords :
        Stored(x) /\ versions[x].status = "archived"
        => versions'[x].status = "archived"]_vars

\* OnlyStaleCallsReopen.  When a version does leave "archived", the call that does
\* it had checked the transition before the version was archived: the check itself
\* is never at fault, only its distance from the write.
OnlyStaleCallsReopen ==
    [][\A x \in Coords :
        Stored(x) /\ versions[x].status = "archived" /\ versions'[x].status # "archived"
        => \E c \in Calls :
            /\ CommitsNow(c) /\ Coord(req[c]) = x
            /\ checked[c].status # "archived"]_vars

IsLast(c, S) == c \in S /\ \A d \in S : audit[d].id <= audit[c].id

\* The status and the value of a governance column that a reader of the audit table
\* reconstructs: what the last event about it says, or what was published.
ReplayedStatus(x, status) ==
    LET events == Events(x, "status")
    IN  IF events = {} THEN status = "published"
        ELSE \E c \in events : IsLast(c, events) /\ req[c].status = status

ReplayedValue(x, f, value) ==
    LET events == {c \in Events(x, "governance") : f \in DOMAIN req[c].set}
    IN  IF events = {}
        THEN \E c \in Events(x, "publish") : req[c].gov[f] = value
        ELSE \E c \in events : IsLast(c, events) /\ req[c].set[f] = value

\* AuditReplaysRows.  Replaying the audit trail of a version gives the lifecycle
\* status and the governance columns its row has.
AuditReplaysRows ==
    \A x \in Coords : Stored(x) =>
        /\ ReplayedStatus(x, versions[x].status)
        /\ \A f \in Fields : ReplayedValue(x, f, versions[x].gov[f])

\* SearchStatusReplaysAudit.  The search document's status is the one the last
\* audited status change asked for, overlap or not: its writer holds the version
\* row and does not compare with what it loaded before.
SearchStatusReplaysAudit ==
    \A x \in Coords : Stored(x) => ReplayedStatus(x, docs[x].status)

=============================================================================

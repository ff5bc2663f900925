------------------------------- MODULE Catalog -------------------------------
(***************************************************************************)
(* The write side of the skill registry: publishing a version, changing    *)
(* its lifecycle status, changing its enterprise governance state and      *)
(* moving a skill to another namespace.                                    *)
(*                                                                         *)
(* A call is served by one thread which runs several short database        *)
(* transactions: the service (SkillRegistryService) first reads and checks *)
(* in transactions of their own, then writes in a last one that starts     *)
(* with SELECTs of its own.  PostgreSQL runs them at READ COMMITTED, so    *)
(* another call may commit between any two of those steps.  A statement    *)
(* that writes a row or takes a unique key holds it until the transaction  *)
(* ends, so whatever follows it on the same row is one step here.  The     *)
(* object mapper sends a column in an UPDATE only when its value differs   *)
(* from the one the session loaded, and no UPDATE when no column does.     *)
(*                                                                         *)
(* A change is committed before its caller hears of it: create_version and *)
(* update_version_governance even read the row once more in between.  A    *)
(* call can therefore fail with its change in place, and so can one whose  *)
(* denial the recorder has committed.                                      *)
(***************************************************************************)
EXTENDS Naturals, FiniteSets

CONSTANTS
    Calls,             \* the API calls made; each call carries one request
    Requests,          \* the requests a call may carry
    Slugs,             \* skill slugs
    Versions,          \* version strings
    Digests,           \* artifact digests
    Namespaces,        \* namespace slugs callers may name
    KnownNamespaces,   \* the namespaces that have a row
    Fields,            \* governance columns: review state, channel, trust tier, pack
    Values,            \* their values
    MaxInFlight,       \* how many calls the service works on at a time
    NoRow              \* the absent row

Coords == Slugs \X Versions

Statuses == {"published", "deprecated", "archived"}

\* Mutant: an archived version may be published again.
LifecycleTransitionsReopening ==
    [published  |-> {"deprecated", "archived"},
     deprecated |-> {"published", "archived"},
     archived   |-> {"published"}]

\* The transitions of the built-in policy profile.
LifecycleTransitions ==
    [published  |-> {"deprecated", "archived"},
     deprecated |-> {"published", "archived"},
     archived   |-> {}]

Gov == [Fields -> Values]

VersionRow == [content : Digests, status : Statuses, gov : Gov]
DocRow     == [namespace : Namespaces, status : Statuses, gov : Gov]
AuditRow   == [id : Nat, allowed : BOOLEAN, prev : VersionRow \cup {NoRow}]

\* "grants" are the namespaces in which the caller's token has the scope and the
\* namespace grant that the operation asks for.
PublishRequest ==
    [kind : {"publish"}, intent : {"create_skill", "publish_version"},
     slug : Slugs, version : Versions, digest : Digests,
     namespace : Namespaces, gov : Gov, grants : SUBSET Namespaces]
StatusRequest ==
    [kind : {"status"}, slug : Slugs, version : Versions,
     status : Statuses, grants : SUBSET Namespaces]
GovernanceRequest ==
    [kind : {"governance"}, slug : Slugs, version : Versions,
     set : UNION {[D -> Values] : D \in SUBSET Fields},
     grants : SUBSET Namespaces]
OwnershipRequest ==
    [kind : {"ownership"}, slug : Slugs, namespace : Namespaces]

AnyRequest ==
    PublishRequest \cup StatusRequest \cup GovernanceRequest \cup OwnershipRequest

\* "sync" is between the two flushes of a governance change, "answer" between a commit
\* and the answer, "deny" between the commit of a recorded denial and the answer.
Phases == {"idle", "prepare", "intent", "exists", "check", "load", "commit", "sync",
           "answer", "deny", "done"}

Results == {"none", "created", "updated", "denied", "not_found",
            "skill_exists", "duplicate_version", "failed"}

ASSUME CatalogAssumption ==
    /\ Requests \subseteq AnyRequest
    /\ KnownNamespaces \subseteq Namespaces
    /\ NoRow \notin VersionRow \cup DocRow \cup AuditRow \cup AnyRequest
    /\ NoRow \notin Namespaces \cup Digests \cup Coords

VARIABLES
    skills,       \* table skills: the namespace each slug belongs to
    versions,     \* table skill_versions
    contents,     \* table skill_contents: the digests stored
    docs,         \* table skill_search_documents
    embeddings,   \* table skill_search_embeddings: coordinates with a row
    audit,        \* table audit_events: the row a call wrote
    auditId,      \* its primary-key sequence
    pc,           \* what each call does next
    req,          \* the request it carries
    result,       \* what it answered
    checked,      \* the version row its check transaction read
    loaded,       \* the version row its write transaction loaded
    loadedDoc,    \* the search document its write transaction loaded
    loadedNs,     \* the namespace its write transaction loaded
    sawSkill,     \* its write transaction found the skill row
    sawContent    \* its write transaction found the content row

tables == <<skills, versions, contents, docs, embeddings>>
auditTable == <<audit, auditId>>
session == <<checked, loaded, loadedDoc, loadedNs, sawSkill, sawContent>>
vars == <<tables, auditTable, pc, req, result, session>>

TypeOK ==
    /\ skills \in [Slugs -> KnownNamespaces \cup {NoRow}]
    /\ versions \in [Coords -> VersionRow \cup {NoRow}]
    /\ contents \in SUBSET Digests
    /\ docs \in [Coords -> DocRow \cup {NoRow}]
    /\ embeddings \in SUBSET Coords
    /\ audit \in [Calls -> AuditRow \cup {NoRow}]
    /\ auditId \in Nat
    /\ pc \in [Calls -> Phases]
    /\ req \in [Calls -> AnyRequest \cup {NoRow}]
    /\ result \in [Calls -> Results]
    /\ checked \in [Calls -> VersionRow \cup {NoRow}]
    /\ loaded \in [Calls -> VersionRow \cup {NoRow}]
    /\ loadedDoc \in [Calls -> DocRow \cup {NoRow}]
    /\ loadedNs \in [Calls -> KnownNamespaces \cup {NoRow}]
    /\ sawSkill \in [Calls -> BOOLEAN]
    /\ sawContent \in [Calls -> BOOLEAN]

Init ==
    /\ skills = [s \in Slugs |-> NoRow]
    /\ versions = [x \in Coords |-> NoRow]
    /\ contents = {}
    /\ docs = [x \in Coords |-> NoRow]
    /\ embeddings = {}
    /\ audit = [c \in Calls |-> NoRow]
    /\ auditId = 0
    /\ pc = [c \in Calls |-> "idle"]
    /\ req = [c \in Calls |-> NoRow]
    /\ result = [c \in Calls |-> "none"]
    /\ checked = [c \in Calls |-> NoRow]
    /\ loaded = [c \in Calls |-> NoRow]
    /\ loadedDoc = [c \in Calls |-> NoRow]
    /\ loadedNs = [c \in Calls |-> NoRow]
    /\ sawSkill = [c \in Calls |-> FALSE]
    /\ sawContent = [c \in Calls |-> FALSE]

-----------------------------------------------------------------------------
(* Steps of a call *)

Coord(r) == <<r.slug, r.version>>

At(c, kind, phase) == pc[c] = phase /\ req[c].kind = kind

InFlight == {c \in Calls : pc[c] \notin {"idle", "done"}}

Goto(c, phase) ==
    /\ pc' = [pc EXCEPT ![c] = phase]
    /\ UNCHANGED <<req, result>>

\* What the sessions of a call had loaded is gone.
Forget(c) ==
    /\ checked' = [checked EXCEPT ![c] = NoRow]
    /\ loaded' = [loaded EXCEPT ![c] = NoRow]
    /\ loadedDoc' = [loadedDoc EXCEPT ![c] = NoRow]
    /\ loadedNs' = [loadedNs EXCEPT ![c] = NoRow]
    /\ sawSkill' = [sawSkill EXCEPT ![c] = FALSE]
    /\ sawContent' = [sawContent EXCEPT ![c] = FALSE]

\* The call answers.
Finish(c, answer) ==
    /\ pc' = [pc EXCEPT ![c] = "done"]
    /\ result' = [result EXCEPT ![c] = answer]
    /\ Forget(c)
    /\ UNCHANGED req

\* A transaction has committed the change, or the denial; the answer is still to come.
Settle(c, phase) == Goto(c, phase) /\ Forget(c)

\* Mutant: the recorder loses denials.
RecordOnlyAllowed(c, allowed, prev) ==
    /\ audit' = [audit EXCEPT ![c] =
                    IF allowed THEN [id |-> auditId, allowed |-> allowed, prev |-> prev] ELSE @]
    /\ auditId' = auditId + 1

\* One row of the audit table.  A denial is recorded in a transaction of its own before
\* the exception is raised, an allowed change in the transaction that makes it.
Record(c, allowed, prev) ==
    /\ audit' = [audit EXCEPT ![c] =
                    [id |-> auditId, allowed |-> allowed, prev |-> prev]]
    /\ auditId' = auditId + 1

FirstPhase(r) ==
    CASE r.kind = "publish"   -> "prepare"
      [] r.kind = "ownership" -> "load"
      [] OTHER                -> "check"

Begin(c) ==
    /\ pc[c] = "idle"
    /\ Cardinality(InFlight) < MaxInFlight
    /\ \E r \in Requests :
        /\ req' = [req EXCEPT ![c] = r]
        /\ pc' = [pc EXCEPT ![c] = FirstPhase(r)]
    /\ UNCHANGED <<tables, auditTable, result, session>>

\* Mutant: the content row is stored by a transaction of its own.
AbortKeepingContent(c) ==
    /\ c \in InFlight
    /\ Finish(c, "failed")
    /\ contents' = IF At(c, "publish", "commit") THEN contents \cup {req[c].digest} ELSE contents
    /\ UNCHANGED <<skills, versions, docs, embeddings, auditTable>>

\* A statement fails, or the process.  Before the commit the session rolls back and
\* nothing of the call remains; after it the change, or the recorded denial, stays.
Abort(c) ==
    /\ c \in InFlight
    /\ Finish(c, "failed")
    /\ UNCHANGED <<tables, auditTable>>

\* The committed change is read back, where the code does so, and answered.
Answer(c) ==
    /\ pc[c] = "answer"
    /\ Finish(c, IF req[c].kind = "publish" THEN "created" ELSE "updated")
    /\ UNCHANGED <<tables, auditTable>>

\* The policy error is raised once the denial is in the trail.
Deny(c) ==
    /\ pc[c] = "deny"
    /\ Finish(c, "denied")
    /\ UNCHANGED <<tables, auditTable>>

-----------------------------------------------------------------------------
(* Publishing a version *)

PublishDenied(c) ==
    /\ At(c, "publish", "prepare")
    /\ req[c].namespace \notin req[c].grants
    /\ Record(c, FALSE, NoRow)
    /\ Settle(c, "deny")
    /\ UNCHANGED tables

PublishPrepare(c) ==
    /\ At(c, "publish", "prepare")
    /\ req[c].namespace \in req[c].grants
    /\ Goto(c, "intent")
    /\ UNCHANGED <<tables, auditTable, session>>

\* create_skill wants a free slug, publish_version a taken one.
PublishIntent(c) ==
    /\ At(c, "publish", "intent")
    /\ LET exists == skills[req[c].slug] # NoRow
           create == req[c].intent = "create_skill"
       IN  \/ /\ create /\ exists
              /\ Finish(c, "skill_exists")
           \/ /\ ~create /\ ~exists
              /\ Finish(c, "not_found")
           \/ /\ create # exists
              /\ Goto(c, "exists")
              /\ UNCHANGED session
    /\ UNCHANGED <<tables, auditTable>>

PublishVersionExists(c) ==
    /\ At(c, "publish", "exists")
    /\ \/ /\ versions[Coord(req[c])] # NoRow
          /\ Finish(c, "duplicate_version")
       \/ /\ versions[Coord(req[c])] = NoRow
          /\ Goto(c, "load")
          /\ UNCHANGED session
    /\ UNCHANGED <<tables, auditTable>>

\* The SELECTs of the write transaction: is there a skill row, a content row?
PublishLoad(c) ==
    /\ At(c, "publish", "load")
    /\ sawSkill' = [sawSkill EXCEPT ![c] = skills[req[c].slug] # NoRow]
    /\ sawContent' = [sawContent EXCEPT ![c] = req[c].digest \in contents]
    /\ Goto(c, "commit")
    /\ UNCHANGED <<tables, auditTable, checked, loaded, loadedDoc, loadedNs>>

\* The rows the write transaction inserts and what stops each of them, in order.
\* Mutant: no foreign key from skills to namespaces.
NamespaceUnchecked(c) == FALSE

NamespaceMissing(c) == ~sawSkill[c] /\ req[c].namespace \notin KnownNamespaces

SlugTaken(c) == ~sawSkill[c] /\ skills[req[c].slug] # NoRow

ContentTaken(c) == ~sawContent[c] /\ req[c].digest \in contents

\* Mutant: no unique constraint on the coordinate.
VersionNeverTaken(c) == FALSE

\* Mutant: publishing a coordinate again is a conflict only for the same artifact.
VersionTakenBySameContent(c) ==
    versions[Coord(req[c])] # NoRow /\ versions[Coord(req[c])].content = req[c].digest

VersionTaken(c) == versions[Coord(req[c])] # NoRow

PublishConflict(c) ==
    /\ At(c, "publish", "commit")
    /\ \/ /\ NamespaceMissing(c)
          /\ Finish(c, "failed")
       \/ /\ ~NamespaceMissing(c) /\ SlugTaken(c)
          /\ Finish(c, IF req[c].intent = "create_skill" THEN "skill_exists" ELSE "failed")
       \/ /\ ~NamespaceMissing(c) /\ ~SlugTaken(c) /\ ContentTaken(c)
          /\ Finish(c, "failed")
       \/ /\ ~NamespaceMissing(c) /\ ~SlugTaken(c) /\ ~ContentTaken(c) /\ VersionTaken(c)
          /\ Finish(c, "duplicate_version")
    /\ UNCHANGED <<tables, auditTable>>

\* An existing skill keeps its namespace; the search document takes the requested one.
PublishCommit(c) ==
    LET r == req[c]
        x == Coord(r)
    IN  /\ At(c, "publish", "commit")
        /\ ~SlugTaken(c) /\ ~NamespaceMissing(c) /\ ~ContentTaken(c) /\ ~VersionTaken(c)
        /\ skills' = IF sawSkill[c] THEN skills ELSE [skills EXCEPT ![r.slug] = r.namespace]
        /\ contents' = contents \cup {r.digest}
        /\ versions' = [versions EXCEPT ![x] =
                          [content |-> r.digest, status |-> "published", gov |-> r.gov]]
        /\ docs' = [docs EXCEPT ![x] =
                      [namespace |-> r.namespace, status |-> "published", gov |-> r.gov]]
        /\ embeddings' = embeddings \cup {x}
        /\ Record(c, TRUE, NoRow)
        /\ Settle(c, "answer")

-----------------------------------------------------------------------------
(* Changing the lifecycle status *)

\* Mutant: the policy checks who asks and not from which status.
TransitionAllowedToGrantees(r) == skills[r.slug] \in r.grants

TransitionAllowed(r) ==
    /\ skills[r.slug] \in r.grants
    /\ r.status \in LifecycleTransitions[versions[Coord(r)].status]

VersionMissing(c, kind) ==
    /\ At(c, kind, "check")
    /\ versions[Coord(req[c])] = NoRow
    /\ Finish(c, "not_found")
    /\ UNCHANGED <<tables, auditTable>>

StatusDenied(c) ==
    /\ At(c, "status", "check")
    /\ versions[Coord(req[c])] # NoRow
    /\ ~TransitionAllowed(req[c])
    /\ Record(c, FALSE, versions[Coord(req[c])])
    /\ Settle(c, "deny")
    /\ UNCHANGED tables

StatusCheck(c) ==
    /\ At(c, "status", "check")
    /\ versions[Coord(req[c])] # NoRow
    /\ TransitionAllowed(req[c])
    /\ checked' = [checked EXCEPT ![c] = versions[Coord(req[c])]]
    /\ Goto(c, "load")
    /\ UNCHANGED <<tables, auditTable, loaded, loadedDoc, loadedNs, sawSkill, sawContent>>

\* The write transaction of a status or a governance change loads the version.
VersionLoad(c, kind) ==
    /\ At(c, kind, "load")
    /\ loaded' = [loaded EXCEPT ![c] = versions[Coord(req[c])]]
    /\ Goto(c, "commit")
    /\ UNCHANGED <<tables, auditTable, checked, loadedDoc, loadedNs, sawSkill, sawContent>>

\* Mutant: the requested fields are never assigned.
EditedNothing(c) == loaded[c].gov

\* The in-memory version after the requested governance fields are assigned to it.
Edited(c) ==
    [f \in Fields |-> IF f \in DOMAIN req[c].set THEN req[c].set[f] ELSE loaded[c].gov[f]]

\* The columns of the version row that the flush of a governance change sends.
Sent(c) == {f \in Fields : Edited(c)[f] # loaded[c].gov[f]}

\* A governance change that has sent columns holds the version row until it commits;
\* one that has sent none holds nothing.
HoldsVersion(c, x) == At(c, "governance", "sync") /\ Coord(req[c]) = x /\ Sent(c) # {}

VersionHeld(x) == \E c \in Calls : HoldsVersion(c, x)

\* Mutant: the search document is forgotten.
StatusCommitWithoutDocument(c) ==
    /\ At(c, "status", "commit")
    /\ ~VersionHeld(Coord(req[c]))
    /\ versions' = IF loaded[c].status = req[c].status
                   THEN versions
                   ELSE [versions EXCEPT ![Coord(req[c])].status = req[c].status]
    /\ Record(c, TRUE, checked[c])
    /\ Settle(c, "answer")
    /\ UNCHANGED <<skills, contents, docs, embeddings>>

\* Mutant: nothing is written when the loaded status is the requested one.
StatusCommitIfChanged(c) ==
    LET x == Coord(req[c])
        changed == loaded[c].status # req[c].status
    IN  /\ At(c, "status", "commit")
        /\ ~VersionHeld(x)
        /\ versions' = IF changed THEN [versions EXCEPT ![x].status = req[c].status] ELSE versions
        /\ docs' = IF changed THEN [docs EXCEPT ![x].status = req[c].status] ELSE docs
        /\ Record(c, TRUE, checked[c])
        /\ Settle(c, "answer")
        /\ UNCHANGED <<skills, contents, embeddings>>

\* The time of the change is always sent, so the version row is held from the flush on;
\* the status column only if it differs from the loaded one.  The search document is
\* read after that and gets the status.
StatusCommit(c) ==
    LET r == req[c]
        x == Coord(r)
    IN  /\ At(c, "status", "commit")
        /\ ~VersionHeld(x)
        /\ versions' = IF loaded[c].status = r.status
                       THEN versions
                       ELSE [versions EXCEPT ![x] = [@ EXCEPT !.status = r.status]]
        /\ docs' = IF docs[x] = NoRow
                   THEN docs
                   ELSE [docs EXCEPT ![x] = [@ EXCEPT !.status = r.status]]
        /\ Record(c, TRUE, checked[c])
        /\ Settle(c, "answer")
        /\ UNCHANGED <<skills, contents, embeddings>>

-----------------------------------------------------------------------------
(* Changing the governance state *)

GovernanceDenied(c) ==
    /\ At(c, "governance", "check")
    /\ versions[Coord(req[c])] # NoRow
    /\ skills[req[c].slug] \notin req[c].grants
    /\ Record(c, FALSE, versions[Coord(req[c])])
    /\ Settle(c, "deny")
    /\ UNCHANGED tables

GovernanceCheck(c) ==
    /\ At(c, "governance", "check")
    /\ versions[Coord(req[c])] # NoRow
    /\ skills[req[c].slug] \in req[c].grants
    /\ checked' = [checked EXCEPT ![c] = versions[Coord(req[c])]]
    /\ Goto(c, "load")
    /\ UNCHANGED <<tables, auditTable, loaded, loadedDoc, loadedNs, sawSkill, sawContent>>

\* Mutant: the session does not notice the assignments.
FlushedUntracked(c) == versions[Coord(req[c])].gov

\* The columns of the version row after the flush.
Flushed(c) ==
    [f \in Fields |-> IF f \in Sent(c) THEN Edited(c)[f] ELSE versions[Coord(req[c])].gov[f]]

\* The flush sends the changed columns, which waits for another writer of the row, and
\* then reads the search document.
GovernanceFlush(c) ==
    LET x == Coord(req[c])
    IN  /\ At(c, "governance", "commit")
        /\ Sent(c) = {} \/ ~VersionHeld(x)
        /\ loadedDoc' = [loadedDoc EXCEPT ![c] = docs[x]]
        /\ Goto(c, "sync")
        /\ UNCHANGED <<tables, auditTable, checked, loaded, loadedNs, sawSkill, sawContent>>

\* The columns of the search document after the commit: those that differ from the
\* document as it was read are sent, with the values the session remembers.
Synced(c) ==
    [f \in Fields |-> IF Edited(c)[f] # loadedDoc[c].gov[f]
                      THEN Edited(c)[f]
                      ELSE docs[Coord(req[c])].gov[f]]

GovernanceCommit(c) ==
    LET x == Coord(req[c])
    IN  /\ At(c, "governance", "sync")
        /\ versions' = [versions EXCEPT ![x] = [@ EXCEPT !.gov = Flushed(c)]]
        /\ docs' = IF loadedDoc[c] = NoRow
                   THEN docs
                   ELSE [docs EXCEPT ![x] = [@ EXCEPT !.gov = Synced(c)]]
        /\ Record(c, TRUE, checked[c])
        /\ Settle(c, "answer")
        /\ UNCHANGED <<skills, contents, embeddings>>

-----------------------------------------------------------------------------
(* Moving a skill to another namespace *)

OwnershipRefused(c) ==
    /\ At(c, "ownership", "load")
    /\ \/ /\ skills[req[c].slug] = NoRow
          /\ Finish(c, "not_found")
       \/ /\ skills[req[c].slug] # NoRow
          /\ req[c].namespace \notin KnownNamespaces
          /\ Finish(c, "failed")
    /\ UNCHANGED <<tables, auditTable>>

OwnershipLoad(c) ==
    /\ At(c, "ownership", "load")
    /\ skills[req[c].slug] # NoRow
    /\ req[c].namespace \in KnownNamespaces
    /\ loadedNs' = [loadedNs EXCEPT ![c] = skills[req[c].slug]]
    /\ Goto(c, "commit")
    /\ UNCHANGED <<tables, auditTable, checked, loaded, loadedDoc, sawSkill, sawContent>>

\* Mutant: the search documents stay where they were.
OwnershipCommitWithoutDocuments(c) ==
    /\ At(c, "ownership", "commit")
    /\ skills' = [skills EXCEPT ![req[c].slug] = req[c].namespace]
    /\ Record(c, TRUE, NoRow)
    /\ Settle(c, "answer")
    /\ UNCHANGED <<versions, contents, docs, embeddings>>

\* One UPDATE moves every search document of the skill and holds them; the skill row is
\* sent at the commit, only if the namespace differs from the loaded one.
OwnershipCommit(c) ==
    LET r == req[c]
    IN  /\ At(c, "ownership", "commit")
        /\ docs' = [x \in Coords |->
                      IF x[1] = r.slug /\ docs[x] # NoRow
                      THEN [docs[x] EXCEPT !.namespace = r.namespace]
                      ELSE docs[x]]
        /\ skills' = IF loadedNs[c] = r.namespace
                     THEN skills
                     ELSE [skills EXCEPT ![r.slug] = r.namespace]
        /\ Record(c, TRUE, NoRow)
        /\ Settle(c, "answer")
        /\ UNCHANGED <<versions, contents, embeddings>>

-----------------------------------------------------------------------------
Publish(c) ==
    \/ PublishDenied(c) \/ PublishPrepare(c) \/ PublishIntent(c)
    \/ PublishVersionExists(c) \/ PublishLoad(c)
    \/ PublishConflict(c) \/ PublishCommit(c)

ChangeStatus(c) ==
    \/ VersionMissing(c, "status") \/ StatusDenied(c) \/ StatusCheck(c)
    \/ VersionLoad(c, "status") \/ StatusCommit(c)

ChangeGovernance(c) ==
    \/ VersionMissing(c, "governance") \/ GovernanceDenied(c) \/ GovernanceCheck(c)
    \/ VersionLoad(c, "governance") \/ GovernanceFlush(c) \/ GovernanceCommit(c)

ChangeOwnership(c) == OwnershipRefused(c) \/ OwnershipLoad(c) \/ OwnershipCommit(c)

Next == \E c \in Calls :
    \/ Begin(c) \/ Abort(c) \/ Answer(c) \/ Deny(c)
    \/ Publish(c) \/ ChangeStatus(c) \/ ChangeGovernance(c) \/ ChangeOwnership(c)

Spec == Init /\ [][Next]_vars

=============================================================================

---------------------------- MODULE CatalogProofs ----------------------------
(***************************************************************************)
(* Theorems about the write side of the registry, for every set of calls,  *)
(* requests, slugs, versions, digests, namespaces and governance columns.  *)
(*                                                                         *)
(* PublicationComplete and AnswersHonest are not inductive: that a commit  *)
(* keeps them depends on what a call in flight still knows, and that an    *)
(* answer does depends on the audit row its call has left.  SessionInv     *)
(* says the one, TrailInv the other, and IInv puts the five together.      *)
(***************************************************************************)
EXTENDS CatalogProperties, TLAPS

\* What a call in flight may rely on: it has a request, it has answered nothing, the
\* rows it found are still there, its session holds a row.
SessionOf(c) ==
    /\ pc[c] = "idle" => req[c] = NoRow
    /\ pc[c] # "idle" => req[c] \in AnyRequest
    /\ pc[c] # "done" => result[c] = "none"
    /\ At(c, "publish", "exists") \/ At(c, "publish", "load") \/ At(c, "publish", "commit")
       => (req[c].intent = "publish_version" => skills[req[c].slug] # NoRow)
    /\ At(c, "publish", "commit") =>
       /\ sawSkill[c] => skills[req[c].slug] # NoRow
       /\ req[c].intent = "publish_version" => sawSkill[c]
    /\ \A kind \in {"status", "governance"} :
       /\ At(c, kind, "load") => versions[Coord(req[c])] # NoRow
       /\ At(c, kind, "commit") =>
          versions[Coord(req[c])] # NoRow /\ loaded[c] # NoRow
    /\ At(c, "governance", "sync") =>
       /\ versions[Coord(req[c])] # NoRow /\ loaded[c] # NoRow
       /\ docs[Coord(req[c])] # NoRow /\ loadedDoc[c] # NoRow
    /\ At(c, "ownership", "commit") =>
       skills[req[c].slug] # NoRow /\ req[c].namespace \in KnownNamespaces

SessionInv == \A c \in Calls : SessionOf(c)

\* The audit row of a call: none while it works, an allowed one when its change is
\* committed, a denied one when its denial is, and its answer never says otherwise.
TrailOf(c) ==
    /\ pc[c] \notin {"answer", "deny", "done"} => audit[c] = NoRow
    /\ pc[c] = "answer" => Allowed(c)
    /\ pc[c] = "deny" => audit[c] # NoRow /\ ~audit[c].allowed
    /\ result[c] \in {"created", "updated"} =>
       Allowed(c) /\ (result[c] = "created" <=> req[c].kind = "publish")
    /\ result[c] = "denied" => audit[c] # NoRow /\ ~audit[c].allowed
    /\ result[c] \in {"not_found", "skill_exists", "duplicate_version"} => audit[c] = NoRow
    /\ pc[c] = "done" => result[c] # "none"

TrailInv == \A c \in Calls : TrailOf(c)

IInv == TypeOK /\ SessionInv /\ TrailInv /\ PublicationComplete /\ AnswersHonest

-----------------------------------------------------------------------------
(* The shapes of requests and rows *)

LEMMA RequestShape ==
    ASSUME NEW r \in AnyRequest
    PROVE  /\ r # NoRow
           /\ r.slug \in Slugs
           /\ r.kind = "publish" =>
                /\ r \in PublishRequest
                /\ r.intent \in {"create_skill", "publish_version"}
                /\ Coord(r) \in Coords /\ r.digest \in Digests
                /\ r.namespace \in Namespaces /\ r.gov \in Gov
           /\ r.kind = "status" => Coord(r) \in Coords /\ r.status \in Statuses
           /\ r.kind = "governance" =>
                /\ Coord(r) \in Coords
                /\ \A f \in DOMAIN r.set : f \in Fields => r.set[f] \in Values
           /\ r.kind = "ownership" => r.namespace \in Namespaces
<1>1. CASE r \in PublishRequest
  BY <1>1, CatalogAssumption DEF PublishRequest, AnyRequest, Coord, Coords
<1>2. CASE r \in StatusRequest
  BY <1>2, CatalogAssumption DEF StatusRequest, AnyRequest, Coord, Coords
<1>3. CASE r \in GovernanceRequest
  BY <1>3, CatalogAssumption DEF GovernanceRequest, AnyRequest, Coord, Coords
<1>4. CASE r \in OwnershipRequest
  BY <1>4, CatalogAssumption DEF OwnershipRequest, AnyRequest
<1>5. QED
  BY <1>1, <1>2, <1>3, <1>4 DEF AnyRequest

LEMMA RowShape ==
    /\ \A row \in VersionRow : row # NoRow
    /\ \A row \in DocRow : row # NoRow
    /\ \A row \in AuditRow : row # NoRow
    /\ \A n \in Namespaces : n # NoRow
BY CatalogAssumption

-----------------------------------------------------------------------------
(* Type correctness *)

LEMMA FinishTypes ==
    ASSUME TypeOK, NEW c \in Calls, NEW answer \in Results, Finish(c, answer)
    PROVE  /\ pc' \in [Calls -> Phases]
           /\ req' \in [Calls -> AnyRequest \cup {NoRow}]
           /\ result' \in [Calls -> Results]
           /\ checked' \in [Calls -> VersionRow \cup {NoRow}]
           /\ loaded' \in [Calls -> VersionRow \cup {NoRow}]
           /\ loadedDoc' \in [Calls -> DocRow \cup {NoRow}]
           /\ loadedNs' \in [Calls -> KnownNamespaces \cup {NoRow}]
           /\ sawSkill' \in [Calls -> BOOLEAN]
           /\ sawContent' \in [Calls -> BOOLEAN]
BY DEF TypeOK, Finish, Forget, Phases

LEMMA SettleTypes ==
    ASSUME TypeOK, NEW c \in Calls, NEW phase \in Phases, Settle(c, phase)
    PROVE  /\ pc' \in [Calls -> Phases]
           /\ req' \in [Calls -> AnyRequest \cup {NoRow}]
           /\ result' \in [Calls -> Results]
           /\ checked' \in [Calls -> VersionRow \cup {NoRow}]
           /\ loaded' \in [Calls -> VersionRow \cup {NoRow}]
           /\ loadedDoc' \in [Calls -> DocRow \cup {NoRow}]
           /\ loadedNs' \in [Calls -> KnownNamespaces \cup {NoRow}]
           /\ sawSkill' \in [Calls -> BOOLEAN]
           /\ sawContent' \in [Calls -> BOOLEAN]
BY DEF TypeOK, Settle, Goto, Forget

LEMMA GotoTypes ==
    ASSUME TypeOK, NEW c \in Calls, NEW phase \in Phases, Goto(c, phase)
    PROVE  /\ pc' \in [Calls -> Phases]
           /\ req' \in [Calls -> AnyRequest \cup {NoRow}]
           /\ result' \in [Calls -> Results]
BY DEF TypeOK, Goto

LEMMA RecordTypes ==
    ASSUME TypeOK, NEW c \in Calls, NEW allowed \in BOOLEAN,
           NEW prev \in VersionRow \cup {NoRow}, Record(c, allowed, prev)
    PROVE  /\ audit' \in [Calls -> AuditRow \cup {NoRow}]
           /\ auditId' \in Nat
BY DEF TypeOK, Record, AuditRow

LEMMA TypeInit == Init => TypeOK
BY DEF Init, TypeOK, Phases, Results

\* A call that is under way has a request.
LEMMA ActiveRequest ==
    ASSUME SessionInv, NEW c \in Calls, pc[c] # "idle"
    PROVE  req[c] \in AnyRequest
BY DEF SessionInv, SessionOf

LEMMA TypeStep == TypeOK /\ SessionInv /\ [Next]_vars => TypeOK'
<1> SUFFICES ASSUME TypeOK, SessionInv, [Next]_vars
             PROVE  TypeOK'
  OBVIOUS
<1> USE DEF tables, auditTable, session
<1>1. ASSUME NEW c \in Calls, Begin(c)
      PROVE  TypeOK'
  <2>1. PICK r \in Requests : /\ req' = [req EXCEPT ![c] = r]
                              /\ pc' = [pc EXCEPT ![c] = FirstPhase(r)]
    BY <1>1 DEF Begin
  <2>2. r \in AnyRequest /\ FirstPhase(r) \in Phases
    BY CatalogAssumption DEF FirstPhase, Phases
  <2>3. QED
    BY <1>1, <2>1, <2>2 DEF Begin, TypeOK
<1>2. ASSUME NEW c \in Calls, Abort(c) \/ Answer(c) \/ Deny(c)
      PROVE  TypeOK'
  BY <1>2, FinishTypes DEF Abort, Answer, Deny, TypeOK, Results
<1>3. ASSUME NEW c \in Calls, Publish(c)
      PROVE  TypeOK'
  <2>1. CASE PublishDenied(c)
    BY <2>1, SettleTypes, RecordTypes DEF PublishDenied, TypeOK, Phases
  <2>2. CASE PublishPrepare(c)
    BY <2>2, GotoTypes DEF PublishPrepare, TypeOK, Phases
  <2>3. CASE PublishIntent(c)
    BY <2>3, FinishTypes, GotoTypes DEF PublishIntent, TypeOK, Results, Phases
  <2>4. CASE PublishVersionExists(c)
    BY <2>4, FinishTypes, GotoTypes DEF PublishVersionExists, TypeOK, Results, Phases
  <2>5. CASE PublishLoad(c)
    BY <2>5, GotoTypes DEF PublishLoad, TypeOK, Phases
  <2>6. CASE PublishConflict(c)
    BY <2>6, FinishTypes DEF PublishConflict, TypeOK, Results
  <2>7. CASE PublishCommit(c)
    <3>1. pc[c] # "idle" /\ req[c].kind = "publish"
      BY <2>7 DEF PublishCommit, At
    <3>2. /\ Coord(req[c]) \in Coords /\ req[c].digest \in Digests
          /\ req[c].slug \in Slugs /\ req[c].namespace \in Namespaces
          /\ req[c].gov \in Gov
      BY <3>1, ActiveRequest, RequestShape
    <3>3. /\ [content |-> req[c].digest, status |-> "published", gov |-> req[c].gov]
                \in VersionRow
          /\ [namespace |-> req[c].namespace, status |-> "published", gov |-> req[c].gov]
                \in DocRow
      BY <3>2 DEF VersionRow, DocRow, Statuses
    <3>4. /\ skills' \in [Slugs -> KnownNamespaces \cup {NoRow}]
          /\ versions' \in [Coords -> VersionRow \cup {NoRow}]
          /\ contents' \in SUBSET Digests
          /\ docs' \in [Coords -> DocRow \cup {NoRow}]
          /\ embeddings' \in SUBSET Coords
      BY <2>7, <3>2, <3>3 DEF PublishCommit, NamespaceMissing, TypeOK
    <3>5. Record(c, TRUE, NoRow) /\ Settle(c, "answer")
      BY <2>7 DEF PublishCommit
    <3>6. QED
      BY <3>4, <3>5, SettleTypes, RecordTypes DEF TypeOK, Phases
  <2>8. QED
    BY <1>3, <2>1, <2>2, <2>3, <2>4, <2>5, <2>6, <2>7 DEF Publish
<1>4. ASSUME NEW c \in Calls, NEW kind \in {"status", "governance"}, VersionMissing(c, kind)
      PROVE  TypeOK'
  BY <1>4, FinishTypes DEF VersionMissing, TypeOK, Results
<1>5. ASSUME NEW c \in Calls, NEW kind \in {"status", "governance"}, VersionLoad(c, kind)
      PROVE  TypeOK'
  <2>1. Coord(req[c]) \in Coords
    BY <1>5, ActiveRequest, RequestShape DEF VersionLoad, At
  <2>2. QED
    BY <1>5, <2>1, GotoTypes DEF VersionLoad, TypeOK, Phases
<1>6. ASSUME NEW c \in Calls, ChangeStatus(c)
      PROVE  TypeOK'
  <2>1. pc[c] # "idle" /\ req[c].kind = "status"
        => Coord(req[c]) \in Coords /\ req[c].status \in Statuses
    BY ActiveRequest, RequestShape
  <2>2. CASE StatusDenied(c)
    BY <2>2, <2>1, SettleTypes, RecordTypes DEF StatusDenied, At, TypeOK, Phases
  <2>3. CASE StatusCheck(c)
    BY <2>3, <2>1, GotoTypes DEF StatusCheck, At, TypeOK, Phases
  <2>4. CASE StatusCommit(c)
    <3> DEFINE x == Coord(req[c])
               status == req[c].status
    <3>1. x \in Coords /\ status \in Statuses /\ versions[x] # NoRow
      BY <2>4, <2>1 DEF StatusCommit, At, SessionInv, SessionOf
    <3>2. /\ [versions[x] EXCEPT !.status = status] \in VersionRow
          /\ docs[x] # NoRow => [docs[x] EXCEPT !.status = status] \in DocRow
      BY <3>1 DEF TypeOK, VersionRow, DocRow
    <3>3. /\ versions' \in [Coords -> VersionRow \cup {NoRow}]
          /\ docs' \in [Coords -> DocRow \cup {NoRow}]
      BY <2>4, <3>1, <3>2 DEF StatusCommit, TypeOK
    <3>4. Record(c, TRUE, checked[c]) /\ Settle(c, "answer")
      BY <2>4 DEF StatusCommit
    <3>5. checked[c] \in VersionRow \cup {NoRow}
      BY DEF TypeOK
    <3>6. QED
      BY <2>4, <3>3, <3>4, <3>5, SettleTypes, RecordTypes DEF StatusCommit, TypeOK, Phases
  <2>5. QED
    BY <1>4, <1>5, <1>6, <2>2, <2>3, <2>4 DEF ChangeStatus
<1>7. ASSUME NEW c \in Calls, ChangeGovernance(c)
      PROVE  TypeOK'
  <2>1. pc[c] # "idle" /\ req[c].kind = "governance"
        => /\ Coord(req[c]) \in Coords
           /\ \A f \in DOMAIN req[c].set : f \in Fields => req[c].set[f] \in Values
    BY ActiveRequest, RequestShape
  <2>2. CASE GovernanceDenied(c)
    BY <2>2, <2>1, SettleTypes, RecordTypes DEF GovernanceDenied, At, TypeOK, Phases
  <2>3. CASE GovernanceCheck(c)
    BY <2>3, <2>1, GotoTypes DEF GovernanceCheck, At, TypeOK, Phases
  <2>4. CASE GovernanceFlush(c)
    <3>1. docs[Coord(req[c])] \in DocRow \cup {NoRow}
      BY <2>4, <2>1 DEF GovernanceFlush, At, TypeOK
    <3>2. QED
      BY <2>4, <3>1, GotoTypes DEF GovernanceFlush, TypeOK, Phases
  <2>5. CASE GovernanceCommit(c)
    <3> DEFINE x == Coord(req[c])
    <3>1. /\ x \in Coords /\ versions[x] \in VersionRow /\ loaded[c] \in VersionRow
          /\ loadedDoc[c] # NoRow => docs[x] \in DocRow
      BY <2>5, <2>1 DEF GovernanceCommit, At, SessionInv, SessionOf, TypeOK
    <3>2. Edited(c) \in Gov
      BY <2>5, <2>1, <3>1 DEF GovernanceCommit, At, Edited, VersionRow, Gov
    <3>3. Flushed(c) \in Gov /\ (loadedDoc[c] # NoRow => Synced(c) \in Gov)
      BY <3>1, <3>2 DEF VersionRow, DocRow, Gov, Flushed, Synced
    <3>4. /\ [versions[x] EXCEPT !.gov = Flushed(c)] \in VersionRow
          /\ loadedDoc[c] # NoRow => [docs[x] EXCEPT !.gov = Synced(c)] \in DocRow
      BY <3>1, <3>2, <3>3 DEF VersionRow, DocRow
    <3>5. /\ versions' \in [Coords -> VersionRow \cup {NoRow}]
          /\ docs' \in [Coords -> DocRow \cup {NoRow}]
      BY <2>5, <3>1, <3>4 DEF GovernanceCommit, TypeOK
    <3>6. checked[c] \in VersionRow \cup {NoRow}
      BY DEF TypeOK
    <3>7. Record(c, TRUE, checked[c]) /\ Settle(c, "answer")
      BY <2>5 DEF GovernanceCommit
    <3>8. QED
      BY <2>5, <3>5, <3>6, <3>7, SettleTypes, RecordTypes DEF GovernanceCommit, TypeOK, Phases
  <2>6. QED
    BY <1>4, <1>5, <1>7, <2>2, <2>3, <2>4, <2>5 DEF ChangeGovernance
<1>8. ASSUME NEW c \in Calls, ChangeOwnership(c)
      PROVE  TypeOK'
  <2>1. /\ pc[c] # "idle" => req[c].slug \in Slugs
        /\ pc[c] # "idle" /\ req[c].kind = "ownership" => req[c].namespace \in Namespaces
    BY ActiveRequest, RequestShape
  <2>2. CASE OwnershipRefused(c)
    BY <2>2, FinishTypes DEF OwnershipRefused, TypeOK, Results
  <2>3. CASE OwnershipLoad(c)
    BY <2>3, <2>1, GotoTypes DEF OwnershipLoad, At, TypeOK, Phases
  <2>4. CASE OwnershipCommit(c)
    <3>1. /\ req[c].slug \in Slugs /\ req[c].namespace \in Namespaces
          /\ req[c].namespace \in KnownNamespaces
      BY <2>4, <2>1 DEF OwnershipCommit, At, SessionInv, SessionOf
    <3>2. \A x \in Coords : docs[x] # NoRow =>
            [docs[x] EXCEPT !.namespace = req[c].namespace] \in DocRow
      BY <3>1 DEF TypeOK, DocRow
    <3>3. docs' \in [Coords -> DocRow \cup {NoRow}]
      BY <2>4, <3>2 DEF OwnershipCommit, TypeOK
    <3>4. skills' \in [Slugs -> KnownNamespaces \cup {NoRow}]
      BY <2>4, <3>1 DEF OwnershipCommit, TypeOK
    <3>5. Record(c, TRUE, NoRow) /\ Settle(c, "answer")
      BY <2>4 DEF OwnershipCommit
    <3>6. QED
      BY <2>4, <3>3, <3>4, <3>5, SettleTypes, RecordTypes DEF OwnershipCommit, TypeOK, Phases
  <2>5. QED
    BY <1>8, <2>2, <2>3, <2>4 DEF ChangeOwnership
<1>9. CASE UNCHANGED vars
  BY <1>9 DEF vars, TypeOK
<1>10. QED
  BY <1>1, <1>2, <1>3, <1>6, <1>7, <1>8, <1>9 DEF Next

-----------------------------------------------------------------------------
(* What a step of one call leaves alone *)

Step(c) ==
    \/ Begin(c) \/ Abort(c) \/ Answer(c) \/ Deny(c)
    \/ Publish(c) \/ ChangeStatus(c) \/ ChangeGovernance(c) \/ ChangeOwnership(c)

\* The session variables of the other calls.
LEMMA OthersKept ==
    ASSUME TypeOK, NEW c \in Calls, Step(c), NEW d \in Calls, d # c
    PROVE  /\ pc'[d] = pc[d] /\ req'[d] = req[d] /\ result'[d] = result[d]
           /\ loaded'[d] = loaded[d] /\ loadedDoc'[d] = loadedDoc[d]
           /\ sawSkill'[d] = sawSkill[d] /\ audit'[d] = audit[d]
<1> USE DEF TypeOK, Finish, Goto, Forget, Settle, Record, session, auditTable
<1>1. CASE Begin(c)
  BY <1>1 DEF Begin
<1>2. CASE Abort(c) \/ Answer(c) \/ Deny(c)
  BY <1>2 DEF Abort, Answer, Deny
<1>3. CASE Publish(c)
  <2>1. CASE PublishDenied(c) \/ PublishPrepare(c) \/ PublishIntent(c)
    BY <2>1 DEF PublishDenied, PublishPrepare, PublishIntent
  <2>2. CASE PublishVersionExists(c) \/ PublishLoad(c)
    BY <2>2 DEF PublishVersionExists, PublishLoad
  <2>3. CASE PublishConflict(c) \/ PublishCommit(c)
    BY <2>3 DEF PublishConflict, PublishCommit
  <2>4. QED
    BY <1>3, <2>1, <2>2, <2>3 DEF Publish
<1>4. CASE ChangeStatus(c)
  <2>1. CASE VersionMissing(c, "status") \/ StatusDenied(c) \/ StatusCheck(c)
    BY <2>1 DEF VersionMissing, StatusDenied, StatusCheck
  <2>2. CASE VersionLoad(c, "status") \/ StatusCommit(c)
    BY <2>2 DEF VersionLoad, StatusCommit
  <2>3. QED
    BY <1>4, <2>1, <2>2 DEF ChangeStatus
<1>5. CASE ChangeGovernance(c)
  <2>1. CASE VersionMissing(c, "governance") \/ GovernanceDenied(c) \/ GovernanceCheck(c)
    BY <2>1 DEF VersionMissing, GovernanceDenied, GovernanceCheck
  <2>2. CASE VersionLoad(c, "governance") \/ GovernanceFlush(c) \/ GovernanceCommit(c)
    BY <2>2 DEF VersionLoad, GovernanceFlush, GovernanceCommit
  <2>3. QED
    BY <1>5, <2>1, <2>2 DEF ChangeGovernance
<1>6. CASE ChangeOwnership(c)
  BY <1>6 DEF ChangeOwnership, OwnershipRefused, OwnershipLoad, OwnershipCommit
<1>7. QED
  BY <1>1, <1>2, <1>3, <1>4, <1>5, <1>6 DEF Step

\* Rows are never deleted and a version keeps its artifact.
RowsStay ==
    /\ \A x \in Coords : Stored(x) =>
        versions'[x] # NoRow /\ versions'[x].content = versions[x].content
    /\ \A x \in Coords : docs[x] # NoRow => docs'[x] # NoRow
    /\ \A s \in Slugs : skills[s] # NoRow => skills'[s] # NoRow
    /\ contents \subseteq contents'

\* The steps that write to the catalogue.
Commits(c) == PublishCommit(c) \/ StatusCommit(c) \/ GovernanceCommit(c) \/ OwnershipCommit(c)

LEMMA OnlyCommitsWrite ==
    ASSUME NEW c \in Calls, Step(c), ~Commits(c)
    PROVE  UNCHANGED tables
<1>1. CASE Publish(c)
  BY <1>1 DEF Commits, Publish, PublishDenied, PublishPrepare, PublishIntent,
              PublishVersionExists, PublishLoad, PublishConflict
<1>2. CASE ChangeStatus(c)
  BY <1>2 DEF Commits, ChangeStatus, VersionMissing, StatusDenied, StatusCheck, VersionLoad
<1>3. CASE ChangeGovernance(c)
  BY <1>3 DEF Commits, ChangeGovernance, VersionMissing, GovernanceDenied, GovernanceCheck,
              VersionLoad, GovernanceFlush
<1>4. CASE ChangeOwnership(c)
  BY <1>4 DEF Commits, ChangeOwnership, OwnershipRefused, OwnershipLoad
<1>5. QED
  BY <1>1, <1>2, <1>3, <1>4 DEF Step, Begin, Abort, Answer, Deny

LEMMA StatusWrite ==
    ASSUME TypeOK, SessionInv, NEW c \in Calls, StatusCommit(c)
    PROVE  /\ RowsStay
           /\ \A x \in Coords : (versions'[x] # NoRow) <=> Stored(x)
           /\ \A x \in Coords : (docs'[x] # NoRow) <=> docs[x] # NoRow
<1> DEFINE x == Coord(req[c])
<1>1. x \in Coords /\ versions[x] \in VersionRow /\ req[c].status \in Statuses
  BY ActiveRequest, RequestShape DEF StatusCommit, At, SessionInv, SessionOf, TypeOK
<1>2. /\ [versions[x] EXCEPT !.status = req[c].status] \in VersionRow
      /\ [versions[x] EXCEPT !.status = req[c].status].content = versions[x].content
      /\ docs[x] # NoRow => [docs[x] EXCEPT !.status = req[c].status] \in DocRow
  BY <1>1 DEF TypeOK, VersionRow, DocRow
<1>3. QED
  BY <1>1, <1>2, RowShape DEF StatusCommit, RowsStay, Stored, TypeOK

LEMMA GovernanceWrite ==
    ASSUME TypeOK, SessionInv, NEW c \in Calls, GovernanceCommit(c)
    PROVE  /\ RowsStay
           /\ \A x \in Coords : (versions'[x] # NoRow) <=> Stored(x)
           /\ \A x \in Coords : (docs'[x] # NoRow) <=> docs[x] # NoRow
<1> DEFINE x == Coord(req[c])
<1>1. /\ x \in Coords /\ versions[x] \in VersionRow /\ loaded[c] \in VersionRow
      /\ loadedDoc[c] # NoRow => docs[x] \in DocRow
      /\ \A f \in DOMAIN req[c].set : f \in Fields => req[c].set[f] \in Values
  BY ActiveRequest, RequestShape DEF GovernanceCommit, At, SessionInv, SessionOf, TypeOK
<1>2. Edited(c) \in Gov
  BY <1>1 DEF Edited, VersionRow, Gov
<1>3. Flushed(c) \in Gov /\ (loadedDoc[c] # NoRow => Synced(c) \in Gov)
  BY <1>1, <1>2 DEF VersionRow, DocRow, Gov, Flushed, Synced
<1>4. /\ [versions[x] EXCEPT !.gov = Flushed(c)] \in VersionRow
      /\ [versions[x] EXCEPT !.gov = Flushed(c)].content = versions[x].content
      /\ loadedDoc[c] # NoRow =>
           docs[x] # NoRow /\ [docs[x] EXCEPT !.gov = Synced(c)] \in DocRow
  BY <1>1, <1>2, <1>3, RowShape DEF VersionRow, DocRow
<1>5. QED
  BY <1>1, <1>4, RowShape DEF GovernanceCommit, RowsStay, Stored, TypeOK

LEMMA OwnershipWrite ==
    ASSUME TypeOK, SessionInv, NEW c \in Calls, OwnershipCommit(c)
    PROVE  /\ RowsStay
           /\ \A x \in Coords : (docs'[x] # NoRow) <=> docs[x] # NoRow
           /\ UNCHANGED <<versions, contents, embeddings>>
           /\ \A s \in Slugs : (skills'[s] # NoRow) <=> skills[s] # NoRow
<1>1. req[c].slug \in Slugs /\ req[c].namespace \in Namespaces
  BY ActiveRequest, RequestShape DEF OwnershipCommit, At
<1>2. \A x \in Coords : docs[x] # NoRow =>
        [docs[x] EXCEPT !.namespace = req[c].namespace] \in DocRow
  BY <1>1 DEF TypeOK, DocRow
<1>3. skills[req[c].slug] # NoRow
  BY DEF OwnershipCommit, SessionInv, SessionOf
<1>4. QED
  BY <1>1, <1>2, <1>3, RowShape DEF OwnershipCommit, RowsStay, Stored, TypeOK

\* The publication that commits: the coordinate was free, its rows are all new.
LEMMA PublishWrite ==
    ASSUME TypeOK, SessionInv, NEW c \in Calls, PublishCommit(c)
    PROVE  LET r == req[c]
               x == Coord(r)
           IN  /\ RowsStay
               /\ r \in AnyRequest /\ r.kind = "publish" /\ pc[c] = "commit"
               /\ x \in Coords /\ x[1] = r.slug /\ r.slug \in Slugs /\ ~Stored(x)
               /\ versions'[x] # NoRow /\ versions'[x].content = r.digest
               /\ docs'[x] # NoRow /\ skills'[r.slug] # NoRow
               /\ contents' = contents \cup {r.digest}
               /\ embeddings' = embeddings \cup {x}
               /\ \A y \in Coords : y # x =>
                    versions'[y] = versions[y] /\ docs'[y] = docs[y]
               /\ \A s \in Slugs : s # r.slug => skills'[s] = skills[s]
               /\ ~sawSkill[c] => skills[r.slug] = NoRow
<1> DEFINE r == req[c]
           x == Coord(r)
<1>1. /\ r \in AnyRequest /\ r.kind = "publish" /\ pc[c] = "commit"
      /\ x \in Coords /\ r.slug \in Slugs /\ r.digest \in Digests
      /\ r.namespace \in Namespaces /\ r.gov \in Gov
  BY ActiveRequest, RequestShape DEF PublishCommit, At
<1>2. x[1] = r.slug
  BY DEF Coord
<1>3. /\ [content |-> r.digest, status |-> "published", gov |-> r.gov] \in VersionRow
      /\ [namespace |-> r.namespace, status |-> "published", gov |-> r.gov] \in DocRow
  BY <1>1 DEF VersionRow, DocRow, Statuses
<1>4. /\ versions' = [versions EXCEPT ![x] =
            [content |-> r.digest, status |-> "published", gov |-> r.gov]]
      /\ docs' = [docs EXCEPT ![x] =
            [namespace |-> r.namespace, status |-> "published", gov |-> r.gov]]
      /\ skills' = IF sawSkill[c] THEN skills ELSE [skills EXCEPT ![r.slug] = r.namespace]
      /\ contents' = contents \cup {r.digest}
      /\ embeddings' = embeddings \cup {x}
  BY DEF PublishCommit
<1>5. ~Stored(x) /\ (~sawSkill[c] => skills[r.slug] = NoRow)
  BY DEF PublishCommit, VersionTaken, SlugTaken, Stored
<1>6. skills'[r.slug] # NoRow
  BY <1>1, <1>4, RowShape DEF SessionInv, SessionOf, At, TypeOK
<1>7. RowsStay
  BY <1>1, <1>3, <1>4, <1>5, RowShape DEF RowsStay, Stored, TypeOK
<1>8. QED
  BY <1>1, <1>2, <1>3, <1>4, <1>5, <1>6, <1>7, RowShape DEF TypeOK

LEMMA RowsStayStep ==
    ASSUME TypeOK, SessionInv, [Next]_vars
    PROVE  RowsStay
<1>1. ASSUME UNCHANGED tables
      PROVE  RowsStay
  BY <1>1 DEF tables, RowsStay, Stored
<1>2. ASSUME NEW c \in Calls, Step(c)
      PROVE  RowsStay
  BY <1>1, <1>2, OnlyCommitsWrite, PublishWrite, StatusWrite, GovernanceWrite, OwnershipWrite
     DEF Commits
<1>3. QED
  BY <1>1, <1>2 DEF Next, Step, vars

-----------------------------------------------------------------------------
(* What the calls in flight know stays true *)

\* A step of one call does not touch what another relies on.
LEMMA OthersSession ==
    ASSUME TypeOK, SessionInv, RowsStay, NEW c \in Calls, Step(c), NEW d \in Calls, d # c
    PROVE  SessionOf(d)'
<1>1. /\ pc'[d] = pc[d] /\ req'[d] = req[d] /\ result'[d] = result[d]
      /\ loaded'[d] = loaded[d] /\ loadedDoc'[d] = loadedDoc[d] /\ sawSkill'[d] = sawSkill[d]
  BY OthersKept
<1>2. pc[d] # "idle" => req[d] \in AnyRequest /\ req[d].slug \in Slugs
  BY ActiveRequest, RequestShape
<1>3. \A kind \in {"status", "governance"} :
        pc[d] # "idle" /\ req[d].kind = kind => Coord(req[d]) \in Coords
  BY ActiveRequest, RequestShape
<1>4. Coord(req[d])' = Coord(req[d])
  BY <1>1 DEF Coord
<1>5. \A kind, phase : At(d, kind, phase)' <=> At(d, kind, phase)
  BY <1>1 DEF At
<1>6. /\ pc[d] = "idle" => req[d] = NoRow
      /\ pc[d] # "done" => result[d] = "none"
      /\ At(d, "publish", "exists") \/ At(d, "publish", "load") \/ At(d, "publish", "commit")
         => (req[d].intent = "publish_version" => skills'[req[d].slug] # NoRow)
      /\ At(d, "publish", "commit") =>
         /\ sawSkill[d] => skills'[req[d].slug] # NoRow
         /\ req[d].intent = "publish_version" => sawSkill[d]
      /\ At(d, "ownership", "commit") =>
         skills'[req[d].slug] # NoRow /\ req[d].namespace \in KnownNamespaces
  BY <1>2 DEF SessionInv, SessionOf, RowsStay, At
<1>7. \A kind \in {"status", "governance"} :
       /\ At(d, kind, "load") => versions'[Coord(req[d])] # NoRow
       /\ At(d, kind, "commit") => versions'[Coord(req[d])] # NoRow /\ loaded[d] # NoRow
  BY <1>3 DEF SessionInv, SessionOf, RowsStay, Stored, At
<1>8. At(d, "governance", "sync") =>
        /\ versions'[Coord(req[d])] # NoRow /\ loaded[d] # NoRow
        /\ docs'[Coord(req[d])] # NoRow /\ loadedDoc[d] # NoRow
  BY <1>3 DEF SessionInv, SessionOf, RowsStay, Stored, At
<1>9. QED
  BY <1>1, <1>2, <1>4, <1>5, <1>6, <1>7, <1>8 DEF SessionOf

\* A call that has answered, or that has only to answer, relies on nothing.
LEMMA FinishSession ==
    ASSUME TypeOK, SessionInv, NEW c \in Calls, pc[c] # "idle", NEW answer, Finish(c, answer)
    PROVE  SessionOf(c)'
<1>1. pc'[c] = "done" /\ req'[c] = req[c]
  BY DEF Finish, TypeOK
<1>2. \A kind, phase : phase # "done" => ~At(c, kind, phase)'
  BY <1>1 DEF At
<1>3. QED
  BY <1>1, <1>2, ActiveRequest DEF SessionOf

LEMMA SettleSession ==
    ASSUME TypeOK, SessionInv, NEW c \in Calls, pc[c] \notin {"idle", "done"},
           NEW phase \in {"answer", "deny"}, Settle(c, phase)
    PROVE  SessionOf(c)'
<1>1. pc'[c] = phase /\ req'[c] = req[c] /\ result'[c] = result[c]
  BY DEF Settle, Goto, TypeOK
<1>2. \A kind, other : other # phase => ~At(c, kind, other)'
  BY <1>1 DEF At
<1>3. QED
  BY <1>1, <1>2, ActiveRequest DEF SessionInv, SessionOf

LEMMA OwnSession ==
    ASSUME TypeOK, SessionInv, PublicationComplete, RowsStay, NEW c \in Calls, Step(c)
    PROVE  SessionOf(c)'
<1> USE DEF session
<1> DEFINE Leaves ==
             \/ pc[c] # "idle" /\ \E answer \in Results : Finish(c, answer)
             \/ pc[c] \notin {"idle", "done"} /\ \E phase \in {"answer", "deny"} : Settle(c, phase)
<1>1. ASSUME Leaves
      PROVE  SessionOf(c)'
  BY <1>1, FinishSession, SettleSession
<1>2. ASSUME Begin(c)
      PROVE  SessionOf(c)'
  <2>1. PICK r \in Requests : /\ req' = [req EXCEPT ![c] = r]
                              /\ pc' = [pc EXCEPT ![c] = FirstPhase(r)]
    BY <1>2 DEF Begin
  <2>2. r \in AnyRequest /\ req'[c] = r /\ pc'[c] = FirstPhase(r) /\ result'[c] = "none"
    BY <2>1, <1>2, CatalogAssumption DEF TypeOK, Begin, SessionInv, SessionOf
  <2>3. r.kind \in {"publish", "status", "governance", "ownership"}
    BY <2>2 DEF AnyRequest, PublishRequest, StatusRequest, GovernanceRequest, OwnershipRequest
  <2>4. QED
    BY <2>2, <2>3 DEF SessionOf, FirstPhase, At
<1>3. ASSUME Publish(c)
      PROVE  SessionOf(c)'
  <2>1. CASE PublishDenied(c) \/ PublishConflict(c) \/ PublishCommit(c)
    BY <2>1, <1>1 DEF PublishDenied, PublishConflict, PublishCommit, At, Results
  <2>2. CASE PublishPrepare(c)
    BY <2>2 DEF PublishPrepare, Goto, SessionInv, SessionOf, At, TypeOK
  <2>3. CASE PublishIntent(c)
    <3>1. CASE pc'[c] = "exists"
      <4>1. /\ req' = req /\ result' = result /\ skills' = skills /\ pc[c] = "intent"
            /\ req[c].kind = "publish"
            /\ (req[c].intent = "create_skill") # (skills[req[c].slug] # NoRow)
        BY <2>3, <3>1 DEF PublishIntent, Goto, Finish, TypeOK, tables, At
      <4>2. req[c].intent = "publish_version" => skills[req[c].slug] # NoRow
        BY <4>1
      <4>3. QED
        BY <3>1, <4>1, <4>2 DEF SessionInv, SessionOf, At
    <3>2. QED
      BY <2>3, <3>1, <1>1 DEF PublishIntent, At, Results, Goto, TypeOK
  <2>4. CASE PublishVersionExists(c)
    <3>1. CASE pc'[c] = "load"
      BY <2>4, <3>1 DEF PublishVersionExists, Goto, Finish, TypeOK, tables, At,
                        SessionInv, SessionOf
    <3>2. QED
      BY <2>4, <3>1, <1>1 DEF PublishVersionExists, At, Results, Goto, TypeOK
  <2>5. CASE PublishLoad(c)
    BY <2>5 DEF PublishLoad, Goto, SessionInv, SessionOf, At, TypeOK, tables
  <2>6. QED
    BY <1>3, <2>1, <2>2, <2>3, <2>4, <2>5 DEF Publish
<1>4. ASSUME NEW kind \in {"status", "governance"}, VersionMissing(c, kind)
      PROVE  SessionOf(c)'
  BY <1>4, <1>1 DEF VersionMissing, At, Results
<1>5. ASSUME NEW kind \in {"status", "governance"}, VersionLoad(c, kind)
      PROVE  SessionOf(c)'
  BY <1>5 DEF VersionLoad, Goto, SessionInv, SessionOf, At, TypeOK, tables, Coord
<1>6. ASSUME ChangeStatus(c)
      PROVE  SessionOf(c)'
  <2>1. CASE StatusDenied(c) \/ StatusCommit(c)
    BY <2>1, <1>1 DEF StatusDenied, StatusCommit, At, Results
  <2>2. CASE StatusCheck(c)
    BY <2>2 DEF StatusCheck, Goto, SessionInv, SessionOf, At, TypeOK, tables, Coord
  <2>3. QED
    BY <1>6, <1>4, <1>5, <2>1, <2>2 DEF ChangeStatus
<1>7. ASSUME ChangeGovernance(c)
      PROVE  SessionOf(c)'
  <2>1. CASE GovernanceDenied(c) \/ GovernanceCommit(c)
    BY <2>1, <1>1 DEF GovernanceDenied, GovernanceCommit, At, Results
  <2>2. CASE GovernanceCheck(c)
    BY <2>2 DEF GovernanceCheck, Goto, SessionInv, SessionOf, At, TypeOK, tables, Coord
  <2>3. CASE GovernanceFlush(c)
    <3>1. Coord(req[c]) \in Coords
      BY <2>3, ActiveRequest, RequestShape DEF GovernanceFlush, At
    <3>2. docs[Coord(req[c])] # NoRow
      BY <2>3, <3>1 DEF GovernanceFlush, At, SessionInv, SessionOf, PublicationComplete, Stored
    <3>3. QED
      BY <2>3, <3>2 DEF GovernanceFlush, Goto, SessionInv, SessionOf, At, TypeOK, tables, Coord
  <2>4. QED
    BY <1>7, <1>4, <1>5, <2>1, <2>2, <2>3 DEF ChangeGovernance
<1>8. ASSUME ChangeOwnership(c)
      PROVE  SessionOf(c)'
  <2>1. CASE OwnershipRefused(c) \/ OwnershipCommit(c)
    BY <2>1, <1>1 DEF OwnershipRefused, OwnershipCommit, At, Results
  <2>2. CASE OwnershipLoad(c)
    BY <2>2 DEF OwnershipLoad, Goto, SessionInv, SessionOf, At, TypeOK, tables
  <2>3. QED
    BY <1>8, <2>1, <2>2 DEF ChangeOwnership
<1>9. ASSUME Abort(c) \/ Answer(c) \/ Deny(c)
      PROVE  SessionOf(c)'
  BY <1>9, <1>1 DEF Abort, Answer, Deny, InFlight, Results
<1>10. QED
  BY <1>2, <1>3, <1>6, <1>7, <1>8, <1>9 DEF Step

LEMMA SessionStep == TypeOK /\ SessionInv /\ PublicationComplete /\ [Next]_vars => SessionInv'
<1> SUFFICES ASSUME TypeOK, SessionInv, PublicationComplete, [Next]_vars
             PROVE  SessionInv'
  OBVIOUS
<1>1. RowsStay
  BY RowsStayStep
<1>2. ASSUME NEW c \in Calls, Step(c)
      PROVE  SessionInv'
  <2>1. \A d \in Calls : SessionOf(d)'
    BY <1>1, <1>2, OthersSession, OwnSession
  <2>2. QED
    BY <2>1 DEF SessionInv, SessionOf
<1>3. CASE UNCHANGED vars
  BY <1>3 DEF vars, tables, session, SessionInv, SessionOf, At, Coord
<1>4. QED
  BY <1>2, <1>3 DEF Next, Step

-----------------------------------------------------------------------------
(* The audit row of a call, and its answer *)

\* A call that has neither committed a change nor recorded a denial.
Working(c) == pc[c] \notin {"answer", "deny", "done"}

\* What a step of a call does to its audit row and to its answer.
Works(c) ==
    /\ Working(c) /\ pc'[c] \notin {"answer", "deny", "done"}
    /\ UNCHANGED <<auditTable, result>>

Gives(c, answers) == UNCHANGED auditTable /\ \E a \in answers : Finish(c, a)

Refused == {"not_found", "skill_exists", "duplicate_version"}

LEMMA StepShape ==
    ASSUME TypeOK, NEW c \in Calls, SessionInv, Step(c)
    PROVE  /\ pc[c] # "done"
           /\ pc[c] # "idle" => req' = req
           /\ \/ Works(c)
              \/ pc[c] # "idle" /\ Gives(c, {"failed"})
              \/ pc[c] # "idle" /\ Working(c) /\ Gives(c, Refused)
              \/ Answer(c)
              \/ Deny(c)
              \/ /\ pc[c] # "idle" /\ Working(c) /\ Settle(c, "deny")
                 /\ \E prev \in VersionRow \cup {NoRow} : Record(c, FALSE, prev)
              \/ /\ pc[c] # "idle" /\ Working(c) /\ Settle(c, "answer")
                 /\ \E prev \in VersionRow \cup {NoRow} : Record(c, TRUE, prev)
                 /\ Commits(c)
<1> USE DEF Works, Gives, Working, Refused, At
<1>1. CASE Begin(c)
  <2>1. pc'[c] \in {"prepare", "load", "check"}
    BY <1>1 DEF Begin, FirstPhase, TypeOK
  <2>2. QED
    BY <1>1, <2>1 DEF Begin
<1>2. CASE Abort(c) \/ Answer(c) \/ Deny(c)
  BY <1>2 DEF Abort, Answer, Deny, InFlight, Finish
<1>3. CASE Publish(c)
  <2>1. CASE PublishDenied(c)
    BY <2>1 DEF PublishDenied, Settle, Goto
  <2>2. CASE PublishPrepare(c) \/ PublishLoad(c)
    BY <2>2 DEF PublishPrepare, PublishLoad, Goto, TypeOK
  <2>3. CASE PublishIntent(c)
    BY <2>3 DEF PublishIntent, Goto, Finish, TypeOK
  <2>4. CASE PublishVersionExists(c)
    BY <2>4 DEF PublishVersionExists, Goto, Finish, TypeOK
  <2>5. CASE PublishConflict(c)
    BY <2>5 DEF PublishConflict, Finish
  <2>6. CASE PublishCommit(c)
    BY <2>6 DEF PublishCommit, Settle, Goto, Commits
  <2>7. QED
    BY <1>3, <2>1, <2>2, <2>3, <2>4, <2>5, <2>6 DEF Publish
<1>4. ASSUME NEW kind \in {"status", "governance"}, VersionMissing(c, kind) \/ VersionLoad(c, kind)
      PROVE  /\ pc[c] \notin {"done", "idle"} /\ req' = req
             /\ Works(c) \/ (Working(c) /\ Gives(c, Refused))
  BY <1>4 DEF VersionMissing, VersionLoad, Finish, Goto, TypeOK
<1>5. pc[c] # "idle" /\ req[c].kind \in {"status", "governance"}
      => versions[Coord(req[c])] \in VersionRow \cup {NoRow}
  BY ActiveRequest, RequestShape DEF TypeOK
<1>6. checked[c] \in VersionRow \cup {NoRow}
  BY DEF TypeOK
<1>7. CASE ChangeStatus(c)
  <2>1. CASE StatusDenied(c)
    BY <2>1, <1>5 DEF StatusDenied, Settle, Goto
  <2>2. CASE StatusCheck(c)
    BY <2>2 DEF StatusCheck, Goto, TypeOK
  <2>3. CASE StatusCommit(c)
    BY <2>3, <1>6 DEF StatusCommit, Settle, Goto, Commits
  <2>4. QED
    BY <1>7, <1>4, <2>1, <2>2, <2>3 DEF ChangeStatus
<1>8. CASE ChangeGovernance(c)
  <2>1. CASE GovernanceDenied(c)
    BY <2>1, <1>5 DEF GovernanceDenied, Settle, Goto
  <2>2. CASE GovernanceCheck(c) \/ GovernanceFlush(c)
    BY <2>2 DEF GovernanceCheck, GovernanceFlush, Goto, TypeOK
  <2>3. CASE GovernanceCommit(c)
    BY <2>3, <1>6 DEF GovernanceCommit, Settle, Goto, Commits
  <2>4. QED
    BY <1>8, <1>4, <2>1, <2>2, <2>3 DEF ChangeGovernance
<1>9. CASE ChangeOwnership(c)
  <2>1. CASE OwnershipRefused(c)
    BY <2>1 DEF OwnershipRefused, Finish
  <2>2. CASE OwnershipLoad(c)
    BY <2>2 DEF OwnershipLoad, Goto, TypeOK
  <2>3. CASE OwnershipCommit(c)
    BY <2>3 DEF OwnershipCommit, Settle, Goto, Commits
  <2>4. QED
    BY <1>9, <2>1, <2>2, <2>3 DEF ChangeOwnership
<1>10. QED
  BY <1>1, <1>2, <1>3, <1>7, <1>8, <1>9 DEF Step

\* The row that Record writes.
LEMMA RecordedRow ==
    ASSUME TypeOK, NEW c \in Calls, NEW allowed \in BOOLEAN,
           NEW prev \in VersionRow \cup {NoRow}, Record(c, allowed, prev)
    PROVE  /\ audit'[c] # NoRow /\ audit'[c].allowed = allowed /\ audit'[c].id = auditId
           /\ \A d \in Calls \ {c} : audit'[d] = audit[d]
<1>1. [id |-> auditId, allowed |-> allowed, prev |-> prev] \in AuditRow
  BY DEF AuditRow, TypeOK
<1>2. QED
  BY <1>1, RowShape DEF Record, TypeOK

LEMMA TrailStep ==
    ASSUME TypeOK, SessionInv, TrailInv, NEW c \in Calls, Step(c)
    PROVE  TrailInv'
<1>1. ASSUME NEW d \in Calls, d # c
      PROVE  TrailOf(d)'
  <2>1. pc'[d] = pc[d] /\ req'[d] = req[d] /\ result'[d] = result[d] /\ audit'[d] = audit[d]
    BY <1>1, OthersKept
  <2>2. QED
    BY <1>1, <2>1 DEF TrailInv, TrailOf, Allowed
<1>2. result[c] = "none" /\ TrailOf(c)
  BY StepShape DEF SessionInv, SessionOf, TrailInv
<1>3. TrailOf(c)'
  <2>1. CASE Works(c)
    BY <2>1, <1>2 DEF Works, Working, TrailOf, auditTable
  <2>2. CASE Gives(c, {"failed"})
    BY <2>2 DEF Gives, Finish, TypeOK, TrailOf
  <2>3. CASE Working(c) /\ Gives(c, Refused)
    BY <2>3, <1>2 DEF Gives, Finish, TypeOK, TrailOf, Working, Refused, auditTable
  <2>4. CASE Answer(c)
    <3>1. /\ pc[c] = "answer" /\ pc'[c] = "done" /\ req' = req /\ audit' = audit
          /\ result'[c] = IF req[c].kind = "publish" THEN "created" ELSE "updated"
      BY <2>4 DEF Answer, Finish, TypeOK, auditTable
    <3>2. QED
      BY <3>1, <1>2 DEF TrailOf, Allowed
  <2>5. CASE Deny(c)
    BY <2>5, <1>2 DEF Deny, Finish, TypeOK, TrailOf, auditTable
  <2>6. ASSUME NEW phase \in {"answer", "deny"}, Settle(c, phase),
               \E prev \in VersionRow \cup {NoRow} : Record(c, phase = "answer", prev)
        PROVE  TrailOf(c)'
    <3>1. pc'[c] = phase /\ result'[c] = "none"
      BY <2>6, <1>2 DEF Settle, Goto, TypeOK
    <3>2. audit'[c] # NoRow /\ audit'[c].allowed = (phase = "answer")
      BY <2>6, RecordedRow
    <3>3. QED
      BY <3>1, <3>2 DEF TrailOf, Allowed
  <2>7. QED
    BY <2>1, <2>2, <2>3, <2>4, <2>5, <2>6, StepShape
<1>4. QED
  BY <1>1, <1>3 DEF TrailInv

\* Who answers that a version or a skill exists has just seen it.
LEMMA Conflicts ==
    ASSUME TypeOK, SessionInv, NEW c \in Calls, Step(c)
    PROVE  /\ result'[c] \in {"duplicate_version", "skill_exists"} => req[c].kind = "publish"
           /\ result'[c] = "duplicate_version" => Stored(Coord(req[c]))
           /\ result'[c] = "skill_exists" => skills[req[c].slug] # NoRow
<1>1. result[c] = "none"
  BY StepShape DEF SessionInv, SessionOf
<1> DEFINE Quiet == result'[c] \notin {"duplicate_version", "skill_exists"}
<1>2. CASE Begin(c) \/ Abort(c) \/ Answer(c) \/ Deny(c)
  <2>1. Quiet
    BY <1>1, <1>2 DEF Begin, Abort, Answer, Deny, Finish, TypeOK
  <2>2. QED
    BY <2>1
<1>3. CASE Publish(c)
  <2>1. req[c].kind = "publish"
    BY <1>3 DEF Publish, PublishDenied, PublishPrepare, PublishIntent,
         PublishVersionExists, PublishLoad, PublishConflict, PublishCommit, At
  <2>2. CASE PublishDenied(c) \/ PublishPrepare(c) \/ PublishLoad(c) \/ PublishCommit(c)
    <3>1. result' = result
      BY <2>2 DEF PublishDenied, PublishPrepare, PublishLoad, PublishCommit, Settle, Goto
    <3>2. QED
      BY <1>1, <3>1
  <2>3. CASE PublishIntent(c)
    BY <1>1, <2>1, <2>3 DEF PublishIntent, Finish, Goto, TypeOK
  <2>4. CASE PublishVersionExists(c)
    BY <1>1, <2>1, <2>4 DEF PublishVersionExists, Finish, Goto, TypeOK, Stored
  <2>5. CASE PublishConflict(c)
    BY <1>1, <2>1, <2>5 DEF PublishConflict, Finish, TypeOK, Stored, SlugTaken, VersionTaken
  <2>6. QED
    BY <1>3, <2>2, <2>3, <2>4, <2>5 DEF Publish
<1>4. CASE ChangeStatus(c) \/ ChangeGovernance(c) \/ ChangeOwnership(c)
  <2>1. Quiet
    BY <1>1, <1>4
       DEF ChangeStatus, VersionMissing, StatusDenied, StatusCheck, VersionLoad, StatusCommit,
           ChangeGovernance, GovernanceDenied, GovernanceCheck, GovernanceFlush,
           GovernanceCommit, ChangeOwnership, OwnershipRefused, OwnershipLoad, OwnershipCommit,
           Finish, Settle, Goto, TypeOK
  <2>2. QED
    BY <2>1
<1>5. QED
  BY <1>2, <1>3, <1>4 DEF Step

\* Whom the audit trail credits with a publication after a step.
LEMMA EventsStep ==
    ASSUME TypeOK, SessionInv, TrailInv, NEW c \in Calls, Step(c)
    PROVE  \A d \in Calls :
             /\ Allowed(d) => d # c \/ pc[c] = "answer"
             /\ Allowed(d) => Allowed(d)' /\ req'[d] = req[d]
             /\ Allowed(d)' => Allowed(d) \/ (d = c /\ Commits(c))
             /\ Commits(c) => Allowed(c)' /\ req' = req
<1>1. ASSUME NEW d \in Calls, d # c
      PROVE  audit'[d] = audit[d] /\ req'[d] = req[d]
  BY <1>1, OthersKept
<1>2. Allowed(c) => pc[c] = "answer"
  BY StepShape DEF TrailInv, TrailOf, Allowed
<1>3. ASSUME Commits(c)
      PROVE  Allowed(c)' /\ req' = req /\ pc[c] # "answer"
  <2>1. /\ pc[c] # "answer" /\ req' = req
        /\ \E prev \in VersionRow \cup {NoRow} : Record(c, TRUE, prev)
    <3>1. checked[c] \in VersionRow \cup {NoRow}
      BY DEF TypeOK
    <3>2. QED
      BY <1>3, <3>1 DEF Commits, PublishCommit, StatusCommit, GovernanceCommit,
                        OwnershipCommit, At, Settle, Goto
  <2>2. QED
    BY <2>1, RecordedRow DEF Allowed
<1>4. pc[c] = "answer" => audit' = audit /\ req' = req
  BY StepShape DEF Works, Working, Gives, Answer, Deny, auditTable, Finish
<1>5. Allowed(c)' => Allowed(c) \/ Commits(c)
  <2>1. CASE audit' = audit
    BY <2>1 DEF Allowed
  <2>2. CASE \E prev \in VersionRow \cup {NoRow} : Record(c, FALSE, prev)
    BY <2>2, RecordedRow DEF Allowed
  <2>3. QED
    BY <2>1, <2>2, StepShape DEF Works, Gives, Answer, Deny, auditTable
<1>6. QED
  BY <1>1, <1>2, <1>3, <1>4, <1>5 DEF Allowed

\* A step that publishes nothing leaves the catalogue's keys and artifacts as they are.
LEMMA SameKeys ==
    ASSUME TypeOK, SessionInv, NEW c \in Calls, Step(c), ~PublishCommit(c)
    PROVE  /\ \A x \in Coords :
                /\ Stored(x)' <=> Stored(x)
                /\ Stored(x) => versions'[x].content = versions[x].content
                /\ (docs'[x] # NoRow) <=> docs[x] # NoRow
           /\ \A s \in Slugs : (skills'[s] # NoRow) <=> skills[s] # NoRow
           /\ contents' = contents /\ embeddings' = embeddings
<1>1. CASE ~Commits(c)
  BY <1>1, OnlyCommitsWrite DEF tables, Stored
<1>2. CASE StatusCommit(c)
  BY <1>2, StatusWrite DEF StatusCommit, Stored, RowsStay
<1>3. CASE GovernanceCommit(c)
  BY <1>3, GovernanceWrite DEF GovernanceCommit, Stored, RowsStay
<1>4. CASE OwnershipCommit(c)
  BY <1>4, OwnershipWrite DEF OwnershipCommit, Stored, RowsStay
<1>5. QED
  BY <1>1, <1>2, <1>3, <1>4 DEF Commits

-----------------------------------------------------------------------------
(* The two invariants *)

LEMMA PublicationInit == Init => PublicationComplete /\ AnswersHonest /\ SessionInv /\ TrailInv
BY DEF Init, PublicationComplete, AnswersHonest, SessionInv, SessionOf, Stored, Created, At,
       TrailInv, TrailOf, Events, Allowed

LEMMA PublicationStep ==
    ASSUME TypeOK, SessionInv, TrailInv, PublicationComplete, NEW c \in Calls, Step(c)
    PROVE  PublicationComplete'
<1>1. \A d \in Calls :
        /\ \A x \in Coords : d \in Events(x, "publish") => d \in Events(x, "publish")'
        /\ \A s \in Slugs : d \in Founders(s) => d \in Founders(s)'
  BY EventsStep DEF Events, Founders, Coord
<1>2. \A s \in Slugs : Founders(s) # {} => (Founders(s) # {})'
  BY <1>1 DEF Founders
<1>3. \A d \in Calls : Allowed(d) => req'[d] = req[d]
  BY EventsStep
<1>4. ASSUME ~PublishCommit(c)
      PROVE  PublicationComplete'
  <2>1. /\ \A x \in Coords :
              /\ Stored(x)' <=> Stored(x)
              /\ Stored(x) => versions'[x].content = versions[x].content
              /\ (docs'[x] # NoRow) <=> docs[x] # NoRow
        /\ \A s \in Slugs : (skills'[s] # NoRow) <=> skills[s] # NoRow
        /\ contents' = contents /\ embeddings' = embeddings
    BY <1>4, SameKeys
  <2>2. ASSUME NEW x \in Coords, Stored(x)'
        PROVE  /\ skills'[x[1]] # NoRow
               /\ versions'[x].content \in contents'
               /\ \E d \in Events(x, "publish")' : req'[d].digest = versions'[x].content
    <3>1. PICK d \in Events(x, "publish") : req[d].digest = versions[x].content
      BY <2>1, <2>2 DEF PublicationComplete
    <3>2. d \in Events(x, "publish")' /\ req'[d] = req[d]
      BY <3>1, <1>1, <1>3 DEF Events
    <3>3. QED
      BY <2>1, <2>2, <3>1, <3>2 DEF PublicationComplete, Coords
  <2>3. ASSUME NEW x \in Coords, NEW d \in Events(x, "publish")'
        PROVE  d \in Events(x, "publish")
    <3>1. d \in Calls /\ Allowed(d)' /\ req'[d].kind = "publish" /\ Coord(req'[d]) = x
      BY <2>3 DEF Events, Coord
    <3>2. ~(d = c /\ Commits(c))
      BY <3>1, <1>4, EventsStep DEF Commits, StatusCommit, GovernanceCommit, OwnershipCommit, At
    <3>3. QED
      BY <3>1, <3>2, EventsStep DEF Events
  <2>4. \A x \in Coords : \A d, e \in Events(x, "publish")' : Stored(x)' /\ d = e
    BY <2>1, <2>3 DEF PublicationComplete
  <2>5. /\ \A x \in Coords : (docs'[x] # NoRow) <=> Stored(x)'
        /\ embeddings' = {x \in Coords : Stored(x)'}
    BY <2>1 DEF PublicationComplete
  <2>6. \A d \in contents' : \E x \in Coords : Stored(x)' /\ versions'[x].content = d
    BY <2>1 DEF PublicationComplete
  <2>7. \A s \in Slugs : skills'[s] # NoRow =>
          /\ \E x \in Coords : x[1] = s /\ Stored(x)'
          /\ (Founders(s) # {})'
    BY <1>2, <2>1 DEF PublicationComplete
  <2>8. QED
    BY <2>2, <2>4, <2>5, <2>6, <2>7 DEF PublicationComplete
<1>5. ASSUME PublishCommit(c)
      PROVE  PublicationComplete'
  <2> DEFINE r == req[c]
             x0 == Coord(r)
  <2>1. /\ RowsStay
        /\ r \in AnyRequest /\ r.kind = "publish" /\ pc[c] = "commit"
        /\ x0 \in Coords /\ x0[1] = r.slug /\ r.slug \in Slugs /\ ~Stored(x0)
        /\ versions'[x0] # NoRow /\ versions'[x0].content = r.digest
        /\ docs'[x0] # NoRow /\ skills'[r.slug] # NoRow
        /\ contents' = contents \cup {r.digest}
        /\ embeddings' = embeddings \cup {x0}
        /\ \A y \in Coords : y # x0 => versions'[y] = versions[y] /\ docs'[y] = docs[y]
        /\ \A s \in Slugs : s # r.slug => skills'[s] = skills[s]
        /\ ~sawSkill[c] => skills[r.slug] = NoRow
    BY <1>5, PublishWrite
  <2>2. Commits(c) /\ Allowed(c)' /\ req' = req
    BY <1>5, EventsStep DEF Commits
  <2>3. req'[c] = r /\ \A x : x = x0 => c \in Events(x, "publish")'
    BY <2>1, <2>2 DEF Events
  <2>4. ASSUME NEW x \in Coords, NEW d \in Events(x, "publish")'
        PROVE  d \in Events(x, "publish") \/ (d = c /\ x = x0)
    BY <2>2, <2>4, EventsStep DEF Events
  <2> HIDE DEF x0
  <2>5. \A x \in Coords : Stored(x)' <=> Stored(x) \/ x = x0
    BY <2>1 DEF Stored
  <2>6. ASSUME NEW x \in Coords, Stored(x)'
        PROVE  /\ skills'[x[1]] # NoRow
               /\ versions'[x].content \in contents'
               /\ \E d \in Events(x, "publish")' : req'[d].digest = versions'[x].content
    <3>1. CASE x = x0
      BY <3>1, <2>1, <2>3
    <3>2. CASE x # x0
      <4>1. Stored(x) /\ x[1] \in Slugs
        BY <3>2, <2>5, <2>6 DEF Coords
      <4>2. PICK d \in Events(x, "publish") : req[d].digest = versions[x].content
        BY <4>1 DEF PublicationComplete
      <4>3. d \in Events(x, "publish")' /\ req'[d] = req[d]
        BY <4>2, <1>1, <1>3 DEF Events
      <4>4. QED
        BY <4>1, <4>2, <4>3, <3>2, <2>1 DEF PublicationComplete, RowsStay
    <3>3. QED
      BY <3>1, <3>2
  <2>7. ASSUME NEW x \in Coords, NEW d \in Events(x, "publish")', NEW e \in Events(x, "publish")'
        PROVE  Stored(x)' /\ d = e
    <3>1. CASE x = x0
      <4>1. Events(x, "publish") = {}
        BY <3>1, <2>1 DEF PublicationComplete
      <4>2. QED
        BY <3>1, <4>1, <2>4, <2>5, <2>7
    <3>2. CASE x # x0
      BY <3>2, <2>4, <2>5, <2>7 DEF PublicationComplete
    <3>3. QED
      BY <3>1, <3>2
  <2>8. \A x \in Coords : (docs'[x] # NoRow) <=> Stored(x)'
    BY <2>1, <2>5 DEF PublicationComplete
  <2>9. embeddings' = {x \in Coords : Stored(x)'}
    BY <2>1, <2>5 DEF PublicationComplete
  <2>10. \A d \in contents' : \E x \in Coords : Stored(x)' /\ versions'[x].content = d
    BY <2>1, <2>5 DEF PublicationComplete
  <2>11. ASSUME NEW s \in Slugs, skills'[s] # NoRow
         PROVE  /\ \E x \in Coords : x[1] = s /\ Stored(x)'
                /\ (Founders(s) # {})'
    <3>1. CASE skills[s] # NoRow
      BY <3>1, <1>2, <2>5 DEF PublicationComplete
    <3>2. CASE skills[s] = NoRow
      <4>1. s = r.slug
        BY <3>2, <2>1, <2>11
      <4>2. r.intent = "create_skill"
        <5>1. ~sawSkill[c] /\ (r.intent = "publish_version" => sawSkill[c])
          BY <3>2, <4>1, <2>1 DEF SessionInv, SessionOf, At
        <5>2. QED
          BY <5>1, <2>1, RequestShape
      <4>3. c \in Founders(s)'
        BY <4>1, <4>2, <2>1, <2>2 DEF Founders
      <4>4. QED
        BY <4>1, <4>3, <2>1, <2>5
    <3>3. QED
      BY <3>1, <3>2
  <2>12. QED
    BY <2>6, <2>7, <2>8, <2>9, <2>10, <2>11 DEF PublicationComplete
<1>6. QED
  BY <1>4, <1>5

\* A call told "created" is the one that the audit trail credits with the version.
CreatedHonest ==
    \A c \in Calls : Created(c) =>
        /\ req[c].kind = "publish"
        /\ Stored(Coord(req[c]))
        /\ versions[Coord(req[c])].content = req[c].digest
        /\ \A d \in Calls : CreatedAs(d, Coord(req[c])) => d = c

LEMMA CreatedIsStored == SessionInv /\ TrailInv /\ PublicationComplete => CreatedHonest
<1> SUFFICES ASSUME SessionInv, TrailInv, PublicationComplete, NEW c \in Calls, Created(c)
             PROVE  /\ req[c].kind = "publish"
                    /\ Stored(Coord(req[c]))
                    /\ versions[Coord(req[c])].content = req[c].digest
                    /\ \A d \in Calls : CreatedAs(d, Coord(req[c])) => d = c
  BY DEF CreatedHonest
<1> DEFINE x == Coord(req[c])
<1>1. \A d \in Calls : Created(d) => Allowed(d) /\ req[d].kind = "publish"
  BY DEF TrailInv, TrailOf, Created
<1>2. x \in Coords
  BY <1>1, RequestShape DEF SessionInv, SessionOf, Created
<1>3. c \in Events(x, "publish")
  BY <1>1 DEF Events
<1>4. Stored(x) /\ \A d \in Events(x, "publish") : d = c
  BY <1>2, <1>3 DEF PublicationComplete
<1>5. versions[x].content = req[c].digest
  BY <1>2, <1>4 DEF PublicationComplete
<1>6. \A d \in Calls : CreatedAs(d, x) => d \in Events(x, "publish")
  BY <1>1 DEF CreatedAs, Events
<1>7. QED
  BY <1>1, <1>4, <1>5, <1>6

LEMMA AnswersStep ==
    ASSUME TypeOK, SessionInv, TrailInv, AnswersHonest, NEW c \in Calls, Step(c),
           SessionInv', TrailInv', PublicationComplete'
    PROVE  AnswersHonest'
<1>1. RowsStay
  BY RowsStayStep DEF Next, Step
<1>2. CreatedHonest'
  BY CreatedIsStored, PTL
<1>3. ASSUME NEW d \in Calls, result'[d] \in {"duplicate_version", "skill_exists"}
      PROVE  /\ req'[d].kind = "publish"
             /\ result'[d] = "duplicate_version" => Stored(Coord(req[d]))'
             /\ result'[d] = "skill_exists" => skills'[req'[d].slug] # NoRow
  <2>1. /\ req'[d] = req[d] /\ req[d].kind = "publish"
        /\ pc[d] # "idle"
        /\ result'[d] = "duplicate_version" => Stored(Coord(req[d]))
        /\ result'[d] = "skill_exists" => skills[req[d].slug] # NoRow
    <3>1. CASE d # c
      BY <3>1, <1>3, OthersKept DEF AnswersHonest, SessionInv, SessionOf
    <3>2. CASE d = c
      <4>1. pc[c] # "idle"
        BY <3>2, <1>3, StepShape DEF Works, SessionInv, SessionOf, Answer, Deny
      <4>2. QED
        BY <4>1, <3>2, <1>3, Conflicts, StepShape
    <3>3. QED
      BY <3>1, <3>2
  <2>2. req[d].slug \in Slugs /\ Coord(req[d]) \in Coords /\ Coord(req[d])' = Coord(req[d])
    BY <2>1, ActiveRequest, RequestShape DEF Coord
  <2>3. QED
    BY <1>1, <2>1, <2>2 DEF RowsStay, Stored
<1>4. QED
  BY <1>2, <1>3 DEF AnswersHonest, CreatedHonest, Created

LEMMA Invariance == IInv /\ [Next]_vars => IInv'
<1> SUFFICES ASSUME IInv, [Next]_vars
             PROVE  IInv'
  OBVIOUS
<1>1. TypeOK' /\ SessionInv'
  BY TypeStep, SessionStep DEF IInv
<1>2. ASSUME NEW c \in Calls, Step(c)
      PROVE  TrailInv' /\ PublicationComplete' /\ AnswersHonest'
  BY <1>1, <1>2, TrailStep, PublicationStep, AnswersStep DEF IInv
<1>3. ASSUME UNCHANGED vars
      PROVE  TrailInv' /\ PublicationComplete' /\ AnswersHonest'
  <2>1. UNCHANGED <<skills, versions, contents, docs, embeddings, req, result, pc, audit>>
    BY <1>3 DEF vars, tables, auditTable
  <2>2. PublicationComplete'
    BY <2>1 DEF IInv, PublicationComplete, Stored, Events, Allowed, Founders, Coord
  <2>3. AnswersHonest'
    BY <2>1 DEF IInv, AnswersHonest, Stored, Created, CreatedAs, Coord
  <2>4. TrailInv'
    BY <2>1 DEF IInv, TrailInv, TrailOf, Allowed
  <2>5. QED
    BY <2>2, <2>3, <2>4
<1>4. QED
  BY <1>1, <1>2, <1>3 DEF IInv, Next, Step

LEMMA Inductive == Spec => []IInv
<1>1. Init => IInv
  BY TypeInit, PublicationInit DEF IInv
<1>2. QED
  BY <1>1, Invariance, PTL DEF Spec

\* TypeCorrect.  Whatever calls are made and however their transactions interleave or
\* fail, every table and every session holds rows of its type.
THEOREM TypeCorrect == Spec => []TypeOK
BY Inductive, PTL DEF IInv

\* Publication.  No interleaving and no failure of any number of calls, before a commit
\* or after it, leaves a partial publication, credits two calls with one version, or
\* binds a coordinate to an artifact its credited publisher did not send
\* (create_version and its unique constraints).
THEOREM Publication == Spec => [](PublicationComplete /\ AnswersHonest)
BY Inductive, PTL DEF IInv

\* Every publisher is told what became of the version it sent (publish_version and the
\* conflicts of create_version), however calls interleave.
THEOREM Honest == Spec => []AnswersHonest
BY Publication, PTL

-----------------------------------------------------------------------------
(* Refinement of the immutable registry *)

LEMMA RegistryInit == Init => Registry!RInit
BY DEF Init, Registry!RInit, Stored, Created, Allowed

LEMMA RegistryStep == IInv /\ [Next]_vars => [Registry!RNext]_(Registry!rvars)
<1> SUFFICES ASSUME IInv, [Next]_vars
             PROVE  [Registry!RNext]_(Registry!rvars)
  OBVIOUS
<1> DEFINE Credited(d) == Allowed(d) /\ req[d].kind = "publish"
           artifact == [x \in Coords |-> IF Stored(x) THEN versions[x].content ELSE NoRow]
           credit == [d \in Calls |-> IF Credited(d) THEN Coord(req[d]) ELSE NoRow]
           told == {d \in Calls : Created(d)}
<1>1. ASSUME NEW c \in Calls, Step(c), ~PublishCommit(c)
      PROVE  artifact' = artifact /\ credit' = credit
  <2>1. \A x \in Coords :
          (Stored(x)' <=> Stored(x)) /\ (Stored(x) => versions'[x].content = versions[x].content)
    BY <1>1, SameKeys DEF IInv
  <2>2. \A d \in Calls : (Credited(d)' <=> Credited(d)) /\ (Credited(d) => req'[d] = req[d])
    <3>1. Commits(c) => req' = req /\ req[c].kind # "publish"
      BY <1>1, EventsStep DEF IInv, Commits, StatusCommit, GovernanceCommit, OwnershipCommit, At
    <3>2. QED
      BY <1>1, <3>1, EventsStep DEF IInv
  <2>3. QED
    BY <2>1, <2>2 DEF Coord
<1>2. ASSUME NEW c \in Calls, Step(c)
      PROVE  \A d \in Calls : d # c => (Created(d)' <=> Created(d))
  BY <1>2, OthersKept DEF IInv, Created
<1>3. ASSUME NEW c \in Calls, Step(c)
      PROVE  ~Created(c) /\ (Created(c)' => Credited(c) /\ ~PublishCommit(c))
  <2>1. ~Created(c)
    BY <1>3, StepShape DEF IInv, SessionInv, SessionOf, Created
  <2>2. Created(c)' => Answer(c) /\ req[c].kind = "publish" /\ pc[c] = "answer"
    BY <1>3, <2>1, StepShape
       DEF IInv, Created, Works, Gives, Refused, Answer, Deny, Settle, Goto, Finish, TypeOK
  <2>3. QED
    BY <1>3, <2>1, <2>2 DEF IInv, TrailInv, TrailOf, PublishCommit, At
<1>4. ASSUME NEW c \in Calls, Step(c), PublishCommit(c)
      PROVE  Registry!RNext
  <2> DEFINE x0 == Coord(req[c])
             d0 == req[c].digest
  <2>1. /\ x0 \in Coords /\ d0 \in Digests /\ ~Stored(x0) /\ req[c].kind = "publish"
        /\ versions'[x0] # NoRow /\ versions'[x0].content = d0
        /\ \A y \in Coords : y # x0 => versions'[y] = versions[y]
    BY <1>4, PublishWrite, RequestShape DEF IInv
  <2>2. /\ Credited(c)' /\ req' = req /\ pc[c] = "commit"
        /\ \A d \in Calls : d # c => (Credited(d)' <=> Credited(d))
    BY <1>4, <2>1, EventsStep DEF IInv, Commits, PublishCommit, At
  <2>3. ~Allowed(c)
    BY <2>2 DEF IInv, TrailInv, TrailOf, Allowed
  <2>4. credit[c] = NoRow /\ artifact[x0] = NoRow
    BY <2>1, <2>3
  <2>5. artifact' = [artifact EXCEPT ![x0] = d0]
    BY <2>1 DEF Stored
  <2>6. credit' = [credit EXCEPT ![c] = x0]
    BY <2>2 DEF Coord
  <2>7. told' = told
    BY <1>2, <1>3, <1>4
  <2>8. PICK x \in Coords, d \in Digests : x = x0 /\ d = d0
    BY <2>1
  <2>9. Registry!Bind(c, x, d)
    BY <2>4, <2>5, <2>6, <2>7, <2>8 DEF Registry!Bind
  <2>10. QED
    BY <2>9 DEF Registry!RNext
<1>5. ASSUME NEW c \in Calls, Step(c), Created(c)'
      PROVE  Registry!RNext
  <2>1. ~Created(c) /\ Credited(c) /\ ~PublishCommit(c)
    BY <1>3, <1>5
  <2>2. Coord(req[c]) # NoRow
    BY <2>1, RequestShape, CatalogAssumption
       DEF IInv, SessionInv, SessionOf, TrailInv, TrailOf, Allowed, Coord
  <2>3. credit[c] # NoRow /\ c \notin told /\ told' = told \cup {c}
    BY <1>2, <1>5, <2>1, <2>2
  <2>4. artifact' = artifact /\ credit' = credit
    BY <1>1, <1>5, <2>1
  <2>5. Registry!Tell(c)
    BY <2>3, <2>4 DEF Registry!Tell
  <2>6. QED
    BY <2>5 DEF Registry!RNext
<1>6. ASSUME NEW c \in Calls, Step(c), ~PublishCommit(c), ~Created(c)'
      PROVE  UNCHANGED Registry!rvars
  <2>1. told' = told
    BY <1>2, <1>3, <1>6
  <2>2. QED
    BY <2>1, <1>1, <1>6 DEF Registry!rvars
<1>7. CASE UNCHANGED vars
  BY <1>7 DEF vars, tables, auditTable, Registry!rvars, Stored, Created, Allowed, Coord
<1>8. QED
  BY <1>4, <1>5, <1>6, <1>7 DEF Next, Step

\* Refinement.  The transactions of the registry implement the immutable registry:
\* each coordinate is bound once, to the digest its one credited publisher sent, and
\* nobody else is told that it published there.
THEOREM Refinement == Spec => RegistryImplemented
BY Inductive, RegistryInit, RegistryStep, PTL DEF Spec, RegistryImplemented, Registry!RSpec

-----------------------------------------------------------------------------
(* Writes without an overlap *)

\* A call comes to its answer only by the commit of its kind.
LEMMA CommitsBy ==
    ASSUME TypeOK, SessionInv, NEW c \in Calls, Step(c), CommitsNow(c)
    PROVE  /\ req[c].kind = "status" => StatusCommit(c)
           /\ req[c].kind = "governance" => GovernanceCommit(c)
<1>1. Commits(c)
  BY StepShape DEF CommitsNow, Works, Gives, Finish, Answer, Deny, Settle, Goto, TypeOK
<1>2. QED
  BY <1>1 DEF Commits, PublishCommit, StatusCommit, GovernanceCommit, OwnershipCommit, At

LEMMA CleanWrites == IInv /\ [Next]_vars => [CleanStep]_vars
<1> SUFFICES ASSUME IInv, NEW c \in Calls, Step(c)
             PROVE  CleanStep
  BY DEF Next, Step
<1>1. SUFFICES ASSUME NEW d \in Calls, CommitsNow(d)
               PROVE  LET x == Coord(req[d])
                      IN  /\ req[d].kind = "status"
                             /\ loaded[d].status = versions[x].status
                             => docs'[x].status = versions'[x].status
                          /\ req[d].kind = "governance"
                             /\ loaded[d].gov = versions[x].gov /\ loadedDoc[d].gov = docs[x].gov
                             => docs'[x].gov = versions'[x].gov
  BY DEF CleanStep
<1>2. d = c
  BY <1>1, OthersKept DEF CommitsNow, IInv
<1> DEFINE x == Coord(req[c])
<1>3. ASSUME req[c].kind = "status", loaded[c].status = versions[x].status
      PROVE  docs'[x].status = versions'[x].status
  <2>1. StatusCommit(c)
    BY <1>1, <1>2, <1>3, CommitsBy DEF IInv
  <2>2. /\ x \in Coords /\ versions[x] \in VersionRow /\ docs[x] \in DocRow
        /\ req[c].status \in Statuses
    BY <2>1, ActiveRequest, RequestShape
       DEF StatusCommit, At, IInv, SessionInv, SessionOf, TypeOK, PublicationComplete, Stored
  <2>3. /\ [versions[x] EXCEPT !.status = req[c].status].status = req[c].status
        /\ [docs[x] EXCEPT !.status = req[c].status].status = req[c].status
    BY <2>2 DEF VersionRow, DocRow
  <2>4. QED
    BY <2>1, <2>2, <2>3, <1>3, RowShape DEF StatusCommit, IInv, TypeOK
<1>4. ASSUME req[c].kind = "governance", loaded[c].gov = versions[x].gov,
             loadedDoc[c].gov = docs[x].gov
      PROVE  docs'[x].gov = versions'[x].gov
  <2>1. GovernanceCommit(c)
    BY <1>1, <1>2, <1>4, CommitsBy DEF IInv
  <2>2. /\ x \in Coords /\ versions[x] \in VersionRow /\ docs[x] \in DocRow
        /\ loadedDoc[c] \in DocRow \cup {NoRow}
    BY <2>1, ActiveRequest, RequestShape
       DEF GovernanceCommit, At, IInv, SessionInv, SessionOf, TypeOK, PublicationComplete, Stored
  <2>3. Flushed(c) = Edited(c)
    BY <1>4 DEF Flushed, Edited, Sent
  <2>4. Synced(c) = Edited(c)
    BY <1>4, <2>2 DEF Synced, Edited, DocRow, Gov
  <2>5. loadedDoc[c] # NoRow
    BY <2>1 DEF GovernanceCommit, At, IInv, SessionInv, SessionOf
  <2>6. /\ [versions[x] EXCEPT !.gov = Flushed(c)].gov = Flushed(c)
        /\ [docs[x] EXCEPT !.gov = Synced(c)].gov = Synced(c)
    BY <2>2 DEF VersionRow, DocRow
  <2>7. QED
    BY <2>1, <2>2, <2>3, <2>4, <2>5, <2>6, RowShape DEF GovernanceCommit, IInv, TypeOK
<1>5. QED
  BY <1>2, <1>3, <1>4

\* CleanWritesMirror.  A status or governance change that no other change overtook
\* between its load and its commit leaves row and search document in agreement.
THEOREM CleanWritesMirror == Spec => CleanWriteMirrors
BY CleanWrites, Inductive, PTL DEF Spec, CleanWriteMirrors

-----------------------------------------------------------------------------
(* The audit trail *)

\* An audit row's id was given before, and to no other row.
AuditIds ==
    /\ \A c \in Calls : audit[c] # NoRow => audit[c].id < auditId
    /\ \A c, d \in Calls :
         audit[c] # NoRow /\ audit[d] # NoRow /\ audit[c].id = audit[d].id => c = d

LEMMA AuditIdsStep ==
    ASSUME TypeOK, SessionInv, AuditIds, [Next]_vars
    PROVE  AuditIds'
<1>1. auditId \in Nat /\ \A d \in Calls : audit[d] # NoRow => audit[d].id \in Nat
  BY DEF TypeOK, AuditRow
<1>2. CASE UNCHANGED auditTable
  BY <1>2 DEF auditTable, AuditIds
<1>3. ASSUME NEW c \in Calls, NEW allowed \in BOOLEAN, NEW prev \in VersionRow \cup {NoRow},
             Record(c, allowed, prev)
      PROVE  AuditIds'
  <2>1. /\ audit'[c].id = auditId /\ auditId' = auditId + 1
        /\ \A d \in Calls \ {c} : audit'[d] = audit[d]
    BY <1>3, RecordedRow DEF Record
  <2>2. QED
    BY <1>1, <2>1 DEF AuditIds
<1>4. ASSUME NEW c \in Calls, Step(c)
      PROVE  AuditIds'
  BY <1>2, <1>3, <1>4, StepShape DEF Works, Gives, Answer, Deny
<1>5. QED
  BY <1>2, <1>4 DEF Next, Step, vars

\* AuditTrail.  Whatever overlaps and whatever fails, before a commit or after it, an
\* answered change and a denial have their own audit row, and who left a row is
\* answered what it says or has failed since.
THEOREM AuditTrail == Spec => []AuditMatchesAnswers
<1>1. Init => AuditIds
  BY DEF Init, AuditIds
<1>2. IInv /\ AuditIds => AuditMatchesAnswers
  <2> SUFFICES ASSUME IInv, AuditIds, NEW c \in Calls
               PROVE  /\ result[c] \in {"created", "updated"} => Allowed(c)
                      /\ result[c] = "denied" => audit[c] # NoRow
                      /\ audit[c] # NoRow =>
                           IF pc[c] = "done"
                           THEN result[c] \in Outcomes(c) \cup {"failed"}
                           ELSE pc[c] = IF audit[c].allowed THEN "answer" ELSE "deny"
    BY DEF AuditMatchesAnswers, AuditIds
  <2>1. TrailOf(c) /\ result[c] \in Results /\ pc[c] \in Phases
    BY DEF IInv, TrailInv, TypeOK
  <2>2. QED
    BY <2>1 DEF TrailOf, Allowed, Outcomes, Results, Phases
<1>3. IInv => TypeOK /\ SessionInv
  BY DEF IInv
<1> QED
  BY <1>1, <1>2, <1>3, AuditIdsStep, Inductive, PTL DEF Spec

=============================================================================

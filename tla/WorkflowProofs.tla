---------------------------- MODULE WorkflowProofs ----------------------------
(***************************************************************************)
(* Theorems about the lifecycle, the governance columns and the audit      *)
(* trail, for every set of calls, requests and catalogue keys.             *)
(*                                                                         *)
(* Some hold however calls overlap: what the search document says of a     *)
(* version's status, and who can reopen an archived version.  The others   *)
(* need that the calls in flight are about different skills, the weakest   *)
(* condition under which what a session loaded is still what the tables    *)
(* hold when it writes; the service, which takes no lock before its first  *)
(* UPDATE, does not enforce it.                                            *)
(***************************************************************************)
EXTENDS CatalogProofs

\* The calls that were checked and have sent no UPDATE yet.
Writing(c, kind) == At(c, kind, "load") \/ At(c, kind, "commit")

-----------------------------------------------------------------------------
(* What each commit does to the columns of the rows *)

LEMMA StatusCommitRows ==
    ASSUME IInv, NEW c \in Calls, StatusCommit(c)
    PROVE  LET r == req[c]
               x == Coord(r)
           IN  /\ r \in AnyRequest /\ x \in Coords /\ x[1] = r.slug /\ r.slug \in Slugs
               /\ Stored(x) /\ skills' = skills
               /\ versions'[x].status =
                    IF loaded[c].status = r.status THEN versions[x].status ELSE r.status
               /\ versions'[x].gov = versions[x].gov
               /\ docs'[x].status = r.status
               /\ docs'[x].gov = docs[x].gov /\ docs'[x].namespace = docs[x].namespace
               /\ \A y \in Coords : y # x =>
                    versions'[y] = versions[y] /\ docs'[y] = docs[y]
<1> DEFINE r == req[c]
           x == Coord(r)
<1>1. /\ r \in AnyRequest /\ x \in Coords /\ r.slug \in Slugs /\ r.status \in Statuses
      /\ versions[x] \in VersionRow
  BY ActiveRequest, RequestShape DEF StatusCommit, At, IInv, SessionInv, SessionOf, TypeOK
<1>2. Stored(x) /\ docs[x] \in DocRow /\ docs[x] # NoRow
  BY <1>1, RowShape DEF IInv, PublicationComplete, Stored, TypeOK
<1>3. /\ [versions[x] EXCEPT !.status = r.status].status = r.status
      /\ [versions[x] EXCEPT !.status = r.status].gov = versions[x].gov
      /\ [docs[x] EXCEPT !.status = r.status].status = r.status
      /\ [docs[x] EXCEPT !.status = r.status].gov = docs[x].gov
      /\ [docs[x] EXCEPT !.status = r.status].namespace = docs[x].namespace
  BY <1>1, <1>2 DEF VersionRow, DocRow
<1>4. versions \in [Coords -> VersionRow \cup {NoRow}] /\ docs \in [Coords -> DocRow \cup {NoRow}]
  BY DEF IInv, TypeOK
<1>5. /\ versions' = IF loaded[c].status = r.status
                     THEN versions
                     ELSE [versions EXCEPT ![x] = [@ EXCEPT !.status = r.status]]
      /\ docs' = [docs EXCEPT ![x] = [@ EXCEPT !.status = r.status]]
      /\ skills' = skills
  BY <1>2 DEF StatusCommit
<1>6. x[1] = r.slug
  BY DEF Coord
<1> QED
  BY <1>1, <1>2, <1>3, <1>4, <1>5, <1>6

LEMMA GovernanceCommitRows ==
    ASSUME IInv, NEW c \in Calls, GovernanceCommit(c)
    PROVE  LET r == req[c]
               x == Coord(r)
           IN  /\ r \in AnyRequest /\ x \in Coords /\ x[1] = r.slug /\ r.slug \in Slugs
               /\ Stored(x) /\ skills' = skills
               /\ versions'[x].status = versions[x].status
               /\ versions'[x].gov = Flushed(c)
               /\ docs'[x].gov = Synced(c)
               /\ docs'[x].status = docs[x].status /\ docs'[x].namespace = docs[x].namespace
               /\ \A y \in Coords : y # x =>
                    versions'[y] = versions[y] /\ docs'[y] = docs[y]
<1> DEFINE r == req[c]
           x == Coord(r)
<1>1. /\ r \in AnyRequest /\ x \in Coords /\ r.slug \in Slugs /\ versions[x] \in VersionRow
  BY ActiveRequest, RequestShape DEF GovernanceCommit, At, IInv, SessionInv, SessionOf, TypeOK
<1>2. Stored(x) /\ docs[x] \in DocRow /\ docs[x] # NoRow
  BY <1>1, RowShape DEF IInv, PublicationComplete, Stored, TypeOK
<1>7. loadedDoc[c] # NoRow
  BY DEF GovernanceCommit, At, IInv, SessionInv, SessionOf
<1>3. /\ [versions[x] EXCEPT !.gov = Flushed(c)].gov = Flushed(c)
      /\ [versions[x] EXCEPT !.gov = Flushed(c)].status = versions[x].status
      /\ [docs[x] EXCEPT !.gov = Synced(c)].gov = Synced(c)
      /\ [docs[x] EXCEPT !.gov = Synced(c)].status = docs[x].status
      /\ [docs[x] EXCEPT !.gov = Synced(c)].namespace = docs[x].namespace
  BY <1>1, <1>2 DEF VersionRow, DocRow
<1>4. versions \in [Coords -> VersionRow \cup {NoRow}] /\ docs \in [Coords -> DocRow \cup {NoRow}]
  BY DEF IInv, TypeOK
<1>5. /\ versions' = [versions EXCEPT ![x] = [@ EXCEPT !.gov = Flushed(c)]]
      /\ docs' = [docs EXCEPT ![x] = [@ EXCEPT !.gov = Synced(c)]]
      /\ skills' = skills
  BY <1>7 DEF GovernanceCommit
<1>6. x[1] = r.slug
  BY DEF Coord
<1> QED
  BY <1>1, <1>2, <1>3, <1>4, <1>5, <1>6

LEMMA OwnershipCommitRows ==
    ASSUME IInv, NEW c \in Calls, OwnershipCommit(c)
    PROVE  LET r == req[c]
           IN  /\ r \in AnyRequest /\ r.slug \in Slugs /\ versions' = versions
               /\ skills' = IF loadedNs[c] = r.namespace
                            THEN skills ELSE [skills EXCEPT ![r.slug] = r.namespace]
               /\ \A y \in Coords : Stored(y) =>
                    /\ docs'[y].status = docs[y].status /\ docs'[y].gov = docs[y].gov
                    /\ docs'[y].namespace =
                         IF y[1] = r.slug THEN r.namespace ELSE docs[y].namespace
<1> DEFINE r == req[c]
<1>1. r \in AnyRequest /\ r.slug \in Slugs
  BY ActiveRequest, RequestShape DEF OwnershipCommit, At, IInv
<1>2. ASSUME NEW y \in Coords, Stored(y)
      PROVE  /\ docs'[y].status = docs[y].status /\ docs'[y].gov = docs[y].gov
             /\ docs'[y].namespace =
                  IF y[1] = r.slug THEN r.namespace ELSE docs[y].namespace
  <2>1. docs[y] \in DocRow /\ docs[y] # NoRow
    BY <1>2, RowShape DEF IInv, PublicationComplete, TypeOK
  <2>2. docs'[y] = IF y[1] = r.slug
                   THEN [docs[y] EXCEPT !.namespace = r.namespace] ELSE docs[y]
    BY <2>1 DEF OwnershipCommit
  <2> QED
    BY <2>1, <2>2 DEF DocRow
<1> QED
  BY <1>1, <1>2 DEF OwnershipCommit

LEMMA PublishCommitRows ==
    ASSUME IInv, NEW c \in Calls, PublishCommit(c)
    PROVE  LET r == req[c]
               x == Coord(r)
           IN  /\ r \in AnyRequest /\ x \in Coords /\ x[1] = r.slug /\ r.slug \in Slugs
               /\ ~Stored(x) /\ Stored(x)'
               /\ skills' = IF sawSkill[c] THEN skills ELSE [skills EXCEPT ![r.slug] = r.namespace]
               /\ ~sawSkill[c] => skills[r.slug] = NoRow
               /\ versions'[x].status = "published" /\ versions'[x].gov = r.gov
               /\ docs'[x] = [namespace |-> r.namespace, status |-> "published", gov |-> r.gov]
               /\ \A y \in Coords : y # x =>
                    versions'[y] = versions[y] /\ docs'[y] = docs[y]
<1> DEFINE r == req[c]
           x == Coord(r)
<1>1. /\ r \in AnyRequest /\ x \in Coords /\ x[1] = r.slug /\ r.slug \in Slugs
      /\ ~Stored(x) /\ versions'[x] # NoRow
      /\ \A y \in Coords : y # x => versions'[y] = versions[y] /\ docs'[y] = docs[y]
      /\ ~sawSkill[c] => skills[r.slug] = NoRow
  BY PublishWrite DEF IInv
<1>2. /\ versions'[x] = [content |-> r.digest, status |-> "published", gov |-> r.gov]
      /\ docs'[x] = [namespace |-> r.namespace, status |-> "published", gov |-> r.gov]
      /\ skills' = IF sawSkill[c] THEN skills ELSE [skills EXCEPT ![r.slug] = r.namespace]
  BY <1>1 DEF PublishCommit, IInv, TypeOK
<1>3. Stored(x)'
  BY <1>1 DEF Stored, Coord, PublishCommit, Settle, Goto
<1> QED
  BY <1>1, <1>2, <1>3

-----------------------------------------------------------------------------
(* What a step does to the sessions and the audit rows of the calls *)

\* What another call read is not touched.
LEMMA OthersRead ==
    ASSUME TypeOK, NEW c \in Calls, Step(c), NEW d \in Calls, d # c
    PROVE  checked'[d] = checked[d] /\ loadedNs'[d] = loadedNs[d]
<1> USE DEF TypeOK, Finish, Goto, Forget, Settle, session
<1>1. CASE Begin(c) \/ Abort(c) \/ Answer(c) \/ Deny(c)
  BY <1>1 DEF Begin, Abort, Answer, Deny
<1>2. CASE Publish(c)
  <2>1. CASE PublishDenied(c) \/ PublishPrepare(c) \/ PublishIntent(c)
    BY <2>1 DEF PublishDenied, PublishPrepare, PublishIntent
  <2>2. CASE PublishVersionExists(c) \/ PublishLoad(c)
    BY <2>2 DEF PublishVersionExists, PublishLoad
  <2>3. CASE PublishConflict(c) \/ PublishCommit(c)
    BY <2>3 DEF PublishConflict, PublishCommit
  <2> QED
    BY <1>2, <2>1, <2>2, <2>3 DEF Publish
<1>3. CASE ChangeStatus(c)
  BY <1>3 DEF ChangeStatus, VersionMissing, StatusDenied, StatusCheck, VersionLoad, StatusCommit
<1>4. CASE ChangeGovernance(c)
  BY <1>4 DEF ChangeGovernance, VersionMissing, GovernanceDenied, GovernanceCheck,
              VersionLoad, GovernanceFlush, GovernanceCommit
<1>5. CASE ChangeOwnership(c)
  BY <1>5 DEF ChangeOwnership, OwnershipRefused, OwnershipLoad, OwnershipCommit
<1> QED
  BY <1>1, <1>2, <1>3, <1>4, <1>5 DEF Step

\* A commit leaves an allowed row under the highest id so far.
LEMMA CommittedRow ==
    ASSUME IInv, NEW c \in Calls, Commits(c)
    PROVE  audit'[c].id = auditId /\ req' = req
<1>1. checked[c] \in VersionRow \cup {NoRow}
  BY DEF IInv, TypeOK
<1>2. \E prev \in VersionRow \cup {NoRow} : Record(c, TRUE, prev)
  BY <1>1 DEF Commits, PublishCommit, StatusCommit, GovernanceCommit, OwnershipCommit
<1>3. req' = req
  BY DEF Commits, PublishCommit, StatusCommit, GovernanceCommit, OwnershipCommit, Settle, Goto
<1> QED
  BY <1>2, <1>3, RecordedRow DEF IInv

\* How a step changes the events about a version: the committing call joins them.
LEMMA EventsOfStep ==
    ASSUME IInv, AuditIds, NEW c \in Calls, Step(c)
    PROVE  \A x \in Coords, kind \in {"publish", "status", "governance"} :
             /\ \A d \in Events(x, kind) :
                  req'[d] = req[d] /\ audit'[d] = audit[d] /\ audit[d].id < auditId
             /\ \A d \in Events(x, kind) : audit[d].id \in Nat
             /\ IF Commits(c) /\ req[c].kind = kind /\ Coord(req[c]) = x
                THEN Events(x, kind)' = Events(x, kind) \cup {c}
                ELSE Events(x, kind)' = Events(x, kind)
             /\ Commits(c) => audit'[c].id = auditId /\ req'[c] = req[c] /\ auditId \in Nat
<1>1. Commits(c) => audit'[c].id = auditId /\ req' = req
  BY CommittedRow
<1>2. \A d \in Calls :
        /\ Allowed(d) => Allowed(d)' /\ req'[d] = req[d]
        /\ Allowed(d)' => Allowed(d) \/ (d = c /\ Commits(c))
        /\ Commits(c) => Allowed(c)'
  BY EventsStep DEF IInv
<1>3. \A d \in Calls : Allowed(d) => audit'[d] = audit[d]
  <2>1. \A d \in Calls : d # c => audit'[d] = audit[d]
    BY OthersKept DEF IInv
  <2>2. Allowed(c) => pc[c] = "answer"
    BY EventsStep DEF IInv
  <2>3. pc[c] = "answer" => audit' = audit
    BY StepShape DEF IInv, Works, Working, Gives, Answer, Deny, auditTable
  <2> QED
    BY <2>1, <2>2, <2>3
<1>4. \A d \in Calls : Allowed(d) => audit[d].id < auditId /\ audit[d].id \in Nat
  BY DEF AuditIds, IInv, TypeOK, AuditRow, Allowed
<1>5. auditId \in Nat
  BY DEF IInv, TypeOK
<1> SUFFICES ASSUME NEW x \in Coords, NEW kind \in {"publish", "status", "governance"}
             PROVE  IF Commits(c) /\ req[c].kind = kind /\ Coord(req[c]) = x
                    THEN Events(x, kind)' = Events(x, kind) \cup {c}
                    ELSE Events(x, kind)' = Events(x, kind)
  BY <1>1, <1>2, <1>3, <1>4, <1>5 DEF Events
<1>6. \A d \in Calls : Allowed(d)' /\ d # c => (d \in Events(x, kind)' <=> d \in Events(x, kind))
  BY <1>2 DEF Events, Coord
<1>7. CASE Commits(c)
  <2>1. c \in Events(x, kind)' <=> req[c].kind = kind /\ Coord(req[c]) = x
    BY <1>1, <1>2, <1>7 DEF Events, Coord
  <2>2. \A d \in Events(x, kind) : Allowed(d)'
    BY <1>2 DEF Events
  <2>3. ~Allowed(c)
    BY <1>7, EventsStep DEF IInv, Commits, PublishCommit, StatusCommit, GovernanceCommit,
                            OwnershipCommit, At
  <2> QED
    BY <1>6, <1>7, <2>1, <2>2, <2>3 DEF Events
<1>8. CASE ~Commits(c)
  <2>1. \A d \in Calls : Allowed(d)' <=> Allowed(d)
    BY <1>2, <1>8
  <2>2. \A d \in Calls : Allowed(d) => req'[d] = req[d]
    BY <1>2
  <2> QED
    BY <1>8, <2>1, <2>2 DEF Events, Coord
<1> QED
  BY <1>7, <1>8

-----------------------------------------------------------------------------
(* Whatever overlaps: what the search document says, and who reopens *)

\* The event that a commit adds is the last one of its version and kind.
LEMMA CommitIsLast ==
    ASSUME IInv, AuditIds, NEW c \in Calls, Step(c), Commits(c),
           NEW x \in Coords, NEW kind \in {"publish", "status", "governance"}, NEW S,
           S \subseteq Events(x, kind)
    PROVE  \A d \in S \cup {c} : audit'[d].id <= audit'[c].id
BY EventsOfStep

\* A set of events that no call joins keeps its last event.
LEMMA LastKept ==
    ASSUME IInv, AuditIds, NEW c \in Calls, Step(c),
           NEW x \in Coords, NEW kind \in {"publish", "status", "governance"}, NEW S,
           S \subseteq Events(x, kind), NEW d \in S, IsLast(d, S)
    PROVE  \A e \in S : audit'[e].id <= audit'[d].id
BY EventsOfStep DEF IsLast

\* What the audit table and the documents have to do with each other: only stored
\* versions have status events, and the last of them says what the document shows.
ReplayInv ==
    \A x \in Coords :
        /\ Events(x, "status") # {} => Stored(x)
        /\ Stored(x) => ReplayedStatus(x, docs[x].status)

LEMMA ReplayedStatusKept ==
    ASSUME IInv, AuditIds, NEW c \in Calls, Step(c), NEW x \in Coords, NEW status,
           Events(x, "status")' = Events(x, "status"), ReplayedStatus(x, status)
    PROVE  ReplayedStatus(x, status)'
<1> DEFINE S == Events(x, "status")
<1>1. CASE S = {}
  BY <1>1 DEF ReplayedStatus
<1>2. CASE S # {}
  <2>1. PICK d \in S : IsLast(d, S) /\ req[d].status = status
    BY <1>2 DEF ReplayedStatus
  <2>2. req'[d] = req[d] /\ \A e \in S : audit'[e].id <= audit'[d].id
    BY <2>1, LastKept, EventsOfStep
  <2>3. S' = S
    OBVIOUS
  <2> HIDE DEF S
  <2>4. d \in S' /\ IsLast(d, S)' /\ req'[d].status = status
    BY <2>1, <2>2, <2>3 DEF IsLast
  <2> QED
    BY <2>4 DEF ReplayedStatus, S
<1> QED
  BY <1>1, <1>2

LEMMA ReplayedStatusSet ==
    ASSUME IInv, AuditIds, NEW c \in Calls, Step(c), StatusCommit(c), NEW x \in Coords,
           Coord(req[c]) = x
    PROVE  ReplayedStatus(x, req[c].status)'
<1> DEFINE S == Events(x, "status")
<1>1. Commits(c) /\ req[c].kind = "status"
  BY DEF Commits, StatusCommit, At
<1>2. S' = S \cup {c} /\ req'[c] = req[c]
  BY <1>1, EventsOfStep
<1>3. \A d \in S \cup {c} : audit'[d].id <= audit'[c].id
  BY <1>1, CommitIsLast
<1> HIDE DEF S
<1>4. c \in S' /\ IsLast(c, S)' /\ S' # {}
  BY <1>2, <1>3 DEF IsLast
<1> QED
  BY <1>2, <1>4 DEF ReplayedStatus, S

LEMMA ReplayStep == IInv /\ AuditIds /\ ReplayInv /\ [Next]_vars => ReplayInv'
<1> SUFFICES ASSUME IInv, AuditIds, ReplayInv, [Next]_vars
             PROVE  ReplayInv'
  OBVIOUS
<1>1. CASE UNCHANGED vars
  BY <1>1 DEF vars, tables, auditTable, ReplayInv, ReplayedStatus, Events, Allowed,
              IsLast, Stored, Coord
<1>2. ASSUME NEW c \in Calls, Step(c), NEW x \in Coords
      PROVE  /\ Events(x, "status")' # {} => Stored(x)'
             /\ Stored(x)' => ReplayedStatus(x, docs[x].status)'
  <2> USE <1>2
  <2>1. /\ Events(x, "status") # {} => Stored(x)
        /\ Stored(x) => ReplayedStatus(x, docs[x].status) /\ Stored(x)'
    <3>1. RowsStay
      BY RowsStayStep DEF IInv, Next, Step
    <3> QED
      BY <3>1 DEF ReplayInv, RowsStay, Stored
  <2>2. CASE StatusCommit(c) /\ Coord(req[c]) = x
    <3>1. Stored(x) /\ docs'[x].status = req[c].status /\ req'[c] = req[c]
      BY <2>2, StatusCommitRows DEF StatusCommit, Settle, Goto
    <3>2. ReplayedStatus(x, req[c].status)'
      BY <2>2, ReplayedStatusSet
    <3> QED
      BY <2>1, <3>1, <3>2
  <2>3. CASE ~(StatusCommit(c) /\ Coord(req[c]) = x)
    <3>1. Events(x, "status")' = Events(x, "status")
      <4>1. Commits(c) /\ req[c].kind = "status" => StatusCommit(c)
        BY DEF Commits, PublishCommit, GovernanceCommit, OwnershipCommit, At
      <4> QED
        BY <2>3, <4>1, EventsOfStep
    <3>2. CASE Stored(x)
      <4>1. docs'[x].status = docs[x].status
        <5>1. CASE ~Commits(c)
          BY <5>1, OnlyCommitsWrite DEF tables
        <5>2. CASE StatusCommit(c)
          BY <2>3, <5>2, StatusCommitRows
        <5>3. CASE GovernanceCommit(c)
          BY <5>3, GovernanceCommitRows
        <5>4. CASE OwnershipCommit(c)
          BY <3>2, <5>4, OwnershipCommitRows
        <5>5. CASE PublishCommit(c)
          BY <3>2, <5>5, PublishCommitRows
        <5> QED
          BY <5>1, <5>2, <5>3, <5>4, <5>5 DEF Commits
      <4>2. \A status : ReplayedStatus(x, status) => ReplayedStatus(x, status)'
        BY <3>1, ReplayedStatusKept
      <4> QED
        BY <2>1, <3>2, <4>1, <4>2
    <3>3. CASE ~Stored(x) /\ Stored(x)'
      <4>1. PublishCommit(c) /\ Coord(req[c]) = x
        <5>1. PublishCommit(c)
          BY <3>3, SameKeys DEF IInv
        <5> QED
          BY <3>3, <5>1, PublishCommitRows DEF Stored
      <4>2. docs'[x].status = "published"
        <5>1. docs'[x] = [namespace |-> req[c].namespace, status |-> "published",
                          gov |-> req[c].gov]
          BY <4>1, PublishCommitRows
        <5> QED
          BY <5>1
      <4>3. Events(x, "status")' = {}
        BY <2>1, <3>1, <3>3
      <4> QED
        BY <3>3, <4>2, <4>3 DEF ReplayedStatus
    <3>4. CASE ~Stored(x) /\ ~Stored(x)'
      BY <2>1, <3>1, <3>4
    <3> QED
      BY <3>2, <3>3, <3>4
  <2> QED
    BY <2>2, <2>3
<1> QED
  BY <1>1, <1>2 DEF Next, Step, ReplayInv

LEMMA AuditInductive == Spec => []AuditIds
<1>1. Init => AuditIds
  BY DEF Init, AuditIds
<1>2. IInv => TypeOK /\ SessionInv
  BY DEF IInv
<1> QED
  BY <1>1, <1>2, AuditIdsStep, Inductive, PTL DEF Spec

\* SearchStatusIsAudited.  However many status changes overlap, the status that
\* discovery filters on is the one the last audited change of the version asked for,
\* or "published" when there was none.
THEOREM SearchStatusIsAudited == Spec => []SearchStatusReplaysAudit
<1>1. Init => ReplayInv
  BY DEF Init, ReplayInv, Events, Allowed, Stored
<1>2. ReplayInv => SearchStatusReplaysAudit
  BY DEF ReplayInv, SearchStatusReplaysAudit
<1> QED
  BY <1>1, <1>2, ReplayStep, Inductive, AuditInductive, PTL DEF Spec

\* The transition of a status change in flight was allowed from the row it checked.
CheckedInv ==
    \A c \in Calls : Writing(c, "status") =>
        checked[c] \in VersionRow /\ req[c].status \in LifecycleTransitions[checked[c].status]

LEMMA CheckedStep == IInv /\ CheckedInv /\ [Next]_vars => CheckedInv'
<1> SUFFICES ASSUME IInv, CheckedInv, [Next]_vars
             PROVE  CheckedInv'
  OBVIOUS
<1>1. CASE UNCHANGED vars
  BY <1>1 DEF vars, session, CheckedInv, Writing, At
<1>2. ASSUME NEW c \in Calls, Step(c), NEW d \in Calls, Writing(d, "status")'
      PROVE  checked'[d] \in VersionRow
             /\ req'[d].status \in LifecycleTransitions[checked'[d].status]
  <2> USE <1>2 DEF IInv
  <2>1. CASE d # c
    BY <2>1, OthersKept, OthersRead DEF CheckedInv, Writing, At
  <2>2. CASE d = c
    <3>1. (\A answer : ~Finish(c, answer)) /\ \A phase \in {"answer", "deny"} : ~Settle(c, phase)
      BY <2>2 DEF Finish, Settle, Goto, TypeOK, Writing, At
    <3>2. ~Begin(c)
      <4>1. ASSUME Begin(c) PROVE FALSE
        <5>1. PICK r \in Requests : req'[c] = r /\ pc'[c] = FirstPhase(r)
          BY <4>1 DEF Begin, TypeOK
        <5> QED
          BY <2>2, <5>1 DEF Writing, At, FirstPhase
      <4> QED
        BY <4>1
    <3>3. ~Abort(c) /\ ~Answer(c) /\ ~Deny(c)
      BY <3>1 DEF Abort, Answer, Deny
    <3>4. ~Publish(c) /\ ~ChangeGovernance(c) /\ ~ChangeOwnership(c)
      BY <2>2, <3>1 DEF Publish, PublishDenied, PublishPrepare, PublishIntent,
         PublishVersionExists, PublishLoad, PublishConflict, PublishCommit,
         ChangeGovernance, VersionMissing, GovernanceDenied, GovernanceCheck, VersionLoad,
         GovernanceFlush, GovernanceCommit, ChangeOwnership, OwnershipRefused, OwnershipLoad,
         OwnershipCommit, Goto, Writing, At
    <3>7. StatusCheck(c) \/ VersionLoad(c, "status")
      BY <3>1, <3>2, <3>3, <3>4
         DEF Step, ChangeStatus, VersionMissing, StatusDenied, StatusCommit
    <3>5. CASE StatusCheck(c)
      <4>1. Coord(req[c]) \in Coords
        BY <3>5, ActiveRequest, RequestShape DEF StatusCheck, At
      <4> QED
        BY <2>2, <3>5, <4>1 DEF StatusCheck, TransitionAllowed, Goto, TypeOK
    <3>6. CASE VersionLoad(c, "status")
      BY <2>2, <3>6 DEF VersionLoad, Goto, CheckedInv, Writing, At
    <3> QED
      BY <3>5, <3>6, <3>7
  <2> QED
    BY <2>1, <2>2
<1> QED
  BY <1>1, <1>2 DEF Next, Step, CheckedInv

LEMMA CheckedInductive == Spec => []CheckedInv
<1>1. Init => CheckedInv
  BY DEF Init, CheckedInv, Writing, At
<1> QED
  BY <1>1, CheckedStep, Inductive, PTL DEF Spec

\* The step that takes a version out of a status is a status change of that version.
LEMMA StatusChangedBy ==
    ASSUME IInv, NEW c \in Calls, Step(c), NEW x \in Coords, Stored(x),
           versions'[x].status # versions[x].status
    PROVE  /\ StatusCommit(c) /\ Coord(req[c]) = x /\ CommitsNow(c)
           /\ versions'[x].status = req[c].status
<1>1. Commits(c)
  BY OnlyCommitsWrite DEF tables
<1>2. StatusCommit(c)
  BY <1>1, GovernanceCommitRows, OwnershipCommitRows, PublishCommitRows DEF Commits
<1>3. CommitsNow(c)
  BY <1>2 DEF StatusCommit, At, Settle, Goto, CommitsNow, IInv, TypeOK
<1> QED
  BY <1>2, <1>3, StatusCommitRows

LEMMA ReopeningStep ==
    ASSUME IInv, CheckedInv, [Next]_vars, NEW x \in Coords, Stored(x),
           versions[x].status = "archived", versions'[x].status # "archived"
    PROVE  \E c \in Calls : /\ CommitsNow(c) /\ Coord(req[c]) = x
                            /\ checked[c].status # "archived"
<1>1. PICK c \in Calls : Step(c)
  BY DEF Next, Step, vars, tables
<1>2. StatusCommit(c) /\ Coord(req[c]) = x /\ CommitsNow(c)
  BY <1>1, StatusChangedBy
<1>3. req[c].status \in LifecycleTransitions[checked[c].status]
  BY <1>2 DEF CheckedInv, Writing, StatusCommit
<1>4. checked[c].status # "archived"
  BY <1>3 DEF LifecycleTransitions
<1> QED
  BY <1>2, <1>4

\* ReopenedByStaleCheck.  The lifecycle check itself never lets a version out of
\* "archived": whoever does so had checked before the version was archived.
THEOREM ReopenedByStaleCheck == Spec => OnlyStaleCallsReopen
<1>1. IInv /\ CheckedInv /\ [Next]_vars
      => [\A x \in Coords :
            Stored(x) /\ versions[x].status = "archived" /\ versions'[x].status # "archived"
            => \E c \in Calls :
                /\ CommitsNow(c) /\ Coord(req[c]) = x
                /\ checked[c].status # "archived"]_vars
  BY ReopeningStep
<1> QED
  BY <1>1, Inductive, CheckedInductive, PTL DEF Spec, OnlyStaleCallsReopen

-----------------------------------------------------------------------------
(* While the calls in flight are about different skills *)

Apart == \A c, d \in InFlight : c # d => req[c].slug # req[d].slug

\* What a session read is what the tables still hold.
SnapshotOf(c) ==
    /\ \A kind \in {"status", "governance"} :
        /\ Writing(c, kind) => checked[c] = versions[Coord(req[c])]
        /\ At(c, kind, "commit") => loaded[c] = versions[Coord(req[c])]
    /\ At(c, "governance", "sync") =>
        loaded[c] = versions[Coord(req[c])] /\ loadedDoc[c] = docs[Coord(req[c])]
    /\ At(c, "ownership", "commit") => loadedNs[c] = skills[req[c].slug]

SnapshotInv == \A c \in Calls : SnapshotOf(c)

\* A step changes nothing of the other calls' skills.
LEMMA OtherSkillsKept ==
    ASSUME IInv, NEW c \in Calls, Step(c)
    PROVE  /\ \A x \in Coords : x[1] # req[c].slug =>
                versions'[x] = versions[x] /\ docs'[x] = docs[x]
           /\ \A s \in Slugs : s # req[c].slug => skills'[s] = skills[s]
<1>1. CASE ~Commits(c)
  BY <1>1, OnlyCommitsWrite DEF tables
<1>2. CASE PublishCommit(c)
  BY <1>2, PublishWrite DEF IInv
<1>3. CASE StatusCommit(c)
  BY <1>3, StatusCommitRows
<1>4. CASE GovernanceCommit(c)
  BY <1>4, GovernanceCommitRows
<1>5. CASE OwnershipCommit(c)
  <2>1. \A x \in Coords : x[1] # req[c].slug => docs'[x] = docs[x]
    BY <1>5 DEF OwnershipCommit, IInv, TypeOK
  <2>2. \A s \in Slugs : s # req[c].slug => skills'[s] = skills[s]
    BY <1>5, OwnershipCommitRows DEF IInv, TypeOK
  <2> QED
    BY <1>5, <2>1, <2>2, OwnershipCommitRows
<1> QED
  BY <1>1, <1>2, <1>3, <1>4, <1>5 DEF Commits

\* The call that commits is in flight: no other one in flight is about its skill.
LEMMA OtherSnapshot ==
    ASSUME IInv, SnapshotInv, Apart, NEW c \in Calls, Step(c), NEW d \in Calls, d # c
    PROVE  SnapshotOf(d)'
<1>1. /\ pc'[d] = pc[d] /\ req'[d] = req[d] /\ loaded'[d] = loaded[d]
      /\ checked'[d] = checked[d] /\ loadedNs'[d] = loadedNs[d]
      /\ loadedDoc'[d] = loadedDoc[d]
  BY OthersKept, OthersRead DEF IInv
<1>2. CASE pc[d] \notin {"load", "commit", "sync"}
  BY <1>1, <1>2 DEF SnapshotOf, Writing, At
<1>3. CASE pc[d] \in {"load", "commit", "sync"}
  <2>1. req[d] \in AnyRequest /\ req[d].slug \in Slugs
    BY <1>3, ActiveRequest, RequestShape DEF IInv
  <2>2. \A kind \in {"status", "governance"} : req[d].kind = kind =>
          Coord(req[d]) \in Coords /\ Coord(req[d])[1] = req[d].slug
    BY <2>1, RequestShape DEF Coord
  <2>3. CASE ~Commits(c)
    BY <1>1, <2>3, OnlyCommitsWrite DEF tables, SnapshotInv, SnapshotOf, Writing, At, Coord
  <2>4. CASE Commits(c)
    <3>1. c \in InFlight /\ d \in InFlight
      BY <1>3, <2>4 DEF Commits, PublishCommit, StatusCommit, GovernanceCommit,
                        OwnershipCommit, At, InFlight
    <3>2. req[d].slug # req[c].slug
      BY <3>1 DEF Apart
    <3>3. /\ skills'[req[d].slug] = skills[req[d].slug]
          /\ \A kind \in {"status", "governance"} : req[d].kind = kind =>
               /\ versions'[Coord(req[d])] = versions[Coord(req[d])]
               /\ docs'[Coord(req[d])] = docs[Coord(req[d])]
      BY <2>1, <2>2, <3>2, OtherSkillsKept
    <3>4. Coord(req[d])' = Coord(req[d])
      BY <1>1 DEF Coord
    <3> QED
      BY <1>1, <3>3, <3>4 DEF SnapshotInv, SnapshotOf, Writing, At
  <2> QED
    BY <2>3, <2>4
<1> QED
  BY <1>2, <1>3

LEMMA OwnSnapshot ==
    ASSUME IInv, SnapshotInv, NEW c \in Calls, Step(c)
    PROVE  SnapshotOf(c)'
<1> USE DEF IInv, Goto
<1>1. CASE pc'[c] \notin {"load", "commit", "sync"}
  BY <1>1 DEF SnapshotOf, Writing, At
<1>2. CASE pc'[c] \in {"load", "commit", "sync"}
  <2>1. (\A answer : ~Finish(c, answer)) /\ \A phase \in {"answer", "deny"} : ~Settle(c, phase)
    BY <1>2 DEF Finish, Settle, TypeOK
  <2>2. CASE Begin(c)
    <3>1. PICK r \in Requests : req'[c] = r /\ pc'[c] = FirstPhase(r)
      BY <2>2 DEF Begin, TypeOK
    <3>2. r.kind = "ownership" /\ pc'[c] = "load"
      BY <1>2, <3>1 DEF FirstPhase
    <3> QED
      BY <3>1, <3>2 DEF SnapshotOf, Writing, At
  <2>3. CASE Publish(c)
    <3>1. req'[c] = req[c] /\ req[c].kind = "publish"
      BY <2>1, <2>3 DEF Publish, PublishDenied, PublishPrepare, PublishIntent,
         PublishVersionExists, PublishLoad, PublishConflict, PublishCommit, At
    <3> QED
      BY <3>1 DEF SnapshotOf, Writing, At
  <2>4. CASE ChangeStatus(c) \/ ChangeGovernance(c)
    <3>1. PICK kind \in {"status", "governance"} :
            \/ StatusCheck(c) /\ kind = "status"
            \/ GovernanceCheck(c) /\ kind = "governance"
            \/ VersionLoad(c, kind)
            \/ GovernanceFlush(c) /\ kind = "governance"
      BY <2>1, <2>4 DEF ChangeStatus, ChangeGovernance, VersionMissing, StatusDenied,
         StatusCommit, GovernanceDenied, GovernanceCommit
    <3>2. CASE VersionLoad(c, kind)
      BY <3>2 DEF VersionLoad, SnapshotInv, SnapshotOf, Writing, At, TypeOK, tables, Coord
    <3>3. CASE StatusCheck(c) /\ kind = "status"
      BY <3>3 DEF StatusCheck, SnapshotOf, Writing, At, TypeOK, tables, Coord
    <3>4. CASE GovernanceCheck(c) /\ kind = "governance"
      BY <3>4 DEF GovernanceCheck, SnapshotOf, Writing, At, TypeOK, tables, Coord
    <3>5. CASE GovernanceFlush(c) /\ kind = "governance"
      BY <3>5 DEF GovernanceFlush, SnapshotInv, SnapshotOf, Writing, At, TypeOK, tables, Coord
    <3> QED
      BY <3>1, <3>2, <3>3, <3>4, <3>5
  <2>5. CASE ChangeOwnership(c)
    <3>1. OwnershipLoad(c)
      BY <2>1, <2>5 DEF ChangeOwnership, OwnershipRefused, OwnershipCommit
    <3> QED
      BY <3>1 DEF OwnershipLoad, SnapshotOf, Writing, At, TypeOK, tables, Coord
  <2> QED
    BY <2>1, <2>2, <2>3, <2>4, <2>5 DEF Step, Abort, Answer, Deny
<1> QED
  BY <1>1, <1>2

LEMMA SnapshotStep == IInv /\ SnapshotInv /\ Apart /\ [Next]_vars => SnapshotInv'
<1> SUFFICES ASSUME IInv, SnapshotInv, Apart, [Next]_vars
             PROVE  SnapshotInv'
  OBVIOUS
<1>1. CASE UNCHANGED vars
  BY <1>1 DEF vars, tables, session, SnapshotInv, SnapshotOf, Writing, At, Coord
<1>2. ASSUME NEW c \in Calls, Step(c), NEW d \in Calls
      PROVE  SnapshotOf(d)'
  BY <1>2, OtherSnapshot, OwnSnapshot
<1> QED
  BY <1>1, <1>2 DEF Next, Step, SnapshotInv

LEMMA SnapshotInit == Init => SnapshotInv
BY DEF Init, SnapshotInv, SnapshotOf, Writing, At

\* At its commit a governance change sends what it edited.
LEMMA FlushedIsEdited ==
    ASSUME SnapshotInv, NEW c \in Calls, GovernanceCommit(c)
    PROVE  Flushed(c) = Edited(c)
BY DEF SnapshotInv, SnapshotOf, Writing, GovernanceCommit, Flushed, Edited, Sent

LEMMA SyncedIsEdited ==
    ASSUME IInv, SnapshotInv, NEW c \in Calls, GovernanceCommit(c)
    PROVE  Synced(c) = Edited(c)
<1>1. docs[Coord(req[c])] \in DocRow /\ loadedDoc[c] = docs[Coord(req[c])]
  BY ActiveRequest, RequestShape
     DEF GovernanceCommit, At, IInv, SessionInv, SessionOf, SnapshotInv, SnapshotOf, TypeOK
<1> QED
  BY <1>1 DEF Synced, Edited, DocRow, Gov

LEMMA StatusIsSent ==
    ASSUME IInv, SnapshotInv, NEW c \in Calls, StatusCommit(c)
    PROVE  versions'[Coord(req[c])].status = req[c].status
BY StatusCommitRows DEF SnapshotInv, SnapshotOf, Writing, StatusCommit

MirrorsInv == SearchMirrorsStatus /\ SearchMirrorsGovernance

LEMMA MirrorsStep == IInv /\ SnapshotInv /\ MirrorsInv /\ [Next]_vars => MirrorsInv'
<1> SUFFICES ASSUME IInv, SnapshotInv, MirrorsInv, [Next]_vars
             PROVE  MirrorsInv'
  OBVIOUS
<1> USE DEF MirrorsInv, SearchMirrorsStatus, SearchMirrorsGovernance
<1>1. CASE UNCHANGED tables
  BY <1>1 DEF tables, Stored
<1>2. ASSUME NEW c \in Calls, Step(c), Commits(c), NEW x \in Coords, Stored(x)'
      PROVE  docs'[x].status = versions'[x].status /\ docs'[x].gov = versions'[x].gov
  <2>1. CASE PublishCommit(c)
    <3>1. docs'[Coord(req[c])] =
            [namespace |-> req[c].namespace, status |-> "published", gov |-> req[c].gov]
      BY <2>1, PublishCommitRows
    <3>2. /\ docs'[Coord(req[c])].status = "published"
          /\ docs'[Coord(req[c])].gov = req[c].gov
      BY <3>1
    <3>3. CASE x = Coord(req[c])
      BY <2>1, <3>2, <3>3, PublishCommitRows
    <3>4. CASE x # Coord(req[c])
      <4>1. Stored(x) /\ docs'[x] = docs[x] /\ versions'[x] = versions[x]
        BY <1>2, <2>1, <3>4, PublishCommitRows DEF Stored
      <4> QED
        BY <4>1
    <3> QED
      BY <3>3, <3>4
  <2>2. CASE StatusCommit(c)
    BY <1>2, <2>2, StatusCommitRows, StatusIsSent DEF Stored
  <2>3. CASE GovernanceCommit(c)
    BY <1>2, <2>3, GovernanceCommitRows, FlushedIsEdited, SyncedIsEdited DEF Stored
  <2>4. CASE OwnershipCommit(c)
    BY <1>2, <2>4, OwnershipCommitRows DEF Stored
  <2> QED
    BY <1>2, <2>1, <2>2, <2>3, <2>4 DEF Commits
<1> QED
  BY <1>1, <1>2, OnlyCommitsWrite DEF Next, Step, vars

\* MirrorsApart.  While calls that overlap are about different skills, discovery
\* filters on the status and the governance columns that the version's row has.
THEOREM MirrorsApart ==
    Spec /\ []Apart => [](SearchMirrorsStatus /\ SearchMirrorsGovernance)
<1>1. Init => MirrorsInv
  BY DEF Init, MirrorsInv, SearchMirrorsStatus, SearchMirrorsGovernance, Stored
<1> QED
  BY <1>1, MirrorsStep, SnapshotInit, SnapshotStep, Inductive, PTL DEF Spec, MirrorsInv

LEMMA ArchivedStep ==
    ASSUME IInv, CheckedInv, SnapshotInv, [Next]_vars, NEW x \in Coords,
           Stored(x), versions[x].status = "archived"
    PROVE  versions'[x].status = "archived"
<1> SUFFICES ASSUME versions'[x].status # "archived"
             PROVE  FALSE
  OBVIOUS
<1>1. PICK c \in Calls : Step(c)
  BY DEF Next, Step, vars, tables
<1>2. StatusCommit(c) /\ Coord(req[c]) = x
  BY <1>1, StatusChangedBy
<1>3. /\ req[c].status \in LifecycleTransitions[checked[c].status]
      /\ checked[c] = versions[x]
  BY <1>2 DEF CheckedInv, SnapshotInv, SnapshotOf, Writing, StatusCommit
<1> QED
  BY <1>3 DEF LifecycleTransitions

\* ArchivedApart.  Under the same condition an archived version stays archived.
THEOREM ArchivedApart == Spec /\ []Apart => ArchivedIsFinal
<1>1. IInv /\ CheckedInv /\ SnapshotInv /\ [Next]_vars
      => [\A x \in Coords :
            Stored(x) /\ versions[x].status = "archived"
            => versions'[x].status = "archived"]_vars
  BY ArchivedStep
<1> QED
  BY <1>1, SnapshotInit, SnapshotStep, Inductive, CheckedInductive, PTL
     DEF Spec, ArchivedIsFinal

-----------------------------------------------------------------------------
(* Replaying the audit trail *)

\* The audited changes of a governance column.
Edits(x, f) == {c \in Events(x, "governance") : f \in DOMAIN req[c].set}

RowReplayInv ==
    \A x \in Coords :
        /\ \A kind \in {"status", "governance"} : Events(x, kind) # {} => Stored(x)
        /\ Stored(x) => /\ ReplayedStatus(x, versions[x].status)
                        /\ \A f \in Fields : ReplayedValue(x, f, versions[x].gov[f])

LEMMA ReplayedValueKept ==
    ASSUME IInv, AuditIds, NEW c \in Calls, Step(c), NEW x \in Coords, NEW f, NEW value,
           Edits(x, f)' = Edits(x, f), ReplayedValue(x, f, value)
    PROVE  ReplayedValue(x, f, value)'
<1> DEFINE S == Edits(x, f)
<1>1. CASE S = {}
  <2>1. PICK d \in Events(x, "publish") : req[d].gov[f] = value
    BY <1>1 DEF ReplayedValue, Edits
  <2>2. d \in Events(x, "publish")' /\ req'[d] = req[d]
    BY <2>1, EventsOfStep
  <2> QED
    BY <1>1, <2>1, <2>2 DEF ReplayedValue, Edits
<1>2. CASE S # {}
  <2>1. S \subseteq Events(x, "governance")
    BY DEF Edits
  <2>2. PICK d \in S : IsLast(d, S) /\ req[d].set[f] = value
    BY <1>2 DEF ReplayedValue, Edits
  <2>3. req'[d] = req[d] /\ \A e \in S : audit'[e].id <= audit'[d].id
    BY <2>1, <2>2, LastKept, EventsOfStep
  <2>4. S' = S
    OBVIOUS
  <2> HIDE DEF S
  <2>5. d \in S' /\ IsLast(d, S)' /\ req'[d].set[f] = value
    BY <2>2, <2>3, <2>4 DEF IsLast
  <2> QED
    BY <2>5 DEF ReplayedValue, S, Edits
<1> QED
  BY <1>1, <1>2

LEMMA ReplayedValueSet ==
    ASSUME IInv, AuditIds, NEW c \in Calls, Step(c), GovernanceCommit(c), NEW x \in Coords,
           Coord(req[c]) = x, NEW f \in DOMAIN req[c].set
    PROVE  ReplayedValue(x, f, req[c].set[f])'
<1> DEFINE S == Edits(x, f)
<1>1. Commits(c) /\ req[c].kind = "governance"
  BY DEF Commits, GovernanceCommit, At
<1>2. /\ Events(x, "governance")' = Events(x, "governance") \cup {c} /\ req'[c] = req[c]
      /\ \A d \in Events(x, "governance") : req'[d] = req[d]
  BY <1>1, EventsOfStep
<1>3. S' = S \cup {c} /\ S \subseteq Events(x, "governance")
  BY <1>2 DEF Edits
<1>4. \A d \in S \cup {c} : audit'[d].id <= audit'[c].id
  BY <1>1, <1>3, CommitIsLast
<1> HIDE DEF S
<1>5. c \in S' /\ IsLast(c, S)' /\ S' # {}
  BY <1>3, <1>4 DEF IsLast
<1> QED
  BY <1>2, <1>5 DEF ReplayedValue, S, Edits

\* A call that does not commit a governance change of the column leaves its edits.
LEMMA EditsKept ==
    ASSUME IInv, AuditIds, NEW c \in Calls, Step(c), NEW x \in Coords, NEW f,
           ~(GovernanceCommit(c) /\ Coord(req[c]) = x /\ f \in DOMAIN req[c].set)
    PROVE  Edits(x, f)' = Edits(x, f)
<1>1. Commits(c) /\ req[c].kind = "governance" => GovernanceCommit(c)
  BY DEF Commits, PublishCommit, StatusCommit, OwnershipCommit, At
<1>2. /\ \A d \in Events(x, "governance") : req'[d] = req[d]
      /\ Events(x, "governance")' = Events(x, "governance")
         \/ /\ Events(x, "governance")' = Events(x, "governance") \cup {c}
            /\ GovernanceCommit(c) /\ Coord(req[c]) = x /\ req'[c] = req[c]
  BY <1>1, EventsOfStep
<1> QED
  BY <1>2 DEF Edits

LEMMA RowReplayStep ==
    IInv /\ AuditIds /\ SnapshotInv /\ RowReplayInv /\ [Next]_vars => RowReplayInv'
<1> SUFFICES ASSUME IInv, AuditIds, SnapshotInv, RowReplayInv, [Next]_vars
             PROVE  RowReplayInv'
  OBVIOUS
<1>1. CASE UNCHANGED vars
  BY <1>1 DEF vars, tables, auditTable, RowReplayInv, ReplayedStatus, ReplayedValue, Events,
              Allowed, IsLast, Stored, Coord
<1>2. ASSUME NEW c \in Calls, Step(c), NEW x \in Coords
      PROVE  /\ \A kind \in {"status", "governance"} :
                  Events(x, kind)' # {} => Stored(x)'
             /\ Stored(x)' => /\ ReplayedStatus(x, versions[x].status)'
                              /\ \A f \in Fields : ReplayedValue(x, f, versions[x].gov[f])'
  <2> USE <1>2
  <2>1. /\ Stored(x) => Stored(x)'
        /\ \A kind \in {"status", "governance"} : Events(x, kind) # {} => Stored(x)
        /\ Stored(x) => /\ ReplayedStatus(x, versions[x].status)
                        /\ \A f \in Fields : ReplayedValue(x, f, versions[x].gov[f])
    <3>1. RowsStay
      BY RowsStayStep DEF IInv, Next, Step
    <3> QED
      BY <3>1 DEF RowReplayInv, RowsStay, Stored
  <2>2. \A kind \in {"status", "governance"} : Events(x, kind)' # {} => Stored(x)'
    <3> SUFFICES ASSUME NEW kind \in {"status", "governance"}, Events(x, kind)' # {}
                 PROVE  Stored(x)'
      OBVIOUS
    <3>1. CASE Events(x, kind)' = Events(x, kind)
      BY <2>1, <3>1
    <3>2. CASE Commits(c) /\ req[c].kind = kind /\ Coord(req[c]) = x
      <4>1. StatusCommit(c) \/ GovernanceCommit(c)
        BY <3>2 DEF Commits, PublishCommit, OwnershipCommit, At
      <4> QED
        BY <2>1, <3>2, <4>1, StatusCommitRows, GovernanceCommitRows
    <3> QED
      BY <3>1, <3>2, EventsOfStep
  <2>3. ASSUME ~Stored(x), Stored(x)'
        PROVE  /\ ReplayedStatus(x, versions[x].status)'
               /\ \A f \in Fields : ReplayedValue(x, f, versions[x].gov[f])'
    <3>1. PublishCommit(c) /\ Coord(req[c]) = x
      <4>1. PublishCommit(c)
        BY <2>3, SameKeys DEF IInv
      <4> QED
        BY <2>3, <4>1, PublishCommitRows DEF Stored
    <3>2. versions'[x].status = "published" /\ versions'[x].gov = req[c].gov
      BY <3>1, PublishCommitRows
    <3>3. Commits(c) /\ req[c].kind = "publish"
      BY <3>1 DEF Commits, PublishCommit, At
    <3>4. /\ Events(x, "status")' = {} /\ Events(x, "governance")' = {}
          /\ c \in Events(x, "publish")' /\ req'[c] = req[c]
      BY <2>1, <2>3, <3>1, <3>3, EventsOfStep
    <3> QED
      BY <3>2, <3>4 DEF ReplayedStatus, ReplayedValue
  <2>4. ASSUME Stored(x)
        PROVE  ReplayedStatus(x, versions[x].status)'
    <3>1. CASE StatusCommit(c) /\ Coord(req[c]) = x
      <4>1. versions'[x].status = req[c].status /\ req'[c] = req[c]
        BY <3>1, StatusIsSent DEF StatusCommit, Settle, Goto
      <4>2. ReplayedStatus(x, req[c].status)'
        BY <3>1, ReplayedStatusSet
      <4> QED
        BY <4>1, <4>2
    <3>2. CASE ~(StatusCommit(c) /\ Coord(req[c]) = x)
      <4>1. versions'[x].status = versions[x].status
        BY <2>4, <3>2, StatusChangedBy
      <4>2. Commits(c) /\ req[c].kind = "status" => StatusCommit(c)
        BY DEF Commits, PublishCommit, GovernanceCommit, OwnershipCommit, At
      <4>3. Events(x, "status")' = Events(x, "status")
        BY <3>2, <4>2, EventsOfStep
      <4>4. \A status : ReplayedStatus(x, status) => ReplayedStatus(x, status)'
        BY <4>3, ReplayedStatusKept
      <4> QED
        BY <2>1, <2>4, <4>1, <4>4
    <3> QED
      BY <3>1, <3>2
  <2>5. ASSUME Stored(x), NEW f \in Fields
        PROVE  ReplayedValue(x, f, versions[x].gov[f])'
    <3>1. CASE GovernanceCommit(c) /\ Coord(req[c]) = x /\ f \in DOMAIN req[c].set
      <4>1. versions'[x].gov[f] = req[c].set[f] /\ req'[c] = req[c]
        <5>1. versions'[x].gov = Edited(c)
          BY <3>1, GovernanceCommitRows, FlushedIsEdited
        <5>2. req'[c] = req[c]
          BY <3>1 DEF GovernanceCommit, Settle, Goto
        <5> QED
          BY <3>1, <5>1, <5>2 DEF Edited
      <4>2. ReplayedValue(x, f, req[c].set[f])'
        BY <3>1, ReplayedValueSet
      <4> QED
        BY <4>1, <4>2
    <3>2. CASE ~(GovernanceCommit(c) /\ Coord(req[c]) = x /\ f \in DOMAIN req[c].set)
      <4>1. versions'[x].gov[f] = versions[x].gov[f]
        <5>1. CASE ~Commits(c)
          BY <5>1, OnlyCommitsWrite DEF tables
        <5>2. CASE PublishCommit(c) \/ StatusCommit(c) \/ OwnershipCommit(c)
          BY <2>5, <5>2, PublishCommitRows, StatusCommitRows, OwnershipCommitRows
        <5>3. CASE GovernanceCommit(c) /\ Coord(req[c]) # x
          BY <5>3, GovernanceCommitRows
        <5>4. CASE GovernanceCommit(c) /\ Coord(req[c]) = x
          <6>1. versions'[x].gov = Edited(c) /\ loaded[c] = versions[x]
            BY <5>4, GovernanceCommitRows, FlushedIsEdited
               DEF SnapshotInv, SnapshotOf, GovernanceCommit
          <6> QED
            BY <3>2, <5>4, <6>1 DEF Edited
        <5> QED
          BY <5>1, <5>2, <5>3, <5>4 DEF Commits
      <4>2. Edits(x, f)' = Edits(x, f)
        BY <3>2, EditsKept
      <4>3. \A value : ReplayedValue(x, f, value) => ReplayedValue(x, f, value)'
        BY <4>2, ReplayedValueKept
      <4> QED
        BY <2>1, <2>5, <4>1, <4>3
    <3> QED
      BY <3>1, <3>2
  <2> QED
    BY <2>2, <2>3, <2>4, <2>5
<1> QED
  BY <1>1, <1>2 DEF Next, Step, RowReplayInv

\* AuditApart.  While calls that overlap are about different skills, an auditor who
\* replays the events of a version reconstructs its lifecycle status and every
\* governance column.
THEOREM AuditApart == Spec /\ []Apart => []AuditReplaysRows
<1>1. Init => RowReplayInv
  BY DEF Init, RowReplayInv, Events, Allowed, Stored
<1>2. RowReplayInv => AuditReplaysRows
  BY DEF RowReplayInv, AuditReplaysRows
<1> QED
  BY <1>1, <1>2, RowReplayStep, SnapshotInit, SnapshotStep, Inductive, AuditInductive, PTL
     DEF Spec

-----------------------------------------------------------------------------
(* Where the search documents say a skill belongs *)

\* Every publication of a further version names the namespace its skill is in.
AtHome ==
    \A c \in Calls : At(c, "publish", "commit") /\ sawSkill[c] =>
        req[c].namespace = skills[req[c].slug]

LEMMA NamespaceStep ==
    IInv /\ SnapshotInv /\ AtHome /\ SearchMirrorsNamespace /\ [Next]_vars
    => SearchMirrorsNamespace'
<1> SUFFICES ASSUME IInv, SnapshotInv, AtHome, SearchMirrorsNamespace, [Next]_vars
             PROVE  SearchMirrorsNamespace'
  OBVIOUS
<1>1. CASE UNCHANGED tables
  BY <1>1 DEF tables, SearchMirrorsNamespace, Stored
<1>2. ASSUME NEW c \in Calls, Step(c), Commits(c), NEW x \in Coords, Stored(x)'
      PROVE  docs'[x].namespace = skills'[x[1]]
  <2>0. x[1] \in Slugs /\ skills \in [Slugs -> KnownNamespaces \cup {NoRow}]
    BY DEF Coords, IInv, TypeOK
  <2>1. CASE PublishCommit(c)
    <3>1. docs'[Coord(req[c])] =
            [namespace |-> req[c].namespace, status |-> "published", gov |-> req[c].gov]
      BY <2>1, PublishCommitRows
    <3>2. docs'[Coord(req[c])].namespace = req[c].namespace
      BY <3>1
    <3>3. CASE sawSkill[c]
      <4>1. req[c].namespace = skills[req[c].slug] /\ skills' = skills
        BY <2>1, <3>3, PublishCommitRows DEF AtHome, PublishCommit
      <4>2. CASE x = Coord(req[c])
        BY <2>1, <3>2, <4>1, <4>2, PublishCommitRows
      <4>3. CASE x # Coord(req[c])
        <5>1. Stored(x) /\ docs'[x] = docs[x]
          BY <1>2, <2>1, <4>3, PublishCommitRows DEF Stored
        <5> QED
          BY <4>1, <5>1 DEF SearchMirrorsNamespace
      <4> QED
        BY <4>2, <4>3
    <3>4. CASE ~sawSkill[c]
      <4>1. /\ skills[req[c].slug] = NoRow /\ req[c].slug \in Slugs
            /\ skills' = [skills EXCEPT ![req[c].slug] = req[c].namespace]
        BY <2>1, <3>4, PublishCommitRows
      <4>2. CASE x = Coord(req[c])
        BY <2>0, <2>1, <3>2, <4>1, <4>2, PublishCommitRows
      <4>3. CASE x # Coord(req[c])
        <5>1. Stored(x) /\ docs'[x] = docs[x]
          BY <1>2, <2>1, <4>3, PublishCommitRows DEF Stored
        <5>2. x[1] # req[c].slug
          BY <4>1, <5>1 DEF IInv, PublicationComplete
        <5> QED
          BY <2>0, <4>1, <5>1, <5>2 DEF SearchMirrorsNamespace
      <4> QED
        BY <4>2, <4>3
    <3> QED
      BY <3>3, <3>4
  <2>2. CASE StatusCommit(c)
    BY <1>2, <2>2, StatusCommitRows DEF SearchMirrorsNamespace, Stored
  <2>3. CASE GovernanceCommit(c)
    BY <1>2, <2>3, GovernanceCommitRows DEF SearchMirrorsNamespace, Stored
  <2>4. CASE OwnershipCommit(c)
    <3>1. Stored(x) /\ loadedNs[c] = skills[req[c].slug] /\ req[c].slug \in Slugs
      BY <1>2, <2>4, OwnershipCommitRows
         DEF Stored, SnapshotInv, SnapshotOf, OwnershipCommit
    <3>2. skills' = [skills EXCEPT ![req[c].slug] = req[c].namespace]
      BY <2>0, <2>4, <3>1, OwnershipCommitRows
    <3> QED
      BY <2>0, <2>4, <3>1, <3>2, OwnershipCommitRows DEF SearchMirrorsNamespace
  <2> QED
    BY <1>2, <2>1, <2>2, <2>3, <2>4 DEF Commits
<1> QED
  BY <1>1, <1>2, OnlyCommitsWrite DEF Next, Step, vars, SearchMirrorsNamespace

\* NamespaceApart.  If besides every publication of a further version names the
\* namespace of its skill (which nothing in the code enforces), the search documents
\* name it too, whatever moves the skill makes.
THEOREM NamespaceApart == Spec /\ []Apart /\ []AtHome => []SearchMirrorsNamespace
<1>1. Init => SearchMirrorsNamespace
  BY DEF Init, SearchMirrorsNamespace, Stored
<1> QED
  BY <1>1, NamespaceStep, SnapshotInit, SnapshotStep, Inductive, PTL DEF Spec

=============================================================================

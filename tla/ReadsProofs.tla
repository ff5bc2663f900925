------------------------------ MODULE ReadsProofs ------------------------------
(***************************************************************************)
(* What reads answer, refuse and record is justified by a moment of the    *)
(* call, for any tables, callers and writers.  The invariant says what a   *)
(* session holds in each phase: copies of the rows of one moment, and of   *)
(* the rules of that moment or, in a version list, of later ones.          *)
(***************************************************************************)
EXTENDS Reads, FiniteSetTheorems, TLAPS

-----------------------------------------------------------------------------
\* What the namespace filter and the channel filter of a search admit, each computed
\* over all grants of the caller, includes every version that is not archived and that
\* policy lets the caller read: filtering in the database never loses a visible version.
THEOREM FiltersLoseNothing ==
    ASSUME NEW caller \in Caller, NEW row \in Copy, NEW r \in Rules,
           row.status \in ExactReadStatuses, IsVisible(caller, row, r)
    PROVE  /\ row.namespace \in AllowedNamespaces(caller, "read")
           /\ row.gov.channel \in AllowedPromotionChannels(caller, "read")
<1>1. /\ row.namespace \in Namespaces
      /\ row.gov.channel \in Channels
      /\ row.gov.channel # "*"
  BY DEF Copy, Gov, Channels
<1>2. HasNamespaceGrant(caller, row.namespace, "read", row.gov.channel)
  <2>1. HasScope(caller, "read") /\ ReaderVerdict(caller, row, r) = "allowed"
    BY DEF IsVisible, Verdict, ExactReadStatuses
  <2> QED
    BY <2>1 DEF ReaderVerdict
<1>3. CASE caller.grants = {}
  <2>1. CASE "admin" \in caller.scopes
    BY <1>1, <1>3, <2>1 DEF AllowedNamespaces, AllowedPromotionChannels
  <2>2. CASE "admin" \notin caller.scopes
    <3>1. row.namespace = "public" /\ HasScope(caller, "read") /\ row.gov.channel = "prod"
      BY <1>1, <1>2, <1>3, <2>2 DEF HasNamespaceGrant
    <3> QED
      BY <3>1, <1>3, <2>2 DEF AllowedNamespaces, AllowedPromotionChannels
  <2> QED
    BY <2>1, <2>2
<1>4. CASE caller.grants # {}
  <2>1. PICK grant \in caller.grants : Matches(grant, row.namespace, "read", row.gov.channel)
    BY <1>2, <1>4 DEF HasNamespaceGrant
  <2> DEFINE readers == {g \in caller.grants : GivesRole(g, "read")}
  <2>2. grant \in readers
    BY <2>1 DEF Matches
  <2>3. row.namespace \in AllowedNamespaces(caller, "read")
    <3>1. CASE \E g \in caller.grants : g.namespace = "*"
      BY <1>1, <1>4, <3>1 DEF AllowedNamespaces
    <3>2. CASE ~ \E g \in caller.grants : g.namespace = "*"
      <4>1. grant.namespace = row.namespace
        BY <2>1, <3>2 DEF Matches
      <4> QED
        BY <1>4, <2>2, <3>2, <4>1 DEF AllowedNamespaces
    <3> QED
      BY <3>1, <3>2
  <2> DEFINE granted == UNION {g.channels : g \in readers}
  <2>4. "*" \in granted \/ row.gov.channel \in granted
    BY <2>1, <2>2, <1>1 DEF Matches
  <2>5. AllowedPromotionChannels(caller, "read")
          = IF "*" \in granted THEN Channels ELSE granted \cap Channels
    BY <1>4 DEF AllowedPromotionChannels
  <2> HIDE DEF granted, readers
  <2>6. row.gov.channel \in AllowedPromotionChannels(caller, "read")
    BY <2>4, <2>5, <1>1
  <2> QED
    BY <2>3, <2>6
<1> QED
  BY <1>3, <1>4

-----------------------------------------------------------------------------
(* Types *)

\* A judgement is one of the codes, or "allowed".
LEMMA VerdictType ==
    ASSUME NEW caller, NEW row, NEW r PROVE Verdict(caller, row, r) \in Verdicts
BY DEF Verdict, ReaderVerdict, Verdicts

\* A copy of a stored row is a copy, whatever moment it is of.
LEMMA CopyType ==
    ASSUME NEW m \in Tables, NEW x \in Coords, m.versions[x] # NoRow
    PROVE  CopyOf(m, x) \in Copy /\ CopyOf(m, x) # NoRow /\ m.versions[x].gov.pack \in Packs
<1>1. m.versions[x] \in VersionRow /\ m.skills[x[1]] \in Namespaces
  BY DEF Tables, Coords
<1> QED
  BY <1>1, ReadsAssumption DEF CopyOf, Copy, VersionRow, Gov

LEMMA InFlightType == ASSUME TypeOK, NEW c \in InFlight PROVE req[c] \in Request
BY DEF TypeOK, InFlight

LEMMA CoordType == ASSUME NEW c, req[c] \in Request PROVE Coord(c) \in Coords
BY DEF Coord, Coords, Request

\* Each commit of a writer leaves tables of the right shape.
LEMMA CommitType ==
    ASSUME TypeOK, Writer
    PROVE  \E d \in Tables : d.packs[NoPack] = OpenRules /\ Commit(d)
<1> USE DEF TypeOK, Tables
<1>1. ASSUME NEW x \in Coords, NEW row \in VersionRow, Put(x, row)
      PROVE  \E d \in Tables : d.packs[NoPack] = OpenRules /\ Commit(d)
  <2> DEFINE d == [db EXCEPT !.versions = [@ EXCEPT ![x] = row]]
  <2>1. d \in Tables /\ d.packs[NoPack] = OpenRules
    OBVIOUS
  <2>2. Commit(d)
    BY <1>1 DEF Put
  <2> QED
    BY <2>1, <2>2
<1>2. ASSUME NEW x \in Coords, NEW g \in GovValues, PublishVersion(x, g)
      PROVE  \E d \in Tables : d.packs[NoPack] = OpenRules /\ Commit(d)
  <2>1. [status |-> "published", gov |-> g] \in VersionRow
    BY ReadsAssumption DEF VersionRow, Statuses
  <2> QED
    BY <1>1, <1>2, <2>1 DEF PublishVersion
<1>3. ASSUME NEW x \in Coords, NEW g \in GovValues, UpdateVersionGovernance(x, g)
      PROVE  \E d \in Tables : d.packs[NoPack] = OpenRules /\ Commit(d)
  <2>1. db.versions[x] \in VersionRow
    BY <1>3 DEF UpdateVersionGovernance
  <2>2. [status |-> db.versions[x].status, gov |-> g] \in VersionRow
    BY <2>1, ReadsAssumption DEF VersionRow
  <2> QED
    BY <1>1, <1>3, <2>2 DEF UpdateVersionGovernance
<1>4. ASSUME NEW x \in Coords, NEW status \in Statuses, UpdateVersionStatus(x, status)
      PROVE  \E d \in Tables : d.packs[NoPack] = OpenRules /\ Commit(d)
  <2>1. db.versions[x] \in VersionRow
    BY <1>4 DEF UpdateVersionStatus
  <2>2. [status |-> status, gov |-> db.versions[x].gov] \in VersionRow
    BY <2>1 DEF VersionRow
  <2> QED
    BY <1>1, <1>4, <2>2 DEF UpdateVersionStatus
<1>5. ASSUME NEW s \in Slugs, NEW namespace \in Namespaces, UpdateSkillOwnership(s, namespace)
      PROVE  \E d \in Tables : d.packs[NoPack] = OpenRules /\ Commit(d)
  <2> DEFINE d == [db EXCEPT !.skills = [@ EXCEPT ![s] = namespace]]
  <2>1. d \in Tables /\ d.packs[NoPack] = OpenRules
    OBVIOUS
  <2>2. Commit(d)
    BY <1>5 DEF UpdateSkillOwnership
  <2> QED
    BY <2>1, <2>2
<1>6. ASSUME NEW p \in Packs, NEW r \in RuleValues, UpsertPolicyPack(p, r)
      PROVE  \E d \in Tables : d.packs[NoPack] = OpenRules /\ Commit(d)
  <2> DEFINE d == [db EXCEPT !.packs = [@ EXCEPT ![p] = r]]
  <2>1. r \in Rules /\ NoPack \in Packs /\ p # NoPack
    BY <1>6, ReadsAssumption DEF UpsertPolicyPack
  <2>2. d \in Tables /\ d.packs[NoPack] = OpenRules
    BY <2>1
  <2>3. Commit(d)
    BY <1>6 DEF UpsertPolicyPack
  <2> QED
    BY <2>2, <2>3
<1> QED
  BY <1>2, <1>3, <1>4, <1>5, <1>6 DEF Writer

\* The types of what reads, failures and writers leave.
THEOREM TypeCorrect == Spec => []TypeOK
<1>1. Init => TypeOK
  BY ReadsAssumption DEF Init, TypeOK, NoCopies, NoRules, Phases, Results, Tables
<1>2. TypeOK /\ [Next]_vars => TypeOK'
  <2> SUFFICES ASSUME TypeOK, [Next]_vars PROVE TypeOK'
    OBVIOUS
  <2>1. ASSUME Writer PROVE TypeOK'
    <3>1. PICK d \in Tables : d.packs[NoPack] = OpenRules /\ Commit(d)
      BY <2>1, CommitType
    <3> QED
      BY <3>1 DEF TypeOK, Commit, session, outcome
  <2>2. ASSUME NEW c \in Calls, NEW S \in SUBSET Coords, NEW how \in Results,
               Finish(c, how, S), pc[c] # "idle",
               installs' \in [Slugs -> Nat], audit' \subseteq Event
        PROVE  TypeOK'
    BY <2>2 DEF TypeOK, Finish, NoCopies, NoRules, Phases
  <2>3. ASSUME NEW c \in Calls, NEW phase \in Phases, Goto(c, phase), pc[c] # "idle",
               installs' = installs, audit' \subseteq Event,
               copies' \in [Calls -> [Coords -> Copy \cup {NoRow}]],
               rules' \in [Calls -> [Packs -> Rules \cup {NoRow}]]
        PROVE  TypeOK'
    BY <2>3 DEF TypeOK, Goto, outcome
  <2>4. ASSUME NEW c \in Calls, NEW verdict, verdict \in Verdicts \cup {"airlock", "listed"},
               Record(c, verdict)
        PROVE  audit' \subseteq Event
    BY <2>4 DEF Record, Event, TypeOK
  <2>5. ASSUME NEW S \in SUBSET Coords, \A x \in S : db.versions[x] # NoRow
        PROVE  CopiesOf(db, S) \in [Coords -> Copy \cup {NoRow}]
    BY <2>5, CopyType DEF CopiesOf, TypeOK
  <2>6. ASSUME NEW c \in Calls, Call(c) PROVE TypeOK'
    <3>1. CASE Begin(c)
      BY <3>1, ReadsAssumption DEF Begin, TypeOK, Phases, outcome
    <3>2. CASE Forbid(c)
      BY <3>2, ReadsAssumption DEF Forbid, TypeOK, Phases, Results
    <3> SUFFICES ASSUME ~ Begin(c), ~ Forbid(c) PROVE TypeOK'
      BY <3>1, <3>2
    <3>3. pc[c] # "idle" /\ Coord(c) \in Coords
      BY <2>6, CoordType DEF Call, Abort, InFlight, VersionNotFound, ReadVersion, DenyRead,
         DenyVisibility, AllowRead, RecordInstall, SendContent, SkillNotFound, ReadVersions, LoadPack,
         HideSkill, ListVersions, ListCatalog, SkipCard, ShowCard, At, TypeOK
    <3>4. /\ UNCHANGED installs => installs' \in [Slugs -> Nat]
          /\ UNCHANGED audit => audit' \subseteq Event
      BY DEF TypeOK
    <3>5. CASE Abort(c)
      BY <3>5, <3>3, <3>4, <2>2 DEF Abort, Results
    <3>6. CASE VersionNotFound(c)
      BY <3>6, <3>3, <3>4, <2>2 DEF VersionNotFound, Results
    <3>7. CASE ReadVersion(c)
      <4>1. copies' \in [Calls -> [Coords -> Copy \cup {NoRow}]]
        BY <3>7, <3>3, <2>5 DEF ReadVersion, TypeOK
      <4>2. rules' \in [Calls -> [Packs -> Rules \cup {NoRow}]]
        BY <3>7 DEF ReadVersion, TypeOK, Tables
      <4> QED
        BY <3>7, <3>3, <3>4, <4>1, <4>2, <2>3 DEF ReadVersion, Phases
    <3>8. CASE DenyRead(c)
      <4>1. audit' \subseteq Event
        BY <3>8, <2>4, VerdictType DEF DenyRead, Judged
      <4>2. CASE Judged(c, Coord(c)) \in AirlockCodes
        BY <3>8, <3>3, <4>1, <4>2, <2>3 DEF DenyRead, Phases, TypeOK
      <4>3. CASE Judged(c, Coord(c)) \notin AirlockCodes
        BY <3>8, <3>3, <3>4, <4>1, <4>3, <2>2 DEF DenyRead, Results
      <4> QED
        BY <4>2, <4>3
    <3>9. CASE DenyVisibility(c)
      BY <3>9, <3>3, <3>4, <2>2, <2>4 DEF DenyVisibility, Results
    <3>10. CASE AllowRead(c)
      <4>1. audit' \subseteq Event
        BY <3>10, <2>4 DEF AllowRead, Verdicts
      <4>2. CASE req[c].kind = "content"
        BY <3>10, <3>3, <4>1, <4>2, <2>3 DEF AllowRead, Phases, TypeOK
      <4>3. CASE req[c].kind # "content"
        BY <3>10, <3>3, <3>4, <4>1, <4>3, <2>2 DEF AllowRead, Results
      <4> QED
        BY <4>2, <4>3
    <3>11. CASE SendContent(c)
      BY <3>11, <3>3, <3>4, <2>2 DEF SendContent, Results
    <3>18. CASE RecordInstall(c)
      <4>1. installs' \in [Slugs -> Nat]
        <5>1. req[c].slug \in Slugs
          BY <3>3 DEF Coord, Coords
        <5>2. installs[req[c].slug] + 1 \in Nat
          BY <5>1 DEF TypeOK
        <5> QED
          BY <3>18, <5>2 DEF RecordInstall, TypeOK
      <4> QED
        BY <3>18, <3>3, <3>4, <4>1 DEF RecordInstall, Goto, outcome, Phases, TypeOK
    <3>12. CASE SkillNotFound(c)
      BY <3>12, <3>3, <3>4, <2>2 DEF SkillNotFound, Results
    <3>13. CASE ReadVersions(c)
      <4>1. copies' \in [Calls -> [Coords -> Copy \cup {NoRow}]]
        BY <3>13, <2>5 DEF ReadVersions, TypeOK, Stored, VersionsOf
      <4>2. [NoRules EXCEPT ![NoPack] = OpenRules] \in [Packs -> Rules \cup {NoRow}]
        BY DEF NoRules, OpenRules, Rules
      <4>3. rules' \in [Calls -> [Packs -> Rules \cup {NoRow}]]
        BY <3>13, <4>2 DEF ReadVersions, TypeOK
      <4> QED
        BY <3>13, <3>3, <3>4, <4>1, <4>3, <2>3 DEF ReadVersions, Phases
    <3>14. CASE LoadPack(c)
      <4>1. rules' \in [Calls -> [Packs -> Rules \cup {NoRow}]]
        <5>1. PICK p \in Missing(c) : rules' = [rules EXCEPT ![c] = [@ EXCEPT ![p] = db.packs[p]]]
          BY <3>14 DEF LoadPack
        <5>2. p \in Packs /\ db.packs[p] \in Rules
          BY <5>1 DEF Missing, Held, TypeOK, Tables, Copy, Gov
        <5> QED
          BY <5>1, <5>2 DEF TypeOK
      <4> QED
        BY <3>14, <3>3, <3>4, <4>1, <2>3 DEF LoadPack, Phases, TypeOK
    <3>15. CASE HideSkill(c)
      BY <3>15, <3>3, <3>4, <2>2 DEF HideSkill, Results
    <3>16. CASE ListVersions(c)
      BY <3>16, <3>3, <3>4, <2>2, <2>4 DEF ListVersions, Results, VisibleCopies, Held
    <3>17. CASE ListCatalog(c)
      BY <3>17, <3>3, <3>4, <2>2 DEF ListCatalog, Results, Defaults, Stored
    <3>19. CASE SkipCard(c)
      BY <3>19, <3>3, <3>4, <2>2 DEF SkipCard, Results
    <3>20. CASE ShowCard(c)
      <4>1. PICK S \in SUBSET Coords : Finish(c, "answered", S)
        BY <3>20 DEF ShowCard, Stored, Defaults, VisibleCopies, Held
      <4> QED
        BY <3>20, <3>3, <3>4, <4>1, <2>2 DEF ShowCard, Results
    <3> QED
      BY <2>6, <3>5, <3>6, <3>7, <3>8, <3>9, <3>10, <3>11, <3>12, <3>13, <3>14, <3>15,
         <3>16, <3>17, <3>18, <3>19, <3>20 DEF Call
  <2>7. CASE UNCHANGED vars
    BY <2>7 DEF vars, session, outcome, TypeOK
  <2> QED
    BY <2>1, <2>6, <2>7 DEF Next
<1> QED
  BY <1>1, <1>2, PTL DEF Spec

-----------------------------------------------------------------------------
(* What a call holds in each phase *)

AnyVerdict == Verdicts \cup {"airlock", "listed"}

\* The session of an exact read holds the row and the packs of one moment.
ExactSeen(c) ==
    \E m \in moments[c] : /\ m.versions[Coord(c)] # NoRow
                          /\ copies[c][Coord(c)] = CopyOf(m, Coord(c))
                          /\ rules[c] = m.packs

\* The session of a version list holds the rows of one moment, and rules of others.
ListSeen(c) ==
    /\ \E m \in moments[c] : copies[c] = CopiesOf(m, Stored(m, VersionsOf(req[c].slug)))
    /\ \A p \in Packs : rules[c][p] # NoRow => \E n \in moments[c] : rules[c][p] = n.packs[p]

Claims(c) ==
    /\ AnsweredVisibly(c)
    /\ DeniedDuly(c)
    /\ AbsentDuly(c)
    /\ RecordedTruly(c)
    /\ OutcomeRecorded(c)

Holds(c) ==
    /\ pc[c] = "idle" => \A verdict \in AnyVerdict : ~ Recorded(c, verdict)
    /\ c \in InFlight => db \in moments[c]
    /\ pc[c] # "done" => answer[c] = {}
    /\ pc[c] \in {"audit", "airlock", "install", "send"} => req[c].kind \in ExactKinds /\ ExactSeen(c)
    /\ pc[c] = "airlock" => \E verdict \in AirlockCodes : Recorded(c, verdict)
    /\ pc[c] \in {"install", "send"} => Recorded(c, "allowed")
    /\ pc[c] = "packs" => req[c].kind \in {"versions", "card"} /\ ListSeen(c)
    /\ Claims(c)

LEMMA VerdictKinds ==
    /\ "airlock" \notin Verdicts /\ "listed" \notin Verdicts /\ "allowed" \in Verdicts
    /\ "allowed" \notin AirlockCodes /\ AirlockCodes \subseteq Verdicts
BY DEF Verdicts, AirlockCodes

\* What a call holds and claims is not disturbed by others: they only add moments.
LEMMA Frame ==
    ASSUME NEW c \in Calls, Holds(c),
           pc'[c] = pc[c], req'[c] = req[c], copies'[c] = copies[c], rules'[c] = rules[c],
           result'[c] = result[c], answer'[c] = answer[c],
           moments[c] \subseteq moments'[c], c \in InFlight => db' \in moments'[c],
           \A verdict \in AnyVerdict : Recorded(c, verdict)' <=> Recorded(c, verdict)
    PROVE  Holds(c)'
<1> USE VerdictKinds
<1>1. /\ Coord(c)' = Coord(c)
      /\ \A m, n, x : VerdictAt(c, m, n, x)' = VerdictAt(c, m, n, x)
      /\ \A how : Ended(c, how)' <=> Ended(c, how)
  BY DEF Coord, VerdictAt, Ended
<1>2. (c \in InFlight)' <=> c \in InFlight
  BY DEF InFlight
<1>3. AnsweredVisibly(c)'
  BY <1>1 DEF Holds, Claims, AnsweredVisibly
<1>4. DeniedDuly(c)' /\ AbsentDuly(c)'
  BY <1>1 DEF Holds, Claims, DeniedDuly, AbsentDuly
<1>5. RecordedTruly(c)'
  BY <1>1 DEF Holds, Claims, RecordedTruly, AnyVerdict
<1>6. OutcomeRecorded(c)'
  BY <1>1 DEF Holds, Claims, OutcomeRecorded, AnyVerdict
<1>7. ExactSeen(c) => ExactSeen(c)'
  BY <1>1 DEF ExactSeen
<1>8. ListSeen(c) => ListSeen(c)'
  BY DEF ListSeen
<1>9. Claims(c)'
  BY <1>3, <1>4, <1>5, <1>6 DEF Claims
<1> QED
  BY <1>2, <1>7, <1>8, <1>9 DEF Holds, AnyVerdict

\* Recording a verdict that policy gave at a moment of the call keeps the trail true.
LEMMA RecordTruth ==
    ASSUME NEW c \in Calls, RecordedTruly(c), req'[c] = req[c], moments'[c] = moments[c],
           NEW verdict \in AnyVerdict, Record(c, verdict),
           verdict \in Verdicts => \E m \in moments[c] :
               m.versions[Coord(c)] # NoRow /\ VerdictAt(c, m, m, Coord(c)) = verdict,
           verdict = "airlock" => \E v \in AirlockCodes : Recorded(c, v)
    PROVE  /\ RecordedTruly(c)'
           /\ \A v \in AnyVerdict : Recorded(c, v)' <=> Recorded(c, v) \/ v = verdict
<1>1. /\ Coord(c)' = Coord(c)
      /\ \A m, n, x : VerdictAt(c, m, n, x)' = VerdictAt(c, m, n, x)
  BY DEF Coord, VerdictAt
<1>2. \A v \in AnyVerdict : Recorded(c, v)' <=> Recorded(c, v) \/ v = verdict
  BY DEF Record, Recorded
<1>3. \A v \in Verdicts : Recorded(c, v)' => \E m \in moments[c] :
          m.versions[Coord(c)] # NoRow /\ VerdictAt(c, m, m, Coord(c)) = v
  BY <1>2 DEF RecordedTruly, AnyVerdict
<1>4. Recorded(c, "airlock")' => \E v \in AirlockCodes : Recorded(c, v)'
  BY <1>2, VerdictKinds DEF RecordedTruly, AnyVerdict
<1> QED
  BY <1>1, <1>2, <1>3, <1>4 DEF RecordedTruly

\* A call that ends holds nothing any more; what it claims is left to show.
LEMMA Finished ==
    ASSUME TypeOK, NEW c \in Calls, NEW how, NEW S, Finish(c, how, S)
    PROVE  /\ Claims(c)' => Holds(c)'
           /\ answer'[c] = S
           /\ req'[c] = req[c] /\ moments'[c] = moments[c]
           /\ \A h : Ended(c, h)' <=> h = how
           /\ Coord(c)' = Coord(c)
           /\ \A m, n, x : VerdictAt(c, m, n, x)' = VerdictAt(c, m, n, x)
BY DEF TypeOK, Finish, Holds, Ended, Coord, VerdictAt, InFlight

\* A call that goes on has not ended; what it claims is what it has recorded.
LEMMA GoesOn ==
    ASSUME TypeOK, NEW c \in Calls, NEW phase, phase # "done", Goto(c, phase), Holds(c),
           c \in InFlight
    PROVE  /\ RecordedTruly(c)' => Claims(c)'
           /\ pc'[c] = phase /\ answer'[c] = {} /\ (c \in InFlight => db \in moments[c])
           /\ req'[c] = req[c] /\ moments' = moments /\ db' = db
           /\ Coord(c)' = Coord(c)
           /\ \A m, n, x : VerdictAt(c, m, n, x)' = VerdictAt(c, m, n, x)
<1>1. pc'[c] = phase /\ pc[c] # "done" /\ answer[c] = {}
  BY DEF TypeOK, Goto, Holds, InFlight
<1> QED
  BY <1>1 DEF Goto, Holds, outcome, Claims, AnsweredVisibly, DeniedDuly, AbsentDuly,
     OutcomeRecorded, Ended, Coord, VerdictAt

\* An unchanged trail stays true.
LEMMA TrailKept ==
    ASSUME NEW c \in Calls, RecordedTruly(c), req'[c] = req[c], moments'[c] = moments[c],
           audit' = audit
    PROVE  RecordedTruly(c)' /\ \A v : Recorded(c, v)' <=> Recorded(c, v)
BY DEF RecordedTruly, Recorded, VerdictAt, Coord


-----------------------------------------------------------------------------
(* Judging what is held is judging a moment of the call *)

LEMMA ExactJudgement ==
    ASSUME NEW c \in Calls, ExactSeen(c)
    PROVE  \E m \in moments[c] : /\ m.versions[Coord(c)] # NoRow
                                 /\ VerdictAt(c, m, m, Coord(c)) = Judged(c, Coord(c))
<1>1. PICK m \in moments[c] : /\ m.versions[Coord(c)] # NoRow
                              /\ copies[c][Coord(c)] = CopyOf(m, Coord(c))
                              /\ rules[c] = m.packs
  BY DEF ExactSeen
<1>2. copies[c][Coord(c)].gov.pack = m.versions[Coord(c)].gov.pack
  BY <1>1 DEF CopyOf
<1> QED
  BY <1>1, <1>2 DEF VerdictAt, Judged

LEMMA ListJudgement ==
    ASSUME TypeOK, NEW c \in Calls, ListSeen(c), Missing(c) = {}
    PROVE  /\ \A x \in Held(c) : \E m \in moments[c], n \in moments[c] :
                m.versions[x] # NoRow /\ VerdictAt(c, m, n, x) = Judged(c, x)
           /\ \A x \in VersionsOf(req[c].slug) : x \notin Held(c) =>
                \E m \in moments[c] : m.versions[x] = NoRow
<1>1. PICK m \in moments[c] : copies[c] = CopiesOf(m, Stored(m, VersionsOf(req[c].slug)))
  BY DEF ListSeen
<1>2. m \in Tables
  BY DEF TypeOK
<1>3. \A x \in Coords :
        copies[c][x] = IF x \in Stored(m, VersionsOf(req[c].slug)) THEN CopyOf(m, x) ELSE NoRow
  BY <1>1 DEF CopiesOf
<1>4. ASSUME NEW x \in Held(c)
      PROVE  \E k \in moments[c], n \in moments[c] :
               k.versions[x] # NoRow /\ VerdictAt(c, k, n, x) = Judged(c, x)
  <2>1. x \in Coords /\ copies[c][x] = CopyOf(m, x) /\ m.versions[x] # NoRow
    BY <1>3 DEF Held, Stored
  <2> DEFINE p == m.versions[x].gov.pack
  <2>2. p \in Packs /\ copies[c][x].gov.pack = p
    BY <1>2, <2>1, CopyType DEF CopyOf
  <2>3. rules[c][p] # NoRow
    BY <2>2 DEF Missing
  <2>4. PICK n \in moments[c] : rules[c][p] = n.packs[p]
    BY <2>2, <2>3 DEF ListSeen
  <2>5. VerdictAt(c, m, n, x) = Judged(c, x)
    BY <2>1, <2>2, <2>4 DEF VerdictAt, Judged
  <2> QED
    BY <2>1, <2>5
<1>5. ASSUME NEW x \in VersionsOf(req[c].slug), x \notin Held(c)
      PROVE  m.versions[x] = NoRow
  <2>1. x \in Coords /\ copies[c][x] = NoRow
    BY <1>5 DEF Held, VersionsOf
  <2> QED
    BY <1>2, <1>3, <2>1, CopyType DEF Stored
<1> QED
  BY <1>4, <1>5

-----------------------------------------------------------------------------
(* Every step keeps what calls hold and claim *)

\* A writer's commit is one more moment of every call in flight.
LEMMA WriterKeeps == ASSUME TypeOK, Writer, NEW c \in Calls, Holds(c) PROVE Holds(c)'
<1>1. PICK d \in Tables : Commit(d)
  BY CommitType
<1>2. /\ moments'[c] = IF c \in InFlight THEN moments[c] \cup {d} ELSE moments[c]
      /\ db' = d /\ UNCHANGED <<audit, pc, session, outcome>>
  BY <1>1 DEF Commit
<1>3. \A verdict \in AnyVerdict : Recorded(c, verdict)' <=> Recorded(c, verdict)
  BY <1>2 DEF Recorded
<1> QED
  BY <1>2, <1>3, Frame DEF session, outcome

\* A step of a call writes only what is its own.
LEMMA OwnOnly ==
    ASSUME TypeOK, NEW c \in Calls, Call(c), NEW d \in Calls, d # c
    PROVE  /\ pc'[d] = pc[d] /\ req'[d] = req[d] /\ copies'[d] = copies[d]
           /\ rules'[d] = rules[d] /\ result'[d] = result[d] /\ answer'[d] = answer[d]
           /\ moments'[d] = moments[d] /\ db' = db
           /\ \A verdict \in AnyVerdict : Recorded(d, verdict)' <=> Recorded(d, verdict)
<1> DEFINE Apart == /\ pc'[d] = pc[d] /\ req'[d] = req[d] /\ copies'[d] = copies[d]
                    /\ rules'[d] = rules[d] /\ result'[d] = result[d] /\ answer'[d] = answer[d]
                    /\ moments'[d] = moments[d] /\ db' = db
<1> DEFINE Unrecorded == audit' = audit \/ \E verdict \in AnyVerdict : Record(c, verdict)
<1>1. ASSUME Unrecorded
      PROVE  \A verdict \in AnyVerdict : Recorded(d, verdict)' <=> Recorded(d, verdict)
  BY <1>1 DEF Recorded, Record
<1>2. ASSUME NEW how, NEW S, Finish(c, how, S) PROVE Apart
  BY <1>2 DEF Finish, TypeOK
<1>3. ASSUME NEW phase, Goto(c, phase), copies'[d] = copies[d], rules'[d] = rules[d] PROVE Apart
  BY <1>3 DEF Goto, outcome, TypeOK
<1>4. Judged(c, Coord(c)) \in AnyVerdict
  BY VerdictType DEF Judged, AnyVerdict
<1>5. {"allowed", "airlock", "listed"} \subseteq AnyVerdict
  BY DEF AnyVerdict, Verdicts
<1>6. CASE Begin(c) \/ Forbid(c)
  BY <1>1, <1>6 DEF Begin, Forbid, outcome, TypeOK
<1>7. CASE Abort(c) \/ VersionNotFound(c) \/ SkillNotFound(c) \/ HideSkill(c) \/ ListCatalog(c)
           \/ SendContent(c) \/ SkipCard(c) \/ ShowCard(c)
  <2>1. audit' = audit /\ Apart
    BY <1>7, <1>2 DEF Abort, VersionNotFound, SkillNotFound, HideSkill, ListCatalog, SendContent,
       SkipCard, ShowCard
  <2> QED
    BY <1>1, <2>1
<1>8. CASE ReadVersion(c) \/ ReadVersions(c) \/ LoadPack(c) \/ RecordInstall(c)
  <2>1. audit' = audit /\ copies'[d] = copies[d] /\ rules'[d] = rules[d]
    BY <1>8 DEF ReadVersion, ReadVersions, LoadPack, RecordInstall, TypeOK
  <2>2. Apart
    BY <1>8, <1>3, <2>1 DEF ReadVersion, ReadVersions, LoadPack, RecordInstall
  <2> QED
    BY <1>1, <2>1, <2>2
<1>9. CASE DenyRead(c) \/ DenyVisibility(c) \/ AllowRead(c) \/ ListVersions(c)
  <2>1. Apart
    BY <1>9, <1>2, <1>3 DEF DenyRead, DenyVisibility, AllowRead, ListVersions
  <2>2. Unrecorded
    BY <1>9, <1>4, <1>5 DEF DenyRead, DenyVisibility, AllowRead, ListVersions
  <2> QED
    BY <1>1, <2>1, <2>2
<1> QED
  BY <1>6, <1>7, <1>8, <1>9 DEF Call

LEMMA OthersKeep ==
    ASSUME TypeOK, NEW c \in Calls, Call(c), NEW d \in Calls, d # c, Holds(d) PROVE Holds(d)'
<1>1. d \in InFlight => db \in moments[d]
  BY DEF Holds
<1> QED
  BY <1>1, OwnOnly, Frame

\* The steps of an exact read.
LEMMA ExactKeeps ==
    ASSUME TypeOK, NEW c \in Calls, Holds(c), req[c] \in Request,
           VersionNotFound(c) \/ ReadVersion(c) \/ DenyRead(c) \/ DenyVisibility(c)
             \/ AllowRead(c) \/ RecordInstall(c) \/ SendContent(c)
    PROVE  Holds(c)'
<1> USE VerdictKinds
<1>1. c \in InFlight /\ req[c].kind \in ExactKinds /\ req[c].kind # "versions" /\ RecordedTruly(c)
  BY DEF VersionNotFound, ReadVersion, DenyRead, DenyVisibility, AllowRead, RecordInstall,
     SendContent, At, InFlight, ExactKinds, Holds, Claims
<1>2. db \in moments[c]
  BY <1>1 DEF Holds
<1>3. CASE VersionNotFound(c)
  <2>1. Finish(c, "not_found", {}) /\ audit' = audit /\ db.versions[Coord(c)] = NoRow
    BY <1>3 DEF VersionNotFound
  <2>2. RecordedTruly(c)'
    BY <2>1, <1>1, Finished, TrailKept
  <2>3. Claims(c)'
    BY <2>1, <2>2, <1>1, <1>2, Finished
    DEF Claims, AnsweredVisibly, DeniedDuly, AbsentDuly, OutcomeRecorded
  <2> QED
    BY <2>1, <2>3, Finished
<1>4. CASE ReadVersion(c)
  <2>1. Goto(c, "audit") /\ audit' = audit /\ db.versions[Coord(c)] # NoRow
    BY <1>4 DEF ReadVersion
  <2>2. Claims(c)'
    BY <2>1, <1>1, GoesOn, TrailKept
  <2>3. copies'[c] = CopiesOf(db, {Coord(c)}) /\ rules'[c] = db.packs
    BY <1>4 DEF ReadVersion, TypeOK
  <2>4. copies'[c][Coord(c)] = CopyOf(db, Coord(c))
    BY <2>3, CoordType DEF CopiesOf
  <2>5. ExactSeen(c)'
    BY <2>1, <2>3, <2>4, <1>1, <1>2, GoesOn DEF ExactSeen
  <2> QED
    BY <2>1, <2>2, <2>5, <1>1, GoesOn DEF Holds
<1>5. ASSUME pc[c] = "audit"
      PROVE  \E m \in moments[c] : /\ m.versions[Coord(c)] # NoRow
                                   /\ VerdictAt(c, m, m, Coord(c)) = Judged(c, Coord(c))
  BY <1>5, ExactJudgement DEF Holds
<1>6. Judged(c, Coord(c)) \in Verdicts
  BY VerdictType DEF Judged
<1>7. CASE DenyRead(c)
  <2>0. PICK verdict \in Verdicts : verdict = Judged(c, Coord(c))
    BY <1>6
  <2>1. pc[c] = "audit" /\ verdict # "allowed" /\ Record(c, verdict) /\ verdict \in AnyVerdict
    BY <1>7, <2>0 DEF DenyRead, At, AnyVerdict
  <2>2. PICK m \in moments[c] :
          m.versions[Coord(c)] # NoRow /\ VerdictAt(c, m, m, Coord(c)) = verdict
    BY <2>0, <2>1, <1>5
  <2>3. CASE Goto(c, "airlock") /\ UNCHANGED <<copies, rules>> /\ verdict \in AirlockCodes
    <3>1. req'[c] = req[c] /\ moments'[c] = moments[c]
      BY <2>3, <1>1, GoesOn
    <3>2. RecordedTruly(c)' /\ Recorded(c, verdict)'
      BY <3>1, <2>1, <2>2, <2>3, <1>1, RecordTruth
    <3>3. ExactSeen(c)'
      BY <2>1, <2>3, <3>1, <1>1, GoesOn DEF Holds, ExactSeen
    <3> QED
      BY <2>3, <3>1, <3>2, <3>3, <1>1, GoesOn DEF Holds
  <2>4. CASE Finish(c, "denied", {}) /\ verdict \notin AirlockCodes
    <3>1. req'[c] = req[c] /\ moments'[c] = moments[c]
      BY <2>4, Finished
    <3>2. RecordedTruly(c)' /\ Recorded(c, verdict)'
      BY <3>1, <2>1, <2>2, <2>4, <1>1, RecordTruth
    <3>3. DeniedDuly(c)'
      BY <2>1, <2>2, <2>4, <3>1, Finished DEF DeniedDuly
    <3>4. Claims(c)'
      BY <2>1, <2>4, <3>2, <3>3, Finished DEF Claims, AnsweredVisibly, AbsentDuly, OutcomeRecorded
    <3> QED
      BY <2>4, <3>4, Finished
  <2> QED
    BY <1>7, <2>0, <2>3, <2>4 DEF DenyRead
<1>8. CASE DenyVisibility(c)
  <2>1. /\ pc[c] = "airlock" /\ Record(c, "airlock") /\ Finish(c, "denied", {})
        /\ "airlock" \in AnyVerdict
    BY <1>8 DEF DenyVisibility, At, AnyVerdict
  <2>2. PICK verdict \in AirlockCodes : Recorded(c, verdict)
    BY <2>1 DEF Holds
  <2>3. PICK m \in moments[c] :
          m.versions[Coord(c)] # NoRow /\ VerdictAt(c, m, m, Coord(c)) = verdict
    BY <2>2, <1>1 DEF RecordedTruly
  <2>4. req'[c] = req[c] /\ moments'[c] = moments[c]
    BY <2>1, Finished
  <2>5. RecordedTruly(c)' /\ Recorded(c, "airlock")' /\ Recorded(c, verdict)'
    BY <2>1, <2>2, <2>4, <1>1, RecordTruth DEF AnyVerdict
  <2>6. DeniedDuly(c)'
    BY <2>1, <2>3, <2>4, Finished DEF DeniedDuly
  <2>7. Claims(c)'
    BY <2>1, <2>5, <2>6, Finished DEF Claims, AnsweredVisibly, AbsentDuly, OutcomeRecorded
  <2> QED
    BY <2>1, <2>7, Finished
<1>9. CASE AllowRead(c)
  <2>1. /\ pc[c] = "audit" /\ Judged(c, Coord(c)) = "allowed" /\ Record(c, "allowed")
        /\ "allowed" \in AnyVerdict
    BY <1>9 DEF AllowRead, At, AnyVerdict
  <2>2. PICK m \in moments[c] :
          m.versions[Coord(c)] # NoRow /\ VerdictAt(c, m, m, Coord(c)) = "allowed"
    BY <2>1, <1>5
  <2>3. CASE Goto(c, "install") /\ UNCHANGED <<copies, rules>>
    <3>1. req'[c] = req[c] /\ moments'[c] = moments[c]
      BY <2>3, <1>1, GoesOn
    <3>2. RecordedTruly(c)' /\ Recorded(c, "allowed")'
      BY <3>1, <2>1, <2>2, <1>1, RecordTruth
    <3>3. ExactSeen(c)'
      BY <2>1, <2>3, <3>1, <1>1, GoesOn DEF Holds, ExactSeen
    <3> QED
      BY <2>3, <3>1, <3>2, <3>3, <1>1, GoesOn DEF Holds
  <2>4. CASE Finish(c, "answered", {Coord(c)})
    <3>1. req'[c] = req[c] /\ moments'[c] = moments[c]
      BY <2>4, Finished
    <3>2. RecordedTruly(c)' /\ Recorded(c, "allowed")'
      BY <3>1, <2>1, <2>2, <1>1, RecordTruth
    <3>3. AnsweredVisibly(c)'
      BY <2>2, <2>4, <3>1, Finished DEF AnsweredVisibly
    <3>4. Claims(c)'
      BY <2>4, <3>2, <3>3, Finished DEF Claims, DeniedDuly, AbsentDuly, OutcomeRecorded
    <3> QED
      BY <2>4, <3>4, Finished
  <2> QED
    BY <1>9, <2>3, <2>4 DEF AllowRead
<1>10. CASE RecordInstall(c)
  <2>1. pc[c] = "install" /\ Goto(c, "send") /\ UNCHANGED <<audit, copies, rules>>
    BY <1>10 DEF RecordInstall, At
  <2>2. RecordedTruly(c)' /\ Recorded(c, "allowed")'
    BY <2>1, <1>1, GoesOn, TrailKept DEF Holds
  <2>3. ExactSeen(c)'
    BY <2>1, <1>1, GoesOn DEF Holds, ExactSeen
  <2> QED
    BY <2>1, <2>2, <2>3, <1>1, GoesOn DEF Holds
<1>11. CASE SendContent(c)
  <2>1. pc[c] = "send" /\ Finish(c, "answered", {Coord(c)}) /\ audit' = audit
    BY <1>11 DEF SendContent, At
  <2>2. Recorded(c, "allowed")
    BY <2>1 DEF Holds
  <2>3. PICK m \in moments[c] :
          m.versions[Coord(c)] # NoRow /\ VerdictAt(c, m, m, Coord(c)) = "allowed"
    BY <2>2, <1>1 DEF RecordedTruly
  <2>4. RecordedTruly(c)' /\ Recorded(c, "allowed")'
    BY <2>1, <2>2, <1>1, Finished, TrailKept
  <2>5. AnsweredVisibly(c)'
    BY <2>1, <2>3, Finished DEF AnsweredVisibly
  <2>6. Claims(c)'
    BY <2>1, <2>4, <2>5, Finished DEF Claims, DeniedDuly, AbsentDuly, OutcomeRecorded
  <2> QED
    BY <2>1, <2>6, Finished
<1> QED
  BY <1>3, <1>4, <1>7, <1>8, <1>9, <1>10, <1>11

\* The steps of a version list, of the catalogue and of a card.
LEMMA ListKeeps ==
    ASSUME TypeOK, NEW c \in Calls, Holds(c), req[c] \in Request,
           SkillNotFound(c) \/ ReadVersions(c) \/ LoadPack(c) \/ HideSkill(c) \/ ListVersions(c)
             \/ ListCatalog(c) \/ SkipCard(c) \/ ShowCard(c)
    PROVE  Holds(c)'
<1> USE VerdictKinds
<1>1. /\ c \in InFlight /\ RecordedTruly(c) /\ req[c].kind \in {"versions", "catalog", "card"}
      /\ SkillNotFound(c) \/ HideSkill(c) \/ ListVersions(c) => req[c].kind = "versions"
      /\ ListCatalog(c) \/ ShowCard(c) => req[c].kind # "versions"
      /\ db \in moments[c]
  BY DEF SkillNotFound, ReadVersions, LoadPack, HideSkill, ListVersions, ListCatalog, SkipCard,
     ShowCard, At,
     InFlight, Holds, Claims
<1>2. req[c].kind \notin ExactKinds
  BY <1>1 DEF ExactKinds
<1>3. ASSUME pc[c] = "packs", Missing(c) = {}
      PROVE  /\ \A x \in Held(c) : \E m \in moments[c], n \in moments[c] :
                  m.versions[x] # NoRow /\ VerdictAt(c, m, n, x) = Judged(c, x)
             /\ \A x \in VersionsOf(req[c].slug) : x \notin Held(c) =>
                  \E m \in moments[c] : m.versions[x] = NoRow
  BY <1>3, ListJudgement DEF Holds
<1>4. ASSUME NEW S, Finish(c, "not_found", S), audit' = audit, AnsweredVisibly(c)', AbsentDuly(c)'
      PROVE  Holds(c)'
  <2>1. RecordedTruly(c)'
    BY <1>4, <1>1, Finished, TrailKept
  <2>2. Claims(c)'
    BY <1>4, <2>1, Finished DEF Claims, DeniedDuly, OutcomeRecorded
  <2> QED
    BY <1>4, <2>2, Finished
<1>5. ASSUME NEW S, Finish(c, "answered", S), AnsweredVisibly(c)', RecordedTruly(c)'
      PROVE  Holds(c)'
  <2>1. Claims(c)'
    BY <1>5, <1>2, Finished DEF Claims, DeniedDuly, AbsentDuly, OutcomeRecorded
  <2> QED
    BY <1>5, <2>1, Finished
<1>6. CASE SkillNotFound(c)
  <2>1. Finish(c, "not_found", {}) /\ audit' = audit /\ Stored(db, VersionsOf(req[c].slug)) = {}
    BY <1>6 DEF SkillNotFound
  <2>2. \A x \in VersionsOf(req[c].slug) : db.versions[x] = NoRow
    BY <2>1 DEF Stored
  <2>3. AbsentDuly(c)'
    BY <2>1, <2>2, <1>1, <1>6, Finished DEF AbsentDuly, SkillNotFound, At, VersionsOf
  <2> QED
    BY <2>1, <2>3, <1>4, Finished DEF AnsweredVisibly
<1>7. CASE ReadVersions(c)
  <2> DEFINE S == Stored(db, VersionsOf(req[c].slug))
  <2>1. /\ Goto(c, "packs") /\ audit' = audit /\ req[c].kind \in {"versions", "card"}
        /\ copies'[c] = CopiesOf(db, S)
        /\ rules'[c] = [NoRules EXCEPT ![NoPack] = OpenRules]
    BY <1>7 DEF ReadVersions, At, TypeOK
  <2>2. Claims(c)'
    BY <2>1, <1>1, GoesOn, TrailKept
  <2>3. \A p \in Packs : rules'[c][p] # NoRow => rules'[c][p] = db.packs[p]
    BY <2>1, ReadsAssumption DEF NoRules, TypeOK
  <2>4. ListSeen(c)'
    BY <2>1, <2>3, <1>1, GoesOn DEF ListSeen
  <2> QED
    BY <2>1, <2>2, <2>4, <1>1, GoesOn DEF Holds
<1>8. CASE LoadPack(c)
  <2>1. PICK p \in Missing(c) : rules' = [rules EXCEPT ![c] = [@ EXCEPT ![p] = db.packs[p]]]
    BY <1>8 DEF LoadPack
  <2>2. /\ pc[c] = "packs" /\ Goto(c, "packs") /\ audit' = audit /\ copies' = copies
        /\ req[c].kind \in {"versions", "card"} /\ ListSeen(c)
    BY <1>8 DEF LoadPack, At, Holds
  <2>3. Claims(c)'
    BY <2>2, <1>1, GoesOn, TrailKept
  <2>4. \A q \in Packs : rules'[c][q] = IF q = p THEN db.packs[p] ELSE rules[c][q]
    BY <2>1 DEF TypeOK
  <2>5. ListSeen(c)'
    BY <2>2, <2>4, <1>1, GoesOn DEF ListSeen
  <2> QED
    BY <2>2, <2>3, <2>5, <1>1, GoesOn DEF Holds
<1>9. CASE HideSkill(c)
  <2>1. /\ pc[c] = "packs" /\ Missing(c) = {} /\ VisibleCopies(c) = {}
        /\ Finish(c, "not_found", {}) /\ audit' = audit
    BY <1>9 DEF HideSkill, At
  <2>2. \A x \in VersionsOf(req[c].slug) : \E m \in moments[c], n \in moments[c] :
          m.versions[x] = NoRow \/ VerdictAt(c, m, n, x) # "allowed"
    BY <2>1, <1>3 DEF VisibleCopies
  <2>3. AbsentDuly(c)'
    BY <2>1, <2>2, <1>1, <1>9, Finished DEF AbsentDuly, HideSkill, At, VersionsOf
  <2> QED
    BY <2>1, <2>3, <1>4, Finished DEF AnsweredVisibly
<1>10. CASE ListVersions(c)
  <2>1. /\ pc[c] = "packs" /\ Missing(c) = {} /\ req[c].kind = "versions"
        /\ Record(c, "listed") /\ Finish(c, "answered", VisibleCopies(c))
        /\ "listed" \in AnyVerdict
    BY <1>10 DEF ListVersions, At, AnyVerdict
  <2>2. req'[c] = req[c] /\ moments'[c] = moments[c]
    BY <2>1, Finished
  <2>3. RecordedTruly(c)'
    BY <2>1, <2>2, <1>1, RecordTruth
  <2>4. \A x \in VisibleCopies(c) : \E m \in moments[c], n \in moments[c] :
          m.versions[x] # NoRow /\ VerdictAt(c, m, n, x) = "allowed"
    BY <2>1, <1>3 DEF VisibleCopies
  <2>5. AnsweredVisibly(c)'
    BY <2>1, <2>4, Finished DEF AnsweredVisibly
  <2> QED
    BY <2>1, <2>3, <2>5, <1>5
<1>11. CASE ListCatalog(c)
  <2> DEFINE S == {x \in Defaults(db.versions, Stored(db, Coords)) :
                     IsVisible(req[c].caller, CopyOf(db, x), db.packs[db.versions[x].gov.pack])}
  <2>1. Finish(c, "answered", S) /\ audit' = audit
    BY <1>11 DEF ListCatalog
  <2>2. \A x \in S : db.versions[x] # NoRow /\ VerdictAt(c, db, db, x) = "allowed"
    BY DEF Defaults, Stored, VerdictAt, IsVisible
  <2> HIDE DEF S
  <2>3. RecordedTruly(c)'
    BY <2>1, <1>1, Finished, TrailKept
  <2>4. AnsweredVisibly(c)'
    BY <2>1, <2>2, <1>1, Finished DEF AnsweredVisibly
  <2> QED
    BY <2>1, <2>3, <2>4, <1>5
<1>12. CASE SkipCard(c)
  <2>1. Finish(c, "answered", {}) /\ audit' = audit
    BY <1>12 DEF SkipCard
  <2>2. RecordedTruly(c)'
    BY <2>1, <1>1, Finished, TrailKept
  <2>3. AnsweredVisibly(c)'
    BY <2>1, Finished DEF AnsweredVisibly
  <2> QED
    BY <2>1, <2>2, <2>3, <1>5
<1>13. CASE ShowCard(c)
  <2>1. PICK x \in Defaults(copies[c], VisibleCopies(c)) :
          Finish(c, "answered",
                 {y \in Stored(db, {x}) :
                    IsVisible(req[c].caller, CopyOf(db, y), db.packs[db.versions[y].gov.pack])})
    BY <1>13 DEF ShowCard
  <2> DEFINE S == {y \in Stored(db, {x}) :
                     IsVisible(req[c].caller, CopyOf(db, y), db.packs[db.versions[y].gov.pack])}
  <2>2. Finish(c, "answered", S) /\ audit' = audit
    BY <1>13, <2>1 DEF ShowCard
  <2>3. \A y \in S : db.versions[y] # NoRow /\ VerdictAt(c, db, db, y) = "allowed"
    BY DEF Stored, VerdictAt, IsVisible
  <2> HIDE DEF S
  <2>4. RecordedTruly(c)'
    BY <2>2, <1>1, Finished, TrailKept
  <2>5. AnsweredVisibly(c)'
    BY <2>2, <2>3, <1>1, Finished DEF AnsweredVisibly
  <2> QED
    BY <2>2, <2>4, <2>5, <1>5
<1> QED
  BY <1>6, <1>7, <1>8, <1>9, <1>10, <1>11, <1>12, <1>13

LEMMA CallKeeps == ASSUME TypeOK, NEW c \in Calls, Call(c), Holds(c) PROVE Holds(c)'
<1> USE VerdictKinds
<1>1. ASSUME pc[c] = "idle", audit' = audit, answer'[c] = answer[c], pc'[c] \in {"read", "done"},
             pc'[c] = "read" => db' = db /\ moments'[c] = {db},
             pc'[c] = "done" => result'[c] = "forbidden"
      PROVE  Holds(c)'
  <2>1. \A verdict \in AnyVerdict : ~ Recorded(c, verdict)'
    BY <1>1 DEF Holds, Recorded
  <2>2. answer'[c] = {}
    BY <1>1 DEF Holds
  <2>3. RecordedTruly(c)'
    BY <2>1 DEF RecordedTruly, AnyVerdict
  <2>4. Claims(c)'
    BY <1>1, <2>2, <2>3
    DEF Claims, AnsweredVisibly, DeniedDuly, AbsentDuly, OutcomeRecorded, Ended
  <2> QED
    BY <1>1, <2>2, <2>4 DEF Holds, InFlight
<1>2. CASE Begin(c)
  BY <1>1, <1>2 DEF Begin, outcome, TypeOK
<1>3. CASE Forbid(c)
  BY <1>1, <1>3 DEF Forbid, TypeOK
<1>4. CASE Abort(c)
  <2>1. Finish(c, "failed", {}) /\ audit' = audit /\ RecordedTruly(c)
    BY <1>4 DEF Abort, Holds, Claims
  <2>2. RecordedTruly(c)'
    BY <2>1, Finished, TrailKept
  <2>3. Claims(c)'
    BY <2>1, <2>2, Finished DEF Claims, AnsweredVisibly, DeniedDuly, AbsentDuly, OutcomeRecorded
  <2> QED
    BY <2>1, <2>3, Finished
<1> SUFFICES ASSUME ~ Begin(c), ~ Forbid(c), ~ Abort(c) PROVE Holds(c)'
  BY <1>2, <1>3, <1>4
<1>5. req[c] \in Request
  BY DEF Call, VersionNotFound, ReadVersion, DenyRead, DenyVisibility, AllowRead, RecordInstall,
     SendContent, SkillNotFound, ReadVersions, LoadPack, HideSkill, ListVersions, ListCatalog,
     SkipCard, ShowCard, At, TypeOK
<1> QED
  BY <1>5, ExactKeeps, ListKeeps DEF Call

LEMMA HoldsAlways == Spec => [](\A c \in Calls : Holds(c))
<1> DEFINE AllHold == \A c \in Calls : Holds(c)
<1>1. Init => AllHold
  BY DEF Init, Holds, Claims, AnsweredVisibly, DeniedDuly, AbsentDuly, RecordedTruly,
     OutcomeRecorded, Ended, Recorded, InFlight
<1>2. TypeOK /\ AllHold /\ [Next]_vars => AllHold'
  <2> SUFFICES ASSUME TypeOK, AllHold, [Next]_vars, NEW c \in Calls PROVE Holds(c)'
    OBVIOUS
  <2>1. ASSUME NEW d \in Calls, Call(d) PROVE Holds(c)'
    BY <2>1, CallKeeps, OthersKeep
  <2>2. CASE Writer
    BY <2>2, WriterKeeps
  <2>3. CASE UNCHANGED vars
    <3>1. \A verdict \in AnyVerdict : Recorded(c, verdict)' <=> Recorded(c, verdict)
      BY <2>3 DEF vars, Recorded
    <3>2. c \in InFlight => db \in moments[c]
      BY DEF Holds
    <3> QED
      BY <2>3, <3>1, <3>2, Frame DEF vars, session, outcome
  <2> QED
    BY <2>1, <2>2, <2>3 DEF Next
<1> QED
  BY <1>1, <1>2, TypeCorrect, PTL DEF Spec

\* Whatever writers do between the steps of a call, and whichever step fails: what a read
\* answers was visible, what it refuses was not, and the trail says what policy said.
THEOREM Visibility == Spec => [](AnswersWereVisible /\ RefusalsWereDue /\ AuditTellsTruth)
<1>1. (\A c \in Calls : Holds(c)) => AnswersWereVisible /\ RefusalsWereDue /\ AuditTellsTruth
  BY DEF Holds, Claims, AnswersWereVisible, RefusalsWereDue, AuditTellsTruth
<1> QED
  BY <1>1, HoldsAlways, PTL

\* A denial or an absence that a read answers was true at some moment of the read.
THEOREM RefusalsDue == Spec => []RefusalsWereDue
BY Visibility, PTL

\* What the audit trail says of a read was policy's word on rows the read has seen.
THEOREM AuditTruth == Spec => []AuditTellsTruth
BY Visibility, PTL

-----------------------------------------------------------------------------
(* Downloads and installs *)

Begun == {c \in Calls : pc[c] # "idle"}

\* The call has been allowed, and may have been counted.
Committed(c) == pc[c] \in {"send", "done"} /\ req[c].kind = "content" /\ Recorded(c, "allowed")

\* The call has been counted.
Served(c) == req[c].kind = "content" /\ (pc[c] = "send" \/ Ended(c, "answered"))

\* K are the calls that the counter of s stands for.
Tally(s, K) ==
    /\ IsFiniteSet(K) /\ Cardinality(K) = installs[s]
    /\ \A c \in K : Committed(c) /\ req[c].slug = s
    /\ \A c \in Calls : Served(c) /\ req[c].slug = s => c \in K

Tallied == IsFiniteSet(Begun) /\ \A s \in Slugs : \E K \in SUBSET Calls : Tally(s, K)

\* The counter moves only in RecordInstall.
LEMMA CounterMoves ==
    ASSUME [Next]_vars PROVE installs' = installs \/ \E c \in Calls : RecordInstall(c)
BY DEF Next, Call, Writer, Begin, Forbid, Abort, VersionNotFound, ReadVersion, DenyRead,
   DenyVisibility, AllowRead, SendContent, SkillNotFound, ReadVersions, LoadPack, HideSkill,
   ListVersions, ListCatalog, SkipCard, ShowCard, PublishVersion, UpdateVersionStatus, UpdateVersionGovernance,
   UpdateSkillOwnership, UpsertPolicyPack, Put, Commit, vars

\* A writer's step, or none, leaves what calls have done.
LEMMA Bystanding ==
    ASSUME [Next]_vars, ~ \E c \in Calls : Call(c)
    PROVE  UNCHANGED <<pc, req, result, audit>>
<1>1. CASE Writer
  BY <1>1 DEF Writer, PublishVersion, UpdateVersionStatus, UpdateVersionGovernance,
     UpdateSkillOwnership, UpsertPolicyPack, Put, Commit, session, outcome
<1>2. CASE UNCHANGED vars
  BY <1>2 DEF vars, session, outcome
<1> QED
  BY <1>1, <1>2 DEF Next

\* A call counted stays counted, and is counted only by its own RecordInstall.
LEMMA StepOf ==
    ASSUME TypeOK, [Next]_vars, NEW d \in Calls
    PROVE  /\ Committed(d) => Committed(d)' /\ req'[d] = req[d]
           /\ Served(d)' /\ ~ RecordInstall(d) => Served(d) /\ req'[d] = req[d]
<1>1. ASSUME pc'[d] = pc[d], req'[d] = req[d], result'[d] = result[d],
             Recorded(d, "allowed")' <=> Recorded(d, "allowed")
      PROVE  /\ Committed(d) => Committed(d)' /\ req'[d] = req[d]
             /\ Served(d)' => Served(d) /\ req'[d] = req[d]
  BY <1>1 DEF Committed, Served, Ended
<1>2. CASE ~ \E c \in Calls : Call(c)
  BY <1>1, <1>2, Bystanding DEF Recorded
<1>3. ASSUME NEW c \in Calls, Call(c), c # d
      PROVE  /\ Committed(d) => Committed(d)' /\ req'[d] = req[d]
             /\ Served(d)' => Served(d) /\ req'[d] = req[d]
  BY <1>1, <1>3, OwnOnly, VerdictKinds DEF AnyVerdict
<1>4. CASE Call(d)
  <2>1. Recorded(d, "allowed") => Recorded(d, "allowed")'
    BY <1>4 DEF Call, Begin, Forbid, Abort, VersionNotFound, ReadVersion, DenyRead,
       DenyVisibility, AllowRead, RecordInstall, SendContent, SkillNotFound, ReadVersions,
       LoadPack, HideSkill, ListVersions, ListCatalog, SkipCard, ShowCard, Record, Recorded
  <2>2. ASSUME NEW how, NEW S, Finish(d, how, S)
        PROVE  pc'[d] = "done" /\ req'[d] = req[d] /\ result'[d] = how
    BY <2>2 DEF Finish, TypeOK
  <2>3. ASSUME NEW phase, Goto(d, phase) PROVE pc'[d] = phase /\ req'[d] = req[d]
    BY <2>3 DEF Goto, TypeOK
  <2>4. CASE Begin(d) \/ Forbid(d)
    BY <2>4 DEF Begin, Forbid, Committed, Served, Ended, TypeOK
  <2>5. CASE Abort(d)
    BY <2>5, <2>1, <2>2 DEF Abort, Committed, Served, Ended
  <2>6. CASE VersionNotFound(d) \/ SkillNotFound(d) \/ HideSkill(d) \/ DenyVisibility(d)
    BY <2>6, <2>2 DEF VersionNotFound, SkillNotFound, HideSkill, DenyVisibility, At, Committed,
       Served, Ended
  <2>7. CASE ReadVersion(d) \/ ReadVersions(d) \/ LoadPack(d)
    BY <2>7, <2>3 DEF ReadVersion, ReadVersions, LoadPack, At, Committed, Served, Ended
  <2>8. CASE DenyRead(d) \/ AllowRead(d)
    BY <2>8, <2>2, <2>3 DEF DenyRead, AllowRead, At, Committed, Served, Ended
  <2>9. CASE RecordInstall(d)
    BY <2>9, <2>3 DEF RecordInstall, At, Committed
  <2>10. CASE SendContent(d)
    BY <2>10, <2>1, <2>2 DEF SendContent, At, Committed, Served
  <2>11. CASE ListVersions(d) \/ ListCatalog(d) \/ SkipCard(d) \/ ShowCard(d)
    BY <2>11, <2>2 DEF ListVersions, ListCatalog, SkipCard, ShowCard, At, Committed, Served, Ended
  <2> QED
    BY <1>4, <2>4, <2>5, <2>6, <2>7, <2>8, <2>9, <2>10, <2>11 DEF Call
<1> QED
  BY <1>2, <1>3, <1>4

\* Each step begins at most one call.
LEMMA BegunFinite == ASSUME TypeOK, [Next]_vars, IsFiniteSet(Begun) PROVE IsFiniteSet(Begun')
<1>1. CASE ~ \E c \in Calls : Call(c)
  <2>1. Begun' = Begun
    BY <1>1, Bystanding DEF Begun
  <2> QED
    BY <2>1
<1>2. ASSUME NEW c \in Calls, Call(c) PROVE IsFiniteSet(Begun')
  <2>1. Begun' \subseteq Begun \cup {c}
    BY <1>2, OwnOnly DEF Begun
  <2>2. IsFiniteSet(Begun \cup {c})
    BY FS_AddElement
  <2> QED
    BY <2>1, <2>2, FS_Subset
<1> QED
  BY <1>1, <1>2

\* Every download answered is an install, and every install a download that was allowed,
\* however downloads of a skill overlap and whichever of their steps fails.
THEOREM Downloads == Spec => []DownloadsAccounted
<1>1. Init => Tallied
  <2> SUFFICES ASSUME Init PROVE Tallied
    OBVIOUS
  <2>1. Begun = {}
    BY DEF Init, Begun
  <2>2. ASSUME NEW s \in Slugs PROVE Tally(s, {})
    BY FS_EmptySet DEF Init, Tally, Served, Ended
  <2> QED
    BY <2>1, <2>2, FS_EmptySet DEF Tallied
<1>2. TypeOK /\ (\A c \in Calls : Holds(c)) /\ Tallied /\ [Next]_vars => Tallied'
  <2> SUFFICES ASSUME TypeOK, \A c \in Calls : Holds(c), Tallied, [Next]_vars, NEW s \in Slugs
               PROVE  \E K \in SUBSET Calls : Tally(s, K)'
    BY BegunFinite DEF Tallied
  <2>1. PICK K \in SUBSET Calls : Tally(s, K)
    BY DEF Tallied
  <2>2. CASE ~ \E c \in Calls : RecordInstall(c)
    <3>1. installs' = installs
      BY <2>2, CounterMoves
    <3>2. \A c \in K : (Committed(c) /\ req[c].slug = s)'
      BY <2>1, StepOf DEF Tally
    <3>3. \A c \in Calls : (Served(c) /\ req[c].slug = s)' => c \in K
      BY <2>1, <2>2, StepOf DEF Tally
    <3>4. Tally(s, K)'
      BY <2>1, <3>1, <3>2, <3>3 DEF Tally
    <3> QED
      BY <3>4
  <2>3. ASSUME NEW c \in Calls, RecordInstall(c) PROVE \E L \in SUBSET Calls : Tally(s, L)'
    <3>1. /\ pc[c] = "install" /\ req[c].kind = "content"
          /\ pc' = [pc EXCEPT ![c] = "send"] /\ req' = req /\ audit' = audit
          /\ installs' = [installs EXCEPT ![req[c].slug] = @ + 1]
      BY <2>3 DEF RecordInstall, At, Goto
    <3>2. \A d \in Calls : d # c => ~ RecordInstall(d)
      BY <3>1 DEF RecordInstall, At, Goto, TypeOK
    <3>3. Committed(c)'
      BY <3>1 DEF Holds, Committed, Recorded, TypeOK
    <3>4. \A d \in K : (Committed(d) /\ req[d].slug = s)'
      BY <2>1, StepOf DEF Tally
    <3>5. \A d \in Calls : (Served(d) /\ req[d].slug = s)' => d = c \/ d \in K
      BY <2>1, <3>2, StepOf DEF Tally
    <3>6. c \notin K
      BY <2>1, <3>1 DEF Tally, Committed
    <3>7. CASE req[c].slug = s
      <4>1. IsFiniteSet(K \cup {c}) /\ Cardinality(K \cup {c}) = installs'[s]
        BY <2>1, <3>1, <3>6, <3>7, FS_AddElement DEF Tally, TypeOK
      <4>2. Tally(s, K \cup {c})'
        BY <4>1, <3>1, <3>3, <3>4, <3>5, <3>7 DEF Tally
      <4> QED
        BY <4>2
    <3>8. CASE req[c].slug # s
      <4>1. installs'[s] = installs[s]
        BY <3>1, <3>8 DEF TypeOK
      <4>2. Tally(s, K)'
        BY <2>1, <4>1, <3>1, <3>4, <3>5, <3>8 DEF Tally
      <4> QED
        BY <4>2
    <3> QED
      BY <3>7, <3>8
  <2> QED
    BY <2>2, <2>3
<1>3. TypeOK /\ Tallied => DownloadsAccounted
  <2> SUFFICES ASSUME TypeOK, Tallied, NEW s \in Slugs
               PROVE  LET downloads == {c \in Calls : pc[c] # "idle" /\ req[c].kind = "content"
                                                      /\ req[c].slug = s}
                      IN  /\ installs[s] >= Cardinality({c \in downloads : Ended(c, "answered")})
                          /\ installs[s] <= Cardinality({c \in downloads : Recorded(c, "allowed")})
    BY DEF DownloadsAccounted
  <2> DEFINE downloads == {c \in Calls : pc[c] # "idle" /\ req[c].kind = "content"
                                         /\ req[c].slug = s}
             answered == {c \in downloads : Ended(c, "answered")}
             allowed == {c \in downloads : Recorded(c, "allowed")}
  <2>1. PICK K \in SUBSET Calls : Tally(s, K)
    BY DEF Tallied
  <2>2. answered \subseteq K
    BY <2>1 DEF Tally, Served
  <2>3. K \subseteq allowed
    BY <2>1 DEF Tally, Committed
  <2>4. IsFiniteSet(allowed)
    <3>1. allowed \subseteq Begun /\ IsFiniteSet(Begun)
      BY DEF Begun, Tallied
    <3> QED
      BY <3>1, FS_Subset
  <2>5. IsFiniteSet(K) /\ Cardinality(K) = installs[s] /\ installs[s] \in Nat
    BY <2>1 DEF Tally, TypeOK
  <2> HIDE DEF answered, allowed
  <2>6. IsFiniteSet(answered) /\ Cardinality(answered) <= Cardinality(K)
    BY <2>2, <2>5, FS_Subset
  <2>7. Cardinality(K) <= Cardinality(allowed)
    BY <2>3, <2>4, FS_Subset
  <2>8. Cardinality(answered) \in Nat /\ Cardinality(allowed) \in Nat
    BY <2>4, <2>6, FS_CardinalityType
  <2>9. installs[s] >= Cardinality(answered) /\ installs[s] <= Cardinality(allowed)
    BY <2>5, <2>6, <2>7, <2>8
  <2> QED
    BY <2>9 DEF answered, allowed
<1> QED
  BY <1>1, <1>2, <1>3, TypeCorrect, HoldsAlways, PTL DEF Spec

=============================================================================

--------------------------------- MODULE Reads ---------------------------------
(***************************************************************************)
(* Reading exact versions, version lists and the catalogue, while other    *)
(* sessions change what may be read.                                       *)
(*                                                                         *)
(* A read is judged on copies: the version row, with the namespace of its  *)
(* skill, and the rules of its policy pack.  An exact read and the         *)
(* catalogue get both from one statement.  A version list gets its rows    *)
(* from one statement and then each policy pack from one of its own, when  *)
(* the object mapper first touches it.  A card of the catalogue's search   *)
(* is chosen from such a list, and its row is then read once more.  The    *)
(* audit row and the install count are written by transactions that follow *)
(* the judgement.                                                          *)
(*                                                                         *)
(* The writers are those of Catalog; here each of their commits is one     *)
(* step that may put any value in its column.  "moments" remembers, for    *)
(* each call, the states the tables had since the call began.              *)
(***************************************************************************)
EXTENDS Policy, Naturals, FiniteSets

CONSTANTS
    Calls,        \* the API calls made
    Requests,     \* the requests they may carry
    Slugs,        \* skill slugs
    Versions,     \* versions, numbered in the order of their published_at
    Packs,        \* policy packs, NoPack among them
    NoPack,       \* the pack of a version that has none
    FirstTables,  \* the tables a behaviour may start with
    GovValues,    \* the governance columns that writers may set
    RuleValues,   \* the rules that writers may give to a pack
    MaxWrites,    \* how many commits of writers a behaviour has
    NoRow         \* the absent row

Coords == Slugs \X Versions

VersionRow == [status : Statuses, gov : Gov(Packs)]

\* What a session gets of a version: its row and the namespace of its skill.
Copy == [status : Statuses, gov : Gov(Packs), namespace : Namespaces]

Tables == [versions : [Coords -> VersionRow \cup {NoRow}],
           skills   : [Slugs -> Namespaces],  \* the namespace its first publication gives, until moved
           packs    : [Packs -> Rules]]

ExactKinds == {"metadata", "content", "resolution"}
Kinds == ExactKinds \cup {"versions", "catalog", "card"}

Request == [kind : Kinds, slug : Slugs, version : Versions, caller : Caller]

ASSUME ReadsAssumption ==
    /\ Versions \subseteq Nat
    /\ NoPack \in Packs
    /\ Requests \subseteq Request
    /\ FirstTables \subseteq Tables
    /\ \A d \in FirstTables : d.packs[NoPack] = OpenRules
    /\ GovValues \subseteq Gov(Packs)
    /\ RuleValues \subseteq Rules
    /\ MaxWrites \in Nat
    /\ NoRow \notin VersionRow \cup Copy \cup Rules \cup Request

VARIABLES
    db,         \* the tables that decide visibility
    installs,   \* skills.install_count
    audit,      \* audit rows written by reads
    pc,         \* what each call does next
    req,        \* its request
    copies,     \* the version rows its session holds
    rules,      \* the pack rules its session holds
    result,     \* how it ended
    answer,     \* the coordinates it answered with
    moments,    \* the states of db since it began
    writes      \* commits of writers so far

session == <<req, copies, rules>>
outcome == <<result, answer>>
vars == <<db, installs, audit, pc, session, outcome, moments, writes>>

\* "airlock" is the enterprise event of a denial, "listed" the one of a version list.
Event == [call : Calls, verdict : Verdicts \cup {"airlock", "listed"}]

Results == {"none", "forbidden", "not_found", "denied", "answered", "failed"}

Phases == {"idle", "read", "packs", "audit", "airlock", "install", "send", "done"}

TypeOK ==
    /\ db \in Tables
    /\ db.packs[NoPack] = OpenRules
    /\ installs \in [Slugs -> Nat]
    /\ audit \subseteq Event
    /\ pc \in [Calls -> Phases]
    /\ req \in [Calls -> Request \cup {NoRow}]
    /\ \A c \in Calls : pc[c] # "idle" => req[c] \in Request
    /\ copies \in [Calls -> [Coords -> Copy \cup {NoRow}]]
    /\ rules \in [Calls -> [Packs -> Rules \cup {NoRow}]]
    /\ result \in [Calls -> Results]
    /\ answer \in [Calls -> SUBSET Coords]
    /\ moments \in [Calls -> SUBSET Tables]
    /\ writes \in Nat

NoCopies == [x \in Coords |-> NoRow]
NoRules  == [p \in Packs |-> NoRow]

Init ==
    /\ db \in FirstTables
    /\ installs = [s \in Slugs |-> 0]
    /\ audit = {}
    /\ pc = [c \in Calls |-> "idle"]
    /\ req = [c \in Calls |-> NoRow]
    /\ copies = [c \in Calls |-> NoCopies]
    /\ rules = [c \in Calls |-> NoRules]
    /\ result = [c \in Calls |-> "none"]
    /\ answer = [c \in Calls |-> {}]
    /\ moments = [c \in Calls |-> {}]
    /\ writes = 0

-----------------------------------------------------------------------------
(* What the tables hold *)

Stored(d, S) == {x \in S : d.versions[x] # NoRow}

VersionsOf(slug) == {x \in Coords : x[1] = slug}

CopyOf(d, x) ==
    [status |-> d.versions[x].status, gov |-> d.versions[x].gov, namespace |-> d.skills[x[1]]]

CopiesOf(d, S) == [x \in Coords |-> IF x \in S THEN CopyOf(d, x) ELSE NoRow]

\* The version that the listing order puts first among S: published before
\* deprecated, then the one published last. Archived ones are no default.
Precedes(rows, x, y) ==
    \/ rows[x].status = "published" /\ rows[y].status = "deprecated"
    \/ rows[x].status = rows[y].status /\ x[2] > y[2]

Defaults(rows, S) ==
    LET live == {x \in S : rows[x].status \in {"published", "deprecated"}}
    IN  {x \in live : \A y \in live : y[1] = x[1] /\ y # x => Precedes(rows, x, y)}

-----------------------------------------------------------------------------
(* Steps of a call *)

InFlight == {c \in Calls : pc[c] \notin {"idle", "done"}}

Coord(c) == <<req[c].slug, req[c].version>>

At(c, kinds, phase) == pc[c] = phase /\ req[c].kind \in kinds

Goto(c, phase) ==
    /\ pc' = [pc EXCEPT ![c] = phase]
    /\ UNCHANGED <<req, outcome, moments, writes, db>>

\* The call answers; what its sessions had loaded is gone.
Finish(c, how, S) ==
    /\ pc' = [pc EXCEPT ![c] = "done"]
    /\ result' = [result EXCEPT ![c] = how]
    /\ answer' = [answer EXCEPT ![c] = S]
    /\ copies' = [copies EXCEPT ![c] = NoCopies]
    /\ rules' = [rules EXCEPT ![c] = NoRules]
    /\ UNCHANGED <<req, moments, writes, db>>

\* Every read route asks for the read scope first.
Begin(c) ==
    /\ pc[c] = "idle"
    /\ \E r \in Requests :
        /\ HasScope(r.caller, "read")
        /\ req' = [req EXCEPT ![c] = r]
    /\ pc' = [pc EXCEPT ![c] = "read"]
    /\ moments' = [moments EXCEPT ![c] = {db}]
    /\ UNCHANGED <<db, installs, audit, copies, rules, outcome, writes>>

Forbid(c) ==
    /\ pc[c] = "idle"
    /\ \E r \in Requests :
        /\ ~HasScope(r.caller, "read")
        /\ req' = [req EXCEPT ![c] = r]
    /\ pc' = [pc EXCEPT ![c] = "done"]
    /\ result' = [result EXCEPT ![c] = "forbidden"]
    /\ UNCHANGED <<db, installs, audit, copies, rules, answer, moments, writes>>

\* Process or database fail between two transactions; what is committed stays.
Abort(c) ==
    /\ c \in InFlight
    /\ Finish(c, "failed", {})
    /\ UNCHANGED <<installs, audit>>

Record(c, verdict) == audit' = audit \cup {[call |-> c, verdict |-> verdict]}

\* The judgement of the copy a call holds of version x.
Judged(c, x) == Verdict(req[c].caller, copies[c][x], rules[c][copies[c][x].gov.pack])

-----------------------------------------------------------------------------
(* Exact reads: metadata, content, direct dependencies *)

VersionNotFound(c) ==
    /\ At(c, ExactKinds, "read")
    /\ db.versions[Coord(c)] = NoRow
    /\ Finish(c, "not_found", {})
    /\ UNCHANGED <<installs, audit>>

ReadVersion(c) ==
    /\ At(c, ExactKinds, "read")
    /\ db.versions[Coord(c)] # NoRow
    /\ copies' = [copies EXCEPT ![c] = CopiesOf(db, {Coord(c)})]
    /\ rules' = [rules EXCEPT ![c] = db.packs]
    /\ Goto(c, "audit")
    /\ UNCHANGED <<installs, audit>>

\* Mutant: the denial is raised before its enterprise event is recorded.
DenyReadAtOnce(c) ==
    /\ At(c, ExactKinds, "audit")
    /\ Judged(c, Coord(c)) # "allowed"
    /\ Record(c, Judged(c, Coord(c)))
    /\ Finish(c, "denied", {})
    /\ UNCHANGED installs

\* A denial is recorded before it is raised, and twice if it is the airlock's.
DenyRead(c) ==
    /\ At(c, ExactKinds, "audit")
    /\ Judged(c, Coord(c)) # "allowed"
    /\ Record(c, Judged(c, Coord(c)))
    /\ IF Judged(c, Coord(c)) \in AirlockCodes
       THEN Goto(c, "airlock") /\ UNCHANGED <<copies, rules>>
       ELSE Finish(c, "denied", {})
    /\ UNCHANGED installs

DenyVisibility(c) ==
    /\ At(c, ExactKinds, "airlock")
    /\ Record(c, "airlock")
    /\ Finish(c, "denied", {})
    /\ UNCHANGED installs

AllowRead(c) ==
    /\ At(c, ExactKinds, "audit")
    /\ Judged(c, Coord(c)) = "allowed"
    /\ Record(c, "allowed")
    /\ IF req[c].kind = "content"
       THEN Goto(c, "install") /\ UNCHANGED <<copies, rules>>
       ELSE Finish(c, "answered", {Coord(c)})
    /\ UNCHANGED installs

\* Mutant: the increment is never committed.
RecordInstallUncommitted(c) ==
    /\ At(c, {"content"}, "install")
    /\ Goto(c, "send")
    /\ UNCHANGED <<installs, audit, copies, rules>>

\* Mutant: the column has no default, so the counter of a skill is NULL and stays so.
RecordInstallOfNull(c) ==
    /\ At(c, {"content"}, "install")
    /\ installs' = [installs EXCEPT ![req[c].slug] = NoRow]
    /\ Goto(c, "send")
    /\ UNCHANGED <<audit, copies, rules>>

\* The database increments the counter of the skill.
RecordInstall(c) ==
    /\ At(c, {"content"}, "install")
    /\ installs' = [installs EXCEPT ![req[c].slug] = @ + 1]
    /\ Goto(c, "send")
    /\ UNCHANGED <<audit, copies, rules>>

\* The bundle is sent only when the counter is committed.
SendContent(c) ==
    /\ At(c, {"content"}, "send")
    /\ Finish(c, "answered", {Coord(c)})
    /\ UNCHANGED <<installs, audit>>

-----------------------------------------------------------------------------
(* The versions of a skill *)

SkillNotFound(c) ==
    /\ At(c, {"versions"}, "read")
    /\ Stored(db, VersionsOf(req[c].slug)) = {}
    /\ Finish(c, "not_found", {})
    /\ UNCHANGED <<installs, audit>>

ReadVersions(c) ==
    LET S == Stored(db, VersionsOf(req[c].slug))
    IN  /\ At(c, {"versions", "card"}, "read")
        /\ S # {}
        /\ copies' = [copies EXCEPT ![c] = CopiesOf(db, S)]
        /\ rules' = [rules EXCEPT ![c] = [NoRules EXCEPT ![NoPack] = OpenRules]]
        /\ Goto(c, "packs")
        /\ UNCHANGED <<installs, audit>>

Held(c) == {x \in Coords : copies[c][x] # NoRow}

Missing(c) == {p \in {copies[c][x].gov.pack : x \in Held(c)} : rules[c][p] = NoRow}

LoadPack(c) ==
    /\ At(c, {"versions", "card"}, "packs")
    /\ \E p \in Missing(c) : rules' = [rules EXCEPT ![c] = [@ EXCEPT ![p] = db.packs[p]]]
    /\ Goto(c, "packs")
    /\ UNCHANGED <<installs, audit, copies>>

\* Mutant: only published versions are listed.
PublishedCopies(c) ==
    {x \in Held(c) : copies[c][x].status = "published" /\ Judged(c, x) = "allowed"}

VisibleCopies(c) == {x \in Held(c) : Judged(c, x) = "allowed"}

\* A skill whose versions are all hidden does not exist for the caller.
HideSkill(c) ==
    /\ At(c, {"versions"}, "packs")
    /\ Missing(c) = {} /\ VisibleCopies(c) = {}
    /\ Finish(c, "not_found", {})
    /\ UNCHANGED <<installs, audit>>

\* The list is audited as a whole.
ListVersions(c) ==
    /\ At(c, {"versions"}, "packs")
    /\ Missing(c) = {} /\ VisibleCopies(c) # {}
    /\ Record(c, "listed")
    /\ Finish(c, "answered", VisibleCopies(c))
    /\ UNCHANGED installs

-----------------------------------------------------------------------------
(* The catalogue *)

\* The default of each skill is chosen first, then it is judged. Nothing is audited.
ListCatalog(c) ==
    /\ At(c, {"catalog"}, "read")
    /\ Finish(c, "answered",
              {x \in Defaults(db.versions, Stored(db, Coords)) :
                 IsVisible(req[c].caller, CopyOf(db, x), db.packs[db.versions[x].gov.pack])})
    /\ UNCHANGED <<installs, audit>>

-----------------------------------------------------------------------------
(* A card of the catalogue's search, for one of the skills that discovery names *)

\* A skill that is gone, or has no visible version that is live, gets no card.
SkipCard(c) ==
    /\ \/ At(c, {"card"}, "read") /\ Stored(db, VersionsOf(req[c].slug)) = {}
       \/ At(c, {"card"}, "packs") /\ Missing(c) = {}
            /\ Defaults(copies[c], VisibleCopies(c)) = {}
    /\ Finish(c, "answered", {})
    /\ UNCHANGED <<installs, audit>>

\* Mutant: the version is judged on the list it was chosen from, and not again.
ShowCardUnjudged(c) ==
    /\ At(c, {"card"}, "packs") /\ Missing(c) = {}
    /\ \E x \in Defaults(copies[c], VisibleCopies(c)) : Finish(c, "answered", {x})
    /\ UNCHANGED <<installs, audit>>

\* Here the default is chosen among visible versions. Its row and pack are read
\* once more, by one statement, and judged once more.
ShowCard(c) ==
    /\ At(c, {"card"}, "packs") /\ Missing(c) = {}
    /\ \E x \in Defaults(copies[c], VisibleCopies(c)) :
        Finish(c, "answered",
               {y \in Stored(db, {x}) :
                  IsVisible(req[c].caller, CopyOf(db, y), db.packs[db.versions[y].gov.pack])})
    /\ UNCHANGED <<installs, audit>>

-----------------------------------------------------------------------------
(* The writers *)

Commit(d) ==
    /\ writes < MaxWrites
    /\ writes' = writes + 1
    /\ db' = d
    /\ moments' = [c \in Calls |-> IF c \in InFlight THEN moments[c] \cup {d} ELSE moments[c]]
    /\ UNCHANGED <<installs, audit, pc, session, outcome>>

Put(x, row) == Commit([db EXCEPT !.versions = [@ EXCEPT ![x] = row]])

\* published_at is the time a publication began, so the later one may commit first.
PublishVersion(x, g) ==
    /\ db.versions[x] = NoRow
    /\ Put(x, [status |-> "published", gov |-> g])

UpdateVersionStatus(x, status) ==
    /\ db.versions[x] # NoRow
    /\ Put(x, [status |-> status, gov |-> db.versions[x].gov])

\* A request without a pack leaves the one that is there.
UpdateVersionGovernance(x, g) ==
    /\ db.versions[x] # NoRow
    /\ g.pack = NoPack => db.versions[x].gov.pack = NoPack
    /\ Put(x, [status |-> db.versions[x].status, gov |-> g])

UpdateSkillOwnership(s, namespace) ==
    /\ Stored(db, VersionsOf(s)) # {}
    /\ Commit([db EXCEPT !.skills = [@ EXCEPT ![s] = namespace]])

UpsertPolicyPack(p, r) ==
    /\ p # NoPack
    /\ Commit([db EXCEPT !.packs = [@ EXCEPT ![p] = r]])

-----------------------------------------------------------------------------
Call(c) ==
    \/ Begin(c) \/ Forbid(c) \/ Abort(c)
    \/ VersionNotFound(c) \/ ReadVersion(c)
    \/ DenyRead(c) \/ DenyVisibility(c) \/ AllowRead(c) \/ RecordInstall(c) \/ SendContent(c)
    \/ SkillNotFound(c) \/ ReadVersions(c) \/ LoadPack(c) \/ HideSkill(c) \/ ListVersions(c)
    \/ ListCatalog(c) \/ SkipCard(c) \/ ShowCard(c)

Writer ==
    \/ \E x \in Coords : \/ \E g \in GovValues : PublishVersion(x, g) \/ UpdateVersionGovernance(x, g)
                         \/ \E status \in Statuses : UpdateVersionStatus(x, status)
    \/ \E s \in Slugs, namespace \in Namespaces : UpdateSkillOwnership(s, namespace)
    \/ \E p \in Packs, r \in RuleValues : UpsertPolicyPack(p, r)

Next == (\E c \in Calls : Call(c)) \/ Writer

Spec == Init /\ [][Next]_vars

-----------------------------------------------------------------------------
(* Properties *)

Ended(c, how) == pc[c] = "done" /\ result[c] = how

Recorded(c, verdict) == [call |-> c, verdict |-> verdict] \in audit

\* What policy says to the caller of c of version x, as its row was at moment m and
\* the rules of its pack at moment n.
VerdictAt(c, m, n, x) ==
    Verdict(req[c].caller, CopyOf(m, x), n.packs[m.versions[x].gov.pack])

AnsweredVisibly(c) ==
    \A x \in answer[c] : \E m \in moments[c], n \in moments[c] :
        /\ m.versions[x] # NoRow
        /\ VerdictAt(c, m, n, x) = "allowed"
        /\ req[c].kind # "versions" => n = m

\* Whatever a read answers with was there and visible to the caller at a moment of the
\* call, whoever changed its status, its governance, its namespace or its pack meanwhile.
\* A version list may judge a row of one moment by the rules of another; a card, though
\* it is chosen from such a list, may not.
AnswersWereVisible == \A c \in Calls : AnsweredVisibly(c)

DeniedDuly(c) ==
    Ended(c, "denied") => \E m \in moments[c] :
        m.versions[Coord(c)] # NoRow /\ VerdictAt(c, m, m, Coord(c)) # "allowed"

AbsentDuly(c) ==
    Ended(c, "not_found") =>
        IF req[c].kind = "versions"
        THEN \A x \in VersionsOf(req[c].slug) : \E m \in moments[c], n \in moments[c] :
                m.versions[x] = NoRow \/ VerdictAt(c, m, n, x) # "allowed"
        ELSE \E m \in moments[c] : m.versions[Coord(c)] = NoRow

\* Nobody is refused, or told that there is nothing, without a moment of the call at
\* which that was so; a version list is empty only if each version could be hidden.
RefusalsWereDue == \A c \in Calls : DeniedDuly(c) /\ AbsentDuly(c)

RecordedTruly(c) ==
    /\ \A verdict \in Verdicts : Recorded(c, verdict) =>
         \E m \in moments[c] :
            m.versions[Coord(c)] # NoRow /\ VerdictAt(c, m, m, Coord(c)) = verdict
    /\ Recorded(c, "airlock") => \E verdict \in AirlockCodes : Recorded(c, verdict)

OutcomeRecorded(c) ==
    /\ Ended(c, "denied") =>
         \E verdict \in Verdicts \ {"allowed"} :
            /\ Recorded(c, verdict)
            /\ verdict \in AirlockCodes => Recorded(c, "airlock")
    /\ Ended(c, "answered") /\ req[c].kind \in ExactKinds => Recorded(c, "allowed")

\* The audit trail of exact reads is true even of calls that failed later: the verdict
\* recorded is what policy said at a moment of the call, an airlock event follows an
\* airlock denial, and a denied or answered call has left its verdict.
AuditTellsTruth == \A c \in Calls : RecordedTruly(c) /\ OutcomeRecorded(c)

\* Every download answered is counted as an install of its skill, and each install stands
\* for a download of its own that policy allowed; one that failed after its audit row may
\* or may not be counted.
DownloadsAccounted ==
    \A s \in Slugs :
        LET downloads == {c \in Calls : pc[c] # "idle" /\ req[c].kind = "content" /\ req[c].slug = s}
        IN  /\ installs[s] >= Cardinality({c \in downloads : Ended(c, "answered")})
            /\ installs[s] <= Cardinality({c \in downloads : Recorded(c, "allowed")})

=============================================================================

# Formal model of the skill registry

TLA+ specifications of the registry in `src/`, the TLC configurations that
model-check them on small instances, and TLAPS proofs of their main safety
properties for every instance. The program is a FastAPI service over
PostgreSQL: publishers upload versions of skills, operators change their
lifecycle and governance state, resolvers search, fetch and report what they
used, and background workers compute embeddings for semantic search.

What is hard about it is not any single handler. It is that

  * one API call is several short transactions: the service reads and checks in
    some and writes in another one, at PostgreSQL's default isolation (READ
    COMMITTED, `persistence/db.py:63-76` sets no other), in which even two
    statements of one transaction may see different data;
  * nothing is locked between a check and the write it is for; only unique and
    foreign keys stand behind the checks;
  * some writers read their row back after the commit, and a denial is committed
    before it is raised: a call can fail with its change, or its audit row, in place;
  * several tables are derived from others (search documents, embeddings,
    co-usage pairs, graph edges) and are kept up to date by the writers;
  * workers claim rows, die, time out, and answer late.

## Contents

  1. Inventory of the system
  2. The modules and how they correspond to the code
  3. What each run checks and shows
  4. Where the code and its documents disagree
  5. Fairness
  6. What is proved, and how
  7. What is abstracted, and what is not modelled
  8. Plan

## 1. Inventory

`REG` is `core/skills/registry.py`, `REPO` is
`persistence/skill_registry_repository.py`, both under `src/app/`.

| component | state | operations | hard behaviour | correct when |
|---|---|---|---|---|
| Catalogue writes (`REG`, `REPO`, `core/governance.py`, `audit/recorder.py`) | tables `skills`, `skill_versions`, `skill_contents`, `skill_search_documents`, `skill_search_embeddings`, relationship selectors, `audit_events` | publish (two intents), change lifecycle status, change version governance, change skill ownership | checks in other transactions than the writes; rows of one call written from two copies of the same data | a coordinate is bound once and for good; nothing is published by halves; answers and audit trail are true; documents mirror rows |
| Semantic embedding index (`core/skills/embedding_indexing.py`, `REPO:591-856`, `workflows/`) | `skill_search_embeddings`: status, digest, vector, claim time | backfill, claim, index, fail, next batch | overlapping runs, row locks held over a whole backfill, claims that expire, late results, crashes | a served vector belongs to the text its row names; no document is lost; claims exclude one another |
| Co-usage (`REPO:889-971`, `1488-1689`) | observation runs, `skill_co_usage_pairs`, `skill_graph_edges` | import of a run: record, rebuild pairs, deactivate and activate edges | five statements with five snapshots; repeated and late evidence | evidence counts once; pairs never overstate it; edges follow the window |
| Enterprise administration (`REG`, `REPO:1108-1220`, `1284-1336`) | organizations, namespaces, policy packs, namespace of a skill, trust evidence | inserts and upserts, each with one audit row | no statement looks first, unique keys decide; an upsert sends what differs from what its session read; evidence is judged in one transaction and written in another | the trail says what came of each call; what is founded is founded once; evidence comes from who may review |
| Exact reads, catalogue and resolution (`fetch.py`, `exact_read.py`, `resolution.py`) | reads the catalogue; writes audit rows of verdicts, install counters | metadata, content, direct dependencies, version list, catalogue, search cards | governance moves between two statements of a read; audit row and counter are transactions of their own | nothing hidden is answered; nothing visible is refused; the trail is true; downloads are counted |
| Discovery (`search.py`, `discovery.py`, `intelligence/`, `REPO:438-589`, `858-887`) | reads documents, embeddings, edges, signals | retrieve, embed, fuse, boost, fall back | candidates, vectors and signals come from three transactions, with a call to the provider between them | only visible versions are ranked; boosts are bounded; a dead provider degrades to text search |
| Telemetry (`telemetry.py`, `REPO:973-1062`) | install counters, user stars | install, star batches, a user's stars | batches lock several rows; imports and publications lock the same rows in an order of their own | the answer of a batch is true when it commits; batches do not wait for one another in a circle; every call ends |
| Authentication (`auth.py`, `dependencies.py`, `settings.py`) | the settings, the clock | token lookup, expiry, scope of the route, default grants | grants are added in the settings and presumed again in the policy | the two decide alike; effects are due |
| Policy decisions (`governance.py`) | none | decisions per profile | many cases | transitions and visibility as the profile says |
| Publish request and bundle (`skills_publish.py`, `bundle_archive.py`, `validation/`) | none | parse, inspect, refuse | the first fault in the order of the archive; faults told apart by the text of a message | an unsound bundle is never published |
| Composition, observability, seed data, scripts | none of the catalogue | wiring, logging, demo rows | none that concerns the catalogue | |

How they interact: an HTTP handler calls one service; a service calls the
repository, one transaction per call (`REPO`'s session scope), and the recorder
for denials. `publish` commits a search document together with a pending
embedding row; the indexing workflow, started by a cron job every thirty minutes
(`src/render.yaml`), repairs and claims those rows; discovery reads documents and
indexed rows and never the version rows, which is why it matters that they agree.
Imports of co-usage evidence write graph edges that discovery reads as a signal.

`PROJECT.json` lists all components with their files, and under `hazards` what
can go wrong at which line and which property would notice.

## 2. The modules

| module | models |
|---|---|
| `ImmutableRegistry` | the promise to publishers, without transactions: a free coordinate is bound to one artifact and credited to one call |
| `Catalog` | `REG` and `REPO`: publish, lifecycle status, governance, ownership |
| `CatalogProperties` | what `Catalog` guarantees, and its refinement of `ImmutableRegistry` |
| `CatalogProofs` | proofs for `Catalog`: types, publication, refinement, answers |
| `WorkflowProofs` | proofs about changes of published versions: what survives overlap, and when search documents, audit trail and archiving keep their promises |
| `MCCatalog` | the request sets of its runs |
| `Policy` | `core/governance.py`: scopes, grants, policy packs, the read decision and the filters derived from grants |
| `Reads`, `ReadsProofs`, `MCReads` | exact reads, version lists and the catalogue, against writers; their proofs; tokens and tables for the runs |
| `EmbeddingIndex`, `EmbeddingIndexProofs` | embedding rows, indexing runs; their properties; their proofs |
| `CoUsage`, `CoUsageProofs`, `MCCoUsage` | imports of observation runs, their properties; their proofs; evidence for the runs |
| `Discovery`, `DiscoveryProofs`, `MCDiscovery` | a search from its filters to its audit row, against every writer of what it reads; proofs; documents and queries for the run |
| `Access` | the settings, service tokens, authentication and scopes: what stands before every handler |
| `SkillRows` | the rows of `skills`, the locks that transactions take on them, deadlocks and broken connections |
| `Stars` | star batches, a user's stars, installs, and the locks of an import |
| `Enterprise` | organizations, namespaces, policy packs, ownership, trust evidence |
| `Submission` | a publish request: its metadata, its bundle, the policy profile, its write transaction as far as rows of skills are locked |
| `Requests` | the composition of `Stars`, `Enterprise` and `Submission` over `Access` and `SkillRows`: one server, one database |
| `RequestProperties`, `RequestsProofs`, `MCRequests` | what callers may rely on; proofs; tokens, requests and rows for the run |
| `NumberFacts` | greatest and least elements of sets of numbers, for the proofs |

### Catalog

A call (`Calls`) picks a request and goes through the phases of the code. Each
phase is one transaction of the service, or one part of the write transaction:

| phase | code | step |
|---|---|---|
| `prepare` | `REG` authorises, records a denial | `PublishDenied`, `PublishPrepare` |
| `intent` | `skill_exists` in its own transaction | `PublishIntent` |
| `exists` | `version_exists` in its own transaction | `PublishVersionExists` |
| `check` | the version is read and policy is asked | `VersionMissing`, `StatusDenied`, `StatusCheck`, `GovernanceDenied`, `GovernanceCheck` |
| `load` | the SELECTs of the write transaction | `PublishLoad`, `VersionLoad`, `OwnershipLoad`, `OwnershipRefused` |
| `commit` | its flushes and its commit | `PublishConflict`, `PublishCommit`, `StatusCommit`, `OwnershipCommit`; of a governance change the first flush and the read of the document, `GovernanceFlush` |
| `sync` | the columns of the document and the commit of a governance change | `GovernanceCommit` |
| `answer` | the change is committed and, where the code does so, read back (`REPO:252-261`, `1264-1279`) | `Answer` |
| `deny` | the denial is in the trail, the policy error is about to be raised | `Deny` |

Once a write transaction has sent its first INSERT or UPDATE it holds the row or
the key that all writers of that row need, so the rest of it is one step. The
exception is a governance change whose values are those it loaded: it sends nothing,
holds nothing (`HoldsVersion`), and others may commit between its read of the search document
and its commit. The session's memory is explicit: `loaded`, `sawSkill` and `sawContent` are what the
SELECTs returned, and an UPDATE sends only the columns that differ from `loaded`
(SQLAlchemy's unit of work), which is where rows and documents drift apart.
`loadedDoc` is the document as a governance change read it. `Abort` is a failure of process or
database: before the commit nothing of the call remains, in the phases `answer` and `deny`
everything does and the caller hears of a failure all the same.
A conflict of `PublishConflict` is tested in the order in which the rows are
flushed: namespace foreign key, slug, content digest, coordinate.

### EmbeddingIndex

A row is `NoRow` or its status, whether its digest and its vector are those of
the present source text (`current`), of an earlier one (`old`), and whether its
claim has expired. A run is `idle`, looks at documents one by one (`Look`),
updates or inserts those that are not up to date (`Write`, whose transaction
keeps their locks, `Locked`), commits, claims a batch, works on it, and takes the
next batch. `Collide` is the primary key refusing a row that another backfill
inserted first: the whole run fails. Time is the single step `Expire`. A row
that did not exist when the service started is created by `PublishDoc`, together
with its document; `OldDocs` exist at start with outdated rows, or none.

### CoUsage

An import is a transaction of statements: check for the digest (`Arrive`),
insert the run (`Record`), read the latest day (`ReadLatest`), delete the pairs,
insert those of the window, deactivate edges, activate edges, commit. A writing
statement takes its snapshot in `Begin` and is applied when the rows it needs are
free; `gone`, `made` and `flips` are its uncommitted writes, which the others
wait for but do not see, and which it sees itself (`PairsSeen`, `EdgeAfter`). Rate and lift are integers in millionths with the
rounding of `ROUND(..., 6)`.

### Policy and Reads

`Policy` has no state. `Verdict` is `ensure_exact_read_allowed` with the
violations in the order of the code; `HasNamespaceGrant`, `Matches` and `PackAllows`
are the methods of those names; `AllowedNamespaces` and
`AllowedPromotionChannels` are what a search puts into its queries. The
profile is the built-in one.

A call of `Reads` picks a request and goes through these phases:

| phase | code | step |
|---|---|---|
| `idle` | the route asks for the read scope | `Begin`, `Forbid` |
| `read` | the SELECT of the row with its skill and its pack | `VersionNotFound`, `ReadVersion`, `SkillNotFound`, `ReadVersions`; `ListCatalog` also decides and answers; `SkipCard` when the skill is gone |
| `packs` | a version list loads each pack when the mapper touches it | `LoadPack`, `HideSkill`, `ListVersions`; for a card `SkipCard`, `ShowCard` |
| `audit` | the decision and its audit row, a transaction of its own | `DenyRead`, `AllowRead` |
| `airlock` | the second audit row of an airlock denial | `DenyVisibility` |
| `install` | the counter of a download | `RecordInstall` |
| `send` | the bundle goes out | `SendContent` |

`copies` and `rules` are what the session returned; decisions look at them, not
at the tables. The one exception is `ShowCard`, which reads and judges a row in one
statement. A card is what `search_catalog` shows for one skill that discovery has named:
the request carries that skill, and its default is chosen among the versions visible in a
version list and then read and judged again (`fetch.py:263-300`). That second judgement is
what makes a card as true as an exact read, although its list is not (`AnswersWereVisible`).
It does not ask again whether the version is live: between the two, a version may be
archived, and an administrator is shown its card.

The writers are those of `Catalog` with each commit as one step, and
with the policy packs of `upsert_policy_pack`. Any value may be written that the
columns admit: also `published` over `archived`, which overlapping status
changes produce (section 4). `moments` is a history variable: the states of the
tables since a call began, against which its answer is judged.

### Discovery

One search, because searches write nothing that a search reads; all writers of what it
reads are there, each as its commit. Its phases are the transactions of
`SkillSearchService.search`:

| phase | code | step |
|---|---|---|
| `idle` | `resolve_discovery_statuses` and the other filters | `Begin`, `Forbid` |
| `lexical` | `SEARCH_CANDIDATES_SQL` with filters, match, collapse by skill, limit | `SearchText` |
| `embed` | the call to the provider, or no call | `EmbedQuery`, `EmbedFails`, `SkipSemantic` |
| `semantic` | `search_semantic_candidates` | `SearchVectors`, `SearchVectorsFails` |
| `boosts` | `get_co_usage_boosts` for the slugs of both lists | `ReadBoosts`, `SkipBoosts` |
| `rank` | fusion, cut, `is_visible_in_list`, the audit row | `Rank` |

`Fail` is a database failure in the stages that have no fallback. Lists are sets of
candidates; a place in a list is one more than the number of smaller sort keys, and the
sort keys are the tuples of the SQL and of `_sort_key`. The vector index is HNSW
(`alembic/versions/0005`), which is approximate: `SearchVectors` takes any subset of the
neighbours. A skill that several of its vectors find counts with the last of them in the
fused score and is shown by its nearest, as in `fuse_discovery_candidates`. The limit
and the collapse to one version of a skill come before policy packs are judged, so an
answer may be shorter than it could be; no property says otherwise. Reciprocal ranks and
rates are integers in millionths. A text's match, score and vector distance are facts of
the instance.

### Requests

A call (`Calls`) arrives with a request and goes through `arrived` (authentication and
scope, `Refuse` or `Admit`), `handle` (the validators, and the first statement), and
then the phases of its operation:

| operation | code | steps |
|---|---|---|
| star batch | `apply_user_star_events` | `StarsRefused`, `StarsSelect`, `StarsUnknown`, `StarsLocked`, `StarsEvent`, `StarsCommit` |
| a user's stars, install | `REPO:973-991`, `REPO:1064-1106` | `ListUserStars`, `InstallUpdate`, `InstallCommit` |
| import | `import_observation_run` | `ImportRefused`, `ImportObserve`, `ImportRebuild`, `ImportCommit` |
| organization, namespace | `REPO:1108-1159` | `CreateOrganization`, `NamespaceLoad`, `NamespaceCommit`, `Confirm` |
| policy pack | `REPO:1161-1189` | `PackLoad`, `PackConflict`, `PackCommit` |
| ownership | `REPO:1191-1220` | `OwnershipRefused`, `OwnershipUpdate`, `OwnershipCommit` |
| evidence | `REG:456-499`, `REPO:1284-1324` | `EvidenceLoad`, `EvidenceDenied`, `EvidenceForbidden`, `EvidenceCommit`, `Confirm` |
| publish | `api/skills.py:140-240`, `REG:109-207` | `SubmissionRefused`, `PublishDenied`, `PublishForbidden`, `PublishRefused`, `PublishWrite`, `PublishConflict`, `PublishCommit`, `Confirm` |

`plan` is what a statement has still to lock and `held` what the transaction has;
`TakeLock` takes the next row when no call holds it in a conflicting mode (external:
PostgreSQL's row locks: `FOR UPDATE` of a batch, `FOR NO KEY UPDATE` of an UPDATE, `FOR
KEY SHARE` of an insert that refers to the row). What the code sorts is an ascending
enumeration here (`Ascending`). `KillVictim` is the end of a deadlock: a 500 without a trace, which no handler retries.
`Break` is the failure of a connection or the process. Four writers read their row again after
the commit (`REPO:252-261`, `1121`, `1150`, `1312`): they commit, pass to the phase `answer`,
and answer in `Confirm`; a recorded denial passes through `deny`. A `Break` there is a 500 with
row and audit event in place. The other writers send nothing after their commit (the sessions
do not expire what they hold, `db.py:70-75`) and answer in the step that commits. `settings` are read once, by `Start`, which is also where the process
refuses to run; `Tick` moves the clock that expiry is judged by. Publication appears
twice: `Catalog` has the checks and writes in their transactions, `Submission` what comes
before them (validators, bundle, the publish rules of the active profile) and what it
locks.

A bundle is a sequence of members, a name a sequence of segments between slashes: that
is what `PurePosixPath` looks at, and an empty or single-dot segment is left out by it.
`Sound` in `RequestProperties` says what a bundle should be without going by the code.

## 3. The runs

Passing:

| run | instance | shows |
|---|---|---|
| `publish` | 3 calls at a time, failing anywhere, also between commit and answer; 11 requests: both intents, two versions of one skill, equal and different artifacts, a second skill, an unknown namespace, a caller without grant | `PublicationComplete`, `AnswersHonest`, `AuditMatchesAnswers`, and that the transactions implement `ImmutableRegistry`, with the credit the audit trail gives |
| `workflow_serial` | 4 calls one after the other, all kinds of change | with no overlap, search documents mirror rows, the audit trail replays to them, and archived is final |
| `workflow_overlapping` | 4 calls, 3 at a time, status and governance changes of one version | what survives overlap: a change whose copies of row and document are still true when it commits leaves them equal, whatever it found and whether or not it held a lock; only a call that checked before the archiving can undo it; the document's status is that of the last audited change |
| `indexing` | 2 runs, 3 documents (two old, one with an empty text), batches of 1, 2 batches a run, 1 crash | `ServedVectorOfItsDigest`, `BackfilledIsCurrent`, `FreshClaimsExclusive`; under fairness, `RunsEnd` (no deadlock between backfills) and `DocumentsSettle` |
| `reads` | 2 calls at a time; downloads, metadata, dependencies, version list, catalogue and a search card by a reader, a reviewer, an administrator and a token without read scope; a skill with a version behind a policy pack and one in the airlock, or one yet to be published; 2 commits of writers | `AnswersWereVisible`, `RefusalsWereDue`, `AuditTellsTruth`, `DownloadsAccounted` |
| `searches` | 6 searches by 4 callers in every mode, with and without provider and boosts; 4 documents of 3 skills, one with two versions; 2 commits of writers | `FoundWereVisible`, `EachSkillOnce`, `ExactMatchFirst`, `LexicalWhenAlone`, `BoostsBounded` |
| `requests` | 2 calls at a time out of 38 requests of every kind; 5 tokens (one inactive, one that expires, one with grants); 4 settings, three of which the process refuses; 3 skills, 3 namespaces, 2 packs | `OnlyMixedDeadlocks`, `TrailTellsOutcomes`, `EffectsWereDue`, `AnswersHoldAtCommit`; under fairness `EveryCallEnds` |
| `imports` | 4 imports at a time, 3 skills, 5 evidences in and after a window of 5 days | `EvidenceCountedOnce`, `PairsEvidenced`, `CleanImportRebuilds` |

The bounds. Three publications are two that race and one that comes before or
after; no property of publishing relates more than two calls to a coordinate,
and the proofs cover all other numbers. Four workflow calls are the publication
and three changes: two that overlap, and one that finds what they left.
Two indexing runs are enough for a collision, a lock wait and a lost claim; the
third document gives a deadlock two documents to happen on with one to spare.
Four imports are two that overlap, evidence that made the edge and evidence that
ends its support. A read depends on writers only between its own two or three statements, so two
commits can change the row, and its rules, or the rules twice; two calls are
needed for the counter they share, and `Visibility` covers the rest.
A search reads three times, so two commits change something before the second and before
the third statement; four documents are the two versions that collapse, a better match and
a boosted one. Two calls are every pair of operations that can meet: a deadlock of two, a
race for a key, an upsert over an upsert; the proofs of section 6 hold for all numbers of
calls. That a lock of a batch is taken in order of ids matters already for two rows.
`Calls`, `Imports` are finite and a search ends, so these systems stop: their
configurations say `CHECK_DEADLOCK FALSE`. `EmbeddingIndex` never stops and is
checked for deadlock. `MaxInFlight`, `MaxCrashes`, `MaxWrites`, `MaxNow` (the clock) and `MaxBatches` (the
code's `max_batches`) are the only other bounds; `MaxBatch`, `MaxSize` and `MaxMembers` are
limits of the code with small values.

`Permutations` of calls or imports is the symmetry used; nothing in those
properties orders calls, and no liveness is checked with symmetry.

## 4. Where code and documents disagree

Each row is a run that TLC ends with a counterexample, and an entry of `findings`.

| run | violated | what happens |
|---|---|---|
| `archived_reopened` | `ArchivedIsFinal` | a transition is checked on a status that another call archives before the write |
| `namespace_projection` | `SearchMirrorsNamespace` | with no overlap at all: a version published for another namespace than its skill's is indexed under the one requested |
| `claim_taken` | `ClaimsExclusive` | a backfill that read an outdated row marks it stale after another run repaired and claimed it, and it is claimed a second time |
| `edge_left_active` | `EdgesFollowWindow` | overlapping imports leave an edge active that the window no longer supports |

Others have no run of their own:

  * On the tags of a search the repository disagrees with itself.
    `docs/architecture/discovery-and-ranking.md:213-218` says that all requested tags must be
    present, "a containment filter, not a soft preference", and
    `docs/reference/api-contract.md:227` calls tags a structured filter. The text statement
    excepts exact slugs and names (`skill_registry_repository_support.py:143-148`), and two
    tests demand the exception: `tests/integration/test_exact_fetch_endpoints.py:715`,
    `test_exact_slug_discovery_and_catalog_search_ignore_mismatched_required_tags`, and
    `tests/unit/test_skill_registry_repository.py:95`. `Discovery` models the code, and
    `ExactMatchFirst` states what code and tests promise.
  * A publication, a governance change, a new organization or namespace and an evidence row
    are read back after they are committed; if that fails the caller is told of a server error,
    and a publisher who tries again that the version exists. No document speaks of it, so the
    properties count it in: `AuditMatchesAnswers` and `TrailTellsOutcomes` say that the audit trail
    is then what tells.
  * Two `create_skill` calls with different versions of one slug both pass the check; the
    second write transaction finds the skill row of the first and uses it, and both are
    answered as creators. `docs/reference/publish-request-schema.md:178` has 409
    `SKILL_ALREADY_EXISTS` for it. `Catalog` has the behaviour.
  * The catalogue chooses a skill's default among its live versions and asks then whether it
    is visible (`REPO:333`): a newer version in the airlock hides an older one that the
    caller may read. `docs/roadmap/registry-feature-rationale.md:139` has "Default selection
    must be derived from visible immutable versions, not from an editable pointer.", and the
    catalogue's own search chooses that way (`fetch.py:265-278`). `Reads` has both.
  * `validate_skill_bundle` tells faults apart by looking for "200" or "240" in a message
    that quotes the member's name (`skill_bundle.py:57-68`): a bundle with a bad name that
    contains a limit is refused for the wrong reason. It is refused all the same.
  * A star batch and an import, or a publication, can deadlock: the batch locks in order of
    ids, the inserts in order of the request. The victim's call ends in a 500
    (`OnlyMixedDeadlocks` says that nothing else can).
  * An upsert of a policy pack that restates what its session read sends nothing, so another
    one that commits in between stays, and both are answered as made
    (`AnswersHoldAtCommit` says what holds). The loser of two first upserts fails without an
    audit row.
  * `SkillRegistryPersistenceError` (`ports.py:236`) is no `SkillRegistryError`, so the branch
    that answers TRUST_EVIDENCE_FAILURE (`api/enterprise.py:217-223`) is never taken; and
    the scheme check of `auth.py:83-87` is never reached over HTTP, because FastAPI's bearer
    dependency drops other schemes first.

Three properties that `workflow_serial` checks fail when calls overlap, for the
reason of `archived_reopened`, a session that writes from what it loaded:
`SearchMirrorsGovernance` (two governance changes of different columns leave the
search document without one of them, and so does one that restates what it loaded, which
sends no column to the row, holds no lock, and still overwrites the document; while
`enterprise-governance.md:103-104` promises a transactional refresh), `SearchMirrorsStatus` and
`AuditReplaysRows`. What holds under overlap is `CleanWriteMirrors`.

A version list is weaker than an exact read, and `AnswersWereVisible` says
so: `list_versions` (`REPO:292-301`) loads only the skill with its rows, and
each policy pack in a statement of its own, so it may judge a row of one moment
by the rules of another. That every version listed was visible at a single moment
is false.

## 5. Fairness

`Requests` states `WF(c \in InService /\ Step(c))`: the server runs a call's thread until the
call is answered. (The subscript names the variables that tell a step of a call in service from
a stutter: its phase, its plan of locks, and the events of a batch it has counted.) A step is enabled unless the call waits for a lock; who holds it goes on
as well, and PostgreSQL ends a circle, so `EveryCallEnds` needs no strong fairness. There is
none on arrivals, on the clock or on `Break`.

`EmbeddingIndex`: `WF(RunStep(r))`: a run that is alive goes
on; it waits for nothing but row locks, and the provider call has a timeout.
`WF(StartRun(r))`: the cron job of `src/render.yaml` starts runs for ever.
`WF(Expire(d))`: time passes. There is no fairness on `PublishDoc` or on `Crash`,
and crashes are finitely many in the model; `DocumentsSettle` without that bound
would ask of a system that always crashes to make progress. No strong fairness is
assumed: a run that loses its rows to collisions is rescued by the run that won.

## 6. Proofs

`tlapm` checks every proof; the theorems hold for all values of the constants
that satisfy the modules' assumptions.

`CatalogProofs`. The invariant needed is that of a session: what each phase may
have seen. A call that has passed a phase has no audit row and no answer yet; a
loaded version row stands for a row that is still there (versions are never
deleted); a skill or content row that was seen is still there; a call that is
past `check` names a version that exists; a call that has committed and not answered
has its audit row and forgets its copies. With it and the type invariant,
publication, answers and audit become inductive:

  * `TypeCorrect`: `Spec => []TypeOK`.
  * `Publication`: `Spec => [](PublicationComplete /\ AnswersHonest)`; `Honest` is its second half.
    What is stored is tied to the allowed audit row of the call that sent it, not to its answer,
    because a call may fail between the two.
  * `Refinement`: `Spec => Registry!RSpec`. A `PublishCommit` is a `Bind`, which credits the call, the
    `Answer` of a publication a `Tell`, every other step a stutter.
  * `CleanWritesMirror`: `Spec => CleanWriteMirrors`. A governance change that sends something holds
    the row; of one that sends nothing, the property speaks only when row and document are still
    what it read, and then writing what it remembers is writing what is there.
  * `AuditTrail`: `Spec => []AuditMatchesAnswers`, from `TrailInv`, which says for each phase which row a
    call has left, and `AuditIds`: no row has an id not yet given, and no two have the same.

`WorkflowProofs`. Two properties hold however calls overlap:

  * `SearchStatusIsAudited`: `Spec => []SearchStatusReplaysAudit`. A status change writes the
    document's status and its audit row in one commit, audit ids rise, and nothing else writes
    that column; with no event yet the document is as it was published (`ReplayInv`).
  * `ReopenedByStaleCheck`: `Spec => OnlyStaleCallsReopen`. What a call has checked was read
    from its own version and passed the lifecycle's transitions (`CheckedInv`), and no transition
    leaves `archived`; so who leaves it had checked another status.

The others are false under overlap (section 4). The theorems say under which condition they
are true. `Apart` says that two calls in flight are never about the same skill. The code does not
enforce it: it is what a caller, or a queue in front of the service, would have to see to, and
it is the condition under which what a session has read is still true when it writes
(`SnapshotInv`). Calls about different skills may overlap in any number and any way.

  * `MirrorsApart`: `Spec /\ []Apart => [](SearchMirrorsStatus /\ SearchMirrorsGovernance)`.
  * `ArchivedApart`: `Spec /\ []Apart => ArchivedIsFinal`, from `CheckedInv` and `SnapshotInv`.
  * `AuditApart`: `Spec /\ []Apart => []AuditReplaysRows`. The columns that a change sends are those
    that differ from the row it loaded, which is the row the events so far replay to (`RowReplayInv`).
  * `NamespaceApart`: `Spec /\ []Apart /\ []AtHome => []SearchMirrorsNamespace`. `AtHome` says that a
    publication of a further version names the namespace its skill is in, which the code does
    not check (the run `namespace_projection`).

`EmbeddingIndexProofs`. `IndexInv` is the type invariant; served vectors belong
to their digest; `Repaired` (a document that a run has passed, and is not going
to write itself, has a current row or is about to be refused; rows never go back
to `old`); and `FreshRows` (a document published since the start is never
outdated, so no backfill ever writes it). From it:
`IndexTypeCorrect`, `ServedVectors`, `Backfilled`, `FreshExclusive`.

`CoUsageProofs`. Four invariants, because each property fails to be inductive
for a reason of its own:

  * `Typed`, with `SessionInv`: what an import has at which statement. It needs that a
    finite set of days has a maximum and that a rounded quotient of a smaller by a
    larger number is at most one (`CoUsageTypeCorrect`).
  * `EvidenceInv`: an import that has inserted its run is the only one of its
    evidence, past or present; the unique digest is what keeps it (`EvidenceOnce`).
  * `PairsInv`: rows seen, deleted and inserted come in both directions, and rows by
    one writer are the same wherever they are; so that what a DELETE finds
    after a wait, or does not, is never half a pair (`PairsNeverOverstate`).
  * `CleanInv`: an import that nothing overtook has seen the tables as they are, and
    done to them what its statements so far were to do (`CleanImportsRebuild`).

`ReadsProofs`. The invariant is what a session holds (`ExactSeen`: the row and the
packs of one moment of the call; `ListSeen`: the rows of one moment, each pack of
some other) and what the call claims. A writer only adds a moment, so it disturbs no
claim (`Frame`); a step of the call judges copies, which is judging the moment
they come from (`ExactJudgement`, `ListJudgement`).

  * `TypeCorrect`: `Spec => []TypeOK`.
  * `Visibility`: `Spec => [](AnswersWereVisible /\ RefusalsWereDue /\ AuditTellsTruth)`;
    `RefusalsDue` and `AuditTruth` are its second and third part.
  * `FiltersLoseNothing`, about `Policy` alone: whatever version policy lets a caller
    read, unless it is archived, passes the namespace and channel filters of a search.

  * `Downloads`: `Spec => []DownloadsAccounted`. The counter of a skill is the size of a
    set of calls (`Tally`) that holds all that were answered and only such as were allowed;
    a call that fails between counter and answer is in it, one that fails before is not.

`DiscoveryProofs`. The invariant says where candidates come from: each one of either list is
the document, row and rules of one moment of the search, and passed the filters then; both
lists are finite, and no skill is in the text list twice. What sorts before what is a
strict order on keys that end in the document's number, so places in a list differ
(`NumberFacts` has the least and greatest elements it takes to say who is first).

  * `DiscoveryTypeCorrect`: `Spec => []TypeOK`.
  * `FoundVisible`: `Spec => []FoundWereVisible`.
  * `SkillsDistinct`: `Spec => []EachSkillOnce`, from the collapse in each list and `Merged`.
  * `NamedFirst`: `Spec => []ExactMatchFirst`. A document that stays eligible was a match of the
    text statement whatever its tags (which the tests demand, section 4), its skill is in the list because the flags sort first,
    and they sort first again in the fused list.
  * `BoostsCapped`: `Spec => []BoostsBounded`.
  * `DegradedSearch`: `Spec => []LexicalWhenAlone`, when no search asks for more than 900. Without
    vectors and boosts a score is the reciprocal of the place in the text list, so the fused list is
    in the order of the text list (`OrderAlone`), if different places have different
    reciprocals. In millionths they do up to 900 (`ReciprocalFalls`); in the code they are floats, and
    the only caller asks for twenty (`discovery.py:40`), so the hypothesis costs nothing.

`RequestsProofs`. `RequestInv` is said call by call (`PhaseOf`: what each phase knows, which is
that a caller is the one of the settings and that a publication past its checks passed
them; `TrailOf`: the event, if any, that a call has left in each phase, answered or failed after it;
`DueOf`), and of two calls only that they do not found the same thing. A
step changes what is kept of one call, adds to the trail only about it, and never takes
back what is founded, so it leaves the others alone (`OthersKeep`); what it does to its own
call is one of four things: `Moves`, `Ends`, `Denies`, `Allows`.

  * `GrantsDecideAlike`, about `Access` and `Policy` alone: default grants and the policy's
    fall-back decide alike for every scope, namespace, role and channel.
  * `TrailTruth`: `Spec => []TrailTellsOutcomes`.
  * `EffectsDue`: `Spec => []EffectsWereDue`, with `BundlesSound` (validation lets only sound
    bundles through) and `GrantsDecideAlike`.

The rest of `RequestsProofs` needs `ServiceInv`, which adds three parts to `RequestInv`:

  * `LockInv`: a call has locks in three phases only, all of the one strength of its kind; no two
    calls hold locks that conflict; what a batch has still to lock lies above what it holds, in
    ascending order; an install and a move have one row. The ascending enumeration
    of a finite set of rows exists (`EnumerationExists`, by a least counterexample).
  * `StarsInv`: a batch at its events holds all its rows; it changes stars of its own user and
    skills only; the last event so far of each skill has taken effect in the session, and
    its count is that of the table as the session sees it. Because batches that share a skill
    would hold conflicting locks (`BatchesApart`), the commit of one does not disturb what
    another has counted.
  * `Typed`: the types, and two facts that they need: rows that are locked, planned or observed
    are there, and a pack that was loaded is still there.

From it:

  * `TypesHold`: `Spec => []TypeOK`.
  * `DeadlocksAreMixed`: `Spec => []OnlyMixedDeadlocks`. `Blockers` is the least set closed under
    waiting. Without a batch, whoever is waited for is an install or a move that has its one row
    and waits for nobody, so the closure ends after one step. Without an import or a
    publication, whoever is waited for and waits is a batch, and waits for a row above the one it
    is waited for, so the rows only ascend and the circle cannot close.
  * `AnswersHold`: `Spec => AnswersHoldAtCommit`, for star batches from `StarsInv`, for packs from
    what the session's flush sends.

Assumptions on the constants: documents and tags are finite sets, slugs and ids numbers, facts
and first tables of their types, the limits of a bundle and of a batch numbers, `None` and `NoRow`
no row. Requests and settings have the types of the request models and of the settings:
slugs, versions, events and selectors of a request that validation lets through are of their
sets (`StarsAssumption`, `SubmissionAssumption`, `EnterpriseAssumption`), and the tokens of the settings are
a sequence of token settings (`AccessAssumption`). The tables of stars and observations are
finite at the start. TLC evaluates all of them in the runs.

Model-checked only: the liveness properties `EveryCallEnds`, `RunsEnd` and `DocumentsSettle` (the prover has no
reasoning about fairness and `ENABLED`), and that the four runs of section 4 fail, which
is a matter of examples. Every other property of a passing run is stated by a theorem.

## 7. Abstractions

  * Payloads are model values: an artifact is its digest, governance a function
    from a few fields to a few values, a source text `old` or `current`.
  * "grants" of a request stands for the token's scopes and namespace grants
    over all channels: the namespaces in which policy allows the operation. It is
    fixed for the call, as the token is. A missing policy pack makes the publish
    fail like any other foreign key; `Abort` covers it.
  * `PublishLoad` reads the skill row and the content row in one step: neither is
    ever deleted, so what lies between the two reads only adds a conflict that the
    commit tests again.
  * The UPDATE of the documents and that of the skill row of an ownership change are one step.
    The first takes the rows of the documents, which another move of the skill needs too, and the
    second is sent by the flush of the commit: between them nobody else moves the skill, and what
    nobody else sees cannot be told apart from one step.
  * A status change is one step from its flush on, because it always sends the time of the
    change and so holds the version row; a governance change is two (section 2).
  * Audit ids are in commit order. In the code ids are taken from a sequence at the
    insert; of calls that hold one row the order is the same. Of two changes that hold
    none, ids and commits may be the other way round; `AuditReplaysRows`, which reads ids of governance
    changes, is claimed only for calls that do not overlap on a skill.
  * In `Requests` a process that dies after the last statement of a writer that reads nothing
    back, and before the response, is not a step of its own; in `Catalog` it is (`Abort` in the phase
    `answer`).
  * A claim takes the oldest rows first; the model takes any. Whatever holds here
    holds for the order of the code.
  * In `CoUsage` the waits of one statement are resolved at once, when all rows it
    needs are free; a deadlock that PostgreSQL breaks is an `Abort`.

  * In `Reads` a policy pack is its enforced rules; a rule of another type than
    the code expects counts as absent, as in the code. Versions are numbered by
    `published_at`, which is the start of their transaction: they may appear in
    any order. The audit row of a read is its verdict. A token's record is looked up
    before the model begins.

  * In `Discovery` the text of a query is fixed and its normalization is what the facts
    match. A tag filter is the set of tags. The audit row is its result count.
  * In `Access` the digest of a secret is the secret: two are equal or not. "spelled" and
    "wellFormed" stand for validators of one field (a pattern, a length) whose only effect is
    to refuse.
  * In `Submission` decompression and the tar format are one flag, "readable"; a drive
    letter is the segment `c:`. Two publishers that meet are `Catalog`'s; of their conflicts
    `PublishConflict` keeps those of slug and coordinate.
  * In `Stars` an import is its locks; its pairs and edges are `CoUsage`'s. The order in which
    the database inserts pairs and edges is any.
  * In `Requests` a statement locks the rows that were there when it started, one at a time.

Not modelled: the limit of the top list and the edges of the skill graph; response bodies,
examples, health and root routes; logging, tracing and metrics; the start of the
indexing workflow after a publication (a background task after the answer, whose failure
is logged: `EmbeddingIndex` does not need it, the cron job does the same); building of
archives; migrations, seed data and scripts; the provider beyond "a vector or a failure".
None keeps catalogue state at run time.

## 8. Plan

In order of what matters most:

  1. (done) `Catalog` with its abstract specification, runs, proofs.
  2. (done) `EmbeddingIndex`, with liveness and proofs.
  3. (done) `CoUsage`.
  4. (done) `Policy` and `Reads`, with proofs. Left: the limit of the top list, which
     takes four times as many candidates before it asks what is visible, and the edges
     of the skill graph.
  5. (done) `Discovery`, with proofs.
  6. (done) `Access`, `Stars`, `Enterprise`, `Submission` and their composition `Requests`,
     with proofs.
  7. (done) `WorkflowProofs`, `DegradedSearch` and the locks, types and answers of `Requests`.
  8. Left to prove: the conditions under which what fails in `claim_taken` and
     `edge_left_active` holds, as `WorkflowProofs` has them for the catalogue.

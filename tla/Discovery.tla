------------------------------- MODULE Discovery -------------------------------
(***************************************************************************)
(* A search: candidates found by text, candidates found by meaning, and    *)
(* boosts for skills used together, read in three transactions with a call *)
(* to the embedding provider between them, fused into one list and then    *)
(* judged by policy, while other sessions change documents, policy packs,  *)
(* vectors, counters and pairs.                                            *)
(*                                                                         *)
(* Searches write nothing that a search reads, so one search against all   *)
(* writers is the general case.  Its text is fixed: what it matches in     *)
(* each document, how well, and at which distance are facts of the         *)
(* instance.  Lists are sets of candidates; a candidate's place is given   *)
(* by its sort key.                                                        *)
(***************************************************************************)
EXTENDS Policy, Integers, Sequences, FiniteSets

CONSTANTS
    Docs,         \* search documents, numbered by skill_version_fk
    Slugs,        \* skill slugs, numbered in their order
    Tags,         \* normalized tags
    Packs,        \* policy packs, NoPack among them
    NoPack,       \* the pack of a version that has none
    Facts,        \* what never changes of each document
    Queries,      \* the searches that may be made
    SettingsSet,  \* the settings a process may run with
    FirstTables,  \* the tables a behaviour may start with
    RowValues,    \* the rows that writers may leave in a document
    RuleValues,   \* the rules that writers may give to a pack
    PairTables,   \* the co-usage rates that an import may leave
    MaxWrites,    \* how many commits of writers a behaviour has
    NoRow         \* the absent document

Million == 1000000

Fact == [slug : Slugs, exactSlug : BOOLEAN, exactName : BOOLEAN,
         matches : BOOLEAN,   \* full text, or part of slug or name
         score : Nat, tags : SUBSET Tags, published : Nat, size : Nat, distance : Nat]

Row == [status : Statuses, gov : Gov(Packs), namespace : Namespaces]

\* The co-usage rate of an anchor and a related skill in millionths, 0 without a pair.
PairRates == [Slugs \X Slugs -> 0..Million]

Tables == [rows     : [Docs -> Row \cup {NoRow}],
           packs    : [Packs -> Rules],
           indexed  : SUBSET Docs,               \* documents with a served vector
           installs : [Slugs -> Nat],
           pairs    : PairRates]

\* A search without text lists every document that passes the filters.
Query == [caller : Caller, text : BOOLEAN, tags : SUBSET Tags, after : Nat, maxSize : Nat,
          statuses : SUBSET Statuses, tiers : SUBSET Tiers,
          context : Seq(Slugs), limit : Nat \ {0}]

Modes == {"off", "shadow", "hybrid"}

Settings == [mode : Modes, provider : BOOLEAN, coUsage : BOOLEAN,
             cap : 0..Million, contextLimit : Nat \ {0}, candidateLimit : Nat \ {0}]

ASSUME DiscoveryAssumption ==
    /\ Docs \subseteq Nat /\ IsFiniteSet(Docs) /\ IsFiniteSet(Tags)
    /\ Slugs \subseteq Nat
    /\ NoPack \in Packs
    /\ Facts \in [Docs -> Fact]
    /\ \A x, y \in Docs : Facts[x].exactSlug => (Facts[y].exactSlug <=> Facts[y].slug = Facts[x].slug)
    /\ Queries \subseteq Query
    /\ SettingsSet \subseteq Settings
    /\ FirstTables \subseteq Tables
    /\ \A d \in FirstTables : d.packs[NoPack] = OpenRules
    /\ RowValues \subseteq Row
    /\ RuleValues \subseteq Rules
    /\ PairTables \subseteq PairRates
    /\ MaxWrites \in Nat
    /\ NoRow \notin Row \cup Query

VARIABLES
    db,        \* the tables a search reads
    settings,  \* the settings of the process
    pc,        \* what the search does next
    query,     \* what it asks
    lexical,   \* candidates of the text statement
    semantic,  \* candidates of the vector statement
    boosts,    \* co-usage boost of each skill, in millionths
    failure,   \* the stage at which meaning was given up
    result,    \* how the search ended
    answer,    \* the candidates it answered with, and their places in the fused list
    audit,     \* result counts of its audit rows
    moments,   \* the states of db since it began
    writes     \* commits of writers so far

outcome == <<result, answer, audit>>
found == <<lexical, semantic, boosts, failure>>
vars == <<db, settings, pc, query, found, outcome, moments, writes>>

\* A row of either statement: the document, what was read of it, and its sort columns.
Candidate == [doc : Docs, row : Row, rules : Rules, installs : Nat,
              exactSlug : BOOLEAN, exactName : BOOLEAN, score : Nat, overlap : Nat]

Stages == {"none", "provider", "repository"}

Results == {"none", "forbidden", "failed", "answered"}

TypeOK ==
    /\ db \in Tables
    /\ db.packs[NoPack] = OpenRules
    /\ settings \in Settings
    /\ pc \in {"idle", "lexical", "embed", "semantic", "boosts", "rank", "done"}
    /\ query \in Query \cup {NoRow}
    /\ pc # "idle" => query \in Query
    /\ lexical \subseteq Candidate
    /\ semantic \subseteq Candidate
    /\ boosts \in [Slugs -> Nat]
    /\ failure \in Stages
    /\ result \in Results
    /\ DOMAIN answer \subseteq lexical \cup semantic
    /\ audit \subseteq Nat
    /\ moments \subseteq Tables
    /\ writes \in Nat

NoBoosts == [s \in Slugs |-> 0]

Init ==
    /\ db \in FirstTables
    /\ settings \in SettingsSet
    /\ pc = "idle"
    /\ query = NoRow
    /\ lexical = {} /\ semantic = {} /\ boosts = NoBoosts /\ failure = "none"
    /\ result = "none" /\ answer = <<>> /\ audit = {}
    /\ moments = {}
    /\ writes = 0

-----------------------------------------------------------------------------
(* Order *)

\* Sort keys compare like tuples, smaller first.
Before(key, other) ==
    \E i \in DOMAIN key :
        /\ key[i] < other[i]
        /\ \A j \in DOMAIN key : j < i => key[j] = other[j]

\* The place of k among the keys of its list, and the first n of the list.
Place(keys, k) == 1 + Cardinality({j \in DOMAIN keys : Before(keys[j], keys[k])})

FirstOf(keys, n) == {k \in DOMAIN keys : Place(keys, k) <= n}

Last(flag) == IF flag THEN 0 ELSE 1

SlugOf(k) == Facts[k.doc].slug

-----------------------------------------------------------------------------
(* Filters *)

\* Whoever asks for nothing gets the default.
StatusesOf(q) == IF q.statuses = {} THEN {"published"} ELSE q.statuses

StatusesAllowed(q) ==
    q.statuses \subseteq IF HasScope(q.caller, "admin") THEN Statuses ELSE ExactReadStatuses

TiersOf(q) == IF q.tiers = {} THEN Tiers ELSE q.tiers

ReviewsOf(q) == IF HasScope(q.caller, "review") THEN Reviews ELSE {"approved"}

\* The filters on columns that both statements have.
Admits(q, row) ==
    /\ row.status \in StatusesOf(q)
    /\ row.gov.trust \in TiersOf(q)
    /\ row.namespace \in AllowedNamespaces(q.caller, "read")
    /\ row.gov.channel \in AllowedPromotionChannels(q.caller, "read")
    /\ row.gov.review \in ReviewsOf(q)

Eligible(d, q) ==
    {x \in Docs : /\ d.rows[x] # NoRow
                  /\ Admits(q, d.rows[x])
                  /\ Facts[x].published >= q.after
                  /\ Facts[x].size <= q.maxSize}

IsExact(q, x) == q.text /\ (Facts[x].exactSlug \/ Facts[x].exactName)

MatchesText(q, x) == ~q.text \/ Facts[x].matches \/ IsExact(q, x)

HasTags(q, x) == q.tags \subseteq Facts[x].tags

-----------------------------------------------------------------------------
(* The text statement *)

LexicalCandidate(d, q, x) ==
    [doc |-> x, row |-> d.rows[x], rules |-> d.packs[d.rows[x].gov.pack],
     installs |-> d.installs[Facts[x].slug],
     exactSlug |-> q.text /\ Facts[x].exactSlug, exactName |-> q.text /\ Facts[x].exactName,
     score |-> IF q.text THEN Facts[x].score ELSE 0,
     overlap |-> Cardinality(q.tags \cap Facts[x].tags)]

\* What both orders end with.
TieBreak(k) == <<-k.overlap, -k.installs, -Facts[k.doc].published, Facts[k.doc].size,
                 SlugOf(k), -k.doc>>

LexicalKey(k) == <<Last(k.exactSlug), Last(k.exactName), -k.score>> \o TieBreak(k)

LexicalKeys(S) == [k \in S |-> LexicalKey(k)]

\* An exact slug or name is found whatever its tags are.
TextMatches(d, q) ==
    {LexicalCandidate(d, q, x) :
       x \in {y \in Eligible(d, q) : MatchesText(q, y) /\ (IsExact(q, y) \/ HasTags(q, y))}}

\* The version of each skill that comes first.
BestOfSkill(S) ==
    {k \in S : \A j \in S \ {k} : SlugOf(j) = SlugOf(k) => Before(LexicalKey(k), LexicalKey(j))}

LexicalList(d, q) == FirstOf(LexicalKeys(BestOfSkill(TextMatches(d, q))), q.limit)

-----------------------------------------------------------------------------
(* The vector statement *)

SemanticCandidate(d, q, x) ==
    [LexicalCandidate(d, q, x) EXCEPT !.exactSlug = FALSE, !.exactName = FALSE, !.score = 0]

SemanticKeys(S) == [k \in S |-> <<Facts[k.doc].distance, SlugOf(k), -k.doc>>]

Neighbours(d, q) ==
    {SemanticCandidate(d, q, x) : x \in {y \in Eligible(d, q) : y \in d.indexed /\ HasTags(q, y)}}

SmallerOf(m, n) == IF m < n THEN m ELSE n

-----------------------------------------------------------------------------
(* Fusion *)

\* Reciprocal rank in millionths; without a place it is 0.
Reciprocal(place) == Million \div (place + 60)

LexicalPart(lex, s) ==
    IF \E k \in lex : SlugOf(k) = s
    THEN Reciprocal(Place(LexicalKeys(lex), CHOOSE k \in lex : SlugOf(k) = s))
    ELSE 0

\* A skill found by several of its vectors counts with the last of them.
SemanticPart(sem, s) ==
    LET places == {Place(SemanticKeys(sem), k) : k \in {j \in sem : SlugOf(j) = s}}
    IN  IF places = {} THEN 0
        ELSE Reciprocal(CHOOSE p \in places : \A o \in places : o <= p)

\* Mutant: a skill found both ways is boosted twice.
BoostEachTime(lex, sem, b, s, cap) ==
    IF LexicalPart(lex, s) > 0 /\ SemanticPart(sem, s) > 0
    THEN 2 * SmallerOf(b[s], cap) ELSE SmallerOf(b[s], cap)

BoundedBoost(lex, sem, b, s, cap) == SmallerOf(b[s], cap)

\* Mutant: a skill found both ways gets the row of its last vector and the text match of
\* its text candidate, be they of different versions.
MergedByHalves(lex, sem) ==
    LET places  == [k \in sem |-> Place(SemanticKeys(sem), k)]
        last(s) == CHOOSE k \in sem : /\ SlugOf(k) = s
                                      /\ \A j \in sem : SlugOf(j) = s => places[j] <= places[k]
        both    == {SlugOf(k) : k \in lex} \cap {SlugOf(k) : k \in sem}
    IN  {IF SlugOf(k) \in both
         THEN [last(SlugOf(k)) EXCEPT !.exactSlug = k.exactSlug, !.exactName = k.exactName,
                                      !.score = k.score]
         ELSE k : k \in lex}
        \cup {k \in sem : k = last(SlugOf(k)) /\ SlugOf(k) \notin both}

\* Mutant: every version found stays.
EveryVersion(lex, sem) == lex \cup sem

\* A skill is represented by its text candidate, else by its nearest version.
Merged(lex, sem) ==
    lex \cup {k \in sem : /\ \A j \in lex : SlugOf(j) # SlugOf(k)
                          /\ \A j \in sem : SlugOf(j) = SlugOf(k) =>
                               Place(SemanticKeys(sem), k) <= Place(SemanticKeys(sem), j)}

\* Mutant: relevance alone decides.
FusedByRelevance(lex, sem, b, cap) ==
    [k \in Merged(lex, sem) |->
       <<-(LexicalPart(lex, SlugOf(k)) + SemanticPart(sem, SlugOf(k))
             + BoundedBoost(lex, sem, b, SlugOf(k), cap))>> \o TieBreak(k)]

Fused(lex, sem, b, cap) ==
    [k \in Merged(lex, sem) |->
       <<Last(k.exactSlug), Last(k.exactName),
         -(LexicalPart(lex, SlugOf(k)) + SemanticPart(sem, SlugOf(k))
             + BoundedBoost(lex, sem, b, SlugOf(k), cap))>> \o TieBreak(k)]

\* Mutant: the policy pack of a candidate is not judged.
VisibleWithoutPack(q, S) == {k \in S : IsVisible(q.caller, k.row, OpenRules)}

\* Policy judges what the cut has left.
Visible(q, S) == {k \in S : IsVisible(q.caller, k.row, k.rules)}

AnswerOf(q, keys) == [k \in Visible(q, FirstOf(keys, q.limit)) |-> Place(keys, k)]

-----------------------------------------------------------------------------
(* Steps of the search *)

Goto(phase) == pc' = phase /\ UNCHANGED <<db, settings, query, outcome, moments, writes>>

Begin(q) ==
    /\ pc = "idle"
    /\ HasScope(q.caller, "read") /\ StatusesAllowed(q)
    /\ query' = q
    /\ pc' = "lexical"
    /\ moments' = {db}
    /\ UNCHANGED <<db, settings, found, outcome, writes>>

Forbid(q) ==
    /\ pc = "idle"
    /\ ~HasScope(q.caller, "read") \/ ~StatusesAllowed(q)
    /\ query' = q
    /\ pc' = "done"
    /\ result' = "forbidden"
    /\ UNCHANGED <<db, settings, found, answer, audit, moments, writes>>

SearchText ==
    /\ pc = "lexical"
    /\ lexical' = LexicalList(db, query)
    /\ Goto("embed")
    /\ UNCHANGED <<semantic, boosts, failure>>

EmbedsQuery == settings.mode # "off" /\ query.text /\ settings.provider

SkipSemantic ==
    /\ pc = "embed"
    /\ ~EmbedsQuery
    /\ Goto("boosts")
    /\ UNCHANGED found

EmbedQuery ==
    /\ pc = "embed"
    /\ EmbedsQuery
    /\ Goto("semantic")
    /\ UNCHANGED found

\* The provider fails, answers too late, or with a vector of no use.
EmbedFails ==
    /\ pc = "embed"
    /\ EmbedsQuery
    /\ failure' = "provider"
    /\ Goto("boosts")
    /\ UNCHANGED <<lexical, semantic, boosts>>

\* The vector index is approximate: it may miss neighbours.
SearchVectors ==
    /\ pc = "semantic"
    /\ \E near \in SUBSET Neighbours(db, query) :
        semantic' = FirstOf(SemanticKeys(near), SmallerOf(settings.candidateLimit, query.limit))
    /\ Goto("boosts")
    /\ UNCHANGED <<lexical, boosts, failure>>

SearchVectorsFails ==
    /\ pc = "semantic"
    /\ failure' = "repository"
    /\ Goto("boosts")
    /\ UNCHANGED <<lexical, semantic, boosts>>

\* Mutant: the shadow is ranked as well.
AllNeighbours == semantic

\* In shadow mode the neighbours are only looked up.
RankedNeighbours == IF settings.mode = "shadow" THEN {} ELSE semantic

Context == {query.context[i] : i \in 1..SmallerOf(Len(query.context), settings.contextLimit)}

\* The best rate with any skill of the context.
RateOf(s) ==
    LET rates == {db.pairs[<<a, s>>] : a \in Context}
    IN  CHOOSE r \in rates : \A o \in rates : o <= r

\* A boost is a share of the cap.
ReadBoosts ==
    LET slugs == {SlugOf(k) : k \in lexical \cup RankedNeighbours}
    IN  /\ pc = "boosts"
        /\ settings.coUsage /\ query.context # <<>>
        /\ boosts' = [s \in Slugs |->
                        IF s \in slugs THEN (RateOf(s) * settings.cap) \div Million ELSE 0]
        /\ Goto("rank")
        /\ UNCHANGED <<lexical, semantic, failure>>

SkipBoosts ==
    /\ pc = "boosts"
    /\ ~settings.coUsage \/ query.context = <<>>
    /\ Goto("rank")
    /\ UNCHANGED found

Answer(keys) ==
    /\ pc = "rank"
    /\ pc' = "done"
    /\ result' = "answered"
    /\ answer' = AnswerOf(query, keys)
    /\ audit' = audit \cup {Cardinality(DOMAIN AnswerOf(query, keys))}
    /\ UNCHANGED <<db, settings, query, found, moments, writes>>

\* Ranks, judges, and answers when the audit row is committed.
Rank == Answer(Fused(lexical, RankedNeighbours, boosts, settings.cap))

\* A failure of the database in the text search, the boosts or the audit row.
Fail ==
    /\ pc \in {"lexical", "boosts", "rank"}
    /\ pc' = "done"
    /\ result' = "failed"
    /\ UNCHANGED <<db, settings, query, found, answer, audit, moments, writes>>

-----------------------------------------------------------------------------
(* The writers *)

\* FirstTables stand for the commits before the search; those after it do not matter.
Commit(d) ==
    /\ pc \notin {"idle", "done"}
    /\ writes < MaxWrites
    /\ writes' = writes + 1
    /\ db' = d
    /\ moments' = moments \cup {d}
    /\ UNCHANGED <<settings, pc, query, found, outcome>>

\* A publication brings a document; its vector is still to be computed.
PublishVersion(x, row) ==
    /\ db.rows[x] = NoRow
    /\ row.status = "published"
    /\ Commit([db EXCEPT !.rows[x] = row])

\* A change of lifecycle status or of governance reaches the document in its commit.
UpdateVersion(x, row) ==
    /\ db.rows[x] # NoRow /\ row.namespace = db.rows[x].namespace
    /\ Commit([db EXCEPT !.rows[x] = row])

\* All documents of the skill move.
UpdateSkillOwnership(s, namespace) ==
    Commit([db EXCEPT !.rows =
              [x \in Docs |-> IF db.rows[x] # NoRow /\ Facts[x].slug = s
                              THEN [db.rows[x] EXCEPT !.namespace = namespace] ELSE db.rows[x]]])

UpsertPolicyPack(p, r) ==
    /\ p # NoPack
    /\ Commit([db EXCEPT !.packs[p] = r])

\* A worker stores a vector, or the vector goes stale.
IndexVector(x) ==
    /\ db.rows[x] # NoRow
    /\ Commit([db EXCEPT !.indexed = IF x \in @ THEN @ \ {x} ELSE @ \cup {x}])

RecordInstall(s) == Commit([db EXCEPT !.installs[s] = @ + 1])

ImportPairs(rates) == Commit([db EXCEPT !.pairs = rates])

-----------------------------------------------------------------------------
Search ==
    \/ SearchText
    \/ SkipSemantic \/ EmbedQuery \/ EmbedFails \/ SearchVectors \/ SearchVectorsFails
    \/ SkipBoosts \/ ReadBoosts \/ Rank \/ Fail

Writer ==
    \/ \E x \in Docs : \/ \E row \in RowValues : PublishVersion(x, row) \/ UpdateVersion(x, row)
                       \/ IndexVector(x)
    \/ \E s \in Slugs : \/ \E namespace \in Namespaces : UpdateSkillOwnership(s, namespace)
                        \/ RecordInstall(s)
    \/ \E p \in Packs, r \in RuleValues : UpsertPolicyPack(p, r)
    \/ \E rates \in PairTables : ImportPairs(rates)

Next == (\E q \in Queries : Begin(q) \/ Forbid(q)) \/ Search \/ Writer

Spec == Init /\ [][Next]_vars

-----------------------------------------------------------------------------
(* Properties *)

VisibleAt(m, x) == IsVisible(query.caller, m.rows[x], m.packs[m.rows[x].gov.pack])

WasVisible(k) ==
    \E m \in moments : k.doc \in Eligible(m, query) /\ k.row = m.rows[k.doc] /\ VisibleAt(m, k.doc)

\* Whatever a search answers with passed its filters and was visible to the caller, row
\* and policy pack together, at a moment of the search: the three transactions, the
\* provider between them and the fusion of their candidates let nothing else through.
FoundWereVisible == \A k \in DOMAIN answer : WasVisible(k)

\* A skill is answered once, though its versions come from two statements at two moments
\* and the vector statement lists several, and the answer keeps to the limit.
EachSkillOnce ==
    /\ \A k, j \in DOMAIN answer : SlugOf(k) = SlugOf(j) => k = j
    /\ \A k \in DOMAIN answer : answer[k] \in 1..query.limit
    /\ \A k, j \in DOMAIN answer : answer[k] = answer[j] => k = j

\* A skill that is named by its slug, and could be found and read all the time of the
\* search, is answered first: the limit, vectors and boosts do not matter, and neither do
\* its tags, as tests/integration/test_exact_fetch_endpoints.py:715 demands (against
\* docs/architecture/discovery-and-ranking.md:213-218, which has tags required of all).
ExactMatchFirst ==
    LET named == {x \in Docs : Facts[x].exactSlug}
    IN  /\ result = "answered" /\ query.text
        /\ \A m \in moments : /\ named \cap Eligible(m, query) # {}
                              /\ \A x \in named \cap Eligible(m, query) : VisibleAt(m, x)
        => \E k \in DOMAIN answer : k.doc \in named /\ answer[k] = 1

\* Without vectors that count and without boosts an answer is the text search of one
\* moment, in its order, less what policy hides: in shadow mode, and whenever the
\* provider or the vector statement has failed.
LexicalWhenAlone ==
    /\ result = "answered" /\ boosts = NoBoosts
    /\ settings.mode # "hybrid" \/ failure # "none"
    => \E m \in moments :
         LET list == LexicalList(m, query)
         IN  answer = [k \in {j \in list : VisibleAt(m, j.doc)} |-> Place(LexicalKeys(list), k)]

Relevance(k) == LexicalPart(lexical, SlugOf(k)) + SemanticPart(semantic, SlugOf(k))

\* Skills used together move a candidate by less than the cap: one that is behind by more
\* than that in text and meaning stays behind.
BoostsBounded ==
    \A k, j \in DOMAIN answer :
        /\ settings.mode = "hybrid"
        /\ k.exactSlug = j.exactSlug /\ k.exactName = j.exactName
        /\ Relevance(k) > Relevance(j) + settings.cap
        => answer[k] < answer[j]

=============================================================================

---------------------------- MODULE DiscoveryProofs ----------------------------
(***************************************************************************)
(* What a search answers, for any documents, policy packs, callers,        *)
(* settings and writers: the types of its variables, that everything it    *)
(* answers with was visible at a moment of the search, that a skill is     *)
(* answered once, what comes first, and what is answered without vectors.  *)
(* The invariant says what a candidate is: the row and the rules of one    *)
(* moment at which the document passed the filters.                        *)
(***************************************************************************)
EXTENDS Discovery, NumberFacts, FiniteSetTheorems, SequenceTheorems, TLAPS

-----------------------------------------------------------------------------
(* Sort keys *)

Keys(n) == [1..n -> Int]

\* Sort keys are in order one way only.
LEMMA BeforeAsymmetric ==
    ASSUME NEW n \in Nat, NEW key \in Keys(n), NEW other \in Keys(n),
           Before(key, other)
    PROVE  ~ Before(other, key)
<1> SUFFICES ASSUME Before(other, key) PROVE FALSE
  OBVIOUS
<1>1. PICK i \in 1..n : key[i] < other[i] /\ \A j \in 1..n : j < i => key[j] = other[j]
  BY DEF Before, Keys
<1>2. PICK k \in 1..n : other[k] < key[k] /\ \A j \in 1..n : j < k => other[j] = key[j]
  BY DEF Before, Keys
<1> QED
  BY <1>1, <1>2 DEF Keys

\* The order of sort keys is transitive.
LEMMA BeforeTransitive ==
    ASSUME NEW n \in Nat, NEW a \in Keys(n), NEW b \in Keys(n),
           NEW c \in Keys(n), Before(a, b), Before(b, c)
    PROVE  Before(a, c)
<1>1. PICK i \in 1..n : a[i] < b[i] /\ \A j \in 1..n : j < i => a[j] = b[j]
  BY DEF Before, Keys
<1>2. PICK k \in 1..n : b[k] < c[k] /\ \A j \in 1..n : j < k => b[j] = c[j]
  BY DEF Before, Keys
<1>3. CASE i <= k
  <2>1. a[i] < c[i] /\ \A j \in 1..n : j < i => a[j] = c[j]
    BY <1>1, <1>2, <1>3 DEF Keys
  <2> QED
    BY <2>1 DEF Before, Keys
<1>4. CASE k < i
  <2>1. a[k] < c[k] /\ \A j \in 1..n : j < k => a[j] = c[j]
    BY <1>1, <1>2, <1>4 DEF Keys
  <2> QED
    BY <2>1 DEF Before, Keys
<1> QED
  BY <1>3, <1>4

\* Two sort keys that differ are in order.
LEMMA BeforeTotal ==
    ASSUME NEW n \in Nat, NEW key \in Keys(n), NEW other \in Keys(n),
           key # other
    PROVE  Before(key, other) \/ Before(other, key)
<1> DEFINE differ == {i \in 1..n : key[i] # other[i]}
<1>1. differ # {} /\ differ \in SUBSET Nat
  BY DEF Keys
<1> HIDE DEF differ
<1>2. PICK i \in differ : \A j \in differ : i <= j
  BY <1>1, Least
<1>3. i \in 1..n /\ \A j \in 1..n : j < i => key[j] = other[j]
  BY <1>2 DEF differ
<1> DOMAIN key = 1..n /\ DOMAIN other = 1..n
  BY DEF Keys
<1>4. CASE key[i] < other[i]
  BY <1>3, <1>4 DEF Before, Keys
<1>5. CASE other[i] < key[i]
  <2>1. \A j \in 1..n : j < i => other[j] = key[j]
    BY <1>3
  <2> QED
    BY <1>3, <1>5, <2>1 DEF Before, Keys
<1>6. key[i] < other[i] \/ other[i] < key[i]
  BY <1>2 DEF differ, Keys
<1> QED
  BY <1>4, <1>5, <1>6

\* Places are numbers within the list, and two entries whose keys differ have
\* different places.
LEMMA PlaceType ==
    ASSUME NEW keys, IsFiniteSet(DOMAIN keys), NEW k
    PROVE  Place(keys, k) \in Nat /\ 1 <= Place(keys, k)
           /\ Place(keys, k) <= 1 + Cardinality(DOMAIN keys)
<1> DEFINE ahead == {j \in DOMAIN keys : Before(keys[j], keys[k])}
<1>1. IsFiniteSet(ahead) /\ Cardinality(ahead) <= Cardinality(DOMAIN keys)
  BY FS_Subset
<1>2. Cardinality(ahead) \in Nat /\ Cardinality(DOMAIN keys) \in Nat
  BY <1>1, FS_CardinalityType
<1>3. Place(keys, k) = 1 + Cardinality(ahead)
  BY DEF Place
<1> QED
  BY <1>1, <1>2, <1>3

LEMMA EarlierPlace ==
    ASSUME NEW n \in Nat, NEW S, IsFiniteSet(S), NEW keys \in [S -> Keys(n)],
           NEW k \in S, NEW j \in S, Before(keys[k], keys[j])
    PROVE  Place(keys, k) < Place(keys, j)
<1> DEFINE ahead(x) == {i \in DOMAIN keys : Before(keys[i], keys[x])}
<1>1. ahead(k) \subseteq ahead(j)
  BY BeforeTransitive
<1>2. k \in ahead(j) /\ k \notin ahead(k)
  BY BeforeAsymmetric
<1>3. IsFiniteSet(ahead(j)) /\ IsFiniteSet(ahead(k))
  BY FS_Subset
<1>4. /\ Cardinality(ahead(k)) <= Cardinality(ahead(j))
      /\ Cardinality(ahead(k)) # Cardinality(ahead(j))
  BY <1>1, <1>2, <1>3, FS_Subset
<1>5. Cardinality(ahead(k)) \in Nat /\ Cardinality(ahead(j)) \in Nat
  BY <1>3, FS_CardinalityType
<1>6. Place(keys, k) = 1 + Cardinality(ahead(k)) /\ Place(keys, j) = 1 + Cardinality(ahead(j))
  BY DEF Place
<1> QED
  BY <1>4, <1>5, <1>6

LEMMA SamePlace ==
    ASSUME NEW n \in Nat, NEW S, IsFiniteSet(S), NEW keys \in [S -> Keys(n)],
           NEW k \in S, NEW j \in S, Place(keys, k) = Place(keys, j)
    PROVE  keys[k] = keys[j]
<1> SUFFICES ASSUME keys[k] # keys[j] PROVE FALSE
  OBVIOUS
<1>1. Before(keys[k], keys[j]) \/ Before(keys[j], keys[k])
  BY BeforeTotal
<1>2. Place(keys, k) < Place(keys, j) \/ Place(keys, j) < Place(keys, k)
  BY <1>1, EarlierPlace
<1>3. Place(keys, k) \in Nat /\ Place(keys, j) \in Nat
  BY PlaceType
<1> QED
  BY <1>2, <1>3

-----------------------------------------------------------------------------
(* Candidates *)

\* What both statements keep of an eligible document.
LEMMA CandidateType ==
    ASSUME NEW d \in Tables, NEW q \in Query, NEW x \in Eligible(d, q)
    PROVE  /\ LexicalCandidate(d, q, x) \in Candidate
           /\ SemanticCandidate(d, q, x) \in Candidate
           /\ LexicalCandidate(d, q, x).doc = x /\ SemanticCandidate(d, q, x).doc = x
           /\ LexicalCandidate(d, q, x).exactSlug = (q.text /\ Facts[x].exactSlug)
           /\ SemanticCandidate(d, q, x).exactSlug = FALSE
           /\ LexicalCandidate(d, q, x).row = d.rows[x]
           /\ SemanticCandidate(d, q, x).row = d.rows[x]
           /\ LexicalCandidate(d, q, x).rules = d.packs[d.rows[x].gov.pack]
           /\ SemanticCandidate(d, q, x).rules = d.packs[d.rows[x].gov.pack]
<1> USE DEF LexicalCandidate
<1>1. x \in Docs /\ d.rows[x] \in Row
  BY DEF Eligible, Tables
<1>2. Facts[x] \in Fact
  BY <1>1, DiscoveryAssumption
<1>3. Facts[x].slug \in Slugs /\ Facts[x].score \in Nat /\ Facts[x].tags \in SUBSET Tags
      /\ Facts[x].exactSlug \in BOOLEAN /\ Facts[x].exactName \in BOOLEAN
  BY <1>2 DEF Fact
<1>4. d.packs[d.rows[x].gov.pack] \in Rules
  BY <1>1 DEF Tables, Row, Gov
<1>5. d.installs[Facts[x].slug] \in Nat
  BY <1>3 DEF Tables
<1>6. Cardinality(q.tags \cap Facts[x].tags) \in Nat
  <2>1. IsFiniteSet(q.tags \cap Facts[x].tags)
    BY <1>3, DiscoveryAssumption, FS_Subset
  <2> QED
    BY <2>1, FS_CardinalityType
<1>7. (q.text /\ Facts[x].exactSlug) \in BOOLEAN /\ (q.text /\ Facts[x].exactName) \in BOOLEAN
  OBVIOUS
<1>8. (IF q.text THEN Facts[x].score ELSE 0) \in Nat
  BY <1>3
<1>9. LexicalCandidate(d, q, x) \in Candidate
  BY <1>1, <1>4, <1>5, <1>6, <1>7, <1>8 DEF Candidate
<1>10. SemanticCandidate(d, q, x) \in Candidate
  BY <1>1, <1>4, <1>5, <1>6 DEF Candidate, SemanticCandidate
<1> QED
  BY <1>9, <1>10 DEF SemanticCandidate

\* A candidate's facts.
LEMMA FactTypes ==
    ASSUME NEW k \in Candidate
    PROVE  /\ k.doc \in Nat /\ k.doc \in Docs
           /\ SlugOf(k) \in Slugs /\ SlugOf(k) \in Nat
           /\ Facts[k.doc].published \in Nat /\ Facts[k.doc].size \in Nat
           /\ Facts[k.doc].distance \in Nat
<1>1. k.doc \in Docs
  BY DEF Candidate
<1>2. Facts[k.doc] \in Fact
  BY <1>1, DiscoveryAssumption
<1> QED
  BY <1>1, <1>2, DiscoveryAssumption DEF Fact, SlugOf

LEMMA ThreeAndSix ==
    ASSUME NEW s \in Seq(Int), NEW t \in Seq(Int), Len(s) = 3, Len(t) = 6
    PROVE  /\ s \o t \in Keys(9)
           /\ (s \o t)[1] = s[1] /\ (s \o t)[2] = s[2] /\ (s \o t)[3] = s[3]
           /\ (s \o t)[9] = t[6]
<1> DEFINE c == s \o t
<1>1. /\ c \in Seq(Int) /\ Len(c) = Len(s) + Len(t)
      /\ \A i \in 1..Len(s) + Len(t) : c[i] = IF i <= Len(s) THEN s[i] ELSE t[i - Len(s)]
  BY ConcatProperties, Zenon
<1> HIDE DEF c
<1>2. c \in Keys(9)
  BY <1>1 DEF Keys
<1>3. c[9] = t[6] /\ c[1] = s[1] /\ c[2] = s[2] /\ c[3] = s[3]
  BY <1>1
<1> QED
  BY <1>2, <1>3 DEF c

\* Sort keys are tuples of nine integers; the last is the document's, negated.
LEMMA NinePlaces ==
    ASSUME NEW s \in Seq(Int), Len(s) = 3, NEW k \in Candidate
    PROVE  /\ s \o TieBreak(k) \in Keys(9)
           /\ (s \o TieBreak(k))[1] = s[1]
           /\ (s \o TieBreak(k))[2] = s[2]
           /\ (s \o TieBreak(k))[3] = s[3]
           /\ (s \o TieBreak(k))[9] = -k.doc
<1>1. k.overlap \in Nat /\ k.installs \in Nat
  BY DEF Candidate
<1>2. TieBreak(k) \in Seq(Int) /\ Len(TieBreak(k)) = 6 /\ TieBreak(k)[6] = -k.doc
  BY <1>1, FactTypes DEF TieBreak
<1> QED
  BY <1>2, ThreeAndSix, Zenon

LEMMA LexicalKeyType ==
    ASSUME NEW k \in Candidate
    PROVE  /\ LexicalKey(k) \in Keys(9)
           /\ LexicalKey(k)[1] = Last(k.exactSlug)
           /\ LexicalKey(k)[2] = Last(k.exactName)
           /\ LexicalKey(k)[9] = -k.doc
<1> DEFINE s == <<Last(k.exactSlug), Last(k.exactName), -k.score>>
<1>1. k.score \in Nat
  BY DEF Candidate
<1>2. s \in Seq(Int) /\ Len(s) = 3
  BY <1>1 DEF Last
<1>3. LexicalKey(k) = s \o TieBreak(k)
  BY Zenon DEF LexicalKey
<1>4. s[1] = Last(k.exactSlug) /\ s[2] = Last(k.exactName)
  OBVIOUS
<1> HIDE DEF s
<1>5. /\ s \o TieBreak(k) \in Keys(9)
      /\ (s \o TieBreak(k))[1] = s[1]
      /\ (s \o TieBreak(k))[2] = s[2]
      /\ (s \o TieBreak(k))[9] = -k.doc
  BY <1>2, NinePlaces, Zenon
<1> QED
  BY <1>3, <1>4, <1>5, Zenon

-----------------------------------------------------------------------------
(* The statements *)

\* k is what a statement reads of its document in d.
AsRead(d, q, k) ==
    /\ k.doc \in Eligible(d, q)
    /\ k.row = d.rows[k.doc]
    /\ k.rules = d.packs[k.row.gov.pack]

\* Its flag says whether the document's slug is the text of the search.
TextFlag(q, k) == k.exactSlug <=> q.text /\ Facts[k.doc].exactSlug

OnePerDoc(S) == \A k, j \in S : k.doc = j.doc => k = j

OnePerSkill(S) == \A k, j \in S : SlugOf(k) = SlugOf(j) => k = j

\* Documents are finitely many, hence so are candidates of distinct documents.
LEMMA FinitelyMany ==
    ASSUME NEW S \in SUBSET Candidate, OnePerDoc(S)
    PROVE  IsFiniteSet(S)
<1> DEFINE f == [k \in S |-> k.doc]
<1>1. f \in Injection(S, Docs)
  BY DEF Candidate, OnePerDoc, Injection, IsInjective
<1> QED
  BY <1>1, FS_Injection, DiscoveryAssumption

LEMMA SkillOfDoc ==
    ASSUME NEW S, OnePerSkill(S) PROVE OnePerDoc(S)
BY DEF OnePerSkill, OnePerDoc, SlugOf

LEMMA TextMatchFacts ==
    ASSUME NEW d \in Tables, NEW q \in Query
    PROVE  /\ TextMatches(d, q) \in SUBSET Candidate
           /\ \A k \in TextMatches(d, q) : AsRead(d, q, k) /\ TextFlag(q, k)
           /\ OnePerDoc(TextMatches(d, q))
<1>1. ASSUME NEW k \in TextMatches(d, q)
      PROVE  /\ k \in Candidate /\ AsRead(d, q, k) /\ TextFlag(q, k)
             /\ k = LexicalCandidate(d, q, k.doc)
  <2>1. PICK x \in Eligible(d, q) : k = LexicalCandidate(d, q, x)
    BY DEF TextMatches
  <2>2. /\ k \in Candidate /\ k.doc = x /\ k.row = d.rows[x]
        /\ k.rules = d.packs[d.rows[x].gov.pack]
        /\ k.exactSlug = (q.text /\ Facts[x].exactSlug)
    BY <2>1, CandidateType
  <2> QED
    BY <2>1, <2>2 DEF AsRead, TextFlag
<1>2. OnePerDoc(TextMatches(d, q))
  <2> SUFFICES ASSUME NEW k \in TextMatches(d, q), NEW j \in TextMatches(d, q), k.doc = j.doc
               PROVE  k = j
    BY DEF OnePerDoc
  <2>1. k = LexicalCandidate(d, q, k.doc) /\ j = LexicalCandidate(d, q, j.doc)
    BY <1>1
  <2> QED
    BY <2>1, Zenon
<1> QED
  BY <1>1, <1>2

\* The text statement lists each skill once.
LEMMA LexicalListFacts ==
    ASSUME NEW d \in Tables, NEW q \in Query
    PROVE  /\ LexicalList(d, q) \in SUBSET Candidate
           /\ \A k \in LexicalList(d, q) : AsRead(d, q, k) /\ TextFlag(q, k)
           /\ OnePerSkill(LexicalList(d, q))
<1>1. LexicalList(d, q) \subseteq BestOfSkill(TextMatches(d, q))
  BY DEF LexicalList, FirstOf, LexicalKeys
<1>2. BestOfSkill(TextMatches(d, q)) \subseteq TextMatches(d, q)
  BY DEF BestOfSkill
<1>3. OnePerSkill(LexicalList(d, q))
  <2> SUFFICES ASSUME NEW k \in BestOfSkill(TextMatches(d, q)),
                      NEW j \in BestOfSkill(TextMatches(d, q)),
                      SlugOf(k) = SlugOf(j), k # j
               PROVE  FALSE
    BY <1>1, Zenon DEF OnePerSkill
  <2>1. k \in Candidate /\ j \in Candidate
    BY <1>2, TextMatchFacts
  <2>2. LexicalKey(k) \in Keys(9) /\ LexicalKey(j) \in Keys(9)
    BY <2>1, LexicalKeyType
  <2>3. Before(LexicalKey(k), LexicalKey(j)) /\ Before(LexicalKey(j), LexicalKey(k))
    BY DEF BestOfSkill
  <2> QED
    BY <2>2, <2>3, BeforeAsymmetric
<1> QED
  BY <1>1, <1>2, <1>3, TextMatchFacts

\* An entry whose first key is 0, where no other's is and none is less, comes first.
LEMMA FirstPlace ==
    ASSUME NEW n \in Nat, 1 <= n, NEW S, NEW keys \in [S -> Keys(n)], NEW k \in S, keys[k][1] = 0,
           \A j \in S : keys[j][1] >= 0, \A j \in S : keys[j][1] = 0 => j = k
    PROVE  Place(keys, k) = 1
<1>1. ASSUME NEW j \in S, Before(keys[j], keys[k]) PROVE FALSE
  <2>1. keys[j] \in Keys(n) /\ keys[k] \in Keys(n) /\ keys[j][1] >= 0 /\ keys[j][1] \in Int
    BY DEF Keys
  <2>2. PICK i \in 1..n : keys[j][i] < keys[k][i] /\ \A h \in 1..n : h < i => keys[j][h] = keys[k][h]
    BY <1>1, <2>1 DEF Before, Keys
  <2>3. i # 1
    BY <2>1, <2>2
  <2>4. keys[j][1] = keys[k][1]
    BY <2>2, <2>3
  <2>5. j = k
    BY <2>4
  <2> QED
    BY <2>1, <2>2, <2>5 DEF Keys
<1>2. {j \in DOMAIN keys : Before(keys[j], keys[k])} = {}
  BY <1>1
<1>3. Place(keys, k) = 1 + Cardinality({})
  BY <1>2 DEF Place
<1> QED
  BY <1>3, FS_EmptySet

\* Of the versions of a skill that match, one comes before the others.
LEMMA BestExists ==
    ASSUME NEW d \in Tables, NEW q \in Query, NEW c \in TextMatches(d, q)
    PROVE  \E k \in BestOfSkill(TextMatches(d, q)) : SlugOf(k) = SlugOf(c)
<1> DEFINE T == TextMatches(d, q)
           keys == LexicalKeys(T)
           places == {Place(keys, k) : k \in {j \in T : SlugOf(j) = SlugOf(c)}}
<1>1. T \in SUBSET Candidate /\ OnePerDoc(T) /\ IsFiniteSet(T) /\ c \in T
  BY TextMatchFacts, FinitelyMany
<1>2. keys \in [T -> Keys(9)] /\ \A k \in T : keys[k] = LexicalKey(k) /\ keys[k][9] = -k.doc
  BY <1>1, LexicalKeyType DEF LexicalKeys
<1> HIDE DEF T, keys
<1>3. \A k \in T : Place(keys, k) \in Nat
  BY <1>1, <1>2, PlaceType
<1>4. places # {} /\ places \in SUBSET Nat
  BY <1>1, <1>3
<1>5. PICK p \in places : \A o \in places : p <= o
  <2> HIDE DEF places
  <2> QED
    BY <1>4, Least
<1>6. PICK k \in T : SlugOf(k) = SlugOf(c) /\ Place(keys, k) = p
  BY <1>5
<1>7. ASSUME NEW j \in T, j # k, SlugOf(j) = SlugOf(k)
      PROVE  Before(LexicalKey(k), LexicalKey(j))
  <2>1. Place(keys, k) <= Place(keys, j)
    BY <1>5, <1>6, <1>7
  <2>2. ~ (Place(keys, j) < Place(keys, k))
    BY <1>3, <2>1
  <2>3. ~ Before(keys[j], keys[k])
    BY <1>1, <1>2, <2>2, EarlierPlace
  <2>4. keys[k] # keys[j]
    <3>1. k.doc # j.doc
      BY <1>1, <1>7 DEF OnePerDoc
    <3>2. k.doc \in Nat /\ j.doc \in Nat
      BY <1>1, FactTypes
    <3> QED
      BY <1>2, <3>1, <3>2
  <2>5. Before(keys[k], keys[j])
    BY <1>2, <2>3, <2>4, BeforeTotal
  <2> QED
    BY <1>2, <2>5
<1>8. k \in BestOfSkill(T)
  BY <1>6, <1>7 DEF BestOfSkill
<1> QED
  BY <1>6, <1>8 DEF T

\* A document whose slug is the text is at the head of the text list: limits and tags do
\* not matter.
LEMMA ExactListed ==
    ASSUME NEW d \in Tables, NEW q \in Query, q.text,
           NEW x \in Eligible(d, q), Facts[x].exactSlug
    PROVE  \E k \in LexicalList(d, q) : k.exactSlug
<1> DEFINE T == TextMatches(d, q)
           B == BestOfSkill(T)
           keys == LexicalKeys(B)
           c == LexicalCandidate(d, q, x)
<1>1. x \in Docs
  BY DEF Eligible
<1>2. c \in T /\ c.doc = x
  BY <1>1, CandidateType DEF TextMatches, MatchesText, IsExact
<1>3. PICK k \in B : SlugOf(k) = SlugOf(c)
  BY <1>2, BestExists
<1>4. /\ B \subseteq T /\ B \in SUBSET Candidate
      /\ \A j \in B : TextFlag(q, j)
      /\ \A j \in B : j.exactSlug \in BOOLEAN
  BY TextMatchFacts DEF BestOfSkill, Candidate
<1>5. keys \in [B -> Keys(9)] /\ \A j \in B : keys[j][1] = Last(j.exactSlug)
  BY <1>4, LexicalKeyType DEF LexicalKeys
<1>6. \A j \in B : j.doc \in Docs
  BY <1>4, FactTypes
<1> HIDE DEF c
<1>7. k.exactSlug
  <2>1. Facts[k.doc].slug = Facts[x].slug
    BY <1>2, <1>3 DEF SlugOf
  <2>2. Facts[k.doc].exactSlug
    BY <1>1, <1>6, <2>1, DiscoveryAssumption
  <2> QED
    BY <1>4, <2>2 DEF TextFlag
<1>8. ASSUME NEW j \in B, j.exactSlug
      PROVE  j = k
  <2>1. SlugOf(j) = SlugOf(k)
    BY <1>4, <1>6, <1>7, <1>8, DiscoveryAssumption DEF TextFlag, SlugOf
  <2>2. CASE j # k
    <3>1. Before(LexicalKey(k), LexicalKey(j)) /\ Before(LexicalKey(j), LexicalKey(k))
      BY <2>1, <2>2 DEF BestOfSkill
    <3>2. LexicalKey(k) \in Keys(9) /\ LexicalKey(j) \in Keys(9)
      BY <1>4, LexicalKeyType
    <3> QED
      BY <3>1, <3>2, BeforeAsymmetric
  <2> QED
    BY <2>2
<1> HIDE DEF keys, B
<1>9. Place(keys, k) = 1
  <2>1. keys[k][1] = 0 /\ \A j \in B : keys[j][1] >= 0
    BY <1>5, <1>7 DEF Last
  <2>2. \A j \in B : keys[j][1] = 0 => j = k
    BY <1>5, <1>8 DEF Last
  <2> QED
    BY <1>5, <2>1, <2>2, FirstPlace
<1>10. 1 <= q.limit
  BY DEF Query
<1>11. k \in FirstOf(keys, q.limit)
  BY <1>5, <1>9, <1>10 DEF FirstOf
<1> QED
  BY <1>7, <1>11 DEF LexicalList, keys, B

\* The vector statement lists each version once.
LEMMA NeighbourFacts ==
    ASSUME NEW d \in Tables, NEW q \in Query, NEW near \in SUBSET Neighbours(d, q)
    PROVE  /\ near \in SUBSET Candidate
           /\ \A k \in near : AsRead(d, q, k) /\ ~k.exactSlug
           /\ OnePerDoc(near)
<1>1. ASSUME NEW k \in near
      PROVE  /\ k \in Candidate /\ AsRead(d, q, k) /\ ~k.exactSlug
             /\ k = SemanticCandidate(d, q, k.doc)
  <2>1. PICK x \in Eligible(d, q) : k = SemanticCandidate(d, q, x)
    BY DEF Neighbours
  <2>2. /\ k \in Candidate /\ k.doc = x /\ k.row = d.rows[x]
        /\ k.rules = d.packs[d.rows[x].gov.pack]
        /\ k.exactSlug = FALSE
    BY <2>1, CandidateType
  <2> QED
    BY <2>1, <2>2 DEF AsRead, TextFlag
<1>2. OnePerDoc(near)
  <2> SUFFICES ASSUME NEW k \in near, NEW j \in near, k.doc = j.doc
               PROVE  k = j
    BY DEF OnePerDoc
  <2>1. k = SemanticCandidate(d, q, k.doc) /\ j = SemanticCandidate(d, q, j.doc)
    BY <1>1
  <2> QED
    BY <2>1, Zenon
<1> QED
  BY <1>1, <1>2

-----------------------------------------------------------------------------
(* Fusion *)

LEMMA SemanticKeyType ==
    ASSUME NEW S \in SUBSET Candidate
    PROVE  /\ SemanticKeys(S) \in [S -> Keys(3)]
           /\ \A k \in S : SemanticKeys(S)[k][3] = -k.doc
<1>1. ASSUME NEW k \in S
      PROVE  /\ <<Facts[k.doc].distance, SlugOf(k), -k.doc>> \in Keys(3)
             /\ <<Facts[k.doc].distance, SlugOf(k), -k.doc>>[3] = -k.doc
  BY FactTypes DEF Keys
<1> QED
  BY <1>1 DEF SemanticKeys

LEMMA MillionType == Million \in Nat \ {0}
BY SMT DEF Million

\* A reciprocal rank is a number.
LEMMA ReciprocalType ==
    ASSUME NEW place \in Nat PROVE Reciprocal(place) \in Nat
BY MillionType DEF Reciprocal

LEMMA LexicalPartType ==
    ASSUME NEW lex, IsFiniteSet(lex), NEW s
    PROVE  LexicalPart(lex, s) \in Nat
<1>1. DOMAIN LexicalKeys(lex) = lex
  BY DEF LexicalKeys
<1>2. Place(LexicalKeys(lex), CHOOSE k \in lex : SlugOf(k) = s) \in Nat
  BY <1>1, PlaceType
<1> QED
  BY <1>2, ReciprocalType DEF LexicalPart

LEMMA SemanticPartType ==
    ASSUME NEW sem, IsFiniteSet(sem), NEW s
    PROVE  SemanticPart(sem, s) \in Nat
<1> DEFINE places == {Place(SemanticKeys(sem), k) : k \in {j \in sem : SlugOf(j) = s}}
           last == CHOOSE p \in places : \A o \in places : o <= p
<1>1. DOMAIN SemanticKeys(sem) = sem
  BY DEF SemanticKeys
<1>2. 1 + Cardinality(sem) \in Nat
  BY FS_CardinalityType
<1>3. \A p \in places : p \in Nat /\ p <= 1 + Cardinality(sem)
  BY <1>1, PlaceType
<1>4. SemanticPart(sem, s) = IF places = {} THEN 0 ELSE Reciprocal(last)
  BY DEF SemanticPart
<1> HIDE DEF places
<1>5. CASE places # {}
  <2>1. places \in SUBSET Nat /\ \A p \in places : p <= 1 + Cardinality(sem)
    BY <1>3
  <2>2. \E p \in places : \A o \in places : o <= p
    BY <1>2, <1>5, <2>1, Greatest
  <2>3. last \in places
    BY <2>2
  <2>4. Reciprocal(last) \in Nat
    BY <2>1, <2>3, ReciprocalType
  <2> QED
    BY <1>4, <1>5, <2>4
<1> QED
  BY <1>4, <1>5

\* What a candidate scores in the fused list.
ScoreOf(lex, sem, b, cap, s) ==
    LexicalPart(lex, s) + SemanticPart(sem, s) + BoundedBoost(lex, sem, b, s, cap)

\* The sort keys of the fused list.
LEMMA FusedType ==
    ASSUME NEW lex \in SUBSET Candidate, NEW sem \in SUBSET Candidate,
           IsFiniteSet(lex), IsFiniteSet(sem), NEW b \in [Slugs -> Nat], NEW cap \in Nat
    PROVE  /\ Fused(lex, sem, b, cap) \in [Merged(lex, sem) -> Keys(9)]
           /\ \A k \in Merged(lex, sem) :
                /\ Fused(lex, sem, b, cap)[k][1] = Last(k.exactSlug)
                /\ Fused(lex, sem, b, cap)[k][2] = Last(k.exactName)
                /\ Fused(lex, sem, b, cap)[k][3] = -ScoreOf(lex, sem, b, cap, SlugOf(k))
                /\ Fused(lex, sem, b, cap)[k][9] = -k.doc
<1> DEFINE score(k) == ScoreOf(lex, sem, b, cap, SlugOf(k))
           s(k) == <<Last(k.exactSlug), Last(k.exactName), -score(k)>>
<1>1. Fused(lex, sem, b, cap) = [k \in Merged(lex, sem) |-> s(k) \o TieBreak(k)]
  BY Zenon DEF Fused, ScoreOf
<1>2. Merged(lex, sem) \subseteq Candidate
  BY DEF Merged
<1>3. ASSUME NEW k \in Merged(lex, sem)
      PROVE  /\ s(k) \o TieBreak(k) \in Keys(9)
             /\ (s(k) \o TieBreak(k))[1] = Last(k.exactSlug)
             /\ (s(k) \o TieBreak(k))[2] = Last(k.exactName)
             /\ (s(k) \o TieBreak(k))[3] = -score(k)
             /\ (s(k) \o TieBreak(k))[9] = -k.doc
  <2>1. k \in Candidate
    BY <1>2
  <2>2. BoundedBoost(lex, sem, b, SlugOf(k), cap) \in Nat
    BY <2>1, FactTypes DEF BoundedBoost, SmallerOf
  <2>3. score(k) \in Nat
    BY <2>2, LexicalPartType, SemanticPartType DEF ScoreOf
  <2> HIDE DEF score
  <2>4. s(k) \in Seq(Int) /\ Len(s(k)) = 3
    BY <2>3 DEF Last
  <2>5. s(k)[1] = Last(k.exactSlug) /\ s(k)[2] = Last(k.exactName) /\ s(k)[3] = -score(k)
    OBVIOUS
  <2> HIDE DEF s
  <2>6. /\ s(k) \o TieBreak(k) \in Keys(9)
        /\ (s(k) \o TieBreak(k))[1] = s(k)[1]
        /\ (s(k) \o TieBreak(k))[2] = s(k)[2]
        /\ (s(k) \o TieBreak(k))[3] = s(k)[3]
        /\ (s(k) \o TieBreak(k))[9] = -k.doc
    BY <2>1, <2>4, NinePlaces, Zenon
  <2> QED
    BY <2>5, <2>6, Zenon
<1> HIDE DEF s
<1> QED
  BY <1>1, <1>3, Zenon

\* Whatever the vectors found, each skill is once in the fused list.
LEMMA MergedFacts ==
    ASSUME NEW lex \in SUBSET Candidate, NEW sem \in SUBSET Candidate,
           OnePerSkill(lex), OnePerDoc(sem), IsFiniteSet(sem)
    PROVE  /\ Merged(lex, sem) \subseteq lex \cup sem
           /\ OnePerSkill(Merged(lex, sem))
           /\ IsFiniteSet(Merged(lex, sem))
<1>1. Merged(lex, sem) \subseteq lex \cup sem
  BY DEF Merged
<1>2. ASSUME NEW k \in Merged(lex, sem), NEW j \in Merged(lex, sem), SlugOf(k) = SlugOf(j)
      PROVE  k = j
  <2>1. CASE k \in lex /\ j \in lex
    BY <1>2, <2>1 DEF OnePerSkill
  <2>2. CASE k \in lex /\ j \notin lex
    BY <1>2, <2>2 DEF Merged
  <2>3. CASE k \notin lex /\ j \in lex
    BY <1>2, <2>3 DEF Merged
  <2>4. CASE k \notin lex /\ j \notin lex
    <3> DEFINE keys == SemanticKeys(sem)
    <3>1. k \in sem /\ j \in sem /\ Place(keys, k) <= Place(keys, j)
          /\ Place(keys, j) <= Place(keys, k)
      BY <1>2, <2>4 DEF Merged
    <3>2. keys \in [sem -> Keys(3)] /\ keys[k][3] = -k.doc /\ keys[j][3] = -j.doc
      BY <3>1, SemanticKeyType
    <3> HIDE DEF keys
    <3>3. Place(keys, k) \in Nat /\ Place(keys, j) \in Nat
      BY <3>2, PlaceType
    <3>4. Place(keys, k) = Place(keys, j)
      BY <3>1, <3>3
    <3>5. keys[k] = keys[j]
      BY <3>1, <3>2, <3>4, SamePlace
    <3>6. k.doc = j.doc
      BY <3>1, <3>2, <3>5, FactTypes
    <3> QED
      BY <3>1, <3>6 DEF OnePerDoc
  <2> QED
    BY <2>1, <2>2, <2>3, <2>4
<1>3. OnePerSkill(Merged(lex, sem))
  BY <1>2 DEF OnePerSkill
<1> QED
  BY <1>1, <1>3, SkillOfDoc, FinitelyMany

\* What an answer is made of, and where its entries stand.
LEMMA AnswerFacts ==
    ASSUME NEW q \in Query, NEW S, IsFiniteSet(S), NEW keys \in [S -> Keys(9)],
           S \in SUBSET Candidate, OnePerSkill(S), \A k \in S : keys[k][9] = -k.doc
    PROVE  LET a == AnswerOf(q, keys)
           IN  /\ DOMAIN a \subseteq S
               /\ \A k \in DOMAIN a : IsVisible(q.caller, k.row, k.rules)
               /\ \A k \in DOMAIN a : a[k] \in 1..q.limit
               /\ \A k, j \in DOMAIN a : a[k] = a[j] => k = j
               /\ Cardinality(DOMAIN a) \in Nat
<1> DEFINE a == AnswerOf(q, keys)
<1>1. DOMAIN keys = S
  OBVIOUS
<1>2. /\ DOMAIN a = Visible(q, FirstOf(keys, q.limit))
      /\ \A k \in DOMAIN a : a[k] = Place(keys, k)
  BY DEF AnswerOf
<1>3. /\ DOMAIN a \subseteq S
      /\ \A k \in DOMAIN a : IsVisible(q.caller, k.row, k.rules) /\ Place(keys, k) <= q.limit
  BY <1>1, <1>2 DEF Visible, FirstOf
<1> HIDE DEF a
<1>4. \A k \in DOMAIN a : a[k] \in 1..q.limit
  <2> SUFFICES ASSUME NEW k \in DOMAIN a PROVE a[k] \in 1..q.limit
    OBVIOUS
  <2>1. Place(keys, k) \in Nat /\ 1 <= Place(keys, k)
    BY <1>1, PlaceType
  <2>2. q.limit \in Nat
    BY DEF Query
  <2> QED
    BY <1>2, <1>3, <2>1, <2>2
<1>5. ASSUME NEW k \in DOMAIN a, NEW j \in DOMAIN a, a[k] = a[j]
      PROVE  k = j
  <2>1. k \in S /\ j \in S /\ Place(keys, k) = Place(keys, j)
    BY <1>2, <1>3, <1>5
  <2>2. keys[k] = keys[j]
    BY <2>1, SamePlace
  <2>3. -k.doc = -j.doc
    BY <2>1, <2>2
  <2>4. k.doc = j.doc
    BY <2>1, <2>3, FactTypes
  <2> QED
    BY <2>1, <2>4, SkillOfDoc DEF OnePerDoc
<1>6. Cardinality(DOMAIN a) \in Nat
  BY <1>3, FS_Subset, FS_CardinalityType
<1> QED
  BY <1>3, <1>4, <1>5, <1>6 DEF a

-----------------------------------------------------------------------------
(* The invariant *)

\* A search that is under way remembers the present among its moments.
Witnessed ==
    /\ pc \notin {"idle", "done"} => db \in moments
    /\ pc = "idle" => lexical = {} /\ semantic = {}
    /\ pc # "done" => DOMAIN answer = {}

\* Every candidate was read at a moment of the search.
ReadAtMoments == \A k \in lexical \cup semantic : \E m \in moments : AsRead(m, query, k)

\* What policy judged is what the candidate carries.
AnsweredVisible == \A k \in DOMAIN answer : IsVisible(query.caller, k.row, k.rules)

ListsDistinct == OnePerSkill(lexical) /\ OnePerDoc(semantic)

SearchInv ==
    /\ TypeOK
    /\ Witnessed
    /\ ReadAtMoments
    /\ AnsweredVisible
    /\ ListsDistinct
    /\ EachSkillOnce

\* A text list is of candidates of the present.
LEMMA TextStep ==
    ASSUME SearchInv, SearchText
    PROVE  SearchInv'
<1>1. /\ pc = "lexical" /\ pc' = "embed" /\ lexical' = LexicalList(db, query)
      /\ UNCHANGED <<db, settings, query, result, answer, audit, moments, writes, semantic,
                     boosts, failure>>
  BY DEF SearchText, Goto, outcome
<1>2. query \in Query /\ db \in Tables /\ db \in moments /\ DOMAIN answer = {}
  BY <1>1 DEF SearchInv, TypeOK, Witnessed
<1>3. /\ lexical' \in SUBSET Candidate
      /\ \A k \in lexical' : AsRead(db, query, k)
      /\ OnePerSkill(lexical')
  BY <1>1, <1>2, LexicalListFacts
<1>4. TypeOK'
  BY <1>1, <1>2, <1>3 DEF SearchInv, TypeOK
<1>5. Witnessed'
  BY <1>1 DEF SearchInv, Witnessed
<1>6. ReadAtMoments'
  BY <1>1, <1>2, <1>3 DEF SearchInv, ReadAtMoments
<1>7. AnsweredVisible' /\ EachSkillOnce'
  BY <1>1, <1>2 DEF AnsweredVisible, EachSkillOnce
<1>8. ListsDistinct'
  BY <1>1, <1>3 DEF SearchInv, ListsDistinct, OnePerDoc
<1> QED
  BY <1>4, <1>5, <1>6, <1>7, <1>8 DEF SearchInv

\* Vectors that the index returns are of eligible documents of the present.
LEMMA VectorStep ==
    ASSUME SearchInv, SearchVectors
    PROVE  SearchInv'
<1>1. PICK near \in SUBSET Neighbours(db, query) :
        semantic' = FirstOf(SemanticKeys(near), SmallerOf(settings.candidateLimit, query.limit))
  BY DEF SearchVectors
<1>2. /\ pc = "semantic" /\ pc' = "boosts"
      /\ UNCHANGED <<db, settings, query, result, answer, audit, moments, writes, lexical,
                     boosts, failure>>
  BY DEF SearchVectors, Goto, outcome
<1>3. query \in Query /\ db \in Tables /\ db \in moments /\ DOMAIN answer = {}
  BY <1>2 DEF SearchInv, TypeOK, Witnessed
<1>4. /\ semantic' \in SUBSET Candidate
      /\ \A k \in semantic' : AsRead(db, query, k)
      /\ OnePerDoc(semantic')
  <2>1. semantic' \subseteq near
    BY <1>1 DEF FirstOf, SemanticKeys
  <2>2. /\ near \in SUBSET Candidate /\ \A k \in near : AsRead(db, query, k)
        /\ OnePerDoc(near)
    BY <1>3, NeighbourFacts
  <2> QED
    BY <2>1, <2>2 DEF OnePerDoc
<1>5. TypeOK'
  BY <1>2, <1>3, <1>4 DEF SearchInv, TypeOK
<1>6. Witnessed'
  BY <1>2 DEF SearchInv, Witnessed
<1>7. ReadAtMoments'
  BY <1>2, <1>3, <1>4 DEF SearchInv, ReadAtMoments
<1>8. AnsweredVisible' /\ EachSkillOnce'
  BY <1>2, <1>3 DEF AnsweredVisible, EachSkillOnce
<1>9. ListsDistinct'
  BY <1>2, <1>4 DEF SearchInv, ListsDistinct, OnePerSkill
<1> QED
  BY <1>5, <1>6, <1>7, <1>8, <1>9 DEF SearchInv

\* The best rate is a rate: the context that is read is never empty.
LEMMA RateType ==
    ASSUME TypeOK, query \in Query, query.context # <<>>, NEW s \in Slugs
    PROVE  RateOf(s) \in Nat
<1> DEFINE rates == {db.pairs[<<a, s>>] : a \in Context}
<1>1. query.context \in Seq(Slugs) /\ Len(query.context) \in Nat /\ Len(query.context) # 0
  BY DEF Query
<1>2. SmallerOf(Len(query.context), settings.contextLimit) \in 1..Len(query.context)
  BY <1>1 DEF TypeOK, Settings, SmallerOf
<1>3. Context \subseteq Slugs
  BY <1>1, <1>2 DEF Context
<1>4. query.context[1] \in Context
  BY <1>2 DEF Context
<1>5. db.pairs \in PairRates
  BY DEF TypeOK, Tables
<1>6. rates \subseteq 0..Million /\ rates # {}
  BY <1>3, <1>4, <1>5 DEF PairRates
<1>7. RateOf(s) = CHOOSE r \in rates : \A o \in rates : o <= r
  BY DEF RateOf
<1> HIDE DEF rates
<1>8. \E r \in rates : \A o \in rates : o <= r
  <2>1. rates \in SUBSET Nat /\ Million \in Nat /\ \A r \in rates : r <= Million
    BY <1>6, MillionType
  <2> QED
    BY <1>6, <2>1, Greatest
<1>9. RateOf(s) \in rates
  BY <1>7, <1>8
<1>10. RateOf(s) \in 0..Million
  BY <1>6, <1>9
<1> QED
  BY <1>10, MillionType

\* Steps that leave the lists, the moments and the answer alone.
LEMMA QuietStep ==
    ASSUME SearchInv, pc \notin {"idle", "done"},
           pc' \in {"embed", "semantic", "boosts", "rank", "done"},
           boosts' \in [Slugs -> Nat], failure' \in Stages, result' \in Results,
           UNCHANGED <<db, settings, query, lexical, semantic, answer, audit, moments, writes>>
    PROVE  SearchInv'
<1>1. TypeOK'
  BY DEF SearchInv, TypeOK
<1>2. Witnessed'
  BY DEF SearchInv, Witnessed
<1>3. ReadAtMoments' /\ AnsweredVisible' /\ ListsDistinct' /\ EachSkillOnce'
  BY DEF SearchInv, ReadAtMoments, AsRead, AnsweredVisible, ListsDistinct, OnePerSkill, OnePerDoc,
         EachSkillOnce
<1> QED
  BY <1>1, <1>2, <1>3 DEF SearchInv

LEMMA BoostStep ==
    ASSUME SearchInv, ReadBoosts
    PROVE  SearchInv'
<1> DEFINE slugs == {SlugOf(k) : k \in lexical \cup RankedNeighbours}
           b == [s \in Slugs |-> IF s \in slugs THEN (RateOf(s) * settings.cap) \div Million ELSE 0]
<1>1. /\ pc = "boosts" /\ pc' = "rank" /\ boosts' = b /\ query.context # <<>>
      /\ UNCHANGED <<db, settings, query, lexical, semantic, failure, result, answer, audit,
                     moments, writes>>
  BY DEF ReadBoosts, Goto, outcome
<1>2. query \in Query /\ settings \in Settings /\ failure \in Stages /\ result \in Results
  BY <1>1 DEF SearchInv, TypeOK
<1> settings.cap \in Nat
  <2>1. settings.cap \in 0..Million
    BY <1>2 DEF Settings
  <2> QED
    BY <2>1, MillionType
<1>3. ASSUME NEW s \in Slugs PROVE (RateOf(s) * settings.cap) \div Million \in Nat
  <2>1. RateOf(s) \in Nat
    BY <1>1, <1>2, RateType DEF SearchInv
  <2>2. RateOf(s) * settings.cap \in Nat
    BY <1>2, <2>1
  <2> QED
    BY <2>2, MillionType
<1>4. b \in [Slugs -> Nat]
  BY <1>3
<1> HIDE DEF b
<1> QED
  BY <1>1, <1>2, <1>4, QuietStep

\* The fused list is ranked, judged and answered.
LEMMA RankStep ==
    ASSUME SearchInv, Rank
    PROVE  SearchInv'
<1> DEFINE S == Merged(lexical, RankedNeighbours)
           keys == Fused(lexical, RankedNeighbours, boosts, settings.cap)
           a == AnswerOf(query, keys)
<1>1. /\ pc = "rank" /\ pc' = "done" /\ result' = "answered" /\ answer' = a
      /\ audit' = audit \cup {Cardinality(DOMAIN a)}
      /\ UNCHANGED <<db, settings, query, lexical, semantic, boosts, failure, moments, writes>>
  BY DEF Rank, Answer, found
<1>2. /\ query \in Query /\ settings \in Settings /\ boosts \in [Slugs -> Nat]
      /\ lexical \in SUBSET Candidate /\ semantic \in SUBSET Candidate
      /\ OnePerSkill(lexical) /\ OnePerDoc(semantic)
  BY <1>1 DEF SearchInv, TypeOK, ListsDistinct
<1>3. settings.cap \in Nat
  <2>1. settings.cap \in 0..Million
    BY <1>2 DEF Settings
  <2> QED
    BY <2>1, MillionType
<1>4. /\ RankedNeighbours \in SUBSET Candidate /\ RankedNeighbours \subseteq semantic
      /\ OnePerDoc(RankedNeighbours)
  BY <1>2 DEF RankedNeighbours, OnePerDoc
<1>5. IsFiniteSet(lexical) /\ IsFiniteSet(RankedNeighbours)
  BY <1>2, <1>4, SkillOfDoc, FinitelyMany
<1>6. S \subseteq lexical \cup RankedNeighbours /\ OnePerSkill(S) /\ IsFiniteSet(S)
  BY <1>2, <1>4, <1>5, MergedFacts
<1>7. keys \in [S -> Keys(9)] /\ \A k \in S : keys[k][9] = -k.doc
  BY <1>2, <1>3, <1>4, <1>5, FusedType
<1>8. S \in SUBSET Candidate /\ S \subseteq lexical \cup semantic
  BY <1>2, <1>4, <1>6
<1> HIDE DEF S, keys
<1>9. /\ DOMAIN a \subseteq S
      /\ \A k \in DOMAIN a : IsVisible(query.caller, k.row, k.rules)
      /\ \A k \in DOMAIN a : a[k] \in 1..query.limit
      /\ \A k, j \in DOMAIN a : a[k] = a[j] => k = j
      /\ Cardinality(DOMAIN a) \in Nat
  BY <1>2, <1>6, <1>7, <1>8, AnswerFacts, Zenon
<1> HIDE DEF a
<1>10. TypeOK'
  BY <1>1, <1>2, <1>8, <1>9 DEF SearchInv, TypeOK, Results
<1>11. Witnessed'
  BY <1>1 DEF Witnessed
<1>12. ReadAtMoments' /\ ListsDistinct'
  BY <1>1 DEF SearchInv, ReadAtMoments, ListsDistinct, AsRead, OnePerSkill, OnePerDoc
<1>13. AnsweredVisible'
  BY <1>1, <1>9 DEF AnsweredVisible
<1>14. EachSkillOnce'
  BY <1>1, <1>6, <1>9 DEF EachSkillOnce, OnePerSkill
<1> QED
  BY <1>10, <1>11, <1>12, <1>13, <1>14 DEF SearchInv

\* A commit of a writer adds the new state to the moments.
LEMMA WriteStep ==
    ASSUME SearchInv, NEW d \in Tables, d.packs[NoPack] = OpenRules, Commit(d)
    PROVE  SearchInv'
<1>1. /\ pc \notin {"idle", "done"} /\ db' = d /\ moments' = moments \cup {d}
      /\ writes' = writes + 1
      /\ UNCHANGED <<settings, pc, query, lexical, semantic, boosts, failure, result, answer, audit>>
  BY DEF Commit, found, outcome
<1>2. TypeOK'
  BY <1>1 DEF SearchInv, TypeOK
<1>3. Witnessed'
  BY <1>1 DEF SearchInv, Witnessed
<1>4. ReadAtMoments'
  BY <1>1 DEF SearchInv, ReadAtMoments, AsRead
<1>5. AnsweredVisible' /\ ListsDistinct' /\ EachSkillOnce'
  BY <1>1 DEF SearchInv, AnsweredVisible, ListsDistinct, OnePerSkill, OnePerDoc, EachSkillOnce
<1> QED
  BY <1>2, <1>3, <1>4, <1>5 DEF SearchInv

LEMMA WriterStep ==
    ASSUME SearchInv, Writer
    PROVE  SearchInv'
<1>1. db \in Tables /\ db.packs[NoPack] = OpenRules
  BY DEF SearchInv, TypeOK
<1>2. /\ db.rows \in [Docs -> Row \cup {NoRow}] /\ db.packs \in [Packs -> Rules]
      /\ db.indexed \in SUBSET Docs /\ db.installs \in [Slugs -> Nat] /\ db.pairs \in PairRates
  BY <1>1 DEF Tables
<1>3. ASSUME NEW rows \in [Docs -> Row \cup {NoRow}], Commit([db EXCEPT !.rows = rows])
      PROVE  SearchInv'
  <2>1. [db EXCEPT !.rows = rows] \in Tables /\ [db EXCEPT !.rows = rows].packs = db.packs
    BY <1>1 DEF Tables
  <2> QED
    BY <1>1, <1>3, <2>1, WriteStep
<1>4. ASSUME NEW x \in Docs, NEW row \in RowValues, PublishVersion(x, row) \/ UpdateVersion(x, row)
      PROVE  SearchInv'
  <2> DEFINE rows == [db.rows EXCEPT ![x] = row]
  <2>1. rows \in [Docs -> Row \cup {NoRow}]
    BY <1>2, DiscoveryAssumption
  <2>2. Commit([db EXCEPT !.rows = rows])
    BY <1>4 DEF PublishVersion, UpdateVersion
  <2> HIDE DEF rows
  <2> QED
    BY <1>3, <2>1, <2>2
<1>5. ASSUME NEW s \in Slugs, NEW namespace \in Namespaces, UpdateSkillOwnership(s, namespace)
      PROVE  SearchInv'
  <2> DEFINE rows == [x \in Docs |-> IF db.rows[x] # NoRow /\ Facts[x].slug = s
                                     THEN [db.rows[x] EXCEPT !.namespace = namespace]
                                     ELSE db.rows[x]]
  <2>1. rows \in [Docs -> Row \cup {NoRow}]
    BY <1>2 DEF Row
  <2>2. Commit([db EXCEPT !.rows = rows])
    BY <1>5 DEF UpdateSkillOwnership
  <2> HIDE DEF rows
  <2> QED
    BY <1>3, <2>1, <2>2
<1>6. ASSUME NEW p \in Packs, NEW r \in RuleValues, UpsertPolicyPack(p, r)
      PROVE  SearchInv'
  <2> DEFINE d == [db EXCEPT !.packs = [db.packs EXCEPT ![p] = r]]
  <2>1. d \in Tables /\ d.packs[NoPack] = OpenRules /\ Commit(d)
    BY <1>1, <1>2, <1>6, DiscoveryAssumption DEF Tables, UpsertPolicyPack
  <2> HIDE DEF d
  <2> QED
    BY <2>1, WriteStep
<1>7. ASSUME NEW x \in Docs, IndexVector(x)
      PROVE  SearchInv'
  <2> DEFINE indexed == IF x \in db.indexed THEN db.indexed \ {x} ELSE db.indexed \cup {x}
             d == [db EXCEPT !.indexed = indexed]
  <2>1. indexed \in SUBSET Docs
    BY <1>2
  <2>2. Commit(d)
    BY <1>7 DEF IndexVector
  <2> HIDE DEF indexed
  <2>3. d \in Tables /\ d.packs = db.packs
    BY <1>1, <2>1 DEF Tables
  <2> HIDE DEF d
  <2> QED
    BY <1>1, <2>2, <2>3, WriteStep
<1>8. ASSUME NEW s \in Slugs, RecordInstall(s)
      PROVE  SearchInv'
  <2> DEFINE installs == [db.installs EXCEPT ![s] = db.installs[s] + 1]
             d == [db EXCEPT !.installs = installs]
  <2>1. installs \in [Slugs -> Nat]
    BY <1>2
  <2>2. Commit(d)
    BY <1>8 DEF RecordInstall
  <2> HIDE DEF installs
  <2>3. d \in Tables /\ d.packs = db.packs
    BY <1>1, <2>1 DEF Tables
  <2> HIDE DEF d
  <2> QED
    BY <1>1, <2>2, <2>3, WriteStep
<1>9. ASSUME NEW rates \in PairTables, ImportPairs(rates)
      PROVE  SearchInv'
  <2> DEFINE d == [db EXCEPT !.pairs = rates]
  <2>1. rates \in PairRates
    BY DiscoveryAssumption
  <2>2. d \in Tables /\ d.packs = db.packs /\ Commit(d)
    BY <1>1, <1>9, <2>1 DEF Tables, ImportPairs
  <2> HIDE DEF d
  <2> QED
    BY <1>1, <2>2, WriteStep
<1> QED
  BY <1>4, <1>5, <1>6, <1>7, <1>8, <1>9 DEF Writer

LEMMA BeginStep ==
    ASSUME SearchInv, NEW q \in Queries, Begin(q) \/ Forbid(q)
    PROVE  SearchInv'
<1>1. pc = "idle" /\ lexical = {} /\ semantic = {} /\ DOMAIN answer = {} /\ q \in Query
  BY DiscoveryAssumption DEF SearchInv, Witnessed, Begin, Forbid
<1>2. CASE Begin(q)
  <2>1. /\ query' = q /\ pc' = "lexical" /\ moments' = {db}
        /\ UNCHANGED <<db, settings, lexical, semantic, boosts, failure, result, answer, audit,
                       writes>>
    BY <1>2 DEF Begin, found, outcome
  <2>2. TypeOK'
    BY <1>1, <2>1 DEF SearchInv, TypeOK
  <2>3. Witnessed' /\ ReadAtMoments' /\ AnsweredVisible' /\ ListsDistinct' /\ EachSkillOnce'
    BY <1>1, <2>1 DEF Witnessed, ReadAtMoments, AnsweredVisible, ListsDistinct, OnePerSkill,
                      OnePerDoc, EachSkillOnce
  <2> QED
    BY <2>2, <2>3 DEF SearchInv
<1>3. CASE Forbid(q)
  <2>1. /\ query' = q /\ pc' = "done" /\ result' = "forbidden"
        /\ UNCHANGED <<db, settings, lexical, semantic, boosts, failure, answer, audit, moments,
                       writes>>
    BY <1>3 DEF Forbid, found
  <2>2. TypeOK'
    BY <1>1, <2>1 DEF SearchInv, TypeOK, Results
  <2>3. Witnessed' /\ ReadAtMoments' /\ AnsweredVisible' /\ ListsDistinct' /\ EachSkillOnce'
    BY <1>1, <2>1 DEF Witnessed, ReadAtMoments, AnsweredVisible, ListsDistinct, OnePerSkill,
                      OnePerDoc, EachSkillOnce
  <2> QED
    BY <2>2, <2>3 DEF SearchInv
<1> QED
  BY <1>2, <1>3

LEMMA SearchStep ==
    ASSUME SearchInv, Search
    PROVE  SearchInv'
<1>1. boosts \in [Slugs -> Nat] /\ failure \in Stages /\ result \in Results
  BY DEF SearchInv, TypeOK
<1>2. CASE SkipSemantic \/ EmbedQuery \/ SkipBoosts
  BY <1>1, <1>2, QuietStep DEF SkipSemantic, EmbedQuery, SkipBoosts, Goto, found, outcome
<1>3. CASE EmbedFails \/ SearchVectorsFails
  BY <1>1, <1>3, QuietStep DEF EmbedFails, SearchVectorsFails, Goto, outcome, Stages
<1>4. CASE Fail
  BY <1>1, <1>4, QuietStep DEF Fail, found, Results
<1> QED
  BY <1>2, <1>3, <1>4, TextStep, VectorStep, BoostStep, RankStep DEF Search

LEMMA FirstStates == ASSUME Init PROVE SearchInv
<1>1. TypeOK
  BY DiscoveryAssumption DEF Init, TypeOK, NoBoosts, Stages, Results
<1> QED
  BY <1>1 DEF Init, SearchInv, Witnessed, ReadAtMoments, AnsweredVisible, ListsDistinct,
              OnePerSkill, OnePerDoc, EachSkillOnce

LEMMA EveryStep == ASSUME SearchInv, [Next]_vars PROVE SearchInv'
<1>1. CASE Next
  BY <1>1, BeginStep, SearchStep, WriterStep DEF Next
<1>2. CASE UNCHANGED vars
  BY <1>2 DEF vars, found, outcome, SearchInv, TypeOK, Witnessed, ReadAtMoments, AsRead,
              AnsweredVisible, ListsDistinct, OnePerSkill, OnePerDoc, EachSkillOnce
<1> QED
  BY <1>1, <1>2

LEMMA Invariance == Spec => []SearchInv
BY FirstStates, EveryStep, PTL DEF Spec

-----------------------------------------------------------------------------
\* Every variable keeps its type: ranks, boosts and result counts are numbers, and what is
\* answered was found.
THEOREM DiscoveryTypeCorrect == Spec => []TypeOK
<1>1. SearchInv => TypeOK
  BY DEF SearchInv
<1> QED
  BY <1>1, Invariance, PTL

\* Whatever a search answers with passed its filters and was visible to the caller, row and
\* policy pack together, at a moment of the search, whoever writes in between.
THEOREM FoundVisible == Spec => []FoundWereVisible
<1>1. SearchInv => FoundWereVisible
  <2> SUFFICES ASSUME SearchInv, NEW k \in DOMAIN answer
               PROVE  WasVisible(k)
    BY DEF FoundWereVisible
  <2>1. k \in lexical \cup semantic /\ IsVisible(query.caller, k.row, k.rules)
    BY DEF SearchInv, TypeOK, AnsweredVisible
  <2>2. PICK m \in moments : AsRead(m, query, k)
    BY <2>1 DEF SearchInv, ReadAtMoments
  <2> QED
    BY <2>1, <2>2 DEF AsRead, WasVisible, VisibleAt
<1> QED
  BY <1>1, Invariance, PTL

\* A skill is answered once, at a place of its own within the limit, however many of its
\* versions the two statements found.
THEOREM SkillsDistinct == Spec => []EachSkillOnce
<1>1. SearchInv => EachSkillOnce
  BY DEF SearchInv
<1> QED
  BY <1>1, Invariance, PTL

-----------------------------------------------------------------------------
(* Ranking: what comes first, and how far boosts move it *)

NamedEligible == \A m \in moments : \E x \in Eligible(m, query) : Facts[x].exactSlug

\* Flags say what they mean, and a skill that is named and was eligible at every moment is
\* among the candidates once the text statement has run.
RankInv ==
    /\ pc # "done" => result = "none"
    /\ \A k \in lexical : TextFlag(query, k)
    /\ \A k \in semantic : ~k.exactSlug
    /\ pc \in {"embed", "semantic", "boosts", "rank"} /\ query.text /\ NamedEligible
       => \E k \in lexical : k.exactSlug
    /\ ExactMatchFirst
    /\ BoostsBounded

\* Before the answer nothing is promised of it.
LEMMA NothingAnswered ==
    ASSUME DOMAIN answer' = {}, result' # "answered"
    PROVE  ExactMatchFirst' /\ BoostsBounded'
BY DEF ExactMatchFirst, BoostsBounded

LEMMA TextRanks ==
    ASSUME SearchInv, RankInv, SearchText
    PROVE  RankInv'
<1>1. /\ pc = "lexical" /\ pc' = "embed" /\ lexical' = LexicalList(db, query)
      /\ UNCHANGED <<query, result, answer, moments, semantic>>
  BY DEF SearchText, Goto, outcome
<1>2. query \in Query /\ db \in Tables /\ db \in moments /\ DOMAIN answer = {} /\ result = "none"
  BY <1>1 DEF SearchInv, TypeOK, Witnessed, RankInv
<1>3. \A k \in lexical' : TextFlag(query, k)
  BY <1>1, <1>2, LexicalListFacts
<1>4. ASSUME query.text, NamedEligible PROVE \E k \in lexical' : k.exactSlug
  <2>1. PICK x \in Eligible(db, query) : Facts[x].exactSlug
    BY <1>2, <1>4 DEF NamedEligible
  <2> QED
    BY <1>1, <1>2, <1>4, <2>1, ExactListed
<1>5. NamedEligible' <=> NamedEligible
  BY <1>1 DEF NamedEligible
<1> QED
  BY <1>1, <1>2, <1>3, <1>4, <1>5, NothingAnswered DEF RankInv, TextFlag

LEMMA VectorRanks ==
    ASSUME SearchInv, RankInv, SearchVectors
    PROVE  RankInv'
<1>1. PICK near \in SUBSET Neighbours(db, query) :
        semantic' = FirstOf(SemanticKeys(near), SmallerOf(settings.candidateLimit, query.limit))
  BY DEF SearchVectors
<1>2. /\ pc = "semantic" /\ pc' = "boosts"
      /\ UNCHANGED <<query, result, answer, moments, lexical>>
  BY DEF SearchVectors, Goto, outcome
<1>3. query \in Query /\ db \in Tables /\ DOMAIN answer = {} /\ result = "none"
  BY <1>2 DEF SearchInv, TypeOK, Witnessed, RankInv
<1>4. \A k \in semantic' : ~k.exactSlug
  <2>1. semantic' \subseteq near
    BY <1>1 DEF FirstOf, SemanticKeys
  <2> QED
    BY <1>3, <2>1, NeighbourFacts
<1>5. NamedEligible' <=> NamedEligible
  BY <1>2 DEF NamedEligible
<1> QED
  BY <1>2, <1>3, <1>4, <1>5, NothingAnswered DEF RankInv, TextFlag

LEMMA QuietRanks ==
    ASSUME SearchInv, RankInv, pc \notin {"idle", "done"},
           pc' = "done" \/ (pc # "lexical" /\ pc' \in {"semantic", "boosts", "rank"}),
           IF pc' = "done" THEN result' = "failed" ELSE result' = result,
           UNCHANGED <<query, lexical, semantic, answer, moments>>
    PROVE  RankInv'
<1>1. DOMAIN answer = {} /\ result = "none" /\ pc' # "idle"
  BY DEF SearchInv, Witnessed, RankInv
<1>2. NamedEligible' <=> NamedEligible
  BY DEF NamedEligible
<1>3. pc' # "done" => pc \in {"embed", "semantic", "boosts", "rank"}
  BY DEF SearchInv, TypeOK
<1> QED
  BY <1>1, <1>2, <1>3, NothingAnswered DEF RankInv, TextFlag

LEMMA WriterRanks ==
    ASSUME SearchInv, RankInv, NEW d, Commit(d)
    PROVE  RankInv'
<1>1. /\ pc \notin {"idle", "done"} /\ moments' = moments \cup {d}
      /\ UNCHANGED <<settings, pc, query, lexical, semantic, boosts, failure, result, answer>>
  BY DEF Commit, found, outcome
<1>2. DOMAIN answer = {} /\ result = "none"
  BY <1>1 DEF SearchInv, Witnessed, RankInv
<1>3. NamedEligible' => NamedEligible
  BY <1>1 DEF NamedEligible
<1> QED
  BY <1>1, <1>2, <1>3, NothingAnswered DEF RankInv, TextFlag

LEMMA RankRanks ==
    ASSUME SearchInv, RankInv, Rank
    PROVE  RankInv'
<1> DEFINE S == Merged(lexical, RankedNeighbours)
           keys == Fused(lexical, RankedNeighbours, boosts, settings.cap)
           score(k) == ScoreOf(lexical, RankedNeighbours, boosts, settings.cap, SlugOf(k))
           listed == FirstOf(keys, query.limit)
<1>1. /\ pc = "rank" /\ pc' = "done" /\ answer' = AnswerOf(query, keys)
      /\ UNCHANGED <<db, settings, query, lexical, semantic, boosts, failure, moments, writes>>
  BY DEF Rank, Answer, found
<1>2. /\ query \in Query /\ settings \in Settings /\ boosts \in [Slugs -> Nat]
      /\ lexical \in SUBSET Candidate /\ semantic \in SUBSET Candidate
      /\ OnePerSkill(lexical) /\ OnePerDoc(semantic)
  BY <1>1 DEF SearchInv, TypeOK, ListsDistinct
<1>3. settings.cap \in Nat
  <2>1. settings.cap \in 0..Million
    BY <1>2 DEF Settings
  <2> QED
    BY <2>1, MillionType
<1>4. /\ RankedNeighbours \in SUBSET Candidate /\ RankedNeighbours \subseteq semantic
      /\ OnePerDoc(RankedNeighbours)
  BY <1>2 DEF RankedNeighbours, OnePerDoc
<1>5. IsFiniteSet(lexical) /\ IsFiniteSet(RankedNeighbours)
  BY <1>2, <1>4, SkillOfDoc, FinitelyMany
<1>6. IsFiniteSet(S) /\ S \in SUBSET Candidate /\ lexical \subseteq S
      /\ S \subseteq lexical \cup RankedNeighbours
  BY <1>2, <1>4, <1>5, MergedFacts DEF Merged
<1>7. /\ keys \in [S -> Keys(9)]
      /\ \A k \in S : /\ keys[k][1] = Last(k.exactSlug) /\ keys[k][2] = Last(k.exactName)
                      /\ keys[k][3] = -score(k)
  BY <1>2, <1>3, <1>4, <1>5, FusedType
<1>8. /\ DOMAIN answer' = Visible(query, listed)
      /\ \A k \in DOMAIN answer' : answer'[k] = Place(keys, k)
  BY <1>1 DEF AnswerOf
<1>9. listed = {k \in S : Place(keys, k) <= query.limit}
  BY <1>7 DEF FirstOf
<1> HIDE DEF S, keys, score, listed
<1>10. ExactMatchFirst'
  <2> SUFFICES ASSUME query.text, NamedEligible,
                      \A m \in moments : \A x \in Eligible(m, query) :
                        Facts[x].exactSlug => VisibleAt(m, x)
               PROVE  \E k \in DOMAIN answer' : Facts[k.doc].exactSlug /\ answer'[k] = 1
    <3>1. (\A k \in DOMAIN answer' : k.doc \in Docs)
      BY <1>6, <1>8, <1>9, FactTypes DEF Visible
    <3>2. \A m, x : x \in Eligible(m, query) => x \in Docs
      BY DEF Eligible
    <3> QED
      BY <1>1, <3>1, <3>2 DEF ExactMatchFirst, NamedEligible, VisibleAt
  <2>1. PICK k \in lexical : k.exactSlug
    BY <1>1 DEF RankInv
  <2>2. k \in S /\ Facts[k.doc].exactSlug /\ k.doc \in Docs
    BY <1>2, <1>6, <2>1, FactTypes DEF RankInv, TextFlag
  <2>3. ASSUME NEW j \in S, j.exactSlug PROVE j = k
    <3>1. j \in lexical
      BY <1>4, <1>6, <2>3 DEF RankInv
    <3>2. Facts[j.doc].exactSlug /\ j.doc \in Docs
      BY <1>2, <2>3, <3>1, FactTypes DEF RankInv, TextFlag
    <3>3. SlugOf(j) = SlugOf(k)
      BY <2>2, <3>2, DiscoveryAssumption DEF SlugOf
    <3> QED
      BY <1>2, <2>1, <3>1, <3>3 DEF OnePerSkill
  <2>4. Place(keys, k) = 1
    <3>1. keys[k][1] = 0 /\ \A j \in S : keys[j][1] >= 0
      BY <1>7, <2>1, <2>2 DEF Last
    <3>2. \A j \in S : keys[j][1] = 0 => j = k
      BY <1>7, <2>3 DEF Last
    <3> QED
      BY <1>7, <2>2, <3>1, <3>2, FirstPlace
  <2>5. k \in listed
    BY <1>2, <1>9, <2>2, <2>4 DEF Query
  <2>6. IsVisible(query.caller, k.row, k.rules)
    <3>1. PICK m \in moments : AsRead(m, query, k)
      BY <2>1 DEF SearchInv, ReadAtMoments
    <3> QED
      BY <2>2, <3>1 DEF AsRead, VisibleAt
  <2>7. k \in DOMAIN answer'
    BY <1>8, <2>5, <2>6 DEF Visible
  <2> QED
    BY <1>8, <2>2, <2>4, <2>7
<1>11. BoostsBounded'
  <2> SUFFICES ASSUME NEW k \in DOMAIN answer', NEW j \in DOMAIN answer',
                      settings.mode = "hybrid",
                      k.exactSlug = j.exactSlug, k.exactName = j.exactName,
                      Relevance(k) > Relevance(j) + settings.cap
               PROVE  answer'[k] < answer'[j]
    BY <1>1 DEF BoostsBounded, Relevance
  <2>1. k \in S /\ j \in S
    BY <1>8, <1>9 DEF Visible
  <2> DEFINE bonus(x) == BoundedBoost(lexical, semantic, boosts, SlugOf(x), settings.cap)
  <2>2. \A x \in S : bonus(x) \in Nat /\ bonus(x) <= settings.cap
    BY <1>2, <1>3, <1>6, FactTypes DEF BoundedBoost, SmallerOf
  <2>3. \A x \in S : score(x) = Relevance(x) + bonus(x)
    BY DEF score, ScoreOf, Relevance, RankedNeighbours
  <2>4. Relevance(k) \in Nat /\ Relevance(j) \in Nat
    <3>1. IsFiniteSet(semantic)
      BY <1>2, FinitelyMany
    <3> QED
      BY <1>5, <3>1, LexicalPartType, SemanticPartType DEF Relevance
  <2> HIDE DEF bonus
  <2>5. keys[k][3] < keys[j][3]
    BY <1>3, <1>7, <2>1, <2>2, <2>3, <2>4
  <2>6. keys[k][1] = keys[j][1] /\ keys[k][2] = keys[j][2]
    BY <1>7, <2>1
  <2>7. Before(keys[k], keys[j])
    <3>1. keys[k] \in Keys(9) /\ keys[j] \in Keys(9)
      BY <1>7, <2>1
    <3> QED
      BY <2>5, <2>6, <3>1 DEF Before, Keys
  <2>8. Place(keys, k) < Place(keys, j)
    BY <1>6, <1>7, <2>1, <2>7, EarlierPlace
  <2> QED
    BY <1>8, <2>8
<1> QED
  BY <1>1, <1>10, <1>11 DEF RankInv, TextFlag

LEMMA RankInvStep == ASSUME SearchInv, RankInv, [Next]_vars PROVE RankInv'
<1>1. ASSUME NEW q \in Queries, Begin(q)
      PROVE  RankInv'
  <2>1. /\ pc' = "lexical" /\ lexical' = {} /\ semantic' = {} /\ DOMAIN answer' = {}
        /\ result' = "none"
    BY <1>1 DEF SearchInv, Witnessed, RankInv, Begin, found, outcome
  <2> QED
    BY <2>1, NothingAnswered DEF RankInv
<1>2. ASSUME NEW q \in Queries, Forbid(q)
      PROVE  RankInv'
  <2>1. /\ pc' = "done" /\ lexical' = {} /\ semantic' = {} /\ DOMAIN answer' = {}
        /\ result' = "forbidden"
    BY <1>2 DEF SearchInv, Witnessed, RankInv, Forbid, found, outcome
  <2> QED
    BY <2>1, NothingAnswered DEF RankInv
<1>3. CASE SkipSemantic \/ EmbedQuery \/ SkipBoosts \/ EmbedFails \/ SearchVectorsFails \/ ReadBoosts
  BY <1>3, QuietRanks DEF SkipSemantic, EmbedQuery, SkipBoosts, EmbedFails, SearchVectorsFails,
                          ReadBoosts, Goto, found, outcome
<1>4. CASE Fail
  BY <1>4, QuietRanks DEF Fail, found
<1>5. CASE Writer
  <2>1. PICK d : Commit(d)
    BY <1>5 DEF Writer, PublishVersion, UpdateVersion, IndexVector, UpdateSkillOwnership,
                RecordInstall, UpsertPolicyPack, ImportPairs
  <2> QED
    BY <2>1, WriterRanks
<1>6. CASE UNCHANGED vars
  BY <1>6 DEF vars, found, outcome, RankInv, TextFlag, NamedEligible, ExactMatchFirst, VisibleAt,
              BoostsBounded, Relevance
<1> QED
  BY <1>1, <1>2, <1>3, <1>4, <1>5, <1>6, TextRanks, VectorRanks, RankRanks DEF Next, Search

LEMMA RankInvariance == Spec => []RankInv
<1>1. Init => RankInv
  BY DEF Init, RankInv, ExactMatchFirst, BoostsBounded
<1> QED
  BY <1>1, RankInvStep, Invariance, PTL DEF Spec

\* A skill named by its slug, and found and readable all the time of the search, is
\* answered first.
THEOREM NamedFirst == Spec => []ExactMatchFirst
<1>1. RankInv => ExactMatchFirst
  BY DEF RankInv
<1> QED
  BY <1>1, RankInvariance, PTL

\* Boosts move a candidate by no more than the cap.
THEOREM BoostsCapped == Spec => []BoostsBounded
<1>1. RankInv => BoostsBounded
  BY DEF RankInv
<1> QED
  BY <1>1, RankInvariance, PTL

-----------------------------------------------------------------------------
(* Search without vectors *)

\* How far down a list two neighbouring places still have different reciprocal ranks.
Distinct == 900

\* A quotient is the greatest number of times that the divisor fits.
LEMMA Quotients ==
    ASSUME NEW m \in Nat, NEW a \in Nat \ {0}
    PROVE  /\ m \div a \in Nat
           /\ a * (m \div a) <= m
           /\ m < a * ((m \div a) + 1)
OBVIOUS

LEMMA FitsIn ==
    ASSUME NEW m \in Nat, NEW a \in Nat \ {0}, NEW n \in Nat, a * n <= m
    PROVE  n <= m \div a
<1> SUFFICES ASSUME ~(n <= m \div a) PROVE FALSE
  OBVIOUS
<1> DEFINE x == m \div a
<1>1. x \in Nat /\ m < a * (x + 1)
  BY Quotients
<1> HIDE DEF x
<1>2. x + 1 <= n
  BY <1>1 DEF x
<1>3. a * (x + 1) <= a * n
  BY <1>1, <1>2
<1>4. a * (x + 1) \in Nat /\ a * n \in Nat
  BY <1>1
<1> QED
  BY <1>1, <1>3, <1>4

\* An earlier place has the greater reciprocal rank.
LEMMA ReciprocalFalls ==
    ASSUME NEW p \in 1..Distinct, NEW r \in 1..Distinct, p < r
    PROVE  Reciprocal(p) > Reciprocal(r)
<1> DEFINE a == p + 60
           b == r + 60
           y == Million \div b
<1>1. /\ a \in Nat \ {0} /\ b \in Nat \ {0} /\ a + 1 <= b /\ a <= 959 /\ b <= 960
      /\ Million \in Nat /\ Million = 1000000
  BY MillionType DEF Distinct, Million
<1>2. y \in Nat /\ b * y <= Million
  BY <1>1, Quotients
<1>3. a <= y
  <2>1. b * a <= 960 * 959
    <3>1. b * a <= 960 * a
      BY <1>1
    <3>2. 960 * a <= 960 * 959
      BY <1>1
    <3>3. b * a \in Nat
      BY <1>1
    <3> HIDE DEF a, b
    <3> QED
      BY <3>1, <3>2, <3>3, <1>1
  <2>2. b * a <= Million
    <3>1. b * a \in Nat
      BY <1>1
    <3> HIDE DEF a, b
    <3> QED
      BY <1>1, <2>1, <3>1
  <2> HIDE DEF a, b
  <2> QED
    BY <1>1, <2>2, FitsIn
<1> HIDE DEF y, a, b
<1>4. a * (y + 1) <= Million
  <2>1. a * (y + 1) = a * y + a
    BY <1>1, <1>2
  <2>2. (a + 1) * y = a * y + y
    BY <1>1, <1>2
  <2>3. (a + 1) * y <= b * y
    BY <1>1, <1>2
  <2>4. a * y \in Nat /\ b * y \in Nat
    BY <1>1, <1>2
  <2> QED
    BY <1>1, <1>2, <1>3, <2>1, <2>2, <2>3, <2>4
<1>5. y + 1 <= Million \div a
  BY <1>1, <1>2, <1>4, FitsIn
<1>6. Million \div a \in Nat
  BY <1>1, Quotients
<1> QED
  BY <1>2, <1>5, <1>6 DEF Reciprocal, y, a, b

\* Where no vectors count and nothing is boosted, a skill scores its reciprocal rank.
LEMMA ScoresAlone ==
    ASSUME NEW lex \in SUBSET Candidate, OnePerSkill(lex), NEW cap \in Nat, NEW k \in lex
    PROVE  ScoreOf(lex, {}, NoBoosts, cap, SlugOf(k)) = Reciprocal(Place(LexicalKeys(lex), k))
<1>1. (CHOOSE j \in lex : SlugOf(j) = SlugOf(k)) = k
  BY DEF OnePerSkill
<1>2. LexicalPart(lex, SlugOf(k)) = Reciprocal(Place(LexicalKeys(lex), k))
  BY <1>1 DEF LexicalPart
<1>3. SemanticPart({}, SlugOf(k)) = 0
  BY DEF SemanticPart
<1>4. BoundedBoost(lex, {}, NoBoosts, SlugOf(k), cap) = 0
  <2>1. SlugOf(k) \in Slugs
    BY FactTypes
  <2>2. NoBoosts[SlugOf(k)] = 0
    BY <2>1 DEF NoBoosts
  <2> QED
    BY <2>2 DEF BoundedBoost, SmallerOf
<1>5. Place(LexicalKeys(lex), k) \in Nat
  <2>1. IsFiniteSet(lex)
    BY SkillOfDoc, FinitelyMany
  <2>2. DOMAIN LexicalKeys(lex) = lex
    BY DEF LexicalKeys
  <2> QED
    BY <2>1, <2>2, PlaceType
<1>6. Reciprocal(Place(LexicalKeys(lex), k)) \in Nat
  BY <1>5, ReciprocalType
<1> QED
  BY <1>2, <1>3, <1>4, <1>6 DEF ScoreOf

\* Then the fused list is in the order of the text list.
LEMMA OrderAlone ==
    ASSUME NEW lex \in SUBSET Candidate, OnePerSkill(lex), NEW cap \in Nat,
           \A k \in lex : Place(LexicalKeys(lex), k) \in 1..Distinct
    PROVE  /\ Merged(lex, {}) = lex
           /\ \A k \in lex : Place(Fused(lex, {}, NoBoosts, cap), k) = Place(LexicalKeys(lex), k)
<1> DEFINE words == LexicalKeys(lex)
           fused == Fused(lex, {}, NoBoosts, cap)
<1>1. Merged(lex, {}) = lex
  BY DEF Merged
<1>2. IsFiniteSet(lex)
  BY SkillOfDoc, FinitelyMany
<1>3. /\ words \in [lex -> Keys(9)]
      /\ \A k \in lex : /\ words[k][1] = Last(k.exactSlug) /\ words[k][2] = Last(k.exactName)
                        /\ words[k][9] = -k.doc
  BY LexicalKeyType DEF LexicalKeys
<1>4. /\ fused \in [lex -> Keys(9)]
      /\ \A k \in lex : /\ fused[k][1] = Last(k.exactSlug) /\ fused[k][2] = Last(k.exactName)
                        /\ fused[k][3] = -ScoreOf(lex, {}, NoBoosts, cap, SlugOf(k))
  <2>1. NoBoosts \in [Slugs -> Nat]
    BY DEF NoBoosts
  <2>2. IsFiniteSet({})
    BY FS_EmptySet
  <2> QED
    BY <1>1, <1>2, <2>1, <2>2, FusedType
<1>5. \A k \in lex : fused[k][3] = -Reciprocal(Place(words, k))
  BY <1>4, ScoresAlone
<1> HIDE DEF words, fused
<1>6. ASSUME NEW k \in lex, NEW j \in lex, Before(words[k], words[j])
      PROVE  Before(fused[k], fused[j])
  <2>1. PICK i \in 1..9 : /\ words[k][i] < words[j][i]
                          /\ \A h \in 1..9 : h < i => words[k][h] = words[j][h]
    BY <1>3, <1>6 DEF Before, Keys
  <2>2. DOMAIN fused[k] = 1..9
    BY <1>4 DEF Keys
  <2>3. CASE i = 1
    <3>1. fused[k][1] < fused[j][1]
      BY <1>3, <1>4, <2>1, <2>3
    <3> QED
      BY <2>2, <3>1 DEF Before
  <2>4. CASE i = 2
    <3>1. fused[k][1] = fused[j][1] /\ fused[k][2] < fused[j][2]
      BY <1>3, <1>4, <2>1, <2>4
    <3>2. \A h \in 1..9 : h < 2 => h = 1
      OBVIOUS
    <3> QED
      BY <2>2, <3>1, <3>2 DEF Before
  <2>5. CASE i > 2
    <3>1. fused[k][1] = fused[j][1] /\ fused[k][2] = fused[j][2]
      BY <1>3, <1>4, <2>1, <2>5
    <3>2. Place(words, k) < Place(words, j)
      BY <1>2, <1>3, <1>6, EarlierPlace
    <3>3. /\ Reciprocal(Place(words, k)) > Reciprocal(Place(words, j))
          /\ Reciprocal(Place(words, k)) \in Nat /\ Reciprocal(Place(words, j)) \in Nat
      <4>1. Place(words, k) \in 1..Distinct /\ Place(words, j) \in 1..Distinct
        BY DEF words
      <4>2. Place(words, k) \in Nat /\ Place(words, j) \in Nat
        <5>1. \A x \in 1..Distinct : x \in Nat
          OBVIOUS
        <5> QED
          BY <4>1, <5>1, Zenon
      <4>3. Reciprocal(Place(words, k)) > Reciprocal(Place(words, j))
        BY <3>2, <4>1, ReciprocalFalls
      <4> QED
        BY <4>2, <4>3, ReciprocalType
    <3>4. fused[k][3] < fused[j][3]
      BY <1>5, <3>3
    <3>5. \A h \in 1..9 : h < 3 => h = 1 \/ h = 2
      OBVIOUS
    <3> QED
      BY <2>2, <3>1, <3>4, <3>5 DEF Before
  <2> QED
    BY <2>3, <2>4, <2>5
<1>7. ASSUME NEW k \in lex, NEW j \in lex, Before(fused[k], fused[j])
      PROVE  Before(words[k], words[j])
  <2> SUFFICES ASSUME ~Before(words[k], words[j]) PROVE FALSE
    OBVIOUS
  <2>1. CASE words[k] = words[j]
    <3>1. k.doc = j.doc
      BY <1>3, <2>1, FactTypes
    <3>2. k = j
      BY <3>1, SkillOfDoc DEF OnePerDoc
    <3> QED
      BY <1>4, <1>7, <3>2, BeforeAsymmetric
  <2>2. CASE words[k] # words[j]
    <3>1. Before(words[j], words[k])
      BY <1>3, <2>2, BeforeTotal
    <3>2. Before(fused[j], fused[k])
      BY <1>6, <3>1
    <3> QED
      BY <1>4, <1>7, <3>2, BeforeAsymmetric
  <2> QED
    BY <2>1, <2>2
<1>8. ASSUME NEW k \in lex PROVE Place(fused, k) = Place(words, k)
  <2>1. DOMAIN fused = lex /\ DOMAIN words = lex
    BY <1>3, <1>4
  <2>2. {j \in lex : Before(fused[j], fused[k])} = {j \in lex : Before(words[j], words[k])}
    BY <1>6, <1>7
  <2> QED
    BY <2>1, <2>2 DEF Place
<1> QED
  BY <1>1, <1>8 DEF words, fused

\* A list is short: its places are within the limit, counted in the list itself.
LEMMA PlacesListed ==
    ASSUME NEW d \in Tables, NEW q \in Query, NEW k \in LexicalList(d, q)
    PROVE  /\ Place(LexicalKeys(LexicalList(d, q)), k) \in Nat \ {0}
           /\ Place(LexicalKeys(LexicalList(d, q)), k) <= q.limit
<1> DEFINE all == BestOfSkill(TextMatches(d, q))
           list == LexicalList(d, q)
           ahead(S) == {j \in S : Before(LexicalKey(j), LexicalKey(k))}
<1>1. list \subseteq all /\ Place(LexicalKeys(all), k) <= q.limit
  BY DEF LexicalList, FirstOf, LexicalKeys
<1>2. IsFiniteSet(all)
  <2>1. all \subseteq TextMatches(d, q)
    BY DEF BestOfSkill
  <2>2. IsFiniteSet(TextMatches(d, q))
    BY TextMatchFacts, FinitelyMany
  <2> QED
    BY <2>1, <2>2, FS_Subset
<1>3. k \in list
  OBVIOUS
<1> HIDE DEF all, list
<1>4. ASSUME NEW S, k \in S
      PROVE  Place(LexicalKeys(S), k) = 1 + Cardinality(ahead(S))
  <2>1. /\ DOMAIN LexicalKeys(S) = S
        /\ \A j \in S : LexicalKeys(S)[j] = LexicalKey(j)
    BY DEF LexicalKeys
  <2>2. {j \in S : Before(LexicalKeys(S)[j], LexicalKeys(S)[k])} = ahead(S)
    BY <1>4, <2>1
  <2> QED
    BY <2>1, <2>2 DEF Place
<1>5. /\ Place(LexicalKeys(list), k) = 1 + Cardinality(ahead(list))
      /\ Place(LexicalKeys(all), k) = 1 + Cardinality(ahead(all))
  BY <1>1, <1>3, <1>4
<1>6. /\ Cardinality(ahead(list)) <= Cardinality(ahead(all))
      /\ Cardinality(ahead(list)) \in Nat /\ Cardinality(ahead(all)) \in Nat
  <2>1. ahead(list) \subseteq ahead(all) /\ IsFiniteSet(ahead(all))
    BY <1>1, <1>2, FS_Subset
  <2> QED
    BY <2>1, FS_Subset, FS_CardinalityType
<1>7. q.limit \in Nat
  BY DEF Query
<1>8. /\ Place(LexicalKeys(list), k) \in Nat \ {0}
      /\ Place(LexicalKeys(list), k) <= q.limit
  BY <1>1, <1>5, <1>6, <1>7
<1> QED
  BY <1>8 DEF list

\* What a search without vectors and boosts answers.
LEMMA AnswersAlone ==
    ASSUME NEW d \in Tables, NEW q \in Query, q.limit <= Distinct, NEW cap \in Nat
    PROVE  LET list == LexicalList(d, q)
           IN  AnswerOf(q, Fused(list, {}, NoBoosts, cap))
               = [k \in {j \in list : IsVisible(q.caller, d.rows[j.doc], d.packs[d.rows[j.doc].gov.pack])}
                    |-> Place(LexicalKeys(list), k)]
<1> DEFINE list == LexicalList(d, q)
           fused == Fused(list, {}, NoBoosts, cap)
           words == LexicalKeys(list)
           seen == {j \in list : IsVisible(q.caller, d.rows[j.doc], d.packs[d.rows[j.doc].gov.pack])}
<1>1. /\ list \in SUBSET Candidate /\ OnePerSkill(list)
      /\ \A k \in list : AsRead(d, q, k)
  BY LexicalListFacts
<1>2. \A k \in list : Place(words, k) \in Nat \ {0} /\ Place(words, k) <= q.limit
  BY PlacesListed
<1>3. \A k \in list : Place(words, k) \in 1..Distinct
  <2>1. q.limit \in Nat
    BY DEF Query
  <2> QED
    BY <1>2, <2>1 DEF Distinct
<1> HIDE DEF list
<1>4. Merged(list, {}) = list /\ \A k \in list : Place(fused, k) = Place(words, k)
  BY <1>1, <1>3, OrderAlone
<1>5. DOMAIN fused = list
  BY <1>4 DEF Fused
<1> HIDE DEF fused, words
<1>6. FirstOf(fused, q.limit) = list
  BY <1>2, <1>4, <1>5 DEF FirstOf
<1>7. Visible(q, list) = seen
  BY <1>1 DEF Visible, AsRead
<1>8. seen \subseteq list
  OBVIOUS
<1> HIDE DEF seen
<1>9. AnswerOf(q, fused) = [k \in seen |-> Place(fused, k)]
  BY <1>6, <1>7 DEF AnswerOf
<1>10. AnswerOf(q, fused) = [k \in seen |-> Place(words, k)]
  BY <1>4, <1>8, <1>9
<1> QED
  BY <1>10 DEF list, fused, words, seen

\* What the text statement listed is the list of a moment; there are no vectors before
\* the vector statement, after a failure, or when meaning is off.
AloneInv ==
    /\ pc \in {"embed", "semantic", "boosts", "rank"} =>
         \E m \in moments : lexical = LexicalList(m, query)
    /\ pc \in {"idle", "lexical", "embed", "semantic"} => semantic = {} /\ failure = "none"
    /\ pc = "semantic" => settings.mode # "off"
    /\ settings.mode = "off" \/ failure # "none" => semantic = {}
    /\ LexicalWhenAlone

LEMMA RankAlone ==
    ASSUME SearchInv, AloneInv, Rank, query.limit <= Distinct
    PROVE  LexicalWhenAlone'
<1>1. /\ pc = "rank" /\ answer' = AnswerOf(query, Fused(lexical, RankedNeighbours, boosts, settings.cap))
      /\ UNCHANGED <<settings, query, boosts, failure, moments>>
  BY DEF Rank, Answer, found
<1>2. query \in Query /\ settings \in Settings /\ moments \subseteq Tables
  BY <1>1 DEF SearchInv, TypeOK
<1>3. settings.cap \in Nat
  BY <1>2, MillionType DEF Settings
<1>4. PICK m \in moments : lexical = LexicalList(m, query)
  BY <1>1 DEF AloneInv
<1> DEFINE list == LexicalList(m, query)
           seen == [k \in {j \in list : VisibleAt(m, j.doc)} |-> Place(LexicalKeys(list), k)]
           alone == boosts = NoBoosts /\ (settings.mode # "hybrid" \/ failure # "none")
<1>5. alone => RankedNeighbours = {}
  BY <1>2 DEF AloneInv, RankedNeighbours, Settings, Modes
<1>6. m \in Tables
  BY <1>2, <1>4
<1>7. ASSUME alone PROVE answer' = seen
  <2> DEFINE shown == {j \in list : IsVisible(query.caller, m.rows[j.doc], m.packs[m.rows[j.doc].gov.pack])}
  <2>1. answer' = AnswerOf(query, Fused(list, {}, NoBoosts, settings.cap))
    BY <1>1, <1>4, <1>5, <1>7
  <2>2. AnswerOf(query, Fused(list, {}, NoBoosts, settings.cap))
        = [k \in shown |-> Place(LexicalKeys(list), k)]
    BY <1>2, <1>3, <1>6, AnswersAlone
  <2>3. shown = {j \in list : VisibleAt(m, j.doc)}
    BY DEF VisibleAt
  <2> HIDE DEF shown, list
  <2> QED
    BY <2>1, <2>2, <2>3
<1>8. seen = [k \in {j \in list : VisibleAt(m, j.doc)'} |-> Place(LexicalKeys(list), k)]
  BY <1>1 DEF VisibleAt
<1> HIDE DEF seen
<1>9. LexicalWhenAlone' <=>
        \/ ~(result' = "answered" /\ alone')
        \/ \E n \in moments' :
             answer' = [k \in {j \in LexicalList(n, query') : VisibleAt(n, j.doc)'}
                          |-> Place(LexicalKeys(LexicalList(n, query')), k)]
  BY DEF LexicalWhenAlone
<1>10. alone' <=> alone
  BY <1>1
<1> QED
  BY <1>1, <1>4, <1>7, <1>8, <1>9, <1>10

LEMMA AloneStep ==
    ASSUME \A q \in Queries : q.limit <= Distinct,
           SearchInv, RankInv, AloneInv, query = NoRow \/ query \in Queries, [Next]_vars
    PROVE  AloneInv'
<1>1. result' # "answered" => LexicalWhenAlone'
  BY DEF LexicalWhenAlone
<1>2. pc # "done" => result = "none"
  BY DEF RankInv
<1>3. ASSUME NEW q \in Queries, Begin(q) \/ Forbid(q) PROVE AloneInv'
  BY <1>1, <1>2, <1>3 DEF Begin, Forbid, found, outcome, AloneInv
<1>4. CASE SearchText
  <2>1. db \in moments
    BY <1>4 DEF SearchText, SearchInv, Witnessed
  <2> QED
    BY <1>1, <1>2, <1>4, <2>1 DEF SearchText, Goto, outcome, AloneInv
<1>5. CASE SkipSemantic \/ EmbedQuery \/ EmbedFails \/ SkipBoosts \/ ReadBoosts
  BY <1>1, <1>2, <1>5 DEF SkipSemantic, EmbedQuery, EmbedsQuery, EmbedFails, SkipBoosts, ReadBoosts,
                          Goto, found, outcome, AloneInv
<1>6. CASE SearchVectors \/ SearchVectorsFails
  BY <1>1, <1>2, <1>6 DEF SearchVectors, SearchVectorsFails, Goto, outcome, AloneInv
<1>7. CASE Rank
  <2>1. query \in Queries
    BY <1>7, DiscoveryAssumption DEF Rank, Answer, SearchInv, TypeOK
  <2>2. LexicalWhenAlone'
    BY <1>7, <2>1, RankAlone
  <2> QED
    BY <1>7, <2>2 DEF Rank, Answer, found, AloneInv
<1>8. CASE Fail
  BY <1>1, <1>8 DEF Fail, found, AloneInv
<1>9. CASE Writer
  <2>1. PICK d : Commit(d)
    BY <1>9 DEF Writer, PublishVersion, UpdateVersion, IndexVector, UpdateSkillOwnership,
                RecordInstall, UpsertPolicyPack, ImportPairs
  <2> QED
    BY <1>1, <1>2, <2>1 DEF Commit, found, outcome, AloneInv
<1>10. CASE UNCHANGED vars
  BY <1>10 DEF vars, found, outcome, AloneInv, LexicalWhenAlone, VisibleAt
<1> QED
  BY <1>3, <1>4, <1>5, <1>6, <1>7, <1>8, <1>9, <1>10 DEF Next, Search

\* The discovery service asks for twenty candidates: with lists of at most nine hundred,
\* whose places have distinct reciprocal ranks, a search whose vectors or provider fail,
\* or count for nothing, answers what the text search of a moment does, in its order.
THEOREM DegradedSearch ==
    ASSUME \A q \in Queries : q.limit <= 900
    PROVE  Spec => []LexicalWhenAlone
<1> DEFINE Asked == query = NoRow \/ query \in Queries
<1>1. \A q \in Queries : q.limit <= Distinct
  BY DEF Distinct
<1>2. Init => AloneInv /\ Asked
  BY DEF Init, AloneInv, LexicalWhenAlone
<1>3. Asked /\ [Next]_vars => Asked'
  BY DEF Next, Begin, Forbid, Search, Writer, SearchText, SkipSemantic, EmbedQuery, EmbedFails,
         SearchVectors, SearchVectorsFails, SkipBoosts, ReadBoosts, Rank, Answer, Fail, Goto,
         PublishVersion, UpdateVersion, IndexVector, UpdateSkillOwnership, RecordInstall,
         UpsertPolicyPack, ImportPairs, Commit, vars
<1>4. SearchInv /\ RankInv /\ AloneInv /\ Asked /\ [Next]_vars => AloneInv'
  BY <1>1, AloneStep
<1>5. AloneInv => LexicalWhenAlone
  BY DEF AloneInv
<1> QED
  BY <1>2, <1>3, <1>4, <1>5, Invariance, RankInvariance, PTL DEF Spec

=============================================================================

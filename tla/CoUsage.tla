------------------------------- MODULE CoUsage -------------------------------
(***************************************************************************)
(* Imports of observation runs (import_observation_run): each records a    *)
(* set of skills that a resolver used together, rebuilds the co-usage      *)
(* pairs of the rolling window from all recorded runs, and activates or    *)
(* deactivates the relates_to graph edges the pairs support.               *)
(*                                                                         *)
(* An import is one transaction at the default isolation (read committed), *)
(* of several statements.  A statement sees what was committed when it     *)
(* began and what its own transaction wrote; it may then have to wait for  *)
(* rows that another transaction has written, and goes on with what it saw *)
(* and the rows as they are after the wait.  So each writing statement is  *)
(* two steps here: Begin takes the snapshot, the statement applies it.     *)
(***************************************************************************)
EXTENDS Integers, FiniteSets, FiniteSetsExt

CONSTANTS
    Imports,       \* calls of the import endpoint
    Skills,        \* the skills of the registry, by primary key
    Requests,      \* [digest, at, skills] : digest of the evidence, day observed, names
    MinRuns, MinRate, MinLift,   \* the policy; rate and lift in millionths
    Window,        \* its rolling window in days
    None           \* no row, no snapshot, no answer

ASSUME CoUsageAssumption ==
    /\ Skills \subseteq Nat /\ IsFiniteSet(Imports)
    /\ \A q \in Requests : q.at \in Nat /\ IsFiniteSet(q.skills) /\ q.skills # {}
    /\ MinRuns \in Nat /\ MinRate \in Nat /\ MinLift \in Nat /\ Window \in Nat

VARIABLES
    runs,        \* tables skill_usage_observation_runs and skill_usage_observations
    pairs,       \* table skill_co_usage_pairs: a row or None for each ordered pair
    edges,       \* the co_usage rows of skill_graph_edges, by unordered pair
    pc,          \* the next statement of each import
    request,     \* what it imports
    latest,      \* MAX(observed_at) as it read it
    snap,        \* what was committed when its present statement began, or None
    gone,        \* the pairs it has deleted and not committed
    made,        \* the pair rows it has inserted and not committed
    flips,       \* the edges it has written and not committed
    answer,      \* what its caller was told, or None
    overtaken    \* whether another import committed since it arrived

tables == <<runs, pairs, edges>>
session == <<latest, snap, gone, made, flips>>
vars == <<tables, session, pc, request, answer, overtaken>>

OrderedPairs == {p \in Skills \X Skills : p[1] # p[2]}
EdgePairs    == {p \in Skills \X Skills : p[1] < p[2]}

\* A pair row, with the import that inserted it (None for a row no import inserted).
PairRow == [by : Imports \cup {None}, runs : Nat, rate : Nat, lift : Nat]
EdgeRow == [active : BOOLEAN, confidence : Nat]

Snapshot == [runs : SUBSET Requests, pairs : [OrderedPairs -> PairRow \cup {None}],
             edges : [EdgePairs -> EdgeRow \cup {None}]]

Answers == {"imported", "duplicate", "unknown", "failed"}

ASSUME NoneAssumption == None \notin PairRow \cup EdgeRow \cup Snapshot \cup Answers

Million == 1000000

\* ROUND(n / d, 6), in millionths.
Round6(n, d) == (2 * n * Million + d) \div (2 * d)

\* The runs of the window that ends with the latest one.
WindowRuns(R, last) == {q \in R : q.at >= last - Window /\ q.at <= last}

Using(R, S) == Cardinality({q \in R : S \subseteq q.skills})

\* Mutant of ScoredPairs: the rate is that of all runs of the window.
ScoredPairsOfAll(i, R) ==
    [p \in OrderedPairs |->
        LET both == Using(R, {p[1], p[2]})
            a    == Using(R, {p[1]})
            b    == Using(R, {p[2]})
        IN  IF both = 0 THEN None
            ELSE [by |-> i, runs |-> both, rate |-> Round6(Cardinality(R), a),
                  lift |-> Round6(both * Cardinality(R), a * b)]]

\* scored_pairs: the row of every pair used together in some run of the window.
ScoredPairs(i, R) ==
    [p \in OrderedPairs |->
        LET both == Using(R, {p[1], p[2]})
            a    == Using(R, {p[1]})
            b    == Using(R, {p[2]})
        IN  IF both = 0 THEN None
            ELSE [by |-> i, runs |-> both, rate |-> Round6(both, a),
                  lift |-> Round6(both * Cardinality(R), a * b)]]

Passes(row) == row # None /\ row.runs >= MinRuns /\ row.rate >= MinRate /\ row.lift > MinLift

\* eligible_pairs: the edges some direction of which passes, and their confidence.
Eligible(P) == {e \in EdgePairs : Passes(P[e]) \/ Passes(P[<<e[2], e[1]>>])}
Confidence(P, e) ==
    Max({P[p].rate : p \in {x \in {e, <<e[2], e[1]>>} : Passes(P[x])}})

\* What import i sees: what was committed when its statement began, and its own writes.
PairsSeen(i) == [p \in OrderedPairs |-> IF made[i][p] # None THEN made[i][p]
                                        ELSE IF p \in gone[i] THEN None ELSE snap[i].pairs[p]]
RunsSeen(i, committed) == committed \cup {request[i]}

Writing == {"delete", "insert", "deactivate", "activate"}
Open    == Writing \cup {"latest", "commit"}
NoPairs == [p \in OrderedPairs |-> None]
NoEdges == [e \in EdgePairs |-> None]

Tables == [runs |-> runs, pairs |-> pairs, edges |-> edges]

Init ==
    /\ runs = {} /\ pairs = NoPairs /\ edges = NoEdges
    /\ pc = [i \in Imports |-> "idle"]
    /\ request = [i \in Imports |-> None]
    /\ latest = [i \in Imports |-> 0]
    /\ snap = [i \in Imports |-> None]
    /\ gone = [i \in Imports |-> {}]
    /\ made = [i \in Imports |-> NoPairs]
    /\ flips = [i \in Imports |-> NoEdges]
    /\ answer = [i \in Imports |-> None]
    /\ overtaken = [i \in Imports |-> FALSE]

-----------------------------------------------------------------------------
Others(i) == {j \in Imports \ {i} : pc[j] \in Open}

\* The transaction is rolled back or committed; the caller hears a.
Leave(i, a) ==
    /\ pc' = [pc EXCEPT ![i] = "done"]
    /\ answer' = [answer EXCEPT ![i] = a]
    /\ latest' = [latest EXCEPT ![i] = 0]
    /\ snap' = [snap EXCEPT ![i] = None]
    /\ gone' = [gone EXCEPT ![i] = {}]
    /\ made' = [made EXCEPT ![i] = NoPairs]
    /\ flips' = [flips EXCEPT ![i] = NoEdges]

\* The statement of i is applied and its transaction goes on with the one named s.
NextStatement(i, s) ==
    /\ pc' = [pc EXCEPT ![i] = s]
    /\ snap' = [snap EXCEPT ![i] = None]

Arrive(i) ==
    /\ pc[i] = "idle"
    /\ \E q \in Requests :
        /\ request' = [request EXCEPT ![i] = q]
        /\ IF \E r \in runs : r.digest = q.digest THEN Leave(i, "duplicate")
           ELSE IF q.skills \subseteq Skills
           THEN /\ pc' = [pc EXCEPT ![i] = "record"]
                /\ UNCHANGED <<session, answer>>
           ELSE Leave(i, "unknown")
    /\ UNCHANGED <<tables, overtaken>>

\* Mutant of Record: without the unique constraint.
RecordUnchecked(i) ==
    /\ pc[i] = "record"
    /\ pc' = [pc EXCEPT ![i] = "latest"]
    /\ UNCHANGED <<tables, session, request, answer, overtaken>>

\* The run is inserted; the unique digest makes it wait for an import of the same
\* evidence, and refuses it when that one committed.
Record(i) ==
    /\ pc[i] = "record"
    /\ \A j \in Others(i) : request[j].digest # request[i].digest
    /\ IF \E r \in runs : r.digest = request[i].digest THEN Leave(i, "failed")
       ELSE /\ pc' = [pc EXCEPT ![i] = "latest"]
            /\ UNCHANGED <<session, answer>>
    /\ UNCHANGED <<tables, request, overtaken>>

ReadLatest(i) ==
    /\ pc[i] = "latest"
    /\ latest' = [latest EXCEPT ![i] = Max({q.at : q \in RunsSeen(i, runs)})]
    /\ pc' = [pc EXCEPT ![i] = "delete"]
    /\ UNCHANGED <<tables, snap, gone, made, flips, request, answer, overtaken>>

Begin(i) ==
    /\ pc[i] \in Writing /\ snap[i] = None
    /\ snap' = [snap EXCEPT ![i] = Tables]
    /\ UNCHANGED <<tables, latest, gone, made, flips, pc, request, answer, overtaken>>

\* DELETE FROM skill_co_usage_pairs: the rows it saw, but those deleted while it waited.
DeletePairs(i) ==
    /\ pc[i] = "delete" /\ snap[i] # None
    /\ \A j \in Others(i) : \A p \in gone[j] : snap[i].pairs[p] # pairs[p]
    /\ gone' = [gone EXCEPT ![i] =
                  {p \in OrderedPairs : pairs[p] # None /\ pairs[p] = snap[i].pairs[p]}]
    /\ NextStatement(i, "insert")
    /\ UNCHANGED <<tables, latest, made, flips, request, answer, overtaken>>

\* INSERT: computed from what it saw; the primary key makes it wait for rows that
\* another import inserts or deletes, and refuses a pair that is there after the wait.
InsertPairs(i) ==
    /\ pc[i] = "insert" /\ snap[i] # None
    /\ LET rows == ScoredPairs(i, WindowRuns(RunsSeen(i, snap[i].runs), latest[i]))
           new  == {p \in OrderedPairs : rows[p] # None}
       IN  /\ \A j \in Others(i), p \in new : made[j][p] = None /\ p \notin gone[j]
           /\ IF \E p \in new : pairs[p] # None /\ p \notin gone[i]
              THEN Leave(i, "failed")
              ELSE /\ made' = [made EXCEPT ![i] = rows]
                   /\ NextStatement(i, "deactivate")
                   /\ UNCHANGED <<latest, gone, flips, answer>>
    /\ UNCHANGED <<tables, request, overtaken>>

\* UPDATE: the active edges it saw and no pair it sees supports; an edge it waited for
\* is looked at again.
Deactivate(i) ==
    /\ pc[i] = "deactivate" /\ snap[i] # None
    /\ LET targets == {e \in EdgePairs \ Eligible(PairsSeen(i)) :
                         snap[i].edges[e] # None /\ snap[i].edges[e].active}
       IN  /\ \A j \in Others(i), e \in targets : flips[j][e] = None
           /\ flips' = [flips EXCEPT ![i] =
                [e \in EdgePairs |-> IF e \in targets /\ edges[e].active
                                     THEN [edges[e] EXCEPT !.active = FALSE] ELSE None]]
    /\ NextStatement(i, "activate")
    /\ UNCHANGED <<tables, latest, gone, made, request, answer, overtaken>>

\* An edge as import i sees it once it holds the row, and as i leaves it.
EdgeAfter(i, e) == IF flips[i][e] # None THEN flips[i][e] ELSE edges[e]

\* Mutant of Activate: ON CONFLICT DO NOTHING.
ActivateNew(i) ==
    /\ pc[i] = "activate" /\ snap[i] # None
    /\ LET seen == PairsSeen(i)
       IN  /\ \A j \in Others(i), e \in Eligible(seen) : flips[j][e] = None
           /\ flips' = [flips EXCEPT ![i] =
                [e \in EdgePairs |->
                    IF e \in Eligible(seen) /\ EdgeAfter(i, e) = None
                    THEN [active |-> TRUE, confidence |-> Confidence(seen, e)]
                    ELSE flips[i][e]]]
    /\ NextStatement(i, "commit")
    /\ UNCHANGED <<tables, latest, gone, made, request, answer, overtaken>>

\* INSERT ... ON CONFLICT DO UPDATE: an edge that is active is left as it is, its
\* confidence included; one that this import has just deactivated is not active.
Activate(i) ==
    /\ pc[i] = "activate" /\ snap[i] # None
    /\ LET seen == PairsSeen(i)
       IN  /\ \A j \in Others(i), e \in Eligible(seen) : flips[j][e] = None
           /\ flips' = [flips EXCEPT ![i] =
                [e \in EdgePairs |->
                    IF /\ e \in Eligible(seen)
                       /\ EdgeAfter(i, e) = None \/ ~EdgeAfter(i, e).active
                    THEN [active |-> TRUE, confidence |-> Confidence(seen, e)]
                    ELSE flips[i][e]]]
    /\ NextStatement(i, "commit")
    /\ UNCHANGED <<tables, latest, gone, made, request, answer, overtaken>>

Commit(i) ==
    /\ pc[i] = "commit"
    /\ runs' = RunsSeen(i, runs)
    /\ pairs' = [p \in OrderedPairs |-> IF made[i][p] # None THEN made[i][p]
                                        ELSE IF p \in gone[i] THEN None ELSE pairs[p]]
    /\ edges' = [e \in EdgePairs |-> EdgeAfter(i, e)]
    /\ overtaken' = [j \in Imports |-> overtaken[j] \/ (j # i /\ pc[j] \in Open \cup {"record"})]
    /\ Leave(i, "imported")
    /\ UNCHANGED request

\* Mutant of Abort: the pairs were rebuilt in a transaction of their own.
AbortKeepingPairs(i) ==
    /\ pc[i] \in Open \cup {"record"}
    /\ pairs' = [p \in OrderedPairs |-> IF made[i][p] # None THEN made[i][p]
                                        ELSE IF p \in gone[i] THEN None ELSE pairs[p]]
    /\ Leave(i, "failed")
    /\ UNCHANGED <<runs, edges, request, overtaken>>

\* The process or its connection dies, or the database breaks a deadlock.
Abort(i) ==
    /\ pc[i] \in Open \cup {"record"}
    /\ Leave(i, "failed")
    /\ UNCHANGED <<tables, request, overtaken>>

Next ==
    \E i \in Imports :
        \/ Arrive(i) \/ Record(i) \/ ReadLatest(i) \/ Begin(i) \/ DeletePairs(i)
        \/ InsertPairs(i) \/ Deactivate(i) \/ Activate(i) \/ Commit(i) \/ Abort(i)

Spec == Init /\ [][Next]_vars

-----------------------------------------------------------------------------
CoUsageTypeOK ==
    /\ runs \subseteq Requests
    /\ pairs \in [OrderedPairs -> PairRow \cup {None}]
    /\ edges \in [EdgePairs -> EdgeRow \cup {None}]
    /\ pc \in [Imports -> Open \cup {"idle", "record", "done"}]
    /\ request \in [Imports -> Requests \cup {None}]
    /\ latest \in [Imports -> Nat]
    /\ snap \in [Imports -> Snapshot \cup {None}]
    /\ gone \in [Imports -> SUBSET OrderedPairs]
    /\ made \in [Imports -> [OrderedPairs -> PairRow \cup {None}]]
    /\ flips \in [Imports -> [EdgePairs -> EdgeRow \cup {None}]]
    /\ answer \in [Imports -> Answers \cup {None}]
    /\ overtaken \in [Imports -> BOOLEAN]
    /\ \A p \in OrderedPairs : pairs[p] # None => pairs[p].rate <= Million

\* However imports of the same evidence overlap, fail and are repeated, it is counted
\* once: an import that was told "imported" has its own run, no other has one, and
\* "duplicate" is only said of evidence that is there.
EvidenceCountedOnce ==
    /\ \A q, r \in runs : q.digest = r.digest => q = r
    /\ \A i, j \in Imports : answer[i] = "imported" /\ answer[j] = "imported"
                              /\ request[i].digest = request[j].digest => i = j
    /\ runs = {request[i] : i \in {j \in Imports : answer[j] = "imported"}}
    /\ \A i \in Imports : answer[i] = "duplicate" =>
           \E r \in runs : r.digest = request[i].digest

\* Overlapping imports may leave rows of several rebuilds side by side, and imports fail
\* after they have written; still a row never counts more runs than are recorded, and the
\* two directions of a pair come from one rebuild and agree.
PairsEvidenced ==
    \A p \in OrderedPairs : pairs[p] # None =>
        LET q == pairs[<<p[2], p[1]>>]
        IN  /\ pairs[p].runs <= Using(runs, {p[1], p[2]})
            /\ q # None /\ q.by = pairs[p].by /\ q.runs = pairs[p].runs
            /\ q.lift = pairs[p].lift

\* What the tables would hold, were they built from the recorded runs at once.
LatestOf(R)    == Max({q.at : q \in R})
Supported(R)   == {e \in EdgePairs :
                     LET rows == ScoredPairs(None, WindowRuns(R, LatestOf(R)))
                     IN  Passes(rows[e]) \/ Passes(rows[<<e[2], e[1]>>])}
ActiveEdges(E) == {e \in EdgePairs : E[e] # None /\ E[e].active}

\* An import during which no other committed leaves exactly the pairs and the active
\* edges of the window, whatever earlier imports, overlapping or not, left behind.
CleanImport(i) ==
    /\ pc[i] = "commit" /\ answer'[i] = "imported" /\ ~overtaken[i]
CleanImportRebuilds ==
    [][\A i \in Imports : CleanImport(i) =>
         /\ pairs' = ScoredPairs(i, WindowRuns(runs', LatestOf(runs')))
         /\ ActiveEdges(edges') = Supported(runs')]_vars

\* When no import is under way, an active edge has the support of the rolling window.
EdgesFollowWindow ==
    (\A i \in Imports : pc[i] \in {"idle", "done"}) /\ runs # {}
        => ActiveEdges(edges) \subseteq Supported(runs)

=============================================================================

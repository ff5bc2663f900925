---------------------------- MODULE CoUsageProofs ----------------------------
(***************************************************************************)
(* The safety of co-usage imports for any number of imports, skills and    *)
(* requests and any policy.  The checked properties are not inductive: an  *)
(* import depends on what its session has seen, deleted and inserted so    *)
(* far.  SessionInv, EvidenceInv, PairsInv and CleanInv say what that is.  *)
(***************************************************************************)
EXTENDS CoUsage, TLAPS, FiniteSetTheorems, WellFoundedInduction

-----------------------------------------------------------------------------
(* Finite sets of numbers *)

\* A finite set of numbers that is not empty has its maximum.
LEMMA MaxIn ==
    ASSUME NEW S \in SUBSET Nat, IsFiniteSet(S), S # {}
    PROVE  Max(S) \in S /\ \A y \in S : Max(S) >= y
<1> DEFINE NoMax == {T \in FiniteSubsetsOf(Nat) : T # {} /\ \A x \in T : \E y \in T : y > x}
<1>1. NoMax = {}
  <2> SUFFICES ASSUME NoMax # {} PROVE FALSE
    OBVIOUS
  <2>1. IsWellFoundedOn(StrictSubsetOrdering(Nat), FiniteSubsetsOf(Nat))
    BY FS_StrictSubsetOrderingWellFounded, Zenon
  <2>2. PICK T \in NoMax : \A U \in NoMax : ~ (<<U, T>> \in StrictSubsetOrdering(Nat))
    BY <2>1, WFMin, Zenon
  <2>3. PICK x \in T : TRUE
    OBVIOUS
  <2>4. PICK y \in T : y > x
    BY <2>3
  <2> DEFINE U == T \ {x}
  <2>5. IsFiniteSet(U) /\ U \in SUBSET Nat /\ T \in SUBSET Nat
    BY FS_RemoveElement DEF FiniteSubsetsOf
  <2>6. <<U, T>> \in StrictSubsetOrdering(Nat)
    BY <2>3, <2>5 DEF StrictSubsetOrdering
  <2>7. U \in FiniteSubsetsOf(Nat)
    BY <2>5 DEF FiniteSubsetsOf
  <2>8. y \in U
    BY <2>3, <2>4, <2>5
  <2>9. ASSUME NEW u \in U PROVE \E z \in U : z > u
    <3>1. PICK z \in T : z > u
      OBVIOUS
    <3>2. CASE z = x
      BY <3>1, <3>2, <2>4, <2>5, <2>8
    <3>3. CASE z # x
      BY <3>1, <3>3
    <3> QED
      BY <3>2, <3>3
  <2> HIDE DEF U
  <2>10. U \in NoMax
    BY <2>7, <2>8, <2>9
  <2> QED
    BY <2>2, <2>6, <2>10
<1>2. S \in FiniteSubsetsOf(Nat)
  BY DEF FiniteSubsetsOf
<1>3. PICK x \in S : \A y \in S : ~ (y > x)
  BY <1>1, <1>2
<1>4. \A y \in S : x >= y
  BY <1>3
<1> QED
  BY <1>4 DEF Max

\* Fewer runs use more skills, and no more than all.
LEMMA UsingMonotone ==
    ASSUME NEW R, IsFiniteSet(R), NEW Q \in SUBSET R, NEW S, NEW T \in SUBSET S
    PROVE  Using(Q, S) \in Nat /\ Using(R, T) \in Nat /\ Using(Q, S) <= Using(R, T)
<1> DEFINE QS == {q \in Q : S \subseteq q.skills}
           RT == {q \in R : T \subseteq q.skills}
<1>1. IsFiniteSet(RT) /\ IsFiniteSet(QS) /\ QS \in SUBSET RT
  BY FS_Subset
<1> HIDE DEF QS, RT
<1>2. Cardinality(QS) \in Nat /\ Cardinality(RT) \in Nat /\ Cardinality(QS) <= Cardinality(RT)
  BY <1>1, FS_Subset, FS_CardinalityType
<1> QED
  BY <1>2 DEF Using, QS, RT

LEMMA RoundingType ==
    ASSUME NEW n \in Nat, NEW d \in Nat \ {0}
    PROVE  Round6(n, d) \in Nat /\ (n <= d => Round6(n, d) <= Million)
<1> DEFINE x == 2 * n * Million + d
           y == 2 * d
<1>1. x \in Nat /\ y \in Nat /\ y > 0
  BY DEF Million
<1>2. ASSUME n <= d PROVE x < y * (Million + 1)
  BY <1>2 DEF Million
<1> HIDE DEF x, y
<1>3. x \div y \in Nat
  BY <1>1
<1>4. ASSUME n <= d PROVE x \div y <= Million
  BY <1>1, <1>2, <1>3, <1>4 DEF Million
<1> QED
  BY <1>3, <1>4 DEF Round6, x, y

-----------------------------------------------------------------------------
(* Pair rows *)

Rev(p) == <<p[2], p[1]>>

LEMMA RevPair ==
    \A p \in OrderedPairs :
        /\ Rev(p) \in OrderedPairs /\ Rev(Rev(p)) = p
        /\ {Rev(p)[1], Rev(p)[2]} = {p[1], p[2]}
BY DEF Rev, OrderedPairs

\* The two directions of every pair of P come from one rebuild and agree.
Agree(P) ==
    \A p \in OrderedPairs : P[p] # None =>
        /\ P[Rev(p)] # None /\ P[Rev(p)].by = P[p].by
        /\ P[Rev(p)].runs = P[p].runs /\ P[Rev(p)].lift = P[p].lift

\* The row of a pair that some run of R uses.
Scored(i, R, p) ==
    LET both == Using(R, {p[1], p[2]})
        a    == Using(R, {p[1]})
        b    == Using(R, {p[2]})
    IN  [by |-> i, runs |-> both, rate |-> Round6(both, a),
         lift |-> Round6(both * Cardinality(R), a * b)]

LEMMA ScoredRow ==
    ASSUME NEW R, IsFiniteSet(R), NEW i \in Imports \cup {None}, NEW p \in OrderedPairs,
           Using(R, {p[1], p[2]}) # 0
    PROVE  /\ Scored(i, R, p) \in PairRow /\ Scored(i, R, p) # None
           /\ Scored(i, R, p).by = i
           /\ Scored(i, R, p).runs = Using(R, {p[1], p[2]})
           /\ Scored(i, R, p).rate <= Million
           /\ Scored(i, R, Rev(p)).lift = Scored(i, R, p).lift
<1> DEFINE both == Using(R, {p[1], p[2]})
           a    == Using(R, {p[1]})
           b    == Using(R, {p[2]})
           n    == Cardinality(R)
<1>1. both \in Nat /\ a \in Nat /\ both <= a
  BY UsingMonotone
<1>2. b \in Nat /\ both <= b
  BY UsingMonotone
<1>3. n \in Nat
  BY FS_CardinalityType
<1>4. Using(R, {p[2], p[1]}) = both
  <2>1. {p[2], p[1]} = {p[1], p[2]}
    OBVIOUS
  <2> QED
    BY <2>1
<1> HIDE DEF both, a, b, n
<1>5. both # 0
  BY DEF both
<1>6. both * n \in Nat /\ a * b \in Nat \ {0} /\ b * a = a * b /\ a \in Nat \ {0}
  BY <1>1, <1>2, <1>3, <1>5
<1>7. Round6(both, a) \in Nat /\ Round6(both, a) <= Million
  BY <1>1, <1>6, RoundingType
<1>8. Round6(both * n, a * b) \in Nat
  BY <1>6, RoundingType
<1>9. Scored(i, R, p) = [by |-> i, runs |-> both, rate |-> Round6(both, a),
                         lift |-> Round6(both * n, a * b)]
  BY DEF Scored, both, a, b, n
<1>10. Scored(i, R, p) \in PairRow
  BY <1>1, <1>7, <1>8, <1>9 DEF PairRow
<1>11. Scored(i, R, Rev(p)).lift = Round6(both * n, b * a)
  BY <1>4 DEF Scored, Rev, a, b, n
<1> QED
  BY <1>6, <1>7, <1>9, <1>10, <1>11, NoneAssumption DEF both

LEMMA ScoredPairsIs ==
    ASSUME NEW R, NEW i, NEW p \in OrderedPairs
    PROVE  ScoredPairs(i, R)[p] =
             IF Using(R, {p[1], p[2]}) = 0 THEN None ELSE Scored(i, R, p)
BY DEF ScoredPairs, Scored

LEMMA ScoredPairsShape ==
    ASSUME NEW R, IsFiniteSet(R), NEW i \in Imports \cup {None}
    PROVE  /\ ScoredPairs(i, R) \in [OrderedPairs -> PairRow \cup {None}]
           /\ Agree(ScoredPairs(i, R))
           /\ \A p \in OrderedPairs : ScoredPairs(i, R)[p] # None =>
                /\ ScoredPairs(i, R)[p].by = i
                /\ ScoredPairs(i, R)[p].runs = Using(R, {p[1], p[2]})
                /\ ScoredPairs(i, R)[p].rate <= Million
<1>1. ASSUME NEW p \in OrderedPairs
      PROVE  ScoredPairs(i, R)[p] \in PairRow \cup {None}
  <2>1. CASE Using(R, {p[1], p[2]}) = 0
    <3>1. ScoredPairs(i, R)[p] = None
      BY <2>1, ScoredPairsIs
    <3> QED
      BY <3>1
  <2>2. CASE Using(R, {p[1], p[2]}) # 0
    <3>1. ScoredPairs(i, R)[p] = Scored(i, R, p)
      BY <2>2, ScoredPairsIs
    <3>2. Scored(i, R, p) \in PairRow
      BY <2>2, ScoredRow
    <3> QED
      BY <3>1, <3>2
  <2> QED
    BY <2>1, <2>2
<1>2. ScoredPairs(i, R) = [p \in OrderedPairs |-> ScoredPairs(i, R)[p]]
  BY DEF ScoredPairs
<1>3. ASSUME NEW p \in OrderedPairs, ScoredPairs(i, R)[p] # None
      PROVE  /\ ScoredPairs(i, R)[p].by = i
             /\ ScoredPairs(i, R)[p].runs = Using(R, {p[1], p[2]})
             /\ ScoredPairs(i, R)[p].rate <= Million
             /\ ScoredPairs(i, R)[Rev(p)] # None
             /\ ScoredPairs(i, R)[Rev(p)].by = i
             /\ ScoredPairs(i, R)[Rev(p)].runs = ScoredPairs(i, R)[p].runs
             /\ ScoredPairs(i, R)[Rev(p)].lift = ScoredPairs(i, R)[p].lift
  <2>1. Using(R, {p[1], p[2]}) # 0 /\ ScoredPairs(i, R)[p] = Scored(i, R, p)
    BY <1>3, ScoredPairsIs
  <2>2. /\ Rev(p) \in OrderedPairs
        /\ Using(R, {Rev(p)[1], Rev(p)[2]}) = Using(R, {p[1], p[2]})
    BY RevPair
  <2>3. ScoredPairs(i, R)[Rev(p)] = Scored(i, R, Rev(p))
    BY <2>1, <2>2, ScoredPairsIs
  <2>4. /\ Scored(i, R, Rev(p)) # None /\ Scored(i, R, Rev(p)).by = i
        /\ Scored(i, R, Rev(p)).runs = Using(R, {p[1], p[2]})
    BY <2>1, <2>2, ScoredRow
  <2> QED
    BY <2>1, <2>3, <2>4, ScoredRow
<1>4. ScoredPairs(i, R) \in [OrderedPairs -> PairRow \cup {None}]
  <2>1. DOMAIN ScoredPairs(i, R) = OrderedPairs
    BY DEF ScoredPairs
  <2> QED
    BY <1>1, <1>2, <2>1
<1>5. Agree(ScoredPairs(i, R))
  BY <1>3 DEF Agree
<1> QED
  BY <1>3, <1>4, <1>5

-----------------------------------------------------------------------------
(* Types and sessions *)

\* An import under way has a request and has answered nothing; it has inserted no rows
\* before it has one, and none that claim more than every use.
SessionInv ==
    /\ IsFiniteSet(runs)
    /\ \A i \in Imports :
        /\ pc[i] # "idle" => request[i] \in Requests
        /\ pc[i] # "done" => answer[i] = None
        /\ pc[i] = "idle" => made[i] = NoPairs
        /\ \A p \in OrderedPairs : made[i][p] # None => made[i][p].rate <= Million

LEMMA NoRows ==
    /\ NoPairs \in [OrderedPairs -> PairRow \cup {None}]
    /\ NoEdges \in [EdgePairs -> EdgeRow \cup {None}]
    /\ \A p \in OrderedPairs : NoPairs[p] = None
    /\ \A e \in EdgePairs : NoEdges[e] = None
BY DEF NoPairs, NoEdges

LEMMA InitTypes == Init => CoUsageTypeOK /\ SessionInv
BY NoRows, FS_EmptySet DEF Init, CoUsageTypeOK, SessionInv

LEMMA LatestType ==
    ASSUME NEW R \in SUBSET Requests, IsFiniteSet(R), R # {}
    PROVE  LatestOf(R) \in Nat
<1> DEFINE T == {q.at : q \in R}
           f == [q \in R |-> q.at]
<1>1. T \in SUBSET Nat /\ T # {}
  BY CoUsageAssumption
<1>2. f \in Surjection(R, T)
  BY DEF Surjection
<1>3. IsFiniteSet(T)
  <2> HIDE DEF T, f
  <2> QED
    BY <1>2, FS_Surjection
<1> HIDE DEF T, f
<1>4. Max(T) \in Nat
  BY <1>1, <1>3, MaxIn
<1> QED
  BY <1>4 DEF LatestOf, T

LEMMA SeenRuns ==
    ASSUME SessionInv, CoUsageTypeOK, NEW i \in Imports, pc[i] # "idle",
           NEW R \in SUBSET runs
    PROVE  /\ RunsSeen(i, R) \in SUBSET Requests /\ IsFiniteSet(RunsSeen(i, R))
           /\ RunsSeen(i, R) # {} /\ RunsSeen(i, R) \in SUBSET RunsSeen(i, runs)
           /\ \A d : WindowRuns(RunsSeen(i, R), d) \in SUBSET RunsSeen(i, R)
           /\ \A d : IsFiniteSet(WindowRuns(RunsSeen(i, R), d))
<1>1. IsFiniteSet(R)
  BY FS_Subset DEF SessionInv
<1>2. IsFiniteSet(RunsSeen(i, R))
  BY <1>1, FS_AddElement DEF RunsSeen
<1>3. /\ RunsSeen(i, R) \in SUBSET Requests
      /\ RunsSeen(i, R) # {} /\ RunsSeen(i, R) \in SUBSET RunsSeen(i, runs)
  BY DEF RunsSeen, SessionInv, CoUsageTypeOK
<1>4. ASSUME NEW d
      PROVE  /\ WindowRuns(RunsSeen(i, R), d) \in SUBSET RunsSeen(i, R)
             /\ IsFiniteSet(WindowRuns(RunsSeen(i, R), d))
  <2>1. WindowRuns(RunsSeen(i, R), d) \in SUBSET RunsSeen(i, R)
    BY DEF WindowRuns
  <2> QED
    BY <2>1, <1>2, FS_Subset
<1> QED
  BY <1>2, <1>3, <1>4

LEMMA EdgesOrdered ==
    ASSUME NEW e \in EdgePairs
    PROVE  e \in OrderedPairs /\ <<e[2], e[1]>> \in OrderedPairs
<1>1. e \in Skills \X Skills /\ e[1] < e[2] /\ e[1] \in Nat /\ e[2] \in Nat
  BY CoUsageAssumption DEF EdgePairs
<1>2. e[1] # e[2]
  BY <1>1
<1> QED
  BY <1>1, <1>2 DEF OrderedPairs

LEMMA ConfidenceType ==
    ASSUME NEW P \in [OrderedPairs -> PairRow \cup {None}], NEW e \in Eligible(P)
    PROVE  Confidence(P, e) \in Nat
<1> DEFINE D == {x \in {e, <<e[2], e[1]>>} : Passes(P[x])}
           T == {P[p].rate : p \in D}
<1>1. e \in OrderedPairs /\ <<e[2], e[1]>> \in OrderedPairs
  BY EdgesOrdered DEF Eligible
<1>2. T \in SUBSET Nat /\ T # {}
  <2>1. ASSUME NEW x \in D PROVE P[x].rate \in Nat
    <3>1. x \in OrderedPairs /\ P[x] # None
      BY <1>1 DEF Passes
    <3>2. P[x] \in PairRow
      BY <3>1
    <3> QED
      BY <3>2 DEF PairRow
  <2>2. D # {}
    BY DEF Eligible
  <2> QED
    BY <2>1, <2>2
<1>3. IsFiniteSet(T)
  <2>1. IsFiniteSet({P[e].rate} \cup {P[<<e[2], e[1]>>].rate})
    <3>1. IsFiniteSet({P[e].rate})
      BY FS_Singleton, Zenon
    <3> QED
      BY <3>1, FS_AddElement, Zenon
  <2>2. T \in SUBSET ({P[e].rate} \cup {P[<<e[2], e[1]>>].rate})
    OBVIOUS
  <2> HIDE DEF T
  <2> QED
    BY <2>1, <2>2, FS_Subset
<1> HIDE DEF T
<1>4. Max(T) \in Nat
  BY <1>2, <1>3, MaxIn
<1> QED
  BY <1>4 DEF Confidence, T

LEMMA SeenPairs ==
    ASSUME CoUsageTypeOK, NEW i \in Imports, snap[i] # None
    PROVE  PairsSeen(i) \in [OrderedPairs -> PairRow \cup {None}]
<1>1. snap[i] \in Snapshot /\ made[i] \in [OrderedPairs -> PairRow \cup {None}]
  BY DEF CoUsageTypeOK
<1>2. snap[i].pairs \in [OrderedPairs -> PairRow \cup {None}]
  BY <1>1 DEF Snapshot
<1> QED
  BY <1>1, <1>2 DEF PairsSeen

LEMMA LeaveTypes ==
    ASSUME CoUsageTypeOK, SessionInv, NEW i \in Imports, NEW a \in Answers, Leave(i, a)
    PROVE  /\ pc' \in [Imports -> Open \cup {"idle", "record", "done"}]
           /\ answer' \in [Imports -> Answers \cup {None}]
           /\ latest' \in [Imports -> Nat]
           /\ snap' \in [Imports -> Snapshot \cup {None}]
           /\ gone' \in [Imports -> SUBSET OrderedPairs]
           /\ made' \in [Imports -> [OrderedPairs -> PairRow \cup {None}]]
           /\ flips' \in [Imports -> [EdgePairs -> EdgeRow \cup {None}]]
           /\ pc'[i] = "done" /\ made'[i] = NoPairs
           /\ \A j \in Imports \ {i} :
                pc'[j] = pc[j] /\ answer'[j] = answer[j] /\ made'[j] = made[j]
BY NoRows DEF Leave, CoUsageTypeOK, SessionInv

\* The tables after the commit of i.
LEMMA CommitTypes ==
    ASSUME CoUsageTypeOK, SessionInv, NEW i \in Imports, Commit(i)
    PROVE  /\ runs' \in SUBSET Requests /\ IsFiniteSet(runs')
           /\ pairs' \in [OrderedPairs -> PairRow \cup {None}]
           /\ edges' \in [EdgePairs -> EdgeRow \cup {None}]
           /\ \A p \in OrderedPairs : pairs'[p] # None => pairs'[p].rate <= Million
<1>1. pc[i] # "idle" /\ runs' = RunsSeen(i, runs)
  BY DEF Commit
<1>2. runs' \in SUBSET Requests /\ IsFiniteSet(runs')
  BY <1>1, SeenRuns
<1>3. pairs' \in [OrderedPairs -> PairRow \cup {None}]
  BY DEF Commit, CoUsageTypeOK
<1>4. edges' \in [EdgePairs -> EdgeRow \cup {None}]
  BY DEF Commit, EdgeAfter, CoUsageTypeOK
<1>5. ASSUME NEW p \in OrderedPairs, pairs'[p] # None PROVE pairs'[p].rate <= Million
  <2>1. CASE made[i][p] # None
    BY <2>1 DEF Commit, SessionInv
  <2>2. CASE made[i][p] = None
    BY <2>2, <1>5 DEF Commit, CoUsageTypeOK
  <2> QED
    BY <2>1, <2>2
<1> QED
  BY <1>2, <1>3, <1>4, <1>5

\* The rows and edges of a statement that i applies.
LEMMA InsertedRows ==
    ASSUME CoUsageTypeOK, SessionInv, NEW i \in Imports, pc[i] # "idle",
           snap[i] # None, snap[i].runs \subseteq runs
    PROVE  LET R == WindowRuns(RunsSeen(i, snap[i].runs), latest[i])
           IN  /\ IsFiniteSet(R) /\ R \subseteq RunsSeen(i, runs)
               /\ ScoredPairs(i, R) \in [OrderedPairs -> PairRow \cup {None}]
               /\ Agree(ScoredPairs(i, R))
               /\ \A p \in OrderedPairs : ScoredPairs(i, R)[p] # None =>
                    /\ ScoredPairs(i, R)[p].by = i
                    /\ ScoredPairs(i, R)[p].runs = Using(R, {p[1], p[2]})
                    /\ ScoredPairs(i, R)[p].rate <= Million
<1> DEFINE R == WindowRuns(RunsSeen(i, snap[i].runs), latest[i])
<1>1. IsFiniteSet(R) /\ R \subseteq RunsSeen(i, runs)
  BY SeenRuns
<1> HIDE DEF R
<1>2. /\ ScoredPairs(i, R) \in [OrderedPairs -> PairRow \cup {None}]
      /\ Agree(ScoredPairs(i, R))
      /\ \A p \in OrderedPairs : ScoredPairs(i, R)[p] # None =>
           /\ ScoredPairs(i, R)[p].by = i
           /\ ScoredPairs(i, R)[p].runs = Using(R, {p[1], p[2]})
           /\ ScoredPairs(i, R)[p].rate <= Million
  BY <1>1, ScoredPairsShape
<1> QED
  BY <1>1, <1>2 DEF R

\* What a statement saw has been committed, and runs and edges are never deleted.
SnapshotsPast ==
    \A i \in Imports : snap[i] # None =>
        /\ snap[i].runs \subseteq runs
        /\ \A e \in EdgePairs : snap[i].edges[e] # None => edges[e] # None

LEMMA SnapshotsInit == Init => SnapshotsPast
BY DEF Init, SnapshotsPast

LEMMA SnapshotsStep ==
    ASSUME CoUsageTypeOK, SnapshotsPast, [Next]_vars
    PROVE  SnapshotsPast'
<1>1. CASE UNCHANGED vars
  BY <1>1 DEF vars, tables, session, SnapshotsPast
<1>2. ASSUME NEW i \in Imports, Begin(i) PROVE SnapshotsPast'
  BY <1>2 DEF Begin, tables, Tables, SnapshotsPast, CoUsageTypeOK
<1>3. ASSUME NEW i \in Imports, Commit(i) PROVE SnapshotsPast'
  BY <1>3 DEF Commit, EdgeAfter, Leave, RunsSeen, SnapshotsPast, CoUsageTypeOK
<1>4. ASSUME NEW i \in Imports, NEW s, NextStatement(i, s), UNCHANGED <<runs, edges>> PROVE SnapshotsPast'
  BY <1>4 DEF NextStatement, SnapshotsPast, CoUsageTypeOK
<1>5. ASSUME NEW i \in Imports, NEW a, Leave(i, a), UNCHANGED <<runs, edges>> PROVE SnapshotsPast'
  BY <1>5 DEF Leave, SnapshotsPast, CoUsageTypeOK
<1>6. ASSUME UNCHANGED <<snap, runs, edges>> PROVE SnapshotsPast'
  BY <1>6 DEF SnapshotsPast
<1>7. ASSUME NEW i \in Imports, Arrive(i) PROVE SnapshotsPast'
  BY <1>5, <1>6, <1>7 DEF Arrive, session, tables
<1>8. ASSUME NEW i \in Imports, Record(i) PROVE SnapshotsPast'
  BY <1>5, <1>6, <1>8 DEF Record, session, tables
<1>9. ASSUME NEW i \in Imports, ReadLatest(i) PROVE SnapshotsPast'
  BY <1>6, <1>9 DEF ReadLatest, tables
<1>10. ASSUME NEW i \in Imports, DeletePairs(i) PROVE SnapshotsPast'
  BY <1>4, <1>10 DEF DeletePairs, tables
<1>11. ASSUME NEW i \in Imports, InsertPairs(i) PROVE SnapshotsPast'
  BY <1>4, <1>5, <1>11 DEF InsertPairs, tables
<1>12. ASSUME NEW i \in Imports, Deactivate(i) PROVE SnapshotsPast'
  BY <1>4, <1>12 DEF Deactivate, tables
<1>13. ASSUME NEW i \in Imports, Activate(i) PROVE SnapshotsPast'
  BY <1>4, <1>13 DEF Activate, tables
<1>14. ASSUME NEW i \in Imports, Abort(i) PROVE SnapshotsPast'
  BY <1>5, <1>14 DEF Abort, tables
<1> QED
  BY <1>1, <1>2, <1>3, <1>7, <1>8, <1>9, <1>10, <1>11, <1>12, <1>13, <1>14 DEF Next

Typed == CoUsageTypeOK /\ SessionInv

LEMMA TypeStep == Typed /\ SnapshotsPast /\ [Next]_vars => Typed'
<1> SUFFICES ASSUME CoUsageTypeOK, SessionInv, SnapshotsPast, [Next]_vars PROVE Typed'
  BY DEF Typed
<1> USE DEF Typed
<1>1. CASE UNCHANGED vars
  BY <1>1 DEF vars, tables, session, CoUsageTypeOK, SessionInv
<1>2. ASSUME NEW i \in Imports, NEW a \in Answers, Leave(i, a), request'[i] \in Requests,
             request' \in [Imports -> Requests \cup {None}],
             \A j \in Imports \ {i} : request'[j] = request[j],
             UNCHANGED <<tables, overtaken>>
      PROVE  Typed'
  <2>1. CoUsageTypeOK'
    BY <1>2, LeaveTypes DEF CoUsageTypeOK, tables
  <2>2. SessionInv'
    <3>1. /\ pc'[i] = "done" /\ made'[i] = NoPairs
          /\ \A j \in Imports \ {i} :
               pc'[j] = pc[j] /\ answer'[j] = answer[j] /\ made'[j] = made[j]
      BY <1>2, LeaveTypes
    <3>2. IsFiniteSet(runs')
      BY <1>2 DEF SessionInv, tables
    <3> QED
      BY <1>2, <3>1, <3>2, NoRows DEF SessionInv
  <2> QED
    BY <2>1, <2>2
<1>3. ASSUME NEW i \in Imports, Arrive(i) PROVE Typed'
  <2>1. PICK q \in Requests :
          /\ request' = [request EXCEPT ![i] = q]
          /\ \/ \E a \in Answers : Leave(i, a)
             \/ /\ pc' = [pc EXCEPT ![i] = "record"]
                /\ UNCHANGED <<session, answer>>
    BY <1>3 DEF Arrive, Answers
  <2>2. CASE \E a \in Answers : Leave(i, a)
    BY <1>2, <1>3, <2>1, <2>2 DEF Arrive, CoUsageTypeOK
  <2>3. CASE pc' = [pc EXCEPT ![i] = "record"] /\ UNCHANGED <<session, answer>>
    <3>1. CoUsageTypeOK'
      BY <1>3, <2>1, <2>3 DEF Arrive, CoUsageTypeOK, session, tables
    <3>2. SessionInv'
      BY <1>3, <2>1, <2>3 DEF Arrive, CoUsageTypeOK, SessionInv, session, tables
    <3> QED
      BY <3>1, <3>2
  <2> QED
    BY <2>1, <2>2, <2>3
<1>4. ASSUME NEW i \in Imports, Record(i) PROVE Typed'
  <2>1. CASE Leave(i, "failed")
    BY <1>2, <1>4, <2>1 DEF Record, CoUsageTypeOK, SessionInv, Answers
  <2>2. CASE pc' = [pc EXCEPT ![i] = "latest"] /\ UNCHANGED <<session, answer>>
    BY <1>4, <2>2 DEF Record, CoUsageTypeOK, SessionInv, session, tables, Open
  <2> QED
    BY <1>4, <2>1, <2>2 DEF Record
<1>5. ASSUME NEW i \in Imports, ReadLatest(i) PROVE Typed'
  <2>1. runs \in SUBSET runs /\ pc[i] # "idle"
    BY <1>5 DEF ReadLatest
  <2>2. LatestOf(RunsSeen(i, runs)) \in Nat
    BY <2>1, SeenRuns, LatestType
  <2>3. CoUsageTypeOK'
    BY <1>5, <2>2 DEF ReadLatest, LatestOf, CoUsageTypeOK, tables, Open, Writing
  <2>4. SessionInv'
    BY <1>5 DEF ReadLatest, SessionInv, CoUsageTypeOK, tables
  <2> QED
    BY <2>3, <2>4
<1>6. ASSUME NEW i \in Imports, Begin(i) PROVE Typed'
  <2>1. Tables \in Snapshot
    BY DEF Tables, Snapshot, CoUsageTypeOK
  <2>2. CoUsageTypeOK'
    BY <1>6, <2>1 DEF Begin, CoUsageTypeOK, tables
  <2>3. SessionInv'
    BY <1>6 DEF Begin, SessionInv, tables
  <2> QED
    BY <2>2, <2>3
<1>7. ASSUME NEW i \in Imports, DeletePairs(i) PROVE Typed'
  <2>1. CoUsageTypeOK'
    BY <1>7 DEF DeletePairs, NextStatement, CoUsageTypeOK, tables, Open, Writing
  <2>2. SessionInv'
    BY <1>7 DEF DeletePairs, NextStatement, CoUsageTypeOK, SessionInv, tables
  <2> QED
    BY <2>1, <2>2
<1>8. ASSUME NEW i \in Imports, InsertPairs(i) PROVE Typed'
  <2> DEFINE R == WindowRuns(RunsSeen(i, snap[i].runs), latest[i])
  <2>1. pc[i] # "idle" /\ snap[i] # None /\ snap[i].runs \subseteq runs
    BY <1>8 DEF InsertPairs, SnapshotsPast
  <2>2. /\ ScoredPairs(i, R) \in [OrderedPairs -> PairRow \cup {None}]
        /\ \A p \in OrderedPairs : ScoredPairs(i, R)[p] # None =>
             ScoredPairs(i, R)[p].rate <= Million
    BY <2>1, InsertedRows
  <2>3. CASE Leave(i, "failed")
    BY <1>2, <1>8, <2>3 DEF InsertPairs, CoUsageTypeOK, SessionInv, Answers
  <2>4. CASE /\ made' = [made EXCEPT ![i] = ScoredPairs(i, R)]
             /\ NextStatement(i, "deactivate")
             /\ UNCHANGED <<latest, gone, flips, answer>>
    <3> HIDE DEF R
    <3>1. CoUsageTypeOK'
      BY <1>8, <2>2, <2>4 DEF InsertPairs, NextStatement, CoUsageTypeOK, tables, Open, Writing
    <3>2. SessionInv'
      BY <1>8, <2>2, <2>4 DEF InsertPairs, NextStatement, CoUsageTypeOK, SessionInv, tables
    <3> QED
      BY <3>1, <3>2
  <2> QED
    BY <1>8, <2>3, <2>4 DEF InsertPairs
<1>9. ASSUME NEW i \in Imports, Deactivate(i) PROVE Typed'
  <2> DEFINE targets == {e \in EdgePairs \ Eligible(PairsSeen(i)) :
                           snap[i].edges[e] # None /\ snap[i].edges[e].active}
             new == [e \in EdgePairs |-> IF e \in targets /\ edges[e].active
                                         THEN [edges[e] EXCEPT !.active = FALSE] ELSE None]
  <2>0. ASSUME NEW e \in targets PROVE [edges[e] EXCEPT !.active = FALSE] \in EdgeRow
    <3>1. edges[e] \in EdgeRow
      BY <1>9 DEF Deactivate, SnapshotsPast, CoUsageTypeOK
    <3> QED
      BY <3>1 DEF EdgeRow
  <2>1. flips' \in [Imports -> [EdgePairs -> EdgeRow \cup {None}]]
    <3>1. flips' = [flips EXCEPT ![i] = new]
      BY <1>9 DEF Deactivate
    <3> HIDE DEF targets
    <3>2. new \in [EdgePairs -> EdgeRow \cup {None}]
      BY <2>0
    <3> HIDE DEF new
    <3> QED
      BY <3>1, <3>2 DEF CoUsageTypeOK
  <2> HIDE DEF targets, new
  <2>2. CoUsageTypeOK'
    BY <1>9, <2>1 DEF Deactivate, NextStatement, CoUsageTypeOK, tables, Open, Writing
  <2>3. SessionInv'
    BY <1>9 DEF Deactivate, NextStatement, CoUsageTypeOK, SessionInv, tables
  <2> QED
    BY <2>2, <2>3
<1>10. ASSUME NEW i \in Imports, Activate(i) PROVE Typed'
  <2>1. ASSUME NEW e \in Eligible(PairsSeen(i))
        PROVE  [active |-> TRUE, confidence |-> Confidence(PairsSeen(i), e)] \in EdgeRow
    <3>1. Confidence(PairsSeen(i), e) \in Nat
      BY <1>10, <2>1, SeenPairs, ConfidenceType DEF Activate
    <3> QED
      BY <3>1 DEF EdgeRow
  <2>2. flips' \in [Imports -> [EdgePairs -> EdgeRow \cup {None}]]
    BY <1>10, <2>1 DEF Activate, CoUsageTypeOK
  <2>3. CoUsageTypeOK'
    BY <1>10, <2>2 DEF Activate, NextStatement, CoUsageTypeOK, tables, Open
  <2>4. SessionInv'
    BY <1>10 DEF Activate, NextStatement, CoUsageTypeOK, SessionInv, tables
  <2> QED
    BY <2>3, <2>4
<1>11. ASSUME NEW i \in Imports, Commit(i) PROVE Typed'
  <2>1. CoUsageTypeOK'
    <3>1. Leave(i, "imported") /\ "imported" \in Answers
      BY <1>11 DEF Commit, Answers
    <3>2. overtaken' \in [Imports -> BOOLEAN] /\ request' = request
      BY <1>11 DEF Commit, CoUsageTypeOK
    <3> QED
      BY <1>11, <3>1, <3>2, LeaveTypes, CommitTypes DEF CoUsageTypeOK
  <2>2. SessionInv'
    <3>1. Leave(i, "imported") /\ "imported" \in Answers /\ request' = request /\ pc[i] # "idle"
      BY <1>11 DEF Commit, Answers
    <3>2. IsFiniteSet(runs')
      BY <1>11, CommitTypes
    <3>3. /\ pc'[i] = "done" /\ made'[i] = NoPairs
          /\ \A j \in Imports \ {i} :
               pc'[j] = pc[j] /\ answer'[j] = answer[j] /\ made'[j] = made[j]
      BY <3>1, LeaveTypes
    <3>4. ASSUME NEW j \in Imports
          PROVE  /\ pc'[j] # "idle" => request'[j] \in Requests
                 /\ pc'[j] # "done" => answer'[j] = None
                 /\ pc'[j] = "idle" => made'[j] = NoPairs
                 /\ \A p \in OrderedPairs : made'[j][p] # None => made'[j][p].rate <= Million
      BY <3>1, <3>3, NoRows DEF SessionInv
    <3> QED
      BY <3>2, <3>4 DEF SessionInv
  <2> QED
    BY <2>1, <2>2
<1>12. ASSUME NEW i \in Imports, Abort(i) PROVE Typed'
  <2>1. Leave(i, "failed") /\ UNCHANGED <<tables, overtaken>> /\ request' = request
    BY <1>12 DEF Abort
  <2>2. "failed" \in Answers /\ request'[i] \in Requests
    BY <1>12, <2>1 DEF Abort, Answers, SessionInv, Open, Writing
  <2> QED
    BY <1>2, <2>1, <2>2 DEF CoUsageTypeOK
<1> QED
  BY <1>1, <1>3, <1>4, <1>5, <1>6, <1>7, <1>8, <1>9, <1>10, <1>11, <1>12 DEF Next

LEMMA TypesInvariant == Spec => [](Typed /\ SnapshotsPast)
<1>1. Init => Typed /\ SnapshotsPast
  BY InitTypes, SnapshotsInit DEF Typed
<1>2. (Typed /\ SnapshotsPast) /\ [Next]_vars => (Typed /\ SnapshotsPast)'
  BY TypeStep, SnapshotsStep DEF Typed
<1> QED
  BY <1>1, <1>2, PTL DEF Spec

-----------------------------------------------------------------------------
(* Evidence *)

\* An import that has inserted its run is the only one, past or present, of its evidence.
EvidenceInv ==
    /\ EvidenceCountedOnce
    /\ \A i \in Imports : pc[i] \in Open =>
         /\ \A r \in runs : r.digest # request[i].digest
         /\ \A j \in Imports \ {i} : pc[j] \in Open => request[j].digest # request[i].digest

\* What i does to its own session keeps the evidence when it inserts no run.
LEMMA EvidenceSession ==
    ASSUME Typed, EvidenceInv, NEW i \in Imports, UNCHANGED <<runs, request, answer>>,
           pc' \in [Imports -> Open \cup {"idle", "record", "done"}],
           pc'[i] \in Open => pc[i] \in Open,
           \A j \in Imports \ {i} : pc'[j] = pc[j]
    PROVE  EvidenceInv'
BY DEF EvidenceInv, EvidenceCountedOnce

LEMMA EvidenceLeave ==
    ASSUME Typed, EvidenceInv, NEW i \in Imports, NEW a \in Answers \ {"imported"}, Leave(i, a),
           answer[i] = None,
           \A j \in Imports \ {i} : request'[j] = request[j], UNCHANGED runs,
           a = "duplicate" => \E r \in runs : r.digest = request'[i].digest
    PROVE  EvidenceInv'
<1>1. /\ pc'[i] = "done" /\ answer'[i] = a
      /\ \A j \in Imports \ {i} : pc'[j] = pc[j] /\ answer'[j] = answer[j]
  BY DEF Leave, Typed, CoUsageTypeOK
<1>2. {j \in Imports : answer'[j] = "imported"} = {j \in Imports : answer[j] = "imported"}
  BY <1>1, NoneAssumption DEF Answers
<1>3. i \notin {j \in Imports : answer[j] = "imported"}
  BY NoneAssumption DEF Answers
<1>4. {request'[j] : j \in {k \in Imports : answer'[k] = "imported"}} =
      {request[j] : j \in {k \in Imports : answer[k] = "imported"}}
  BY <1>2, <1>3
<1>5. EvidenceCountedOnce'
  <2>1. runs' = {request'[j] : j \in {k \in Imports : answer'[k] = "imported"}}
    BY <1>4 DEF EvidenceInv, EvidenceCountedOnce
  <2>2. ASSUME NEW j \in Imports, answer'[j] = "duplicate"
        PROVE  \E r \in runs' : r.digest = request'[j].digest
    BY <1>1, <2>2 DEF EvidenceInv, EvidenceCountedOnce
  <2>3. ASSUME NEW j \in Imports, NEW k \in Imports, answer'[j] = "imported",
               answer'[k] = "imported", request'[j].digest = request'[k].digest
        PROVE  j = k
    BY <1>2, <1>3, <2>3 DEF EvidenceInv, EvidenceCountedOnce
  <2> QED
    BY <2>1, <2>2, <2>3 DEF EvidenceInv, EvidenceCountedOnce
<1>6. "done" \notin Open
  BY DEF Open, Writing
<1> QED
  BY <1>1, <1>5, <1>6 DEF EvidenceInv

LEMMA EvidenceCommit ==
    ASSUME Typed, EvidenceInv, NEW i \in Imports, Commit(i)
    PROVE  EvidenceInv'
<1>1. /\ pc'[i] = "done" /\ answer'[i] = "imported" /\ answer[i] = None /\ pc[i] \in Open
      /\ \A j \in Imports \ {i} : pc'[j] = pc[j] /\ answer'[j] = answer[j]
      /\ request' = request /\ runs' = runs \cup {request[i]}
  BY DEF Commit, Leave, RunsSeen, Typed, CoUsageTypeOK, SessionInv, Open
<1> DEFINE Done == {k \in Imports : answer[k] = "imported"}
<1>2. {k \in Imports : answer'[k] = "imported"} = Done \cup {i}
  BY <1>1
<1>3. \A r \in runs : r.digest # request[i].digest
  BY <1>1 DEF EvidenceInv
<1>4. ASSUME NEW j \in Done PROVE request[j] \in runs /\ j # i
  BY <1>1, NoneAssumption DEF EvidenceInv, EvidenceCountedOnce, Answers
<1>5. EvidenceCountedOnce'
  <2>1. runs' = {request'[j] : j \in {k \in Imports : answer'[k] = "imported"}}
    BY <1>1, <1>2 DEF EvidenceInv, EvidenceCountedOnce
  <2>2. ASSUME NEW j \in Imports, answer'[j] = "duplicate"
        PROVE  \E r \in runs' : r.digest = request'[j].digest
    BY <1>1, <2>2 DEF EvidenceInv, EvidenceCountedOnce
  <2>3. ASSUME NEW j \in Imports, NEW k \in Imports, answer'[j] = "imported",
               answer'[k] = "imported", request'[j].digest = request'[k].digest
        PROVE  j = k
    <3>1. j \in Done \cup {i} /\ k \in Done \cup {i}
      BY <1>2, <2>3
    <3>2. CASE j \in Done /\ k \in Done
      BY <1>1, <2>3, <3>2 DEF EvidenceInv, EvidenceCountedOnce
    <3>3. CASE j = i \/ k = i
      BY <1>1, <1>3, <1>4, <2>3, <3>1, <3>3
    <3> QED
      BY <3>1, <3>2, <3>3
  <2>4. \A q, r \in runs' : q.digest = r.digest => q = r
    BY <1>1, <1>3 DEF EvidenceInv, EvidenceCountedOnce
  <2> QED
    BY <2>1, <2>2, <2>3, <2>4 DEF EvidenceCountedOnce
<1>6. "done" \notin Open
  BY DEF Open, Writing
<1>7. ASSUME NEW j \in Imports, pc'[j] \in Open
      PROVE  /\ \A r \in runs' : r.digest # request'[j].digest
             /\ \A k \in Imports \ {j} :
                  pc'[k] \in Open => request'[k].digest # request'[j].digest
  <2>1. j # i /\ pc[j] \in Open
    BY <1>1, <1>6, <1>7
  <2> QED
    BY <1>1, <1>6, <2>1 DEF EvidenceInv
<1> QED
  BY <1>5, <1>7 DEF EvidenceInv

LEMMA EvidenceStep == Typed /\ EvidenceInv /\ [Next]_vars => EvidenceInv'
<1> SUFFICES ASSUME Typed, EvidenceInv, [Next]_vars PROVE EvidenceInv'
  OBVIOUS
<1>1. CASE UNCHANGED vars
  BY <1>1 DEF vars, tables, session, EvidenceInv, EvidenceCountedOnce
<1>2. /\ {"failed", "unknown", "duplicate"} \subseteq Answers \ {"imported"}
      /\ "record" \notin Open /\ "idle" \notin Open /\ "done" \notin Open
  BY DEF Answers, Open, Writing
<1>3. ASSUME NEW i \in Imports, pc[i] # "done" PROVE answer[i] = None
  BY <1>3 DEF Typed, SessionInv
<1>4. ASSUME NEW i \in Imports, Arrive(i) PROVE EvidenceInv'
  <2>1. PICK q \in Requests :
          /\ request' = [request EXCEPT ![i] = q]
          /\ \/ (\E r \in runs : r.digest = q.digest) /\ Leave(i, "duplicate")
             \/ Leave(i, "unknown")
             \/ /\ pc' = [pc EXCEPT ![i] = "record"]
                /\ UNCHANGED <<session, answer>>
    BY <1>4 DEF Arrive
  <2>2. /\ pc[i] = "idle" /\ UNCHANGED runs /\ request'[i] = q
        /\ \A j \in Imports \ {i} : request'[j] = request[j]
    BY <1>4, <2>1 DEF Arrive, tables, Typed, CoUsageTypeOK
  <2>3. CASE (\E r \in runs : r.digest = q.digest) /\ Leave(i, "duplicate")
    BY <1>2, <1>3, <2>2, <2>3, EvidenceLeave
  <2>4. CASE Leave(i, "unknown")
    BY <1>2, <1>3, <2>2, <2>4, EvidenceLeave
  <2>5. CASE pc' = [pc EXCEPT ![i] = "record"] /\ UNCHANGED <<session, answer>>
    <3>1. /\ pc'[i] = "record" /\ answer' = answer /\ answer[i] = None
          /\ \A j \in Imports \ {i} : pc'[j] = pc[j]
      BY <1>3, <2>2, <2>5 DEF Typed, CoUsageTypeOK
    <3>2. EvidenceCountedOnce'
      <4>1. \A j \in Imports : answer[j] \in Answers => request'[j] = request[j]
        BY <2>2, <3>1, NoneAssumption
      <4>2. "imported" \in Answers /\ "duplicate" \in Answers
        BY DEF Answers
      <4>3. {request'[j] : j \in {k \in Imports : answer[k] = "imported"}} =
            {request[j] : j \in {k \in Imports : answer[k] = "imported"}}
        BY <4>1, <4>2
      <4> QED
        BY <2>2, <3>1, <4>1, <4>2, <4>3 DEF EvidenceInv, EvidenceCountedOnce
    <3> QED
      BY <1>2, <2>2, <3>1, <3>2 DEF EvidenceInv
  <2> QED
    BY <2>1, <2>3, <2>4, <2>5
<1>5. ASSUME NEW i \in Imports, Record(i) PROVE EvidenceInv'
  <2>1. pc[i] = "record" /\ UNCHANGED <<runs, request>>
    BY <1>5 DEF Record, tables
  <2>2. CASE Leave(i, "failed")
    BY <1>2, <1>3, <2>1, <2>2, EvidenceLeave
  <2>3. CASE /\ \A r \in runs : r.digest # request[i].digest
             /\ pc' = [pc EXCEPT ![i] = "latest"] /\ UNCHANGED answer
    <3>1. \A j \in Imports \ {i} : pc[j] \in Open => request[j].digest # request[i].digest
      BY <1>5 DEF Record, Others
    <3>2. EvidenceCountedOnce'
      BY <2>1, <2>3 DEF EvidenceInv, EvidenceCountedOnce
    <3>3. \A j \in Imports \ {i} : pc'[j] = pc[j]
      BY <2>3 DEF Typed, CoUsageTypeOK
    <3> QED
      BY <2>1, <2>3, <3>1, <3>2, <3>3 DEF EvidenceInv
  <2> QED
    BY <1>5, <2>2, <2>3 DEF Record
<1>6. ASSUME NEW i \in Imports,
             ReadLatest(i) \/ Begin(i) \/ DeletePairs(i) \/ Deactivate(i) \/ Activate(i)
      PROVE  EvidenceInv'
  <2>1. /\ UNCHANGED <<runs, request, answer>> /\ pc[i] \in Open
        /\ \A j \in Imports \ {i} : pc'[j] = pc[j]
    BY <1>6 DEF ReadLatest, Begin, DeletePairs, Deactivate, Activate, NextStatement, tables,
                Typed, CoUsageTypeOK, Open, Writing
  <2>2. pc' \in [Imports -> Open \cup {"idle", "record", "done"}]
    BY <1>6 DEF ReadLatest, Begin, DeletePairs, Deactivate, Activate, NextStatement,
                Typed, CoUsageTypeOK, Open, Writing
  <2> QED
    BY <2>1, <2>2, EvidenceSession
<1>7. ASSUME NEW i \in Imports, InsertPairs(i) PROVE EvidenceInv'
  <2>1. pc[i] = "insert" /\ UNCHANGED <<runs, request>>
    BY <1>7 DEF InsertPairs, tables
  <2>2. CASE Leave(i, "failed")
    BY <1>2, <1>3, <2>1, <2>2, EvidenceLeave
  <2>3. CASE NextStatement(i, "deactivate") /\ UNCHANGED answer
    <3>1. /\ pc[i] \in Open /\ pc' \in [Imports -> Open \cup {"idle", "record", "done"}]
          /\ \A j \in Imports \ {i} : pc'[j] = pc[j]
      BY <2>1, <2>3 DEF NextStatement, Typed, CoUsageTypeOK, Open, Writing
    <3> QED
      BY <2>1, <2>3, <3>1, EvidenceSession
  <2> QED
    BY <1>7, <2>2, <2>3 DEF InsertPairs
<1>8. ASSUME NEW i \in Imports, Commit(i) PROVE EvidenceInv'
  BY <1>8, EvidenceCommit
<1>9. ASSUME NEW i \in Imports, Abort(i) PROVE EvidenceInv'
  <2>1. UNCHANGED <<runs, request>> /\ Leave(i, "failed") /\ pc[i] # "done"
    BY <1>2, <1>9 DEF Abort, tables
  <2> QED
    BY <1>2, <1>3, <2>1, EvidenceLeave
<1> QED
  BY <1>1, <1>4, <1>5, <1>6, <1>7, <1>8, <1>9 DEF Next

LEMMA EvidenceInit == Init => EvidenceInv
BY NoneAssumption DEF Init, EvidenceInv, EvidenceCountedOnce, Answers, Open, Writing

\* CoUsageTypeCorrect.  Every variable keeps its type, and no row claims more than every
\* use of a skill: the rate that is written is at most one.
THEOREM CoUsageTypeCorrect == Spec => []CoUsageTypeOK
BY TypesInvariant, PTL DEF Typed

\* EvidenceOnce.  However many imports of however many pieces of evidence overlap, fail
\* and are repeated, each is counted once and every import is told what became of it.
THEOREM EvidenceOnce == Spec => []EvidenceCountedOnce
<1>1. Typed /\ EvidenceInv /\ [Next]_vars => EvidenceInv'
  BY EvidenceStep
<1>2. EvidenceInv => EvidenceCountedOnce
  BY DEF EvidenceInv
<1> QED
  BY <1>1, <1>2, EvidenceInit, TypesInvariant, PTL DEF Spec

-----------------------------------------------------------------------------
(* Pairs *)

\* The rows an import was the writer of are equal wherever they are.
SameBy(P, Q) ==
    \A p \in OrderedPairs : P[p] # None /\ Q[p] # None /\ P[p].by = Q[p].by => P[p] = Q[p]

\* A row of P was committed by an import that is done.
OfDone(P) ==
    \A p \in OrderedPairs : P[p] # None => P[p].by \in Imports /\ pc[P[p].by] = "done"

\* No row of P counts more runs than R has.
Counted(P, R) ==
    \A p \in OrderedPairs : P[p] # None => P[p].runs <= Using(R, {p[1], p[2]})

\* The rows of the table, and those each session has seen, deleted or inserted.
PairsInv ==
    /\ Agree(pairs) /\ OfDone(pairs) /\ Counted(pairs, runs)
    /\ \A i \in Imports :
        /\ snap[i] # None =>
             Agree(snap[i].pairs) /\ OfDone(snap[i].pairs) /\ SameBy(pairs, snap[i].pairs)
        /\ \A p \in OrderedPairs : p \in gone[i] => Rev(p) \in gone[i]
        /\ Agree(made[i])
        /\ \A p \in OrderedPairs : made[i][p] # None => made[i][p].by = i
        /\ Counted(made[i], RunsSeen(i, runs))

LEMMA PairsInit == Init => PairsInv
BY NoRows DEF Init, PairsInv, Agree, OfDone, Counted

LEMMA PairsImply == PairsInv => PairsEvidenced
BY RevPair DEF PairsInv, PairsEvidenced, Agree, Counted, Rev

\* More runs are recorded.
LEMMA CountedMonotone ==
    ASSUME NEW P \in [OrderedPairs -> PairRow \cup {None}],
           NEW R, IsFiniteSet(R), NEW Q \in SUBSET R, Counted(P, Q)
    PROVE  Counted(P, R)
<1> SUFFICES ASSUME NEW p \in OrderedPairs, P[p] # None
             PROVE  P[p].runs <= Using(R, {p[1], p[2]})
  BY DEF Counted
<1>1. P[p].runs <= Using(Q, {p[1], p[2]})
  BY DEF Counted
<1>2. P[p].runs \in Nat
  BY DEF PairRow
<1>3. /\ Using(Q, {p[1], p[2]}) \in Nat /\ Using(R, {p[1], p[2]}) \in Nat
      /\ Using(Q, {p[1], p[2]}) <= Using(R, {p[1], p[2]})
  BY UsingMonotone
<1> QED
  BY <1>1, <1>2, <1>3

\* A step of i that leaves the tables and all requests of others alone, ends no session
\* but its own, and changes no snapshot, deletion or insertion but its own.
LEMMA PairsSession ==
    ASSUME Typed, PairsInv, NEW i \in Imports, UNCHANGED <<runs, pairs>>,
           \A j \in Imports : pc[j] = "done" => pc'[j] = "done",
           \A j \in Imports \ {i} :
               /\ request'[j] = request[j] /\ snap'[j] = snap[j]
               /\ gone'[j] = gone[j] /\ made'[j] = made[j],
           snap'[i] # None =>
               Agree(snap'[i].pairs) /\ OfDone(snap'[i].pairs) /\ SameBy(pairs, snap'[i].pairs),
           \A p \in OrderedPairs : p \in gone'[i] => Rev(p) \in gone'[i],
           Agree(made'[i]), \A p \in OrderedPairs : made'[i][p] # None => made'[i][p].by = i,
           Counted(made'[i], RunsSeen(i, runs)')
    PROVE  PairsInv'
<1>1. Agree(pairs)' /\ OfDone(pairs)' /\ Counted(pairs, runs)'
  BY DEF PairsInv, Agree, OfDone, Counted
<1>2. ASSUME NEW j \in Imports, snap'[j] # None
      PROVE  Agree(snap[j].pairs)' /\ OfDone(snap[j].pairs)' /\ SameBy(pairs, snap[j].pairs)'
  <2>1. CASE j = i
    BY <1>2, <2>1 DEF Agree, OfDone, SameBy
  <2>2. CASE j # i
    BY <1>2, <2>2 DEF PairsInv, Agree, OfDone, SameBy
  <2> QED
    BY <2>1, <2>2
<1>3. ASSUME NEW j \in Imports
      PROVE  /\ \A p \in OrderedPairs : p \in gone'[j] => Rev(p) \in gone'[j]
             /\ Agree(made[j])'
             /\ \A p \in OrderedPairs : made'[j][p] # None => made'[j][p].by = j
             /\ Counted(made[j], RunsSeen(j, runs))'
  <2>1. CASE j = i
    BY <2>1 DEF Agree, Counted
  <2>2. CASE j # i
    <3>1. RunsSeen(j, runs)' = RunsSeen(j, runs) /\ made'[j] = made[j] /\ gone'[j] = gone[j]
      BY <2>2 DEF RunsSeen
    <3>2. Counted(made[j], RunsSeen(j, runs))
      BY DEF PairsInv
    <3>3. Counted(made[j], RunsSeen(j, runs))'
      BY <3>1, <3>2 DEF Counted
    <3>4. Agree(made[j])'
      BY <3>1 DEF PairsInv, Agree
    <3> QED
      BY <3>1, <3>3, <3>4 DEF PairsInv
  <2> QED
    BY <2>1, <2>2
<1> QED
  BY <1>1, <1>2, <1>3 DEF PairsInv

LEMMA PairsLeave ==
    ASSUME Typed, PairsInv, NEW i \in Imports, NEW a, Leave(i, a), UNCHANGED <<runs, pairs>>,
           \A j \in Imports \ {i} : request'[j] = request[j]
    PROVE  PairsInv'
<1>1. /\ snap'[i] = None /\ gone'[i] = {} /\ made'[i] = NoPairs /\ pc'[i] = "done"
      /\ \A j \in Imports \ {i} : /\ pc'[j] = pc[j] /\ snap'[j] = snap[j]
                                  /\ gone'[j] = gone[j] /\ made'[j] = made[j]
  BY DEF Leave, Typed, CoUsageTypeOK
<1>2. /\ Agree(NoPairs) /\ \A R : Counted(NoPairs, R)
      /\ \A p \in OrderedPairs : NoPairs[p] # None => NoPairs[p].by = i
  BY NoRows DEF Agree, Counted
<1> QED
  BY <1>1, <1>2, PairsSession DEF Agree, Counted

\* The pairs that a session deletes after it has waited come in both directions.
LEMMA DeletedBothWays ==
    ASSUME Typed, PairsInv, NEW i \in Imports, snap[i] # None, NEW p \in OrderedPairs,
           pairs[p] # None, pairs[p] = snap[i].pairs[p]
    PROVE  pairs[Rev(p)] # None /\ pairs[Rev(p)] = snap[i].pairs[Rev(p)]
<1>1. pairs[Rev(p)] # None /\ pairs[Rev(p)].by = pairs[p].by
  BY DEF PairsInv, Agree
<1>2. snap[i].pairs[Rev(p)] # None /\ snap[i].pairs[Rev(p)].by = pairs[p].by
  BY DEF PairsInv, Agree
<1> QED
  BY <1>1, <1>2, RevPair DEF PairsInv, SameBy

LEMMA PairsCommit ==
    ASSUME Typed, PairsInv, NEW i \in Imports, Commit(i)
    PROVE  PairsInv'
<1>1. /\ snap'[i] = None /\ gone'[i] = {} /\ made'[i] = NoPairs /\ pc'[i] = "done"
      /\ \A j \in Imports \ {i} : /\ pc'[j] = pc[j] /\ snap'[j] = snap[j]
                                  /\ gone'[j] = gone[j] /\ made'[j] = made[j]
      /\ request' = request /\ runs' = RunsSeen(i, runs) /\ pc[i] = "commit"
  BY DEF Commit, Leave, Typed, CoUsageTypeOK
<1>2. ASSUME NEW p \in OrderedPairs
      PROVE  pairs'[p] = IF made[i][p] # None THEN made[i][p]
                         ELSE IF p \in gone[i] THEN None ELSE pairs[p]
  BY DEF Commit
<1>3. Agree(pairs)'
  <2> SUFFICES ASSUME NEW p \in OrderedPairs, pairs'[p] # None
               PROVE  /\ pairs'[Rev(p)] # None /\ pairs'[Rev(p)].by = pairs'[p].by
                      /\ pairs'[Rev(p)].runs = pairs'[p].runs
                      /\ pairs'[Rev(p)].lift = pairs'[p].lift
    BY DEF Agree
  <2>1. Rev(p) \in OrderedPairs /\ Rev(Rev(p)) = p
    BY RevPair
  <2>2. CASE made[i][p] # None
    BY <1>2, <2>1, <2>2 DEF PairsInv, Agree
  <2>3. CASE made[i][p] = None
    <3>1. p \notin gone[i] /\ pairs'[p] = pairs[p]
      BY <1>2, <2>3
    <3>2. Rev(p) \notin gone[i] /\ made[i][Rev(p)] = None
      BY <2>1, <2>3, <3>1 DEF PairsInv, Agree
    <3> QED
      BY <1>2, <2>1, <3>1, <3>2 DEF PairsInv, Agree
  <2> QED
    BY <2>2, <2>3
<1>4. OfDone(pairs)'
  BY <1>1, <1>2 DEF PairsInv, OfDone
<1>5. RunsSeen(i, runs) \in SUBSET Requests /\ IsFiniteSet(RunsSeen(i, runs))
  BY <1>1, SeenRuns DEF Typed
<1>6. Counted(pairs, runs)'
  <2>1. Counted(pairs, RunsSeen(i, runs))
    BY <1>5, CountedMonotone DEF PairsInv, Typed, CoUsageTypeOK, RunsSeen
  <2>2. Counted(made[i], RunsSeen(i, runs))
    BY DEF PairsInv
  <2> QED
    BY <1>1, <1>2, <2>1, <2>2 DEF Counted
<1>7. ASSUME NEW j \in Imports, snap'[j] # None
      PROVE  Agree(snap[j].pairs)' /\ OfDone(snap[j].pairs)' /\ SameBy(pairs, snap[j].pairs)'
  <2>1. j # i /\ snap'[j] = snap[j]
    BY <1>1, <1>7
  <2>2. Agree(snap[j].pairs) /\ OfDone(snap[j].pairs) /\ SameBy(pairs, snap[j].pairs)
    BY <1>7, <2>1 DEF PairsInv
  <2>3. OfDone(snap[j].pairs)'
    BY <1>1, <2>1, <2>2 DEF OfDone
  <2>4. SameBy(pairs, snap[j].pairs)'
    <3> SUFFICES ASSUME NEW p \in OrderedPairs, pairs'[p] # None, snap[j].pairs[p] # None,
                        pairs'[p].by = snap[j].pairs[p].by
                 PROVE  pairs'[p] = snap[j].pairs[p]
      BY <2>1 DEF SameBy
    <3>1. snap[j].pairs[p].by # i
      BY <1>1, <2>2 DEF OfDone
    <3>2. pairs'[p] = pairs[p]
      BY <1>2, <3>1 DEF PairsInv
    <3> QED
      BY <2>2, <3>2 DEF SameBy
  <2> QED
    BY <2>1, <2>2, <2>3, <2>4 DEF Agree
<1>8. ASSUME NEW j \in Imports
      PROVE  /\ \A p \in OrderedPairs : p \in gone'[j] => Rev(p) \in gone'[j]
             /\ Agree(made[j])'
             /\ \A p \in OrderedPairs : made'[j][p] # None => made'[j][p].by = j
             /\ Counted(made[j], RunsSeen(j, runs))'
  <2>1. CASE j = i
    BY <1>1, <2>1, NoRows DEF Agree, Counted
  <2>2. CASE j # i
    <3>1. RunsSeen(j, runs)' = RunsSeen(j, runs) \cup {request[i]}
      BY <1>1 DEF RunsSeen
    <3>2. IsFiniteSet(RunsSeen(j, runs) \cup {request[i]})
      <4>1. IsFiniteSet(RunsSeen(i, runs) \cup {request[j]})
        BY <1>5, FS_AddElement
      <4>2. RunsSeen(i, runs) \cup {request[j]} = RunsSeen(j, runs) \cup {request[i]}
        BY DEF RunsSeen
      <4> QED
        BY <4>1, <4>2
    <3>3. Counted(made[j], RunsSeen(j, runs))
      BY DEF PairsInv
    <3>4. made[j] \in [OrderedPairs -> PairRow \cup {None}]
      BY DEF Typed, CoUsageTypeOK
    <3>5. Counted(made[j], RunsSeen(j, runs) \cup {request[i]})
      BY <3>2, <3>3, <3>4, CountedMonotone
    <3>6. Counted(made[j], RunsSeen(j, runs))'
      BY <1>1, <2>2, <3>1, <3>5 DEF Counted
    <3> QED
      BY <1>1, <2>2, <3>6 DEF PairsInv, Agree
  <2> QED
    BY <2>1, <2>2
<1> QED
  BY <1>3, <1>4, <1>6, <1>7, <1>8 DEF PairsInv

LEMMA PairsStep == Typed /\ SnapshotsPast /\ PairsInv /\ [Next]_vars => PairsInv'
<1> SUFFICES ASSUME Typed, SnapshotsPast, PairsInv, [Next]_vars PROVE PairsInv'
  OBVIOUS
<1>1. CASE UNCHANGED vars
  <2>1. UNCHANGED <<runs, pairs, request, pc, snap, gone, made>>
    BY <1>1 DEF vars, tables, session
  <2>2. Agree(pairs)' /\ OfDone(pairs)' /\ Counted(pairs, runs)'
    BY <2>1 DEF PairsInv, Agree, OfDone, Counted
  <2>3. ASSUME NEW i \in Imports, snap'[i] # None
        PROVE  Agree(snap[i].pairs)' /\ OfDone(snap[i].pairs)' /\ SameBy(pairs, snap[i].pairs)'
    BY <2>1, <2>3 DEF PairsInv, Agree, OfDone, SameBy
  <2>4. ASSUME NEW i \in Imports
        PROVE  /\ \A p \in OrderedPairs : p \in gone'[i] => Rev(p) \in gone'[i]
               /\ Agree(made[i])'
               /\ \A p \in OrderedPairs : made'[i][p] # None => made'[i][p].by = i
               /\ Counted(made[i], RunsSeen(i, runs))'
    BY <2>1 DEF PairsInv, Agree, Counted, RunsSeen
  <2> QED
    BY <2>2, <2>3, <2>4 DEF PairsInv
<1>2. ASSUME NEW i \in Imports,
             UNCHANGED <<runs, pairs, request, gone, made>>,
             snap'[i] = None \/ snap'[i] = snap[i],
             \A j \in Imports \ {i} : snap'[j] = snap[j] /\ pc'[j] = pc[j],
             pc[i] # "done"
      PROVE  PairsInv'
  <2>1. /\ Agree(made[i]) /\ Counted(made[i], RunsSeen(i, runs))
        /\ snap[i] # None =>
             Agree(snap[i].pairs) /\ OfDone(snap[i].pairs) /\ SameBy(pairs, snap[i].pairs)
    BY DEF PairsInv
  <2>2. Counted(made'[i], RunsSeen(i, runs)')
    BY <1>2, <2>1 DEF Counted, RunsSeen
  <2> QED
    BY <1>2, <2>1, <2>2, PairsSession DEF PairsInv
<1>3. ASSUME NEW i \in Imports, Arrive(i) PROVE PairsInv'
  <2>1. /\ pc[i] = "idle" /\ UNCHANGED <<runs, pairs>>
        /\ \A j \in Imports \ {i} : request'[j] = request[j]
        /\ \/ \E a : Leave(i, a)
           \/ pc' = [pc EXCEPT ![i] = "record"] /\ UNCHANGED session
    BY <1>3 DEF Arrive, tables, Typed, CoUsageTypeOK
  <2>2. CASE \E a : Leave(i, a)
    BY <2>1, <2>2, PairsLeave
  <2>3. CASE pc' = [pc EXCEPT ![i] = "record"] /\ UNCHANGED session
    <3>1. made'[i] = NoPairs
      BY <2>1, <2>3 DEF Typed, SessionInv, session
    <3>2. Counted(made'[i], RunsSeen(i, runs)')
      BY <3>1, NoRows DEF Counted
    <3>3. \A j \in Imports : pc[j] = "done" => pc'[j] = "done"
      BY <2>1, <2>3 DEF Typed, CoUsageTypeOK
    <3>4. UNCHANGED <<snap, gone, made>>
      BY <2>3 DEF session
    <3> QED
      BY <2>1, <3>2, <3>3, <3>4, PairsSession DEF PairsInv
  <2> QED
    BY <2>1, <2>2, <2>3
<1>4. ASSUME NEW i \in Imports, Record(i) PROVE PairsInv'
  <2>1. CASE Leave(i, "failed")
    BY <1>4, <2>1, PairsLeave DEF Record, tables
  <2>2. CASE pc' = [pc EXCEPT ![i] = "latest"] /\ UNCHANGED session
    BY <1>2, <1>4, <2>2 DEF Record, session, tables, Typed, CoUsageTypeOK
  <2> QED
    BY <1>4, <2>1, <2>2 DEF Record
<1>5. ASSUME NEW i \in Imports, ReadLatest(i) PROVE PairsInv'
  BY <1>2, <1>5 DEF ReadLatest, tables, Typed, CoUsageTypeOK
<1>6. ASSUME NEW i \in Imports, Begin(i) PROVE PairsInv'
  <2>1. /\ snap'[i].pairs = pairs /\ UNCHANGED <<runs, pairs, request, gone, made, pc>>
        /\ \A j \in Imports \ {i} : snap'[j] = snap[j]
    BY <1>6 DEF Begin, Tables, tables, Typed, CoUsageTypeOK
  <2>2. Agree(pairs) /\ OfDone(pairs) /\ SameBy(pairs, pairs)
    BY DEF PairsInv, SameBy
  <2>3. Agree(made[i]) /\ Counted(made[i], RunsSeen(i, runs))
    BY DEF PairsInv
  <2>4. Counted(made'[i], RunsSeen(i, runs)')
    BY <2>1, <2>3 DEF Counted, RunsSeen
  <2> QED
    BY <2>1, <2>2, <2>3, <2>4, PairsSession DEF PairsInv
<1>7. ASSUME NEW i \in Imports, DeletePairs(i) PROVE PairsInv'
  <2>1. /\ snap[i] # None /\ snap'[i] = None /\ pc[i] # "done"
        /\ UNCHANGED <<runs, pairs, request, made>>
        /\ gone'[i] = {p \in OrderedPairs : pairs[p] # None /\ pairs[p] = snap[i].pairs[p]}
        /\ \A j \in Imports \ {i} : snap'[j] = snap[j] /\ gone'[j] = gone[j] /\ pc'[j] = pc[j]
    BY <1>7 DEF DeletePairs, NextStatement, tables, Typed, CoUsageTypeOK
  <2>2. \A p \in OrderedPairs : p \in gone'[i] => Rev(p) \in gone'[i]
    BY <2>1, DeletedBothWays, RevPair
  <2>3. Agree(made[i]) /\ Counted(made[i], RunsSeen(i, runs))
    BY DEF PairsInv
  <2>4. Counted(made'[i], RunsSeen(i, runs)')
    BY <2>1, <2>3 DEF Counted, RunsSeen
  <2> QED
    BY <2>1, <2>2, <2>3, <2>4, PairsSession DEF PairsInv
<1>8. ASSUME NEW i \in Imports, InsertPairs(i) PROVE PairsInv'
  <2> DEFINE R == WindowRuns(RunsSeen(i, snap[i].runs), latest[i])
             rows == ScoredPairs(i, R)
  <2>1. pc[i] = "insert" /\ snap[i] # None /\ UNCHANGED <<runs, pairs, request>>
    BY <1>8 DEF InsertPairs, tables
  <2>2. CASE Leave(i, "failed")
    BY <2>1, <2>2, PairsLeave
  <2>3. CASE made' = [made EXCEPT ![i] = rows] /\ NextStatement(i, "deactivate") /\ gone' = gone
    <3>1. /\ IsFiniteSet(R) /\ R \subseteq RunsSeen(i, runs) /\ Agree(rows)
          /\ \A p \in OrderedPairs : rows[p] # None =>
               rows[p].by = i /\ rows[p].runs = Using(R, {p[1], p[2]})
      BY <2>1, InsertedRows DEF Typed, SnapshotsPast
    <3>2. IsFiniteSet(RunsSeen(i, runs)) /\ RunsSeen(i, runs)' = RunsSeen(i, runs)
      BY <2>1, SeenRuns DEF Typed, RunsSeen
    <3> HIDE DEF R, rows
    <3>3. Counted(rows, RunsSeen(i, runs))
      <4> SUFFICES ASSUME NEW p \in OrderedPairs, rows[p] # None
                   PROVE  rows[p].runs <= Using(RunsSeen(i, runs), {p[1], p[2]})
        BY DEF Counted
      <4>1. Using(R, {p[1], p[2]}) <= Using(RunsSeen(i, runs), {p[1], p[2]})
        BY <3>1, <3>2, UsingMonotone
      <4> QED
        BY <3>1, <4>1
    <3>4. /\ made'[i] = rows /\ snap'[i] = None
          /\ \A j \in Imports \ {i} : snap'[j] = snap[j] /\ made'[j] = made[j] /\ pc'[j] = pc[j]
      BY <2>3 DEF NextStatement, Typed, CoUsageTypeOK
    <3>5. \A j \in Imports : pc[j] = "done" => pc'[j] = "done"
      BY <2>1, <3>4
    <3>6. \A p \in OrderedPairs : p \in gone'[i] => Rev(p) \in gone'[i]
      BY <2>3 DEF PairsInv
    <3>7. /\ Agree(made'[i]) /\ Counted(made'[i], RunsSeen(i, runs)')
          /\ \A p \in OrderedPairs : made'[i][p] # None => made'[i][p].by = i
      BY <3>1, <3>2, <3>3, <3>4
    <3> QED
      BY <2>1, <2>3, <3>4, <3>5, <3>6, <3>7, PairsSession
  <2> HIDE DEF R, rows
  <2> QED
    BY <1>8, <2>2, <2>3 DEF InsertPairs, R, rows
<1>9. ASSUME NEW i \in Imports, Deactivate(i) PROVE PairsInv'
  BY <1>2, <1>9 DEF Deactivate, NextStatement, tables, Typed, CoUsageTypeOK
<1>10. ASSUME NEW i \in Imports, Activate(i) PROVE PairsInv'
  BY <1>2, <1>10 DEF Activate, NextStatement, tables, Typed, CoUsageTypeOK
<1>11. ASSUME NEW i \in Imports, Commit(i) PROVE PairsInv'
  BY <1>11, PairsCommit
<1>12. ASSUME NEW i \in Imports, Abort(i) PROVE PairsInv'
  BY <1>12, PairsLeave DEF Abort, tables
<1> QED
  BY <1>1, <1>3, <1>4, <1>5, <1>6, <1>7, <1>8, <1>9, <1>10, <1>11, <1>12 DEF Next

\* PairsNeverOverstate.  Whatever rebuilds overlap, wait for each other and fail, the
\* table never holds a pair that counts more runs than are recorded, or whose two
\* directions stem from different rebuilds.
THEOREM PairsNeverOverstate == Spec => []PairsEvidenced
BY PairsInit, PairsStep, PairsImply, TypesInvariant, PTL DEF Spec

-----------------------------------------------------------------------------
(* Imports that nothing overtakes *)

\* What import i rebuilds the pairs to, when it sees all that is committed.
Rebuilt(i) == ScoredPairs(i, WindowRuns(RunsSeen(i, runs), latest[i]))

IsActive(row) == row # None /\ row.active

\* An import that nothing overtook has seen the tables as they are, and has done to them
\* what its statements so far were to do.
CleanOf(i) ==
    ~overtaken[i] /\ pc[i] \in Open =>
        /\ snap[i] # None => snap[i] = Tables
        /\ pc[i] \in Writing \cup {"commit"} => latest[i] = LatestOf(RunsSeen(i, runs))
        /\ pc[i] \in {"insert", "deactivate", "activate", "commit"} =>
             \A p \in OrderedPairs : p \in gone[i] <=> pairs[p] # None
        /\ pc[i] \in {"deactivate", "activate", "commit"} => made[i] = Rebuilt(i)
        /\ pc[i] = "activate" => \A e \in EdgePairs :
             flips[i][e] = IF e \notin Eligible(made[i]) /\ IsActive(edges[e])
                           THEN [edges[e] EXCEPT !.active = FALSE] ELSE None
        /\ pc[i] = "commit" => \A e \in EdgePairs :
             IsActive(EdgeAfter(i, e)) <=> e \in Eligible(made[i])

CleanInv == \A i \in Imports : CleanOf(i)

LEMMA CleanInit == Init => CleanInv
BY DEF Init, CleanInv, CleanOf, Open, Writing

\* The import j does not step and no table changes.
LEMMA CleanFrame ==
    ASSUME NEW j \in Imports, CleanOf(j), UNCHANGED tables,
           pc'[j] = pc[j], overtaken'[j] = overtaken[j], request'[j] = request[j],
           latest'[j] = latest[j], snap'[j] = snap[j], gone'[j] = gone[j],
           made'[j] = made[j], flips'[j] = flips[j]
    PROVE  CleanOf(j)'
<1>1. RunsSeen(j, runs)' = RunsSeen(j, runs)
  BY DEF RunsSeen, tables
<1>2. Rebuilt(j)' = Rebuilt(j) /\ LatestOf(RunsSeen(j, runs))' = LatestOf(RunsSeen(j, runs))
  BY <1>1 DEF Rebuilt
<1>3. Tables' = Tables /\ \A e : EdgeAfter(j, e)' = EdgeAfter(j, e)
  BY DEF Tables, tables, EdgeAfter
<1> QED
  BY <1>1, <1>2, <1>3 DEF CleanOf, tables

\* An import that nothing overtook sees the pairs that it has made, and no others.
LEMMA CleanSeen ==
    ASSUME Typed, CleanInv, NEW i \in Imports, ~overtaken[i], snap[i] # None,
           pc[i] \in {"deactivate", "activate"}
    PROVE  PairsSeen(i) = made[i] /\ snap[i] = Tables
<1>1. snap[i] = Tables /\ \A p \in OrderedPairs : p \in gone[i] <=> pairs[p] # None
  BY DEF CleanInv, CleanOf, Open, Writing
<1>2. snap[i].pairs = pairs
  BY <1>1 DEF Tables
<1>3. \A p \in OrderedPairs : PairsSeen(i)[p] = made[i][p]
  BY <1>1, <1>2 DEF PairsSeen
<1>4. made[i] \in [OrderedPairs -> PairRow \cup {None}]
  BY DEF Typed, CoUsageTypeOK
<1>5. PairsSeen(i) = [p \in OrderedPairs |-> PairsSeen(i)[p]]
  BY DEF PairsSeen
<1> QED
  BY <1>1, <1>3, <1>4, <1>5

LEMMA CleanOthers ==
    ASSUME Typed, CleanInv, NEW i \in Imports, UNCHANGED <<tables, overtaken>>,
           \A j \in Imports \ {i} : /\ pc'[j] = pc[j] /\ request'[j] = request[j]
                                   /\ latest'[j] = latest[j] /\ snap'[j] = snap[j]
                                   /\ gone'[j] = gone[j] /\ made'[j] = made[j]
                                   /\ flips'[j] = flips[j],
           CleanOf(i)'
    PROVE  CleanInv'
<1>1. ASSUME NEW j \in Imports, j # i PROVE CleanOf(j)'
  <2>1. CleanOf(j) /\ overtaken'[j] = overtaken[j]
    BY DEF CleanInv
  <2> QED
    BY <1>1, <2>1, CleanFrame
<1> QED
  BY <1>1 DEF CleanInv

\* The statements of an import that nothing overtook.
LEMMA CleanReadLatest ==
    ASSUME Typed, CleanInv, NEW i \in Imports, ReadLatest(i)
    PROVE  CleanOf(i)'
<1>1. /\ pc[i] = "latest" /\ pc'[i] = "delete" /\ snap'[i] = snap[i]
      /\ overtaken'[i] = overtaken[i] /\ UNCHANGED tables
      /\ latest'[i] = LatestOf(RunsSeen(i, runs)) /\ request' = request
  BY DEF ReadLatest, LatestOf, Typed, CoUsageTypeOK
<1>2. RunsSeen(i, runs)' = RunsSeen(i, runs) /\ Tables' = Tables
  BY <1>1 DEF RunsSeen, Tables, tables
<1>3. ~overtaken[i] /\ snap[i] # None => snap[i] = Tables
  BY <1>1 DEF CleanInv, CleanOf, Open
<1> QED
  BY <1>1, <1>2, <1>3 DEF CleanOf, LatestOf

LEMMA CleanBegin ==
    ASSUME Typed, CleanInv, NEW i \in Imports, Begin(i)
    PROVE  CleanOf(i)'
<1>1. /\ snap'[i] = Tables
      /\ UNCHANGED <<pc, tables, latest, gone, made, flips, request, overtaken>>
  BY DEF Begin, Typed, CoUsageTypeOK
<1>2. /\ RunsSeen(i, runs)' = RunsSeen(i, runs) /\ Tables' = Tables
      /\ \A e : EdgeAfter(i, e)' = EdgeAfter(i, e)
  BY <1>1 DEF RunsSeen, Tables, tables, EdgeAfter
<1>3. Rebuilt(i)' = Rebuilt(i) /\ LatestOf(RunsSeen(i, runs))' = LatestOf(RunsSeen(i, runs))
  BY <1>1, <1>2 DEF Rebuilt
<1> QED
  BY <1>1, <1>2, <1>3 DEF CleanInv, CleanOf, tables

LEMMA CleanDelete ==
    ASSUME Typed, CleanInv, NEW i \in Imports, DeletePairs(i)
    PROVE  CleanOf(i)'
<1>1. /\ pc[i] = "delete" /\ pc'[i] = "insert" /\ snap[i] # None /\ snap'[i] = None
      /\ UNCHANGED <<tables, latest, request, overtaken>>
      /\ gone'[i] = {p \in OrderedPairs : pairs[p] # None /\ pairs[p] = snap[i].pairs[p]}
  BY DEF DeletePairs, NextStatement, Typed, CoUsageTypeOK
<1>2. RunsSeen(i, runs)' = RunsSeen(i, runs)
  BY <1>1 DEF RunsSeen, tables
<1>3. CASE ~overtaken[i]
  <2>1. snap[i] = Tables /\ latest[i] = LatestOf(RunsSeen(i, runs))
    BY <1>1, <1>3 DEF CleanInv, CleanOf, Open, Writing
  <2>2. snap[i].pairs = pairs
    BY <2>1 DEF Tables
  <2>3. \A p \in OrderedPairs : p \in gone'[i] <=> pairs'[p] # None
    BY <1>1, <2>2 DEF tables
  <2>4. latest'[i] = LatestOf(RunsSeen(i, runs))'
    BY <1>1, <1>2, <2>1
  <2> QED
    BY <1>1, <2>3, <2>4 DEF CleanOf
<1> QED
  BY <1>1, <1>3 DEF CleanOf

LEMMA CleanInsert ==
    ASSUME Typed, CleanInv, NEW i \in Imports, InsertPairs(i)
    PROVE  CleanOf(i)'
<1>1. pc[i] = "insert" /\ snap[i] # None /\ UNCHANGED <<tables, request, overtaken>>
  BY DEF InsertPairs
<1>2. CASE Leave(i, "failed")
  BY <1>2 DEF CleanOf, Leave, Typed, CoUsageTypeOK, Open, Writing
<1>3. CASE /\ NextStatement(i, "deactivate") /\ UNCHANGED <<latest, gone, flips>>
           /\ made' = [made EXCEPT ![i] =
                ScoredPairs(i, WindowRuns(RunsSeen(i, snap[i].runs), latest[i]))]
  <2>1. pc'[i] = "deactivate" /\ snap'[i] = None
    BY <1>3 DEF NextStatement, Typed, CoUsageTypeOK
  <2>2. CASE ~overtaken[i]
    <3>1. /\ snap[i] = Tables /\ latest[i] = LatestOf(RunsSeen(i, runs))
          /\ \A p \in OrderedPairs : p \in gone[i] <=> pairs[p] # None
      BY <1>1, <2>2 DEF CleanInv, CleanOf, Open, Writing
    <3>2. snap[i].runs = runs
      BY <3>1 DEF Tables
    <3>3. RunsSeen(i, runs)' = RunsSeen(i, runs)
      BY <1>1 DEF RunsSeen, tables
    <3>4. made'[i] = Rebuilt(i)
      BY <1>3, <3>2 DEF Rebuilt, Typed, CoUsageTypeOK
    <3>5. Rebuilt(i)' = Rebuilt(i) /\ LatestOf(RunsSeen(i, runs))' = LatestOf(RunsSeen(i, runs))
      BY <1>3, <3>3 DEF Rebuilt
    <3>6. \A p \in OrderedPairs : p \in gone'[i] <=> pairs'[p] # None
      BY <1>1, <1>3, <3>1 DEF tables
    <3> QED
      BY <1>3, <2>1, <3>1, <3>4, <3>5, <3>6 DEF CleanOf
  <2> QED
    BY <1>1, <2>2 DEF CleanOf
<1> QED
  BY <1>2, <1>3 DEF InsertPairs

LEMMA CleanDeactivate ==
    ASSUME Typed, CleanInv, NEW i \in Imports, Deactivate(i)
    PROVE  CleanOf(i)'
<1> DEFINE targets == {e \in EdgePairs \ Eligible(PairsSeen(i)) :
                         snap[i].edges[e] # None /\ snap[i].edges[e].active}
<1>1. /\ pc[i] = "deactivate" /\ pc'[i] = "activate" /\ snap[i] # None /\ snap'[i] = None
      /\ UNCHANGED <<tables, latest, gone, made, request, overtaken>>
      /\ flips'[i] = [e \in EdgePairs |-> IF e \in targets /\ edges[e].active
                                          THEN [edges[e] EXCEPT !.active = FALSE] ELSE None]
  BY DEF Deactivate, NextStatement, Typed, CoUsageTypeOK
<1>2. CASE ~overtaken[i]
  <2>1. PairsSeen(i) = made[i] /\ snap[i] = Tables
    BY <1>1, <1>2, CleanSeen
  <2>2. snap[i].edges = edges
    BY <2>1 DEF Tables
  <2>3. /\ latest[i] = LatestOf(RunsSeen(i, runs)) /\ made[i] = Rebuilt(i)
        /\ \A p \in OrderedPairs : p \in gone[i] <=> pairs[p] # None
    BY <1>1, <1>2 DEF CleanInv, CleanOf, Open, Writing
  <2>4. RunsSeen(i, runs)' = RunsSeen(i, runs)
    BY <1>1 DEF RunsSeen, tables
  <2>5. Rebuilt(i)' = Rebuilt(i) /\ LatestOf(RunsSeen(i, runs))' = LatestOf(RunsSeen(i, runs))
    BY <1>1, <2>4 DEF Rebuilt
  <2>6. ASSUME NEW e \in EdgePairs
        PROVE  flips'[i][e] = IF e \notin Eligible(made[i]) /\ IsActive(edges[e])
                              THEN [edges[e] EXCEPT !.active = FALSE] ELSE None
    <3>1. e \in targets /\ edges[e].active <=> e \notin Eligible(made[i]) /\ IsActive(edges[e])
      BY <2>1, <2>2 DEF IsActive
    <3> HIDE DEF targets
    <3> QED
      BY <1>1, <3>1
  <2> QED
    BY <1>1, <2>3, <2>5, <2>6 DEF CleanOf, tables
<1> QED
  BY <1>1, <1>2 DEF CleanOf

LEMMA CleanActivate ==
    ASSUME Typed, CleanInv, NEW i \in Imports, Activate(i)
    PROVE  CleanOf(i)'
<1> DEFINE seen == PairsSeen(i)
           row(e) == [active |-> TRUE, confidence |-> Confidence(seen, e)]
<1>1. /\ pc[i] = "activate" /\ pc'[i] = "commit" /\ snap[i] # None /\ snap'[i] = None
      /\ UNCHANGED <<tables, latest, gone, made, request, overtaken>>
      /\ flips'[i] = [e \in EdgePairs |->
                        IF e \in Eligible(seen) /\ ~IsActive(EdgeAfter(i, e))
                        THEN row(e) ELSE flips[i][e]]
  BY DEF Activate, NextStatement, Typed, CoUsageTypeOK, IsActive
<1>2. CASE ~overtaken[i]
  <2>1. seen = made[i]
    BY <1>1, <1>2, CleanSeen
  <2>2. /\ latest[i] = LatestOf(RunsSeen(i, runs)) /\ made[i] = Rebuilt(i)
        /\ \A p \in OrderedPairs : p \in gone[i] <=> pairs[p] # None
    BY <1>1, <1>2 DEF CleanInv, CleanOf, Open, Writing
  <2>3. RunsSeen(i, runs)' = RunsSeen(i, runs)
    BY <1>1 DEF RunsSeen, tables
  <2>4. Rebuilt(i)' = Rebuilt(i) /\ LatestOf(RunsSeen(i, runs))' = LatestOf(RunsSeen(i, runs))
    BY <1>1, <2>3 DEF Rebuilt
  <2>5. ASSUME NEW e \in EdgePairs
        PROVE  IsActive(EdgeAfter(i, e))' <=> e \in Eligible(made[i])
    <3>1. flips[i][e] = IF e \notin Eligible(made[i]) /\ IsActive(edges[e])
                        THEN [edges[e] EXCEPT !.active = FALSE] ELSE None
      BY <1>1, <1>2 DEF CleanInv, CleanOf, Open, Writing
    <3>2. edges' = edges
      BY <1>1 DEF tables
    <3>3. CASE e \in Eligible(made[i]) /\ ~IsActive(edges[e])
      <4>1. flips'[i][e] = row(e)
        BY <1>1, <2>1, <3>1, <3>3 DEF EdgeAfter
      <4>2. row(e) \in EdgeRow
        <5>1. Confidence(seen, e) \in Nat
          BY <1>1, <2>1, <3>3, SeenPairs, ConfidenceType DEF Typed
        <5> QED
          BY <5>1 DEF EdgeRow
      <4>3. row(e) # None /\ row(e).active
        BY <4>2, NoneAssumption
      <4> HIDE DEF row
      <4> QED
        BY <3>3, <4>1, <4>3 DEF EdgeAfter, IsActive
    <3>4. CASE e \in Eligible(made[i]) /\ IsActive(edges[e])
      <4>1. flips'[i][e] = None
        BY <1>1, <3>1, <3>4 DEF EdgeAfter
      <4> QED
        BY <3>2, <3>4, <4>1 DEF EdgeAfter, IsActive
    <3>5. CASE e \notin Eligible(made[i]) /\ IsActive(edges[e])
      <4>1. flips'[i][e] = [edges[e] EXCEPT !.active = FALSE]
        BY <1>1, <2>1, <3>1, <3>5
      <4>2. edges[e] \in EdgeRow
        BY <3>5 DEF IsActive, Typed, CoUsageTypeOK
      <4>3. [edges[e] EXCEPT !.active = FALSE] \in EdgeRow
        BY <4>2 DEF EdgeRow
      <4>4. [edges[e] EXCEPT !.active = FALSE].active = FALSE
        BY <4>2 DEF EdgeRow
      <4> QED
        BY <3>5, <4>1, <4>3, <4>4, NoneAssumption DEF EdgeAfter, IsActive
    <3>6. CASE e \notin Eligible(made[i]) /\ ~IsActive(edges[e])
      <4>1. flips'[i][e] = None
        BY <1>1, <2>1, <3>1, <3>6
      <4> QED
        BY <3>2, <3>6, <4>1 DEF EdgeAfter, IsActive
    <3> QED
      BY <3>3, <3>4, <3>5, <3>6
  <2> HIDE DEF seen, row
  <2> QED
    BY <1>1, <2>2, <2>4, <2>5 DEF CleanOf, tables
<1> QED
  BY <1>1, <1>2 DEF CleanOf

\* Only a writing statement has a snapshot.
SnapshotsTaken == \A i \in Imports : snap[i] # None => pc[i] \in Writing

LEMMA SnapshotsTakenStep == Typed /\ SnapshotsTaken /\ [Next]_vars => SnapshotsTaken'
<1> SUFFICES ASSUME Typed, SnapshotsTaken, [Next]_vars PROVE SnapshotsTaken'
  OBVIOUS
<1>1. CASE UNCHANGED vars
  BY <1>1 DEF vars, session, SnapshotsTaken
<1>2. ASSUME NEW i \in Imports, pc[i] \in {"idle", "record", "latest"}, UNCHANGED snap,
             \A j \in Imports \ {i} : pc'[j] = pc[j]
      PROVE  SnapshotsTaken'
  BY <1>2 DEF SnapshotsTaken, Writing
<1>3. ASSUME NEW i \in Imports, NEW a, Leave(i, a) PROVE SnapshotsTaken'
  BY <1>3 DEF Leave, SnapshotsTaken, Typed, CoUsageTypeOK
<1>4. ASSUME NEW i \in Imports, NEW s, NextStatement(i, s) PROVE SnapshotsTaken'
  BY <1>4 DEF NextStatement, SnapshotsTaken, Typed, CoUsageTypeOK
<1>5. ASSUME NEW i \in Imports, Arrive(i) \/ Record(i) \/ ReadLatest(i) PROVE SnapshotsTaken'
  <2>1. pc[i] \in {"idle", "record", "latest"}
    BY <1>5 DEF Arrive, Record, ReadLatest
  <2>2. \/ \E a : Leave(i, a)
        \/ UNCHANGED snap /\ \E s : pc' = [pc EXCEPT ![i] = s]
    BY <1>5 DEF Arrive, Record, ReadLatest, session
  <2>3. ASSUME UNCHANGED snap, NEW s, pc' = [pc EXCEPT ![i] = s] PROVE SnapshotsTaken'
    <3>1. \A j \in Imports \ {i} : pc'[j] = pc[j]
      BY <2>3 DEF Typed, CoUsageTypeOK
    <3> QED
      BY <1>2, <2>1, <2>3, <3>1
  <2> QED
    BY <1>3, <2>2, <2>3
<1>6. ASSUME NEW i \in Imports, Begin(i) PROVE SnapshotsTaken'
  BY <1>6 DEF Begin, SnapshotsTaken, Typed, CoUsageTypeOK
<1>7. ASSUME NEW i \in Imports,
             DeletePairs(i) \/ InsertPairs(i) \/ Deactivate(i) \/ Activate(i)
      PROVE  SnapshotsTaken'
  BY <1>3, <1>4, <1>7 DEF DeletePairs, InsertPairs, Deactivate, Activate
<1>8. ASSUME NEW i \in Imports, Commit(i) \/ Abort(i) PROVE SnapshotsTaken'
  BY <1>3, <1>8 DEF Commit, Abort
<1> QED
  BY <1>1, <1>5, <1>6, <1>7, <1>8 DEF Next

LEMMA CleanStep == Typed /\ SnapshotsTaken /\ CleanInv /\ [Next]_vars => CleanInv'
<1> SUFFICES ASSUME Typed, SnapshotsTaken, CleanInv, [Next]_vars PROVE CleanInv'
  OBVIOUS
<1>1. CASE UNCHANGED vars
  <2>1. /\ UNCHANGED <<tables, pc, overtaken, request, latest, snap, gone, made, flips>>
    BY <1>1 DEF vars, session
  <2> QED
    BY <2>1, CleanFrame DEF CleanInv
<1>2. "idle" \notin Open /\ "record" \notin Open /\ "done" \notin Open
  BY DEF Open, Writing
<1>3. ASSUME NEW i \in Imports, NEW a, Leave(i, a), UNCHANGED <<tables, overtaken>>,
             \A j \in Imports \ {i} : request'[j] = request[j]
      PROVE  CleanInv'
  <2>1. /\ pc'[i] = "done"
        /\ \A j \in Imports \ {i} :
             /\ pc'[j] = pc[j] /\ latest'[j] = latest[j] /\ snap'[j] = snap[j]
             /\ gone'[j] = gone[j] /\ made'[j] = made[j] /\ flips'[j] = flips[j]
    BY <1>3 DEF Leave, Typed, CoUsageTypeOK
  <2>2. CleanOf(i)'
    BY <1>2, <2>1 DEF CleanOf
  <2> QED
    BY <1>3, <2>1, <2>2, CleanOthers
<1>4. ASSUME NEW i \in Imports, Arrive(i) PROVE CleanInv'
  <2>1. /\ UNCHANGED <<tables, overtaken>>
        /\ \A j \in Imports \ {i} : request'[j] = request[j]
        /\ \/ \E a : Leave(i, a)
           \/ pc' = [pc EXCEPT ![i] = "record"] /\ UNCHANGED session
    BY <1>4 DEF Arrive, Typed, CoUsageTypeOK
  <2>2. CASE pc' = [pc EXCEPT ![i] = "record"] /\ UNCHANGED session
    <3>1. pc'[i] = "record" /\ \A j \in Imports \ {i} : pc'[j] = pc[j]
      BY <2>2 DEF Typed, CoUsageTypeOK
    <3>2. CleanOf(i)'
      BY <1>2, <3>1 DEF CleanOf
    <3>3. UNCHANGED <<latest, snap, gone, made, flips>>
      BY <2>2 DEF session
    <3> QED
      BY <2>1, <3>1, <3>2, <3>3, CleanOthers
  <2> QED
    BY <1>3, <2>1, <2>2
<1>5. ASSUME NEW i \in Imports, Record(i) PROVE CleanInv'
  <2>1. UNCHANGED <<tables, request, overtaken>> /\ pc[i] = "record"
    BY <1>5 DEF Record
  <2>2. CASE Leave(i, "failed")
    BY <1>3, <2>1, <2>2
  <2>3. CASE pc' = [pc EXCEPT ![i] = "latest"] /\ UNCHANGED session
    <3>1. pc'[i] = "latest" /\ \A j \in Imports \ {i} : pc'[j] = pc[j]
      BY <2>3 DEF Typed, CoUsageTypeOK
    <3>2. UNCHANGED <<latest, snap, gone, made, flips>>
      BY <2>3 DEF session
    <3>3. snap'[i] = None
      BY <2>1, <3>2 DEF SnapshotsTaken, Writing
    <3>4. CleanOf(i)'
      BY <3>1, <3>3 DEF CleanOf, Writing
    <3> QED
      BY <2>1, <3>1, <3>2, <3>4, CleanOthers
  <2> QED
    BY <1>5, <2>2, <2>3 DEF Record
<1>6. ASSUME NEW i \in Imports, ReadLatest(i) PROVE CleanInv'
  BY <1>6, CleanReadLatest, CleanOthers DEF ReadLatest, Typed, CoUsageTypeOK
<1>7. ASSUME NEW i \in Imports, Begin(i) PROVE CleanInv'
  BY <1>7, CleanBegin, CleanOthers DEF Begin, Typed, CoUsageTypeOK
<1>8. ASSUME NEW i \in Imports, DeletePairs(i) PROVE CleanInv'
  BY <1>8, CleanDelete, CleanOthers DEF DeletePairs, NextStatement, Typed, CoUsageTypeOK
<1>9. ASSUME NEW i \in Imports, InsertPairs(i) PROVE CleanInv'
  <2>1. UNCHANGED <<tables, request, overtaken>>
    BY <1>9 DEF InsertPairs
  <2>2. CASE Leave(i, "failed")
    BY <1>3, <2>1, <2>2
  <2>3. CASE /\ NextStatement(i, "deactivate") /\ UNCHANGED <<latest, gone, flips>>
             /\ \E rows : made' = [made EXCEPT ![i] = rows]
    <3>1. \A j \in Imports \ {i} : pc'[j] = pc[j] /\ snap'[j] = snap[j] /\ made'[j] = made[j]
      BY <2>3 DEF NextStatement, Typed, CoUsageTypeOK
    <3> QED
      BY <1>9, <2>1, <2>3, <3>1, CleanInsert, CleanOthers
  <2> QED
    BY <1>9, <2>2, <2>3 DEF InsertPairs
<1>10. ASSUME NEW i \in Imports, Deactivate(i) PROVE CleanInv'
  <2>1. /\ UNCHANGED <<tables, latest, gone, made, request, overtaken>>
        /\ \A j \in Imports \ {i} : pc'[j] = pc[j] /\ snap'[j] = snap[j] /\ flips'[j] = flips[j]
    BY <1>10 DEF Deactivate, NextStatement, Typed, CoUsageTypeOK
  <2> QED
    BY <1>10, <2>1, CleanDeactivate, CleanOthers
<1>11. ASSUME NEW i \in Imports, Activate(i) PROVE CleanInv'
  <2>1. /\ UNCHANGED <<tables, latest, gone, made, request, overtaken>>
        /\ \A j \in Imports \ {i} : pc'[j] = pc[j] /\ snap'[j] = snap[j] /\ flips'[j] = flips[j]
    BY <1>11 DEF Activate, NextStatement, Typed, CoUsageTypeOK
  <2> QED
    BY <1>11, <2>1, CleanActivate, CleanOthers
<1>12. ASSUME NEW i \in Imports, Commit(i) PROVE CleanInv'
  <2>1. /\ pc'[i] = "done" /\ \A j \in Imports \ {i} : pc'[j] = pc[j]
        /\ \A j \in Imports \ {i} : pc[j] \in Open => overtaken'[j]
    BY <1>12 DEF Commit, Leave, Typed, CoUsageTypeOK
  <2> QED
    BY <1>2, <2>1 DEF CleanInv, CleanOf
<1>13. ASSUME NEW i \in Imports, Abort(i) PROVE CleanInv'
  BY <1>3, <1>13 DEF Abort
<1> QED
  BY <1>1, <1>4, <1>5, <1>6, <1>7, <1>8, <1>9, <1>10, <1>11, <1>12, <1>13 DEF Next

LEMMA CleanInvariant == Spec => [](Typed /\ CleanInv)
<1>1. Init => SnapshotsTaken
  BY DEF Init, SnapshotsTaken
<1> QED
  BY <1>1, CleanInit, CleanStep, SnapshotsTakenStep, TypesInvariant, PTL DEF Spec

\* Whether a pair passes the policy does not depend on who computes it.
LEMMA PassesForAll ==
    ASSUME NEW R, IsFiniteSet(R), NEW i \in Imports, NEW p \in OrderedPairs
    PROVE  Passes(ScoredPairs(i, R)[p]) <=> Passes(ScoredPairs(None, R)[p])
<1>1. CASE Using(R, {p[1], p[2]}) = 0
  <2>1. ScoredPairs(i, R)[p] = None /\ ScoredPairs(None, R)[p] = None
    BY <1>1, ScoredPairsIs
  <2> QED
    BY <2>1
<1>2. CASE Using(R, {p[1], p[2]}) # 0
  <2>1. ScoredPairs(i, R)[p] = Scored(i, R, p) /\ ScoredPairs(None, R)[p] = Scored(None, R, p)
    BY <1>2, ScoredPairsIs
  <2>2. Scored(i, R, p) # None /\ Scored(None, R, p) # None
    BY <1>2, ScoredRow
  <2>3. /\ Scored(i, R, p).runs = Scored(None, R, p).runs
        /\ Scored(i, R, p).rate = Scored(None, R, p).rate
        /\ Scored(i, R, p).lift = Scored(None, R, p).lift
    BY DEF Scored
  <2> QED
    BY <2>1, <2>2, <2>3 DEF Passes
<1> QED
  BY <1>1, <1>2

LEMMA CleanCommit ==
    ASSUME Typed, CleanInv, NEW i \in Imports, ~overtaken[i], Commit(i)
    PROVE  /\ pairs' = ScoredPairs(i, WindowRuns(runs', LatestOf(runs')))
           /\ ActiveEdges(edges') = Supported(runs')
<1> DEFINE W == WindowRuns(runs', LatestOf(runs'))
<1>1. pc[i] = "commit" /\ runs' = RunsSeen(i, runs)
  BY DEF Commit
<1>2. /\ latest[i] = LatestOf(runs') /\ made[i] = Rebuilt(i)
      /\ \A p \in OrderedPairs : p \in gone[i] <=> pairs[p] # None
      /\ \A e \in EdgePairs : IsActive(EdgeAfter(i, e)) <=> e \in Eligible(made[i])
  BY <1>1 DEF CleanInv, CleanOf, Open
<1>3. made[i] = ScoredPairs(i, W)
  BY <1>1, <1>2 DEF Rebuilt
<1>4. IsFiniteSet(W)
  BY <1>1, SeenRuns DEF Typed
<1> HIDE DEF W
<1>5. pairs' = ScoredPairs(i, W)
  <2>1. \A p \in OrderedPairs : pairs'[p] = made[i][p]
    BY <1>2 DEF Commit
  <2>2. pairs' = [p \in OrderedPairs |-> made[i][p]]
    BY <2>1 DEF Commit
  <2>3. made[i] \in [OrderedPairs -> PairRow \cup {None}]
    BY DEF Typed, CoUsageTypeOK
  <2> QED
    BY <1>3, <2>2, <2>3
<1>6. ASSUME NEW e \in EdgePairs
      PROVE  e \in ActiveEdges(edges') <=> e \in Supported(runs')
  <2>1. edges'[e] = EdgeAfter(i, e)
    BY DEF Commit, EdgeAfter
  <2>2. e \in ActiveEdges(edges') <=> e \in Eligible(ScoredPairs(i, W))
    BY <1>2, <1>3, <2>1 DEF ActiveEdges, IsActive
  <2>3. e \in Supported(runs') <=>
          Passes(ScoredPairs(None, W)[e]) \/ Passes(ScoredPairs(None, W)[<<e[2], e[1]>>])
    BY DEF Supported, W
  <2>4. /\ Passes(ScoredPairs(i, W)[e]) <=> Passes(ScoredPairs(None, W)[e])
        /\ Passes(ScoredPairs(i, W)[<<e[2], e[1]>>]) <=>
           Passes(ScoredPairs(None, W)[<<e[2], e[1]>>])
    BY <1>4, EdgesOrdered, PassesForAll
  <2> QED
    BY <2>2, <2>3, <2>4 DEF Eligible
<1>7. ActiveEdges(edges') = Supported(runs')
  BY <1>6 DEF ActiveEdges, Supported
<1> QED
  BY <1>5, <1>7 DEF W

\* CleanImportsRebuild.  Whatever overlapping imports have left in the tables, the next
\* import that none overtakes makes pairs and active edges those of the rolling window.
THEOREM CleanImportsRebuild == Spec => CleanImportRebuilds
<1>1. Typed /\ CleanInv /\ [Next]_vars =>
        [\A i \in Imports : CleanImport(i) =>
           /\ pairs' = ScoredPairs(i, WindowRuns(runs', LatestOf(runs')))
           /\ ActiveEdges(edges') = Supported(runs')]_vars
  <2> SUFFICES ASSUME Typed, CleanInv, Next, NEW i \in Imports, CleanImport(i)
               PROVE  /\ pairs' = ScoredPairs(i, WindowRuns(runs', LatestOf(runs')))
                      /\ ActiveEdges(edges') = Supported(runs')
    OBVIOUS
  <2>1. Commit(i)
    <3>1. PICK j \in Imports :
            \/ Arrive(j) \/ Record(j) \/ ReadLatest(j) \/ Begin(j) \/ DeletePairs(j)
            \/ InsertPairs(j) \/ Deactivate(j) \/ Activate(j) \/ Commit(j) \/ Abort(j)
      BY DEF Next
    <3>2. pc[i] = "commit" /\ answer'[i] = "imported" /\ answer[i] = None /\ None # "imported"
      BY NoneAssumption DEF CleanImport, Typed, SessionInv, Answers
    <3>3. j = i
      <4>1. \/ answer' = answer
            \/ \E a : answer' = [answer EXCEPT ![j] = a]
        BY <3>1 DEF Arrive, Record, ReadLatest, Begin, DeletePairs, InsertPairs, Deactivate,
                    Activate, Commit, Abort, Leave
      <4> QED
        BY <3>2, <4>1 DEF Typed, CoUsageTypeOK
    <3>4. Commit(i) \/ Abort(i) \/ Begin(i)
      BY <3>1, <3>2, <3>3 DEF Arrive, Record, ReadLatest, DeletePairs, InsertPairs, Deactivate,
                              Activate
    <3> QED
      BY <3>2, <3>4 DEF Begin, Abort, Leave, Writing, Typed, CoUsageTypeOK
  <2> QED
    BY <2>1, CleanCommit DEF CleanImport
<1> QED
  BY <1>1, CleanInvariant, PTL DEF Spec, CleanImportRebuilds
=============================================================================

------------------------- MODULE EmbeddingIndexProofs -------------------------
(***************************************************************************)
(* The safety of the semantic index for any documents, runs, batch sizes   *)
(* and numbers of crashes.  The inductive invariant adds to the checked    *)
(* properties what a backfill has repaired so far, and that documents      *)
(* published since the start are never written by a backfill.              *)
(***************************************************************************)
EXTENDS EmbeddingIndex, TLAPS, WellFoundedInduction

-----------------------------------------------------------------------------
\* The smallest document of a set is one of it.
LEMMA MinIn == ASSUME NEW S \in SUBSET Nat, S # {} PROVE Min(S) \in S
<1>1. IsWellFoundedOn(OpToRel(<, Nat), Nat)
  BY NatLessThanWellFounded
<1>2. PICK x \in S : \A y \in S : ~ (<<y, x>> \in OpToRel(<, Nat))
  BY <1>1, WFMin, Zenon
<1>3. ASSUME NEW y \in S PROVE x =< y
  <2>1. x \in Nat /\ y \in Nat
    OBVIOUS
  <2>2. y < x => <<y, x>> \in OpToRel(<, Nat)
    BY <2>1, Zenon DEF OpToRel
  <2>3. ~ (y < x)
    BY <1>2, <2>2, Zenon
  <2> QED
    BY <2>1, <2>3
<1> QED
  BY <1>3 DEF Min

LEMMA NextDocIn ==
    ASSUME IndexTypeOK, NEW r \in Runs, todo[r] # {} PROVE NextDoc(r) \in todo[r]
BY MinIn, IndexAssumption DEF IndexTypeOK, NextDoc

LEMMA NextItemIn ==
    ASSUME IndexTypeOK, NEW r \in Runs, held[r] # {} PROVE Min(held[r]) \in held[r]
BY MinIn, IndexAssumption DEF IndexTypeOK

\* The rows that are written whole.
LEMMA RowShapes ==
    /\ Pending \in Row /\ Pending.status = "pending" /\ Pending.digest = "current"
    /\ Stale \in Row /\ Stale.status = "stale" /\ Stale.digest = "current"
    /\ Indexed \in Row /\ Indexed.digest = "current" /\ Indexed.vector = "current"
    /\ Indexed.status = "indexed"
    /\ \A g \in Sources : LET f == RowOf("failed", g, "none")
                          IN  f \in Row /\ f.status = "failed" /\ f.digest = g
BY DEF Pending, Stale, Indexed, RowOf, Row, Statuses, Sources

\* What the backfill of each run has passed, or has written and not yet committed.
Repaired ==
    \A r \in Runs :
        /\ pc[r] \in {"claim", "work"} => \A d \in docs : UpToDate(d)
        /\ pc[r] \in {"look", "write"} =>
             \A d \in docs \ (todo[r] \cup writes[r]) : UpToDate(d)

Fresh == Docs \ OldDocs

\* No backfill touches a document published since the start, and a row of one that a
\* run holds is not up for work.
FreshRows ==
    /\ \A d \in docs \cap Fresh : UpToDate(d)
    /\ \A r \in Runs : /\ pc[r] = "write" => todo[r] # {} /\ NextDoc(r) \notin Fresh
                       /\ writes[r] \cap Fresh = {}
    /\ \A r \in Runs : \A d \in held[r] \cap Fresh :
         rows[d].status \in {"processing", "indexed", "failed"}

IndexInv ==
    /\ IndexTypeOK
    /\ ServedVectorOfItsDigest
    /\ Repaired
    /\ FreshRows

\* How a step may change the row of a document: what it leaves is a row, served only
\* with the vector of its digest, and as up to date as it was.
GoodChange(d) ==
    \/ rows'[d] = rows[d]
    \/ /\ rows'[d] \in Row
       /\ rows'[d].status = "indexed" => rows'[d].vector = rows'[d].digest
       /\ UpToDate(d) => rows'[d].digest = "current"

LEMMA RowChange ==
    ASSUME IndexInv, Next
    PROVE  rows' = [d \in Docs |-> rows'[d]] /\ \A d \in Docs : GoodChange(d)
<1> USE DEF IndexInv, IndexTypeOK
<1>0. \A d \in Docs : rows[d] # NoRow => rows[d] \in Row
  OBVIOUS
<1>1. ASSUME NEW e \in Docs, PublishDoc(e)
      PROVE  rows' = [d \in Docs |-> rows'[d]] /\ \A d \in Docs : GoodChange(d)
  BY <1>1, RowShapes DEF PublishDoc, GoodChange
<1>2. ASSUME NEW e \in Docs, Expire(e)
      PROVE  rows' = [d \in Docs |-> rows'[d]] /\ \A d \in Docs : GoodChange(d)
  <2> DEFINE new == [rows[e] EXCEPT !.expired = TRUE]
  <2>1. rows[e] \in Row /\ rows' = [rows EXCEPT ![e] = new] /\ rows[e].status = "processing"
    BY <1>0, <1>2 DEF Expire
  <2>2. /\ new \in Row /\ new.status = rows[e].status
        /\ new.digest = rows[e].digest /\ new.vector = rows[e].vector
    BY <2>1 DEF Row
  <2> HIDE DEF new
  <2> QED
    BY <2>1, <2>2 DEF GoodChange, UpToDate
<1>3. ASSUME NEW r \in Runs, CommitBackfill(r)
      PROVE  rows' = [d \in Docs |-> rows'[d]] /\ \A d \in Docs : GoodChange(d)
  BY <1>3, RowShapes DEF CommitBackfill, GoodChange
<1>4. ASSUME NEW r \in Runs, Claim(r)
      PROVE  rows' = [d \in Docs |-> rows'[d]] /\ \A d \in Docs : GoodChange(d)
  <2> DEFINE new(d) == [rows[d] EXCEPT !.status = "processing", !.expired = FALSE]
  <2>1. PICK S \in SUBSET Claimable(r) :
          rows' = [d \in Docs |-> IF d \in {x \in S : rows[x].digest = "current"} THEN new(d)
                                  ELSE IF d \in S THEN Stale ELSE rows[d]]
    BY <1>4 DEF Claim
  <2>2. \A d \in S : rows[d] \in Row
    BY <1>0 DEF Claimable
  <2>3. ASSUME NEW d \in Docs, rows[d] \in Row
        PROVE  /\ new(d) \in Row /\ new(d).status = "processing"
               /\ new(d).digest = rows[d].digest /\ new(d).vector = rows[d].vector
    BY <2>3 DEF Row, Statuses
  <2> HIDE DEF new
  <2>4. ASSUME NEW d \in Docs PROVE GoodChange(d)
    <3>1. CASE d \in S /\ rows[d].digest = "current"
      <4>1. rows'[d] = new(d) /\ rows[d] \in Row
        BY <2>1, <2>2, <3>1
      <4> QED BY <4>1, <2>3, <3>1 DEF GoodChange
    <3>2. CASE d \in S /\ rows[d].digest # "current"
      BY <2>1, <3>2, RowShapes DEF GoodChange
    <3>3. CASE d \notin S
      BY <2>1, <3>3 DEF GoodChange
    <3> QED BY <3>1, <3>2, <3>3
  <2> QED BY <2>1, <2>4
<1>5. ASSUME NEW r \in Runs, IndexNext(r)
      PROVE  rows' = [d \in Docs |-> rows'[d]] /\ \A d \in Docs : GoodChange(d)
  BY <1>5, RowShapes DEF IndexNext, GoodChange
<1>6. ASSUME NEW r \in Runs, FailNext(r)
      PROVE  rows' = [d \in Docs |-> rows'[d]] /\ \A d \in Docs : GoodChange(d)
  <2> DEFINE e == Min(held[r])
             new == RowOf("failed", rows[e].digest, "none")
  <2>1. e \in docs /\ rows' = [rows EXCEPT ![e] = new] /\ pc[r] = "work"
    BY <1>6, NextItemIn DEF FailNext
  <2>2. UpToDate(e)
    BY <2>1 DEF Repaired
  <2>3. new \in Row /\ new.status = "failed" /\ new.digest = "current"
    BY <2>2, RowShapes DEF UpToDate, Sources
  <2> HIDE DEF e, new
  <2> QED BY <2>1, <2>3 DEF GoodChange
<1>7. CASE UNCHANGED rows
  BY <1>7 DEF GoodChange
<1> QED
  BY <1>1, <1>2, <1>3, <1>4, <1>5, <1>6, <1>7
     DEF Next, RunStep, StartRun, Look, Collide, Write, NextBatch, Crash

-----------------------------------------------------------------------------
THEOREM InitInv == Init => IndexInv
<1> SUFFICES ASSUME Init PROVE IndexInv
  OBVIOUS
<1>1. RowOf("indexed", "old", "old") \in Row
  BY DEF RowOf, Row, Statuses, Sources
<1>2. \A d \in Docs : rows[d] = RowOf("indexed", "old", "old") \/ rows[d] = NoRow
  BY DEF Init
<1>3. IndexTypeOK
  BY <1>1, IndexAssumption DEF Init, IndexTypeOK, Phases
<1>4. ServedVectorOfItsDigest
  BY <1>2 DEF ServedVectorOfItsDigest, RowOf
<1>5. Repaired /\ FreshRows
  BY DEF Init, Repaired, FreshRows, Fresh
<1> QED BY <1>3, <1>4, <1>5 DEF IndexInv

\* No step makes an up-to-date row out of date, or serves another text's vector.
LEMMA RowsKept ==
    ASSUME IndexInv, Next
    PROVE  /\ rows' \in [Docs -> Row \cup {NoRow}]
           /\ ServedVectorOfItsDigest'
           /\ \A d \in docs : UpToDate(d) => UpToDate(d)'
<1>1. /\ rows' = [d \in Docs |-> rows'[d]] /\ \A d \in Docs : GoodChange(d)
      /\ rows \in [Docs -> Row \cup {NoRow}] /\ docs \subseteq Docs /\ ServedVectorOfItsDigest
  BY RowChange DEF IndexInv, IndexTypeOK
<1>2. \A d \in Docs : rows'[d] \in Row \cup {NoRow}
  BY <1>1 DEF GoodChange
<1>3. ServedVectorOfItsDigest'
  BY <1>1 DEF ServedVectorOfItsDigest, GoodChange
<1>4. \A d \in Docs : UpToDate(d) => UpToDate(d)'
  BY <1>1, NoRowAssumption DEF GoodChange, UpToDate
<1> QED BY <1>1, <1>2, <1>3, <1>4

LEMMA TypeStep == ASSUME IndexInv, Next PROVE IndexTypeOK'
<1> USE DEF IndexInv, IndexTypeOK, Phases
<1>0. rows' \in [Docs -> Row \cup {NoRow}]
  BY RowsKept
<1>e. ASSUME NEW r \in Runs, EndRun(r), docs' = docs, crashes' \in 0 .. MaxCrashes
      PROVE  IndexTypeOK'
  BY <1>0, <1>e, IndexAssumption DEF EndRun
<1>1. ASSUME NEW d \in Docs, PublishDoc(d) PROVE IndexTypeOK'
  BY <1>0, <1>1 DEF PublishDoc, run
<1>2. ASSUME NEW d \in Docs, Expire(d) PROVE IndexTypeOK'
  BY <1>0, <1>2 DEF Expire, run
<1>3. ASSUME NEW r \in Runs, StartRun(r) PROVE IndexTypeOK'
  BY <1>0, <1>3 DEF StartRun
<1>4. ASSUME NEW r \in Runs, Look(r) PROVE IndexTypeOK'
  <2>1. NextDoc(r) \in docs
    BY <1>4, NextDocIn DEF Look
  <2> QED BY <1>0, <1>4, <2>1 DEF Look
<1>5. ASSUME NEW r \in Runs, Collide(r) PROVE IndexTypeOK'
  BY <1>e, <1>5 DEF Collide
<1>6. ASSUME NEW r \in Runs, Write(r), todo[r] # {} PROVE IndexTypeOK'
  <2>1. NextDoc(r) \in docs
    BY <1>6, NextDocIn
  <2> QED BY <1>0, <1>6, <2>1 DEF Write
<1>7. ASSUME NEW r \in Runs, CommitBackfill(r) PROVE IndexTypeOK'
  BY <1>0, <1>7 DEF CommitBackfill
<1>8. ASSUME NEW r \in Runs, Claim(r) PROVE IndexTypeOK'
  <2>1. PICK S \in SUBSET Claimable(r) :
          LET work == {d \in S : rows[d].digest = "current"}
          IN  IF work = {} THEN EndRun(r)
              ELSE /\ pc' = [pc EXCEPT ![r] = "work"]
                   /\ held' = [held EXCEPT ![r] = work]
                   /\ UNCHANGED <<todo, look, writes, batches>>
    BY <1>8, Zenon DEF Claim
  <2>2. S \subseteq docs /\ docs' = docs /\ crashes' = crashes
    BY <1>8 DEF Claim, Claimable
  <2> QED BY <1>0, <1>e, <2>1, <2>2
<1>9. ASSUME NEW r \in Runs, IndexNext(r) PROVE IndexTypeOK'
  BY <1>0, <1>9 DEF IndexNext
<1>10. ASSUME NEW r \in Runs, FailNext(r) PROVE IndexTypeOK'
  BY <1>0, <1>10 DEF FailNext
<1>11. ASSUME NEW r \in Runs, NextBatch(r) PROVE IndexTypeOK'
  <2>1. CASE batches[r] + 1 < MaxBatches
    BY <1>0, <1>11, <2>1, IndexAssumption DEF NextBatch
  <2>2. CASE ~(batches[r] + 1 < MaxBatches)
    BY <1>e, <1>11, <2>2 DEF NextBatch
  <2> QED BY <2>1, <2>2
<1>12. ASSUME NEW r \in Runs, Crash(r) PROVE IndexTypeOK'
  BY <1>e, <1>12, IndexAssumption DEF Crash
<1>13. \A r \in Runs : Write(r) => todo[r] # {}
  BY DEF Write, Repaired, FreshRows
<1> QED
  BY <1>1, <1>2, <1>3, <1>4, <1>5, <1>6, <1>7, <1>8, <1>9, <1>10, <1>11, <1>12, <1>13
     DEF Next, RunStep

\* What a backfill has passed stays passed: no step undoes a repair, and a document
\* that appears has an up-to-date row.
LEMMA RepairedStep == ASSUME IndexInv, Next PROVE Repaired'
<1> USE DEF IndexInv, IndexTypeOK
<1>0. \A d \in docs : UpToDate(d) => UpToDate(d)'
  BY RowsKept
<1>e. ASSUME NEW r \in Runs, EndRun(r), docs' = docs
      PROVE  Repaired'
  BY <1>0, <1>e DEF EndRun, Repaired
<1>u. ASSUME docs' = docs, UNCHANGED <<pc, todo, writes>>
      PROVE  Repaired'
  BY <1>0, <1>u DEF Repaired
<1>1. ASSUME NEW d \in Docs, PublishDoc(d) PROVE Repaired'
  <2>1. UpToDate(d)'
    BY <1>1, RowShapes, NoRowAssumption DEF PublishDoc, UpToDate
  <2> QED BY <1>0, <1>1, <2>1 DEF PublishDoc, run, Repaired
<1>2. ASSUME NEW d \in Docs, Expire(d) PROVE Repaired'
  BY <1>u, <1>2 DEF Expire, run
<1>3. ASSUME NEW r \in Runs, StartRun(r) PROVE Repaired'
  BY <1>0, <1>3 DEF StartRun, Repaired
<1>4. ASSUME NEW r \in Runs, Look(r) PROVE Repaired'
  <2>1. CASE UpToDate(NextDoc(r))
    BY <1>0, <1>4, <2>1 DEF Look, Repaired
  <2>2. CASE ~UpToDate(NextDoc(r))
    BY <1>0, <1>4, <2>2 DEF Look, Repaired
  <2> QED BY <2>1, <2>2
<1>5. ASSUME NEW r \in Runs, Collide(r) PROVE Repaired'
  BY <1>e, <1>5 DEF Collide
<1>6. ASSUME NEW r \in Runs, Write(r) PROVE Repaired'
  BY <1>0, <1>6 DEF Write, Repaired
<1>7. ASSUME NEW r \in Runs, CommitBackfill(r) PROVE Repaired'
  <2>1. \A d \in writes[r] : UpToDate(d)'
    BY <1>7, RowShapes, NoRowAssumption DEF CommitBackfill, UpToDate
  <2> QED BY <1>0, <1>7, <2>1 DEF CommitBackfill, Repaired
<1>8. ASSUME NEW r \in Runs, Claim(r) PROVE Repaired'
  <2>1. docs' = docs /\ pc[r] = "claim"
        /\ (EndRun(r) \/ (pc' = [pc EXCEPT ![r] = "work"] /\ UNCHANGED <<todo, writes>>))
    BY <1>8, Zenon DEF Claim
  <2>2. CASE pc' = [pc EXCEPT ![r] = "work"] /\ UNCHANGED <<todo, writes>>
    BY <1>0, <2>1, <2>2 DEF Repaired
  <2> QED BY <1>e, <2>1, <2>2
<1>9. ASSUME NEW r \in Runs, IndexNext(r) \/ FailNext(r) PROVE Repaired'
  BY <1>u, <1>9 DEF IndexNext, FailNext
<1>10. ASSUME NEW r \in Runs, NextBatch(r) PROVE Repaired'
  <2>1. CASE batches[r] + 1 < MaxBatches
    BY <1>0, <1>10, <2>1 DEF NextBatch, Repaired
  <2>2. CASE ~(batches[r] + 1 < MaxBatches)
    BY <1>e, <1>10, <2>2 DEF NextBatch
  <2> QED BY <2>1, <2>2
<1>11. ASSUME NEW r \in Runs, Crash(r) PROVE Repaired'
  BY <1>e, <1>11 DEF Crash
<1> QED
  BY <1>1, <1>2, <1>3, <1>4, <1>5, <1>6, <1>7, <1>8, <1>9, <1>10, <1>11
     DEF Next, RunStep

\* The part of FreshRows on backfills alone.
FreshUntouched(r) ==
    /\ pc[r] = "write" => todo[r] # {} /\ NextDoc(r) \notin Fresh
    /\ writes[r] \cap Fresh = {}

FreshHeld(r) ==
    \A d \in held[r] \cap Fresh : rows[d].status \in {"processing", "indexed", "failed"}

LEMMA FreshUntouchedStep ==
    ASSUME IndexInv, Next PROVE \A r \in Runs : FreshUntouched(r)'
<1> USE DEF IndexInv, IndexTypeOK, FreshRows, FreshUntouched, NextDoc
<1>e. ASSUME NEW r \in Runs, EndRun(r) PROVE \A o \in Runs : FreshUntouched(o)'
  BY <1>e DEF EndRun
<1>u. ASSUME UNCHANGED <<pc, todo, writes>> PROVE \A o \in Runs : FreshUntouched(o)'
  BY <1>u
<1>1. ASSUME NEW d \in Docs, PublishDoc(d) \/ Expire(d)
      PROVE  \A o \in Runs : FreshUntouched(o)'
  BY <1>u, <1>1 DEF PublishDoc, Expire, run
<1>3. ASSUME NEW r \in Runs, StartRun(r) PROVE \A o \in Runs : FreshUntouched(o)'
  BY <1>3 DEF StartRun
<1>4. ASSUME NEW r \in Runs, Look(r) PROVE \A o \in Runs : FreshUntouched(o)'
  <2>1. NextDoc(r) \in docs
    BY <1>4, NextDocIn DEF Look
  <2>2. CASE UpToDate(NextDoc(r))
    BY <1>4, <2>2 DEF Look
  <2>3. CASE ~UpToDate(NextDoc(r))
    BY <1>4, <2>1, <2>3 DEF Look
  <2> QED BY <2>2, <2>3
<1>5. ASSUME NEW r \in Runs, Collide(r) PROVE \A o \in Runs : FreshUntouched(o)'
  BY <1>e, <1>5 DEF Collide
<1>6. ASSUME NEW r \in Runs, Write(r) PROVE \A o \in Runs : FreshUntouched(o)'
  BY <1>6 DEF Write
<1>7. ASSUME NEW r \in Runs, CommitBackfill(r) PROVE \A o \in Runs : FreshUntouched(o)'
  BY <1>7 DEF CommitBackfill
<1>8. ASSUME NEW r \in Runs, Claim(r) PROVE \A o \in Runs : FreshUntouched(o)'
  <2>1. EndRun(r) \/ (pc' = [pc EXCEPT ![r] = "work"] /\ UNCHANGED <<todo, writes>>)
    BY <1>8, Zenon DEF Claim
  <2> QED BY <1>e, <2>1
<1>9. ASSUME NEW r \in Runs, IndexNext(r) \/ FailNext(r)
      PROVE  \A o \in Runs : FreshUntouched(o)'
  BY <1>u, <1>9 DEF IndexNext, FailNext
<1>10. ASSUME NEW r \in Runs, NextBatch(r) PROVE \A o \in Runs : FreshUntouched(o)'
  <2>1. CASE batches[r] + 1 < MaxBatches
    BY <1>10, <2>1 DEF NextBatch
  <2>2. CASE ~(batches[r] + 1 < MaxBatches)
    BY <1>e, <1>10, <2>2 DEF NextBatch
  <2> QED BY <2>1, <2>2
<1>11. ASSUME NEW r \in Runs, Crash(r) PROVE \A o \in Runs : FreshUntouched(o)'
  BY <1>e, <1>11 DEF Crash
<1> QED
  BY <1>1, <1>3, <1>4, <1>5, <1>6, <1>7, <1>8, <1>9, <1>10, <1>11 DEF Next, RunStep

LEMMA FreshHeldStep ==
    ASSUME IndexInv, Next PROVE \A r \in Runs : FreshHeld(r)'
<1> USE DEF IndexInv, IndexTypeOK, FreshRows, FreshHeld
<1> DEFINE Busy == {"processing", "indexed", "failed"}
<1>k. ASSUME \A o \in Runs : held'[o] \subseteq held[o],
             \A d \in Docs \cap Fresh : rows'[d] = rows[d] \/ rows'[d].status \in Busy
      PROVE  \A o \in Runs : FreshHeld(o)'
  BY <1>k
<1>e. ASSUME NEW r \in Runs, EndRun(r), rows' = rows
      PROVE  \A o \in Runs : FreshHeld(o)'
  BY <1>e DEF EndRun
<1>1. ASSUME NEW d \in Docs, PublishDoc(d) PROVE \A o \in Runs : FreshHeld(o)'
  BY <1>1 DEF PublishDoc, run
<1>2. ASSUME NEW d \in Docs, Expire(d) PROVE \A o \in Runs : FreshHeld(o)'
  <2> DEFINE new == [rows[d] EXCEPT !.expired = TRUE]
  <2>1. rows[d] \in Row /\ rows' = [rows EXCEPT ![d] = new] /\ rows[d].status = "processing"
        /\ held' = held
    BY <1>2 DEF Expire, run
  <2>2. new.status = "processing"
    BY <2>1 DEF Row
  <2> HIDE DEF new
  <2> QED BY <2>1, <2>2
<1>3. ASSUME NEW r \in Runs, StartRun(r) \/ Look(r) \/ Write(r)
      PROVE  \A o \in Runs : FreshHeld(o)'
  BY <1>3 DEF StartRun, Look, Write
<1>5. ASSUME NEW r \in Runs, Collide(r) \/ Crash(r) PROVE \A o \in Runs : FreshHeld(o)'
  BY <1>e, <1>5 DEF Collide, Crash
<1>7. ASSUME NEW r \in Runs, CommitBackfill(r) PROVE \A o \in Runs : FreshHeld(o)'
  <2>1. held' = held /\ \A d \in Docs : d \notin writes[r] => rows'[d] = rows[d]
    BY <1>7 DEF CommitBackfill
  <2>2. writes[r] \cap Fresh = {}
    OBVIOUS
  <2> QED BY <2>1, <2>2
<1>8. ASSUME NEW r \in Runs, Claim(r) PROVE \A o \in Runs : FreshHeld(o)'
  <2> DEFINE new(d) == [rows[d] EXCEPT !.status = "processing", !.expired = FALSE]
             Work(S) == {d \in S : rows[d].digest = "current"}
  <2>1. PICK S \in SUBSET Claimable(r) :
          /\ rows' = [d \in Docs |-> IF d \in Work(S) THEN new(d)
                                     ELSE IF d \in S THEN Stale ELSE rows[d]]
          /\ \/ EndRun(r)
             \/ held' = [held EXCEPT ![r] = Work(S)]
    BY <1>8, Zenon DEF Claim
  <2>2. \A d \in S : d \in docs /\ rows[d] \in Row
    BY DEF Claimable
  <2>3. \A d \in S \cap Fresh : d \in Work(S)
    BY <2>2 DEF UpToDate
  <2>4. \A d \in S : new(d).status = "processing"
    BY <2>2 DEF Row
  <2> HIDE DEF new
  <2>5. \A d \in Docs \cap Fresh : rows'[d] = rows[d] \/ rows'[d].status = "processing"
    BY <2>1, <2>3, <2>4
  <2>6. \A d \in Work(S) : rows'[d].status = "processing"
    BY <2>1, <2>2, <2>4
  <2>7. CASE EndRun(r)
    BY <2>5, <2>7, <1>k DEF EndRun
  <2>8. CASE held' = [held EXCEPT ![r] = Work(S)]
    BY <2>5, <2>6, <2>8
  <2> QED BY <2>1, <2>7, <2>8
<1>9. ASSUME NEW r \in Runs, IndexNext(r) PROVE \A o \in Runs : FreshHeld(o)'
  BY <1>9, RowShapes DEF IndexNext
<1>10. ASSUME NEW r \in Runs, FailNext(r) PROVE \A o \in Runs : FreshHeld(o)'
  <2> DEFINE e == Min(held[r])
             new == RowOf("failed", rows[e].digest, "none")
  <2>1. rows' = [rows EXCEPT ![e] = new] /\ held' = [held EXCEPT ![r] = @ \ {e}]
    BY <1>10 DEF FailNext
  <2>2. new.status = "failed"
    BY DEF RowOf
  <2> HIDE DEF e, new
  <2> QED BY <2>1, <2>2
<1>11. ASSUME NEW r \in Runs, NextBatch(r) PROVE \A o \in Runs : FreshHeld(o)'
  <2>1. CASE batches[r] + 1 < MaxBatches
    BY <1>11, <2>1 DEF NextBatch
  <2>2. CASE ~(batches[r] + 1 < MaxBatches)
    BY <1>e, <1>11, <2>2 DEF NextBatch
  <2> QED BY <2>1, <2>2
<1> QED
  BY <1>1, <1>2, <1>3, <1>5, <1>7, <1>8, <1>9, <1>10, <1>11 DEF Next, RunStep

LEMMA FreshStep == ASSUME IndexInv, Next PROVE FreshRows'
<1>1. \A d \in docs' \cap Fresh : UpToDate(d)'
  <2>1. \A d \in docs : UpToDate(d) => UpToDate(d)'
    BY RowsKept
  <2>2. \A d \in docs' \ docs : UpToDate(d)'
    <3>1. CASE \E d \in Docs : PublishDoc(d)
      BY <3>1, RowShapes, NoRowAssumption DEF PublishDoc, UpToDate, IndexInv, IndexTypeOK
    <3>2. CASE docs' = docs
      BY <3>2
    <3> QED
      BY <3>1, <3>2 DEF Next, RunStep, StartRun, Look, Collide, Write, CommitBackfill,
         Claim, IndexNext, FailNext, NextBatch, Crash, Expire
  <2>3. \A d \in docs \cap Fresh : UpToDate(d)
    BY DEF IndexInv, FreshRows
  <2> QED BY <2>1, <2>2, <2>3
<1>2. \A r \in Runs : FreshUntouched(r)'
  BY FreshUntouchedStep
<1>3. \A r \in Runs : FreshHeld(r)'
  BY FreshHeldStep
<1> QED BY <1>1, <1>2, <1>3 DEF FreshRows, FreshUntouched, FreshHeld, Fresh

LEMMA InvStep == IndexInv /\ [Next]_vars => IndexInv'
<1> SUFFICES ASSUME IndexInv, [Next]_vars PROVE IndexInv'
  OBVIOUS
<1>1. CASE Next
  BY <1>1, TypeStep, RowsKept, RepairedStep, FreshStep DEF IndexInv
<1>2. CASE UNCHANGED vars
  BY <1>2 DEF vars, run, IndexInv, IndexTypeOK, ServedVectorOfItsDigest, Repaired, FreshRows,
     UpToDate, NextDoc
<1> QED BY <1>1, <1>2

THEOREM Inductive == Spec => []IndexInv
BY InitInv, InvStep, PTL DEF Spec

-----------------------------------------------------------------------------
\* Every reachable state of the semantic index is well typed: rows, claims and the
\* backfills' open transactions only ever name documents that exist.
THEOREM IndexTypeCorrect == Spec => []IndexTypeOK
<1>1. IndexInv => IndexTypeOK
  BY DEF IndexInv
<1> QED BY <1>1, Inductive, PTL

\* No interleaving of backfills, late results, failures and crashes serves a vector that
\* was made from another text than the one whose digest the row carries.
THEOREM ServedVectors == Spec => []ServedVectorOfItsDigest
<1>1. IndexInv => ServedVectorOfItsDigest
  BY DEF IndexInv
<1> QED BY <1>1, Inductive, PTL

\* A run that claims finds every document repaired, by itself or another run.
THEOREM Backfilled == Spec => []BackfilledIsCurrent
<1>1. IndexInv => BackfilledIsCurrent
  BY DEF IndexInv, Repaired, BackfilledIsCurrent, UpToDate
<1> QED BY <1>1, Inductive, PTL

\* A document published since the start is taken from the run that works on it only
\* when its claim has expired.
THEOREM FreshExclusive == Spec => FreshClaimsExclusive
<1> DEFINE A == \A r \in Runs, d \in Docs \ OldDocs : TakesOver(r, d) => rows[d].expired
<1>1. ASSUME IndexInv, Next PROVE A
  <2> SUFFICES ASSUME NEW r \in Runs, NEW d \in Docs \ OldDocs, TakesOver(r, d)
               PROVE  rows[d].expired
    OBVIOUS
  <2> USE <1>1 DEF IndexInv, IndexTypeOK
  <2>1. rows[d].status \notin {"pending", "stale"}
    BY DEF TakesOver, FreshRows, Fresh
  <2>2. ASSUME NEW o \in Runs, Claim(o) PROVE d \in Claimable(o)
    <3>1. PICK S \in SUBSET Claimable(o) :
             EndRun(o) \/ held' = [held EXCEPT ![o] = {x \in S : rows[x].digest = "current"}]
      BY <2>2, Zenon DEF Claim
    <3> QED BY <3>1 DEF TakesOver, EndRun
  <2>3. CASE \E o \in Runs : Claim(o)
    BY <2>1, <2>2, <2>3 DEF Claimable
  <2>4. CASE held'[r] \subseteq held[r]
    BY <2>4 DEF TakesOver
  <2> QED
    BY <2>3, <2>4 DEF Next, RunStep, PublishDoc, StartRun, Look, Collide, Write,
       CommitBackfill, IndexNext, FailNext, NextBatch, Crash, Expire, EndRun, run
<1>2. IndexInv /\ [Next]_vars => [A]_vars
  BY <1>1
<1>3. Spec => [][A]_vars
  BY <1>2, Inductive, PTL DEF Spec
<1> QED BY <1>3 DEF FreshClaimsExclusive

=============================================================================

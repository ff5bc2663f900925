---------------------------- MODULE EmbeddingIndex ----------------------------
(***************************************************************************)
(* The semantic index: one embedding row per search document, filled by    *)
(* indexing runs that a publication, a cron job or an operator starts and  *)
(* that may overlap (SemanticEmbeddingIndexer.run_batch and the repository *)
(* methods it calls).                                                      *)
(*                                                                         *)
(* A batch first backfills in one transaction: it goes through the search  *)
(* documents in key order, reads each one's row and inserts it when it is  *)
(* missing or marks it stale when it was made from another source text.    *)
(* What it has written is locked, and unseen by others, until it commits.  *)
(* Then it claims rows in a second transaction (SKIP LOCKED), calls the    *)
(* provider with no transaction open, and writes each result by key alone. *)
(* A claim older than the reclaim interval is expired: another run may     *)
(* take the row, whether or not its first holder is still alive.           *)
(***************************************************************************)
EXTENDS Naturals, FiniteSets, FiniteSetsExt

CONSTANTS
    Docs,          \* search documents, by primary key
    EmptyDocs,     \* those with neither description nor tags
    OldDocs,       \* those that exist, with an old row or none, when the service starts
    Runs,          \* the indexing runs that may be active at a time
    BatchSize,     \* rows claimed at a time
    MaxBatches,    \* batches of a run
    MaxCrashes,    \* bound on crashes of runs
    NoRow          \* the absent row

ASSUME IndexAssumption ==
    /\ Docs \subseteq Nat /\ IsFiniteSet(Docs)
    /\ EmptyDocs \subseteq Docs /\ OldDocs \subseteq Docs
    /\ BatchSize \in Nat \ {0} /\ MaxBatches \in Nat \ {0} /\ MaxCrashes \in Nat

Statuses == {"pending", "processing", "indexed", "failed", "stale"}

\* A digest and a vector are those of the document's source text or of an older one.
Sources == {"current", "old"}

Row == [status : Statuses, digest : Sources, vector : Sources \cup {"none"}, expired : BOOLEAN]

ASSUME NoRowAssumption == NoRow \notin Row

VARIABLES
    docs,       \* table skill_search_documents: the keys present
    rows,       \* table skill_search_embeddings for the configured index key
    pc,         \* what each run does next
    todo,       \* the documents its backfill has still to visit
    look,       \* the row its backfill read last
    writes,     \* the rows its backfill has written and not committed
    held,       \* the work items of its batch that are not finished
    batches,    \* the batches it has finished
    crashes     \* crashes so far

run == <<pc, todo, look, writes, held, batches>>
vars == <<docs, rows, run, crashes>>

RowOf(status, digest, vector) ==
    [status |-> status, digest |-> digest, vector |-> vector, expired |-> FALSE]

Pending == RowOf("pending", "current", "none")
Stale   == RowOf("stale", "current", "none")
Indexed == RowOf("indexed", "current", "current")

Phases == {"idle", "look", "write", "claim", "work"}

IndexTypeOK ==
    /\ docs \in SUBSET Docs
    /\ rows \in [Docs -> Row \cup {NoRow}]
    /\ pc \in [Runs -> Phases]
    /\ todo \in [Runs -> SUBSET docs]
    /\ look \in [Runs -> Row \cup {NoRow}]
    /\ writes \in [Runs -> SUBSET docs]
    /\ held \in [Runs -> SUBSET docs]
    /\ batches \in [Runs -> 0 .. MaxBatches - 1]
    /\ crashes \in 0 .. MaxCrashes

Init ==
    /\ docs = OldDocs
    /\ \E missing \in SUBSET OldDocs :
        rows = [d \in Docs |-> IF d \in OldDocs \ missing
                               THEN RowOf("indexed", "old", "old") ELSE NoRow]
    /\ pc = [r \in Runs |-> "idle"]
    /\ todo = [r \in Runs |-> {}]
    /\ look = [r \in Runs |-> NoRow]
    /\ writes = [r \in Runs |-> {}]
    /\ held = [r \in Runs |-> {}]
    /\ batches = [r \in Runs |-> 0]
    /\ crashes = 0

\* The row of d is locked by the transaction of another run.
Locked(r, d) == \E o \in Runs \ {r} : d \in writes[o]

\* Mutant of NextDoc: without ORDER BY two backfills visit the documents in two orders.
NextDocUnordered(r) ==
    IF r = CHOOSE o \in Runs : TRUE THEN Max(todo[r]) ELSE Min(todo[r])

\* The document the backfill of r visits next.
NextDoc(r) == Min(todo[r])

\* Mutant of UpToDate: an existing row is never compared with its document.
UpToDateIfPresent(d) == rows[d] # NoRow

\* The row of d exists and was made from the document's present source text.
UpToDate(d) == rows[d] # NoRow /\ rows[d].digest = "current"

-----------------------------------------------------------------------------
\* A publication commits the search document together with a pending row.
PublishDoc(d) ==
    /\ d \notin docs
    /\ docs' = docs \cup {d}
    /\ rows' = [rows EXCEPT ![d] = Pending]
    /\ UNCHANGED <<run, crashes>>

StartRun(r) ==
    /\ pc[r] = "idle"
    /\ pc' = [pc EXCEPT ![r] = "look"]
    /\ todo' = [todo EXCEPT ![r] = docs]
    /\ UNCHANGED <<docs, rows, look, writes, held, batches, crashes>>

\* The backfill reads the row of its next document.
Look(r) ==
    /\ pc[r] = "look" /\ todo[r] # {}
    /\ LET d == NextDoc(r)
       IN  IF UpToDate(d)
           THEN /\ todo' = [todo EXCEPT ![r] = @ \ {d}]
                /\ UNCHANGED <<pc, look>>
           ELSE /\ pc' = [pc EXCEPT ![r] = "write"]
                /\ look' = [look EXCEPT ![r] = rows[d]]
                /\ UNCHANGED todo
    /\ UNCHANGED <<docs, rows, writes, held, batches, crashes>>

EndRun(r) ==
    /\ pc' = [pc EXCEPT ![r] = "idle"]
    /\ todo' = [todo EXCEPT ![r] = {}]
    /\ look' = [look EXCEPT ![r] = NoRow]
    /\ writes' = [writes EXCEPT ![r] = {}]
    /\ held' = [held EXCEPT ![r] = {}]
    /\ batches' = [batches EXCEPT ![r] = 0]

\* A row that was missing when it was read was inserted by another run since: the
\* primary key refuses the second one and the whole run fails.
Collide(r) ==
    /\ pc[r] = "write"
    /\ LET d == NextDoc(r)
       IN  ~Locked(r, d) /\ look[r] = NoRow /\ rows[d] # NoRow
    /\ EndRun(r)
    /\ UNCHANGED <<docs, rows, crashes>>

Write(r) ==
    /\ pc[r] = "write"
    /\ LET d == NextDoc(r)
       IN  /\ ~Locked(r, d)
           /\ look[r] = NoRow => rows[d] = NoRow
           /\ writes' = [writes EXCEPT ![r] = @ \cup {d}]
           /\ todo' = [todo EXCEPT ![r] = @ \ {d}]
    /\ pc' = [pc EXCEPT ![r] = "look"]
    /\ look' = [look EXCEPT ![r] = NoRow]
    /\ UNCHANGED <<docs, rows, held, batches, crashes>>

\* Mutant of CommitBackfill: a new digest is stored and the old vector stays in service.
CommitBackfillKeepingVector(r) ==
    /\ pc[r] = "look" /\ todo[r] = {}
    /\ rows' = [d \in Docs |-> IF d \notin writes[r] THEN rows[d]
                               ELSE IF rows[d] = NoRow THEN Pending
                               ELSE [rows[d] EXCEPT !.digest = "current"]]
    /\ writes' = [writes EXCEPT ![r] = {}]
    /\ pc' = [pc EXCEPT ![r] = "claim"]
    /\ UNCHANGED <<docs, todo, look, held, batches, crashes>>

CommitBackfill(r) ==
    /\ pc[r] = "look" /\ todo[r] = {}
    /\ rows' = [d \in Docs |-> IF d \notin writes[r] THEN rows[d]
                               ELSE IF rows[d] = NoRow THEN Pending ELSE Stale]
    /\ writes' = [writes EXCEPT ![r] = {}]
    /\ pc' = [pc EXCEPT ![r] = "claim"]
    /\ UNCHANGED <<docs, todo, look, held, batches, crashes>>

\* Mutants of Claimable: a processing row can be claimed at once, or never again.
ClaimableAtOnce(r) ==
    {d \in docs : /\ rows[d] # NoRow /\ ~Locked(r, d)
                  /\ rows[d].status \in {"pending", "stale", "processing"}}

ClaimableOnce(r) ==
    {d \in docs : /\ rows[d] # NoRow /\ ~Locked(r, d)
                  /\ rows[d].status \in {"pending", "stale"}}

\* The rows a claim selects from: it skips the locked ones, and takes the oldest first,
\* an order the model leaves open.
Claimable(r) ==
    {d \in docs : /\ rows[d] # NoRow /\ ~Locked(r, d)
                  /\ \/ rows[d].status \in {"pending", "stale"}
                     \/ rows[d].status = "processing" /\ rows[d].expired}

\* Rows whose digest is not the document's are marked stale again instead of worked on.
Claim(r) ==
    /\ pc[r] = "claim"
    /\ \E S \in SUBSET Claimable(r) :
        LET work == {d \in S : rows[d].digest = "current"}
        IN  /\ Cardinality(S) = Min({BatchSize, Cardinality(Claimable(r))})
            /\ rows' = [d \in Docs |->
                          IF d \in work
                          THEN [rows[d] EXCEPT !.status = "processing", !.expired = FALSE]
                          ELSE IF d \in S THEN Stale ELSE rows[d]]
            /\ IF work = {}
               THEN EndRun(r)
               ELSE /\ pc' = [pc EXCEPT ![r] = "work"]
                    /\ held' = [held EXCEPT ![r] = work]
                    /\ UNCHANGED <<todo, look, writes, batches>>
    /\ UNCHANGED <<docs, crashes>>

\* The provider answered with a valid vector; it is stored by key, whoever holds the row now.
IndexNext(r) ==
    /\ pc[r] = "work" /\ held[r] # {}
    /\ LET d == Min(held[r])
       IN  /\ d \notin EmptyDocs /\ ~Locked(r, d)
           /\ rows' = [rows EXCEPT ![d] = Indexed]
           /\ held' = [held EXCEPT ![r] = @ \ {d}]
    /\ UNCHANGED <<docs, pc, todo, look, writes, batches, crashes>>

\* The source is empty, or the provider, the validation or the write of the vector failed.
FailNext(r) ==
    /\ pc[r] = "work" /\ held[r] # {}
    /\ LET d == Min(held[r])
       IN  /\ ~Locked(r, d)
           /\ rows' = [rows EXCEPT ![d] = RowOf("failed", rows[d].digest, "none")]
           /\ held' = [held EXCEPT ![r] = @ \ {d}]
    /\ UNCHANGED <<docs, pc, todo, look, writes, batches, crashes>>

\* Mutant of NextBatch: one batch too many.
NextBatchOnceMore(r) ==
    /\ pc[r] = "work" /\ held[r] = {}
    /\ IF batches[r] < MaxBatches
       THEN /\ pc' = [pc EXCEPT ![r] = "look"]
            /\ todo' = [todo EXCEPT ![r] = docs]
            /\ batches' = [batches EXCEPT ![r] = @ + 1]
            /\ UNCHANGED <<look, writes, held>>
       ELSE EndRun(r)
    /\ UNCHANGED <<docs, rows, crashes>>

NextBatch(r) ==
    /\ pc[r] = "work" /\ held[r] = {}
    /\ IF batches[r] + 1 < MaxBatches
       THEN /\ pc' = [pc EXCEPT ![r] = "look"]
            /\ todo' = [todo EXCEPT ![r] = docs]
            /\ batches' = [batches EXCEPT ![r] = @ + 1]
            /\ UNCHANGED <<look, writes, held>>
       ELSE EndRun(r)
    /\ UNCHANGED <<docs, rows, crashes>>

\* The process dies or loses the database; an open transaction is rolled back.
Crash(r) ==
    /\ pc[r] # "idle" /\ crashes < MaxCrashes
    /\ crashes' = crashes + 1
    /\ EndRun(r)
    /\ UNCHANGED <<docs, rows>>

\* Time passes: the claim on d is now older than the reclaim interval.
Expire(d) ==
    /\ rows[d] # NoRow /\ rows[d].status = "processing" /\ ~rows[d].expired
    /\ rows' = [rows EXCEPT ![d] = [rows[d] EXCEPT !.expired = TRUE]]
    /\ UNCHANGED <<docs, run, crashes>>

RunStep(r) ==
    \/ Look(r) \/ Collide(r) \/ Write(r) \/ CommitBackfill(r)
    \/ Claim(r) \/ IndexNext(r) \/ FailNext(r) \/ NextBatch(r)

Next ==
    \/ \E d \in Docs : PublishDoc(d) \/ Expire(d)
    \/ \E r \in Runs : StartRun(r) \/ RunStep(r) \/ Crash(r)

Spec == Init /\ [][Next]_vars

\* A live run goes on, time passes, and runs are started again and again (by the cron
\* job); a publication or a crash need never happen.
Fairness ==
    /\ \A r \in Runs : WF_vars(RunStep(r)) /\ WF_vars(StartRun(r))
    /\ \A d \in Docs : WF_vars(Expire(d))

FairSpec == Spec /\ Fairness

-----------------------------------------------------------------------------
\* A vector the semantic query may serve (it reads indexed rows only) is there, and was
\* made from the source text whose digest the row carries, whatever backfills, claims
\* and late results of other runs have passed over the row.
ServedVectorOfItsDigest ==
    \A d \in Docs : rows[d] # NoRow /\ rows[d].status = "indexed"
                      => rows[d].vector = rows[d].digest

\* What the backfill of a run has passed is repaired, and stays so while other runs
\* write: when the run claims, every document has a row of its present text, so the
\* branch of the claim that finds another digest is never taken.
BackfilledIsCurrent ==
    \A r \in Runs : pc[r] \in {"claim", "work"} =>
        \A d \in docs : rows[d] # NoRow /\ rows[d].digest = "current"

\* Run r claims d while another run that claimed it before has not finished with it.
TakesOver(r, d) == d \in held'[r] \ held[r] /\ \E o \in Runs \ {r} : d \in held[o]

\* A row is taken from the run that works on it only when its claim has expired.
ClaimsExclusive == [][\A r \in Runs, d \in Docs : TakesOver(r, d) => rows[d].expired]_vars

\* That is so of every document published since the service started: no backfill has
\* ever read an older row of it.
FreshClaimsExclusive ==
    [][\A r \in Runs, d \in Docs \ OldDocs : TakesOver(r, d) => rows[d].expired]_vars

\* Two backfills that wait for each other's locks, or a run that waits for a lock held for
\* good, would never end: every run ends.
RunsEnd == \A r \in Runs : pc[r] # "idle" ~> pc[r] = "idle"

Settled(d) == rows[d] # NoRow /\ rows[d].status \in {"indexed", "failed"}

\* Every document that is published is at last indexed, or its failure recorded, for good,
\* although runs crash while they hold it and fail on rows that another inserted first.
DocumentsSettle == \A d \in Docs : d \in docs ~> []Settled(d)

=============================================================================

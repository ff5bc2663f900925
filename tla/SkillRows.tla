------------------------------- MODULE SkillRows -------------------------------
(***************************************************************************)
(* The rows of table skills and the locks that transactions take on them.  *)
(*                                                                         *)
(* A batch of star events locks its skills FOR UPDATE; an UPDATE of a      *)
(* column no key refers to (the install count, the namespace) locks a row  *)
(* FOR NO KEY UPDATE; and an INSERT into a table that refers to skills     *)
(* locks the row it refers to FOR KEY SHARE, which is how an import of     *)
(* co-usage evidence and a publication meet a batch of stars.  A           *)
(* transaction holds its locks to its end, and PostgreSQL aborts one of    *)
(* those that wait for each other in a circle.                             *)
(***************************************************************************)
EXTENDS Access, FiniteSets

CONSTANTS
    Skills,      \* the skills, each named by its primary key
    Versions     \* version strings

ASSUME SkillsAssumption == Skills \subseteq Nat

VARIABLES
    namespaces,  \* table namespaces: the organization of each row, or None
    home,        \* table skills: the namespace of each row, or None
    versions,    \* table skill_versions: [tier, channel] of each row, or None
    trail,       \* table audit_events: what is said of which call
    plan,        \* the locks a transaction has still to take, in order
    held         \* the locks it has

tables == <<namespaces, home, versions, trail>>
rowVars == <<tables, plan, held>>

Modes == {"update", "no_key_update", "key_share"}

Lock == [skill : Skills, mode : Modes]

Coords == Skills \X Versions

VersionRow == [tier : Tiers, channel : Channels]

\* An event says that a call was allowed to do what it asks, or was denied it.
Fact == [by : Calls, outcome : {"allowed", "denied"}]

\* The elements of a set of numbers, in ascending order.
Ascending(S) ==
    CHOOSE rows \in [1..Cardinality(S) -> S] :
        \A i, j \in DOMAIN rows : i < j => rows[i] < rows[j]

Stored == {s \in Skills : home[s] # None}

\* Mutant: a star batch reads its skills without FOR UPDATE.
NothingConflicts(held_mode, wanted) == FALSE

Conflicts(held_mode, wanted) ==
    \/ "update" \in {held_mode, wanted}
    \/ held_mode = "no_key_update" /\ wanted = "no_key_update"

\* d holds what c needs next.
WaitsFor(c, d) ==
    /\ c # d
    /\ plan[c] # <<>>
    /\ \E lock \in held[d] : lock.skill = Head(plan[c]).skill
                          /\ Conflicts(lock.mode, Head(plan[c]).mode)

TakeLock(c) ==
    /\ plan[c] # <<>>
    /\ \A d \in Calls : ~WaitsFor(c, d)
    /\ held' = [held EXCEPT ![c] = @ \cup {Head(plan[c])}]
    /\ plan' = [plan EXCEPT ![c] = Tail(@)]
    /\ UNCHANGED <<tables, accessVars>>

Record(c, outcome) == trail' = trail \cup {[by |-> c, outcome |-> outcome]}

\* The statement that starts here has to lock these rows, in this order.
WillLock(c, locks) ==
    /\ plan' = [plan EXCEPT ![c] = locks]
    /\ UNCHANGED <<tables, held>>

\* The transaction ends and lets go of its rows.
EndTransaction(c) ==
    /\ plan' = [plan EXCEPT ![c] = <<>>]
    /\ held' = [held EXCEPT ![c] = {}]

\* The calls that c waits for, directly or through others.
Blockers(c) ==
    {d \in Calls : \A S \in SUBSET Calls :
        (\A x \in S \cup {c} : \A y \in Calls : WaitsFor(x, y) => y \in S) => d \in S}

Deadlocked(c) == c \in Blockers(c)

\* PostgreSQL breaks a deadlock by an error in one of its transactions, which no
\* handler retries: "failed" is a server error (500).
KillVictim(c) ==
    /\ Deadlocked(c)
    /\ Answer(c, "failed")
    /\ EndTransaction(c)
    /\ UNCHANGED tables

\* The writers that read their row once more after the commit (the reload of a
\* publication; the refresh of an organization, a namespace or an evidence row) answer
\* only then. The others answer in the step that commits.
Confirm(c) ==
    /\ pc[c] = "answer"
    /\ Answer(c, "created")
    /\ UNCHANGED rowVars

\* The connection or the process fails: nothing of the open transaction remains, but
\* what the call has committed stays, be it the change it can no longer confirm or the
\* denial it can no longer answer.
Break(c) ==
    /\ c \in InService
    /\ Answer(c, "failed")
    /\ EndTransaction(c)
    /\ UNCHANGED tables

\* The tables may have rows before the calls; foreign keys hold between them.
RowsInit ==
    /\ home \in [Skills -> Namespaces \cup {None}]
    /\ \A s \in Stored : namespaces[home[s]] # None
    /\ versions \in [Coords -> VersionRow \cup {None}]
    /\ \A x \in Coords : versions[x] # None => x[1] \in Stored
    /\ trail = {}
    /\ plan = [c \in Calls |-> <<>>]
    /\ held = [c \in Calls |-> {}]

=============================================================================

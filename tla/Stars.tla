--------------------------------- MODULE Stars ---------------------------------
(***************************************************************************)
(* Telemetry and the imports that meet it on the rows of skills: batches   *)
(* of star events, the list of a user's stars, the count of installs, and  *)
(* the locks of a co-usage import (its pairs and edges are module          *)
(* CoUsage).                                                               *)
(***************************************************************************)
EXTENDS SkillRows, SequencesExt

CONSTANTS
    Users,       \* user subjects
    MaxBatch     \* MAX_STAR_EVENT_BATCH_SIZE

VARIABLES
    stars,       \* table skill_user_stars: pairs of a user and a skill
    installs,    \* column skills.install_count
    observed,    \* the skills that some imported run names
    work,        \* the stars as the batch's own transaction has made them
    counts       \* the counts a batch has gathered for its answer, one per event

starVars == <<stars, installs, observed, work, counts>>

Event == [skill : Skills, action : {"star", "unstar"}]

ASSUME StarsAssumption ==
    /\ MaxBatch \in Nat
    /\ \A r \in Requests :
        /\ r.kind \in {"stars", "userStars"} => r.user \in Users
        /\ r.kind = "stars" => r.events \in Seq(Event)
        /\ r.kind = "import" => r.slugs \in Seq(Skills)

SkillsOf(events) == {events[i].skill : i \in DOMAIN events}

\* Mutant: the rows are locked in the order of the events.
LocksInEventOrder(events) ==
    [i \in DOMAIN events |-> [skill |-> events[i].skill, mode |-> "update"]]

\* SELECT ... WHERE slug IN (...) ORDER BY id FOR UPDATE
LocksById(events) ==
    LET rows == Ascending(SkillsOf(events) \cap Stored)
    IN  [i \in DOMAIN rows |-> [skill |-> rows[i], mode |-> "update"]]

StarsOf(table, s) == {star \in table : star[2] = s}

-----------------------------------------------------------------------------
(* A batch of star events *)

StarsRefused(c) ==
    /\ At(c, "stars", "handle")
    /\ Len(req[c].events) \notin 1..MaxBatch
    /\ Answer(c, "INVALID_REQUEST")
    /\ UNCHANGED <<starVars, rowVars>>

\* The rows to lock are those there when the SELECT starts.
StarsSelect(c) ==
    /\ At(c, "stars", "handle")
    /\ Len(req[c].events) \in 1..MaxBatch
    /\ WillLock(c, LocksById(req[c].events))
    /\ Goto(c, "locking")
    /\ UNCHANGED starVars

HasSkills(c) == {lock.skill : lock \in held[c]}

\* Mutant: the unknown skill is noticed and the session is left open.
StarsUnknownLeavingSession(c) ==
    /\ At(c, "stars", "locking")
    /\ plan[c] = <<>>
    /\ ~ SkillsOf(req[c].events) \subseteq HasSkills(c)
    /\ Answer(c, "STAR_EVENT_UNKNOWN_SKILL")
    /\ UNCHANGED <<starVars, rowVars>>

StarsUnknown(c) ==
    /\ At(c, "stars", "locking")
    /\ plan[c] = <<>>
    /\ ~ SkillsOf(req[c].events) \subseteq HasSkills(c)
    /\ Answer(c, "STAR_EVENT_UNKNOWN_SKILL")
    /\ EndTransaction(c)
    /\ UNCHANGED <<starVars, tables>>

StarsLocked(c) ==
    /\ At(c, "stars", "locking")
    /\ plan[c] = <<>>
    /\ SkillsOf(req[c].events) \subseteq HasSkills(c)
    /\ work' = [work EXCEPT ![c] = [added |-> {}, removed |-> {}]]
    /\ counts' = [counts EXCEPT ![c] = <<>>]
    /\ Goto(c, "events")
    /\ UNCHANGED <<stars, installs, observed, rowVars>>

\* The table as the batch sees it: what is committed, and its own changes.
Seen(c) == (stars \cup work[c].added) \ work[c].removed

\* The batch's changes after the next event. A star that is there is not inserted
\* again, one that is not there is not deleted.
WithEvent(c, event) ==
    LET star == <<req[c].user, event.skill>>
    IN  CASE event.action = "star" /\ star \notin Seen(c) ->
               [added |-> work[c].added \cup {star}, removed |-> work[c].removed \ {star}]
          [] event.action = "unstar" /\ star \in Seen(c) ->
               [added |-> work[c].added \ {star}, removed |-> work[c].removed \cup {star}]
          [] OTHER -> work[c]

\* One event: is the star there, insert or delete it, count the skill's stars.
StarsEvent(c) ==
    LET event == req[c].events[Len(counts[c]) + 1]
        mine  == WithEvent(c, event)
        seen  == (stars \cup mine.added) \ mine.removed
    IN  /\ At(c, "stars", "events")
        /\ Len(counts[c]) < Len(req[c].events)
        /\ work' = [work EXCEPT ![c] = mine]
        /\ counts' = [counts EXCEPT ![c] = Append(@, Cardinality(StarsOf(seen, event.skill)))]
        /\ UNCHANGED <<stars, installs, observed, rowVars, accessVars>>

StarsCommit(c) ==
    /\ At(c, "stars", "events")
    /\ Len(counts[c]) = Len(req[c].events)
    /\ stars' = Seen(c)
    /\ EndTransaction(c)
    /\ Answer(c, "starred")
    /\ UNCHANGED <<tables, installs, observed, work, counts>>

RecordStars(c) ==
    \/ StarsRefused(c) \/ StarsSelect(c) \/ StarsUnknown(c) \/ StarsLocked(c)
    \/ StarsEvent(c) \/ StarsCommit(c)

-----------------------------------------------------------------------------
(* The user's stars, and installs *)

\* The skills, in the order of their slugs, are the answer.
ListUserStars(c) ==
    /\ At(c, "userStars", "handle")
    /\ counts' = [counts EXCEPT ![c] = Ascending({s \in Skills : <<req[c].user, s>> \in stars})]
    /\ Answer(c, "listed")
    /\ UNCHANGED <<stars, installs, observed, work, rowVars>>

\* One UPDATE of the skill's row, which waits for the row; a skill that is not
\* there is not counted.
InstallUpdate(c) ==
    /\ At(c, "install", "handle")
    /\ WillLock(c, IF req[c].skill \in Stored
                   THEN <<[skill |-> req[c].skill, mode |-> "no_key_update"]>> ELSE <<>>)
    /\ Goto(c, "locking")
    /\ UNCHANGED starVars

InstallCommit(c) ==
    /\ At(c, "install", "locking")
    /\ plan[c] = <<>>
    /\ installs' = [s \in Skills |->
                      installs[s] + Cardinality({lock \in held[c] : lock.skill = s})]
    /\ EndTransaction(c)
    /\ Answer(c, "counted")
    /\ UNCHANGED <<tables, stars, observed, work, counts>>

RecordInstall(c) == InstallUpdate(c) \/ InstallCommit(c)

-----------------------------------------------------------------------------
(* An import of co-usage evidence, as far as its locks go *)

ShareLocks(rows) == [i \in DOMAIN rows |-> [skill |-> rows[i], mode |-> "key_share"]]

ImportRefused(c) ==
    LET slugs == req[c].slugs
    IN  /\ At(c, "import", "handle")
        /\ \/ /\ slugs = <<>> \/ ~IsInjective(slugs)
              /\ Answer(c, "INVALID_REQUEST")
           \/ /\ slugs # <<>> /\ IsInjective(slugs)
              /\ ~ ToSet(slugs) \subseteq Stored
              /\ Answer(c, "UNKNOWN_CO_USAGE_SKILL")
        /\ UNCHANGED <<starVars, rowVars>>

\* The observations are inserted in the order of the request.
ImportObserve(c) ==
    LET slugs == req[c].slugs
    IN  /\ At(c, "import", "handle")
        /\ slugs # <<>> /\ IsInjective(slugs)
        /\ ToSet(slugs) \subseteq Stored
        /\ WillLock(c, ShareLocks(slugs))
        /\ Goto(c, "observing")
        /\ UNCHANGED starVars

\* Then the pairs and the edges between all skills observed so far, in an order
\* that is the database's.
ImportRebuild(c) ==
    /\ At(c, "import", "observing")
    /\ plan[c] = <<>>
    /\ \E rows \in SetToSeqs(observed \cup HasSkills(c)) : WillLock(c, ShareLocks(rows))
    /\ Goto(c, "locking")
    /\ UNCHANGED starVars

ImportCommit(c) ==
    /\ At(c, "import", "locking")
    /\ plan[c] = <<>>
    /\ observed' = observed \cup HasSkills(c)
    /\ EndTransaction(c)
    /\ Answer(c, "imported")
    /\ UNCHANGED <<tables, stars, installs, work, counts>>

ImportRun(c) == ImportRefused(c) \/ ImportObserve(c) \/ ImportRebuild(c) \/ ImportCommit(c)

StarsInit ==
    /\ stars \subseteq Users \X Stored /\ IsFiniteSet(stars)
    /\ observed \subseteq Stored /\ IsFiniteSet(observed)
    /\ installs = [s \in Skills |-> 0]
    /\ work = [c \in Calls |-> [added |-> {}, removed |-> {}]]
    /\ counts = [c \in Calls |-> <<>>]

StarsStep(c) == RecordStars(c) \/ ListUserStars(c) \/ RecordInstall(c) \/ ImportRun(c)

=============================================================================

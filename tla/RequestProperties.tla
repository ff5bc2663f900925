--------------------------- MODULE RequestProperties ---------------------------
(***************************************************************************)
(* What callers of the HTTP interface may rely on.                         *)
(***************************************************************************)
EXTENDS Requests

Pair == Users \X Skills

Result == {"none", "failed", "INVALID_REQUEST",
           "AUTHENTICATION_REQUIRED", "MALFORMED_AUTH_TOKEN", "INVALID_AUTH_TOKEN",
           "INACTIVE_AUTH_TOKEN", "EXPIRED_AUTH_TOKEN", "INSUFFICIENT_SCOPE",
           "starred", "STAR_EVENT_UNKNOWN_SKILL", "listed", "counted",
           "imported", "UNKNOWN_CO_USAGE_SKILL",
           "metadata", "size", "filename", "media_type", "file_count", "member",
           "path_length", "archive",
           "created", "SKILL_ALREADY_EXISTS", "SKILL_NOT_FOUND", "DUPLICATE_SKILL_VERSION",
           "upserted", "moved", "SKILL_VERSION_NOT_FOUND",
           "POLICY_NAMESPACE_INVALID", "POLICY_PUBLISH_FORBIDDEN",
           "POLICY_NAMESPACE_FORBIDDEN", "POLICY_PROVENANCE_REQUIRED"}

\* The variables are of their types. A call that is not in service holds no lock and
\* waits for none.
TypeOK ==
    /\ settings \in SettingsSet
    /\ service \in {"starting", "up", "refused"}
    /\ now \in 0..MaxNow
    /\ pc \in [Calls -> {"idle", "arrived", "handle", "locking", "events", "observing",
                         "commit", "judge", "answer", "deny", "done"}]
    /\ req \in [Calls -> Requests \cup {None}]
    /\ caller \in [Calls -> Caller \cup {None}]
    /\ result \in [Calls -> Result]
    /\ namespaces \in [Namespaces -> Organizations \cup {None}]
    /\ home \in [Skills -> Namespaces \cup {None}]
    /\ versions \in [Coords -> VersionRow \cup {None}]
    /\ trail \subseteq Fact
    /\ \A c \in Calls : plan[c] \in Seq(Lock) /\ held[c] \subseteq Lock
    /\ \A c \in Calls \ InService : plan[c] = <<>> /\ held[c] = {}
    /\ stars \subseteq Pair
    /\ installs \in [Skills -> Nat]
    /\ observed \subseteq Stored
    /\ \A c \in Calls : work[c].added \subseteq Pair /\ work[c].removed \subseteq Pair
    /\ \A c \in Calls : counts[c] \in Seq(Nat)
    /\ organizations \subseteq Organizations
    /\ packs \in [PackSlugs -> PackRow \cup {None}]
    /\ evidence \subseteq [by : Calls, of : Coords]

-----------------------------------------------------------------------------
(* Telemetry *)

Answers(c, answer) == result[c] # answer /\ result'[c] = answer

\* The position of the last event of a batch that names the skill.
LastOf(events, s) ==
    CHOOSE i \in DOMAIN events :
        events[i].skill = s /\ \A j \in DOMAIN events : events[j].skill = s => j <= i

BatchHolds(c) ==
    LET events == req[c].events
        mine   == {<<req[c].user, s>> : s \in SkillsOf(events)}
    IN  /\ \A s \in SkillsOf(events) :
            /\ events[LastOf(events, s)].action = "star" <=> <<req[c].user, s>> \in stars'
            /\ counts[c][LastOf(events, s)] = Cardinality({u \in Users : <<u, s>> \in stars'})
        /\ stars' \ mine = stars \ mine

PackHolds(c) ==
    packs'[req[c].slug] = Wanted(c) \/ packs[req[c].slug] # loaded[c]

\* When a batch of star events commits, the last event of each skill has taken
\* effect, the count it answers for that skill is the number of users who star it
\* then, and no other star has changed (apply_user_star_events; the row locks keep
\* other batches out between the look and the commit). When an upsert of a policy
\* pack commits, the pack is what was asked for, unless another upsert of that pack
\* has committed since it was read.
AnswersHoldAtCommit ==
    [][\A c \in Calls : /\ Answers(c, "starred") => BatchHolds(c)
                        /\ Answers(c, "upserted") => PackHolds(c)]_vars

\* Batches lock the skills in the order of their ids, so that neither batches nor
\* installs nor moves of skills ever wait for each other in a circle: in a circle
\* there is a batch, and an import or a publication, whose inserts lock the skills in
\* an order of their own.
OnlyMixedDeadlocks ==
    \A c \in Calls : Deadlocked(c) =>
        /\ \E d \in Blockers(c) : req[d].kind = "stars"
        /\ \E d \in Blockers(c) : req[d].kind \in {"import", "publish"}

\* Every call that has arrived is answered, whatever it waits for: row locks are let
\* go by every way out of a handler, and deadlocks are broken.
EveryCallEnds == \A c \in Calls : c \in InService ~> pc[c] = "done"

-----------------------------------------------------------------------------
(* The enterprise control plane *)

Denials == {"POLICY_NAMESPACE_INVALID", "POLICY_PUBLISH_FORBIDDEN",
            "POLICY_NAMESPACE_FORBIDDEN", "POLICY_PROVENANCE_REQUIRED"}

Says(c, outcome) == [by |-> c, outcome |-> outcome] \in trail

Changes == {"created", "upserted", "moved"}

\* Whoever is told of a change or of a denial left an event that says so, and whoever
\* left one is told the same, unless the call fails between the commit of the event and
\* its answer: nothing is said of a call that was refused before policy, lost a race or
\* failed earlier. A change that has its event is there: the evidence row of each such
\* call and of no other, the organization, the namespace in the organization asked for;
\* and of two calls that found the same one, at most one has an event.
TrailTellsOutcomes ==
    /\ \A c \in Calls :
        /\ result[c] \in Changes => Says(c, "allowed")
        /\ result[c] \in Denials => Says(c, "denied")
        /\ Says(c, "allowed") =>
             /\ ~Says(c, "denied")
             /\ pc[c] = "answer" \/ result[c] \in Changes \cup {"failed"}
        /\ Says(c, "denied") => pc[c] = "deny" \/ result[c] \in Denials \cup {"failed"}
        /\ Says(c, "allowed") /\ req[c].kind = "organization" => req[c].slug \in organizations
        /\ Says(c, "allowed") /\ req[c].kind = "namespace" =>
             namespaces[req[c].slug] = req[c].organization
        /\ (\E e \in evidence : e.by = c) <=> Says(c, "allowed") /\ req[c].kind = "evidence"
    /\ \A c, d \in Calls :
        /\ Says(c, "allowed") /\ Says(d, "allowed")
        /\ req[c].kind = req[d].kind /\ req[c].kind \in {"organization", "namespace"}
        /\ req[c].slug = req[d].slug
        => c = d

-----------------------------------------------------------------------------
(* Who may do what *)

\* The bundle as a reader of the documentation would put it.
SoundMember(member) ==
    /\ member.type \in {"file", "directory"}
    /\ ~member.name.backslash /\ ~member.name.long
    /\ \E i \in DOMAIN member.name.segments : member.name.segments[i] \notin {NoText, ".", ".."}
    /\ \A i \in DOMAIN member.name.segments : member.name.segments[i] # ".."
    /\ member.name.segments[1] \notin {NoText, "c:"}

Sound(bundle) ==
    /\ bundle.size <= MaxSize /\ bundle.named /\ bundle.media # "other" /\ bundle.readable
    /\ Len(bundle.members) <= MaxMembers
    /\ \A i \in DOMAIN bundle.members : SoundMember(bundle.members[i])

\* The caller as the settings have it, without the grants they add.
Configured(c) ==
    LET token == CHOOSE t \in TokensOf(settings) : t.id = req[c].credentials.id
    IN  [id |-> token.id, scopes |-> token.scopes, grants |-> token.grants]

MayPublish(c) ==
    LET m == req[c].metadata
    IN  HasNamespaceGrant(Configured(c), m.namespace, "publish", DefaultChannel(m.origin))

\* A version that was published, whether its caller has heard of it or not, came in a
\* sound bundle, from a caller whose token in the settings reaches its namespace and
\* channel; evidence that was added came from one who may review the version as it was
\* read; and nobody who may is told that the namespace is forbidden, or denied a review.
\* The grants that the settings add to a token without any (to_record) thus decide like
\* the fall-back of the policy for callers without any.
EffectsWereDue ==
    \A c \in Calls :
        /\ req[c] # None /\ req[c].kind = "publish" =>
            /\ Says(c, "allowed") => Sound(req[c].bundle) /\ MayPublish(c)
            /\ result[c] = "POLICY_NAMESPACE_FORBIDDEN" => ~MayPublish(c)
        /\ req[c] # None /\ req[c].kind = "evidence" /\ loaded[c] # None =>
            LET may == HasNamespaceGrant(Configured(c), loaded[c].namespace, "review",
                                         loaded[c].channel)
            IN  /\ Says(c, "allowed") => may
                /\ Says(c, "denied") => ~may

=============================================================================

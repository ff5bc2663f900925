------------------------------ MODULE Submission ------------------------------
(***************************************************************************)
(* A publication from the outside: the multipart request is parsed, its    *)
(* bundle is read and inspected, the active policy profile judges it, and  *)
(* the rows are written.  The steps of the service and the conflicts of    *)
(* two publishers are module Catalog; here its checks are one step and its *)
(* write transaction is seen through the rows of skills that it locks.     *)
(***************************************************************************)
EXTENDS SkillRows, SequencesExt

CONSTANTS
    MaxSize,      \* MAX_SKILL_BUNDLE_SIZE_BYTES
    MaxMembers    \* MAX_SKILL_BUNDLE_FILE_COUNT

-----------------------------------------------------------------------------
(* The metadata part *)

Selector == [skill : Skills, version : BOOLEAN,
             constraint : {"absent", "valid", "invalid"}, markers : BOOLEAN]

\* A selector of a dependency names a version or a constraint.
SelectorAccepted(s) ==
    /\ s.version <=> s.constraint = "absent"
    /\ s.constraint # "invalid"
    /\ s.markers

\* Scores are percentages here.
ScoreAccepted(score) == score \in 0..100

AssessmentAccepted(a) ==
    /\ a.schema = 1
    /\ a.zone = "utc"
    /\ \A score \in a.scores : ScoreAccepted(score)

MetadataAccepted(m) ==
    /\ m.wellFormed
    /\ \A score \in m.scores : ScoreAccepted(score)
    /\ \A a \in m.assessment : AssessmentAccepted(a)
    /\ \A i \in DOMAIN m.dependsOn : SelectorAccepted(m.dependsOn[i])

-----------------------------------------------------------------------------
(* The bundle part *)

\* A member's name is a sequence of segments between slashes; "says" are the limits
\* that its text contains.
Text == STRING
NoText == ""

Name == [segments : Seq(Text), backslash : BOOLEAN, long : BOOLEAN, says : SUBSET {"200", "240"}]

ArchiveMember == [type : Text, name : Name]

Bundle == [size : Nat, named : BOOLEAN, media : {"absent", "zstd", "other"}, readable : BOOLEAN,
           members : Seq(ArchiveMember)]

ASSUME SubmissionAssumption ==
    /\ MaxSize \in Nat /\ MaxMembers \in Nat
    /\ \A r \in Requests : r.kind = "publish" =>
        /\ r.bundle \in Bundle
        /\ r.skill \in Skills /\ r.version \in Versions
        /\ r.metadata.tier \in Tiers /\ r.metadata.namespace \in Namespaces
        /\ r.metadata.dependsOn \in Seq(Selector)

\* A path library leaves out empty segments and single dots.
Kept(name) == {i \in DOMAIN name.segments : name.segments[i] \notin {NoText, "."}}

IsAbsolute(name) == Len(name.segments) > 1 /\ name.segments[1] = NoText

PathAccepted(name) ==
    /\ ~name.backslash
    /\ ~IsAbsolute(name)
    /\ Kept(name) # {}
    /\ \A i \in Kept(name) :
        /\ name.segments[i] # ".."
        /\ (\A j \in Kept(name) : i <= j) => name.segments[i] # "c:"

\* What inspect_skill_bundle finds wrong with the i-th member.
MemberFault(members, i) ==
    CASE i > MaxMembers                              -> "file_count"
      [] members[i].type \notin {"file", "directory"} -> "member"
      [] ~PathAccepted(members[i].name)              -> "member"
      [] members[i].name.long                        -> "path_length"
      [] OTHER                                       -> "none"

\* The first fault in the order of the archive; the stream may break at its end.
BundleFault(bundle) ==
    LET faulty == {i \in DOMAIN bundle.members : MemberFault(bundle.members, i) # "none"}
    IN  IF faulty # {}
        THEN LET first == CHOOSE i \in faulty : \A j \in faulty : i <= j
             IN  [fault |-> MemberFault(bundle.members, first), name |-> bundle.members[first].name]
        ELSE [fault |-> IF bundle.readable THEN "none" ELSE "archive", name |-> None]

\* validate_skill_bundle tells faults apart by the text of the message, which quotes
\* the member's name: a name that contains a limit takes the blame for it.
ReportedFault(bundle) ==
    LET found == BundleFault(bundle)
    IN  CASE found.fault = "member" /\ "200" \in found.name.says -> "file_count"
          [] found.fault = "member" /\ "240" \in found.name.says -> "path_length"
          [] OTHER                                              -> found.fault

Verdict422(r) ==
    CASE ~MetadataAccepted(r.metadata)            -> "metadata"
      [] r.bundle.size > MaxSize                  -> "size"
      [] ~r.bundle.named                          -> "filename"
      [] r.bundle.media \notin {"absent", "zstd"} -> "media_type"
      [] OTHER                                    -> ReportedFault(r.bundle)

-----------------------------------------------------------------------------
(* The policy *)

DefaultChannel(origin) == IF origin = "imported" THEN "dev" ELSE "prod"

\* The first objection of prepare_publish_governance, or "allowed".
PublishVerdict(s, who, m) ==
    LET rule == ActiveRules(s)[m.tier]
    IN  CASE ~m.namespaceValid                 -> "POLICY_NAMESPACE_INVALID"
          [] ~HasScope(who, rule.scope)        -> "POLICY_PUBLISH_FORBIDDEN"
          [] ~HasNamespaceGrant(who, m.namespace, "publish", DefaultChannel(m.origin))
                                               -> "POLICY_NAMESPACE_FORBIDDEN"
          [] rule.provenance /\ ~m.provenance  -> "POLICY_PROVENANCE_REQUIRED"
          [] OTHER                             -> "allowed"

-----------------------------------------------------------------------------
(* Steps *)

SubmissionRefused(c) ==
    /\ At(c, "publish", "handle")
    /\ Verdict422(req[c]) # "none"
    /\ Answer(c, Verdict422(req[c]))
    /\ UNCHANGED rowVars

\* A denial is audited in a transaction of its own, before the exception is raised.
PublishDenied(c) ==
    LET verdict == PublishVerdict(settings, caller[c], req[c].metadata)
    IN  /\ At(c, "publish", "handle")
        /\ Verdict422(req[c]) = "none"
        /\ verdict # "allowed"
        /\ Record(c, "denied")
        /\ Goto(c, "deny")
        /\ UNCHANGED <<namespaces, home, versions, plan, held>>

PublishForbidden(c) ==
    /\ At(c, "publish", "deny")
    /\ Answer(c, PublishVerdict(settings, caller[c], req[c].metadata))
    /\ UNCHANGED rowVars

Judged(c) ==
    /\ At(c, "publish", "handle")
    /\ Verdict422(req[c]) = "none"
    /\ PublishVerdict(settings, caller[c], req[c].metadata) = "allowed"

\* Does the intent fit, is the coordinate free, and is there a namespace for a new
\* skill?
PublishRefused(c) ==
    LET exists == home[req[c].skill] # None
        create == req[c].intent = "create_skill"
    IN  /\ Judged(c)
        /\ \/ /\ create /\ exists
              /\ Answer(c, "SKILL_ALREADY_EXISTS")
           \/ /\ ~create /\ ~exists
              /\ Answer(c, "SKILL_NOT_FOUND")
           \/ /\ create # exists
              /\ versions[<<req[c].skill, req[c].version>>] # None
              /\ Answer(c, "DUPLICATE_SKILL_VERSION")
           \/ /\ create /\ ~exists
              /\ namespaces[req[c].metadata.namespace] = None
              /\ Answer(c, "failed")
        /\ UNCHANGED rowVars

\* The skills whose rows the inserts refer to: its own, if it is there, then the
\* targets of the selectors, in their order. A target that is not there is none.
ReferredTo(c) ==
    LET targets == [i \in DOMAIN req[c].metadata.dependsOn |-> req[c].metadata.dependsOn[i].skill]
        named   == <<req[c].skill>> \o targets
        there   == Ascending({i \in DOMAIN named : home[named[i]] # None})
    IN  [i \in DOMAIN there |-> named[there[i]]]

PublishWrite(c) ==
    LET rows == ReferredTo(c)
    IN  /\ Judged(c)
        /\ (home[req[c].skill] = None) <=> (req[c].intent = "create_skill")
        /\ home[req[c].skill] = None => namespaces[req[c].metadata.namespace] # None
        /\ versions[<<req[c].skill, req[c].version>>] = None
        /\ WillLock(c, [i \in DOMAIN rows |-> [skill |-> rows[i], mode |-> "key_share"]])
        /\ Goto(c, "locking")

\* Another publisher has created the skill or taken the coordinate meanwhile.
PublishConflict(c) ==
    LET create == req[c].intent = "create_skill"
    IN  /\ At(c, "publish", "locking")
        /\ plan[c] = <<>>
        /\ \/ /\ create /\ home[req[c].skill] # None
              /\ Answer(c, "SKILL_ALREADY_EXISTS")
           \/ /\ ~create
              /\ versions[<<req[c].skill, req[c].version>>] # None
              /\ Answer(c, "DUPLICATE_SKILL_VERSION")
        /\ EndTransaction(c)
        /\ UNCHANGED tables

PublishCommit(c) ==
    LET m == req[c].metadata
        x == <<req[c].skill, req[c].version>>
    IN  /\ At(c, "publish", "locking")
        /\ plan[c] = <<>>
        /\ req[c].intent = "create_skill" => home[x[1]] = None
        /\ versions[x] = None
        /\ home' = IF home[x[1]] = None THEN [home EXCEPT ![x[1]] = m.namespace] ELSE home
        /\ versions' = [versions EXCEPT ![x] =
                          [tier |-> m.tier, channel |-> DefaultChannel(m.origin)]]
        /\ Record(c, "allowed")
        /\ EndTransaction(c)
        /\ Goto(c, "answer")
        /\ UNCHANGED namespaces

SubmissionStep(c) ==
    \/ SubmissionRefused(c) \/ PublishDenied(c) \/ PublishForbidden(c) \/ PublishRefused(c)
    \/ PublishWrite(c) \/ PublishConflict(c) \/ PublishCommit(c)

=============================================================================

----------------------------- MODULE RequestsProofs -----------------------------
(***************************************************************************)
(* What the HTTP interface promises, for any settings, tokens, requests    *)
(* and number of calls: effects are due, the audit trail tells what came   *)
(* of every call, answers hold when they are given, and row locks can      *)
(* deadlock in mixed circles only.  The invariant is stated call by call;  *)
(* a step of one call leaves what is said of the others alone.             *)
(***************************************************************************)
EXTENDS RequestProperties, NumberFacts, FiniteSetTheorems, SequenceTheorems, TLAPS

-----------------------------------------------------------------------------
\* The grants that the settings give to a token without any (to_record) decide as the
\* policy does for callers without grants, for every scope, namespace, role and channel.
THEOREM GrantsDecideAlike ==
    ASSUME NEW id, NEW scopes, NEW namespace, NEW role \in Roles, NEW channel
    PROVE  HasNamespaceGrant([id |-> id, scopes |-> scopes, grants |-> DefaultGrants(scopes)],
                             namespace, role, channel)
           <=> HasNamespaceGrant([id |-> id, scopes |-> scopes, grants |-> {}],
                                 namespace, role, channel)
<1> DEFINE given == [id |-> id, scopes |-> scopes, grants |-> DefaultGrants(scopes)]
           bare == [id |-> id, scopes |-> scopes, grants |-> {}]
<1>1. HasNamespaceGrant(bare, namespace, role, channel)
        <=> \/ "admin" \in scopes
            \/ namespace = "public" /\ role \in scopes /\ channel \in {"*", "prod"}
  BY DEF HasNamespaceGrant, HasScope
<1>2. CASE "admin" \in scopes
  <2> DEFINE grant == [namespace |-> "*", roles |-> Roles, channels |-> {"*"}]
  <2>1. given.grants = {grant}
    BY <1>2 DEF DefaultGrants
  <2>2. Matches(grant, namespace, role, channel)
    BY DEF Matches, GivesRole, Roles
  <2> HIDE DEF grant
  <2>3. HasNamespaceGrant(given, namespace, role, channel)
    BY <2>1, <2>2 DEF HasNamespaceGrant
  <2> QED
    BY <1>1, <1>2, <2>3
<1>3. CASE "admin" \notin scopes /\ scopes \cap Roles = {}
  <2>1. given.grants = {} /\ given.scopes = scopes
    BY <1>3 DEF DefaultGrants
  <2>2. HasNamespaceGrant(given, namespace, role, channel)
          <=> namespace = "public" /\ role \in scopes /\ channel \in {"*", "prod"}
    BY <1>3, <2>1 DEF HasNamespaceGrant, HasScope
  <2> QED
    BY <1>1, <1>3, <2>2
<1>4. CASE "admin" \notin scopes /\ scopes \cap Roles # {}
  <2> DEFINE grant == [namespace |-> "public", roles |-> scopes \cap Roles, channels |-> {"prod"}]
  <2>1. given.grants = {grant}
    BY <1>4 DEF DefaultGrants
  <2>2. Matches(grant, namespace, role, channel)
          <=> namespace = "public" /\ role \in scopes /\ channel \in {"*", "prod"}
    BY <1>4 DEF Matches, GivesRole
  <2> HIDE DEF grant
  <2>3. HasNamespaceGrant(given, namespace, role, channel)
          <=> Matches(grant, namespace, role, channel)
    BY <2>1 DEF HasNamespaceGrant
  <2> QED
    BY <1>1, <1>4, <2>2, <2>3
<1> QED
  BY <1>2, <1>3, <1>4

-----------------------------------------------------------------------------
(* Bundles *)

LEMMA NoTextNamesNothing == NoText # ".." /\ NoText # "c:"
BY Zenon DEF NoText

\* A path that is accepted has a segment that names something, climbs nowhere, and
\* starts neither at the root nor at a drive.
LEMMA PathsSound ==
    ASSUME NEW name \in Name, PathAccepted(name)
    PROVE  /\ ~name.backslash
           /\ \E i \in DOMAIN name.segments : name.segments[i] \notin {NoText, ".", ".."}
           /\ \A i \in DOMAIN name.segments : name.segments[i] # ".."
           /\ name.segments[1] \notin {NoText, "c:"}
<1> DEFINE segments == name.segments
<1>1. segments \in Seq(Text) /\ Len(segments) \in Nat /\ DOMAIN segments = 1..Len(segments)
  BY DEF Name
<1>2. PICK i \in Kept(name) : TRUE
  BY DEF PathAccepted
<1>3. i \in 1..Len(segments) /\ segments[i] \notin {NoText, ".", ".."}
  BY <1>1, <1>2 DEF PathAccepted, Kept
<1>4. \A j \in DOMAIN segments : segments[j] # ".."
  BY NoTextNamesNothing DEF PathAccepted, Kept
<1>5. 1 \in DOMAIN segments
  BY <1>1, <1>3
<1>6. segments[1] # NoText
  <2> SUFFICES ASSUME segments[1] = NoText PROVE FALSE
    OBVIOUS
  <2>1. ~IsAbsolute(name)
    BY DEF PathAccepted
  <2>2. ~(Len(segments) > 1)
    BY <2>1 DEF IsAbsolute
  <2>3. i = 1
    BY <1>1, <1>3, <2>2
  <2> QED
    BY <1>3, <2>3
<1>7. segments[1] # "c:"
  <2> SUFFICES ASSUME segments[1] = "c:" PROVE FALSE
    OBVIOUS
  <2>1. 1 \in Kept(name) /\ \A j \in Kept(name) : 1 <= j
    BY <1>1, <1>5, NoTextNamesNothing DEF Kept
  <2> QED
    BY <2>1 DEF PathAccepted
<1> QED
  BY <1>3, <1>4, <1>6, <1>7, <1>1 DEF PathAccepted

\* A publication that passes validation has a sound bundle.
LEMMA BundlesSound ==
    ASSUME NEW r \in Requests, r.kind = "publish", Verdict422(r) = "none"
    PROVE  Sound(r.bundle)
<1> DEFINE bundle == r.bundle
           members == bundle.members
           faulty == {i \in DOMAIN members : MemberFault(members, i) # "none"}
           first == CHOOSE i \in faulty : \A j \in faulty : i <= j
<1>1. bundle \in Bundle /\ MaxSize \in Nat /\ MaxMembers \in Nat
  BY SubmissionAssumption
<1>2. members \in Seq(ArchiveMember) /\ bundle.size \in Nat
  BY <1>1 DEF Bundle
<1>3. Len(members) \in Nat /\ DOMAIN members = 1..Len(members)
  BY <1>2
<1>4. /\ ~(bundle.size > MaxSize) /\ bundle.named
      /\ bundle.media \in {"absent", "zstd"} /\ ReportedFault(bundle) = "none"
  BY DEF Verdict422
<1>5. BundleFault(bundle).fault = "none"
  BY <1>4 DEF ReportedFault
<1>6. faulty = {}
  <2> SUFFICES ASSUME faulty # {} PROVE FALSE
    OBVIOUS
  <2>1. faulty \in SUBSET Nat
    BY <1>3
  <2>2. BundleFault(bundle).fault = MemberFault(members, first)
    BY DEF BundleFault
  <2>3. first \in faulty
    <3> HIDE DEF faulty
    <3>1. \E i \in faulty : \A j \in faulty : i <= j
      BY <2>1, Least
    <3> QED
      BY <3>1
  <2> QED
    BY <1>5, <2>2, <2>3
<1>7. bundle.readable
  BY <1>5, <1>6 DEF BundleFault
<1>8. ASSUME NEW i \in DOMAIN members
      PROVE  i <= MaxMembers /\ SoundMember(members[i])
  <2>1. MemberFault(members, i) = "none"
    BY <1>6, <1>8
  <2>2. /\ ~(i > MaxMembers) /\ members[i].type \in {"file", "directory"}
        /\ PathAccepted(members[i].name) /\ ~members[i].name.long
    BY <2>1 DEF MemberFault
  <2>3. members[i].name \in Name /\ i \in Nat
    <3>1. i \in 1..Len(members) /\ i \in Nat
      BY <1>3, <1>8
    <3>2. members[i] \in ArchiveMember
      BY <1>2, <3>1
    <3> QED
      BY <3>1, <3>2 DEF ArchiveMember
  <2> QED
    BY <1>1, <2>2, <2>3, PathsSound DEF SoundMember
<1>9. Len(members) <= MaxMembers
  <2>1. CASE Len(members) = 0
    BY <1>1, <2>1
  <2>2. CASE Len(members) # 0
    <3>1. Len(members) \in DOMAIN members
      BY <1>3, <2>2
    <3> QED
      BY <1>8, <3>1
  <2> QED
    BY <2>1, <2>2
<1> QED
  BY <1>1, <1>2, <1>4, <1>7, <1>8, <1>9 DEF Sound

-----------------------------------------------------------------------------
(* The invariant *)

Settled == {"answer", "deny"}

Foundations == {"organization", "namespace"}

Shape ==
    /\ DOMAIN pc = Calls /\ DOMAIN req = Calls /\ DOMAIN caller = Calls
    /\ DOMAIN result = Calls /\ DOMAIN plan = Calls /\ DOMAIN loaded = Calls
    /\ namespaces \in [Namespaces -> Organizations \cup {None}]

\* What holds of a call in each phase.
PhaseOf(c) ==
    /\ pc[c] # "done" => result[c] = "none"
    /\ pc[c] # "idle" => req[c] \in Requests
    /\ pc[c] \notin {"locking", "observing"} => plan[c] = <<>>
    /\ pc[c] \notin {"idle", "arrived", "done"} =>
         caller[c] = CallerOf(settings, req[c].credentials)
    /\ At(c, "publish", "locking") =>
         /\ Verdict422(req[c]) = "none"
         /\ PublishVerdict(settings, caller[c], req[c].metadata) = "allowed"
    /\ At(c, "publish", "deny") =>
         PublishVerdict(settings, caller[c], req[c].metadata) # "allowed"

\* TrailTellsOutcomes, of one call, and what its phase says of its event.
TrailOf(c) ==
    /\ Says(c, "allowed") =>
         /\ ~Says(c, "denied")
         /\ pc[c] = "answer" \/ (pc[c] = "done" /\ result[c] \in Changes \cup {"failed"})
    /\ Says(c, "denied") =>
         pc[c] = "deny" \/ (pc[c] = "done" /\ result[c] \in Denials \cup {"failed"})
    /\ pc[c] = "answer" \/ result[c] \in Changes => Says(c, "allowed")
    /\ pc[c] = "deny" \/ result[c] \in Denials => Says(c, "denied")
    /\ Says(c, "allowed") /\ req[c].kind = "organization" => req[c].slug \in organizations
    /\ Says(c, "allowed") /\ req[c].kind = "namespace" =>
         namespaces[req[c].slug] = req[c].organization
    /\ (\E e \in evidence : e.by = c) <=> Says(c, "allowed") /\ req[c].kind = "evidence"

MayReviewAsConfigured(c) ==
    HasNamespaceGrant(Configured(c), loaded[c].namespace, "review", loaded[c].channel)

\* EffectsWereDue, of one call.
DueOf(c) ==
    /\ req[c] # None /\ req[c].kind = "publish" =>
        /\ Says(c, "allowed") => Sound(req[c].bundle) /\ MayPublish(c)
        /\ result[c] = "POLICY_NAMESPACE_FORBIDDEN" => ~MayPublish(c)
    /\ req[c] # None /\ req[c].kind = "evidence" /\ loaded[c] # None =>
        /\ Says(c, "allowed") => MayReviewAsConfigured(c)
        /\ Says(c, "denied") => ~MayReviewAsConfigured(c)

OneFounderEach ==
    \A c, d \in Calls :
        /\ Says(c, "allowed") /\ Says(d, "allowed")
        /\ req[c].kind = req[d].kind /\ req[c].kind \in Foundations
        /\ req[c].slug = req[d].slug
        => c = d

RequestInv ==
    /\ Shape
    /\ \A c \in Calls : PhaseOf(c) /\ TrailOf(c) /\ DueOf(c)
    /\ OneFounderEach

-----------------------------------------------------------------------------
(* Steps of one call *)

\* The settings and what is kept of every other call stay.
OnlyCall(c) ==
    /\ settings' = settings
    /\ \A d \in Calls \ {c} :
        /\ pc'[d] = pc[d] /\ req'[d] = req[d] /\ caller'[d] = caller[d]
        /\ result'[d] = result[d] /\ plan'[d] = plan[d] /\ loaded'[d] = loaded[d]

\* What is founded stays.
Grows ==
    /\ organizations \subseteq organizations'
    /\ \A n \in Namespaces : namespaces[n] # None => namespaces'[n] = namespaces[n]

\* Nothing new is said or evidenced by other calls.
SaysOnly(c) ==
    \A d \in Calls \ {c} :
        /\ \A o \in {"allowed", "denied"} : Says(d, o)' <=> Says(d, o)
        /\ (\E e \in evidence' : e.by = d) <=> (\E e \in evidence : e.by = d)

LEMMA OthersKeep ==
    ASSUME RequestInv, NEW c \in Calls, NEW d \in Calls, d # c,
           OnlyCall(c), Grows, SaysOnly(c)
    PROVE  PhaseOf(d)' /\ TrailOf(d)' /\ DueOf(d)'
<1>1. /\ settings' = settings
      /\ pc'[d] = pc[d] /\ req'[d] = req[d] /\ caller'[d] = caller[d]
      /\ result'[d] = result[d] /\ plan'[d] = plan[d] /\ loaded'[d] = loaded[d]
  BY DEF OnlyCall
<1>2. PhaseOf(d) /\ TrailOf(d) /\ DueOf(d)
  BY DEF RequestInv
<1>3. PhaseOf(d)'
  BY <1>1, <1>2 DEF PhaseOf, At
<1>4. /\ Says(d, "allowed")' <=> Says(d, "allowed")
      /\ Says(d, "denied")' <=> Says(d, "denied")
      /\ (\E e \in evidence' : e.by = d) <=> (\E e \in evidence : e.by = d)
  BY DEF SaysOnly
<1>5. DueOf(d)'
  BY <1>1, <1>2, <1>4 DEF DueOf, MayPublish, Configured, MayReviewAsConfigured
<1>6. TrailOf(d)'
  <2>1. ASSUME Says(d, "allowed"), req[d].kind = "namespace"
        PROVE  namespaces'[req[d].slug] = req[d].organization
    <3>1. req[d] \in Requests
      BY <1>2, <2>1 DEF TrailOf, PhaseOf
    <3>2. req[d].slug \in Namespaces /\ req[d].organization # None
      BY <2>1, <3>1, EnterpriseAssumption
    <3> QED
      BY <1>2, <2>1, <3>2 DEF TrailOf, Grows
  <2>2. ASSUME Says(d, "allowed"), req[d].kind = "organization"
        PROVE  req[d].slug \in organizations'
    BY <1>2, <2>2 DEF TrailOf, Grows
  <2> QED
    BY <1>1, <1>2, <1>4, <2>1, <2>2 DEF TrailOf
<1> QED
  BY <1>3, <1>5, <1>6

\* A call at work, and one that has answered nothing.
Open(c) == pc[c] \notin Settled \cup {"done"}

\* A call at work has left no event.
LEMMA OpenIsSilent ==
    ASSUME RequestInv, NEW c \in Calls, Open(c)
    PROVE  /\ result[c] = "none" /\ ~Says(c, "allowed") /\ ~Says(c, "denied")
           /\ ~\E e \in evidence : e.by = c
BY DEF RequestInv, PhaseOf, TrailOf, Open, Settled

\* A step that answers nothing.
LEMMA Moves ==
    ASSUME RequestInv, NEW c \in Calls, Open(c), Open(c)', OnlyCall(c), Shape', PhaseOf(c)',
           result'[c] = result[c], UNCHANGED <<trail, evidence, organizations, namespaces>>
    PROVE  RequestInv'
<1>1. Grows /\ SaysOnly(c)
  BY DEF Grows, SaysOnly, Says
<1>2. \A d \in Calls : d # c => PhaseOf(d)' /\ TrailOf(d)' /\ DueOf(d)'
  BY <1>1, OthersKeep
<1>3. /\ result'[c] = "none" /\ ~Says(c, "allowed")' /\ ~Says(c, "denied")'
      /\ ~\E e \in evidence' : e.by = c
  BY OpenIsSilent DEF Says
<1>4. TrailOf(c)'
  BY <1>3 DEF TrailOf, Open, Settled, Changes, Denials
<1>5. DueOf(c)'
  BY <1>3 DEF DueOf
<1>6. OneFounderEach'
  BY <1>3 DEF RequestInv, OneFounderEach, OnlyCall, Says
<1> QED
  BY <1>2, <1>4, <1>5, <1>6 DEF RequestInv

\* What a call that is in a phase may answer.
MayTell(c, answer) ==
    CASE pc[c] = "answer" -> answer \in Changes \cup {"failed"}
      [] pc[c] = "deny"   -> answer \in Denials \cup {"failed"}
      [] OTHER            -> answer \notin Changes \cup Denials

\* A step that answers a call, and records nothing of it.
LEMMA Ends ==
    ASSUME RequestInv, NEW c \in Calls, pc[c] \notin {"idle", "done"}, OnlyCall(c), Shape',
           pc'[c] = "done", req'[c] = req[c], plan'[c] = <<>>, loaded'[c] = loaded[c],
           MayTell(c, result'[c]),
           req[c].kind = "publish" /\ result'[c] = "POLICY_NAMESPACE_FORBIDDEN" => ~MayPublish(c),
           UNCHANGED <<trail, evidence, organizations, namespaces>>
    PROVE  RequestInv'
<1>1. Grows /\ SaysOnly(c)
  BY DEF Grows, SaysOnly, Says
<1>2. \A d \in Calls : d # c => PhaseOf(d)' /\ TrailOf(d)' /\ DueOf(d)'
  BY <1>1, OthersKeep
<1>3. TrailOf(c) /\ DueOf(c) /\ req[c] \in Requests
  BY DEF RequestInv, PhaseOf
<1>4. /\ Says(c, "allowed")' <=> Says(c, "allowed")
      /\ Says(c, "denied")' <=> Says(c, "denied")
  BY DEF Says
<1>5. TrailOf(c)'
  <2>1. Changes \cap Denials = {} /\ "failed" \notin Changes \cup Denials
    BY DEF Changes, Denials
  <2>2. CASE pc[c] = "answer"
    BY <1>3, <1>4, <2>1, <2>2 DEF TrailOf, MayTell
  <2>3. CASE pc[c] = "deny"
    BY <1>3, <1>4, <2>1, <2>3 DEF TrailOf, MayTell
  <2>4. CASE pc[c] \notin Settled
    <3>1. ~Says(c, "allowed") /\ ~Says(c, "denied")
      BY <1>3, <2>4 DEF TrailOf, Settled
    <3> QED
      BY <1>3, <1>4, <2>4, <3>1 DEF TrailOf, MayTell, Settled
  <2> QED
    BY <2>2, <2>3, <2>4 DEF Settled
<1>6. DueOf(c)'
  BY <1>3, <1>4 DEF DueOf, MayPublish, Configured, MayReviewAsConfigured, OnlyCall
<1>7. PhaseOf(c)'
  BY <1>3 DEF PhaseOf, At
<1>8. OneFounderEach'
  BY <1>4 DEF RequestInv, OneFounderEach, OnlyCall, Says
<1> QED
  BY <1>2, <1>5, <1>6, <1>7, <1>8 DEF RequestInv

\* A step that denies a call by policy.
LEMMA Denies ==
    ASSUME RequestInv, NEW c \in Calls, Open(c), OnlyCall(c), Shape', PhaseOf(c)',
           pc'[c] = "deny", result'[c] = result[c],
           Record(c, "denied"), UNCHANGED <<evidence, organizations, namespaces>>, DueOf(c)'
    PROVE  RequestInv'
<1>1. Grows /\ SaysOnly(c)
  BY DEF Grows, SaysOnly, Says, Record
<1>2. \A d \in Calls : d # c => PhaseOf(d)' /\ TrailOf(d)' /\ DueOf(d)'
  BY <1>1, OthersKeep
<1>3. /\ result'[c] = "none" /\ ~Says(c, "allowed")' /\ Says(c, "denied")'
      /\ ~\E e \in evidence' : e.by = c
  BY OpenIsSilent DEF Says, Record
<1>4. TrailOf(c)'
  BY <1>3 DEF TrailOf, Changes, Denials
<1>5. \A d \in Calls : Says(d, "allowed")' <=> Says(d, "allowed")
  BY DEF Says, Record
<1>6. OneFounderEach'
  BY <1>3, <1>5 DEF RequestInv, OneFounderEach, OnlyCall
<1> QED
  BY <1>2, <1>4, <1>6 DEF RequestInv

\* A step that does what a call asks for, and answers it or leaves the answer for later.
LEMMA Allows ==
    ASSUME RequestInv, NEW c \in Calls, Open(c), OnlyCall(c), Shape', PhaseOf(c)',
           req'[c] = req[c], req[c] \in Requests,
           \/ pc'[c] = "answer" /\ result'[c] = result[c]
           \/ pc'[c] = "done" /\ result'[c] \in Changes,
           Record(c, "allowed"), Grows, DueOf(c)',
           req[c].kind = "organization" => req[c].slug \in organizations' \ organizations,
           req[c].kind = "namespace" =>
             /\ namespaces[req[c].slug] = None
             /\ namespaces'[req[c].slug] = req[c].organization,
           IF req[c].kind = "evidence"
           THEN \E x : evidence' = evidence \cup {[by |-> c, of |-> x]}
           ELSE evidence' = evidence
    PROVE  RequestInv'
<1>1. SaysOnly(c)
  BY DEF SaysOnly, Says, Record
<1>2. \A d \in Calls : d # c => PhaseOf(d)' /\ TrailOf(d)' /\ DueOf(d)'
  BY <1>1, OthersKeep
<1>3. /\ result[c] = "none" /\ ~Says(c, "allowed") /\ ~Says(c, "denied")
      /\ ~\E e \in evidence : e.by = c
  BY OpenIsSilent
<1>4. Says(c, "allowed")' /\ ~Says(c, "denied")'
  BY <1>3 DEF Says, Record
<1>5. (\E e \in evidence' : e.by = c) <=> req[c].kind = "evidence"
  <2>1. CASE req[c].kind = "evidence"
    <3>1. PICK x : evidence' = evidence \cup {[by |-> c, of |-> x]}
      BY <2>1
    <3>2. [by |-> c, of |-> x] \in evidence'
      BY <3>1
    <3> QED
      BY <2>1, <3>2
  <2>2. CASE req[c].kind # "evidence"
    BY <1>3, <2>2
  <2> QED
    BY <2>1, <2>2
<1>6. TrailOf(c)'
  <2>1. result'[c] \notin Denials
    BY <1>3 DEF Changes, Denials
  <2> QED
    BY <1>4, <1>5, <2>1 DEF TrailOf
<1>7. ASSUME NEW d \in Calls, d # c, Says(d, "allowed"),
             req[d].kind = req[c].kind, req[c].kind \in Foundations, req[d].slug = req[c].slug
      PROVE  FALSE
  <2>1. TrailOf(d) /\ req[d] \in Requests
    BY <1>7 DEF RequestInv, PhaseOf, TrailOf
  <2>2. CASE req[c].kind = "organization"
    BY <1>7, <2>1, <2>2 DEF TrailOf
  <2>3. CASE req[c].kind = "namespace"
    <3>1. namespaces[req[c].slug] = req[d].organization /\ req[d].organization # None
      BY <1>7, <2>1, <2>3, EnterpriseAssumption DEF TrailOf
    <3> QED
      BY <1>7, <2>3, <3>1
  <2> QED
    BY <1>7, <2>2, <2>3 DEF Foundations
<1>8. OneFounderEach'
  <2> SUFFICES ASSUME NEW x \in Calls, NEW y \in Calls, x # y,
                      Says(x, "allowed")', Says(y, "allowed")',
                      req'[x].kind = req'[y].kind, req'[x].kind \in Foundations,
                      req'[x].slug = req'[y].slug
               PROVE  FALSE
    BY DEF OneFounderEach
  <2>0. \A d \in Calls \ {c} : Says(d, "allowed")' => Says(d, "allowed")
    BY <1>1 DEF SaysOnly
  <2>1. CASE x # c /\ y # c
    BY <2>0, <2>1 DEF RequestInv, OneFounderEach, OnlyCall
  <2>2. CASE x = c
    BY <1>7, <2>0, <2>2 DEF OnlyCall
  <2>3. CASE y = c
    BY <1>7, <2>0, <2>3 DEF OnlyCall
  <2> QED
    BY <2>1, <2>2, <2>3
<1> QED
  BY <1>2, <1>6, <1>8 DEF RequestInv

-----------------------------------------------------------------------------
(* Steps by what they do to the call *)

LEMMA Frame ==
    ASSUME Shape, NEW c \in Calls, UNCHANGED <<settings, namespaces>>,
           pc' = pc \/ (\E x : pc' = [pc EXCEPT ![c] = x]),
           req' = req \/ (\E x : req' = [req EXCEPT ![c] = x]),
           caller' = caller \/ (\E x : caller' = [caller EXCEPT ![c] = x]),
           result' = result \/ (\E x : result' = [result EXCEPT ![c] = x]),
           plan' = plan \/ (\E x : plan' = [plan EXCEPT ![c] = x]),
           loaded' = loaded \/ (\E x : loaded' = [loaded EXCEPT ![c] = x])
    PROVE  OnlyCall(c) /\ Shape'
<1>1. DOMAIN pc' = Calls /\ \A d \in Calls \ {c} : pc'[d] = pc[d]
  BY DEF Shape
<1>2. DOMAIN req' = Calls /\ \A d \in Calls \ {c} : req'[d] = req[d]
  BY DEF Shape
<1>3. DOMAIN caller' = Calls /\ \A d \in Calls \ {c} : caller'[d] = caller[d]
  BY DEF Shape
<1>4. DOMAIN result' = Calls /\ \A d \in Calls \ {c} : result'[d] = result[d]
  BY DEF Shape
<1>5. DOMAIN plan' = Calls /\ \A d \in Calls \ {c} : plan'[d] = plan[d]
  BY DEF Shape
<1>6. DOMAIN loaded' = Calls /\ \A d \in Calls \ {c} : loaded'[d] = loaded[d]
  BY DEF Shape
<1> QED
  BY <1>1, <1>2, <1>3, <1>4, <1>5, <1>6 DEF Shape, OnlyCall

\* A handler that answers, with its transaction ended or none open.
LEMMA Answering ==
    ASSUME RequestInv, NEW c \in Calls, NEW answer, Answer(c, answer),
           EndTransaction(c) \/ (plan' = plan /\ pc[c] \notin {"locking", "observing"}),
           UNCHANGED <<loaded, namespaces>>
    PROVE  /\ OnlyCall(c) /\ Shape'
           /\ pc'[c] = "done" /\ req'[c] = req[c] /\ plan'[c] = <<>> /\ result'[c] = answer
           /\ caller' = caller /\ req' = req
<1>1. Shape /\ PhaseOf(c)
  BY DEF RequestInv
<1>2. OnlyCall(c) /\ Shape'
  BY <1>1, Frame DEF Answer, EndTransaction
<1>3. plan'[c] = <<>>
  BY <1>1 DEF Shape, PhaseOf, EndTransaction
<1> QED
  BY <1>1, <1>2, <1>3 DEF Answer, Shape

LEMMA Finishes ==
    ASSUME RequestInv, NEW c \in Calls, pc[c] \notin {"idle", "done"},
           NEW answer, MayTell(c, answer), Answer(c, answer),
           req[c].kind = "publish" /\ answer = "POLICY_NAMESPACE_FORBIDDEN" => ~MayPublish(c),
           EndTransaction(c) \/ (plan' = plan /\ pc[c] \notin {"locking", "observing"}),
           UNCHANGED <<loaded, trail, evidence, organizations, namespaces>>
    PROVE  RequestInv'
<1>1. /\ OnlyCall(c) /\ Shape'
      /\ pc'[c] = "done" /\ req'[c] = req[c] /\ plan'[c] = <<>> /\ result'[c] = answer
  BY Answering
<1> QED
  BY <1>1, Ends

\* A handler that refuses, or fails, for a reason that is not recorded.
LEMMA Refuses ==
    ASSUME RequestInv, NEW c \in Calls, pc[c] \notin {"idle", "done"},
           NEW answer, answer \notin Changes \cup Denials, Answer(c, answer),
           pc[c] \in Settled => answer = "failed",
           EndTransaction(c) \/ (plan' = plan /\ pc[c] \notin {"locking", "observing"}),
           UNCHANGED <<loaded, trail, evidence, organizations, namespaces>>
    PROVE  RequestInv'
<1>1. MayTell(c, answer)
  BY DEF MayTell, Settled
<1>2. answer # "POLICY_NAMESPACE_FORBIDDEN"
  BY DEF Denials
<1> QED
  BY <1>1, <1>2, Finishes

\* A handler that has committed, its transaction ended, and has still to answer.
LEMMA Settling ==
    ASSUME RequestInv, NEW c \in Calls, pc[c] \notin {"idle", "arrived", "done"},
           NEW phase \in Settled, Goto(c, phase),
           EndTransaction(c) \/ (plan' = plan /\ pc[c] \notin {"locking", "observing"}),
           phase = "deny" /\ req[c].kind = "publish" =>
             PublishVerdict(settings, caller[c], req[c].metadata) # "allowed",
           UNCHANGED loaded, namespaces' \in [Namespaces -> Organizations \cup {None}]
    PROVE  /\ OnlyCall(c) /\ Shape' /\ PhaseOf(c)'
           /\ pc'[c] = phase /\ req' = req /\ result' = result
           /\ req[c] \in Requests
<1>1. Shape /\ PhaseOf(c)
  BY DEF RequestInv
<1>2. /\ pc' = [pc EXCEPT ![c] = phase]
      /\ UNCHANGED <<settings, req, caller, result>>
  BY DEF Goto
<1>3. OnlyCall(c) /\ Shape'
  BY <1>1, <1>2 DEF Shape, OnlyCall, EndTransaction
<1>4. plan'[c] = <<>> /\ pc'[c] = phase
  BY <1>1, <1>2 DEF Shape, PhaseOf, EndTransaction
<1>5. PhaseOf(c)'
  BY <1>1, <1>2, <1>4 DEF PhaseOf, At, Settled
<1> QED
  BY <1>1, <1>2, <1>3, <1>4, <1>5 DEF PhaseOf

\* A handler that goes on to its next statement.
LEMMA GoesOn ==
    ASSUME RequestInv, NEW c \in Calls, pc[c] \notin Settled \cup {"idle", "arrived", "done"},
           NEW phase \in {"locking", "events", "observing", "commit", "judge"}, Goto(c, phase),
           \/ plan' = plan /\ plan[c] = <<>>
           \/ phase \in {"locking", "observing"} /\ \E x : plan' = [plan EXCEPT ![c] = x],
           loaded' = loaded \/ (\E x : loaded' = [loaded EXCEPT ![c] = x]),
           phase = "locking" /\ req[c].kind = "publish" =>
             /\ Verdict422(req[c]) = "none"
             /\ PublishVerdict(settings, caller[c], req[c].metadata) = "allowed",
           UNCHANGED <<trail, evidence, organizations, namespaces>>
    PROVE  RequestInv'
<1>1. Shape /\ PhaseOf(c)
  BY DEF RequestInv
<1>2. /\ pc' = [pc EXCEPT ![c] = phase]
      /\ UNCHANGED <<settings, service, now, req, caller, result>>
  BY DEF Goto
<1>3. OnlyCall(c) /\ Shape'
  BY <1>1, <1>2, Frame
<1>4. pc'[c] = phase
  BY <1>1, <1>2 DEF Shape
<1>5. PhaseOf(c)'
  <2>1. phase \notin {"locking", "observing"} => plan'[c] = <<>>
    OBVIOUS
  <2> QED
    BY <1>1, <1>2, <1>4, <2>1 DEF PhaseOf, At, Settled
<1>6. Open(c) /\ Open(c)'
  BY <1>4 DEF Open, Settled
<1> QED
  BY <1>2, <1>3, <1>5, <1>6, Moves

LEMMA Stays ==
    ASSUME RequestInv,
           UNCHANGED <<settings, pc, req, caller, result, plan, loaded,
                       trail, evidence, organizations, namespaces>>
    PROVE  RequestInv'
BY DEF RequestInv, Shape, PhaseOf, TrailOf, DueOf, OneFounderEach, At, Says, MayPublish,
       Configured, MayReviewAsConfigured

-----------------------------------------------------------------------------
(* What the checks answer *)

\* Authentication decides as the settings have it.
LEMMA CallerAlike ==
    ASSUME NEW c, caller[c] = CallerOf(settings, req[c].credentials),
           NEW namespace, NEW role \in Roles, NEW channel
    PROVE  HasNamespaceGrant(caller[c], namespace, role, channel)
           <=> HasNamespaceGrant(Configured(c), namespace, role, channel)
<1> DEFINE token == CHOOSE t \in TokensOf(settings) : t.id = req[c].credentials.id
<1>1. caller[c] = [id |-> token.id, scopes |-> token.scopes, grants |-> EffectiveGrants(token)]
  BY DEF CallerOf
<1>2. Configured(c) = [id |-> token.id, scopes |-> token.scopes, grants |-> token.grants]
  BY DEF Configured
<1> HIDE DEF token
<1>3. CASE token.grants = {}
  BY <1>1, <1>2, <1>3, GrantsDecideAlike DEF EffectiveGrants
<1>4. CASE token.grants # {}
  BY <1>1, <1>2, <1>4 DEF EffectiveGrants
<1> QED
  BY <1>3, <1>4

LEMMA CodesNeutral ==
    ASSUME NEW s, NEW time, NEW cred
    PROVE  AuthCode(s, time, cred) \notin Changes \cup Denials
BY DEF AuthCode, Changes, Denials

LEMMA FaultsKnown ==
    ASSUME NEW r
    PROVE  Verdict422(r) \in {"none", "file_count", "member", "path_length", "archive",
                             "metadata", "size", "filename", "media_type"}
<1> DEFINE faults == {"none", "file_count", "member", "path_length", "archive"}
<1>1. ASSUME NEW members, NEW i PROVE MemberFault(members, i) \in faults
  BY DEF MemberFault
<1>2. BundleFault(r.bundle).fault \in faults
  BY <1>1 DEF BundleFault
<1>3. ReportedFault(r.bundle) \in faults
  BY <1>2 DEF ReportedFault
<1> QED
  BY <1>3 DEF Verdict422

LEMMA FaultsNeutral ==
    ASSUME NEW r
    PROVE  Verdict422(r) \notin Changes \cup Denials
BY FaultsKnown DEF Changes, Denials

LEMMA VerdictAmong ==
    ASSUME NEW s, NEW who, NEW m
    PROVE  PublishVerdict(s, who, m) \in Denials \cup {"allowed"}
BY DEF PublishVerdict, Denials

LEMMA AllowedReaches ==
    ASSUME NEW s, NEW who, NEW m, PublishVerdict(s, who, m) = "allowed"
    PROVE  HasNamespaceGrant(who, m.namespace, "publish", DefaultChannel(m.origin))
BY DEF PublishVerdict

LEMMA ForbiddenReachesNot ==
    ASSUME NEW s, NEW who, NEW m, PublishVerdict(s, who, m) = "POLICY_NAMESPACE_FORBIDDEN"
    PROVE  ~HasNamespaceGrant(who, m.namespace, "publish", DefaultChannel(m.origin))
BY DEF PublishVerdict

\* Only a call that waits for a lock is in a deadlock.
LEMMA DeadlockedWaits ==
    ASSUME NEW c, Deadlocked(c)
    PROVE  plan[c] # <<>>
<1> SUFFICES ASSUME plan[c] = <<>> PROVE FALSE
  OBVIOUS
<1>1. \A x \in {} \cup {c} : \A y \in Calls : WaitsFor(x, y) => y \in {}
  BY DEF WaitsFor
<1>2. {} \in SUBSET Calls
  OBVIOUS
<1> QED
  BY <1>1, <1>2 DEF Deadlocked, Blockers

-----------------------------------------------------------------------------
(* One lemma per component *)

LEMMA AccessKeeps ==
    ASSUME RequestInv, NEW c \in Calls, AccessStep(c), UNCHANGED <<rowVars, enterpriseVars>>
    PROVE  RequestInv'
<1> USE DEF rowVars, tables, enterpriseVars
<1>1. Shape /\ PhaseOf(c)
  BY DEF RequestInv
<1>2. CASE Arrive(c)
  <2>1. OnlyCall(c) /\ Shape'
    BY <1>1, <1>2, Frame DEF Arrive
  <2>2. PhaseOf(c)'
    BY <1>1, <1>2 DEF Arrive, PhaseOf, Shape, At
  <2>3. Open(c) /\ Open(c)'
    BY <1>1, <1>2 DEF Arrive, Open, Settled, Shape
  <2> QED
    BY <1>2, <2>1, <2>2, <2>3, Moves DEF Arrive
<1>3. CASE Refuse(c)
  <2>1. PICK answer : answer \notin Changes \cup Denials /\ Answer(c, answer)
    BY <1>3, CodesNeutral DEF Refuse, Changes, Denials
  <2>2. pc[c] = "arrived"
    BY <1>3 DEF Refuse
  <2> QED
    BY <2>1, <2>2, Refuses DEF Settled
<1>4. CASE Admit(c)
  <2>1. OnlyCall(c) /\ Shape'
    BY <1>1, <1>4, Frame DEF Admit
  <2>2. PhaseOf(c)'
    BY <1>1, <1>4 DEF Admit, PhaseOf, Shape, At
  <2>3. Open(c) /\ Open(c)'
    BY <1>1, <1>4 DEF Admit, Open, Settled, Shape
  <2> QED
    BY <1>4, <2>1, <2>2, <2>3, Moves DEF Admit
<1> QED
  BY <1>2, <1>3, <1>4 DEF AccessStep

LEMMA StarsKeep ==
    ASSUME RequestInv, NEW c \in Calls, StarsStep(c), UNCHANGED enterpriseVars
    PROVE  RequestInv'
<1> USE DEF rowVars, tables, enterpriseVars, starVars, At
<1>1. Shape /\ PhaseOf(c)
  BY DEF RequestInv
<1>2. pc[c] = "handle" => plan[c] = <<>>
  BY <1>1 DEF PhaseOf
<1> DEFINE neutral == {"INVALID_REQUEST", "STAR_EVENT_UNKNOWN_SKILL", "starred", "listed",
                       "counted", "UNKNOWN_CO_USAGE_SKILL", "imported"}
<1>3. \A answer \in neutral : answer \notin Changes \cup Denials
  BY DEF Changes, Denials
<1> HIDE DEF neutral
<1>4. ASSUME NEW answer \in neutral, Answer(c, answer), pc[c] \notin Settled \cup {"idle", "done"},
             EndTransaction(c) \/ (plan' = plan /\ pc[c] \notin {"locking", "observing"}),
             trail' = trail, namespaces' = namespaces
      PROVE  RequestInv'
  BY <1>3, <1>4, Refuses
<1>5. CASE StarsRefused(c)
  BY <1>4, <1>5 DEF StarsRefused, neutral, Settled
<1>6. CASE StarsUnknown(c)
  BY <1>4, <1>6 DEF StarsUnknown, neutral, Settled
<1>7. CASE StarsCommit(c)
  BY <1>4, <1>7 DEF StarsCommit, neutral, Settled
<1>8. CASE ListUserStars(c)
  BY <1>4, <1>8 DEF ListUserStars, neutral, Settled
<1>9. CASE InstallCommit(c)
  BY <1>4, <1>9 DEF InstallCommit, neutral, Settled
<1>10. CASE ImportRefused(c)
  BY <1>4, <1>10 DEF ImportRefused, neutral, Settled
<1>11. CASE ImportCommit(c)
  BY <1>4, <1>11 DEF ImportCommit, neutral, Settled
<1>12. CASE StarsSelect(c)
  <2>1. /\ pc[c] = "handle" /\ Goto(c, "locking") /\ req[c].kind = "stars"
        /\ \E x : plan' = [plan EXCEPT ![c] = x]
        /\ UNCHANGED tables
    BY <1>12 DEF StarsSelect, WillLock
  <2> QED
    BY <2>1, GoesOn DEF Settled
<1>13. CASE StarsLocked(c)
  BY <1>13, GoesOn DEF StarsLocked, Settled
<1>14. CASE StarsEvent(c)
  BY <1>14, Stays DEF StarsEvent, accessVars
<1>15. CASE InstallUpdate(c)
  <2>1. /\ pc[c] = "handle" /\ Goto(c, "locking") /\ req[c].kind = "install"
        /\ \E x : plan' = [plan EXCEPT ![c] = x]
        /\ UNCHANGED tables
    BY <1>15 DEF InstallUpdate, WillLock
  <2> QED
    BY <2>1, GoesOn DEF Settled
<1>16. CASE ImportObserve(c)
  <2>1. /\ pc[c] = "handle" /\ Goto(c, "observing") /\ req[c].kind = "import"
        /\ \E x : plan' = [plan EXCEPT ![c] = x]
        /\ UNCHANGED tables
    BY <1>16 DEF ImportObserve, WillLock
  <2> QED
    BY <2>1, GoesOn DEF Settled
<1>17. CASE ImportRebuild(c)
  <2>1. /\ pc[c] = "observing" /\ Goto(c, "locking") /\ req[c].kind = "import"
        /\ \E x : plan' = [plan EXCEPT ![c] = x]
        /\ UNCHANGED tables
    BY <1>17 DEF ImportRebuild, WillLock
  <2> QED
    BY <2>1, GoesOn DEF Settled
<1> QED
  BY <1>5, <1>6, <1>7, <1>8, <1>9, <1>10, <1>11, <1>12, <1>13, <1>14, <1>15, <1>16, <1>17
     DEF StarsStep, RecordStars, RecordInstall, ImportRun

LEMMA EnterpriseKeeps ==
    ASSUME RequestInv, NEW c \in Calls, EnterpriseStep(c)
    PROVE  RequestInv'
<1> USE DEF rowVars, tables, enterpriseVars, At, Handles
<1>1. Shape /\ PhaseOf(c) /\ TrailOf(c)
  BY DEF RequestInv
<1>2. pc[c] \in {"handle", "commit", "judge"} => plan[c] = <<>> /\ req[c] \in Requests
  BY <1>1 DEF PhaseOf
<1> DEFINE neutral == {"INVALID_REQUEST", "failed", "SKILL_NOT_FOUND", "SKILL_VERSION_NOT_FOUND"}
<1>3. \A answer \in neutral : answer \notin Changes \cup Denials
  BY DEF Changes, Denials
<1> HIDE DEF neutral
\* A call that is refused.
<1>4. ASSUME NEW answer \in neutral, Answer(c, answer), pc[c] \in {"handle", "commit"},
             UNCHANGED <<plan, trail, namespaces, organizations, evidence, loaded>>
      PROVE  RequestInv'
  BY <1>3, <1>4, Refuses DEF Settled
\* A pack or a move, which is answered in the step that commits it.
<1>5. ASSUME NEW answer \in Changes, Answer(c, answer), pc[c] \in {"commit", "locking"},
             req[c].kind \in {"pack", "ownership"},
             EndTransaction(c) \/ (plan' = plan /\ pc[c] \notin {"locking", "observing"}),
             Record(c, "allowed"), UNCHANGED <<namespaces, organizations, evidence, loaded>>
      PROVE  RequestInv'
  <2>1. /\ OnlyCall(c) /\ Shape'
        /\ pc'[c] = "done" /\ req'[c] = req[c] /\ plan'[c] = <<>> /\ result'[c] = answer
    BY <1>5, Answering
  <2>2. DueOf(c)' /\ Grows /\ Open(c) /\ req[c] \in Requests
    BY <1>1, <1>5, <2>1 DEF DueOf, Grows, Open, Settled, PhaseOf
  <2>3. PhaseOf(c)'
    BY <2>1, <2>2 DEF PhaseOf
  <2> QED
    BY <1>5, <2>1, <2>2, <2>3, Allows
<1>6. CASE IllFormed(c)
  BY <1>4, <1>6 DEF IllFormed, neutral
<1>7. CASE CreateOrganization(c)
  <2>1. CASE req[c].slug \in organizations
    BY <1>4, <1>7, <2>1 DEF CreateOrganization, neutral
  <2>2. CASE req[c].slug \notin organizations
    <3>1. /\ pc[c] = "handle" /\ req[c].kind = "organization" /\ Goto(c, "answer")
          /\ Record(c, "allowed") /\ organizations' = organizations \cup {req[c].slug}
          /\ UNCHANGED <<namespaces, evidence, loaded, plan>>
      BY <1>7, <2>2 DEF CreateOrganization
    <3>2. /\ OnlyCall(c) /\ Shape' /\ PhaseOf(c)'
          /\ pc'[c] = "answer" /\ req' = req /\ result' = result /\ req[c] \in Requests
      BY <1>1, <3>1, Settling DEF Settled, Shape
    <3>3. Grows /\ DueOf(c)' /\ Open(c)
      BY <3>1, <3>2 DEF Grows, DueOf, Open, Settled
    <3> QED
      BY <2>2, <3>1, <3>2, <3>3, Allows
  <2> QED
    BY <2>1, <2>2
<1>8. CASE NamespaceLoad(c)
  <2>1. CASE req[c].organization \notin organizations
    BY <1>4, <1>8, <2>1 DEF NamespaceLoad, neutral
  <2>2. CASE req[c].organization \in organizations
    BY <1>2, <1>8, <2>2, GoesOn DEF NamespaceLoad, Settled
  <2> QED
    BY <2>1, <2>2
<1>9. CASE NamespaceCommit(c)
  <2>1. CASE namespaces[req[c].slug] # None
    BY <1>4, <1>9, <2>1 DEF NamespaceCommit, neutral
  <2>2. CASE namespaces[req[c].slug] = None
    <3>1. /\ pc[c] = "commit" /\ req[c].kind = "namespace" /\ Goto(c, "answer")
          /\ Record(c, "allowed") /\ UNCHANGED <<organizations, evidence, loaded, plan>>
          /\ namespaces' = [namespaces EXCEPT ![req[c].slug] = req[c].organization]
      BY <1>9, <2>2 DEF NamespaceCommit
    <3>2. req[c].slug \in Namespaces /\ req[c].organization \in Organizations
      BY <1>2, <3>1, EnterpriseAssumption
    <3>3. /\ namespaces' \in [Namespaces -> Organizations \cup {None}]
          /\ namespaces'[req[c].slug] = req[c].organization
          /\ \A n \in Namespaces : n # req[c].slug => namespaces'[n] = namespaces[n]
      BY <1>1, <3>1, <3>2 DEF Shape
    <3>4. /\ OnlyCall(c) /\ Shape' /\ PhaseOf(c)'
          /\ pc'[c] = "answer" /\ req' = req /\ result' = result /\ req[c] \in Requests
      BY <3>1, <3>3, Settling DEF Settled
    <3>5. Grows /\ DueOf(c)' /\ Open(c)
      BY <2>2, <3>1, <3>3, <3>4 DEF Grows, DueOf, Open, Settled
    <3> QED
      BY <2>2, <3>1, <3>3, <3>4, <3>5, Allows
  <2> QED
    BY <2>1, <2>2
<1>10. CASE PackLoad(c)
  BY <1>2, <1>10, GoesOn DEF PackLoad, Load, Settled
<1>11. CASE PackConflict(c)
  BY <1>4, <1>11 DEF PackConflict, neutral
<1>12. CASE PackCommit(c)
  BY <1>5, <1>12 DEF PackCommit, Changes
<1>13. CASE OwnershipRefused(c)
  BY <1>4, <1>13 DEF OwnershipRefused, neutral
<1>14. CASE OwnershipUpdate(c)
  <2>1. /\ pc[c] = "handle" /\ Goto(c, "locking") /\ req[c].kind = "ownership"
        /\ \E x : plan' = [plan EXCEPT ![c] = x]
        /\ UNCHANGED <<tables, enterpriseVars>>
    BY <1>14 DEF OwnershipUpdate, WillLock
  <2> QED
    BY <2>1, GoesOn DEF Settled
<1>15. CASE OwnershipCommit(c)
  BY <1>5, <1>15 DEF OwnershipCommit, Changes
<1>16. CASE EvidenceLoad(c)
  <2>1. CASE versions[<<req[c].skill, req[c].version>>] = None
    BY <1>4, <1>16, <2>1 DEF EvidenceLoad, neutral
  <2>2. CASE versions[<<req[c].skill, req[c].version>>] # None
    <3>1. /\ pc[c] = "handle" /\ Goto(c, "judge") /\ req[c].kind = "evidence"
          /\ \E x : loaded' = [loaded EXCEPT ![c] = x]
          /\ UNCHANGED <<organizations, evidence, rowVars>>
      BY <1>16, <2>2 DEF EvidenceLoad, Load
    <3> QED
      BY <1>2, <3>1, GoesOn DEF Settled
  <2> QED
    BY <2>1, <2>2
<1>17. CASE EvidenceDenied(c)
  <2>1. /\ pc[c] = "judge" /\ req[c].kind = "evidence"
        /\ Goto(c, "deny") /\ Record(c, "denied")
        /\ UNCHANGED <<namespaces, organizations, evidence, loaded, plan>>
    BY <1>17 DEF EvidenceDenied
  <2>2. /\ OnlyCall(c) /\ Shape' /\ PhaseOf(c)'
        /\ pc'[c] = "deny" /\ req' = req /\ result' = result
    BY <1>1, <2>1, Settling DEF Settled, Shape
  <2>3. ~MayReviewAsConfigured(c)
    BY <1>1, <1>17, <2>1, CallerAlike
       DEF EvidenceDenied, MayReview, MayReviewAsConfigured, PhaseOf, Roles
  <2>4. Open(c)
    BY <2>1 DEF Open, Settled
  <2>5. ~Says(c, "allowed")'
    BY <2>1, <2>4, OpenIsSilent DEF Says, Record
  <2>6. DueOf(c)'
    BY <2>1, <2>2, <2>3, <2>5 DEF DueOf, MayReviewAsConfigured, Configured, OnlyCall
  <2> QED
    BY <2>1, <2>2, <2>4, <2>6, Denies
<1>18. CASE EvidenceForbidden(c)
  <2>1. /\ pc[c] = "deny" /\ req[c].kind = "evidence"
        /\ Answer(c, "POLICY_NAMESPACE_FORBIDDEN")
        /\ UNCHANGED <<namespaces, organizations, evidence, loaded, plan, trail>>
    BY <1>18 DEF EvidenceForbidden
  <2>2. MayTell(c, "POLICY_NAMESPACE_FORBIDDEN")
    BY <2>1 DEF MayTell, Denials
  <2> QED
    BY <2>1, <2>2, Finishes
<1>19. CASE EvidenceCommit(c)
  <2>1. /\ pc[c] = "judge" /\ req[c].kind = "evidence"
        /\ Goto(c, "answer") /\ Record(c, "allowed")
        /\ evidence' = evidence \cup {[by |-> c, of |-> <<req[c].skill, req[c].version>>]}
        /\ UNCHANGED <<namespaces, organizations, loaded, plan>>
    BY <1>19 DEF EvidenceCommit
  <2>2. /\ OnlyCall(c) /\ Shape' /\ PhaseOf(c)'
        /\ pc'[c] = "answer" /\ req' = req /\ result' = result /\ req[c] \in Requests
    BY <1>1, <2>1, Settling DEF Settled, Shape
  <2>3. MayReviewAsConfigured(c)
    BY <1>1, <1>19, <2>1, CallerAlike
       DEF EvidenceCommit, MayReview, MayReviewAsConfigured, PhaseOf, Roles
  <2>4. Grows /\ Open(c)
    BY <2>1 DEF Grows, Open, Settled
  <2>5. ~Says(c, "denied")'
    BY <2>1, <2>4, OpenIsSilent DEF Says, Record
  <2>6. DueOf(c)'
    BY <2>1, <2>2, <2>3, <2>5 DEF DueOf, MayReviewAsConfigured, Configured, OnlyCall
  <2>7. \E x : evidence' = evidence \cup {[by |-> c, of |-> x]}
    BY <2>1
  <2> QED
    BY <2>1, <2>2, <2>4, <2>6, <2>7, Allows
<1> QED
  BY <1>6, <1>7, <1>8, <1>9, <1>10, <1>11, <1>12, <1>13, <1>14, <1>15, <1>16, <1>17, <1>18,
     <1>19
     DEF EnterpriseStep

LEMMA SubmissionKeeps ==
    ASSUME RequestInv, NEW c \in Calls, SubmissionStep(c), UNCHANGED enterpriseVars
    PROVE  RequestInv'
<1> USE DEF rowVars, tables, enterpriseVars, At
<1>1. Shape /\ PhaseOf(c)
  BY DEF RequestInv
<1>2. pc[c] = "handle" => plan[c] = <<>> /\ req[c] \in Requests
  BY <1>1 DEF PhaseOf
<1>3. pc[c] \in {"handle", "locking", "deny"} => caller[c] = CallerOf(settings, req[c].credentials)
  BY <1>1 DEF PhaseOf
<1> DEFINE verdict == PublishVerdict(settings, caller[c], req[c].metadata)
           neutral == {"SKILL_ALREADY_EXISTS", "SKILL_NOT_FOUND", "DUPLICATE_SKILL_VERSION",
                       "failed"}
<1>4. \A answer \in neutral : answer \notin Changes \cup Denials
  BY DEF Changes, Denials
<1> HIDE DEF neutral
<1>5. CASE SubmissionRefused(c)
  <2>1. Verdict422(req[c]) \notin Changes \cup Denials
    BY FaultsNeutral
  <2> QED
    BY <1>5, <2>1, Refuses DEF SubmissionRefused, Settled
<1>6. CASE PublishDenied(c)
  <2>1. /\ pc[c] = "handle" /\ req[c].kind = "publish" /\ verdict # "allowed"
        /\ Goto(c, "deny") /\ Record(c, "denied")
        /\ UNCHANGED <<namespaces, organizations, evidence, loaded, plan>>
    BY <1>6 DEF PublishDenied
  <2>2. /\ OnlyCall(c) /\ Shape' /\ PhaseOf(c)'
        /\ pc'[c] = "deny" /\ req' = req /\ result' = result
    BY <1>1, <2>1, Settling DEF Settled, Shape
  <2>3. Open(c)
    BY <2>1 DEF Open, Settled
  <2>4. result'[c] = "none" /\ ~Says(c, "allowed")'
    BY <2>1, <2>2, <2>3, OpenIsSilent DEF Says, Record
  <2>5. DueOf(c)'
    BY <2>1, <2>2, <2>4 DEF DueOf
  <2> QED
    BY <2>1, <2>2, <2>3, <2>5, Denies
<1>11. CASE PublishForbidden(c)
  <2>1. /\ pc[c] = "deny" /\ req[c].kind = "publish" /\ Answer(c, verdict)
        /\ UNCHANGED <<namespaces, organizations, evidence, loaded, plan, trail>>
    BY <1>11 DEF PublishForbidden
  <2>2. verdict \in Denials
    BY <1>1, <2>1, VerdictAmong DEF PhaseOf
  <2>3. MayTell(c, verdict)
    BY <2>1, <2>2 DEF MayTell
  <2>4. ASSUME verdict = "POLICY_NAMESPACE_FORBIDDEN"
        PROVE  ~MayPublish(c)
    BY <1>3, <2>1, <2>4, ForbiddenReachesNot, CallerAlike DEF MayPublish, Roles
  <2> QED
    BY <2>1, <2>3, <2>4, Finishes
<1>7. CASE PublishRefused(c)
  <2>1. PICK answer \in neutral : Answer(c, answer)
    BY <1>7 DEF PublishRefused, neutral
  <2>2. pc[c] = "handle" /\ UNCHANGED <<rowVars, enterpriseVars>>
    BY <1>7 DEF PublishRefused, Judged
  <2> QED
    BY <1>4, <2>1, <2>2, Refuses DEF Settled
<1>8. CASE PublishWrite(c)
  <2>1. /\ pc[c] = "handle" /\ Goto(c, "locking") /\ Judged(c)
        /\ \E x : plan' = [plan EXCEPT ![c] = x]
        /\ UNCHANGED <<tables, enterpriseVars>>
    BY <1>8 DEF PublishWrite, WillLock, Judged
  <2> QED
    BY <2>1, GoesOn DEF Judged, Settled
<1>9. CASE PublishConflict(c)
  <2>1. PICK answer \in neutral : Answer(c, answer)
    BY <1>9 DEF PublishConflict, neutral
  <2>2. pc[c] = "locking" /\ EndTransaction(c) /\ UNCHANGED <<tables, enterpriseVars>>
    BY <1>9 DEF PublishConflict
  <2> QED
    BY <1>4, <2>1, <2>2, Refuses DEF Settled
<1>10. CASE PublishCommit(c)
  <2>1. /\ pc[c] = "locking" /\ req[c].kind = "publish"
        /\ Goto(c, "answer") /\ Record(c, "allowed") /\ EndTransaction(c)
        /\ UNCHANGED <<namespaces, organizations, evidence, loaded>>
    BY <1>10 DEF PublishCommit
  <2>2. /\ OnlyCall(c) /\ Shape' /\ PhaseOf(c)'
        /\ pc'[c] = "answer" /\ req' = req /\ result' = result
    BY <1>1, <2>1, Settling DEF Settled, Shape
  <2>3. req[c] \in Requests /\ Verdict422(req[c]) = "none" /\ verdict = "allowed"
    BY <1>1, <2>1 DEF PhaseOf
  <2>4. Sound(req[c].bundle)
    BY <2>1, <2>3, BundlesSound
  <2>5. MayPublish(c)
    BY <1>3, <2>1, <2>3, AllowedReaches, CallerAlike DEF MayPublish, Roles
  <2>6. Grows /\ Open(c)
    BY <2>1 DEF Grows, Open, Settled
  <2>7. result'[c] = "none"
    BY <2>2, <2>6, OpenIsSilent
  <2>8. DueOf(c)'
    BY <2>1, <2>2, <2>4, <2>5, <2>7 DEF DueOf, MayPublish, Configured, OnlyCall
  <2> QED
    BY <2>1, <2>2, <2>3, <2>6, <2>8, Allows
<1> QED
  BY <1>5, <1>6, <1>7, <1>8, <1>9, <1>10, <1>11 DEF SubmissionStep

LEMMA LocksKeep ==
    ASSUME RequestInv, NEW c \in Calls, TakeLock(c) \/ KillVictim(c) \/ Break(c) \/ Confirm(c),
           UNCHANGED enterpriseVars
    PROVE  RequestInv'
<1> USE DEF tables, enterpriseVars, accessVars
<1>1. Shape /\ PhaseOf(c)
  BY DEF RequestInv
<1>2. plan[c] # <<>> => pc[c] \in {"locking", "observing"}
  BY <1>1 DEF PhaseOf
<1>3. "failed" \notin Changes \cup Denials
  BY DEF Changes, Denials
<1>4. CASE TakeLock(c)
  <2>1. OnlyCall(c) /\ Shape'
    BY <1>1, <1>4, Frame DEF TakeLock
  <2>2. PhaseOf(c)'
    BY <1>1, <1>2, <1>4 DEF TakeLock, PhaseOf, At
  <2>3. Open(c) /\ Open(c)'
    BY <1>2, <1>4 DEF TakeLock, Open, Settled
  <2> QED
    BY <1>2, <1>4, <2>1, <2>2, <2>3, Moves DEF TakeLock
<1>5. CASE KillVictim(c)
  BY <1>2, <1>3, <1>5, DeadlockedWaits, Refuses DEF KillVictim
<1>6. CASE Break(c)
  BY <1>3, <1>6, Refuses DEF Break, InService
<1>7. CASE Confirm(c)
  <2>1. MayTell(c, "created")
    BY <1>7 DEF Confirm, MayTell, Changes
  <2> QED
    BY <1>7, <2>1, Finishes DEF Confirm, rowVars
<1> QED
  BY <1>4, <1>5, <1>6, <1>7

-----------------------------------------------------------------------------
(* The theorems *)

LEMMA RequestsBegin == Init => RequestInv
<1> SUFFICES ASSUME Init PROVE RequestInv
  OBVIOUS
<1> USE DEF Init, AccessInit, RowsInit, EnterpriseInit
<1>1. Shape
  BY DEF Shape
<1>2. ASSUME NEW c \in Calls PROVE PhaseOf(c) /\ TrailOf(c) /\ DueOf(c)
  BY DEF PhaseOf, TrailOf, DueOf, At, Says, Changes, Denials
<1>3. OneFounderEach
  BY DEF OneFounderEach, Says
<1> QED
  BY <1>1, <1>2, <1>3 DEF RequestInv

LEMMA RequestsGoOn == RequestInv /\ [Next]_vars => RequestInv'
<1> SUFFICES ASSUME RequestInv, [Next]_vars PROVE RequestInv'
  OBVIOUS
<1>1. CASE Process /\ UNCHANGED <<rowVars, starVars, enterpriseVars>>
  BY <1>1, Stays DEF Process, Start, Tick, rowVars, tables, enterpriseVars
<1>2. ASSUME NEW c \in Calls, Step(c) PROVE RequestInv'
  BY <1>2, AccessKeeps, StarsKeep, EnterpriseKeeps, SubmissionKeeps, LocksKeep DEF Step
<1>3. ASSUME NEW c \in Calls, Break(c), UNCHANGED enterpriseVars PROVE RequestInv'
  BY <1>3, LocksKeep
<1>4. CASE UNCHANGED vars
  BY <1>4, Stays DEF vars, accessVars, rowVars, tables, enterpriseVars
<1> QED
  BY <1>1, <1>2, <1>3, <1>4 DEF Next

LEMMA RequestsSafe == Spec => []RequestInv
BY RequestsBegin, RequestsGoOn, PTL DEF Spec

\* Whatever fails, before a commit or after it: an answered change or denial has its
\* event, who left an event is answered what it says or has failed since, and what the
\* events say was founded is there, founded once.
THEOREM TrailTruth == Spec => []TrailTellsOutcomes
<1>1. RequestInv => TrailTellsOutcomes
  BY DEF RequestInv, OneFounderEach, TrailOf, TrailTellsOutcomes, Foundations
<1> QED
  BY <1>1, RequestsSafe, PTL

\* Versions come in sound bundles from callers who may publish them, evidence from
\* callers who may review the version, whether they hear of it or not; nobody who may
\* is told that it is forbidden.
THEOREM EffectsDue == Spec => []EffectsWereDue
<1>1. RequestInv => EffectsWereDue
  BY DEF RequestInv, DueOf, EffectsWereDue, MayReviewAsConfigured
<1> QED
  BY <1>1, RequestsSafe, PTL

-----------------------------------------------------------------------------
(* Locks *)

\* The strength in which a kind of call locks rows.
ModeOf(kind) ==
    CASE kind = "stars"                     -> "update"
      [] kind \in {"install", "ownership"} -> "no_key_update"
      [] OTHER                             -> "key_share"

LockIn(mode) == [skill : Skills, mode : {mode}]

\* The locks a batch has still to take are of ascending skills, above those it holds.
InOrder(locks, still) ==
    /\ \A i, j \in DOMAIN still : i < j => still[i].skill < still[j].skill
    /\ \A lock \in locks, i \in DOMAIN still : lock.skill < still[i].skill

OneRow(locks, still) == still # <<>> => Len(still) = 1 /\ locks = {}

\* What holds of a call's locks: it has some in three phases only, of one strength; a
\* batch takes them in order; an install and a move have one row.
Locking(c) ==
    /\ pc[c] = "observing" => req[c].kind = "import"
    /\ pc[c] = "events" => req[c].kind = "stars"
    /\ req[c].kind \in {"stars", "install", "ownership", "import", "publish"}
    /\ plan[c] \in Seq(LockIn(ModeOf(req[c].kind)))
    /\ held[c] \subseteq LockIn(ModeOf(req[c].kind)) /\ IsFiniteSet(held[c])
    /\ req[c].kind = "stars" => InOrder(held[c], plan[c])
    /\ req[c].kind \in {"install", "ownership"} => OneRow(held[c], plan[c])

LocksOf(c) ==
    IF pc[c] \in {"locking", "observing", "events"} THEN Locking(c) ELSE held[c] = {}

\* No two calls hold locks that conflict.
Excluded(c, d) ==
    \A lock \in held[c], other \in held[d] :
        lock.skill = other.skill => ~Conflicts(lock.mode, other.mode)

LockInv ==
    /\ DOMAIN held = Calls
    /\ \A c \in Calls : LocksOf(c)
    /\ \A c, d \in Calls : c # d => Excluded(c, d)

-----------------------------------------------------------------------------
(* Batches of star events *)

\* The stars that a batch may change.
Mine(c) == {<<req[c].user, s>> : s \in SkillsOf(req[c].events)}

\* What a batch has made of an event: the star is as the event says, and its answer is
\* the number of those who star the skill.
Told(c, i) ==
    LET event == req[c].events[i]
    IN  /\ event.action = "star" <=> <<req[c].user, event.skill>> \in Seen(c)
        /\ counts[c][i] = Cardinality(StarsOf(Seen(c), event.skill))

\* A batch at its events holds every row it needs; the last event so far of each skill
\* has taken effect.
BatchOf(c) ==
    At(c, "stars", "events") =>
        /\ SkillsOf(req[c].events) \subseteq HasSkills(c)
        /\ work[c].added \subseteq Mine(c) /\ work[c].removed \subseteq Mine(c)
        /\ IsFiniteSet(work[c].added)
        /\ counts[c] \in Seq(Nat) /\ Len(counts[c]) <= Len(req[c].events)
        /\ \A i \in DOMAIN counts[c] :
            (\A j \in DOMAIN counts[c] : i < j => req[c].events[j].skill # req[c].events[i].skill)
            => Told(c, i)

StarsInv ==
    /\ DOMAIN work = Calls /\ DOMAIN counts = Calls
    /\ stars \subseteq Pair /\ IsFiniteSet(stars)
    /\ \A c \in Calls : BatchOf(c)

-----------------------------------------------------------------------------
(* Ascending sequences of rows *)

\* A finite set of numbers has an ascending enumeration: take its least element out.
LEMMA EnumerationExists ==
    ASSUME NEW S \in SUBSET Nat, IsFiniteSet(S)
    PROVE  \E rows \in [1..Cardinality(S) -> S] :
             \A i, j \in DOMAIN rows : i < j => rows[i] < rows[j]
<1> DEFINE Listed(T) == \E rows \in [1..Cardinality(T) -> T] :
                           \A i, j \in DOMAIN rows : i < j => rows[i] < rows[j]
           unlisted == {n \in Nat : \E T \in SUBSET Nat :
                           IsFiniteSet(T) /\ Cardinality(T) = n /\ ~Listed(T)}
<1>1. SUFFICES ASSUME ~Listed(S) PROVE FALSE
  OBVIOUS
<1>2. Cardinality(S) \in unlisted
  BY <1>1, FS_CardinalityType
<1>3. PICK n \in unlisted : \A m \in unlisted : n <= m
  BY <1>2, Least
<1>4. PICK T \in SUBSET Nat : IsFiniteSet(T) /\ Cardinality(T) = n /\ ~Listed(T)
  BY <1>3
<1>5. T # {}
  <2> SUFFICES ASSUME T = {} PROVE FALSE
    OBVIOUS
  <2> DEFINE none == [i \in 1..Cardinality(T) |-> 0]
  <2>1. none \in [1..Cardinality(T) -> T] /\ DOMAIN none = {}
    BY FS_EmptySet
  <2> HIDE DEF none
  <2>2. \A i, j \in DOMAIN none : i < j => none[i] < none[j]
    BY <2>1
  <2> QED
    BY <1>4, <2>1, <2>2
<1>6. PICK least \in T : \A t \in T : least <= t
  BY <1>5, Least
<1> DEFINE rest == T \ {least}
<1>7. IsFiniteSet(rest) /\ Cardinality(rest) = n - 1 /\ n \in Nat
  BY <1>4, FS_RemoveElement
<1>8. n - 1 \in Nat
  BY <1>7, FS_CardinalityType
<1>9. Listed(rest)
  <2> SUFFICES ASSUME ~Listed(rest) PROVE FALSE
    OBVIOUS
  <2>1. n - 1 \in unlisted
    BY <1>7, <1>8
  <2> QED
    BY <1>3, <1>7, <2>1
<1>10. PICK tail \in [1..(n - 1) -> rest] : \A i, j \in DOMAIN tail : i < j => tail[i] < tail[j]
  BY <1>7, <1>9
<1> DEFINE rows == [i \in 1..n |-> IF i = 1 THEN least ELSE tail[i - 1]]
<1>11. ASSUME NEW i \in 1..n, i # 1
       PROVE  i - 1 \in 1..(n - 1) /\ tail[i - 1] \in rest
  BY <1>7, <1>10, <1>11
<1>12. rows \in [1..Cardinality(T) -> T]
  BY <1>4, <1>6, <1>11
<1>13. ASSUME NEW i \in 1..n, NEW j \in 1..n, i < j
       PROVE  rows[i] < rows[j]
  <2>1. j # 1 /\ rows[j] = tail[j - 1] /\ tail[j - 1] \in rest
    BY <1>7, <1>11, <1>13
  <2>2. CASE i = 1
    <3>1. rows[i] = least /\ least \in Nat /\ tail[j - 1] \in Nat /\ tail[j - 1] # least
      BY <2>1, <2>2
    <3>2. least <= tail[j - 1]
      BY <1>6, <2>1
    <3> QED
      BY <2>1, <3>1, <3>2
  <2>3. CASE i # 1
    <3>1. rows[i] = tail[i - 1] /\ i - 1 \in 1..(n - 1) /\ j - 1 \in 1..(n - 1) /\ i - 1 < j - 1
      BY <1>7, <1>11, <1>13, <2>1, <2>3
    <3> QED
      BY <1>10, <2>1, <3>1
  <2> QED
    BY <2>2, <2>3
<1> QED
  BY <1>4, <1>12, <1>13

LEMMA AscendingRows ==
    ASSUME NEW S \in SUBSET Nat, IsFiniteSet(S)
    PROVE  /\ Ascending(S) \in Seq(S)
           /\ \A i, j \in DOMAIN Ascending(S) : i < j => Ascending(S)[i] < Ascending(S)[j]
<1>1. /\ Ascending(S) \in [1..Cardinality(S) -> S]
      /\ \A i, j \in DOMAIN Ascending(S) : i < j => Ascending(S)[i] < Ascending(S)[j]
  BY EnumerationExists DEF Ascending
<1>2. Cardinality(S) \in Nat
  BY FS_CardinalityType
<1> QED
  BY <1>1, <1>2, SeqDef

\* What a sequence of events, or of rows, names is finite.
LEMMA NamedFinite ==
    ASSUME NEW E, NEW events \in Seq(E)
    PROVE  IsFiniteSet(SkillsOf(events))
<1>1. Len(events) \in Nat /\ DOMAIN events = 1..Len(events)
  OBVIOUS
<1>2. IsFiniteSet(DOMAIN events)
  BY <1>1, FS_Interval
<1> DEFINE names == [i \in DOMAIN events |-> events[i].skill]
<1>3. names \in Surjection(DOMAIN events, SkillsOf(events))
  BY DEF Surjection, SkillsOf
<1> QED
  BY <1>2, <1>3, FS_Surjection

-----------------------------------------------------------------------------
(* Steps that take locks and let them go *)

TrafficInv == LockInv /\ StarsInv

LockPhases == {"locking", "observing", "events"}

\* What is kept of every other call stays.
Untouched(c) ==
    \A d \in Calls \ {c} :
        /\ pc'[d] = pc[d] /\ req'[d] = req[d] /\ plan'[d] = plan[d] /\ held'[d] = held[d]
        /\ work'[d] = work[d] /\ counts'[d] = counts[d]

TrafficShape == DOMAIN held = Calls /\ DOMAIN work = Calls /\ DOMAIN counts = Calls

LEMMA TrafficFrame ==
    ASSUME Shape, TrafficShape, NEW c \in Calls,
           pc' = pc \/ (\E x : pc' = [pc EXCEPT ![c] = x]),
           req' = req \/ (\E x : req' = [req EXCEPT ![c] = x]),
           plan' = plan \/ (\E x : plan' = [plan EXCEPT ![c] = x]),
           held' = held \/ (\E x : held' = [held EXCEPT ![c] = x]),
           work' = work \/ (\E x : work' = [work EXCEPT ![c] = x]),
           counts' = counts \/ (\E x : counts' = [counts EXCEPT ![c] = x])
    PROVE  Untouched(c) /\ TrafficShape'
<1>1. \A d \in Calls \ {c} : pc'[d] = pc[d] /\ req'[d] = req[d] /\ plan'[d] = plan[d]
  BY DEF Shape
<1>2. DOMAIN held' = Calls /\ \A d \in Calls \ {c} : held'[d] = held[d]
  BY DEF TrafficShape
<1>3. DOMAIN work' = Calls /\ \A d \in Calls \ {c} : work'[d] = work[d]
  BY DEF TrafficShape
<1>4. DOMAIN counts' = Calls /\ \A d \in Calls \ {c} : counts'[d] = counts[d]
  BY DEF TrafficShape
<1> QED
  BY <1>1, <1>2, <1>3, <1>4 DEF Untouched, TrafficShape

\* What is said of a call stays as long as its own state and the stars of its skills do.
LEMMA LocksOfStays ==
    ASSUME NEW d, LocksOf(d), pc'[d] = pc[d], req'[d] = req[d], plan'[d] = plan[d],
           held'[d] = held[d]
    PROVE  LocksOf(d)'
BY DEF LocksOf, Locking

LEMMA SeenStays ==
    ASSUME NEW d, NEW s, work'[d] = work[d], StarsOf(stars, s)' = StarsOf(stars, s)
    PROVE  StarsOf(Seen(d), s)' = StarsOf(Seen(d), s)
BY DEF StarsOf, Seen

LEMMA BatchOfStays ==
    ASSUME NEW d, BatchOf(d), pc'[d] = pc[d], req'[d] = req[d], held'[d] = held[d],
           work'[d] = work[d], counts'[d] = counts[d],
           pc[d] # "idle" => req[d] \in Requests,
           At(d, "stars", "events") =>
             \A s \in SkillsOf(req[d].events) : StarsOf(stars, s)' = StarsOf(stars, s)
    PROVE  BatchOf(d)'
<1> SUFFICES ASSUME At(d, "stars", "events")
             PROVE  BatchOf(d)'
  BY DEF BatchOf, At
<1> DEFINE events == req[d].events
<1>1. /\ SkillsOf(events) \subseteq HasSkills(d)
      /\ work[d].added \subseteq Mine(d) /\ work[d].removed \subseteq Mine(d)
      /\ IsFiniteSet(work[d].added)
      /\ counts[d] \in Seq(Nat) /\ Len(counts[d]) <= Len(events)
      /\ \A i \in DOMAIN counts[d] :
          (\A j \in DOMAIN counts[d] : i < j => events[j].skill # events[i].skill) => Told(d, i)
  BY DEF BatchOf
<1>2. HasSkills(d)' = HasSkills(d) /\ Mine(d)' = Mine(d)
  BY DEF HasSkills, Mine
<1>3. ASSUME NEW i \in DOMAIN counts[d], Told(d, i)
      PROVE  Told(d, i)'
  <2> DEFINE s == events[i].skill
             mark == <<req[d].user, s>>
  <2>1. s \in SkillsOf(events)
    <3>1. events \in Seq(Event)
      BY StarsAssumption DEF At
    <3>2. i \in DOMAIN events
      BY <1>1, <3>1
    <3> QED
      BY <3>2 DEF SkillsOf
  <2>2. StarsOf(Seen(d), s)' = StarsOf(Seen(d), s)
    BY <2>1, SeenStays
  <2>3. \A table : mark \in table <=> mark \in StarsOf(table, s)
    BY DEF StarsOf
  <2>4. (mark \in Seen(d))' <=> mark \in Seen(d)
    BY <2>2, <2>3
  <2> HIDE DEF mark
  <2>5. Told(d, i) <=> /\ events[i].action = "star" <=> mark \in Seen(d)
                       /\ counts[d][i] = Cardinality(StarsOf(Seen(d), s))
    BY DEF Told, mark
  <2>6. Told(d, i)' <=> /\ events[i].action = "star" <=> (mark \in Seen(d))'
                        /\ counts[d][i] = Cardinality(StarsOf(Seen(d), s)')
    BY DEF Told, mark
  <2> QED
    BY <1>3, <2>2, <2>4, <2>5, <2>6
<1> QED
  BY <1>1, <1>2, <1>3 DEF BatchOf

LEMMA ConflictsBothWays ==
    ASSUME NEW m, NEW n
    PROVE  Conflicts(m, n) <=> Conflicts(n, m)
BY DEF Conflicts

\* A step of one call that leaves the stars alone.
LEMMA TrafficStep ==
    ASSUME RequestInv, TrafficInv, NEW c \in Calls, Untouched(c), TrafficShape',
           stars' = stars, LocksOf(c)', BatchOf(c)',
           \A d \in Calls \ {c} : Excluded(c, d)'
    PROVE  TrafficInv'
<1>1. ASSUME NEW d \in Calls \ {c} PROVE LocksOf(d)' /\ BatchOf(d)' /\ Excluded(d, c)'
  <2>1. LocksOf(d) /\ BatchOf(d) /\ PhaseOf(d)
    BY DEF TrafficInv, LockInv, StarsInv, RequestInv
  <2>2. /\ pc'[d] = pc[d] /\ req'[d] = req[d] /\ plan'[d] = plan[d] /\ held'[d] = held[d]
        /\ work'[d] = work[d] /\ counts'[d] = counts[d]
    BY DEF Untouched
  <2>3. LocksOf(d)'
    BY <2>1, <2>2, LocksOfStays
  <2>4. BatchOf(d)'
    BY <2>1, <2>2, BatchOfStays DEF StarsOf, PhaseOf
  <2>5. Excluded(d, c)'
    BY ConflictsBothWays DEF Excluded
  <2> QED
    BY <2>3, <2>4, <2>5
<1>2. ASSUME NEW d \in Calls \ {c}, NEW e \in Calls \ {c}, d # e PROVE Excluded(d, e)'
  BY <1>2 DEF Untouched, TrafficInv, LockInv, Excluded
<1>3. LockInv'
  BY <1>1, <1>2 DEF TrafficShape, LockInv
<1>4. StarsInv'
  BY <1>1 DEF TrafficShape, StarsInv, TrafficInv
<1> QED
  BY <1>3, <1>4 DEF TrafficInv

\* A call that takes no lock conflicts with no more calls than before.
LEMMA NoNewConflicts ==
    ASSUME TrafficInv, NEW c \in Calls, held'[c] \subseteq held[c], Untouched(c)
    PROVE  \A d \in Calls \ {c} : Excluded(c, d)'
BY DEF TrafficInv, LockInv, Excluded, Untouched

LEMMA TrafficShaped ==
    ASSUME TrafficInv
    PROVE  TrafficShape
BY DEF TrafficInv, LockInv, StarsInv, TrafficShape

\* A transaction that ends lets go of its locks.
LEMMA Releases ==
    ASSUME RequestInv, TrafficInv, NEW c \in Calls,
           (\E answer : Answer(c, answer)) \/ Goto(c, "answer"),
           EndTransaction(c), UNCHANGED <<stars, work, counts>>
    PROVE  TrafficInv'
<1>1. PICK phase \in {"done", "answer"} : pc' = [pc EXCEPT ![c] = phase] /\ req' = req
  BY DEF Answer, Goto
<1>2. /\ Shape /\ TrafficShape
      /\ plan' = [plan EXCEPT ![c] = <<>>] /\ held' = [held EXCEPT ![c] = {}]
  BY TrafficShaped DEF RequestInv, EndTransaction
<1>3. Untouched(c) /\ TrafficShape'
  BY <1>1, <1>2, TrafficFrame
<1>4. pc'[c] = phase /\ held'[c] = {}
  BY <1>1, <1>2 DEF Shape, TrafficShape
<1>5. LocksOf(c)' /\ BatchOf(c)'
  BY <1>4 DEF LocksOf, BatchOf, At
<1> QED
  BY <1>3, <1>4, <1>5, NoNewConflicts, TrafficStep

\* A step between phases that have no locks.
LEMMA Unlocked ==
    ASSUME RequestInv, TrafficInv, NEW c \in Calls, pc[c] \notin LockPhases,
           NEW phase, phase \notin LockPhases, pc' = [pc EXCEPT ![c] = phase],
           req' = req \/ (\E r : req' = [req EXCEPT ![c] = r]),
           counts' = counts \/ (\E x : counts' = [counts EXCEPT ![c] = x]),
           UNCHANGED <<plan, held, stars, work>>
    PROVE  TrafficInv'
<1>1. Shape /\ TrafficShape /\ LocksOf(c)
  BY TrafficShaped DEF RequestInv, TrafficInv, LockInv
<1>2. Untouched(c) /\ TrafficShape'
  BY <1>1, TrafficFrame
<1>3. pc'[c] = phase /\ held'[c] = {}
  BY <1>1 DEF Shape, LocksOf, LockPhases
<1>4. LocksOf(c)' /\ BatchOf(c)'
  BY <1>3 DEF LocksOf, BatchOf, At, LockPhases
<1> QED
  BY <1>2, <1>3, <1>4, NoNewConflicts, TrafficStep

\* A statement starts that has to lock rows.
LEMMA Plans ==
    ASSUME RequestInv, TrafficInv, NEW c \in Calls, NEW locks, WillLock(c, locks),
           NEW phase \in {"locking", "observing"}, Goto(c, phase), UNCHANGED starVars,
           pc[c] = "handle" \/ (pc[c] = "observing" /\ req[c].kind = "import"),
           req[c].kind \in {"stars", "install", "ownership", "import", "publish"},
           phase = "observing" => req[c].kind = "import",
           locks \in Seq(LockIn(ModeOf(req[c].kind))),
           req[c].kind = "stars" =>
             \A i, j \in DOMAIN locks : i < j => locks[i].skill < locks[j].skill,
           req[c].kind \in {"install", "ownership"} => locks = <<>> \/ Len(locks) = 1
    PROVE  TrafficInv'
<1>1. /\ Shape /\ TrafficShape /\ LocksOf(c)
      /\ pc' = [pc EXCEPT ![c] = phase] /\ req' = req
      /\ plan' = [plan EXCEPT ![c] = locks] /\ UNCHANGED <<held, stars, work, counts>>
  BY TrafficShaped DEF RequestInv, TrafficInv, LockInv, Goto, WillLock, starVars
<1>2. Untouched(c) /\ TrafficShape'
  BY <1>1, TrafficFrame
<1>3. pc'[c] = phase /\ plan'[c] = locks /\ held'[c] = held[c] /\ req'[c] = req[c]
  BY <1>1 DEF Shape
<1>4. /\ held[c] \subseteq LockIn(ModeOf(req[c].kind)) /\ IsFiniteSet(held[c])
      /\ req[c].kind # "import" => held[c] = {}
  BY <1>1, FS_EmptySet DEF LocksOf, Locking
<1>5. Locking(c)'
  BY <1>3, <1>4 DEF Locking, InOrder, OneRow
<1>6. LocksOf(c)' /\ BatchOf(c)'
  BY <1>3, <1>5 DEF LocksOf, BatchOf, At
<1> QED
  BY <1>1, <1>2, <1>3, <1>6, NoNewConflicts, TrafficStep

LEMMA TakesLock ==
    ASSUME RequestInv, TrafficInv, NEW c \in Calls, TakeLock(c), UNCHANGED starVars
    PROVE  TrafficInv'
<1> DEFINE mode == ModeOf(req[c].kind)
           first == Head(plan[c])
<1>1. /\ Shape /\ TrafficShape /\ LocksOf(c) /\ PhaseOf(c)
      /\ plan[c] # <<>> /\ (\A d \in Calls : ~WaitsFor(c, d))
      /\ pc' = pc /\ req' = req
      /\ plan' = [plan EXCEPT ![c] = Tail(plan[c])]
      /\ held' = [held EXCEPT ![c] = held[c] \cup {first}]
      /\ UNCHANGED <<stars, work, counts>>
  BY TrafficShaped DEF RequestInv, TrafficInv, LockInv, TakeLock, starVars, accessVars
<1>2. Untouched(c) /\ TrafficShape'
  BY <1>1, TrafficFrame
<1>3. /\ pc'[c] = pc[c] /\ req'[c] = req[c]
      /\ plan'[c] = Tail(plan[c]) /\ held'[c] = held[c] \cup {first}
  BY <1>1 DEF Shape, TrafficShape
<1>4. pc[c] \in {"locking", "observing"} /\ Locking(c)
  BY <1>1 DEF PhaseOf, LocksOf
<1> HIDE DEF mode, first
<1>5. /\ plan[c] \in Seq(LockIn(mode)) /\ held[c] \subseteq LockIn(mode) /\ IsFiniteSet(held[c])
      /\ req[c].kind = "stars" => InOrder(held[c], plan[c])
      /\ req[c].kind \in {"install", "ownership"} => OneRow(held[c], plan[c])
  BY <1>4 DEF Locking, mode
<1>6. /\ Len(plan[c]) \in Nat /\ Len(plan[c]) > 0 /\ DOMAIN plan[c] = 1..Len(plan[c])
      /\ first = plan[c][1] /\ first \in LockIn(mode)
      /\ Tail(plan[c]) \in Seq(LockIn(mode)) /\ Len(Tail(plan[c])) = Len(plan[c]) - 1
      /\ DOMAIN Tail(plan[c]) = 1..(Len(plan[c]) - 1)
      /\ \A i \in DOMAIN Tail(plan[c]) : Tail(plan[c])[i] = plan[c][i + 1]
  BY <1>1, <1>5, HeadTailProperties DEF first
<1>7. held'[c] \subseteq LockIn(mode) /\ IsFiniteSet(held'[c])
  <2>1. held[c] \cup {first} \subseteq LockIn(mode)
    BY <1>5, <1>6
  <2>2. IsFiniteSet(held[c] \cup {first})
    BY <1>5, FS_AddElement
  <2> QED
    BY <1>3, <2>1, <2>2
<1>8. ASSUME req[c].kind = "stars" PROVE InOrder(held'[c], plan'[c])
  <2>1. InOrder(held[c], plan[c])
    BY <1>5, <1>8
  <2>2. ASSUME NEW i \in DOMAIN plan'[c]
        PROVE  /\ i \in Nat /\ i + 1 \in DOMAIN plan[c] /\ 1 \in DOMAIN plan[c] /\ 1 < i + 1
               /\ plan'[c][i] = plan[c][i + 1]
    BY <1>3, <1>6, <2>2
  <2>3. \A i, j \in DOMAIN plan'[c] : i < j => plan'[c][i].skill < plan'[c][j].skill
    <3> SUFFICES ASSUME NEW i \in DOMAIN plan'[c], NEW j \in DOMAIN plan'[c], i < j
                 PROVE  plan'[c][i].skill < plan'[c][j].skill
      OBVIOUS
    <3>1. i + 1 < j + 1
      BY <2>2
    <3> QED
      BY <2>1, <2>2, <3>1 DEF InOrder
  <2>4. \A lock \in held'[c], i \in DOMAIN plan'[c] : lock.skill < plan'[c][i].skill
    <3> SUFFICES ASSUME NEW lock \in held'[c], NEW i \in DOMAIN plan'[c]
                 PROVE  lock.skill < plan'[c][i].skill
      OBVIOUS
    <3>1. CASE lock \in held[c]
      BY <2>1, <2>2, <3>1 DEF InOrder
    <3>2. CASE lock = plan[c][1]
      BY <2>1, <2>2, <3>2 DEF InOrder
    <3> QED
      BY <1>3, <1>6, <3>1, <3>2
  <2> QED
    BY <2>3, <2>4 DEF InOrder
<1>9. ASSUME req[c].kind \in {"install", "ownership"} PROVE plan'[c] = <<>>
  <2>1. Len(plan[c]) = 1
    BY <1>1, <1>5, <1>9 DEF OneRow
  <2> QED
    BY <1>3, <1>6, <2>1, EmptySeq
<1>10. Locking(c)'
  BY <1>3, <1>4, <1>6, <1>7, <1>8, <1>9 DEF Locking, OneRow, mode
<1>11. LocksOf(c)' /\ BatchOf(c)'
  BY <1>3, <1>4, <1>10 DEF LocksOf, BatchOf, At
<1>12. ASSUME NEW d \in Calls \ {c} PROVE Excluded(c, d)'
  <2>1. held'[d] = held[d] /\ Excluded(c, d)
    BY <1>2 DEF Untouched, TrafficInv, LockInv
  <2>2. ASSUME NEW other \in held[d], first.skill = other.skill
        PROVE  ~Conflicts(first.mode, other.mode)
    BY <1>1, <2>2, ConflictsBothWays DEF WaitsFor, first
  <2> QED
    BY <1>3, <2>1, <2>2 DEF Excluded
<1> QED
  BY <1>1, <1>2, <1>11, <1>12, TrafficStep

-----------------------------------------------------------------------------
(* The steps of a batch *)

LEMMA BatchBegins ==
    ASSUME RequestInv, TrafficInv, NEW c \in Calls, StarsLocked(c)
    PROVE  TrafficInv'
<1>1. /\ Shape /\ TrafficShape /\ LocksOf(c)
      /\ At(c, "stars", "locking") /\ plan[c] = <<>>
      /\ SkillsOf(req[c].events) \subseteq HasSkills(c)
      /\ pc' = [pc EXCEPT ![c] = "events"] /\ req' = req
      /\ work' = [work EXCEPT ![c] = [added |-> {}, removed |-> {}]]
      /\ counts' = [counts EXCEPT ![c] = <<>>]
      /\ UNCHANGED <<plan, held, stars>>
  BY TrafficShaped DEF RequestInv, TrafficInv, LockInv, StarsLocked, Goto, rowVars
<1>2. Untouched(c) /\ TrafficShape'
  BY <1>1, TrafficFrame
<1>3. /\ pc'[c] = "events" /\ req'[c] = req[c] /\ plan'[c] = plan[c] /\ held'[c] = held[c]
      /\ work'[c] = [added |-> {}, removed |-> {}] /\ counts'[c] = <<>>
  BY <1>1 DEF Shape, TrafficShape
<1>4. LocksOf(c)'
  BY <1>1, <1>3 DEF LocksOf, Locking, At
<1>5. BatchOf(c)'
  <2>1. req[c] \in Requests /\ Len(req[c].events) \in Nat
    <3>1. req[c] \in Requests /\ req[c].kind = "stars"
      BY <1>1 DEF RequestInv, PhaseOf, At
    <3> QED
      BY <3>1, StarsAssumption
  <2>2. work'[c].added = {} /\ work'[c].removed = {}
    BY <1>3
  <2>3. SkillsOf(req'[c].events) \subseteq HasSkills(c)'
    BY <1>1, <1>3 DEF HasSkills
  <2>4. DOMAIN counts'[c] = {} /\ counts'[c] \in Seq(Nat) /\ Len(counts'[c]) = 0
    BY <1>3
  <2> QED
    BY <1>3, <2>1, <2>2, <2>3, <2>4, FS_EmptySet DEF BatchOf
<1> QED
  BY <1>1, <1>2, <1>3, <1>4, <1>5, NoNewConflicts, TrafficStep

\* What an event makes of the table, seen from the batch.
LEMMA EventTakesEffect ==
    ASSUME NEW c, NEW event, event.action \in {"star", "unstar"}
    PROVE  LET mine == WithEvent(c, event)
               seen == (stars \cup mine.added) \ mine.removed
               mark == <<req[c].user, event.skill>>
           IN  /\ seen = IF event.action = "star" THEN Seen(c) \cup {mark} ELSE Seen(c) \ {mark}
               /\ mine.added \subseteq work[c].added \cup {mark}
               /\ mine.removed \subseteq work[c].removed \cup {mark}
<1> DEFINE mark == <<req[c].user, event.skill>>
           mine == WithEvent(c, event)
           seen == (stars \cup mine.added) \ mine.removed
<1>1. CASE event.action = "star" /\ mark \notin Seen(c)
  <2>1. mine = [added |-> work[c].added \cup {mark}, removed |-> work[c].removed \ {mark}]
    BY <1>1 DEF WithEvent
  <2> QED
    BY <1>1, <2>1 DEF Seen
<1>2. CASE event.action = "unstar" /\ mark \in Seen(c)
  <2>1. mine = [added |-> work[c].added \ {mark}, removed |-> work[c].removed \cup {mark}]
    BY <1>2 DEF WithEvent
  <2> QED
    BY <1>2, <2>1 DEF Seen
<1>3. CASE \/ event.action = "star" /\ mark \in Seen(c)
           \/ event.action = "unstar" /\ mark \notin Seen(c)
  <2>1. mine = work[c]
    BY <1>3 DEF WithEvent
  <2> QED
    BY <1>3, <2>1 DEF Seen
<1> QED
  BY <1>1, <1>2, <1>3

LEMMA BatchGoesOn ==
    ASSUME RequestInv, TrafficInv, NEW c \in Calls, StarsEvent(c)
    PROVE  TrafficInv'
<1> DEFINE events == req[c].events
           n == Len(counts[c])
           event == events[n + 1]
           mark == <<req[c].user, event.skill>>
           mine == WithEvent(c, event)
           seen == (stars \cup mine.added) \ mine.removed
           count == Cardinality(StarsOf(seen, event.skill))
<1>1. /\ Shape /\ TrafficShape /\ LocksOf(c) /\ BatchOf(c) /\ At(c, "stars", "events")
      /\ n < Len(events)
      /\ work' = [work EXCEPT ![c] = mine]
      /\ counts' = [counts EXCEPT ![c] = Append(counts[c], count)]
      /\ UNCHANGED <<pc, req, plan, held, stars>>
  BY TrafficShaped DEF RequestInv, TrafficInv, LockInv, StarsInv, StarsEvent, rowVars, accessVars
<1>2. Untouched(c) /\ TrafficShape'
  BY <1>1, TrafficFrame
<1>3. work'[c] = mine /\ counts'[c] = Append(counts[c], count)
  BY <1>1 DEF TrafficShape
<1>4. LocksOf(c)'
  BY <1>1 DEF LocksOf, Locking
<1>5. /\ SkillsOf(events) \subseteq HasSkills(c)
      /\ work[c].added \subseteq Mine(c) /\ work[c].removed \subseteq Mine(c)
      /\ IsFiniteSet(work[c].added)
      /\ counts[c] \in Seq(Nat)
      /\ \A i \in DOMAIN counts[c] :
          (\A j \in DOMAIN counts[c] : i < j => events[j].skill # events[i].skill) => Told(c, i)
  BY <1>1 DEF BatchOf
<1>6. events \in Seq(Event)
  BY <1>1, StarsAssumption DEF RequestInv, PhaseOf, At
<1>7. /\ n \in Nat /\ n + 1 \in DOMAIN events /\ event \in Event /\ mark \in Mine(c)
      /\ DOMAIN counts[c] = 1..n
  <2>1. n \in Nat /\ Len(events) \in Nat /\ DOMAIN events = 1..Len(events)
    BY <1>5, <1>6
  <2>2. n + 1 \in DOMAIN events /\ DOMAIN counts[c] = 1..n
    BY <1>1, <1>5, <2>1
  <2>3. event \in Event
    BY <1>6, <2>2
  <2> QED
    BY <2>1, <2>2, <2>3 DEF Mine, SkillsOf
<1>8. /\ seen = IF event.action = "star" THEN Seen(c) \cup {mark} ELSE Seen(c) \ {mark}
      /\ mine.added \subseteq work[c].added \cup {mark}
      /\ mine.removed \subseteq work[c].removed \cup {mark}
  BY <1>7, EventTakesEffect DEF Event
<1> HIDE DEF mine, events, event
<1>9. Seen(c)' = seen /\ Mine(c)' = Mine(c) /\ HasSkills(c)' = HasSkills(c)
  BY <1>1, <1>3 DEF Seen, Mine, HasSkills
<1>10. IsFiniteSet(mine.added) /\ IsFiniteSet(seen)
  <2>1. IsFiniteSet(work[c].added \cup {mark})
    BY <1>5, FS_AddElement
  <2>2. IsFiniteSet(mine.added)
    BY <1>8, <2>1, FS_Subset
  <2>3. IsFiniteSet(stars)
    BY DEF TrafficInv, StarsInv
  <2>4. IsFiniteSet(stars \cup mine.added)
    BY <2>2, <2>3, FS_Union
  <2> QED
    BY <2>2, <2>4, FS_Subset
<1>11. count \in Nat
  <2>1. IsFiniteSet(StarsOf(seen, event.skill))
    BY <1>10, FS_Subset DEF StarsOf
  <2> QED
    BY <2>1, FS_CardinalityType
<1> HIDE DEF count
<1>12. /\ counts'[c] \in Seq(Nat) /\ Len(counts'[c]) = n + 1
       /\ DOMAIN counts'[c] = 1..(n + 1)
       /\ counts'[c][n + 1] = count
       /\ \A i \in 1..n : counts'[c][i] = counts[c][i]
  BY <1>3, <1>5, <1>7, <1>11, AppendProperties
<1>13. ASSUME NEW i \in DOMAIN counts'[c],
              \A j \in DOMAIN counts'[c] : i < j => events[j].skill # events[i].skill
       PROVE  Told(c, i)'
  <2>1. Told(c, i)' <=> /\ events[i].action = "star" <=> <<req[c].user, events[i].skill>> \in seen
                        /\ counts'[c][i] = Cardinality(StarsOf(seen, events[i].skill))
    BY <1>1, <1>9 DEF Told, events
  <2>2. CASE i = n + 1
    <3>1. <<req[c].user, events[i].skill>> = mark
      BY <2>2 DEF event
    <3>2. events[i].action = "star" <=> mark \in seen
      BY <1>8, <2>2 DEF event
    <3> QED
      BY <1>12, <2>1, <2>2, <3>1, <3>2 DEF count, event
  <2>3. CASE i # n + 1
    <3>1. i \in 1..n /\ i < n + 1
      BY <1>7, <1>12, <2>3
    <3>2. events[i].skill # event.skill
      BY <1>7, <1>12, <1>13, <3>1 DEF event
    <3>3. Told(c, i)
      BY <1>5, <1>7, <1>12, <1>13, <3>1
    <3>4. <<req[c].user, events[i].skill>> \in seen <=> <<req[c].user, events[i].skill>> \in Seen(c)
      BY <1>8, <3>2
    <3>5. StarsOf(seen, events[i].skill) = StarsOf(Seen(c), events[i].skill)
      <4>1. mark[2] # events[i].skill
        BY <3>2
      <4> HIDE DEF mark
      <4> QED
        BY <1>8, <4>1 DEF StarsOf
    <3> QED
      BY <1>12, <2>1, <3>1, <3>3, <3>4, <3>5 DEF Told, events
  <2> QED
    BY <2>2, <2>3
<1>14. mine.added \subseteq Mine(c) /\ mine.removed \subseteq Mine(c)
  BY <1>5, <1>7, <1>8
<1>15. BatchOf(c)'
  <2>1. Len(counts'[c]) <= Len(events)
    BY <1>1, <1>6, <1>7, <1>12
  <2> QED
    BY <1>1, <1>3, <1>5, <1>9, <1>10, <1>12, <1>13, <1>14, <2>1 DEF BatchOf, At, events
<1> QED
  BY <1>1, <1>2, <1>4, <1>15, NoNewConflicts, TrafficStep

\* Two batches that hold what they need name different skills.
LEMMA BatchesApart ==
    ASSUME TrafficInv, NEW c \in Calls, NEW d \in Calls, c # d,
           At(c, "stars", "events"), At(d, "stars", "events"),
           NEW s \in SkillsOf(req[c].events)
    PROVE  s \notin SkillsOf(req[d].events)
<1> SUFFICES ASSUME s \in SkillsOf(req[d].events) PROVE FALSE
  OBVIOUS
<1>1. s \in HasSkills(c) /\ s \in HasSkills(d)
  BY DEF TrafficInv, StarsInv, BatchOf
<1>2. PICK lock \in held[c] : lock.skill = s
  BY <1>1 DEF HasSkills
<1>3. PICK other \in held[d] : other.skill = s
  BY <1>1 DEF HasSkills
<1>4. held[c] \subseteq LockIn("update")
  BY DEF TrafficInv, LockInv, LocksOf, Locking, ModeOf, At
<1>5. lock.mode = "update"
  BY <1>2, <1>4 DEF LockIn
<1> QED
  BY <1>2, <1>3, <1>5 DEF TrafficInv, LockInv, Excluded, Conflicts

\* A batch changes no stars but those of its user and its skills.
LEMMA OnlyMine ==
    ASSUME NEW c, BatchOf(c), At(c, "stars", "events")
    PROVE  Seen(c) \ Mine(c) = stars \ Mine(c)
BY DEF BatchOf, Seen

LEMMA BatchEnds ==
    ASSUME RequestInv, TrafficInv, NEW c \in Calls, StarsCommit(c)
    PROVE  TrafficInv'
<1>1. /\ Shape /\ TrafficShape /\ BatchOf(c) /\ At(c, "stars", "events") /\ req[c] \in Requests
      /\ stars' = Seen(c)
      /\ pc' = [pc EXCEPT ![c] = "done"] /\ req' = req
      /\ plan' = [plan EXCEPT ![c] = <<>>] /\ held' = [held EXCEPT ![c] = {}]
      /\ UNCHANGED <<work, counts>>
  BY TrafficShaped DEF RequestInv, PhaseOf, TrafficInv, StarsInv, StarsCommit, Answer,
                       EndTransaction, At
<1>2. Untouched(c) /\ TrafficShape'
  BY <1>1, TrafficFrame
<1>3. pc'[c] = "done" /\ held'[c] = {}
  BY <1>1 DEF Shape, TrafficShape
<1>4. ASSUME NEW d \in Calls PROVE LocksOf(d)' /\ BatchOf(d)'
  <2>1. CASE d = c
    BY <1>3, <2>1 DEF LocksOf, BatchOf, At
  <2>2. CASE d # c
    <3>1. /\ pc'[d] = pc[d] /\ req'[d] = req[d] /\ plan'[d] = plan[d] /\ held'[d] = held[d]
          /\ work'[d] = work[d] /\ counts'[d] = counts[d]
      BY <1>2, <2>2 DEF Untouched
    <3>2. LocksOf(d) /\ BatchOf(d) /\ PhaseOf(d)
      BY DEF TrafficInv, LockInv, StarsInv, RequestInv
    <3>3. ASSUME At(d, "stars", "events"), NEW s \in SkillsOf(req[d].events)
          PROVE  StarsOf(stars, s)' = StarsOf(stars, s)
      <4>1. s \notin SkillsOf(req[c].events)
        BY <1>1, <2>2, <3>3, BatchesApart
      <4>2. \A mark \in Mine(c) : mark[2] # s
        BY <4>1 DEF Mine
      <4> QED
        BY <1>1, <4>2, OnlyMine DEF StarsOf
    <3> QED
      BY <3>1, <3>2, <3>3, LocksOfStays, BatchOfStays DEF PhaseOf
  <2> QED
    BY <2>1, <2>2
<1>5. LockInv'
  <2>1. \A d, e \in Calls : d # e => Excluded(d, e)
    BY DEF TrafficInv, LockInv
  <2>2. \A d \in Calls : held'[d] \subseteq held[d]
    BY <1>1 DEF TrafficShape
  <2>3. \A d, e \in Calls : d # e => Excluded(d, e)'
    BY <2>1, <2>2 DEF Excluded
  <2> QED
    BY <1>2, <1>4, <2>3 DEF LockInv, TrafficShape
<1>6. stars' \subseteq Pair
  <2>1. Mine(c) \subseteq Pair
    <3>1. req[c].user \in Users
      BY <1>1, StarsAssumption DEF At
    <3>2. SkillsOf(req[c].events) \subseteq Skills
      <4>1. SkillsOf(req[c].events) \subseteq HasSkills(c)
        BY <1>1 DEF BatchOf
      <4>2. \A lock \in held[c] : lock.skill \in Skills
        BY <1>1 DEF TrafficInv, LockInv, LocksOf, Locking, LockIn, At
      <4> QED
        BY <4>1, <4>2 DEF HasSkills
    <3> QED
      BY <3>1, <3>2 DEF Mine, Pair
  <2> QED
    BY <1>1, <2>1 DEF TrafficInv, StarsInv, BatchOf, Seen
<1>7. IsFiniteSet(stars')
  <2>1. IsFiniteSet(stars \cup work[c].added)
    BY <1>1, FS_Union DEF TrafficInv, StarsInv, BatchOf
  <2> QED
    BY <1>1, <2>1, FS_Subset DEF Seen
<1> QED
  BY <1>2, <1>4, <1>5, <1>6, <1>7 DEF TrafficInv, StarsInv, TrafficShape

-----------------------------------------------------------------------------
(* What a batch answers *)

\* Counting the stars of a skill counts the users who star it.
LEMMA StarsCountUsers ==
    ASSUME NEW table \in SUBSET Pair, IsFiniteSet(table), NEW s
    PROVE  Cardinality(StarsOf(table, s)) = Cardinality({u \in Users : <<u, s>> \in table})
<1> DEFINE users == {u \in Users : <<u, s>> \in table}
           user == [star \in StarsOf(table, s) |-> star[1]]
<1>1. IsFiniteSet(StarsOf(table, s))
  BY FS_Subset DEF StarsOf
<1>2. ASSUME NEW star \in StarsOf(table, s)
      PROVE  star = <<star[1], s>> /\ star[1] \in users
  BY <1>2 DEF StarsOf, Pair
<1>3. user \in [StarsOf(table, s) -> users]
  BY <1>2
<1>4. \A a, b \in StarsOf(table, s) : user[a] = user[b] => a = b
  BY <1>2
<1>5. ASSUME NEW u \in users
      PROVE  \E star \in StarsOf(table, s) : user[star] = u
  <2>1. <<u, s>> \in StarsOf(table, s)
    BY DEF StarsOf
  <2> QED
    BY <2>1
<1> HIDE DEF users, user
<1>6. user \in Bijection(StarsOf(table, s), users)
  <2>1. DOMAIN user = StarsOf(table, s)
    BY <1>3
  <2>2. IsInjective(user)
    BY <1>4, <2>1 DEF IsInjective
  <2> QED
    BY <1>3, <1>5, <2>2 DEF Bijection, Injection, Surjection
<1>7. ExistsBijection(StarsOf(table, s), users)
  BY <1>6 DEF ExistsBijection
<1> QED
  BY <1>1, <1>7, FS_Bijection DEF users

LEMMA LastOfIsLast ==
    ASSUME NEW events \in Seq(Event), NEW s \in SkillsOf(events)
    PROVE  /\ LastOf(events, s) \in DOMAIN events
           /\ events[LastOf(events, s)].skill = s
           /\ \A j \in DOMAIN events : events[j].skill = s => j <= LastOf(events, s)
<1> DEFINE places == {i \in DOMAIN events : events[i].skill = s}
<1>1. Len(events) \in Nat /\ DOMAIN events = 1..Len(events)
  OBVIOUS
<1>2. places \in SUBSET Nat /\ places # {} /\ \A i \in places : i <= Len(events)
  BY <1>1 DEF SkillsOf
<1>3. \E i \in places : \A j \in places : j <= i
  BY <1>1, <1>2, Greatest
<1>4. \E i \in DOMAIN events :
        events[i].skill = s /\ \A j \in DOMAIN events : events[j].skill = s => j <= i
  BY <1>3
<1> QED
  BY <1>4 DEF LastOf

LEMMA BatchesAnswer ==
    ASSUME RequestInv, TrafficInv, NEW c \in Calls, StarsCommit(c)
    PROVE  BatchHolds(c)
<1> DEFINE events == req[c].events
<1>1. /\ BatchOf(c) /\ At(c, "stars", "events") /\ req[c] \in Requests
      /\ Len(counts[c]) = Len(events) /\ stars' = Seen(c)
  BY DEF RequestInv, PhaseOf, TrafficInv, StarsInv, StarsCommit, At
<1>2. events \in Seq(Event) /\ counts[c] \in Seq(Nat)
  BY <1>1, StarsAssumption DEF At, BatchOf
<1>3. DOMAIN counts[c] = DOMAIN events
  BY <1>1, <1>2
<1>4. stars' \in SUBSET Pair /\ IsFiniteSet(stars')
  <2>1. TrafficInv'
    BY BatchEnds
  <2> QED
    BY <2>1 DEF TrafficInv, StarsInv
<1>5. ASSUME NEW s \in SkillsOf(events)
      PROVE  /\ events[LastOf(events, s)].action = "star" <=> <<req[c].user, s>> \in stars'
             /\ counts[c][LastOf(events, s)] = Cardinality({u \in Users : <<u, s>> \in stars'})
  <2> DEFINE last == LastOf(events, s)
  <2>1. /\ last \in DOMAIN events /\ events[last].skill = s
        /\ \A j \in DOMAIN events : events[j].skill = s => j <= last
    BY <1>2, <1>5, LastOfIsLast
  <2>2. \A j \in DOMAIN events : j \in Nat
    BY <1>2
  <2> HIDE DEF last
  <2>3. \A j \in DOMAIN counts[c] : last < j => events[j].skill # events[last].skill
    BY <1>3, <2>1, <2>2
  <2>4. Told(c, last)
    BY <1>1, <1>3, <2>1, <2>3 DEF BatchOf
  <2>5. Cardinality(StarsOf(stars', s)) = Cardinality({u \in Users : <<u, s>> \in stars'})
    BY <1>4, StarsCountUsers
  <2> QED
    BY <1>1, <2>1, <2>4, <2>5 DEF Told, last
<1>6. stars' \ Mine(c) = stars \ Mine(c)
  BY <1>1, OnlyMine
<1> QED
  BY <1>5, <1>6 DEF BatchHolds, Mine

-----------------------------------------------------------------------------
(* What each kind of call locks *)

LEMMA RowsAreNumbers == Stored \in SUBSET Nat /\ Stored \subseteq Skills
BY SkillsAssumption DEF Stored

\* Locks for rows, in one strength.
LEMMA LocksForRows ==
    ASSUME NEW T \in SUBSET Skills, NEW rows \in Seq(T), NEW mode
    PROVE  LET locks == [i \in DOMAIN rows |-> [skill |-> rows[i], mode |-> mode]]
           IN  /\ locks \in Seq(LockIn(mode))
               /\ DOMAIN locks = DOMAIN rows
               /\ \A i \in DOMAIN rows : locks[i].skill = rows[i]
<1> DEFINE locks == [i \in DOMAIN rows |-> [skill |-> rows[i], mode |-> mode]]
<1>1. Len(rows) \in Nat /\ DOMAIN rows = 1..Len(rows) /\ \A i \in DOMAIN rows : rows[i] \in T
  OBVIOUS
<1>2. locks \in [1..Len(rows) -> LockIn(mode)]
  BY <1>1 DEF LockIn
<1>3. locks \in Seq(LockIn(mode))
  BY <1>1, <1>2, SeqDef
<1> QED
  BY <1>1, <1>3

LEMMA BatchLocks ==
    ASSUME NEW events \in Seq(Event)
    PROVE  /\ LocksById(events) \in Seq(LockIn("update"))
           /\ \A i, j \in DOMAIN LocksById(events) :
                i < j => LocksById(events)[i].skill < LocksById(events)[j].skill
           /\ \A i \in DOMAIN LocksById(events) : LocksById(events)[i].skill \in Stored
<1> DEFINE S == SkillsOf(events) \cap Stored
           rows == Ascending(S)
<1>1. S \in SUBSET Nat /\ S \in SUBSET Skills /\ IsFiniteSet(S)
  <2>1. IsFiniteSet(SkillsOf(events))
    BY NamedFinite
  <2> QED
    BY <2>1, RowsAreNumbers, FS_Subset
<1>2. rows \in Seq(S) /\ \A i, j \in DOMAIN rows : i < j => rows[i] < rows[j]
  BY <1>1, AscendingRows
<1>3. LocksById(events) = [i \in DOMAIN rows |-> [skill |-> rows[i], mode |-> "update"]]
  BY DEF LocksById
<1> HIDE DEF S, rows
<1>4. /\ LocksById(events) \in Seq(LockIn("update"))
      /\ DOMAIN LocksById(events) = DOMAIN rows
      /\ \A i \in DOMAIN rows : LocksById(events)[i].skill = rows[i]
  BY <1>1, <1>2, <1>3, LocksForRows
<1>5. \A i \in DOMAIN rows : rows[i] \in Stored
  BY <1>2 DEF S
<1> QED
  BY <1>2, <1>4, <1>5

LEMMA ShareLocksForRows ==
    ASSUME NEW rows \in Seq(Skills)
    PROVE  ShareLocks(rows) \in Seq(LockIn("key_share"))
BY LocksForRows DEF ShareLocks

\* One lock, if any.
LEMMA OneLock ==
    ASSUME NEW s \in Skills, NEW mode
    PROVE  <<>> \in Seq(LockIn(mode)) /\ <<[skill |-> s, mode |-> mode]>> \in Seq(LockIn(mode))
BY DEF LockIn

LEMMA PublicationLocks ==
    ASSUME NEW c, req[c] \in Requests, req[c].kind = "publish"
    PROVE  ReferredTo(c) \in Seq(Stored)
<1> DEFINE dependsOn == req[c].metadata.dependsOn
           targets == [i \in DOMAIN dependsOn |-> dependsOn[i].skill]
           named == <<req[c].skill>> \o targets
           places == {i \in DOMAIN named : home[named[i]] # None}
           there == Ascending(places)
<1>1. dependsOn \in Seq(Selector) /\ req[c].skill \in Skills
  BY SubmissionAssumption
<1>2. targets \in Seq(Skills)
  <2>1. /\ Len(dependsOn) \in Nat /\ DOMAIN dependsOn = 1..Len(dependsOn)
        /\ \A i \in DOMAIN dependsOn : dependsOn[i] \in Selector
    BY <1>1
  <2>2. targets \in [1..Len(dependsOn) -> Skills]
    BY <2>1 DEF Selector
  <2> QED
    BY <2>1, <2>2, SeqDef
<1>3. named \in Seq(Skills)
  <2> HIDE DEF targets
  <2> QED
    BY <1>1, <1>2
<1>4. ReferredTo(c) = [i \in DOMAIN there |-> named[there[i]]]
  BY DEF ReferredTo
<1> HIDE DEF named
<1>5. places \in SUBSET Nat /\ IsFiniteSet(places)
  <2>1. Len(named) \in Nat /\ DOMAIN named = 1..Len(named)
    BY <1>3
  <2>2. IsFiniteSet(DOMAIN named)
    BY <2>1, FS_Interval
  <2> QED
    BY <2>1, <2>2, FS_Subset
<1>6. there \in Seq(places)
  BY <1>5, AscendingRows
<1>7. \A i \in places : named[i] \in Stored
  BY <1>3 DEF Stored
<1> HIDE DEF there, places
<1>8. /\ Len(there) \in Nat /\ DOMAIN there = 1..Len(there)
      /\ \A i \in DOMAIN there : there[i] \in places
  BY <1>6
<1>9. ReferredTo(c) \in [1..Len(there) -> Stored]
  BY <1>4, <1>7, <1>8
<1> QED
  BY <1>8, <1>9, SeqDef

\* Everything observed, and what the import has locked, in some order.
LEMMA LockedFinite ==
    ASSUME TrafficInv, NEW c \in Calls
    PROVE  IsFiniteSet(held[c]) /\ IsFiniteSet(HasSkills(c)) /\ HasSkills(c) \subseteq Skills
<1>1. IsFiniteSet(held[c]) /\ \A lock \in held[c] : lock.skill \in Skills
  BY FS_EmptySet DEF TrafficInv, LockInv, LocksOf, Locking, LockIn
<1> DEFINE skill == [lock \in held[c] |-> lock.skill]
<1>2. skill \in Surjection(held[c], HasSkills(c))
  BY DEF Surjection, HasSkills
<1>3. IsFiniteSet(HasSkills(c))
  BY <1>1, <1>2, FS_Surjection
<1> QED
  BY <1>1, <1>3 DEF HasSkills

LEMMA RowsListed ==
    ASSUME TrafficInv, NEW c \in Calls, observed \subseteq Skills, IsFiniteSet(observed),
           NEW rows \in SetToSeqs(observed \cup HasSkills(c))
    PROVE  rows \in Seq(Skills)
<1> DEFINE S == observed \cup HasSkills(c)
<1>1. IsFiniteSet(S) /\ S \subseteq Skills
  BY LockedFinite, FS_Union
<1>2. Cardinality(S) \in Nat
  BY <1>1, FS_CardinalityType
<1>3. rows \in [1..Cardinality(S) -> S]
  BY DEF SetToSeqs
<1> HIDE DEF S
<1>4. rows \in [1..Cardinality(S) -> Skills]
  BY <1>1, <1>3
<1> QED
  BY <1>2, <1>4, SeqDef

-----------------------------------------------------------------------------
(* One lemma per component *)

LEMMA AccessMoves ==
    ASSUME RequestInv, TrafficInv, NEW c \in Calls, AccessStep(c), UNCHANGED <<rowVars, starVars>>
    PROVE  TrafficInv'
<1> USE DEF rowVars, starVars
<1>1. CASE Arrive(c)
  BY <1>1, Unlocked DEF Arrive, LockPhases
<1>2. CASE Refuse(c)
  BY <1>2, Unlocked DEF Refuse, Answer, LockPhases
<1>3. CASE Admit(c)
  BY <1>3, Unlocked DEF Admit, LockPhases
<1> QED
  BY <1>1, <1>2, <1>3 DEF AccessStep

LEMMA StarsMove ==
    ASSUME RequestInv, TrafficInv, NEW c \in Calls, StarsStep(c),
           observed \subseteq Skills, IsFiniteSet(observed)
    PROVE  TrafficInv'
<1> USE DEF starVars, At
<1>1. pc[c] = "handle" => req[c] \in Requests
  BY DEF RequestInv, PhaseOf
<1>2. ASSUME pc[c] = "handle", NEW answer, Answer(c, answer), UNCHANGED <<plan, held, stars, work>>,
             counts' = counts \/ \E x : counts' = [counts EXCEPT ![c] = x]
      PROVE  TrafficInv'
  BY <1>2, Unlocked DEF Answer, LockPhases
<1>3. CASE StarsRefused(c)
  BY <1>2, <1>3 DEF StarsRefused, rowVars
<1>4. CASE StarsSelect(c)
  <2>1. /\ pc[c] = "handle" /\ req[c].kind = "stars" /\ req[c].events \in Seq(Event)
        /\ WillLock(c, LocksById(req[c].events)) /\ Goto(c, "locking")
    BY <1>1, <1>4, StarsAssumption DEF StarsSelect
  <2>2. ModeOf(req[c].kind) = "update"
    BY <2>1 DEF ModeOf
  <2>3. UNCHANGED starVars
    BY <1>4 DEF StarsSelect
  <2> QED
    BY <2>1, <2>2, <2>3, BatchLocks, Plans
<1>5. CASE StarsUnknown(c)
  BY <1>5, Releases DEF StarsUnknown
<1>6. CASE StarsLocked(c)
  BY <1>6, BatchBegins
<1>7. CASE StarsEvent(c)
  BY <1>7, BatchGoesOn
<1>8. CASE StarsCommit(c)
  BY <1>8, BatchEnds
<1>9. CASE ListUserStars(c)
  BY <1>2, <1>9 DEF ListUserStars, rowVars
<1>10. CASE InstallUpdate(c)
  <2> DEFINE locks == IF req[c].skill \in Stored
                      THEN <<[skill |-> req[c].skill, mode |-> "no_key_update"]>> ELSE <<>>
  <2>1. /\ pc[c] = "handle" /\ req[c].kind = "install"
        /\ WillLock(c, locks) /\ Goto(c, "locking") /\ UNCHANGED starVars
    BY <1>10 DEF InstallUpdate
  <2>2. locks \in Seq(LockIn("no_key_update")) /\ (locks = <<>> \/ Len(locks) = 1)
    BY OneLock, RowsAreNumbers, EmptySeq
  <2>3. ModeOf(req[c].kind) = "no_key_update"
    BY <2>1 DEF ModeOf
  <2> QED
    BY <2>1, <2>2, <2>3, Plans
<1>11. CASE InstallCommit(c)
  BY <1>11, Releases DEF InstallCommit
<1>12. CASE ImportRefused(c)
  BY <1>2, <1>12 DEF ImportRefused, rowVars
<1>13. CASE ImportObserve(c)
  <2>1. /\ pc[c] = "handle" /\ req[c].kind = "import" /\ req[c].slugs \in Seq(Skills)
        /\ WillLock(c, ShareLocks(req[c].slugs)) /\ Goto(c, "observing") /\ UNCHANGED starVars
    BY <1>1, <1>13, StarsAssumption DEF ImportObserve
  <2>2. ModeOf(req[c].kind) = "key_share"
    BY <2>1 DEF ModeOf
  <2> QED
    BY <2>1, <2>2, ShareLocksForRows, Plans
<1>14. CASE ImportRebuild(c)
  <2>1. PICK rows \in SetToSeqs(observed \cup HasSkills(c)) : WillLock(c, ShareLocks(rows))
    BY <1>14 DEF ImportRebuild
  <2>2. /\ pc[c] = "observing" /\ req[c].kind = "import" /\ Goto(c, "locking")
        /\ UNCHANGED starVars
    BY <1>14 DEF ImportRebuild
  <2>3. ModeOf(req[c].kind) = "key_share"
    BY <2>2 DEF ModeOf
  <2>4. rows \in Seq(Skills)
    BY <2>1, <2>2, RowsListed
  <2> QED
    BY <2>1, <2>2, <2>3, <2>4, ShareLocksForRows, Plans
<1>15. CASE ImportCommit(c)
  BY <1>15, Releases DEF ImportCommit
<1> QED
  BY <1>3, <1>4, <1>5, <1>6, <1>7, <1>8, <1>9, <1>10, <1>11, <1>12, <1>13, <1>14, <1>15
     DEF StarsStep, RecordStars, RecordInstall, ImportRun

LEMMA EnterpriseMoves ==
    ASSUME RequestInv, TrafficInv, NEW c \in Calls, EnterpriseStep(c), UNCHANGED starVars
    PROVE  TrafficInv'
<1> USE DEF starVars, At, Handles
\* A step between the phases without locks.
<1>1. ASSUME pc[c] \in {"handle", "commit", "judge", "deny"},
             \/ \E answer : Answer(c, answer)
             \/ \E phase \in {"commit", "judge", "answer", "deny"} : Goto(c, phase),
             UNCHANGED <<plan, held>>
      PROVE  TrafficInv'
  <2>1. PICK phase \in {"done", "commit", "judge", "answer", "deny"} :
            pc' = [pc EXCEPT ![c] = phase] /\ req' = req
    BY <1>1 DEF Answer, Goto
  <2> QED
    BY <1>1, <2>1, Unlocked DEF LockPhases
<1>2. CASE IllFormed(c)
  BY <1>1, <1>2 DEF IllFormed, rowVars
<1>3. CASE CreateOrganization(c)
  BY <1>1, <1>3 DEF CreateOrganization
<1>4. CASE NamespaceLoad(c)
  BY <1>1, <1>4 DEF NamespaceLoad, rowVars
<1>5. CASE NamespaceCommit(c)
  BY <1>1, <1>5 DEF NamespaceCommit
<1>6. CASE PackLoad(c)
  BY <1>1, <1>6 DEF PackLoad, rowVars
<1>7. CASE PackConflict(c)
  BY <1>1, <1>7 DEF PackConflict, rowVars
<1>8. CASE PackCommit(c)
  BY <1>1, <1>8 DEF PackCommit
<1>9. CASE OwnershipRefused(c)
  BY <1>1, <1>9 DEF OwnershipRefused, rowVars
<1>10. CASE OwnershipUpdate(c)
  <2> DEFINE locks == IF home[req[c].skill] = req[c].namespace
                      THEN <<>> ELSE <<[skill |-> req[c].skill, mode |-> "no_key_update"]>>
  <2>1. /\ pc[c] = "handle" /\ req[c].kind = "ownership"
        /\ WillLock(c, locks) /\ Goto(c, "locking")
    BY <1>10 DEF OwnershipUpdate
  <2>2. req[c].skill \in Skills
    BY <2>1, EnterpriseAssumption DEF RequestInv, PhaseOf
  <2>3. locks \in Seq(LockIn("no_key_update")) /\ (locks = <<>> \/ Len(locks) = 1)
    BY <2>2, OneLock, EmptySeq
  <2>4. ModeOf(req[c].kind) = "no_key_update"
    BY <2>1 DEF ModeOf
  <2> QED
    BY <2>1, <2>3, <2>4, Plans
<1>11. CASE OwnershipCommit(c)
  BY <1>11, Releases DEF OwnershipCommit
<1>12. CASE EvidenceLoad(c)
  BY <1>1, <1>12 DEF EvidenceLoad, rowVars
<1>13. CASE EvidenceDenied(c)
  BY <1>1, <1>13 DEF EvidenceDenied
<1>14. CASE EvidenceForbidden(c)
  BY <1>1, <1>14 DEF EvidenceForbidden, rowVars
<1>15. CASE EvidenceCommit(c)
  BY <1>1, <1>15 DEF EvidenceCommit
<1> QED
  BY <1>2, <1>3, <1>4, <1>5, <1>6, <1>7, <1>8, <1>9, <1>10, <1>11, <1>12, <1>13, <1>14, <1>15
     DEF EnterpriseStep

LEMMA SubmissionMoves ==
    ASSUME RequestInv, TrafficInv, NEW c \in Calls, SubmissionStep(c), UNCHANGED starVars
    PROVE  TrafficInv'
<1> USE DEF starVars, At
<1>1. ASSUME pc[c] \in {"handle", "deny"}, (\E answer : Answer(c, answer)) \/ Goto(c, "deny"),
             UNCHANGED <<plan, held>>
      PROVE  TrafficInv'
  <2>1. PICK phase \in {"done", "deny"} : pc' = [pc EXCEPT ![c] = phase] /\ req' = req
    BY <1>1 DEF Answer, Goto
  <2> QED
    BY <1>1, <2>1, Unlocked DEF LockPhases
<1>2. CASE SubmissionRefused(c)
  BY <1>1, <1>2 DEF SubmissionRefused, rowVars
<1>3. CASE PublishDenied(c)
  BY <1>1, <1>3 DEF PublishDenied
<1>4. CASE PublishRefused(c)
  <2>1. \E answer : Answer(c, answer)
    BY <1>4 DEF PublishRefused
  <2> QED
    BY <1>1, <1>4, <2>1 DEF PublishRefused, Judged, rowVars
<1>5. CASE PublishWrite(c)
  <2> DEFINE rows == ReferredTo(c)
             locks == [i \in DOMAIN rows |-> [skill |-> rows[i], mode |-> "key_share"]]
  <2>1. /\ pc[c] = "handle" /\ req[c].kind = "publish" /\ req[c] \in Requests
        /\ WillLock(c, locks) /\ Goto(c, "locking")
    BY <1>5 DEF PublishWrite, Judged, RequestInv, PhaseOf
  <2>2. rows \in Seq(Stored)
    BY <2>1, PublicationLocks
  <2> HIDE DEF rows
  <2>3. locks \in Seq(LockIn("key_share"))
    BY <2>2, RowsAreNumbers, LocksForRows
  <2>4. ModeOf(req[c].kind) = "key_share"
    BY <2>1 DEF ModeOf
  <2> QED
    BY <2>1, <2>3, <2>4, Plans
<1>6. CASE PublishConflict(c)
  <2>1. \E answer : Answer(c, answer)
    BY <1>6 DEF PublishConflict
  <2> QED
    BY <1>6, <2>1, Releases DEF PublishConflict
<1>7. CASE PublishCommit(c)
  BY <1>7, Releases DEF PublishCommit
<1>8. CASE PublishForbidden(c)
  <2>1. \E answer : Answer(c, answer)
    BY <1>8 DEF PublishForbidden
  <2> QED
    BY <1>1, <1>8, <2>1 DEF PublishForbidden, rowVars
<1> QED
  BY <1>2, <1>3, <1>4, <1>5, <1>6, <1>7, <1>8 DEF SubmissionStep

-----------------------------------------------------------------------------
(* What a step answers *)

Phases == {"idle", "arrived", "handle", "locking", "events", "observing", "commit", "judge",
           "answer", "deny", "done"}

\* The answers other than those of a batch and of a policy pack.
Others == Result \ {"starred", "upserted"}

\* A call is answered, or goes on to another phase, or stays in its own.
Outcome(c) ==
    \/ \E answer \in Others : Answer(c, answer)
    \/ \E phase \in Phases : Goto(c, phase)
    \/ UNCHANGED accessVars

LEMMA AccessOutcomes ==
    ASSUME NEW c, Refuse(c)
    PROVE  \E answer \in Others : Answer(c, answer)
BY DEF Refuse, AuthCode, Others, Result

LEMMA StarsOutcomes ==
    ASSUME NEW c, StarsStep(c)
    PROVE  StarsCommit(c) \/ Outcome(c)
<1> DEFINE answers == {"INVALID_REQUEST", "STAR_EVENT_UNKNOWN_SKILL", "listed", "counted",
                       "UNKNOWN_CO_USAGE_SKILL", "imported"}
           phases == {"locking", "events", "observing"}
<1>1. \/ StarsCommit(c)
      \/ \E answer \in answers : Answer(c, answer)
      \/ \E phase \in phases : Goto(c, phase)
      \/ UNCHANGED accessVars
  BY DEF StarsStep, RecordStars, RecordInstall, ImportRun, StarsRefused, StarsSelect, StarsUnknown,
         StarsLocked, StarsEvent, ListUserStars, InstallUpdate, InstallCommit, ImportRefused,
         ImportObserve, ImportRebuild, ImportCommit
<1>2. answers \subseteq Others /\ phases \subseteq Phases
  BY DEF Others, Result, Phases
<1> HIDE DEF answers, phases
<1> QED
  BY <1>1, <1>2 DEF Outcome

LEMMA EnterpriseOutcomes ==
    ASSUME NEW c, EnterpriseStep(c)
    PROVE  PackCommit(c) \/ Outcome(c)
<1> DEFINE answers == {"INVALID_REQUEST", "failed", "created", "SKILL_NOT_FOUND", "moved",
                       "SKILL_VERSION_NOT_FOUND", "POLICY_NAMESPACE_FORBIDDEN"}
           phases == {"locking", "commit", "judge", "answer", "deny"}
<1>1. \/ PackCommit(c)
      \/ \E answer \in answers : Answer(c, answer)
      \/ \E phase \in phases : Goto(c, phase)
  BY DEF EnterpriseStep, IllFormed, CreateOrganization, NamespaceLoad, NamespaceCommit, PackLoad,
         PackConflict, OwnershipRefused, OwnershipUpdate, OwnershipCommit, EvidenceLoad,
         EvidenceDenied, EvidenceForbidden, EvidenceCommit
<1>2. answers \subseteq Others /\ phases \subseteq Phases
  BY DEF Others, Result, Phases
<1> HIDE DEF answers, phases
<1> QED
  BY <1>1, <1>2 DEF Outcome

LEMMA SubmissionOutcomes ==
    ASSUME RequestInv, NEW c \in Calls, SubmissionStep(c)
    PROVE  Outcome(c)
<1> DEFINE answers == {"SKILL_ALREADY_EXISTS", "SKILL_NOT_FOUND", "DUPLICATE_SKILL_VERSION",
                       "failed"}
           phases == {"locking", "answer", "deny"}
<1>1. \/ Verdict422(req[c]) # "none" /\ Answer(c, Verdict422(req[c]))
      \/ \E verdict \in Denials : Answer(c, verdict)
      \/ \E answer \in answers : Answer(c, answer)
      \/ \E phase \in phases : Goto(c, phase)
  <2>1. CASE SubmissionRefused(c)
    BY <2>1 DEF SubmissionRefused
  <2>2. CASE PublishDenied(c)
    BY <2>2 DEF PublishDenied
  <2>3. CASE PublishRefused(c)
    BY <2>3 DEF PublishRefused
  <2>4. CASE PublishWrite(c)
    BY <2>4 DEF PublishWrite
  <2>5. CASE PublishConflict(c)
    BY <2>5 DEF PublishConflict
  <2>6. CASE PublishCommit(c)
    BY <2>6 DEF PublishCommit
  <2>7. CASE PublishForbidden(c)
    <3>1. PublishVerdict(settings, caller[c], req[c].metadata) # "allowed"
      BY <2>7 DEF PublishForbidden, RequestInv, PhaseOf
    <3> QED
      BY <2>7, <3>1, VerdictAmong DEF PublishForbidden
  <2> QED
    BY <2>1, <2>2, <2>3, <2>4, <2>5, <2>6, <2>7 DEF SubmissionStep
<1>2. Verdict422(req[c]) \in {"none", "file_count", "member", "path_length", "archive",
                              "metadata", "size", "filename", "media_type"}
  BY FaultsKnown
<1>3. answers \subseteq Others /\ Denials \subseteq Others /\ phases \subseteq Phases
  BY DEF Others, Result, Phases, Denials
<1>4. Verdict422(req[c]) # "none" => Verdict422(req[c]) \in Others
  BY <1>2 DEF Others, Result
<1> HIDE DEF answers, phases
<1> QED
  BY <1>1, <1>3, <1>4 DEF Outcome

-----------------------------------------------------------------------------
(* Types *)

AccessTypes ==
    /\ settings \in SettingsSet
    /\ service \in {"starting", "up", "refused"}
    /\ now \in 0..MaxNow
    /\ pc \in [Calls -> Phases]
    /\ req \in [Calls -> Requests \cup {None}]
    /\ caller \in [Calls -> Caller \cup {None}]
    /\ result \in [Calls -> Result]

RowTypes ==
    /\ home \in [Skills -> Namespaces \cup {None}]
    /\ versions \in [Coords -> VersionRow \cup {None}]
    /\ trail \subseteq Fact

StarTypes ==
    /\ installs \in [Skills -> Nat]
    /\ \A c \in Calls : work[c].added \subseteq Pair /\ work[c].removed \subseteq Pair
    /\ \A c \in Calls : counts[c] \in Seq(Nat)

\* An upsert that has loaded its pack asks for a pack, and packs are never deleted.
UpsertOf(c) ==
    At(c, "pack", "commit") =>
        /\ req[c].wellFormed
        /\ loaded[c] # None => packs[req[c].slug] # None

EnterpriseTypes ==
    /\ organizations \subseteq Organizations
    /\ packs \in [PackSlugs -> PackRow \cup {None}]
    /\ evidence \subseteq [by : Calls, of : Coords]
    /\ \A c \in Calls : UpsertOf(c)

\* Rows of skills that are observed, locked or about to be are there.
StandingOf(c) ==
    /\ \A lock \in held[c] : lock.skill \in Stored
    /\ \A i \in DOMAIN plan[c] : plan[c][i].skill \in Stored

Standing ==
    /\ observed \subseteq Stored /\ IsFiniteSet(observed)
    /\ \A c \in Calls : StandingOf(c)

Typed == AccessTypes /\ RowTypes /\ StarTypes /\ EnterpriseTypes /\ Standing

\* A token that authenticates is one of the settings, and its caller has their grants.
LEMMA CallersTyped ==
    ASSUME NEW s \in SettingsSet, NEW time, NEW cred, AuthCode(s, time, cred) = "ok"
    PROVE  CallerOf(s, cred) \in Caller
<1> DEFINE token == CHOOSE t \in TokensOf(s) : t.id = cred.id
<1>1. {t \in TokensOf(s) : t.id = cred.id /\ t.secret = cred.secret} # {}
  BY DEF AuthCode
<1>2. \E t \in TokensOf(s) : t.id = cred.id
  BY <1>1
<1>3. token \in TokensOf(s)
  BY <1>2
<1>4. s.tokens \in Seq(TokenSetting)
  BY AccessAssumption
<1>5. \A i \in DOMAIN s.tokens : s.tokens[i] \in TokenSetting
  BY <1>4
<1>6. token \in TokenSetting
  BY <1>3, <1>5 DEF TokensOf
<1> HIDE DEF token
<1>7. token.id \in TokenIds /\ token.scopes \subseteq Scopes /\ token.grants \subseteq Grant
  BY <1>6 DEF TokenSetting
<1>8. EffectiveGrants(token) \subseteq Grant
  <2>1. [namespace |-> "*", roles |-> Roles, channels |-> {"*"}] \in Grant
    BY DEF Grant
  <2>2. [namespace |-> "public", roles |-> token.scopes \cap Roles, channels |-> {"prod"}] \in Grant
    BY PolicyAssumption DEF Grant, Channels
  <2> QED
    BY <1>7, <2>1, <2>2 DEF EffectiveGrants, DefaultGrants
<1>9. CallerOf(s, cred) = [id |-> token.id, scopes |-> token.scopes, grants |-> EffectiveGrants(token)]
  BY DEF CallerOf, token
<1> QED
  BY <1>7, <1>8, <1>9 DEF Caller

LEMMA AnswersTyped ==
    ASSUME AccessTypes, NEW c \in Calls, NEW answer \in Result, Answer(c, answer)
    PROVE  AccessTypes'
<1>1. "done" \in Phases
  BY DEF Phases
<1> QED
  BY <1>1 DEF AccessTypes, Answer

LEMMA PhasesTyped ==
    ASSUME AccessTypes, NEW c \in Calls, NEW phase \in Phases, Goto(c, phase)
    PROVE  AccessTypes'
BY DEF AccessTypes, Goto

LEMMA OutcomesTyped ==
    ASSUME AccessTypes, NEW c \in Calls, Outcome(c)
    PROVE  AccessTypes'
<1>1. CASE UNCHANGED accessVars
  BY <1>1 DEF AccessTypes, accessVars
<1> QED
  BY <1>1, AnswersTyped, PhasesTyped DEF Outcome, Others

LEMMA AccessTypesKept ==
    ASSUME RequestInv, AccessTypes, NEW c \in Calls, Step(c) \/ Break(c)
    PROVE  AccessTypes'
<1>1. "arrived" \in Phases /\ "handle" \in Phases
  BY DEF Phases
<1>2. {"failed", "starred", "upserted", "created"} \subseteq Result
  BY DEF Result
<1>3. CASE Arrive(c)
  BY <1>1, <1>3 DEF Arrive, AccessTypes
<1>4. CASE Refuse(c)
  BY <1>4, AccessOutcomes, OutcomesTyped DEF Outcome
<1>5. CASE Admit(c)
  <2>1. CallerOf(settings, req[c].credentials) \in Caller
    BY <1>5, CallersTyped DEF Admit, AccessTypes
  <2> QED
    BY <1>1, <1>5, <2>1 DEF Admit, AccessTypes
<1>6. CASE StarsStep(c)
  BY <1>2, <1>6, StarsOutcomes, OutcomesTyped, AnswersTyped DEF StarsCommit
<1>7. CASE EnterpriseStep(c)
  BY <1>2, <1>7, EnterpriseOutcomes, OutcomesTyped, AnswersTyped DEF PackCommit
<1>8. CASE SubmissionStep(c)
  BY <1>8, SubmissionOutcomes, OutcomesTyped
<1>9. CASE TakeLock(c)
  BY <1>9 DEF TakeLock, AccessTypes, accessVars
<1>10. CASE KillVictim(c) \/ Break(c) \/ Confirm(c)
  BY <1>2, <1>10, AnswersTyped DEF KillVictim, Break, Confirm
<1> QED
  BY <1>3, <1>4, <1>5, <1>6, <1>7, <1>8, <1>9, <1>10 DEF Step, AccessStep

\* The tables of skills and versions change when a skill moves and when a version is
\* published; the trail grows by what is recorded.
LEMMA RowsChange ==
    ASSUME NEW c, Step(c) \/ Break(c)
    PROVE  /\ OwnershipCommit(c) \/ PublishCommit(c) \/ UNCHANGED <<home, versions>>
           /\ \/ trail' = trail
              \/ \E outcome \in {"allowed", "denied"} : Record(c, outcome)
<1> USE DEF rowVars, tables
<1>1. CASE AccessStep(c) /\ UNCHANGED rowVars
  BY <1>1
<1>2. CASE StarsStep(c)
  BY <1>2 DEF StarsStep, RecordStars, RecordInstall, ImportRun, StarsRefused, StarsSelect,
        StarsUnknown, StarsLocked, StarsEvent, StarsCommit, ListUserStars, InstallUpdate,
        InstallCommit, ImportRefused, ImportObserve, ImportRebuild, ImportCommit, WillLock
<1>3. CASE EnterpriseStep(c)
  BY <1>3 DEF EnterpriseStep, IllFormed, CreateOrganization, NamespaceLoad, NamespaceCommit,
        PackLoad, PackConflict, PackCommit, OwnershipRefused, OwnershipUpdate, OwnershipCommit,
        EvidenceLoad, EvidenceDenied, EvidenceForbidden, EvidenceCommit, WillLock
<1>4. CASE SubmissionStep(c)
  BY <1>4 DEF SubmissionStep, SubmissionRefused, PublishDenied, PublishForbidden, PublishRefused, PublishWrite,
        PublishConflict, PublishCommit, WillLock
<1>5. CASE TakeLock(c) \/ KillVictim(c) \/ Break(c) \/ Confirm(c)
  BY <1>5 DEF TakeLock, KillVictim, Break, Confirm
<1> QED
  BY <1>1, <1>2, <1>3, <1>4, <1>5 DEF Step

\* A skill that is there stays.
LEMMA RowTypesKept ==
    ASSUME RequestInv, RowTypes, NEW c \in Calls, Step(c) \/ Break(c)
    PROVE  RowTypes' /\ Stored \subseteq Stored'
<1>1. trail' \subseteq Fact
  BY RowsChange DEF RowTypes, Record, Fact
<1>2. /\ home' \in [Skills -> Namespaces \cup {None}]
      /\ versions' \in [Coords -> VersionRow \cup {None}]
      /\ \A s \in Skills : home[s] # None => home'[s] # None
  <2>1. pc[c] # "idle" => req[c] \in Requests
    BY DEF RequestInv, PhaseOf
  <2>2. CASE OwnershipCommit(c)
    <3>1. /\ req[c].kind = "ownership" /\ req[c] \in Requests /\ versions' = versions
          /\ home' = home \/ home' = [home EXCEPT ![req[c].skill] = req[c].namespace]
      BY <2>1, <2>2 DEF OwnershipCommit, At
    <3>2. req[c].namespace \in Namespaces /\ None \notin Namespaces
      BY <3>1, EnterpriseAssumption
    <3> QED
      BY <3>1, <3>2 DEF RowTypes
  <2>3. CASE PublishCommit(c)
    <3> DEFINE m == req[c].metadata
               x == <<req[c].skill, req[c].version>>
               row == [tier |-> m.tier, channel |-> DefaultChannel(m.origin)]
    <3>1. /\ req[c].kind = "publish" /\ req[c] \in Requests
          /\ home' = home \/ home' = [home EXCEPT ![req[c].skill] = m.namespace]
          /\ versions' = [versions EXCEPT ![x] = row]
      BY <2>1, <2>3 DEF PublishCommit, At
    <3>2. m.namespace \in Namespaces /\ None \notin Namespaces /\ m.tier \in Tiers
      BY <3>1, EnterpriseAssumption, SubmissionAssumption
    <3>3. row \in VersionRow
      BY <3>2 DEF VersionRow, DefaultChannel, Channels
    <3> HIDE DEF row, x, m
    <3> QED
      BY <3>1, <3>2, <3>3 DEF RowTypes
  <2>4. CASE UNCHANGED <<home, versions>>
    BY <2>4 DEF RowTypes
  <2> QED
    BY <2>2, <2>3, <2>4, RowsChange
<1> QED
  BY <1>1, <1>2 DEF RowTypes, Stored

LEMMA MarksTyped ==
    ASSUME RequestInv, TrafficInv, NEW c \in Calls, At(c, "stars", "events")
    PROVE  Mine(c) \subseteq Pair
<1>1. req[c].user \in Users
  BY StarsAssumption DEF RequestInv, PhaseOf, At
<1>2. SkillsOf(req[c].events) \subseteq Skills
  <2>1. SkillsOf(req[c].events) \subseteq HasSkills(c)
    BY DEF TrafficInv, StarsInv, BatchOf
  <2> QED
    BY <2>1, LockedFinite
<1> QED
  BY <1>1, <1>2 DEF Mine, Pair

\* The answer of a list is a sequence of skills.
LEMMA ListsTyped ==
    ASSUME TrafficInv, NEW user
    PROVE  Ascending({s \in Skills : <<user, s>> \in stars}) \in Seq(Nat)
<1> DEFINE listed == {s \in Skills : <<user, s>> \in stars}
           marks == {star \in stars : star[1] = user}
           skill == [star \in marks |-> star[2]]
<1>1. IsFiniteSet(marks) /\ stars \subseteq Pair
  BY FS_Subset DEF TrafficInv, StarsInv
<1>2. skill \in Surjection(marks, listed)
  <2>1. ASSUME NEW star \in marks PROVE star[2] \in listed
    BY <1>1 DEF Pair
  <2>2. ASSUME NEW s \in listed PROVE \E star \in marks : skill[star] = s
    <3>1. <<user, s>> \in marks
      OBVIOUS
    <3> QED
      BY <3>1
  <2>3. skill \in [marks -> listed]
    BY <2>1
  <2> QED
    BY <2>2, <2>3 DEF Surjection
<1> HIDE DEF marks, skill
<1>3. IsFiniteSet(listed)
  BY <1>1, <1>2, FS_Surjection
<1>4. listed \in SUBSET Nat
  BY SkillsAssumption
<1>5. Ascending(listed) \in Seq(listed)
  BY <1>3, <1>4, AscendingRows
<1> QED
  BY <1>4, <1>5, SeqMonotonic

\* Installs, work and answers change in few steps.
LEMMA StarsChange ==
    ASSUME NEW c, Step(c) \/ (Break(c) /\ UNCHANGED starVars)
    PROVE  \/ StarsLocked(c) \/ StarsEvent(c) \/ ListUserStars(c) \/ InstallCommit(c)
           \/ UNCHANGED <<installs, work, counts>>
BY DEF Step, starVars, StarsStep, RecordStars, RecordInstall, ImportRun, StarsRefused, StarsSelect,
       StarsUnknown, StarsCommit, InstallUpdate, ImportRefused, ImportObserve, ImportRebuild,
       ImportCommit

LEMMA StarTypesKept ==
    ASSUME RequestInv, TrafficInv, StarTypes, NEW c \in Calls,
           Step(c) \/ (Break(c) /\ UNCHANGED starVars)
    PROVE  StarTypes'
<1>1. TrafficShape
  BY TrafficShaped
<1>2. CASE StarsLocked(c)
  <2>1. /\ work' = [work EXCEPT ![c] = [added |-> {}, removed |-> {}]]
        /\ counts' = [counts EXCEPT ![c] = <<>>] /\ installs' = installs
    BY <1>2 DEF StarsLocked
  <2>2. \A d \in Calls : work'[d] = IF d = c THEN [added |-> {}, removed |-> {}] ELSE work[d]
    BY <1>1, <2>1 DEF TrafficShape
  <2>3. \A d \in Calls : counts'[d] = IF d = c THEN <<>> ELSE counts[d]
    BY <1>1, <2>1 DEF TrafficShape
  <2> QED
    BY <2>1, <2>2, <2>3, EmptySeq DEF StarTypes
<1>3. CASE StarsEvent(c)
  <2> DEFINE event == req[c].events[Len(counts[c]) + 1]
             mine == WithEvent(c, event)
             seen == (stars \cup mine.added) \ mine.removed
             count == Cardinality(StarsOf(seen, event.skill))
  <2>1. /\ work' = [work EXCEPT ![c] = mine] /\ counts' = [counts EXCEPT ![c] = Append(@, count)]
        /\ installs' = installs /\ pc' = pc /\ req' = req /\ At(c, "stars", "events")
    BY <1>3 DEF StarsEvent, accessVars
  <2>2. TrafficInv' /\ At(c, "stars", "events")'
    BY <1>3, <2>1, BatchGoesOn DEF At
  <2>3. BatchOf(c)' /\ Mine(c)' \subseteq Pair
    <3>1. Mine(c)' = Mine(c)
      BY <2>1 DEF Mine
    <3> QED
      BY <2>1, <2>2, <3>1, MarksTyped DEF TrafficInv, StarsInv
  <2>4. /\ work'[c].added \subseteq Pair /\ work'[c].removed \subseteq Pair
        /\ counts'[c] \in Seq(Nat)
    BY <2>2, <2>3 DEF BatchOf
  <2>5. \A d \in Calls \ {c} : work'[d] = work[d] /\ counts'[d] = counts[d]
    BY <1>1, <2>1 DEF TrafficShape
  <2> QED
    BY <2>1, <2>4, <2>5 DEF StarTypes
<1>4. CASE ListUserStars(c)
  <2>1. \E list \in Seq(Nat) : counts' = [counts EXCEPT ![c] = list]
    BY <1>4, ListsTyped DEF ListUserStars
  <2>2. UNCHANGED <<installs, work>>
    BY <1>4 DEF ListUserStars
  <2> QED
    BY <1>1, <2>1, <2>2 DEF StarTypes, TrafficShape
<1>5. CASE InstallCommit(c)
  <2>1. ASSUME NEW s \in Skills
        PROVE  Cardinality({lock \in held[c] : lock.skill = s}) \in Nat
    <3>1. IsFiniteSet({lock \in held[c] : lock.skill = s})
      BY LockedFinite, FS_Subset
    <3> QED
      BY <3>1, FS_CardinalityType
  <2>2. installs' \in [Skills -> Nat]
    BY <1>5, <2>1 DEF InstallCommit, StarTypes
  <2> QED
    BY <1>5, <2>2 DEF InstallCommit, StarTypes
<1>6. CASE UNCHANGED <<installs, work, counts>>
  BY <1>6 DEF StarTypes
<1> QED
  BY <1>2, <1>3, <1>4, <1>5, <1>6, StarsChange

\* A step is of one call.
LEMMA OthersWait ==
    ASSUME RequestInv, TrafficInv, NEW c \in Calls,
           Step(c) \/ (Break(c) /\ UNCHANGED enterpriseVars), NEW d \in Calls, d # c
    PROVE  pc'[d] = pc[d] /\ req'[d] = req[d] /\ loaded'[d] = loaded[d]
<1>1. Shape
  BY DEF RequestInv
<1>2. pc' = pc \/ \E x : pc' = [pc EXCEPT ![c] = x]
  <2>1. Outcome(c) => pc' = pc \/ \E x : pc' = [pc EXCEPT ![c] = x]
    BY DEF Outcome, Answer, Goto, accessVars
  <2>2. CASE AccessStep(c)
    BY <2>2 DEF AccessStep, Arrive, Refuse, Admit, Answer
  <2>3. CASE StarsCommit(c) \/ PackCommit(c) \/ KillVictim(c) \/ Break(c) \/ Confirm(c)
    BY <2>3 DEF StarsCommit, PackCommit, KillVictim, Break, Confirm, Answer
  <2>4. CASE TakeLock(c)
    BY <2>4 DEF TakeLock, accessVars
  <2> QED
    BY <2>1, <2>2, <2>3, <2>4, StarsOutcomes, EnterpriseOutcomes, SubmissionOutcomes DEF Step
<1>3. req' = req \/ \E x : req' = [req EXCEPT ![c] = x]
  <2>1. Outcome(c) => req' = req
    BY DEF Outcome, Answer, Goto, accessVars
  <2>2. CASE AccessStep(c)
    BY <2>2 DEF AccessStep, Arrive, Refuse, Admit, Answer
  <2>3. CASE StarsCommit(c) \/ PackCommit(c) \/ KillVictim(c) \/ Break(c) \/ Confirm(c)
    BY <2>3 DEF StarsCommit, PackCommit, KillVictim, Break, Confirm, Answer
  <2>4. CASE TakeLock(c)
    BY <2>4 DEF TakeLock, accessVars
  <2> QED
    BY <2>1, <2>2, <2>3, <2>4, StarsOutcomes, EnterpriseOutcomes, SubmissionOutcomes DEF Step
<1>4. loaded' = loaded \/ \E x : loaded' = [loaded EXCEPT ![c] = x]
  <2>1. CASE UNCHANGED enterpriseVars
    BY <2>1 DEF enterpriseVars
  <2>2. CASE EnterpriseStep(c)
    BY <2>2 DEF EnterpriseStep, IllFormed, CreateOrganization, NamespaceLoad, NamespaceCommit,
       PackLoad, PackConflict, PackCommit, OwnershipRefused, OwnershipUpdate, OwnershipCommit,
       EvidenceLoad, EvidenceDenied, EvidenceForbidden, EvidenceCommit, Load, enterpriseVars
  <2> QED
    BY <2>1, <2>2 DEF Step
<1> QED
  BY <1>1, <1>2, <1>3, <1>4 DEF Shape

\* Which steps lead to a commit of the control plane.
LEMMA CommitsFollowLoads ==
    ASSUME RequestInv, NEW c \in Calls, Step(c) \/ Break(c), pc'[c] = "commit"
    PROVE  NamespaceLoad(c) \/ PackLoad(c)
<1>1. Shape /\ PhaseOf(c)
  BY DEF RequestInv
<1>2. ASSUME NEW answer, Answer(c, answer) PROVE FALSE
  BY <1>1, <1>2 DEF Answer, Shape
<1>3. ASSUME NEW phase, phase # "commit", Goto(c, phase) PROVE FALSE
  BY <1>1, <1>3 DEF Goto, Shape
<1>4. ASSUME AccessStep(c) PROVE FALSE
  BY <1>1, <1>2, <1>4 DEF AccessStep, Arrive, Refuse, Admit, Shape
<1>5. ASSUME StarsStep(c) PROVE FALSE
  BY <1>2, <1>3, <1>5 DEF StarsStep, RecordStars, RecordInstall, ImportRun, StarsRefused,
     StarsSelect, StarsUnknown, StarsLocked, StarsEvent, StarsCommit, ListUserStars,
     InstallUpdate, InstallCommit, ImportRefused, ImportObserve, ImportRebuild, ImportCommit,
     accessVars, At
<1>6. ASSUME EnterpriseStep(c) PROVE NamespaceLoad(c) \/ PackLoad(c)
  BY <1>2, <1>3, <1>6 DEF EnterpriseStep, IllFormed, CreateOrganization, NamespaceCommit,
     PackConflict, PackCommit, OwnershipRefused, OwnershipUpdate, OwnershipCommit,
     EvidenceLoad, EvidenceDenied, EvidenceForbidden, EvidenceCommit
<1>7. ASSUME SubmissionStep(c) PROVE FALSE
  BY <1>2, <1>3, <1>7 DEF SubmissionStep, SubmissionRefused, PublishDenied, PublishForbidden, PublishRefused,
     PublishWrite, PublishConflict, PublishCommit
<1>8. ASSUME TakeLock(c) PROVE FALSE
  BY <1>1, <1>8 DEF TakeLock, PhaseOf, accessVars
<1>9. ASSUME KillVictim(c) \/ Break(c) \/ Confirm(c) PROVE FALSE
  BY <1>2, <1>9 DEF KillVictim, Break, Confirm
<1> QED
  BY <1>4, <1>5, <1>6, <1>7, <1>8, <1>9 DEF Step

\* The row of a pack after an upsert.
LEMMA UpsertTyped ==
    ASSUME RequestInv, EnterpriseTypes, NEW c \in Calls, PackCommit(c)
    PROVE  /\ req[c].slug \in PackSlugs /\ Wanted(c) \in PackRow /\ PackAfter(c) \in PackRow
           /\ packs'[req[c].slug] = PackAfter(c)
<1>1. /\ At(c, "pack", "commit") /\ UpsertOf(c) /\ req[c] \in Requests
      /\ packs' = [packs EXCEPT ![req[c].slug] = PackAfter(c)]
  BY DEF EnterpriseTypes, PackCommit, RequestInv, PhaseOf, At
<1>2. /\ req[c].slug \in PackSlugs /\ req[c].description \in Descriptions
      /\ req[c].rules \in PackRules
  BY <1>1, EnterpriseAssumption DEF UpsertOf, At
<1>3. Wanted(c) \in PackRow
  BY <1>2 DEF Wanted, PackRow
<1>4. PackAfter(c) \in PackRow
  <2>1. CASE loaded[c] = None
    BY <1>3, <2>1 DEF PackAfter
  <2>2. CASE loaded[c] # None
    <3>1. packs[req[c].slug] \in PackRow
      BY <1>1, <1>2, <2>2 DEF EnterpriseTypes, UpsertOf
    <3> DEFINE after(f) == IF Wanted(c)[f] # loaded[c][f] THEN Wanted(c)[f] ELSE packs[req[c].slug][f]
    <3>2. after("description") \in Descriptions /\ after("rules") \in PackRules
      BY <1>3, <3>1 DEF PackRow
    <3>3. PackAfter(c) = [f \in {"description", "rules"} |-> after(f)]
      BY <2>2 DEF PackAfter
    <3> HIDE DEF after
    <3>4. PackAfter(c) = [description |-> after("description"), rules |-> after("rules")]
      BY <3>3
    <3> QED
      BY <3>2, <3>4 DEF PackRow
  <2> QED
    BY <2>1, <2>2
<1> QED
  BY <1>1, <1>2, <1>3, <1>4 DEF EnterpriseTypes

LEMMA PacksChange ==
    ASSUME NEW c, Step(c) \/ (Break(c) /\ UNCHANGED enterpriseVars)
    PROVE  \/ CreateOrganization(c) /\ UNCHANGED <<packs, evidence>>
           \/ PackCommit(c) /\ UNCHANGED <<organizations, evidence>>
           \/ EvidenceCommit(c) /\ UNCHANGED <<organizations, packs>>
           \/ UNCHANGED <<organizations, packs, evidence>>
<1> USE DEF enterpriseVars
<1>1. CASE EnterpriseStep(c)
  BY <1>1 DEF EnterpriseStep, IllFormed, CreateOrganization, NamespaceLoad, NamespaceCommit,
     PackLoad, PackConflict, PackCommit, OwnershipRefused, OwnershipUpdate, OwnershipCommit,
     EvidenceLoad, EvidenceDenied, EvidenceForbidden, EvidenceCommit
<1>2. CASE UNCHANGED enterpriseVars
  BY <1>2
<1> QED
  BY <1>1, <1>2 DEF Step

LEMMA EnterpriseTypesKept ==
    ASSUME RequestInv, TrafficInv, EnterpriseTypes, NEW c \in Calls,
           Step(c) \/ (Break(c) /\ UNCHANGED enterpriseVars)
    PROVE  EnterpriseTypes'
<1>1. pc[c] # "idle" => req[c] \in Requests
  BY DEF RequestInv, PhaseOf
<1>2. /\ organizations' \subseteq Organizations
      /\ packs' \in [PackSlugs -> PackRow \cup {None}]
      /\ evidence' \subseteq [by : Calls, of : Coords]
      /\ \A p \in PackSlugs : packs[p] # None => packs'[p] # None
  <2>1. CASE CreateOrganization(c) /\ UNCHANGED <<packs, evidence>>
    <3>1. req[c].slug \in Organizations
      BY <1>1, <2>1, EnterpriseAssumption DEF CreateOrganization, Handles, At
    <3> QED
      BY <2>1, <3>1 DEF CreateOrganization, EnterpriseTypes
  <2>2. CASE PackCommit(c) /\ UNCHANGED <<organizations, evidence>>
    <3>1. PackAfter(c) \in PackRow /\ PackAfter(c) # None
      BY <2>2, UpsertTyped, EnterpriseAssumption
    <3>2. packs' = [packs EXCEPT ![req[c].slug] = PackAfter(c)]
      BY <2>2 DEF PackCommit
    <3> QED
      BY <2>2, <3>1, <3>2 DEF EnterpriseTypes
  <2>3. CASE EvidenceCommit(c) /\ UNCHANGED <<organizations, packs>>
    <3>1. req[c].skill \in Skills /\ req[c].version \in Versions
      BY <1>1, <2>3, EnterpriseAssumption DEF EvidenceCommit, At
    <3>2. [by |-> c, of |-> <<req[c].skill, req[c].version>>] \in [by : Calls, of : Coords]
      BY <3>1 DEF Coords
    <3> QED
      BY <2>3, <3>2 DEF EvidenceCommit, EnterpriseTypes
  <2>4. CASE UNCHANGED <<organizations, packs, evidence>>
    BY <2>4 DEF EnterpriseTypes
  <2> QED
    BY <2>1, <2>2, <2>3, <2>4, PacksChange
<1>3. ASSUME NEW d \in Calls, d # c PROVE UpsertOf(d)'
  <2>1. UpsertOf(d) /\ PhaseOf(d)
    BY DEF EnterpriseTypes, RequestInv
  <2>2. pc'[d] = pc[d] /\ req'[d] = req[d] /\ loaded'[d] = loaded[d]
    BY <1>3, OthersWait
  <2>3. At(d, "pack", "commit") => req[d].wellFormed /\ req[d].slug \in PackSlugs
    BY <2>1, EnterpriseAssumption DEF UpsertOf, PhaseOf, At
  <2> QED
    BY <1>2, <2>1, <2>2, <2>3 DEF UpsertOf, At
<1>4. UpsertOf(c)'
  <2> SUFFICES ASSUME pc'[c] = "commit", req'[c].kind = "pack" PROVE UpsertOf(c)'
    BY DEF UpsertOf, At
  <2>1. Shape
    BY DEF RequestInv
  <2>2. NamespaceLoad(c) \/ PackLoad(c)
    BY CommitsFollowLoads
  <2>3. req' = req
    BY <2>1, <2>2 DEF NamespaceLoad, PackLoad, Goto, Answer
  <2>4. PackLoad(c)
    BY <2>2, <2>3 DEF NamespaceLoad, Handles, At
  <2> QED
    BY <2>1, <2>3, <2>4 DEF PackLoad, Handles, Load, UpsertOf, Shape
<1> QED
  BY <1>2, <1>3, <1>4 DEF EnterpriseTypes

\* A step plans locks for rows that are there, takes one, or lets go of all.
LEMMA LocksChange ==
    ASSUME RequestInv, TrafficInv, Standing, NEW c \in Calls, Step(c) \/ Break(c)
    PROVE  \/ \E locks : /\ plan' = [plan EXCEPT ![c] = locks] /\ held' = held
                         /\ \A i \in DOMAIN locks : locks[i].skill \in Stored
           \/ EndTransaction(c)
           \/ TakeLock(c)
           \/ UNCHANGED <<plan, held>>
<1> DEFINE planned(locks) == /\ plan' = [plan EXCEPT ![c] = locks] /\ held' = held
                             /\ \A i \in DOMAIN locks : locks[i].skill \in Stored
           quiet == EndTransaction(c) \/ UNCHANGED <<plan, held>>
<1>1. pc[c] # "idle" => req[c] \in Requests
  BY DEF RequestInv, PhaseOf
<1>2. CASE AccessStep(c) /\ UNCHANGED rowVars
  BY <1>2 DEF rowVars
<1>3. CASE StarsStep(c)
  <2>1. CASE StarsSelect(c)
    <3>1. req[c].events \in Seq(Event)
      BY <1>1, <2>1, StarsAssumption DEF StarsSelect, At
    <3>2. planned(LocksById(req[c].events))
      BY <2>1, <3>1, BatchLocks DEF StarsSelect, WillLock
    <3> QED
      BY <3>2
  <2>2. CASE InstallUpdate(c)
    <3> DEFINE locks == IF req[c].skill \in Stored
                        THEN <<[skill |-> req[c].skill, mode |-> "no_key_update"]>> ELSE <<>>
    <3>1. plan' = [plan EXCEPT ![c] = locks] /\ held' = held
      BY <2>2 DEF InstallUpdate, WillLock
    <3>2. \A i \in DOMAIN locks : locks[i].skill \in Stored
      OBVIOUS
    <3> QED
      BY <3>1, <3>2
  <2>3. CASE ImportObserve(c)
    <3>1. \A i \in DOMAIN req[c].slugs : req[c].slugs[i] \in Stored
      BY <2>3 DEF ImportObserve, ToSet
    <3>2. planned(ShareLocks(req[c].slugs))
      BY <2>3, <3>1 DEF ImportObserve, WillLock, ShareLocks
    <3> QED
      BY <3>2
  <2>4. CASE ImportRebuild(c)
    <3>1. PICK rows \in SetToSeqs(observed \cup HasSkills(c)) : WillLock(c, ShareLocks(rows))
      BY <2>4 DEF ImportRebuild
    <3>2. observed \cup HasSkills(c) \subseteq Stored
      BY DEF Standing, StandingOf, HasSkills
    <3>3. \A i \in DOMAIN rows : rows[i] \in Stored
      BY <3>1, <3>2 DEF SetToSeqs
    <3>4. planned(ShareLocks(rows))
      BY <3>1, <3>3 DEF WillLock, ShareLocks
    <3> QED
      BY <3>4
  <2>5. CASE ~(StarsSelect(c) \/ InstallUpdate(c) \/ ImportObserve(c) \/ ImportRebuild(c))
    BY <1>3, <2>5 DEF StarsStep, RecordStars, RecordInstall, ImportRun, StarsRefused, StarsUnknown,
       StarsLocked, StarsEvent, StarsCommit, ListUserStars, InstallCommit, ImportRefused,
       ImportCommit, rowVars
  <2> QED
    BY <2>1, <2>2, <2>3, <2>4, <2>5
<1>4. CASE EnterpriseStep(c)
  <2>1. CASE OwnershipUpdate(c)
    <3> DEFINE locks == IF home[req[c].skill] = req[c].namespace
                        THEN <<>> ELSE <<[skill |-> req[c].skill, mode |-> "no_key_update"]>>
    <3>1. /\ plan' = [plan EXCEPT ![c] = locks] /\ held' = held
          /\ home[req[c].skill] # None /\ req[c].skill \in Skills
      BY <1>1, <2>1, EnterpriseAssumption DEF OwnershipUpdate, WillLock, Handles, At
    <3>2. \A i \in DOMAIN locks : locks[i].skill \in Stored
      BY <3>1 DEF Stored
    <3> QED
      BY <3>1, <3>2
  <2>2. CASE ~OwnershipUpdate(c)
    BY <1>4, <2>2 DEF EnterpriseStep, IllFormed, CreateOrganization, NamespaceLoad,
       NamespaceCommit, PackLoad, PackConflict, PackCommit, OwnershipRefused, OwnershipCommit,
       EvidenceLoad, EvidenceDenied, EvidenceForbidden, EvidenceCommit, rowVars
  <2> QED
    BY <2>1, <2>2
<1>5. CASE SubmissionStep(c)
  <2>1. CASE PublishWrite(c)
    <3> DEFINE rows == ReferredTo(c)
               locks == [i \in DOMAIN rows |-> [skill |-> rows[i], mode |-> "key_share"]]
    <3>1. WillLock(c, locks) /\ req[c] \in Requests /\ req[c].kind = "publish"
      BY <1>1, <2>1 DEF PublishWrite, Judged, At
    <3>2. rows \in Seq(Stored)
      BY <3>1, PublicationLocks
    <3> HIDE DEF rows
    <3>3. \A i \in DOMAIN rows : rows[i] \in Stored
      BY <3>2
    <3>4. planned(locks)
      BY <3>1, <3>3 DEF WillLock
    <3> QED
      BY <3>4
  <2>2. CASE ~PublishWrite(c)
    BY <1>5, <2>2 DEF SubmissionStep, SubmissionRefused, PublishDenied, PublishForbidden, PublishRefused,
       PublishConflict, PublishCommit, rowVars
  <2> QED
    BY <2>1, <2>2
<1>6. CASE TakeLock(c) \/ KillVictim(c) \/ Break(c) \/ Confirm(c)
  BY <1>6 DEF KillVictim, Break, Confirm, rowVars
<1> QED
  BY <1>2, <1>3, <1>4, <1>5, <1>6 DEF Step

LEMMA ObservedGrows ==
    ASSUME NEW c, Step(c) \/ (Break(c) /\ UNCHANGED starVars)
    PROVE  observed' \in {observed, observed \cup HasSkills(c)}
BY DEF Step, starVars, StarsStep, RecordStars, RecordInstall, ImportRun, StarsRefused, StarsSelect,
       StarsUnknown, StarsLocked, StarsEvent, StarsCommit, ListUserStars, InstallUpdate,
       InstallCommit, ImportRefused, ImportObserve, ImportRebuild, ImportCommit

LEMMA StandingKept ==
    ASSUME RequestInv, TrafficInv, Standing, Stored \subseteq Stored', NEW c \in Calls,
           Step(c) \/ (Break(c) /\ UNCHANGED starVars)
    PROVE  Standing'
<1>1. Shape /\ TrafficShape
  BY TrafficShaped DEF RequestInv
<1>2. observed' \subseteq Stored' /\ IsFiniteSet(observed')
  <2>1. HasSkills(c) \subseteq Stored /\ IsFiniteSet(HasSkills(c))
    BY LockedFinite DEF Standing, StandingOf, HasSkills
  <2>2. IsFiniteSet(observed \cup HasSkills(c))
    BY <2>1, FS_Union DEF Standing
  <2> QED
    BY <2>1, <2>2, ObservedGrows DEF Standing
<1>3. ASSUME NEW d \in Calls PROVE StandingOf(d)'
  <2>1. StandingOf(d)
    BY DEF Standing
  <2>2. CASE \E locks : /\ plan' = [plan EXCEPT ![c] = locks] /\ held' = held
                        /\ \A i \in DOMAIN locks : locks[i].skill \in Stored
    BY <1>1, <2>1, <2>2 DEF StandingOf, Shape
  <2>3. CASE EndTransaction(c)
    <3>1. /\ plan'[d] = IF d = c THEN <<>> ELSE plan[d]
          /\ held'[d] = IF d = c THEN {} ELSE held[d]
      BY <1>1, <2>3 DEF EndTransaction, Shape, TrafficShape
    <3> QED
      BY <2>1, <3>1 DEF StandingOf
  <2>4. CASE TakeLock(c)
    <3>1. CASE d # c
      <4>1. plan'[d] = plan[d] /\ held'[d] = held[d]
        BY <1>1, <2>4, <3>1 DEF TakeLock, Shape, TrafficShape
      <4> QED
        BY <2>1, <4>1 DEF StandingOf
    <3>2. CASE d = c
      <4>1. /\ plan[c] # <<>> /\ plan'[c] = Tail(plan[c])
            /\ held'[c] = held[c] \cup {Head(plan[c])}
        BY <1>1, <2>4 DEF TakeLock, Shape, TrafficShape
      <4>2. pc[c] \in {"locking", "observing"}
        BY <4>1 DEF RequestInv, PhaseOf
      <4>3. plan[c] \in Seq(LockIn(ModeOf(req[c].kind)))
        BY <4>2 DEF TrafficInv, LockInv, LocksOf, Locking
      <4>4. /\ Len(plan[c]) \in Nat /\ DOMAIN plan[c] = 1..Len(plan[c]) /\ Len(plan[c]) > 0
            /\ Head(plan[c]) = plan[c][1]
            /\ DOMAIN Tail(plan[c]) = 1..(Len(plan[c]) - 1)
            /\ \A i \in DOMAIN Tail(plan[c]) : Tail(plan[c])[i] = plan[c][i + 1]
        BY <4>1, <4>3, HeadTailProperties
      <4>5. Head(plan[c]).skill \in Stored
        BY <2>1, <3>2, <4>4 DEF StandingOf
      <4>6. \A i \in DOMAIN plan'[c] : plan'[c][i].skill \in Stored
        <5> SUFFICES ASSUME NEW i \in DOMAIN plan'[c] PROVE plan'[c][i].skill \in Stored
          OBVIOUS
        <5>1. i + 1 \in DOMAIN plan[c] /\ plan'[c][i] = plan[c][i + 1]
          BY <4>1, <4>4
        <5> QED
          BY <2>1, <3>2, <5>1 DEF StandingOf
      <4> QED
        BY <2>1, <3>2, <4>1, <4>5, <4>6 DEF StandingOf
    <3> QED
      BY <3>1, <3>2
  <2>5. CASE UNCHANGED <<plan, held>>
    BY <2>1, <2>5 DEF StandingOf
  <2> QED
    BY <2>2, <2>3, <2>4, <2>5, LocksChange
<1> QED
  BY <1>2, <1>3 DEF Standing

-----------------------------------------------------------------------------
(* Deadlocks *)

\* Whom a blocker waits for is a blocker, and a set with that property has them all.
LEMMA BlockersClosed ==
    ASSUME NEW c, NEW x \in Blockers(c) \cup {c}, NEW y \in Calls, WaitsFor(x, y)
    PROVE  y \in Blockers(c)
BY DEF Blockers

LEMMA BlockersLeast ==
    ASSUME NEW c, NEW S \in SUBSET Calls,
           \A x \in S \cup {c} : \A y \in Calls : WaitsFor(x, y) => y \in S
    PROVE  Blockers(c) \subseteq S
BY DEF Blockers

\* Who waits, and what it waits for.
LEMMA WaitingLocks ==
    ASSUME RequestInv, LockInv, NEW x \in Calls, NEW y \in Calls, WaitsFor(x, y)
    PROVE  /\ x # y /\ plan[x] # <<>> /\ Locking(x) /\ Locking(y)
           /\ 1 \in DOMAIN plan[x] /\ Head(plan[x]) = plan[x][1]
           /\ Head(plan[x]) \in LockIn(ModeOf(req[x].kind))
           /\ \E lock \in held[y] : /\ lock \in LockIn(ModeOf(req[y].kind))
                                    /\ lock.skill = Head(plan[x]).skill
                                    /\ Conflicts(ModeOf(req[y].kind), ModeOf(req[x].kind))
<1>1. x # y /\ plan[x] # <<>>
  BY DEF WaitsFor
<1>2. PICK lock \in held[y] : /\ lock.skill = Head(plan[x]).skill
                              /\ Conflicts(lock.mode, Head(plan[x]).mode)
  BY DEF WaitsFor
<1>3. Locking(x) /\ Locking(y)
  BY <1>1, <1>2 DEF LockInv, LocksOf, RequestInv, PhaseOf
<1>4. plan[x] \in Seq(LockIn(ModeOf(req[x].kind))) /\ lock \in LockIn(ModeOf(req[y].kind))
  BY <1>2, <1>3 DEF Locking
<1>5. /\ 1 \in DOMAIN plan[x] /\ Head(plan[x]) = plan[x][1]
      /\ Head(plan[x]) \in LockIn(ModeOf(req[x].kind))
  BY <1>1, <1>4, HeadTailProperties
<1>6. lock.mode = ModeOf(req[y].kind) /\ Head(plan[x]).mode = ModeOf(req[x].kind)
  BY <1>4, <1>5 DEF LockIn
<1> QED
  BY <1>1, <1>2, <1>3, <1>4, <1>5, <1>6

\* Without a batch in the circle, whoever is waited for has its one row, and waits for
\* nobody.
LEMMA SomeBatch ==
    ASSUME RequestInv, LockInv, NEW c \in Calls, Deadlocked(c)
    PROVE  \E d \in Blockers(c) : req[d].kind = "stars"
<1> SUFFICES ASSUME \A d \in Blockers(c) : req[d].kind # "stars" PROVE FALSE
  OBVIOUS
<1> DEFINE S == {y \in Calls : WaitsFor(c, y)}
<1>1. c \in Blockers(c)
  BY DEF Deadlocked
<1>2. ASSUME NEW x \in S, NEW y \in Calls, WaitsFor(x, y) PROVE FALSE
  <2>1. x \in Blockers(c)
    BY <1>2, BlockersClosed
  <2>2. /\ Locking(c) /\ Locking(x) /\ held[x] # {}
        /\ Conflicts(ModeOf(req[x].kind), ModeOf(req[c].kind))
    BY <1>2, WaitingLocks
  <2>3. plan[x] # <<>>
    BY <1>2, WaitingLocks
  <2>4. req[x].kind \in {"install", "ownership"}
    BY <1>1, <2>1, <2>2 DEF Conflicts, ModeOf
  <2> QED
    BY <2>2, <2>3, <2>4 DEF Locking, OneRow
<1>3. \A x \in S \cup {c} : \A y \in Calls : WaitsFor(x, y) => y \in S
  BY <1>2
<1>4. c \in S
  BY <1>1, <1>3, BlockersLeast
<1> QED
  BY <1>4 DEF WaitsFor

\* Without an import or a publication in the circle, the rows waited for only ascend.
LEMMA SomeInserts ==
    ASSUME RequestInv, LockInv, NEW c \in Calls, Deadlocked(c)
    PROVE  \E d \in Blockers(c) : req[d].kind \in {"import", "publish"}
<1> SUFFICES ASSUME \A d \in Blockers(c) : req[d].kind \notin {"import", "publish"} PROVE FALSE
  OBVIOUS
<1> DEFINE wanted(x) == Head(plan[x]).skill
           S == {y \in Blockers(c) : plan[y] # <<>> => wanted(c) < wanted(y)}
<1>1. c \in Blockers(c) /\ plan[c] # <<>>
  BY DeadlockedWaits DEF Deadlocked
<1>2. ASSUME NEW x \in S \cup {c}, NEW y \in Calls, WaitsFor(x, y) PROVE y \in S
  <2>1. y \in Blockers(c)
    BY <1>2, BlockersClosed
  <2> SUFFICES ASSUME plan[y] # <<>> PROVE wanted(c) < wanted(y)
    BY <2>1
  <2>2. x \in Calls /\ plan[x] # <<>>
    BY <1>2, WaitingLocks DEF Blockers
  <2>3. PICK lock \in held[y] : lock \in LockIn(ModeOf(req[y].kind)) /\ lock.skill = wanted(x)
    BY <1>2, <2>2, WaitingLocks
  <2>4. Locking(y)
    BY <1>2, <2>2, WaitingLocks
  <2>5. req[y].kind = "stars"
    BY <2>1, <2>3, <2>4 DEF Locking, OneRow
  <2>6. /\ 1 \in DOMAIN plan[y] /\ Head(plan[y]) = plan[y][1]
        /\ Head(plan[y]) \in LockIn(ModeOf(req[y].kind))
    <3>1. plan[y] \in Seq(LockIn(ModeOf(req[y].kind)))
      BY <2>4 DEF Locking
    <3> QED
      BY <3>1, HeadTailProperties
  <2>7. wanted(x) < wanted(y)
    BY <2>3, <2>4, <2>5, <2>6 DEF Locking, InOrder
  <2>8. x # c => wanted(c) < wanted(x)
    BY <1>2, <2>2
  <2>9. wanted(x) \in Nat /\ wanted(y) \in Nat /\ wanted(c) \in Nat
    <3>1. wanted(x) \in Skills /\ wanted(y) \in Skills
      BY <2>3, <2>6 DEF LockIn
    <3>2. Locking(c)
      BY <1>1 DEF LockInv, LocksOf, RequestInv, PhaseOf
    <3>3. plan[c] \in Seq(LockIn(ModeOf(req[c].kind)))
      BY <3>2 DEF Locking
    <3>4. Head(plan[c]) \in LockIn(ModeOf(req[c].kind))
      BY <1>1, <3>3, HeadTailProperties
    <3> QED
      BY <3>1, <3>4, SkillsAssumption DEF LockIn
  <2> HIDE DEF wanted
  <2> QED
    BY <2>7, <2>8, <2>9
<1>3. S \in SUBSET Calls
  BY DEF Blockers
<1>4. c \in S
  BY <1>1, <1>2, <1>3, BlockersLeast
<1>5. wanted(c) < wanted(c) /\ wanted(c) \in Nat
  <2>1. Locking(c)
    BY <1>1 DEF LockInv, LocksOf, RequestInv, PhaseOf
  <2>2. plan[c] \in Seq(LockIn(ModeOf(req[c].kind)))
    BY <2>1 DEF Locking
  <2>3. Head(plan[c]) \in LockIn(ModeOf(req[c].kind))
    BY <1>1, <2>2, HeadTailProperties
  <2> QED
    BY <1>1, <1>4, <2>3, SkillsAssumption DEF LockIn
<1> QED
  BY <1>5

-----------------------------------------------------------------------------
(* The whole invariant *)

ServiceInv == RequestInv /\ TrafficInv /\ Typed

LEMMA ServiceBegins == Init => ServiceInv
<1> SUFFICES ASSUME Init PROVE ServiceInv
  OBVIOUS
<1> USE DEF Init, AccessInit, RowsInit, EnterpriseInit, StarsInit
<1>1. RequestInv
  BY RequestsBegin
<1>2. LockInv
  BY DEF LockInv, LocksOf, Excluded
<1>3. StarsInv
  <2>1. stars \subseteq Pair /\ IsFiniteSet(stars)
    BY DEF Pair, Stored
  <2> QED
    BY <2>1 DEF StarsInv, BatchOf, At
<1>4. AccessTypes
  BY AccessAssumption DEF AccessTypes, Phases, Result
<1>5. RowTypes /\ StarTypes
  BY EmptySeq DEF RowTypes, StarTypes
<1>6. EnterpriseTypes
  BY DEF EnterpriseTypes, UpsertOf, At
<1>7. Standing
  BY DEF Standing, StandingOf
<1> QED
  BY <1>1, <1>2, <1>3, <1>4, <1>5, <1>6, <1>7 DEF ServiceInv, TrafficInv, Typed

LEMMA TrafficGoesOn ==
    ASSUME RequestInv, TrafficInv, Standing, NEW c \in Calls,
           Step(c) \/ (Break(c) /\ UNCHANGED <<starVars, enterpriseVars>>)
    PROVE  TrafficInv'
<1>1. CASE AccessStep(c) /\ UNCHANGED <<rowVars, starVars>>
  BY <1>1, AccessMoves
<1>2. CASE StarsStep(c)
  <2>1. observed \subseteq Skills /\ IsFiniteSet(observed)
    BY DEF Standing, Stored
  <2> QED
    BY <1>2, <2>1, StarsMove
<1>3. CASE EnterpriseStep(c) /\ UNCHANGED starVars
  BY <1>3, EnterpriseMoves
<1>4. CASE SubmissionStep(c) /\ UNCHANGED starVars
  BY <1>4, SubmissionMoves
<1>5. CASE TakeLock(c) /\ UNCHANGED starVars
  BY <1>5, TakesLock
<1>6. CASE (KillVictim(c) \/ Break(c)) /\ UNCHANGED starVars
  BY <1>6, Releases DEF KillVictim, Break, starVars
<1>7. CASE Confirm(c) /\ UNCHANGED starVars
  BY <1>7, Unlocked DEF Confirm, Answer, LockPhases, rowVars, starVars
<1> QED
  BY <1>1, <1>2, <1>3, <1>4, <1>5, <1>6, <1>7 DEF Step

\* A step of one call.
LEMMA CallsKeep ==
    ASSUME ServiceInv, NEW c \in Calls,
           Step(c) \/ (Break(c) /\ UNCHANGED <<starVars, enterpriseVars>>)
    PROVE  TrafficInv' /\ Typed'
<1>1. RequestInv /\ TrafficInv /\ AccessTypes /\ RowTypes /\ StarTypes /\ EnterpriseTypes /\ Standing
  BY DEF ServiceInv, Typed
<1>2. TrafficInv'
  BY <1>1, TrafficGoesOn
<1>3. AccessTypes'
  BY <1>1, AccessTypesKept
<1>4. RowTypes' /\ Stored \subseteq Stored'
  BY <1>1, RowTypesKept
<1>5. StarTypes'
  BY <1>1, StarTypesKept
<1>6. EnterpriseTypes'
  BY <1>1, EnterpriseTypesKept
<1>7. Standing'
  BY <1>1, <1>4, StandingKept
<1> QED
  BY <1>2, <1>3, <1>4, <1>5, <1>6, <1>7 DEF Typed

\* Steps of the process, of the clock, and of nobody.
LEMMA NobodyMoves ==
    ASSUME ServiceInv, UNCHANGED <<settings, pc, req, caller, result>>,
           service' \in {service, "up", "refused"}, now' \in 0..MaxNow,
           UNCHANGED <<rowVars, starVars, enterpriseVars>>
    PROVE  TrafficInv' /\ Typed'
<1> USE DEF rowVars, tables, starVars, enterpriseVars
<1>1. LockInv'
  BY DEF ServiceInv, TrafficInv, LockInv, LocksOf, Locking, Excluded, InOrder, OneRow
<1>2. StarsInv'
  <2>1. ASSUME NEW c \in Calls PROVE BatchOf(c)'
    <3>1. BatchOf(c) /\ PhaseOf(c)
      BY DEF ServiceInv, TrafficInv, StarsInv, RequestInv
    <3> QED
      BY <3>1, BatchOfStays DEF PhaseOf, StarsOf
  <2> QED
    BY <2>1 DEF ServiceInv, TrafficInv, StarsInv
<1>3. AccessTypes'
  BY DEF ServiceInv, Typed, AccessTypes
<1>4. RowTypes' /\ StarTypes'
  BY DEF ServiceInv, Typed, RowTypes, StarTypes
<1>5. EnterpriseTypes'
  BY DEF ServiceInv, Typed, EnterpriseTypes, UpsertOf, At
<1>6. Standing'
  BY DEF ServiceInv, Typed, Standing, StandingOf, Stored
<1> QED
  BY <1>1, <1>2, <1>3, <1>4, <1>5, <1>6 DEF TrafficInv, Typed

LEMMA ServiceGoesOn == ServiceInv /\ [Next]_vars => ServiceInv'
<1> SUFFICES ASSUME ServiceInv, [Next]_vars PROVE ServiceInv'
  OBVIOUS
<1>1. RequestInv'
  BY RequestsGoOn DEF ServiceInv
<1>2. CASE Process /\ UNCHANGED <<rowVars, starVars, enterpriseVars>>
  <2>1. now \in 0..MaxNow /\ MaxNow \in Nat
    BY AccessAssumption DEF ServiceInv, Typed, AccessTypes
  <2>2. /\ UNCHANGED <<settings, pc, req, caller, result>>
        /\ service' \in {service, "up", "refused"} /\ now' \in 0..MaxNow
    BY <1>2, <2>1 DEF Process, Start, Tick
  <2> QED
    BY <1>1, <1>2, <2>2, NobodyMoves DEF ServiceInv
<1>3. ASSUME NEW c \in Calls, Step(c) \/ (Break(c) /\ UNCHANGED <<starVars, enterpriseVars>>)
      PROVE  ServiceInv'
  BY <1>1, <1>3, CallsKeep DEF ServiceInv
<1>4. CASE UNCHANGED vars
  <2>1. /\ UNCHANGED <<settings, pc, req, caller, result>>
        /\ UNCHANGED <<rowVars, starVars, enterpriseVars>> /\ service' = service /\ now' = now
    BY <1>4 DEF vars, accessVars
  <2>2. now' \in 0..MaxNow
    BY <2>1 DEF ServiceInv, Typed, AccessTypes
  <2> QED
    BY <1>1, <2>1, <2>2, NobodyMoves DEF ServiceInv
<1> QED
  BY <1>2, <1>3, <1>4 DEF Next

LEMMA ServiceSafe == Spec => []ServiceInv
BY ServiceBegins, ServiceGoesOn, PTL DEF Spec

\* The variables are of their types, and only calls in service hold or await row locks.
THEOREM TypesHold == Spec => []TypeOK
<1>1. ASSUME ServiceInv PROVE TypeOK
  <2>1. RequestInv /\ LockInv /\ StarsInv /\ Typed
    BY <1>1 DEF ServiceInv, TrafficInv
  <2>2. ASSUME NEW c \in Calls
        PROVE  /\ plan[c] \in Seq(Lock) /\ held[c] \subseteq Lock
               /\ c \notin InService => plan[c] = <<>> /\ held[c] = {}
    <3>1. PhaseOf(c) /\ LocksOf(c)
      BY <2>1 DEF RequestInv, LockInv
    <3>2. CASE pc[c] \in LockPhases
      <4>1. ModeOf(req[c].kind) \in Modes
        BY DEF ModeOf, Modes
      <4>2. LockIn(ModeOf(req[c].kind)) \subseteq Lock
        BY <4>1 DEF LockIn, Lock
      <4>3. plan[c] \in Seq(LockIn(ModeOf(req[c].kind)))
            /\ held[c] \subseteq LockIn(ModeOf(req[c].kind))
        BY <3>1, <3>2 DEF LocksOf, Locking, LockPhases
      <4>4. plan[c] \in Seq(Lock)
        BY <4>2, <4>3
      <4>5. c \in InService
        BY <3>2 DEF InService, LockPhases
      <4> QED
        BY <4>2, <4>3, <4>4, <4>5
    <3>3. CASE pc[c] \notin LockPhases
      <4>1. plan[c] = <<>> /\ held[c] = {}
        BY <3>1, <3>3 DEF PhaseOf, LocksOf, LockPhases
      <4> QED
        BY <4>1, EmptySeq
    <3> QED
      BY <3>2, <3>3
  <2> QED
    BY <2>1, <2>2 DEF RequestInv, Shape, StarsInv, Typed, AccessTypes, RowTypes, StarTypes,
                      EnterpriseTypes, Standing, Phases, TypeOK
<1> QED
  BY <1>1, ServiceSafe, PTL

\* In every circle of calls that wait for each other's rows there is a batch of star
\* events, and an import or a publication: neither batches, installs and moves of skills
\* alone, nor imports and publications alone, can deadlock.
THEOREM DeadlocksAreMixed == Spec => []OnlyMixedDeadlocks
<1>1. ServiceInv => OnlyMixedDeadlocks
  BY SomeBatch, SomeInserts DEF ServiceInv, TrafficInv, OnlyMixedDeadlocks
<1> QED
  BY <1>1, ServiceSafe, PTL

-----------------------------------------------------------------------------
(* Answers *)

\* Only a batch and an upsert of a pack answer as such.
LEMMA StepsAnswer ==
    ASSUME RequestInv, NEW c \in Calls, Step(c) \/ Break(c)
    PROVE  \/ StarsCommit(c) \/ PackCommit(c)
           \/ \E answer \in Others : Answer(c, answer)
           \/ UNCHANGED result
<1>1. {"failed", "created"} \subseteq Others
  BY DEF Others, Result
<1>2. Outcome(c) => (\E answer \in Others : Answer(c, answer)) \/ UNCHANGED result
  BY DEF Outcome, Goto, accessVars
<1>3. CASE AccessStep(c)
  BY <1>3, AccessOutcomes DEF AccessStep, Arrive, Admit
<1>4. CASE StarsStep(c) \/ EnterpriseStep(c) \/ SubmissionStep(c)
  BY <1>2, <1>4, StarsOutcomes, EnterpriseOutcomes, SubmissionOutcomes
<1>5. CASE TakeLock(c) \/ KillVictim(c) \/ Break(c) \/ Confirm(c)
  BY <1>1, <1>5 DEF TakeLock, KillVictim, Break, Confirm, accessVars
<1> QED
  BY <1>3, <1>4, <1>5 DEF Step

\* The columns of a pack that are not sent are as they were asked for when nobody has
\* changed the pack since it was read.
LEMMA UpsertsAnswer ==
    ASSUME ServiceInv, NEW c \in Calls, PackCommit(c)
    PROVE  PackHolds(c)
<1>1. At(c, "pack", "commit") /\ (loaded[c] = None => packs[req[c].slug] = None)
  BY DEF PackCommit
<1>2. /\ req[c].slug \in PackSlugs /\ Wanted(c) \in PackRow
      /\ packs'[req[c].slug] = PackAfter(c)
  BY UpsertTyped DEF ServiceInv, Typed
<1>3. CASE loaded[c] = None
  BY <1>2, <1>3 DEF PackHolds, PackAfter
<1>4. CASE loaded[c] # None /\ packs[req[c].slug] = loaded[c]
  <2>1. PackAfter(c) = [f \in {"description", "rules"} |-> Wanted(c)[f]]
    BY <1>4 DEF PackAfter
  <2>2. Wanted(c) = [f \in {"description", "rules"} |-> Wanted(c)[f]]
    BY DEF Wanted
  <2> QED
    BY <1>2, <2>1, <2>2 DEF PackHolds
<1> QED
  BY <1>3, <1>4 DEF PackHolds

LEMMA CallsAnswer ==
    ASSUME ServiceInv, NEW d \in Calls, Step(d) \/ Break(d), NEW c \in Calls
    PROVE  /\ Answers(c, "starred") => BatchHolds(c)
           /\ Answers(c, "upserted") => PackHolds(c)
<1>1. DOMAIN result = Calls
  BY DEF ServiceInv, RequestInv, Shape
<1>2. CASE StarsCommit(d)
  <2>1. result'[d] = "starred" /\ (c # d => result'[c] = result[c])
    BY <1>1, <1>2 DEF StarsCommit, Answer
  <2>2. BatchHolds(d)
    BY <1>2, BatchesAnswer DEF ServiceInv
  <2> QED
    BY <2>1, <2>2 DEF Answers
<1>3. CASE PackCommit(d)
  <2>1. result'[d] = "upserted" /\ (c # d => result'[c] = result[c])
    BY <1>1, <1>3 DEF PackCommit, Answer
  <2>2. PackHolds(d)
    BY <1>3, UpsertsAnswer
  <2> QED
    BY <2>1, <2>2 DEF Answers
<1>4. CASE \E answer \in Others : Answer(d, answer)
  <2>1. PICK answer \in Others : Answer(d, answer)
    BY <1>4
  <2>2. result'[c] = IF c = d THEN answer ELSE result[c]
    BY <1>1, <2>1 DEF Answer
  <2> QED
    BY <2>1, <2>2 DEF Answers, Others
<1>5. CASE UNCHANGED result
  BY <1>5 DEF Answers
<1> QED
  BY <1>2, <1>3, <1>4, <1>5, StepsAnswer DEF ServiceInv

\* When a batch of star events commits, each skill is as its last event says, the answer
\* counts those who star it then, and no other star has changed; an upsert of a policy
\* pack commits what was asked for, unless the pack changed after it was read.
THEOREM AnswersHold == Spec => AnswersHoldAtCommit
<1>1. ASSUME ServiceInv, [Next]_vars, ~UNCHANGED vars, NEW c \in Calls
      PROVE  /\ Answers(c, "starred") => BatchHolds(c)
             /\ Answers(c, "upserted") => PackHolds(c)
  <2>1. CASE Process
    BY <2>1 DEF Process, Start, Tick, Answers
  <2>2. ASSUME NEW d \in Calls, Step(d) \/ Break(d)
        PROVE  /\ Answers(c, "starred") => BatchHolds(c)
               /\ Answers(c, "upserted") => PackHolds(c)
    BY <1>1, <2>2, CallsAnswer
  <2> QED
    BY <1>1, <2>1, <2>2 DEF Next
<1>2. ServiceInv /\ [Next]_vars =>
        [\A c \in Calls : /\ Answers(c, "starred") => BatchHolds(c)
                          /\ Answers(c, "upserted") => PackHolds(c)]_vars
  BY <1>1
<1> QED
  BY <1>2, ServiceSafe, PTL DEF Spec, AnswersHoldAtCommit

=============================================================================

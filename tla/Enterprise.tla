------------------------------ MODULE Enterprise ------------------------------
(***************************************************************************)
(* The enterprise control plane: organizations, namespaces, policy packs,  *)
(* the namespace a skill belongs to, and trust evidence.                   *)
(*                                                                         *)
(* Every operation writes its row and its audit event in one transaction.  *)
(* Those that look something up first do so in an earlier statement, or,   *)
(* for evidence, in an earlier transaction.  A new organization, namespace *)
(* or evidence row is read again after the commit, before the answer.      *)
(***************************************************************************)
EXTENDS SkillRows

CONSTANTS
    Organizations,   \* organization slugs
    PackSlugs,       \* policy-pack slugs
    Descriptions,    \* descriptions of policy packs
    PackRules        \* their rules

PackRow == [description : Descriptions, rules : PackRules]

ASSUME EnterpriseAssumption ==
    /\ None \notin Organizations \cup Namespaces /\ None \notin Requests
    /\ None \notin PackRow
    /\ \A r \in Requests :
        /\ r.kind = "organization" => r.slug \in Organizations
        /\ r.kind = "namespace" => r.slug \in Namespaces /\ r.organization \in Organizations
        /\ r.kind = "pack" /\ r.wellFormed =>
             r.slug \in PackSlugs /\ r.description \in Descriptions /\ r.rules \in PackRules
        /\ r.kind = "ownership" => r.skill \in Skills /\ r.namespace \in Namespaces
        /\ r.kind = "evidence" => r.skill \in Skills /\ r.version \in Versions

VARIABLES
    organizations,   \* table organizations
    packs,           \* table policy_packs: [description, rules], or None
    evidence,        \* table trust_evidence: the call that made a row, and its version
    loaded           \* what a call has read and goes by

enterpriseVars == <<organizations, packs, evidence, loaded>>

Load(c, row) == loaded' = [loaded EXCEPT ![c] = row]

IllFormed(c) ==
    /\ pc[c] = "handle"
    /\ req[c].kind \in {"organization", "namespace", "pack", "ownership", "evidence"}
    /\ ~req[c].wellFormed
    /\ Answer(c, "INVALID_REQUEST")
    /\ UNCHANGED <<enterpriseVars, rowVars>>

Handles(c, kind) == At(c, kind, "handle") /\ req[c].wellFormed

-----------------------------------------------------------------------------
(* Organizations and namespaces *)

\* The slug of an organization is unique.
CreateOrganization(c) ==
    /\ Handles(c, "organization")
    /\ \/ /\ req[c].slug \in organizations
          /\ Answer(c, "failed")
          /\ UNCHANGED <<organizations, trail>>
       \/ /\ req[c].slug \notin organizations
          /\ organizations' = organizations \cup {req[c].slug}
          /\ Record(c, "allowed")
          /\ Goto(c, "answer")
    /\ UNCHANGED <<namespaces, packs, evidence, loaded, home, versions, plan, held>>

NamespaceLoad(c) ==
    /\ Handles(c, "namespace")
    /\ \/ /\ req[c].organization \notin organizations
          /\ Answer(c, "failed")
       \/ /\ req[c].organization \in organizations
          /\ Goto(c, "commit")
    /\ UNCHANGED <<enterpriseVars, rowVars>>

\* Mutant: a namespace that is there is given to the other organization.
NamespaceCommitReplacing(c) ==
    /\ At(c, "namespace", "commit")
    /\ namespaces' = [namespaces EXCEPT ![req[c].slug] = req[c].organization]
    /\ Record(c, "allowed")
    /\ Goto(c, "answer")
    /\ UNCHANGED <<organizations, packs, evidence, loaded, home, versions, plan, held>>

NamespaceCommit(c) ==
    /\ At(c, "namespace", "commit")
    /\ \/ /\ namespaces[req[c].slug] # None
          /\ Answer(c, "failed")
          /\ UNCHANGED <<namespaces, trail>>
       \/ /\ namespaces[req[c].slug] = None
          /\ namespaces' = [namespaces EXCEPT ![req[c].slug] = req[c].organization]
          /\ Record(c, "allowed")
          /\ Goto(c, "answer")
    /\ UNCHANGED <<organizations, packs, evidence, loaded, home, versions, plan, held>>

-----------------------------------------------------------------------------
(* Policy packs *)

PackLoad(c) ==
    /\ Handles(c, "pack")
    /\ Load(c, packs[req[c].slug])
    /\ Goto(c, "commit")
    /\ UNCHANGED <<organizations, packs, evidence, rowVars>>

Wanted(c) == [description |-> req[c].description, rules |-> req[c].rules]

\* The row after the flush: the columns that differ from those the session
\* loaded are sent, the others stay what they have become.
PackAfter(c) ==
    IF loaded[c] = None
    THEN Wanted(c)
    ELSE [f \in {"description", "rules"} |->
            IF Wanted(c)[f] # loaded[c][f] THEN Wanted(c)[f] ELSE packs[req[c].slug][f]]

\* Somebody else has inserted the pack since it was looked for.
PackConflict(c) ==
    /\ At(c, "pack", "commit")
    /\ loaded[c] = None /\ packs[req[c].slug] # None
    /\ Answer(c, "failed")
    /\ UNCHANGED <<enterpriseVars, rowVars>>

PackCommit(c) ==
    /\ At(c, "pack", "commit")
    /\ loaded[c] = None => packs[req[c].slug] = None
    /\ packs' = [packs EXCEPT ![req[c].slug] = PackAfter(c)]
    /\ Record(c, "allowed")
    /\ Answer(c, "upserted")
    /\ UNCHANGED <<organizations, namespaces, evidence, loaded, home, versions, plan, held>>

-----------------------------------------------------------------------------
(* The namespace of a skill *)

OwnershipRefused(c) ==
    /\ Handles(c, "ownership")
    /\ \/ /\ home[req[c].skill] = None
          /\ Answer(c, "SKILL_NOT_FOUND")
       \/ /\ home[req[c].skill] # None
          /\ namespaces[req[c].namespace] = None
          /\ Answer(c, "failed")
    /\ UNCHANGED <<enterpriseVars, rowVars>>

\* The skill row is sent only if its namespace differs from the loaded one; its
\* search documents are updated in any case (module Catalog).
OwnershipUpdate(c) ==
    /\ Handles(c, "ownership")
    /\ home[req[c].skill] # None
    /\ namespaces[req[c].namespace] # None
    /\ WillLock(c, IF home[req[c].skill] = req[c].namespace
                   THEN <<>> ELSE <<[skill |-> req[c].skill, mode |-> "no_key_update"]>>)
    /\ Goto(c, "locking")
    /\ UNCHANGED enterpriseVars

OwnershipCommit(c) ==
    /\ At(c, "ownership", "locking")
    /\ plan[c] = <<>>
    /\ home' = IF held[c] = {} THEN home ELSE [home EXCEPT ![req[c].skill] = req[c].namespace]
    /\ Record(c, "allowed")
    /\ EndTransaction(c)
    /\ Answer(c, "moved")
    /\ UNCHANGED <<enterpriseVars, namespaces, versions>>

-----------------------------------------------------------------------------
(* Trust evidence *)

MayReview(c, row) == HasNamespaceGrant(caller[c], row.namespace, "review", row.channel)

\* The version is read in a transaction of its own and judged by what was read.
EvidenceLoad(c) ==
    LET x == <<req[c].skill, req[c].version>>
    IN  /\ Handles(c, "evidence")
        /\ \/ /\ versions[x] = None
              /\ Answer(c, "SKILL_VERSION_NOT_FOUND")
              /\ UNCHANGED loaded
           \/ /\ versions[x] # None
              /\ Load(c, [namespace |-> home[x[1]], channel |-> versions[x].channel])
              /\ Goto(c, "judge")
        /\ UNCHANGED <<organizations, packs, evidence, rowVars>>

\* The recorder commits the denial before the exception is raised.
EvidenceDenied(c) ==
    /\ At(c, "evidence", "judge")
    /\ ~MayReview(c, loaded[c])
    /\ Record(c, "denied")
    /\ Goto(c, "deny")
    /\ UNCHANGED <<enterpriseVars, namespaces, home, versions, plan, held>>

EvidenceForbidden(c) ==
    /\ At(c, "evidence", "deny")
    /\ Answer(c, "POLICY_NAMESPACE_FORBIDDEN")
    /\ UNCHANGED <<enterpriseVars, rowVars>>

\* The version is looked up again; versions are never deleted.
EvidenceCommit(c) ==
    /\ At(c, "evidence", "judge")
    /\ MayReview(c, loaded[c])
    /\ evidence' = evidence \cup {[by |-> c, of |-> <<req[c].skill, req[c].version>>]}
    /\ Record(c, "allowed")
    /\ Goto(c, "answer")
    /\ UNCHANGED <<organizations, namespaces, packs, loaded, home, versions, plan, held>>

EnterpriseInit ==
    /\ organizations \subseteq Organizations
    /\ namespaces \in [Namespaces -> organizations \cup {None}]
    /\ packs \in [PackSlugs -> PackRow \cup {None}]
    /\ evidence = {}
    /\ loaded = [c \in Calls |-> None]

EnterpriseStep(c) ==
    \/ IllFormed(c)
    \/ CreateOrganization(c) \/ NamespaceLoad(c) \/ NamespaceCommit(c)
    \/ PackLoad(c) \/ PackConflict(c) \/ PackCommit(c)
    \/ OwnershipRefused(c) \/ OwnershipUpdate(c) \/ OwnershipCommit(c)
    \/ EvidenceLoad(c) \/ EvidenceDenied(c) \/ EvidenceForbidden(c) \/ EvidenceCommit(c)

=============================================================================

------------------------------ MODULE MCCatalog ------------------------------
(***************************************************************************)
(* Small instances of the catalogue.  Each request set is chosen so that   *)
(* the calls of a run meet on the same slugs, versions and digests.        *)
(***************************************************************************)
EXTENDS CatalogProperties, TLC

CONSTANTS s1, s2, d1, d2, team, other, unknown, review, channel, low, high

MCSlugs == {s1, s2}
MCNamespaces == {team, other, unknown}
MCKnown == {team, other}
MCFields == {review, channel}

AllLow == [f \in Fields |-> low]

PublishIt(intent, slug, version, digest, namespace, grants) ==
    [kind |-> "publish", intent |-> intent, slug |-> slug, version |-> version,
     digest |-> digest, namespace |-> namespace, gov |-> AllLow, grants |-> grants]

StatusOf(status, grants) ==
    [kind |-> "status", slug |-> s1, version |-> "1", status |-> status, grants |-> grants]

Govern(set, grants) ==
    [kind |-> "governance", slug |-> s1, version |-> "1", set |-> set, grants |-> grants]

Move(slug, namespace) == [kind |-> "ownership", slug |-> slug, namespace |-> namespace]

FirstVersion == PublishIt("create_skill", s1, "1", d1, team, {team})

\* Both intents, two slugs, two versions of one, shared and distinct artifacts, a
\* namespace without a row and one the caller may not publish to.
PublishRequests ==
    {PublishIt(i, s1, v, d, team, {team}) :
        i \in {"create_skill", "publish_version"}, v \in {"1", "2"}, d \in {d1, d2}}
    \cup {PublishIt("create_skill", s2, "1", d1, other, {other}),
          PublishIt("create_skill", s2, "1", d1, unknown, {unknown}),
          PublishIt("publish_version", s2, "2", d2, other, {team})}

\* Every transition, and governance changes of one column or of both.
WorkflowRequests ==
    {FirstVersion}
    \cup {StatusOf(status, {team}) : status \in Statuses}
    \cup {Govern(review :> value, {team}) : value \in {low, high}}
    \cup {Govern(channel :> high, {team}),
          Govern(review :> high @@ channel :> low, {team}),
          Govern(channel :> high, {other}),
          StatusOf("archived", {other})}

\* The same and moves of the skill, also to a namespace without a row.
SerialRequests == WorkflowRequests \cup {Move(s1, n) : n \in MCNamespaces} \cup {Move(s2, team)}

\* A skill that already has a version gets a second one for another namespace.
StrayRequests ==
    {FirstVersion, PublishIt("publish_version", s1, "2", d1, other, {other})}

Symmetry == Permutations(Calls)
=============================================================================

-------------------------------- MODULE MCReads --------------------------------
(***************************************************************************)
(* A skill with a version behind a policy pack and one in the airlock, or  *)
(* one yet to be published; readers with different grants, and writers who *)
(* publish, open, restrict, archive and move.                              *)
(***************************************************************************)
EXTENDS Reads, TLC

CONSTANTS s1, strict, none

MCSlugs == {s1}
MCPacks == {strict, none}
MCNamespaces == {"public", "team"}
MCTokens == {"reader", "reviewer", "admin"}

Reader   == [id |-> "reader", scopes |-> {"read"}, grants |->
               {[namespace |-> "public", roles |-> {"read"}, channels |-> {"prod"}]}]
Reviewer == [id |-> "reviewer", scopes |-> {"read", "review"}, grants |->
               {[namespace |-> "team", roles |-> {"read"}, channels |-> {"*"}],
                [namespace |-> "public", roles |-> {"admin"}, channels |-> {"dev"}]}]
Admin    == [id |-> "admin", scopes |-> {"admin"}, grants |->
               {[namespace |-> "*", roles |-> Roles, channels |-> {"*"}]}]
Publisher == [id |-> "reader", scopes |-> {"publish"}, grants |->
               {[namespace |-> "*", roles |-> {"publish"}, channels |-> {"*"}]}]

GovOf(review, channel, trust, pack) ==
    [review |-> review, channel |-> channel, trust |-> trust, pack |-> pack]

Open == GovOf("approved", "prod", "internal", none)
Airlocked == GovOf("pending_review", "dev", "untrusted", none)
Restricted == GovOf("approved", "prod", "untrusted", strict)

MCGovValues == {Open, Restricted}

ForTeam == [restricted |-> TRUE, verified |-> FALSE, tokens |-> {"reviewer"}, namespaces |-> {"team"}]
ForVerified == [restricted |-> FALSE, verified |-> TRUE, tokens |-> {}, namespaces |-> {}]

MCRuleValues == {ForVerified, OpenRules}

TablesWith(first, second) ==
    [versions |-> <<s1, 1>> :> first @@ <<s1, 2>> :> second,
     skills   |-> s1 :> "public",
     packs    |-> strict :> ForTeam @@ none :> OpenRules]

Published(g) == [status |-> "published", gov |-> g]

MCFirstTables ==
    {TablesWith(Published(Restricted), Published(Airlocked)), TablesWith(NoRow, NoRow)}

Ask(kind, version, caller) == [kind |-> kind, slug |-> s1, version |-> version, caller |-> caller]

MCRequests ==
    {Ask("content", 1, Reader), Ask("resolution", 2, Admin), Ask("metadata", 2, Reviewer),
     Ask("versions", 1, Reader),
     Ask("catalog", 1, Reader), Ask("card", 1, Reader), Ask("metadata", 1, Publisher)}

Symmetry == Permutations(Calls)
=============================================================================

------------------------------ MODULE MCDiscovery ------------------------------
(***************************************************************************)
(* Two versions of the skill whose slug is the query, the later one with   *)
(* the query as its name and behind a policy pack or yet to be published;  *)
(* a skill whose text and vector match better than those of another, which *)
(* is often used together with the first.                                  *)
(***************************************************************************)
EXTENDS Discovery, TLC

CONSTANTS strict, none

MCPacks == {strict, none}
MCNamespaces == {"public", "team"}
MCTokens == {"reader", "reviewer", "admin"}

Reader   == [id |-> "reader", scopes |-> {"read"}, grants |-> {}]
Reviewer == [id |-> "reviewer", scopes |-> {"read", "review"}, grants |->
               {[namespace |-> "public", roles |-> {"read", "review"}, channels |-> {"*"}]}]
Admin    == [id |-> "admin", scopes |-> {"admin"}, grants |-> {}]
Publisher == [id |-> "reader", scopes |-> {"publish"}, grants |-> {}]

FactOf(slug, exactSlug, exactName, matches, score, tags, published, distance) ==
    [slug |-> slug, exactSlug |-> exactSlug, exactName |-> exactName, matches |-> matches,
     score |-> score, tags |-> tags, published |-> published, size |-> 1, distance |-> distance]

MCFacts == 1 :> FactOf(3, TRUE, FALSE, TRUE, 1, {}, 1, 2) @@
           2 :> FactOf(3, TRUE, TRUE, TRUE, 1, {"python"}, 2, 3) @@
           3 :> FactOf(2, FALSE, FALSE, TRUE, 3, {"python"}, 1, 1) @@
           4 :> FactOf(1, FALSE, FALSE, TRUE, 1, {"python"}, 3, 4)

GovOf(review, pack) ==
    [review |-> review, channel |-> "prod", trust |-> "internal", pack |-> pack]

RowOf(status, review, pack) ==
    [status |-> status, gov |-> GovOf(review, pack), namespace |-> "public"]

Open == RowOf("published", "approved", none)
Restricted == RowOf("published", "approved", strict)

MCRowValues == {Open, Restricted, RowOf("archived", "approved", none),
                RowOf("deprecated", "pending_review", none)}

ForReviewer == [restricted |-> TRUE, verified |-> FALSE, tokens |-> {"reviewer"}, namespaces |-> {}]

MCRuleValues == {ForReviewer, OpenRules}

NoPairs == [p \in Slugs \X Slugs |-> 0]
Together == [NoPairs EXCEPT ![<<1, 2>>] = Million \div 2, ![<<3, 1>>] = Million]

MCPairTables == {NoPairs, Together}

TablesWith(rows, pairs) ==
    [rows |-> rows, packs |-> strict :> ForReviewer @@ none :> OpenRules, indexed |-> {1, 3, 4},
     installs |-> [s \in Slugs |-> 0], pairs |-> pairs]

MCFirstTables ==
    {TablesWith(1 :> Open @@ 2 :> NoRow @@ 3 :> Open @@ 4 :> Open, Together),
     TablesWith(1 :> Open @@ 2 :> Restricted @@ 3 :> Open @@ 4 :> Open, NoPairs)}

Ask(caller, text, tags, statuses, context, limit) ==
    [caller |-> caller, text |-> text, tags |-> tags, after |-> 0, maxSize |-> 1,
     statuses |-> statuses, tiers |-> {}, context |-> context, limit |-> limit]

MCQueries ==
    {Ask(Reader, TRUE, {}, {}, <<3, 1>>, 3), Ask(Reader, TRUE, {"python"}, {}, <<>>, 1),
     Ask(Reviewer, TRUE, {}, {"published", "deprecated"}, <<1>>, 2),
     Ask(Admin, FALSE, {"python"}, {"archived", "published"}, <<>>, 2),
     Ask(Reader, TRUE, {}, {"archived"}, <<>>, 1), Ask(Publisher, TRUE, {}, {}, <<>>, 1)}

With(mode, provider, coUsage) ==
    [mode |-> mode, provider |-> provider, coUsage |-> coUsage, cap |-> 300,
     contextLimit |-> 1, candidateLimit |-> 3]

MCSettings == {With("off", FALSE, TRUE), With("shadow", TRUE, FALSE), With("hybrid", TRUE, TRUE)}
=============================================================================

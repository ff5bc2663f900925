------------------------------ MODULE MCRequests ------------------------------
(***************************************************************************)
(* Two calls at a time, over two skills that are there and one that a      *)
(* publication may create; every kind of request, from every kind of token.*)
(***************************************************************************)
EXTENDS RequestProperties, TLC

MCNamespaces == {"public", "lab", "new"}
MCTokens == {"site", "author", "reviewer", "admin", "guest"}

TokenOf(id, scopes, grants, active, expires) ==
    [id |-> id, secret |-> id, scopes |-> scopes, active |-> active, grants |-> grants,
     expires |-> expires, spelled |-> TRUE]

LabGrant == [namespace |-> "lab", roles |-> {"review"}, channels |-> {"dev"}]

MCTokenList == <<TokenOf("site", {"telemetry"}, {}, TRUE, {}),
                 TokenOf("author", {"read", "publish", "review"}, {}, TRUE, {}),
                 TokenOf("reviewer", {"review", "telemetry"}, {LabGrant}, TRUE, {1}),
                 TokenOf("admin", {"admin"}, {}, TRUE, {}),
                 TokenOf("guest", {"read"}, {}, FALSE, {})>>

\* Verified needs less than built in, and the tiers left out are as built in.
Relaxed == "verified" :> [scope |-> "publish", provenance |-> FALSE]

SettingsOf(profile, tokens, env) ==
    [env |-> env, hosts |-> TRUE, otel |-> TRUE, endpoint |-> FALSE, profile |-> profile,
     profiles |-> "relaxed" :> Relaxed, tokens |-> tokens, keyMatches |-> TRUE]

MCSettings ==
    {SettingsOf("relaxed", MCTokenList, "dev"),
     SettingsOf("strict", MCTokenList, "dev"), SettingsOf("default", MCTokenList, "prod"),
     SettingsOf("default", Append(MCTokenList, MCTokenList[1]), "dev")}

-----------------------------------------------------------------------------
As(id) == [form |-> "pair", id |-> id, secret |-> id]

BadCredentials == {[form |-> "absent", id |-> "site", secret |-> "site"],
                   [form |-> "pair", id |-> "site", secret |-> "admin"], As("guest"), As("author")}

Star(s) == [skill |-> s, action |-> "star"]
Unstar(s) == [skill |-> s, action |-> "unstar"]

Batch(user, events) ==
    [kind |-> "stars", credentials |-> As("site"), user |-> user, events |-> events]

Batches ==
    {Batch("ann", <<Star(1), Star(2)>>), Batch("bob", <<Star(2), Unstar(1)>>),
     Batch("bob", <<Unstar(2), Star(2)>>), Batch("ann", <<Star(3), Star(1)>>), Batch("ann", <<>>)}

UserStars == {[kind |-> "userStars", credentials |-> cred, user |-> "ann"] :
                cred \in BadCredentials \cup {As("reviewer")}}

Installs == {[kind |-> "install", credentials |-> As("author"), skill |-> 2]}

Imports == {[kind |-> "import", credentials |-> As("admin"), slugs |-> slugs] :
              slugs \in {<<2, 1>>, <<1, 1>>, <<3>>}}

-----------------------------------------------------------------------------
NameOf(segments, says) ==
    [segments |-> segments, backslash |-> FALSE, long |-> FALSE, says |-> says]

Member(name) == [type |-> "file", name |-> name]

BundleOf(members) ==
    [size |-> 1, named |-> TRUE, media |-> "zstd", readable |-> TRUE, members |-> members]

Good == BundleOf(<<Member(NameOf(<<"skill", ".", "doc">>, {}))>>)
Climbing == BundleOf(<<Member(NameOf(<<"skill", "..", "x">>, {"200"}))>>)
Crowded == BundleOf(<<Member(NameOf(<<"a">>, {})), Member(NameOf(<<"b">>, {})), Member(NameOf(<<"c">>, {}))>>)

Depends(s) == [skill |-> s, version |-> TRUE, constraint |-> "absent", markers |-> TRUE]

Meta(tier, origin, namespace, dependsOn) ==
    [wellFormed |-> TRUE, scores |-> {80}, assessment |-> {[schema |-> 1, zone |-> "utc", scores |-> {0}]},
     dependsOn |-> dependsOn, tier |-> tier, origin |-> origin, namespace |-> namespace,
     namespaceValid |-> TRUE, provenance |-> FALSE]

Publication(intent, s, meta, bundle) ==
    [kind |-> "publish", credentials |-> As("author"), intent |-> intent, skill |-> s,
     version |-> "2", metadata |-> meta, bundle |-> bundle]

Plain == Meta("untrusted", "internal", "public", <<Depends(2), Depends(1)>>)

Publications ==
    {Publication("create_skill", 3, Plain, Good), Publication("publish_version", 1, Plain, Good),
     Publication("publish_version", 3, Meta("verified", "internal", "public", <<>>), Good),
     Publication("create_skill", 3, Plain, Climbing), Publication("create_skill", 3, Plain, Crowded),
     Publication("create_skill", 3, [Plain EXCEPT !.dependsOn[1].constraint = "valid"], Good),
     Publication("create_skill", 3, Meta("internal", "internal", "public", <<>>), Good),
     Publication("create_skill", 3, Meta("untrusted", "imported", "public", <<>>), Good),
     [Publication("create_skill", 3, Meta("verified", "imported", "lab", <<>>), Good)
        EXCEPT !.credentials = As("admin")]}

-----------------------------------------------------------------------------
ByAdmin(kind) == [kind |-> kind, credentials |-> As("admin"), wellFormed |-> TRUE]

Founding(slug, organization) ==
    ByAdmin("namespace") @@ ("slug" :> slug) @@ ("organization" :> organization)

Pack(slug, description, rules) ==
    ByAdmin("pack") @@ ("slug" :> slug) @@ ("description" :> description) @@ ("rules" :> rules)

Evidence(id, s) ==
    [kind |-> "evidence", credentials |-> As(id), wellFormed |-> TRUE, skill |-> s, version |-> "1"]

Administration ==
    {ByAdmin("organization") @@ ("slug" :> "acme"), Founding("new", "acme"), Founding("new", "base"),
     Pack("strict", "old", "open"), Pack("strict", "new", "open"), Pack("strict", "old", "closed"),
     Pack("extra", "old", "open"),
     ByAdmin("ownership") @@ ("skill" :> 2) @@ ("namespace" :> "lab"),
     ByAdmin("ownership") @@ ("skill" :> 3) @@ ("namespace" :> "public"),
     ByAdmin("ownership") @@ ("skill" :> 1) @@ ("namespace" :> "new"),
     [ByAdmin("pack") EXCEPT !.wellFormed = FALSE],
     Evidence("author", 1), Evidence("author", 2), Evidence("reviewer", 2), Evidence("author", 3)}

MCRequestSet == Batches \cup UserStars \cup Installs \cup Imports \cup Publications \cup Administration

-----------------------------------------------------------------------------
RowOf(tier, channel) == [tier |-> tier, channel |-> channel]

\* The database before the calls: namespace "lab" is there, and the pack "strict".
MCInit ==
    /\ home = 1 :> "public" @@ 2 :> "public" @@ 3 :> None
    /\ versions = [x \in Coords |->
                     CASE x = <<1, "1">> -> RowOf("untrusted", "prod")
                       [] x = <<2, "1">> -> RowOf("internal", "dev")
                       [] OTHER -> None]
    /\ stars = {<<"ann", 2>>}
    /\ observed = {1}
    /\ organizations = {"base"}
    /\ namespaces = "public" :> "base" @@ "lab" :> "base" @@ "new" :> None
    /\ packs = "strict" :> [description |-> "old", rules |-> "open"] @@ "extra" :> None
    /\ Init

\* Spec, from these rows.
MCSpec == MCInit /\ [][Next]_vars /\ \A c \in Calls : WF_<<pc, plan, counts>>(c \in InService /\ Step(c))

=============================================================================

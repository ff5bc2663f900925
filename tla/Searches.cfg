CONSTANTS
    Docs = {1, 2, 3, 4}
    Slugs = {1, 2, 3}
    Tags = {"python"}
    Packs <- MCPacks
    NoPack = none
    Facts <- MCFacts
    Queries <- MCQueries
    SettingsSet <- MCSettings
    FirstTables <- MCFirstTables
    RowValues <- MCRowValues
    RuleValues <- MCRuleValues
    PairTables <- MCPairTables
    MaxWrites = 2
    NoRow = NoRow
    Namespaces <- MCNamespaces
    TokenIds <- MCTokens
    strict = strict
    none = none

SPECIFICATION Spec

INVARIANT TypeOK
INVARIANT FoundWereVisible
INVARIANT EachSkillOnce
INVARIANT ExactMatchFirst
INVARIANT LexicalWhenAlone
INVARIANT BoostsBounded
CHECK_DEADLOCK FALSE

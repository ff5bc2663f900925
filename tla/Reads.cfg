CONSTANTS
    Calls = {c1, c2}
    Requests <- MCRequests
    Slugs <- MCSlugs
    Versions = {1, 2}
    Packs <- MCPacks
    NoPack = none
    FirstTables <- MCFirstTables
    GovValues <- MCGovValues
    RuleValues <- MCRuleValues
    MaxWrites = 2
    NoRow = NoRow
    Namespaces <- MCNamespaces
    TokenIds <- MCTokens
    s1 = s1
    strict = strict
    none = none

SYMMETRY Symmetry
SPECIFICATION Spec

INVARIANT TypeOK
INVARIANT AnswersWereVisible
INVARIANT RefusalsWereDue
INVARIANT AuditTellsTruth
INVARIANT DownloadsAccounted
CHECK_DEADLOCK FALSE

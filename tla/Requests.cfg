CONSTANTS
    Calls = {c1, c2}
    Requests <- MCRequestSet
    SettingsSet <- MCSettings
    MaxNow = 1
    None = None
    Namespaces <- MCNamespaces
    TokenIds <- MCTokens
    Skills = {1, 2, 3}
    Versions = {"1", "2"}
    Users = {"ann", "bob"}
    MaxBatch = 2
    Organizations = {"base", "acme"}
    PackSlugs = {"strict", "extra"}
    Descriptions = {"old", "new"}
    PackRules = {"open", "closed"}
    MaxSize = 1
    MaxMembers = 2

SPECIFICATION MCSpec

INVARIANT TypeOK
INVARIANT OnlyMixedDeadlocks
INVARIANT TrailTellsOutcomes
INVARIANT EffectsWereDue
PROPERTY AnswersHoldAtCommit
PROPERTY EveryCallEnds
CHECK_DEADLOCK FALSE

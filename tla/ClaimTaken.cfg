CONSTANTS
    Docs = {1, 2, 3}
    EmptyDocs = {2}
    OldDocs = {1, 2}
    Runs = {r1, r2}
    BatchSize = 1
    MaxBatches = 2
    MaxCrashes = 1
    NoRow = NoRow

SPECIFICATION Spec

PROPERTY ClaimsExclusive

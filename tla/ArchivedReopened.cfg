CONSTANTS
    Calls = {c1, c2, c3}
    MaxInFlight = 2
    Requests <- WorkflowRequests
    Slugs <- MCSlugs
    Versions = {"1", "2"}
    Digests = {d1, d2}
    Namespaces <- MCNamespaces
    KnownNamespaces <- MCKnown
    Fields <- MCFields
    Values = {low, high}
    NoRow = NoRow
    s1 = s1
    s2 = s2
    d1 = d1
    d2 = d2
    team = team
    other = other
    unknown = unknown
    review = review
    channel = channel
    low = low
    high = high

SPECIFICATION Spec
PROPERTY ArchivedIsFinal
CHECK_DEADLOCK FALSE

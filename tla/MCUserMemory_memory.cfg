CONSTANTS
    Sessions = {s1, s2}
    Keys = {k1, k2}
    Cap = 2
    MaxId = 4
    None = None
    s1 = s1
    s2 = s2
    k1 = k1
    k2 = k2
SPECIFICATION FairSpec
INVARIANTS TrailSound OverrunsBounded
PROPERTIES AnnouncedTrue TransactionsEnd

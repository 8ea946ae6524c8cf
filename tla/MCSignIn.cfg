\* Three requests, two applications; a name whose record is no good.
CONSTANTS
    NoProfile = NoProfile
    r1 = r1  r2 = r2  r3 = r3
    a1 = a1  a2 = a2
    Requests = {r1, r2, r3}
    Offered <- Roles
    Apps = {a1, a2}
    NamesAt <- Named
    Zone <- Zones
    OldLinks <- Opened
    MaxNameIndex = 4
    MaxIDSearchIndex = 1
    Buckets <- SomeBuckets
    MaxFailures = 1
    MaxRestarts = 1
SPECIFICATION Spec
INVARIANTS CoercionRestored
PROPERTIES AppsSurvive RedirectListed OwnUrlsUpToRejected
CHECK_DEADLOCK FALSE

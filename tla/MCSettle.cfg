\* Two pages of one browser that put, get and delete a signed file, under fairness.
CONSTANTS
    Nobody = Nobody
    alice = alice  bob = bob
    p = p  q = q
    phone = phone  laptop = laptop
    c1 = c1  c2 = c2  c3 = c3
    Users = {alice}
    Paths = {p}
    Sessions = {phone}
    Calls = {c1, c2}
    SessionOf <- OneSession
    Accounts <- OneAccount
    Offered <- AnyOps
    MaxPuts = 1
    MaxFaults = 1
    MaxSignOuts = 0
    MaxExpiries = 0
SPECIFICATION FairSpec
INVARIANTS DeleteOutcome NobodyWaitsInVain
PROPERTIES CallsSettle
CHECK_DEADLOCK FALSE

\* Two devices of one user: every interleaving of a call on each.
CONSTANTS
    Nobody = Nobody
    alice = alice  bob = bob
    p = p  q = q
    phone = phone  laptop = laptop
    c1 = c1  c2 = c2  c3 = c3
    Users = {alice}
    Paths = {p}
    Sessions = {phone, laptop}
    Calls = {c1, c2}
    SessionOf <- TwoSessions
    Accounts <- OneAccount
    Offered <- DeviceOps
    MaxPuts = 2
    MaxFaults = 1
    MaxSignOuts = 0
    MaxExpiries = 1
SPECIFICATION Spec
PROPERTIES NoUnseenOverwrite PutRemembersItsVersion
CHECK_DEADLOCK FALSE

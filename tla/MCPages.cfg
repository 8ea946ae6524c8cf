\* Two pages of one browser, and two users who sign in and out.
CONSTANTS
    Nobody = Nobody
    alice = alice  bob = bob
    p = p  q = q
    phone = phone  laptop = laptop
    c1 = c1  c2 = c2  c3 = c3
    Users = {alice, bob}
    Paths = {p}
    Sessions = {phone}
    Calls = {c1, c2}
    SessionOf <- OneSession
    Accounts <- BothAccounts
    Offered <- PageOps
    MaxPuts = 2
    MaxFaults = 1
    MaxSignOuts = 1
    MaxExpiries = 0
SPECIFICATION Spec
INVARIANTS TypeOK
PROPERTIES KeepsPromise
SYMMETRY CallSymmetry
CHECK_DEADLOCK FALSE

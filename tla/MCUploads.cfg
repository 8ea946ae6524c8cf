\* Two pages of one browser that upload the same file in every way there is.
CONSTANTS
    Nobody = Nobody
    alice = alice  bob = bob
    p = p  q = q
    phone = phone  laptop = laptop
    c1 = c1  c2 = c2  c3 = c3
    Users = {alice}
    Paths = {p}
    Sessions = {phone}
    Calls = {c1, c2}
    SessionOf <- OneSession
    Accounts <- OneAccount
    Offered <- UploadOps
    MaxPuts = 2
    MaxFaults = 0
    MaxSignOuts = 0
    MaxExpiries = 2
SPECIFICATION Spec
INVARIANTS PutOutcome RenewalHelps
PROPERTIES PutWritesOnce
SYMMETRY CallSymmetry
CHECK_DEADLOCK FALSE

\* One account that makes transactions and two that sponsor them.
CONSTANTS
    alice = alice  bob = bob  carol = carol  dave = dave
    c1 = c1  c2 = c2  c3 = c3  c4 = c4
    unset = unset
    Unset = unset
    NoKey = NoKey
    Keys = {alice, bob, carol, dave}
    Compressed = {alice, bob, carol}
    EndsIn01 = {alice, bob, carol, dave}
    Calls = {c1, c2, c3, c4}
    MakeOptions <- TransferOptions
    SponsorOptions <- Sponsorships
    Fees = {2, 3}
SPECIFICATION Spec
INVARIANTS OriginStaysValid SponsoredStaysValid SingleSigNoncesIncrease
PROPERTIES SponsorSigns
SYMMETRY CallSymmetry
CHECK_DEADLOCK FALSE

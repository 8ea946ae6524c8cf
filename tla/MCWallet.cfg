\* Two devices with one seed, three calls.
CONSTANTS
    NoName = NoName  NoConfig = NoConfig  NoProfile = NoProfile  Default = Default
    d1 = d1  d2 = d2
    c1 = c1  c2 = c2  c3 = c3
    chat = chat  wall = wall  anna = anna
    Devices = {d1, d2}
    Calls = {c1, c2, c3}
    Apps = {chat, wall}
    Names = {anna}
    MaxIdentities = 2
    MaxFailures = 1
    MaxRestarts = 1
SPECIFICATION Spec
INVARIANTS UsernamesOwned ForeignAppsFromDefault
PROPERTIES KnownAppsKept EntriesReadAreKept
SYMMETRY CallSymmetry
CHECK_DEADLOCK FALSE

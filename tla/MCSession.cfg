SPECIFICATION Spec
CONSTANTS
    call1 = call1
    call2 = call2
    call3 = call3
    Calls = {call1, call2, call3}
    Offered <- MCOffered
    Users = {"alice", "bob"}
    Answers <- MCAnswers
    Nobody = Nobody
    MaxRequests = 2
    MaxSignOuts = 1
SYMMETRY MCSymmetry
INVARIANTS TransitKeyLost SessionOfOneUser
PROPERTIES SignedInBySignIn ReplayRefused EtagForgotten
CHECK_DEADLOCK FALSE

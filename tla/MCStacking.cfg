SPECIFICATION Spec
CONSTANTS
    call1 = call1  call2 = call2
    Calls = {call1, call2}
    Offered <- MCOffered
    Amounts = {3}
    CycleChoices = {1}
    MinAmounts = {3, 4}
    Balance = 4
    Fee = 1
    CycleLength = 4
    FirstHeight = 1
    MaxCycles = 2
    MaxHeight = 5
INVARIANTS AbortExplained StartInCycle LostToAnother StatusOfOneLock
CHECK_DEADLOCK FALSE

SPECIFICATION Spec
CONSTANTS
    IntSize = 8
    MaxString = 4
INVARIANTS ReadAsGiven HandlersGetTheirArguments RoundTrip AbiArgumentsFit CallsMeanWhatWasAsked
CHECK_DEADLOCK FALSE

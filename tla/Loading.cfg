CONSTANTS
    p1 = p1
    p2 = p2
    p3 = p3
    Procs <- MCProcs
    Styles <- MCStyles
    Faults <- MCFaults
    MaxCalls = 2
SPECIFICATION Spec
SYMMETRY Alike
CHECK_DEADLOCK FALSE
INVARIANTS LoadingTypeOK YesMeansReady NoMeansRace UnloadMeansGone

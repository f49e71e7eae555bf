SPECIFICATION Spec
CONSTANTS
    NULL = NULL
    Text <- MCText
    Multiline <- MCMultiline
    rtrim <- MCrtrim
    Reserved <- MCReserved
    RunDetectors = "run-detectors"
    Yes = "yes"
    ManualEntries <- MCManual
    Packages <- MCPackages
    FormatNames <- MCOneFormatNames
    EntriesSurviveUmount = FALSE
    Procs = {"p1"}
    Names <- MCOneName
    Tmp <- MCOneTmp
    InstallArgs <- MCFailureArgs
    ImportFiles <- MCNoFiles
    Modes <- MCAllModes
    Tests = {TRUE, FALSE}
    Writes <- MCOneWrites
    Serial = TRUE
    Faults <- MCFailureFaults
INVARIANTS
    DatabaseIntegrity
    NoOrphan
PROPERTIES
    SuccessMeansDone
    TestInert
    ImplementsRegistry

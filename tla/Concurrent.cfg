SPECIFICATION FairSpec
CONSTANTS
    NULL = NULL
    Text <- MCText
    Multiline <- MCMultiline
    rtrim <- MCrtrim
    Reserved <- MCReserved
    RunDetectors = "run-detectors"
    Yes = "yes"
    ManualEntries <- MCManual
    Packages <- MCPackages
    FormatNames <- MCFormatNames
    EntriesSurviveUmount = TRUE
    Procs = {"p1", "p2"}
    Names <- MCNames
    Tmp <- MCTmp
    InstallArgs <- MCConcurrentArgs
    ImportFiles <- MCNoFiles
    Modes <- MCConcurrentModes
    Tests = {FALSE}
    Writes <- MCOwnWrites
    Serial = FALSE
    Faults <- MCConcurrentFaults
INVARIANTS
    DatabaseIntegrity
PROPERTIES
    Terminates

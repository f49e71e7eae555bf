SPECIFICATION Spec
CONSTANTS
    NULL = NULL
    Text <- MCText
    Multiline <- MCMultiline
    rtrim <- MCrtrim
    Reserved <- MCReserved
    RunDetectors = "run-detectors"
    Yes = "yes"
    ManualEntries <- MCManual
    Packages <- MCPackages
    FormatNames <- MCFormatNames
    EntriesSurviveUmount = TRUE
    Procs = {"p1", "p2"}
    Names <- MCNames
    Tmp <- MCTmp
    InstallArgs <- MCPairArgs
    ImportFiles <- MCNoFiles
    Modes <- MCInstallOnly
    Tests = {FALSE}
    Writes <- MCOwnWrites
    Serial = FALSE
    Faults = {}
INVARIANTS
    NoShadowedDetector

SPECIFICATION Spec
CONSTANTS
    NULL = NULL
    Text <- MCText
    Multiline <- MCMultiline
    rtrim <- MCrtrim
    Reserved <- MCReserved
    RunDetectors = "run-detectors"
    Yes = "yes"
    ManualEntries <- MCManual
    Packages <- MCPackages
    FormatNames <- MCFormatNames
    EntriesSurviveUmount = TRUE
    Procs = {"p1"}
    Names <- MCNames
    Tmp <- MCTmp
    InstallArgs <- MCSerialArgs
    ImportFiles <- MCNoFiles
    Modes <- MCSerialModes
    Tests = {FALSE}
    Writes <- MCAllWrites
    Serial = TRUE
    Faults <- MCSerialFaults
INVARIANTS
    TypeOK
    NoOrphan
    NoShadowedDetector
PROPERTIES
    OwnershipPreserved
    SuccessMeansDone

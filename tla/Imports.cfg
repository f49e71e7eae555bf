SPECIFICATION Spec
CONSTANTS
    NULL = NULL
    Text <- MCText
    Multiline <- MCMultiline
    rtrim <- MCrtrim
    Reserved <- MCReserved
    RunDetectors = "run-detectors"
    Yes = "yes"
    ManualEntries <- MCManual
    Packages <- MCPackages
    FormatNames <- MCFormatNames
    EntriesSurviveUmount = TRUE
    Procs = {"p1"}
    Names <- MCNames
    Tmp <- MCTmp
    InstallArgs <- MCImportArgs
    ImportFiles <- MCImportFiles
    Modes <- MCImportModes
    Tests = {FALSE}
    Writes <- MCAllWrites
    Serial = TRUE
    Faults <- MCImportFaults
INVARIANTS
    NoShadowedDetector
PROPERTIES
    LocalPreserved
    OwnershipPreserved
    ImplementsRegistry

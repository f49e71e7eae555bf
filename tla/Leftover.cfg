SPECIFICATION Spec
CONSTANTS
    NULL = NULL
    Text <- MCText
    Multiline <- MCMultiline
    rtrim <- MCrtrim
    Reserved <- MCReserved
    RunDetectors = "run-detectors"
    Yes = "yes"
    ManualEntries <- MCManual
    Packages <- MCPackages
    FormatNames <- MCOneFormatNames
    EntriesSurviveUmount = TRUE
    Procs = {"p1"}
    Names <- MCOneName
    Tmp <- MCOneTmp
    InstallArgs <- MCUpgradeArgs
    ImportFiles <- MCNoFiles
    Modes <- MCInstallEnableAll
    Tests = {FALSE}
    Writes <- MCOneWrites
    Serial = TRUE
    Faults = {"kill"}
INVARIANTS
    OnlyFormatsEnabled

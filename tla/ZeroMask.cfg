SPECIFICATION RunSpec
CONSTANTS
    NULL = NULL
    Text <- MCText
    Multiline = {}
    rtrim <- MCrtrim
    Reserved = {"register"}
    RunDetectors = "run-detectors"
    Yes = "yes"
    ManualEntries = {}
    Packages = {"p1"}
    FormatNames <- MCFormatNames
    EntriesSurviveUmount = TRUE
    Procs = {"p1"}
    Names <- MCNames
    Tmp <- MCTmp
    InstallArgs <- MCZeroMask
    ImportFiles <- MCNoFiles
    Modes <- MCInstallOnly
    Tests = {FALSE}
    Writes <- MCAllWrites
    Serial = TRUE
    Faults = {}
    chars <- MCchars
    Targets <- MCTargets
    Readable <- MCReadable
    Accepts <- MCAccepts
    Executable <- MCExecutable
INVARIANT MaskApplies

CONSTANTS
    None = None
    Sops = {"nhap"}
    SkillsEnabled = TRUE
    Cases <- MCCases
    SetChoices = {"both", "all", "multi_source_gather"}
    Options <- MCOptions
    Roles = {"admin", "kho"}
    Modes = {"blend", "override"}
    MaxRetries = 1
    BreakerThreshold = 2
    CheckpointEvery = 2
    MaxRuns = 2
SPECIFICATION EvSpec
INVARIANTS BaselineIsPlain
CHECK_DEADLOCK FALSE

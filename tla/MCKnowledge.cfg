CONSTANTS
    None = None
    Sops = {"nhap"}
    SkillsEnabled = TRUE
    MaxTurns = 3
    Cases <- MCCases
    SetChoices = {"both", "all", "multi_source_gather"}
    Options <- MCOptions
    Roles = {"admin", "kho"}
    Modes = {"blend", "override"}
    MaxRetries = 1
    BreakerThreshold = 2
    CheckpointEvery = 2
    MaxRuns = 2
    Files = {doc, pdf}
    CommandLines = {{doc}, {pdf}}
    Convertible = {doc}
    Runs = {r1, r2}
    MaxVersion = 2
    NoDoc = NoDoc
    Documents = {"a", "b", "c", "d"}
    UNRESTRICTED = UNRESTRICTED
    LookAlike = LookAlike
    NoRole = NoRole
    ClassMaps <- MCClassMaps
    Matchings <- MCMatchings
    Scores <- MCScores
    RRF_K = 60
    TOP_N = 3
    TOP_K = 2
    HIDDEN_TOP_K = 2
    FoldEnabled = TRUE
    RerankEnabled = TRUE
    MaxReloads = 1
    VisionKeys = 2
    MaxCalls = 1
    MaxPages = 2
    MaxDocuments = 2
    Calls = {c1, c2}
    Models = {g35, g31, groq}
    Base <- StaticChain
    Selectable <- TwoModels
    Prefer <- BothChoose
    Pin <- OnePins
    Wallet <- OneAccount
    Rpd <- OneADay
    Rpm <- Plenty
    Tpm <- Plenty
    Need <- OneToken
    KeyCount <- OneKey
    Sizes = {1}
    ErrorRest = 1
    RateRest = 2
    Minute = 4
    LinkTime <- TwoTicks
    LedgerFails = FALSE
    MaxTime = 2
    NoChoice = NoChoice
    c1 = c1
    c2 = c2
    g35 = g35
    g31 = g31
    groq = groq
    Papers <- MCPapers
    Forms <- MCForms
    Columns = {"now", "then"}
    Amounts = {1, 2, 5}
    MaxFaults = 2
SPECIFICATION KnSpec
INVARIANTS VerdictIsJust ChainIsWalked CallsAccounted PagesTold SumsDecide
PROPERTIES JoinIsThisTurns AgreementIsMeant  CorpusIsTrue AnsweredByRole
CHECK_DEADLOCK FALSE

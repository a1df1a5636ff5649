CONSTANTS
    Ids = {i1, i2}
    Figures = {1, 2}
    MaxDrift = 1
    NoQuestion = NoQuestion
    MaxMails = 2
    MaxToggles = 2
    None = None
    Callers = {w1, w2}
    TTL = 2
    Window = 2
    RateLimit = 1
    MaxTime = 3
    Calls = {c1, c2}
    MaxOthers = 1
    MaxId = 3
    Names = {"bolt", "nut"}
    NoProduct = "none"
    BATCH = 1
    MAX_CANDIDATES = 3
    Limit = 2
    Rankings <- MCRankings
    Gap = 2
    Floor = 6
    MaxEdits = 1
    SkillRefs = {o1, o2}
    Totals = {1, 2}
    MaxSteps = 3
    MaxRequests = 3
    MaxShifts = 1
SYMMETRY Alike
SPECIFICATION WritingSpec
INVARIANTS DraftIsWritten ChainIsDeclared WindowsHold AnswersAreTrue GatedOnce NamesAreSafe SkillsKeepGate
PROPERTIES RepliesKeepPlace MailKeepsWord ToggleTakesHold MirrorHolds
CHECK_DEADLOCK FALSE

CONSTANTS
    Writers = {w1, w2, w3}
    Processes = {p1, p2}
    ProcessOf <- TwoThenOne
    Readers = {b1}
    Events = {e1}
    Hash <- PairHash
    Genesis = Genesis
    Start <- Reset
    MaxRowId = 5
    Null = Null
    b1 = b1
    w1 = w1
    w2 = w2
    w3 = w3
    p1 = p1
    p2 = p2
    e1 = e1
    e2 = e2
    Calls = {c1, c2}
    Models = {g35, g31, groq}
    Base <- ShortChain
    Selectable <- TwoModels
    Prefer <- BothChoose
    Pin <- OnePins
    Wallet <- OwnWallet
    Rpd <- Plenty
    Rpm <- Plenty
    Tpm <- ThreeTokens
    Need <- OneToken
    KeyCount <- SharedKeys
    Sizes = {1, 2}
    ErrorRest = 1
    RateRest = 4
    Minute = 4
    LinkTime <- FourTicks
    LedgerFails = TRUE
    MaxTime = 1
    NoChoice = NoChoice
    c1 = c1
    c2 = c2
    g35 = g35
    g31 = g31
    groq = groq
SPECIFICATION ShFairSpec
INVARIANTS AnswerIsKept TokensAccounted OwnRowsVerify LinksOrRestarts ChangeDetected
PROPERTIES CallsEnd LoggingEnds
CHECK_DEADLOCK FALSE

CONSTANTS
    Calls = {c1}
    Models = {g35, g31, groq}
    Base <- StaticChain
    Selectable <- TwoModels
    Prefer <- BothChoose
    Pin <- NobodyPins
    Wallet <- OwnWallet
    Rpd <- Plenty
    Rpm <- Plenty
    Tpm <- Plenty
    Need <- OneToken
    KeyCount <- OneKey
    Sizes = {1}
    ErrorRest = 1
    RateRest = 4
    Minute = 4
    LinkTime <- FourTicks
    LedgerFails = FALSE
    MaxTime = 16
    NoChoice = NoChoice
    c1 = c1
    c2 = c2
    g35 = g35
    g31 = g31
    groq = groq
SPECIFICATION Spec
INVARIANTS RaisedTriedAll
CHECK_DEADLOCK FALSE

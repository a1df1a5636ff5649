CONSTANTS
    None = None
    Tools <- SaleTools
    NextTool <- SaleNext
    Coordinated <- SaleCoordinated
    ConfirmInChain <- SaleMoney
    RendersChain <- SaleRenders
    Args = {a1}
    Options = {o1}
    Prices = {p1, p2}
    Requests = {r1}
    Faults = {}
    MaxChain = 4
    MaxTurns = 3
    MaxWrites = 15
SPECIFICATION FairSpec
INVARIANTS TypeOK ApprovedWrites
PROPERTIES KeepsPromise RequestsEnd

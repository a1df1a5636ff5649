CONSTANTS
    None = None
    Tools <- MoneyTools
    NextTool <- MoneyNext
    Coordinated <- MoneyCoordinated
    ConfirmInChain <- MoneyMoney
    RendersChain <- MoneyRenders
    Args = {a1}
    Options = {o1}
    Prices = {p1}
    Requests = {r1, r2}
    Faults = {"overlap"}
    MaxChain = 1
    MaxTurns = 4
    MaxWrites = 9
SPECIFICATION Spec
INVARIANTS MoneyApproved

CONSTANTS
    None = None
    Tools <- MoneyTools
    NextTool <- MoneyNext
    Coordinated <- MoneyCoordinated
    ConfirmInChain <- MoneyMoney
    RendersChain <- MoneyRenders
    Args = {a1}
    Options = {o1}
    Prices = {p1}
    Requests = {r1, r2}
    Faults = {"replan", "raise", "die", "overlap", "drift"}
    MaxChain = 1
    MaxTurns = 3
    MaxWrites = 9
SPECIFICATION Spec
INVARIANTS NothingUninvited MoneyOnlyFromDraft

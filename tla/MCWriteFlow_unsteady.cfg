CONSTANTS
    None = None
    Tools <- QuoteTools
    NextTool <- QuoteNext
    Coordinated <- QuoteCoordinated
    ConfirmInChain <- QuoteMoney
    RendersChain <- QuoteRenders
    Args = {a1}
    Options = {o1}
    Prices = {p1, p2}
    Requests = {r1}
    Faults = {"replan", "raise"}
    MaxChain = 1
    MaxTurns = 4
    MaxWrites = 9
SPECIFICATION Spec
INVARIANTS HandleConsumed
PROPERTIES NoMeansNo

CONSTANTS
    None = None
    Tools <- QuoteTools
    NextTool <- QuoteNext
    Coordinated <- QuoteCoordinated
    ConfirmInChain <- QuoteMoney
    RendersChain <- QuoteRenders
    Args = {a1}
    Options = {o1}
    Prices = {p1, p2}
    Requests = {r1}
    Faults = {"drift"}
    MaxChain = 1
    MaxTurns = 4
    MaxWrites = 9
SPECIFICATION Spec
PROPERTIES NoMeansNo

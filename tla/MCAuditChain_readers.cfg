CONSTANTS
    Writers = {w1, w2, w3}
    Processes = {p1, p2}
    ProcessOf <- TwoThenOne
    Readers = {b1}
    Events = {e1}
    Hash <- PairHash
    Genesis = Genesis
    Start <- Reset
    MaxRowId = 4
    Null = Null
    b1 = b1
    w1 = w1
    w2 = w2
    w3 = w3
    p1 = p1
    p2 = p2
    e1 = e1
    e2 = e2
SPECIFICATION AcSpec
INVARIANTS VerifyAccepts

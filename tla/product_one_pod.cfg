\* One pod, two clients, one crash: the ledger is implemented.
SPECIFICATION FairSpec
CONSTANTS
    Pods = {p1}
    Clients = {c1, c2}
    i1 = i1
    i2 = i2
    n1 = n1
    n2 = n2
    Ids = {i1, i2}
    Names = {n1, n2}
    NameOf <- OwnNames
    Script <- TwoRows
    Changes <- PlusMinusOne
    Levels <- ZeroAndTwo
    Deletable = {i1, i2}
    FailDelete = i2
    NoAnswer = NoAnswer
    MaxStock = 2
    MaxRows = 3
    MaxCrashes = 1
INVARIANTS TypeOK UniqueProductId
PROPERTIES ImplementsLedger RequestsEnd ChangeMovesStockItsWay

\* A rolling restart: an acknowledged change is lost.
SPECIFICATION FairSpec
CONSTANTS
    Pods = {p1, p2}
    Clients = {c1, c2}
    i1 = i1
    i2 = i2
    n1 = n1
    n2 = n2
    Ids = {i1, i2}
    Names = {n1, n2}
    NameOf <- OwnNames
    Script <- TwoRows
    Changes <- PlusMinusOne
    Levels <- OneAndNegative
    Deletable = {i1, i2}
    FailDelete = i2
    NoAnswer = NoAnswer
    MaxStock = 1
    MaxRows = 2
    MaxCrashes = 1
PROPERTIES ChangeMovesStockItsWay

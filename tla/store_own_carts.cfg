\* Two sessions, a customer each, products may be withdrawn.
SPECIFICATION Spec
CONSTANTS
    s1 = s1
    s2 = s2
    u1 = u1
    u2 = u2
    p1 = p1
    Users = {u1, u2}
    Products = {p1}
    Sessions = {s1, s2}
    UsersOf <- OwnCustomer
    InitialStock <- TwoUnits
    Quantities = {1, 2}
    Events = {"withdraw"}
    NoUser = NoUser
    MaxStock = 2
    MaxRows = 3
    MaxOrders = 2
    MaxFaults = 0
INVARIANTS TypeOK NoUnitsLost RowIdentity

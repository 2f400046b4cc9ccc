\* A row that was added after the grid was loaded is ordered and stays in the cart.
SPECIFICATION Spec
CONSTANTS
    s1 = s1
    s2 = s2
    u1 = u1
    u2 = u2
    p1 = p1
    Users = {u1, u2}
    Products = {p1}
    Sessions = {s1, s2}
    UsersOf <- OwnCustomer
    InitialStock <- OneUnit
    Quantities = {1, 2}
    Events = {}
    NoUser = NoUser
    MaxStock = 2
    MaxRows = 2
    MaxOrders = 1
    MaxFaults = 0
PROPERTIES ClearedMeansCleared

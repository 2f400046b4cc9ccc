\* One session serves two customers, the other one of these; one call is refused
\* or times out, or one run is abandoned.
SPECIFICATION FairSpec
CONSTANTS
    s1 = s1
    s2 = s2
    u1 = u1
    u2 = u2
    p1 = p1
    Users = {u1, u2}
    Products = {p1}
    Sessions = {s1, s2}
    UsersOf <- AnyCustomer
    InitialStock <- OneUnit
    Quantities = {1}
    Events = {"refuse", "timeout", "rerun"}
    NoUser = NoUser
    MaxStock = 1
    MaxRows = 2
    MaxOrders = 1
    MaxFaults = 1
INVARIANTS CleanupOnlyOrdered
PROPERTIES OutdatedBySharers FlowsGetOn FlowsEnd

\* Two script runs, in one session or in two side by side, with a user service
\* that crashes once and a call that is served after its session gave up.
SPECIFICATION Spec
CONSTANTS
    Sessions = {s1, s2}
    Orgs = {"northwind", "contoso"}
    TenantsOf <- TwoOrgs
    FallbackIds = {1}
    PageNames = {"Order UI"}
    HomeName = "Online Store UI"
    NoValue = NoValue
    OnWire = OnWire
    GridLines = 2
    MaxRuns = 2
    MaxLate = 1
    Pods = {pod1}
    LastNames = {"Stark", "Rogers"}
    Seeds <- TwoSeeds
    MaxUsers = 3
    MaxCrashes = 1
INVARIANTS TypeOK ChainStaysAttributed ActsAsOnePerson
SYMMETRY Browsers
CHECK_DEADLOCK FALSE

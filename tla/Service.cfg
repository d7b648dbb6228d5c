SPECIFICATION FairSpec
CONSTANTS
    token = token
    appSecret = appSecret
    otherKey = otherKey
    chat = chat
    customer = customer
    mid1 = mid1
    mid2 = mid2
    mid3 = mid3
    Null = Null
    Absent = Absent
    Garbage = Garbage
    Exchanges = {x1, x2}
    MaxBodySize = 1
    SecretToken = token
    VerifyToken = token
    AppSecret = appSecret
    Environments <- MCEnvironments
    Damages <- MCDamages
    Requests <- MCRequests
    MaxSignals = 2
INVARIANTS
    WebhookContract
    StartIsAllOrNothing
    ExitCodeTellsTheTruth
PROPERTIES
    SignalEndsProcess
    LeadReachesStaff
CHECK_DEADLOCK FALSE

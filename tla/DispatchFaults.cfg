SPECIFICATION Spec
CONSTANTS
    tg = tg
    ig1 = ig1
    ig2 = ig2
    m1 = m1
    m2 = m2
    i1 = i1
    j1 = j1
    Customers = {tg, ig1, ig2}
    TelegramCustomers = {tg}
    MessageIds = {m1, m2, i1, j1}
    Tasks = {t1, t2, t3}
    Owner <- MCOwner
    SequenceOf <- MCSequenceOf
    Payloads <- MCPayloads
    Updates <- MCUpdates
    MaxRecentlyProcessed = 1
    Retention = 1
    StoreFaults = {"read", "write"}
    Moments <- WeekendBetween
    MaxClock = 2
SYMMETRY TaskSymmetry
INVARIANTS
    TypeOK
    OneHandlerPerCustomer
    OffHoursMessageReachesAgent
PROPERTIES
    LeavesQueueOnlyForATask
    NeverHandledAgain

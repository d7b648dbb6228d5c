SPECIFICATION FairSpec
CONSTANTS
    tg = tg
    ig1 = ig1
    ig2 = ig2
    m1 = m1
    m2 = m2
    i1 = i1
    j1 = j1
    Customers = {tg, ig1, ig2}
    TelegramCustomers = {tg}
    MessageIds = {m1, m2, i1, j1}
    Tasks = {t1, t2}
    Owner <- MCOwner
    SequenceOf <- MCSequenceOf
    Payloads <- MCPayloads
    Updates <- MCUpdates
    MaxRecentlyProcessed = 1
    Retention = 0
    StoreFaults = {"read"}
    Moments <- MondayMorning
    MaxClock = 1
INVARIANT
    QueueHasACaller
PROPERTIES
    FollowsProtocol
    AcceptedMessageSettles

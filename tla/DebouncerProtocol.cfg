SPECIFICATION Spec
CONSTANTS
    alice = alice
    bob = bob
    a1 = a1
    a2 = a2
    a3 = a3
    b1 = b1
    Customers = {alice, bob}
    MessageIds = {a1, a2, a3, b1}
    Owner <- MCOwner
    SequenceOf <- MCSequenceOf
    Payloads = {0}
    MaxRecentlyProcessed = 1
    Retention = 2
    StoreMayFail = FALSE
    MaxClock = 3
INVARIANTS
    TypeOK
    RememberedForRetention
PROPERTY
    ImplementsContract

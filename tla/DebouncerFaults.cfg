SPECIFICATION Spec
CONSTANTS
    alice = alice
    bob = bob
    a1 = a1
    a2 = a2
    a3 = a3
    b1 = b1
    Customers = {alice, bob}
    MessageIds = {a1, a2, a3, b1}
    Owner <- MCOwner
    SequenceOf <- MCSequenceOf
    Payloads = {0, 1}
    MaxRecentlyProcessed = 1
    Retention = 1
    StoreMayFail = TRUE
    MaxClock = 2
INVARIANTS
    FlightIsHeld
    NoStrandedWork
    OneSlotPerMessage
    HandedInOrder
    NothingFinishedWaits

SPECIFICATION Spec
CONSTANTS
    Pins = {a, b}
    NoPin = NoPin
    Methods <- AllMethods
    MaxOrders = 2
    MaxRequests = 2
INVARIANTS
    AddressFollowsPin
    ChargedAsShown
    PrepaidOnce
    FailedNotPlaced
CHECK_DEADLOCK FALSE
PROPERTY WaitingEnds

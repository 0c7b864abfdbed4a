SPECIFICATION Spec
CONSTANTS
    p1 = p1
    p2 = p2
    a1 = a1
    a2 = a2
    r1 = r1
    r2 = r2
    None = None
    Purchases = {p1, p2}
    Accounts = {a1, a2}
    BuyerOf <- OneBuyer
    Requests = {r1, r2}
    Starts = {"pending", "active"}
    MaxTime = 2
    MaxEvents = 4
CHECK_DEADLOCK FALSE
SYMMETRY Interchangeable
INVARIANTS TypeOK OneTier BoundToBuyer OneDelivery TrueUnlessOvertaken
PROPERTY ReplacedStaysOut

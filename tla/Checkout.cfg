SPECIFICATION Spec
CONSTANTS
    Workers = {w1, w2}
    NoWorker = NoWorker
    Params = {p1, p2}
    NoParams = NoParams
    MaxDay = 2
    MaxRequests = 4
    MaxFailures = 2
SYMMETRY CheckoutSymmetry
INVARIANTS TypeOK IntentPaidOnce SingleCustomer
PROPERTIES NoCheckoutWhilePaid RepeatAnswered
CHECK_DEADLOCK FALSE

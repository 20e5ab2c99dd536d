SPECIFICATION Spec
CONSTANTS
    MsPerSec = 3
    NsPerMs = 2
    Word = 64
    Lifetimes = {0, 1, 8}
    Minimal = {2, 3}
    ACTIVE_ROUTE_TIMEOUT = 4
    DELETE_PERIOD = 7
    Horizon = 20
INVARIANTS WakesOnTime SpinsOnlyIfLate DifferenceInMs
PROPERTIES OffersWhatIsLeft ReverseRouteKept

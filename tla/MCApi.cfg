\* The API process, its hub and its end.
SPECIFICATION ApiSpec
CONSTANTS
    get = get
    Requests = {get}
    Clients = {1, 2}
    Broadcasts = {3, 4}
INVARIANTS
    ApiTypeOK
    ClientsAreRead
    BroadcastReaches
PROPERTIES
    EndedClientLeaves
    BroadcastEnds
    ApiExits
CHECK_DEADLOCK FALSE

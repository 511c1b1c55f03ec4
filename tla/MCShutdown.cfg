\* Whether requests are drained at shutdown.
SPECIFICATION ApiSpec
CONSTANTS
    get = get
    Requests = {get}
    Clients = {1, 2}
    Broadcasts = {3, 4}
PROPERTY
    RequestsAreDrained
CHECK_DEADLOCK FALSE

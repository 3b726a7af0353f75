CONSTANTS
    main = main
    Calls = {h1}
    Requests = {r1}
    Consumers = {w1}
    Capacity = 1
    NoRequest = NoRequest
    Stoppers = {"worker-pool"}
    NoStopper = NoStopper
    Callers = {main}
    Handlers = {"webhook-server", "worker-pool", "scan-queue"}
    Triggers = {}
SPECIFICATION ServiceSpec
INVARIANT StopsAcceptingFirst
CHECK_DEADLOCK FALSE

CONSTANTS
    worker = worker
    thread = thread
    handler = handler
    x = x
    y = y
    z = z
    Work = {x, y, z}
    NoWork = NoWork
    Worker = worker
    Handlers = {handler}
    Caller = {worker, thread, handler}
    Submitters = {worker}
    Delayers = {thread, handler}
    Urgents = {thread}
    Cancellers = {handler}
    Syncs = {thread}
    Cleaners = {thread}
SPECIFICATION WorkFairSpec
INVARIANTS QueueExact
PROPERTIES ImplementsWorkList WorkIsTaken
CHECK_DEADLOCK FALSE

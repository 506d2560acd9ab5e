CONSTANTS
    qa = qa
    qb = qb
    Queries = {qa}
    DefaultQuery = qa
    Agendas <- CloseMeetsPage
    MaxPages = 2
    Requests = {}
    MaxPending = 1
SPECIFICATION ActivitySpec
PROPERTIES DeferredCloseEnds
CHECK_DEADLOCK FALSE

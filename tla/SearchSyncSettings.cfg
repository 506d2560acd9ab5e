CONSTANTS
    qa = qa
    qb = qb
    Queries = {qa}
    DefaultQuery = qa
    Agendas <- SyncMeetsSettings
    MaxPages = 2
    Requests = {}
    MaxPending = 1
SPECIFICATION ActivitySpec
PROPERTIES SyncEnds
CHECK_DEADLOCK FALSE

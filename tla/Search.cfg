CONSTANTS
    qa = qa
    qb = qb
    Queries = {qa, qb}
    DefaultQuery = qa
    Agendas <- MCAgendas
    MaxPages = 2
    Requests = {r1}
    MaxPending = 1
SPECIFICATION ActivitySpec
INVARIANTS AwaitedSearchNotDropped
PROPERTIES SyncShowsNewMail SyncEnds DeferredCloseEnds WarningOutlivesStaleSearch TypedQueryAnswered RefreshAnswersFresh
CHECK_DEADLOCK FALSE

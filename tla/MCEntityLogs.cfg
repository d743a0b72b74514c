\* Two entity calls at a time, of one or two operations each, and two entries of the log.
\* Two overlapping deliveries of two changes; a third entry of a log shows the bound
\* broken.
SPECIFICATION LogsSpec
CONSTANTS
    Procs = {p1, p2}
    Entities = {"acme", "gadget"}
    Known = {"acme"}
    Values = {"v1", "v2"}
    Calls <- MCCalls
    MaxLog = 2
    Handlers = {p1, p2}
    Changes = {c1, c2}
    MaxFeed = 3
SYMMETRY Symmetry
INVARIANTS
    TypeOK
    LogExplainsStore
    NothingOfForbiddenBulk
    FeedTypeOK
    AckedIsProcessed
PROPERTY
    SettledStaysSettled

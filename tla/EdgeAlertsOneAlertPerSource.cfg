\* Two deliveries of one source change at a time.
SPECIFICATION Spec
CONSTANTS
    Threads = {t1, t2}
    AlertIds = {a1, a2}
    SourceIds = {s1}
    Records = {r1, r2}
    None = None
    MaxHistory = 3
INVARIANT
    OneAlertPerSource

\* Two overlapping requests of either kind, the alert routes under weak fairness; two
\* alerts that are created, replaced and moved; a lag below, between and above the two
\* thresholds.  No symmetry: one of the properties is temporal.
SPECIFICATION FairServerSpec
CONSTANTS
    Threads = {t1, t2}
    AlertIds = {a1, a2}
    SourceIds = {s1}
    Records = {r1, r2}
    None = None
    MaxHistory = 3
    Senders = {t1, t2}
    Counts = {2}
    Lags = {0, 75000, 300000}
    MaxDropped = 6
    MaxThrottled = 4
INVARIANTS
    TypeOK
    IdempotencyNamesOwnAlert
    EveryCreationAnnounced
    NoStageSkipped
    NumbersTypeOK
    DelayBounded
    ExactUnlessRaced
PROPERTIES
    EveryRequestAnswered

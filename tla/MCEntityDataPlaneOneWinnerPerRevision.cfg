\* Two updates of one document, from the same revision, at a time.
SPECIFICATION Spec
CONSTANTS
    Threads = {t1, t2}
    Regions = {g1}
    Ids = {d1}
    Fields = {f1, f2}
    Tenants = {}
    StoreIds = {s1, s2, s3, s4}
    Records = {r1, r2, r3}
    None = None
    Methods = {"POST", "GET", "PUT"}
    MaxRev = 4
SYMMETRY Symmetry
INVARIANT
    OneWinnerPerRevision

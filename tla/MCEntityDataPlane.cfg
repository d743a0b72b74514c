\* Two overlapping requests, of a tenant or an administrator, to two regions, one of which
\* can get two stores in the race for its first.
SPECIFICATION Spec
CONSTANTS
    Threads = {t1, t2}
    Regions = {g1, g2}
    Ids = {d1}
    Fields = {f1}
    Tenants = {acme}
    StoreIds = {s1, s2, s3}
    Records = {r1, r2}
    None = None
    Methods = {"POST", "GET", "PUT", "DELETE"}
    MaxRev = 3
SYMMETRY Symmetry
INVARIANTS
    TypeOK
    RegionsAreIsolated
PROPERTY
    SettledRegionKeepsStore

\* One mirror after the other and one preflight at a time; blobs of three pieces, in
\* two chunks with two attempts each.
SPECIFICATION Spec
CONSTANTS
    Mirrors = {m1}
    Images = {"nginx"}
    Bare = {"nginx"}
    Repos <- MCRepos
    Blobs = {"config", "layer"}
    BlobsOf <- MCBlobsOf
    Options <- MCOptions
    Total = 3
    CHUNK = 2
    Attempts = 2
    None = None
INVARIANTS TypeOK GateMeansPullable PulledMeansAvailable
PROPERTY ImplementsMirroredImages

\* One call at a time: acknowledged, then resolved.
SPECIFICATION Spec
CONSTANTS
    Procs = {p1}
    AlertIds = {a1}
    Actors = {"carol@hpdc"}
    MaxLines = 4
    MaxAudit = 4
INVARIANT
    ResolvedIsFound

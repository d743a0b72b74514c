\* An admin, who may do everything, an observer, who may only add notes, and one that
\* spec.users does not list, who may do nothing: between them every verdict on every
\* action.  Two overlapping calls on one alert; four lines saved and two audited let calls
\* be accepted, refused and killed in the company of another one in every order.
SPECIFICATION Spec
CONSTANTS
    Procs = {p1, p2}
    AlertIds = {a1}
    Actors = {"carol@hpdc", "dave@hpdc", "eve@hpdc"}
    MaxLines = 4
    MaxAudit = 2
INVARIANTS
    TypeOK
    AuditMatchesState

\* One program at a time, in three shells.
SPECIFICATION MCSpec
CONSTANTS
    Unset = Unset
    Renders = {r1}
    Components = {kargo, pulsar}
    Values <- MCValues
    Shells <- MCShells
    Edits <- MCEdits
    MaxEdits = 0
INVARIANT
    UnlistedAreIncluded

\* Two renders that overlap and one edit of the files between renders, or one program at a
\* time in three shells and two edits of the three files.
SPECIFICATION MCSpec
CONSTANTS
    Unset = Unset
    Renders = {r1, r2}
    Components = {kargo, pulsar}
    Values <- MCValues
    Shells <- MCShells
    Edits <- MCEdits
    MaxEdits = 2
SYMMETRY Symmetry
INVARIANTS
    TypeOK
    NothingIsLost
    RenderedAsAsked

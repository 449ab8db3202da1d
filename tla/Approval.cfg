CONSTANTS
    j1 = j1
    j2 = j2
    j3 = j3
    c1 = c1
    c2 = c2
    h1 = h1
    h2 = h2
    Jobs = {j1, j2, j3}
    Originals = {j1}
    Cwes = {c1, c2}
    Critical = {c1}
    Handlers = {h1, h2}
    None = None
    MaxRecords = 2
    MaxCompletions = 2
SPECIFICATION Spec
SYMMETRY Symmetry
INVARIANTS
    TypeOK
    AcceptsNoCritical
    RecordsHaveJobs
PROPERTIES FollowUpIsApproved

CONSTANTS
    j1 = j1
    j2 = j2
    main = main
    e1 = e1
    e2 = e2
    t1 = t1
    t2 = t2
    clone = clone
    build = build
    Jobs = {j1, j2}
    Targets = {main}
    TargetOf <- OneTarget
    Engines = {e1}
    Tasks = {t1}
    Reaper = reaper
    Steps = {clone}
    Clone = clone
    None = None
    Reported = {"running", "finished"}
    Finals = {"success", "failed", "running"}
    Ends = {"fresh", "old"}
    Faults = {}
SPECIFICATION Spec
CHECK_DEADLOCK FALSE
SYMMETRY JobSymmetry
VIEW Visible
PROPERTIES ReaperSparesQueued

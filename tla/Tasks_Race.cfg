SPECIFICATION WorkSpec
CONSTANTS
    Tasks = {t1, t2}
    Links = {l1}
    LinkSlots = {r1}
    LinkTypes = {"finish_to_start"}
    WorkSlots = {w1, w2}
    Users = {}
    Items = {i1}
    Photos = {}
INVARIANTS
    RowsHaveTasks
SYMMETRY MCSymmetry
CHECK_DEADLOCK FALSE

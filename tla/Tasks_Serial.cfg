SPECIFICATION WorkSpec
CONSTANTS
    Tasks = {t1, t2}
    Links = {l1, l2}
    LinkSlots = {}
    LinkTypes = {"finish_to_start"}
    WorkSlots = {w1}
    Users = {u1}
    Items = {i1, i2}
    Photos = {p1}
PROPERTIES
    StartsAfterDependencies
    FinishedTaskStays
SYMMETRY MCSymmetry
CHECK_DEADLOCK FALSE

SPECIFICATION WorkSpec
CONSTANTS
    Tasks = {t1, t2, t3}
    Links = {l1, l2}
    LinkSlots = {r1}
    LinkTypes = {"finish_to_start"}
    WorkSlots = {w1}
    Users = {}
    Items = {}
    Photos = {}
INVARIANT Acyclic
SYMMETRY MCSymmetry
CHECK_DEADLOCK FALSE

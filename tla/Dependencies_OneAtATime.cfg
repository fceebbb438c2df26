SPECIFICATION LinkSpec
CONSTANTS
    Tasks = {t1, t2, t3}
    Links = {l1, l2, l3}
    LinkSlots = {r1}
    Users = {}
    Photos = {}
    LinkTypes = {"finish_to_start", "start_to_start"}
INVARIANTS
    Acyclic
    LinkInv
SYMMETRY MCSymmetry
CHECK_DEADLOCK FALSE

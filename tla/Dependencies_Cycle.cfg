SPECIFICATION LinkSpec
CONSTANTS
    Tasks = {t1, t2, t3}
    Links = {l1, l2}
    LinkSlots = {r1, r2}
    Users = {}
    Photos = {}
    LinkTypes = {"finish_to_start"}
INVARIANT Acyclic
CHECK_DEADLOCK FALSE

\* A cancellation that read the ticket before its booking committed.
CONSTANTS
    Tickets = {t1}
    Requests = {r1, r2}
    Kinds = {"book", "cancel"}
    Opening = 2
    None = None
SYMMETRY MCSymmetry
SPECIFICATION Spec
INVARIANT
    NoOrphanEmission
CHECK_DEADLOCK FALSE

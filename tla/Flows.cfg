\* Three tickets, every flow; no CRUD but the retyping of the cash position.
CONSTANTS
    Tickets = {t1, t2, t3}
    Users = {u1}
    None = None
    fund = fund
    stake = stake
    cash = cash
    n1 = n1
    Funds <- MCFunds
    Stakes <- MCStakes
    CashPositions <- MCCash
    Names <- MCNames
    Days = {1, 2}
    Drafts <- FlowDrafts
    Opening <- MCOpening
    UserRows <- MCUserRows
    TxnUnits = {}
    Stamps = {0, 1, 2, 3, 4}
    MaxRev = 1
    Crud = {"retype"}
    CrudTargets <- MCCash
SYMMETRY MCSymmetry
SPECIFICATION Spec
INVARIANTS
    TypeOK
    BookRestored
CHECK_DEADLOCK FALSE

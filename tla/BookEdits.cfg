\* Two tickets that create, dispose of and trade stakes, and the CRUD on all their rows.
CONSTANTS
    Tickets = {t1, t2}
    Users = {u1}
    None = None
    fund = fund
    stake = stake
    cash = cash
    n1 = n1
    Funds <- MCFunds
    Stakes <- MCStakes
    CashPositions <- MCCash
    Names <- MCNames
    Days = {1, 2}
    Drafts <- EditDrafts
    Opening <- EditOpening
    UserRows <- MCUserRows
    TxnUnits <- MCTxnUnits
    Stamps = {0, 1, 2}
    MaxRev = 1
    Crud = {"add_txn", "update_txn", "delete_txn", "add_nav", "update_nav", "delete_nav", "add_flow", "update_flow", "delete_flow", "set_active", "edit_investment", "delete_investment"}
    CrudTargets <- StakeTargets
SYMMETRY MCSymmetry
SPECIFICATION Spec
INVARIANTS
    EmissionsEnumerated
    EffectsAreOwn
    HoldingsNeverNegative
    NeverUnrestorable
    NothingNamesTheDeleted
PROPERTIES
    ReversalSparesEdits
    UnitsReturn
    ImplementsLifecycle
CHECK_DEADLOCK FALSE

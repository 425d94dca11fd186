\* Any three requests at once against one ticket: what the row locks alone
\* are enough for.
CONSTANTS
    Tickets = {t1}
    Requests = {r1, r2, r3}
    Kinds = {"propose", "book", "cancel", "reverse", "edit", "sell"}
    Opening = 2
    None = None
SPECIFICATION Spec
INVARIANTS
    EmittedAtMostOnce
PROPERTIES
    CancelledIsFinal
    EveryRequestEnds
CHECK_DEADLOCK FALSE

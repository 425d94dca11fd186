---------------------------- MODULE TradeTickets ----------------------------
(***************************************************************************)
(* The trade ticket of one tenant, the ledger it books into, and the CRUD  *)
(* that may touch the same rows: services/transactions/ticket_service.py,  *)
(* services/transactions/emission.py and the write seams they use in       *)
(* services/investments/investment_service.py.                             *)
(*                                                                         *)
(* Every action is one request: core/repositories/_session.py opens one    *)
(* database transaction per request, commits it when the handler returns   *)
(* and rolls it back when the handler raises.  A refused request writes    *)
(* nothing, so refusals are the conjuncts that disable an action.  Two     *)
(* requests in flight at once are the subject of TicketRaces.              *)
(***************************************************************************)
EXTENDS Integers, FiniteSets, FiniteSetsExt

CONSTANTS
    Tickets,        \* ids of trade_tickets rows
    Users,          \* acting users
    Funds,          \* investments valued from units, known at the start
    Stakes,         \* investments with a reported NAV, known at the start
    CashPositions,  \* investments of type cash, known at the start
    Names,          \* names the master data of a creating draft can state
    Days,           \* trade dates
    Drafts,         \* what a composer form can say
    Opening,        \* the ledger rows at the start
    UserRows,       \* ids of the rows that are entered through the CRUD
    TxnUnits,       \* units a ledger row entered or restated there can state
    Stamps,         \* created_at values, ordered
    MaxRev,         \* bound: how often one investment row is edited
    Crud,           \* the CRUD operations of this instance
    CrudTargets,    \* the investments the CRUD operations reach
    None

VARIABLES
    tickets,        \* trade_tickets
    effects,        \* trade_ticket_effects, by ticket
    ledger,         \* position_transactions
    flows,          \* investment_cashflows, kind actual
    navs,           \* investment_navs, kind actual, entered or emitted
    investments,    \* investments
    modified,       \* <<t, x>>: the audit log has an UPDATE of row x later
                    \* than ticket t's booking, and x is an effect of t
    edited          \* history: the rows a CRUD operation has changed

vars == <<tickets, effects, ledger, flows, navs, investments, modified, edited>>
book == <<ledger, flows, navs, investments>>

-----------------------------------------------------------------------------
(* Rows and identifiers.                                                   *)

Legs == {"instrument", "cash", "flow", "nav"}
RowIds == UserRows \cup (Tickets \X Legs)
OwnRows(t) == {t} \X Legs

\* The id of the investment that booking t creates: a ticket books at most
\* once, so the id is never used twice.
Shell(t) == <<t, "shell">>
Shells == {Shell(t) : t \in Tickets}
Investments == Funds \cup Stakes \cup CashPositions \cup Shells

LedgerRows == [id: RowIds, inv: Investments, day: Days, units: Int, at: Stamps]
FlowRows == [id: RowIds, inv: Investments]
NavRows == [id: RowIds, inv: Investments, day: Days]

InvestmentRows ==
    [present: BOOLEAN, active: BOOLEAN, cash: BOOLEAN,
     mode: {"unitised", "reported"}, name: Names \cup {None}, rev: 0..MaxRev]

Images == [active: BOOLEAN, rev: 0..MaxRev]
EffectTypes == {"position_txn", "cashflow", "nav", "investment_update"}
Effects == [type: EffectTypes, id: RowIds \cup Investments, prior: Images \cup {None}]

Statuses == {"none", "draft", "proposed", "approved", "booked", "cancelled"}
\* A slip: a cancelled ticket is booked again.
BookableAgain == {"draft", "proposed", "approved", "cancelled"}
Bookable == {"draft", "proposed", "approved"}
Cancellable == {"draft", "proposed", "approved"}

DraftForms ==
    [kind: {"order", "commitment", "secondary"}, direction: {"buy", "sell"},
     inv: Investments \cup {None}, cash: Investments \cup {None}, day: Days,
     units: Nat, amount: Int \cup {None}, name: Names \cup {None},
     anlv: BOOLEAN, setInactive: BOOLEAN]

NoForm == [kind |-> None, direction |-> None, inv |-> None, cash |-> None,
           day |-> None, units |-> 0, amount |-> None, name |-> None,
           anlv |-> FALSE, setInactive |-> FALSE]

TicketRows ==
    [status: Statuses, form: DraftForms \cup {NoForm}, proposer: Users \cup {None},
     approver: Users \cup {None}, booker: Users \cup {None}, reason: BOOLEAN]

ASSUME IdsAssumption ==
    /\ UserRows \cap (Tickets \X Legs) = {}
    /\ (Funds \cup Stakes \cup CashPositions) \cap Shells = {}
    /\ (Funds \cup Stakes) \cap CashPositions = {}
    /\ Investments \cap RowIds = {}
    /\ None \notin Tickets \cup Users \cup Names \cup Investments
    /\ None \notin Images

ASSUME BoundsAssumption ==
    /\ Days \subseteq Int /\ Stamps \subseteq Int /\ TxnUnits \subseteq Int
    /\ MaxRev \in Nat
    /\ CrudTargets \subseteq Investments

ASSUME DraftsAssumption == Drafts \subseteq DraftForms

-----------------------------------------------------------------------------
(* Holdings, derived from the ledger (services/investments/holdings.py).   *)

RowsOf(rows, i) == {r \in rows : r.inv = i}
Units(rows) == MapThenSumSet(LAMBDA r : r.units, rows)

\* The canonical order (trade_date, created_at, id) of one investment's rows.
NotAfter(q, r) == q.day < r.day \/ (q.day = r.day /\ q.at <= r.at)

HoldingsAsOf(rows, i, day) == Units({q \in RowsOf(rows, i) : q.day <= day})

\* first_negative_holding_date(...) is None: no prefix of the ledger is short.
NonNegative(rows, i) ==
    \A r \in RowsOf(rows, i) : Units({q \in RowsOf(rows, i) : NotAfter(q, r)}) >= 0

ASSUME OpeningAssumption ==
    /\ Opening \subseteq [id: UserRows, inv: Funds \cup Stakes \cup CashPositions,
                         day: Days, units: Int, at: Stamps]
    /\ \A i \in Funds \cup Stakes : NonNegative(Opening, i)
    /\ IsFiniteSet(Opening)

\* The write-time guard; cash is exempt on every write path.
HoldingsAllowed(rows, i) == investments[i].cash \/ NonNegative(rows, i)

Later(s, i) == \A r \in RowsOf(ledger, i) : r.at < s
HasStamp(i) == \E s \in Stamps : Later(s, i)
NextStamp(i) == CHOOSE s \in Stamps : Later(s, i)

LedgerRow(id, i, day, units) ==
    [id |-> id, inv |-> i, day |-> day, units |-> units, at |-> NextStamp(i)]

-----------------------------------------------------------------------------
(* Effects, and the audit log as the reversal reads it.                    *)

Effect(type, id, prior) == [type |-> type, id |-> id, prior |-> prior]
RowEffects(type, rows) == {Effect(type, r.id, None) : r \in rows}

Of(t, type) == {e \in effects[t] : e.type = type}
EffectIds(E) == {e.id : e \in E}
Created(t) == {e \in Of(t, "investment_update") : e.prior = None}
Updated(t) == {e \in Of(t, "investment_update") : e.prior # None}

\* An UPDATE of the rows in ids counts against every booking that emitted
\* them.  A booking's own UPDATE carries the same NOW() as its effects and is
\* not later than them: its ticket is not booked yet when it touches the row.
Touch(ids) ==
    modified \cup {m \in Tickets \X ids :
                      tickets[m[1]].status = "booked" /\ m[2] \in EffectIds(effects[m[1]])}

IdsIn(rows) == {r.id : r \in rows}
Present(i) == i \in Investments /\ investments[i].present

TargetExists(e) ==
    CASE e.type = "position_txn" -> e.id \in IdsIn(ledger)
      [] e.type = "cashflow" -> e.id \in IdsIn(flows)
      [] e.type = "nav" -> e.id \in IdsIn(navs)
      [] e.type = "investment_update" -> Present(e.id)

-----------------------------------------------------------------------------
(* The flow a ticket is (validation.py) and the blocks it must pass.       *)

Status(t) == tickets[t].status
Form(t) == tickets[t].form

Creating(f) ==
    /\ f.inv = None
    /\ \/ f.kind = "commitment"
       \/ f.kind = "secondary" /\ f.direction = "buy"
       \/ f.kind = "order" /\ f.direction = "buy" /\ f.name # None

CashMoving(f) == f.kind # "commitment"

NameFree(name) ==
    ~\E i \in Investments : investments[i].present /\ investments[i].name = name

MasterDataOk(f) == f.name # None /\ NameFree(f.name)

AmountsOk(f) ==
    CASE f.kind = "order" -> f.units > 0 /\ f.amount # None
      [] f.kind = "secondary" -> f.amount # None
      [] f.kind = "commitment" -> f.amount # None /\ f.amount > 0

SettlementOk(f) ==
    /\ f.cash # None
    /\ LET c == investments[f.cash] IN c.present /\ c.cash /\ c.active

TradableOk(f) ==
    /\ f.inv # None
    /\ LET i == investments[f.inv]
       IN  /\ i.present /\ i.active
           /\ f.kind = "order" => i.mode = "unitised"
           /\ f.kind = "secondary" => i.mode = "reported"

NavsAt(i, day) == {n \in navs : n.inv = i /\ n.day = day}
\* A slip: the NAV collision is not asked.
NavFreeUnasked(i, day) == TRUE
NavFree(i, day) == NavsAt(i, day) = {}

\* The hypothetical sell takes part with created_at = now: it is the newest.
NoOversell(f) ==
    f.kind = "order" /\ f.direction = "sell" /\ f.inv # None /\ f.units > 0
        => /\ HasStamp(f.inv)
           /\ NonNegative(ledger \cup {LedgerRow(None, f.inv, f.day, -f.units)}, f.inv)

Blocks(f) ==
    /\ IF Creating(f) THEN MasterDataOk(f) /\ f.anlv ELSE TradableOk(f)
    /\ AmountsOk(f)
    /\ CashMoving(f) => SettlementOk(f)
    /\ f.kind = "secondary" /\ ~Creating(f) => NavFree(f.inv, f.day)
    /\ NoOversell(f)

-----------------------------------------------------------------------------
(* Composing, proposing, cancelling.                                       *)

\* A form the tables accept: the commitment shape CHECK, and foreign keys.
Storable(f) ==
    /\ f.kind = "commitment" => f.direction = "buy" /\ f.cash = None
    /\ f.inv # None => Present(f.inv)
    /\ f.cash # None => Present(f.cash)

CreateDraft(t, f) ==
    /\ Status(t) = "none"
    /\ Storable(f)
    /\ tickets' = [tickets EXCEPT ![t].status = "draft", ![t].form = f]
    /\ UNCHANGED <<effects, book, modified, edited>>

UpdateDraft(t, f) ==
    /\ Status(t) = "draft"
    /\ Storable(f)
    /\ tickets' = [tickets EXCEPT ![t].form = f]
    /\ UNCHANGED <<effects, book, modified, edited>>

Propose(t, u) ==
    /\ Status(t) = "draft"
    /\ Blocks(Form(t))
    /\ tickets' = [tickets EXCEPT ![t].status = "proposed", ![t].proposer = u]
    /\ UNCHANGED <<effects, book, modified, edited>>

Cancel(t, reason) ==
    /\ Status(t) \in Cancellable
    /\ Status(t) \in {"proposed", "approved"} => reason
    /\ tickets' = [tickets EXCEPT ![t].status = "cancelled", ![t].reason = reason]
    /\ UNCHANGED <<effects, book, modified, edited>>

-----------------------------------------------------------------------------
(* Booking: the six flows and what each one emits (emission.py).           *)

\* A slip: the cash leg of a buy keeps the sign of its amount.
CashLegUnsigned(t, f) ==
    IF f.amount = 0 THEN {} ELSE {LedgerRow(<<t, "cash">>, f.cash, f.day, f.amount)}

\* The cash leg, absent when nothing moves; on a sell whose costs exceed the
\* proceeds its sign turns over.
CashLeg(t, f) ==
    LET effect == IF f.direction = "sell" THEN f.amount ELSE -f.amount
    IN  IF effect = 0 THEN {} ELSE {LedgerRow(<<t, "cash">>, f.cash, f.day, effect)}

InstrumentLeg(t, f, i) ==
    {LedgerRow(<<t, "instrument">>, i, f.day,
               IF f.direction = "sell" THEN -f.units ELSE f.units)}

Retired(i) == [investments EXCEPT ![i].active = FALSE]
BeforeImage(i) == [active |-> investments[i].active, rev |-> investments[i].rev]
RetireEffect(i) == Effect("investment_update", i, BeforeImage(i))

\* create_investment_from_ticket: the row, and the effect that marks it created.
WithShell(t, f, mode) ==
    [investments EXCEPT ![Shell(t)] =
        [present |-> TRUE, active |-> TRUE, cash |-> FALSE, mode |-> mode,
         name |-> f.name, rev |-> 0]]
CreateEffect(t) == Effect("investment_update", Shell(t), None)

\* The row an upsert of an actual NAV leaves at its key: the one that stood
\* there, restated, or else a new one.
NavWritten(id, i, day) ==
    IF NavsAt(i, day) = {} THEN {[id |-> id, inv |-> i, day |-> day]} ELSE NavsAt(i, day)

\* U-BUY and U-SELL.  A deactivation is asked of the ledger as it stands
\* after the sell, on the trade date.
EmitOrder(t, f) ==
    LET legs == InstrumentLeg(t, f, f.inv) \cup CashLeg(t, f)
    IN  /\ f.kind = "order" /\ ~Creating(f)
        /\ f.setInactive => f.direction = "sell"
        /\ HasStamp(f.inv) /\ HasStamp(f.cash)
        /\ HoldingsAllowed(ledger \cup legs, f.inv)
        /\ f.setInactive => HoldingsAsOf(ledger \cup legs, f.inv, f.day) = 0
        /\ ledger' = ledger \cup legs
        /\ IF f.setInactive
           THEN /\ investments' = Retired(f.inv)
                /\ modified' = Touch({f.inv})
                /\ effects' = [effects EXCEPT ![t] =
                                  RowEffects("position_txn", legs) \cup {RetireEffect(f.inv)}]
           ELSE /\ effects' = [effects EXCEPT ![t] = RowEffects("position_txn", legs)]
                /\ UNCHANGED <<investments, modified>>
        /\ UNCHANGED <<flows, navs>>

\* U-NEW: the investment is created, then the order is emitted against it.
EmitNewOrder(t, f) ==
    LET legs == InstrumentLeg(t, f, Shell(t)) \cup CashLeg(t, f)
    IN  /\ f.kind = "order" /\ Creating(f)
        /\ ~f.setInactive
        /\ HasStamp(Shell(t)) /\ HasStamp(f.cash)
        /\ NonNegative(ledger \cup legs, Shell(t))
        /\ ledger' = ledger \cup legs
        /\ investments' = WithShell(t, f, "unitised")
        /\ effects' = [effects EXCEPT ![t] = {CreateEffect(t)} \cup RowEffects("position_txn", legs)]
        /\ UNCHANGED <<flows, navs, modified>>

\* R-COMMIT: the investment row and nothing else.
EmitCommitment(t, f) ==
    /\ f.kind = "commitment" /\ Creating(f)
    /\ investments' = WithShell(t, f, "reported")
    /\ effects' = [effects EXCEPT ![t] = {CreateEffect(t)}]
    /\ UNCHANGED <<ledger, flows, navs, modified>>

\* R-SEC-SELL: proceeds as a distribution, the NAV down to zero, the position
\* retired, the cash leg.
EmitSecondarySell(t, f) ==
    LET flow == {[id |-> <<t, "flow">>, inv |-> f.inv]}
        nav  == NavWritten(<<t, "nav">>, f.inv, f.day)
        legs == CashLeg(t, f)
    IN  /\ f.kind = "secondary" /\ f.direction = "sell" /\ ~Creating(f)
        /\ NavFree(f.inv, f.day)
        /\ HasStamp(f.cash)
        /\ flows' = flows \cup flow
        /\ navs' = navs \cup nav
        /\ ledger' = ledger \cup legs
        /\ investments' = Retired(f.inv)
        /\ modified' = Touch({f.inv})
        /\ effects' = [effects EXCEPT ![t] =
                          RowEffects("cashflow", flow) \cup RowEffects("nav", nav)
                          \cup RowEffects("position_txn", legs) \cup {RetireEffect(f.inv)}]

\* R-SEC-BUY: the investment row with its acquired NAV, and the cash leg.
EmitSecondaryBuy(t, f) ==
    LET nav  == NavWritten(<<t, "nav">>, Shell(t), f.day)
        legs == CashLeg(t, f)
    IN  /\ f.kind = "secondary" /\ f.direction = "buy" /\ Creating(f)
        /\ HasStamp(f.cash)
        /\ navs' = navs \cup nav
        /\ ledger' = ledger \cup legs
        /\ investments' = WithShell(t, f, "reported")
        /\ effects' = [effects EXCEPT ![t] = {CreateEffect(t)} \cup RowEffects("nav", nav)
                                             \cup RowEffects("position_txn", legs)]
        /\ UNCHANGED <<flows, modified>>

\* A slip: the walk skips the stations in between.
WalkedUnattributed(row, u) == [row EXCEPT !.status = "booked", !.booker = u]

\* The walk draft -> proposed -> approved -> booked: a station that already
\* names an actor keeps it.
Walked(row, u) ==
    [row EXCEPT !.status = "booked",
                !.proposer = IF @ = None THEN u ELSE @,
                !.approver = IF @ = None THEN u ELSE @,
                !.booker = u]

\* Booking refuses when no emission takes the form (the unroutable shapes).
Book(t, u) ==
    LET f == Form(t) IN
    /\ Status(t) \in Bookable
    /\ Blocks(f)
    /\ \/ EmitOrder(t, f)
       \/ EmitNewOrder(t, f)
       \/ EmitCommitment(t, f)
       \/ EmitSecondarySell(t, f)
       \/ EmitSecondaryBuy(t, f)
    /\ tickets' = [tickets EXCEPT ![t] =
          Walked(IF Creating(f) THEN [@ EXCEPT !.form.inv = Shell(t)] ELSE @, u)]
    /\ UNCHANGED edited

-----------------------------------------------------------------------------
(* Reversing a booked ticket.                                              *)

\* A slip: only deleted rows count as touched.
UntouchedByDelete(t) == \A e \in effects[t] : TargetExists(e)

\* check_effects_untouched: every emitted row stands as it was emitted.
Untouched(t) ==
    \A e \in effects[t] : TargetExists(e) /\ <<t, e.id>> \notin modified

\* A slip: the cash leg is left in the ledger.
LedgerWithoutInstrument(t) == ledger \ {r \in ledger : r.id = <<t, "instrument">>}
LedgerWithout(t) == {r \in ledger : r.id \notin EffectIds(Of(t, "position_txn"))}
\* A slip: the emitted cashflow is left behind.
FlowsWithoutNone(t) == flows
FlowsWithout(t) == {r \in flows : r.id \notin EffectIds(Of(t, "cashflow"))}
NavsWithout(t) == {r \in navs : r.id \notin EffectIds(Of(t, "nav"))}

\* A slip: the deletes bypass the holdings guard.
UnitsStillThereUnasked(t) == TRUE

\* Deleting the ticket's ledger rows leaves no investment short.
UnitsStillThere(t) ==
    \A r \in ledger \ LedgerWithout(t) : HoldingsAllowed(LedgerWithout(t), r.inv)

\* restore_from_before_image: no field but is_active has moved.
Restorable(t) == \A e \in Updated(t) : investments[e.id].rev = e.prior.rev

\* A slip: the other tickets that name it are overlooked.
ReferencingUnasked(t, i) == {}

\* What decides the fate of a created investment, once the booking's own rows
\* are gone: rows somebody else put on it, and other tickets that name it.
HasUserChild(t, i) ==
    \/ RowsOf(LedgerWithout(t), i) # {}
    \/ RowsOf(FlowsWithout(t), i) # {}
    \/ RowsOf(NavsWithout(t), i) # {}
Referencing(t, i) == {u \in Tickets \ {t} : Form(u).inv = i \/ Form(u).cash = i}
LiveReferences(t, i) == {u \in Referencing(t, i) : Status(u) \notin {"booked", "cancelled"}}

Restored(t) ==
    [i \in Investments |->
        IF \E e \in Updated(t) : e.id = i
        THEN [investments[i] EXCEPT !.active =
                 (CHOOSE e \in Updated(t) : e.id = i).prior.active]
        ELSE investments[i]]

Undo(t) ==
    /\ Status(t) = "booked"
    /\ effects[t] # {}
    /\ Untouched(t)
    /\ UnitsStillThere(t)
    /\ Restorable(t)
    /\ ledger' = LedgerWithout(t)
    /\ flows' = FlowsWithout(t)
    /\ navs' = NavsWithout(t)
    /\ UNCHANGED <<effects, edited>>

\* Only a booked ticket's rows matter to the audit probe from here on.
TouchInReversal(t, ids) == {m \in Touch(ids) : m[1] # t}
Withdrawn(t) == [tickets[t] EXCEPT !.status = "cancelled", !.reason = TRUE]

\* The booking created nothing: its before-images are restored.
ReverseOrder(t) ==
    /\ Undo(t)
    /\ Created(t) = {}
    /\ investments' = Restored(t)
    /\ modified' = TouchInReversal(t, EffectIds(Updated(t)))
    /\ tickets' = [tickets EXCEPT ![t] = Withdrawn(t)]

\* Nothing but the booking ever used the created investment: it is unlinked
\* and deleted.
ReverseAndDelete(t) ==
    /\ Undo(t)
    /\ \E e \in Created(t) :
          /\ ~HasUserChild(t, e.id)
          /\ Referencing(t, e.id) = {}
          /\ investments' = [investments EXCEPT ![e.id] = [@ EXCEPT !.present = FALSE]]
    /\ modified' = TouchInReversal(t, {})
    /\ tickets' = [tickets EXCEPT ![t] = [Withdrawn(t) EXCEPT !.form.inv = None]]

\* Somebody's rows stand on it, or tickets at their end name it for good: it
\* is retired and the ticket keeps naming it.  A live ticket that names it
\* refuses the reversal, unless rows already decided.
ReverseAndRetire(t) ==
    /\ Undo(t)
    /\ \E e \in Created(t) :
          /\ \/ HasUserChild(t, e.id)
             \/ Referencing(t, e.id) # {} /\ LiveReferences(t, e.id) = {}
          /\ investments' = Retired(e.id)
          /\ modified' = TouchInReversal(t, {e.id})
    /\ tickets' = [tickets EXCEPT ![t] = Withdrawn(t)]

Reverse(t) == ReverseOrder(t) \/ ReverseAndDelete(t) \/ ReverseAndRetire(t)

-----------------------------------------------------------------------------
(* The CRUD over the same rows (investment_service.py and its routes).     *)

Free(id) == id \in UserRows /\ id \notin IdsIn(ledger) \cup IdsIn(flows) \cup IdsIn(navs)
Reachable(i) == i \in CrudTargets /\ Present(i)

\* A slip: the CRUD writes without an audit trigger.
EditsUnaudited(x) == edited' = edited \cup {x} /\ UNCHANGED modified

\* What an UPDATE of row x leaves behind: an audit row, and the edit itself.
Edits(x) == modified' = Touch({x}) /\ edited' = edited \cup {x}
EditsNothing == UNCHANGED <<modified, edited>>

AddTxn(id, i, day, units) ==
    LET row == LedgerRow(id, i, day, units) IN
    /\ "add_txn" \in Crud /\ Reachable(i) /\ Free(id) /\ HasStamp(i)
    /\ units # 0
    /\ HoldingsAllowed(ledger \cup {row}, i)
    /\ ledger' = ledger \cup {row}
    /\ EditsNothing
    /\ UNCHANGED <<tickets, effects, flows, navs, investments>>

\* A restatement keeps the row's type, so its sign, and its created_at.
UpdateTxn(r, day, units) ==
    LET restated == (ledger \ {r}) \cup {[r EXCEPT !.day = day, !.units = units]} IN
    /\ "update_txn" \in Crud /\ Reachable(r.inv)
    /\ units # 0 /\ (units > 0 <=> r.units > 0)
    /\ HoldingsAllowed(restated, r.inv)
    /\ ledger' = restated
    /\ Edits(r.id)
    /\ UNCHANGED <<tickets, effects, flows, navs, investments>>

DeleteTxn(r) ==
    /\ "delete_txn" \in Crud /\ Reachable(r.inv)
    /\ HoldingsAllowed(ledger \ {r}, r.inv)
    /\ ledger' = ledger \ {r}
    /\ EditsNothing
    /\ UNCHANGED <<tickets, effects, flows, navs, investments>>

\* An upsert: a NAV that stands on the date is restated.
AddNav(id, i, day) ==
    /\ "add_nav" \in Crud /\ Reachable(i) /\ Free(id)
    /\ navs' = navs \cup NavWritten(id, i, day)
    /\ \/ NavFree(i, day) /\ EditsNothing
       \/ \E n \in NavsAt(i, day) : Edits(n.id)
    /\ UNCHANGED <<tickets, effects, ledger, flows, investments>>

UpdateNav(n) ==
    /\ "update_nav" \in Crud /\ Reachable(n.inv)
    /\ Edits(n.id)
    /\ UNCHANGED <<tickets, effects, book>>

DeleteNav(n) ==
    /\ "delete_nav" \in Crud /\ Reachable(n.inv)
    /\ navs' = navs \ {n}
    /\ EditsNothing
    /\ UNCHANGED <<tickets, effects, ledger, flows, investments>>

AddFlow(id, i) ==
    /\ "add_flow" \in Crud /\ Reachable(i) /\ Free(id)
    /\ flows' = flows \cup {[id |-> id, inv |-> i]}
    /\ EditsNothing
    /\ UNCHANGED <<tickets, effects, ledger, navs, investments>>

UpdateFlow(r) ==
    /\ "update_flow" \in Crud /\ Reachable(r.inv)
    /\ Edits(r.id)
    /\ UNCHANGED <<tickets, effects, book>>

DeleteFlow(r) ==
    /\ "delete_flow" \in Crud /\ Reachable(r.inv)
    /\ flows' = flows \ {r}
    /\ EditsNothing
    /\ UNCHANGED <<tickets, effects, ledger, navs, investments>>

SetActive(i, active) ==
    /\ "set_active" \in Crud /\ Reachable(i)
    /\ investments' = [investments EXCEPT ![i].active = active]
    /\ Edits(i)
    /\ UNCHANGED <<tickets, effects, ledger, flows, navs>>

\* Any column but is_active: a restated value, or another name.
EditInvestment(i, name) ==
    /\ "edit_investment" \in Crud /\ Reachable(i)
    /\ investments[i].rev < MaxRev
    /\ name # investments[i].name => NameFree(name)
    /\ investments' = [investments EXCEPT ![i].name = name, ![i].rev = @ + 1]
    /\ Edits(i)
    /\ UNCHANGED <<tickets, effects, ledger, flows, navs>>

\* The type is a column like any other: no ledger is read when it changes.
Retype(i) ==
    /\ "retype" \in Crud /\ Reachable(i)
    /\ investments[i].rev < MaxRev
    /\ investments' = [investments EXCEPT ![i].cash = ~@, ![i].rev = @ + 1]
    /\ Edits(i)
    /\ UNCHANGED <<tickets, effects, ledger, flows, navs>>

\* trade_tickets names an investment ON DELETE RESTRICT, the rows CASCADE.
NamedByTicket(i) == \E t \in Tickets : i \in {Form(t).inv, Form(t).cash}

DeleteInvestment(i) ==
    /\ "delete_investment" \in Crud /\ Reachable(i)
    /\ ~NamedByTicket(i)
    /\ investments' = [investments EXCEPT ![i].present = FALSE]
    /\ ledger' = ledger \ RowsOf(ledger, i)
    /\ flows' = flows \ RowsOf(flows, i)
    /\ navs' = navs \ RowsOf(navs, i)
    /\ EditsNothing
    /\ UNCHANGED <<tickets, effects>>

-----------------------------------------------------------------------------
(* The system.                                                             *)

AtStart(i) ==
    [present |-> i \notin Shells, active |-> i \notin Shells, cash |-> i \in CashPositions,
     mode |-> IF i \in Funds \cup CashPositions THEN "unitised" ELSE "reported",
     name |-> None, rev |-> 0]

Init ==
    /\ tickets = [t \in Tickets |->
          [status |-> "none", form |-> NoForm, proposer |-> None, approver |-> None,
           booker |-> None, reason |-> FALSE]]
    /\ effects = [t \in Tickets |-> {}]
    /\ ledger = Opening
    /\ flows = {}
    /\ navs = {}
    /\ investments = [i \in Investments |-> AtStart(i)]
    /\ modified = {}
    /\ edited = {}

TicketStep(t) ==
    \/ \E f \in Drafts : CreateDraft(t, f) \/ UpdateDraft(t, f)
    \/ \E u \in Users : Propose(t, u) \/ Book(t, u)
    \/ \E reason \in BOOLEAN : Cancel(t, reason)
    \/ Reverse(t)

LedgerCrud ==
    \/ \E id \in UserRows, i \in CrudTargets, day \in Days, units \in TxnUnits :
          AddTxn(id, i, day, units)
    \/ \E r \in ledger, day \in Days, units \in TxnUnits : UpdateTxn(r, day, units)
    \/ \E r \in ledger : DeleteTxn(r)

NavCrud ==
    \/ \E id \in UserRows, i \in CrudTargets, day \in Days : AddNav(id, i, day)
    \/ \E n \in navs : UpdateNav(n) \/ DeleteNav(n)

FlowCrud ==
    \/ \E id \in UserRows, i \in CrudTargets : AddFlow(id, i)
    \/ \E r \in flows : UpdateFlow(r) \/ DeleteFlow(r)

InvestmentCrud ==
    \E i \in CrudTargets :
        \/ \E active \in BOOLEAN : SetActive(i, active)
        \/ \E name \in Names \cup {investments[i].name} : EditInvestment(i, name)
        \/ Retype(i)
        \/ DeleteInvestment(i)

Next ==
    \/ \E t \in Tickets : TicketStep(t)
    \/ LedgerCrud
    \/ NavCrud
    \/ FlowCrud
    \/ InvestmentCrud

Spec == Init /\ [][Next]_vars

-----------------------------------------------------------------------------
(* Properties.                                                             *)

EmittedBy(rows, t) == {r \in rows : r.id \in OwnRows(t)}
Standing == ledger \cup flows \cup navs
BookedTickets == {t \in Tickets : Status(t) = "booked"}

\* The attribution CHECKs of b034: a station that was reached names its actor.
Attributed(row) ==
    /\ row.status # "none" => row.form \in DraftForms
    /\ row.status = "proposed" => row.proposer # None
    /\ row.status = "booked" => None \notin {row.proposer, row.approver, row.booker}

\* Every variable has its type, and every ticket row satisfies the attribution
\* constraints of migration b034.
TypeOK ==
    /\ tickets \in [Tickets -> TicketRows]
    /\ effects \in [Tickets -> SUBSET Effects]
    /\ ledger \subseteq LedgerRows
    /\ flows \subseteq FlowRows
    /\ navs \subseteq NavRows
    /\ investments \in [Investments -> InvestmentRows]
    /\ modified \subseteq Tickets \X (RowIds \cup Investments)
    /\ edited \subseteq RowIds \cup Investments
    /\ \A t \in Tickets : Attributed(tickets[t])

\* A row that a booking emitted stands only while its ticket is booked: no
\* cancelled ticket leaves rows in the book (cancel and reverse).
NoOrphanEmission ==
    \A t \in Tickets : Standing \cap EmittedBy(Standing, t) # {} => Status(t) = "booked"

\* The effects enumerate the emission, they are never inferred: a row of a
\* booking that still stands is among the effects of its ticket, under the type
\* of its table, and that ticket is booked.
EnumeratedIn(rows, type) ==
    \A t \in Tickets : \A r \in EmittedBy(rows, t) :
        Status(t) = "booked" /\ Effect(type, r.id, None) \in effects[t]
EmissionsEnumerated ==
    /\ EnumeratedIn(ledger, "position_txn")
    /\ EnumeratedIn(flows, "cashflow")
    /\ EnumeratedIn(navs, "nav")

\* The effects of a booked ticket name only rows its own booking inserted, so
\* its reversal can delete nobody else's (write_nav is an upsert).
EffectsAreOwn ==
    \A t \in BookedTickets : \A e \in effects[t] :
        e.type # "investment_update" => e.id \in OwnRows(t)

\* No investment but a cash position ever holds negative units on any date
\* (ADR-0097 section 4), through bookings, reversals and the ledger CRUD alike.
HoldingsNeverNegative ==
    \A i \in Investments : ~investments[i].cash => NonNegative(ledger, i)

\* No row of the book and no ticket names an investment that is gone: neither
\* the reversal's clean-up nor a delete cascades somebody's work away or runs
\* into the RESTRICT of trade_tickets.
NothingNamesTheDeleted ==
    /\ \A r \in Standing : Present(r.inv)
    /\ \A t \in Tickets : \A i \in {Form(t).inv, Form(t).cash} \ {None} : Present(i)

\* "unrestorable" is unreachable behind the modified check: where the audit log
\* shows no later UPDATE, the before-image still describes the row.
NeverUnrestorable ==
    \A t \in BookedTickets : Untouched(t) => Restorable(t)

WithdrawalIsExact(t) ==
    LET gone == Standing \ Standing'
    IN  /\ gone = EmittedBy(Standing, t)
        /\ \A r \in gone : r.id \notin edited
        /\ Standing' \subseteq Standing

\* A step that withdraws a booked ticket removes only rows that booking
\* inserted, none that the CRUD has changed since, and alters no row it keeps.
ReversalSparesEdits ==
    [][\A t \in Tickets :
          Status(t) = "booked" /\ Status(t)' # "booked" => WithdrawalIsExact(t)]_vars

\* What the booking of form f moves in what investment i holds as of a day.
Moved(f, i, day) ==
    LET traded  == IF f.direction = "sell" THEN -f.units ELSE f.units
        settled == IF f.direction = "sell" THEN f.amount ELSE -f.amount
    IN  (IF f.kind = "order" /\ f.inv = i /\ f.day <= day THEN traded ELSE 0)
        + (IF CashMoving(f) /\ f.cash = i /\ f.day <= day THEN settled ELSE 0)

\* A booking moves the units its form states, on the day it states, and its
\* reversal moves exactly these back, whatever was booked, entered, restated or
\* retyped in between: a ticket whose rows no longer say this is not reversed.
UnitsReturn ==
    [][\A t \in Tickets, i \in Investments, day \in Days :
          LET held == HoldingsAsOf(ledger, i, day)
              then == HoldingsAsOf(ledger', i, day)
          IN  /\ Status(t) # "booked" /\ Status(t)' = "booked"
                     => then = held + Moved(Form(t)', i, day)
              /\ Status(t) = "booked" /\ Status(t)' # "booked"
                     => then = held - Moved(Form(t), i, day)]_vars

ActorsKept(t) ==
    \A u \in Users :
        /\ tickets[t].proposer = u => tickets[t].proposer' = u
        /\ tickets[t].approver = u => tickets[t].approver' = u
        /\ tickets[t].booker = u => tickets[t].booker' = u

\* Booked and cancelled tickets never return to an earlier station, and an
\* actor once recorded is never replaced.
StationsKept ==
    [][\A t \in Tickets :
          /\ Status(t) = "cancelled" => tickets[t]' = tickets[t]
          /\ Status(t) = "booked" => Status(t)' \in {"booked", "cancelled"}
          /\ ActorsKept(t)]_vars

\* When nobody edits more than the type of an investment, once no ticket is booked
\* the book is what it was before the first booking, apart from created investments
\* that were retired because a ticket still names them.
BookRestored ==
    BookedTickets = {} =>
        /\ Standing = Opening
        /\ \A i \in Investments \ Shells :
              investments[i] = [AtStart(i) EXCEPT !.cash = investments[i].cash, !.rev = investments[i].rev]
        /\ \A i \in Shells : investments[i].present =>
              /\ ~investments[i].active
              /\ NamedByTicket(i)

-----------------------------------------------------------------------------
(* The lifecycle this implements.                                          *)

Lifecycle == INSTANCE TicketLifecycle WITH
    status <- [t \in Tickets |-> Status(t)],
    emitted <- {t \in Tickets : EmittedBy(Standing, t) # {}}

\* Booking, reversing and the CRUD together implement the ticket's lifecycle.
ImplementsLifecycle == Lifecycle!Spec
=============================================================================

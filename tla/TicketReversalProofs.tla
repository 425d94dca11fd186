----------------------- MODULE TicketReversalProofs -----------------------
(***************************************************************************)
(* Further theorems of TradeTickets: the stations of a ticket, what a      *)
(* reversal removes, the refinement of TicketLifecycle, what cancelling    *)
(* restores, and what bookings and reversals move in a holding.            *)
(***************************************************************************)
EXTENDS TradeTicketsProofs, FiniteSetTheorems, WellFoundedInduction

-----------------------------------------------------------------------------
(* The stations of a ticket.                                               *)

SameActors(old, new) ==
    new.proposer = old.proposer /\ new.approver = old.approver /\ new.booker = old.booker

\* What one gesture does to the row of its ticket.
StationMove(old, new) ==
    \/ old.status = "none" /\ new.status = "draft" /\ SameActors(old, new)
    \/ old.status = "draft" /\ new.status = "draft" /\ SameActors(old, new)
    \/ /\ old.status = "draft" /\ new.status = "proposed"
       /\ new.approver = old.approver /\ new.booker = old.booker
    \/ /\ old.status \in Bookable /\ new.status = "booked"
       /\ old.proposer # None => new.proposer = old.proposer
       /\ old.approver # None => new.approver = old.approver
    \/ /\ old.status \in Cancellable \cup {"booked"} /\ new.status = "cancelled"
       /\ SameActors(old, new)

LEMMA StationMoves ==
    ASSUME TypeOK, NEW t \in Tickets, TicketStep(t)
    PROVE  /\ StationMove(tickets[t], tickets'[t])
           /\ \A u \in Tickets \ {t} : tickets'[u] = tickets[u]
<1>1. tickets[t] \in TicketRows
    BY DEF TypeOK
<1>2. CASE \E f \in Drafts : CreateDraft(t, f) \/ UpdateDraft(t, f)
    BY <1>1, <1>2 DEF CreateDraft, UpdateDraft, Status, TypeOK, TicketRows, StationMove, SameActors
<1>3. CASE \E u \in Users : Propose(t, u)
    BY <1>1, <1>3 DEF Propose, Status, TypeOK, TicketRows, StationMove
<1>4. CASE \E reason \in BOOLEAN : Cancel(t, reason)
    BY <1>1, <1>4 DEF Cancel, Status, TypeOK, TicketRows, StationMove, SameActors
<1>5. ASSUME NEW u \in Users, Book(t, u)
      PROVE  /\ StationMove(tickets[t], tickets'[t])
             /\ \A v \in Tickets \ {t} : tickets'[v] = tickets[v]
  <2> DEFINE old == tickets[t]
             row == IF Creating(Form(t)) THEN [old EXCEPT !.form.inv = Shell(t)] ELSE old
  <2>1. tickets' = [tickets EXCEPT ![t] = Walked(row, u)] /\ old.status \in Bookable
    BY <1>5 DEF Book, Status
  <2>2. tickets'[t] = Walked(row, u) /\ \A v \in Tickets \ {t} : tickets'[v] = tickets[v]
    BY <2>1 DEF TypeOK
  <2>3. SameActors(old, row) /\ row.status = old.status
    BY <1>1 DEF TicketRows, SameActors
  <2>4. DOMAIN row = DOMAIN old
    BY <1>1 DEF TicketRows
  <2>5. /\ Walked(row, u).status = "booked"
        /\ Walked(row, u).proposer = (IF row.proposer = None THEN u ELSE row.proposer)
        /\ Walked(row, u).approver = (IF row.approver = None THEN u ELSE row.approver)
    BY <1>1, <2>4 DEF TicketRows, Walked
  <2> QED
    BY <2>1, <2>2, <2>3, <2>5 DEF StationMove, SameActors
<1>6. CASE Reverse(t)
  <2>1. \/ tickets' = [tickets EXCEPT ![t] = Withdrawn(t)]
        \/ tickets' = [tickets EXCEPT ![t] = [Withdrawn(t) EXCEPT !.form.inv = None]]
    BY <1>6 DEF Reverse, ReverseOrder, ReverseAndDelete, ReverseAndRetire
  <2>2. tickets[t].status = "booked"
    BY <1>6 DEF Reverse, ReverseOrder, ReverseAndDelete, ReverseAndRetire, Undo, Status
  <2>3. /\ tickets'[t] \in {Withdrawn(t), [Withdrawn(t) EXCEPT !.form.inv = None]}
        /\ \A u \in Tickets \ {t} : tickets'[u] = tickets[u]
    BY <2>1 DEF TypeOK
  <2>4. \A row \in {Withdrawn(t), [Withdrawn(t) EXCEPT !.form.inv = None]} :
            row.status = "cancelled" /\ SameActors(tickets[t], row)
    BY <1>1 DEF Withdrawn, TicketRows, SameActors
  <2> QED
    BY <2>2, <2>3, <2>4 DEF StationMove
<1> QED
    BY <1>2, <1>3, <1>4, <1>5, <1>6 DEF TicketStep

LEMMA CrudMovesNoTicket ==
    ASSUME LedgerCrud \/ NavCrud \/ FlowCrud \/ InvestmentCrud
    PROVE  UNCHANGED <<tickets, effects>>
BY DEF LedgerCrud, AddTxn, UpdateTxn, DeleteTxn, NavCrud, AddNav, UpdateNav, DeleteNav,
       FlowCrud, AddFlow, UpdateFlow, DeleteFlow,
       InvestmentCrud, SetActive, EditInvestment, Retype, DeleteInvestment

\* Who is recorded before the station is reached: nobody.
NotStampedAhead ==
    \A t \in Tickets :
        /\ Status(t) \in {"none", "draft"} => tickets[t].proposer = None
        /\ Status(t) \notin {"booked", "cancelled"} => tickets[t].booker = None

LEMMA StationStep ==
    ASSUME TypeOK, [Next]_vars
    PROVE  \A t \in Tickets : tickets'[t] = tickets[t] \/ StationMove(tickets[t], tickets'[t])
<1>1. CASE \E t \in Tickets : TicketStep(t)
    BY <1>1, StationMoves
<1>2. CASE LedgerCrud \/ NavCrud \/ FlowCrud \/ InvestmentCrud
    BY <1>2, CrudMovesNoTicket
<1>3. CASE UNCHANGED vars
    BY <1>3 DEF vars
<1> QED
    BY <1>1, <1>2, <1>3 DEF Next

LEMMA NotStampedAheadKept ==
    TypeOK /\ NotStampedAhead /\ [Next]_vars => NotStampedAhead'
<1> SUFFICES ASSUME TypeOK, NotStampedAhead, [Next]_vars PROVE NotStampedAhead'
    OBVIOUS
<1>1. \A t \in Tickets : tickets'[t] = tickets[t] \/ StationMove(tickets[t], tickets'[t])
    BY StationStep
<1> QED
    BY <1>1 DEF NotStampedAhead, Status, StationMove, SameActors, Bookable, Cancellable

\* Booked and cancelled tickets never return, and no actor is ever replaced.
THEOREM StationsNeverReturn == Spec => StationsKept
<1>1. Init => NotStampedAhead
    BY DEF Init, NotStampedAhead, Status
<1>2. TypeOK /\ NotStampedAhead /\ [Next]_vars
          => [\A t \in Tickets :
                 /\ Status(t) = "cancelled" => tickets[t]' = tickets[t]
                 /\ Status(t) = "booked" => Status(t)' \in {"booked", "cancelled"}
                 /\ ActorsKept(t)]_vars
  <2> SUFFICES ASSUME TypeOK, NotStampedAhead, [Next]_vars, NEW t \in Tickets
               PROVE  /\ Status(t) = "cancelled" => tickets[t]' = tickets[t]
                      /\ Status(t) = "booked" => Status(t)' \in {"booked", "cancelled"}
                      /\ ActorsKept(t)
    OBVIOUS
  <2>1. tickets'[t] = tickets[t] \/ StationMove(tickets[t], tickets'[t])
    BY StationStep
  <2>2. None \notin Users
    BY IdsAssumption
  <2> QED
    BY <2>1, <2>2 DEF NotStampedAhead, Status, ActorsKept, StationMove, SameActors,
                      Bookable, Cancellable
<1> QED
    BY <1>1, <1>2, NotStampedAheadKept, TypeCorrect, PTL DEF Spec, StationsKept

-----------------------------------------------------------------------------
(* Every row and every ticket names an investment that stands.             *)

RowsPresent == \A r \in Standing : Present(r.inv)
NamesPresent ==
    \A t \in Tickets : \A i \in {Form(t).inv, Form(t).cash} \ {None} : Present(i)

\* The investment that a booking creates does not stand before it, is the only
\* one its effects mark as created, and never settles its own ticket.
ShellOfItsBooking ==
    \A t \in Tickets :
        /\ Status(t) \notin {"booked", "cancelled"} => ~investments[Shell(t)].present
        /\ \A e \in Created(t) : e.id = Shell(t)
        /\ Form(t).cash # Shell(t)

Structure == RowsPresent /\ NamesPresent /\ ShellOfItsBooking

LEMMA ShellFacts ==
    ASSUME NEW t \in Tickets
    PROVE  /\ Shell(t) \in Investments /\ Shell(t) # None
           /\ \A u \in Tickets : Shell(u) = Shell(t) => u = t
BY IdsAssumption DEF Shell, Shells, Investments

\* An emission of t, as far as the rest of the system can see it.
Emission(t) ==
    /\ \A i \in Investments : investments[i].present => investments'[i].present
    /\ \A i \in Investments : investments'[i].present => investments[i].present \/ i = Shell(t)
    /\ Creating(Form(t)) => investments'[Shell(t)].present
    /\ Standing \subseteq Standing'
    /\ \A r \in Standing' \ Standing :
           /\ r.id \in OwnRows(t) /\ r.inv \in Investments /\ investments'[r.inv].present
           /\ r.inv \in {IF Creating(Form(t)) THEN Shell(t) ELSE Form(t).inv, Form(t).cash}
    /\ \A i \in Investments \ {Shell(t)} : investments'[i].rev = investments[i].rev
    /\ \A e \in effects'[t] : e.type = "investment_update" /\ e.prior = None => e.id = Shell(t)
    /\ \A e \in effects'[t] : e.type = "investment_update"
          => e.id \in Investments /\ e.id = (IF Creating(Form(t)) THEN Shell(t) ELSE Form(t).inv)
    /\ \A e \in effects'[t] : e.type = "investment_update" /\ e.prior # None
          => e.prior.rev = investments'[e.id].rev
    /\ \A e \in effects'[t] : e.type # "investment_update" => e.id \in OwnRows(t)
    /\ \A u \in Tickets \ {t} : effects'[u] = effects[u]

LEMMA RetiredPresence ==
    ASSUME TypeOK, NEW i \in Investments
    PROVE  \A j \in Investments : /\ Retired(i)[j].present = investments[j].present
                                  /\ Retired(i)[j].rev = investments[j].rev
BY DEF Retired, TypeOK, InvestmentRows

LEMMA WithShellPresence ==
    ASSUME TypeOK, NEW t \in Tickets, NEW f, NEW mode
    PROVE  \A j \in Investments :
               /\ WithShell(t, f, mode)[j].present <=> j = Shell(t) \/ investments[j].present
               /\ j # Shell(t) => WithShell(t, f, mode)[j] = investments[j]
BY ShellFacts DEF WithShell, TypeOK, InvestmentRows

LEMMA CashLegOwn ==
    ASSUME NEW t, NEW f
    PROVE  \A r \in CashLeg(t, f) : r.id \in OwnRows(t) /\ r.inv = f.cash
BY DEF CashLeg, LedgerRow, OwnRows, Legs

LEMMA InstrumentLegOwn ==
    ASSUME NEW t, NEW f, NEW i
    PROVE  \A r \in InstrumentLeg(t, f, i) : r.id \in OwnRows(t) /\ r.inv = i
BY DEF InstrumentLeg, LedgerRow, OwnRows, Legs

LEMMA RetireEffectUpdates ==
    ASSUME TypeOK, NEW i \in Investments
    PROVE  /\ RetireEffect(i).type = "investment_update" /\ RetireEffect(i).prior # None
           /\ RetireEffect(i).id = i /\ RetireEffect(i).prior.rev = investments[i].rev
<1>1. BeforeImage(i) \in Images
    BY DEF BeforeImage, Images, TypeOK, InvestmentRows
<1> QED
    BY <1>1, IdsAssumption DEF RetireEffect, Effect, BeforeImage

LEMMA RowEffectsOwn ==
    ASSUME NEW type, NEW rows, NEW t, \A r \in rows : r.id \in OwnRows(t)
    PROVE  \A e \in RowEffects(type, rows) : e.type = type /\ e.id \in OwnRows(t)
BY DEF RowEffects, Effect

LEMMA BookEmits ==
    ASSUME TypeOK, Structure, NEW t \in Tickets, NEW u \in Users, Book(t, u)
    PROVE  Emission(t)
<1> DEFINE f == Form(t)
           legs == CashLeg(t, f)
<1>1. f \in DraftForms /\ Blocks(f) /\ Shell(t) \in Investments
    BY ShellFacts DEF TypeOK, Book, Bookable, Status, Form, Attributed
<1>2. CashMoving(f) => f.cash \in Investments /\ investments[f.cash].present
    BY <1>1, BlocksType DEF Blocks, SettlementOk
<1>3. ~Creating(f) => f.inv \in Investments /\ investments[f.inv].present
    BY <1>1, BlocksType DEF Blocks, TradableOk
<1>4. ~investments[Shell(t)].present
    BY DEF Structure, ShellOfItsBooking, Book, Bookable
<1>5. \A v \in Tickets \ {t} : effects'[v] = effects[v]
    BY DEF Book, EmitOrder, EmitNewOrder, EmitCommitment, EmitSecondarySell, EmitSecondaryBuy, TypeOK
<1>6. \A r \in legs : r.id \in OwnRows(t) /\ r.inv = f.cash
    BY CashLegOwn
<1>7. /\ CreateEffect(t).id = Shell(t) /\ CreateEffect(t).type = "investment_update"
      /\ CreateEffect(t).prior = None
    BY DEF CreateEffect, Effect
<1>8. CASE EmitOrder(t, f)
  <2> DEFINE inst == InstrumentLeg(t, f, f.inv)
  <2>1. /\ ledger' = ledger \cup inst \cup legs /\ UNCHANGED <<flows, navs>>
        /\ ~Creating(f) /\ CashMoving(f)
        /\ investments' = investments \/ investments' = Retired(f.inv)
        /\ \/ effects'[t] = RowEffects("position_txn", inst \cup legs)
           \/ effects'[t] = RowEffects("position_txn", inst \cup legs) \cup {RetireEffect(f.inv)}
    BY <1>8 DEF EmitOrder, CashMoving, TypeOK
  <2>2. \A i \in Investments : /\ investments'[i].present = investments[i].present
                               /\ investments'[i].rev = investments[i].rev
    BY <1>3, <2>1, RetiredPresence
  <2>3. \A r \in inst : r.id \in OwnRows(t) /\ r.inv = f.inv
    BY InstrumentLegOwn
  <2>4. \A e \in RowEffects("position_txn", inst \cup legs) : e.type = "position_txn" /\ e.id \in OwnRows(t)
    BY <1>6, <2>3, RowEffectsOwn
  <2>5. /\ RetireEffect(f.inv).type = "investment_update" /\ RetireEffect(f.inv).prior # None
        /\ RetireEffect(f.inv).id = f.inv /\ RetireEffect(f.inv).prior.rev = investments[f.inv].rev
    BY <1>3, <2>1, RetireEffectUpdates
  <2>6. \A e \in effects'[t] : IF e.type = "investment_update" THEN e = RetireEffect(f.inv)
                                                              ELSE e.id \in OwnRows(t)
    BY <2>1, <2>4, <2>5
  <2>7. \A e \in effects'[t] : e.type = "investment_update" =>
            e.id = f.inv /\ e.prior # None /\ e.prior.rev = investments'[e.id].rev
    BY <1>3, <2>1, <2>2, <2>5, <2>6
  <2>8. /\ Standing \subseteq Standing'
        /\ \A r \in Standing' \ Standing :
               r.id \in OwnRows(t) /\ r.inv \in {f.inv, f.cash}
    BY <1>6, <2>1, <2>3 DEF Standing
  <2> QED
    BY <1>2, <1>3, <1>5, <2>1, <2>2, <2>6, <2>7, <2>8 DEF Emission
<1>9. CASE EmitNewOrder(t, f)
  <2> DEFINE inst == InstrumentLeg(t, f, Shell(t))
  <2>1. /\ ledger' = ledger \cup inst \cup legs /\ UNCHANGED <<flows, navs>>
        /\ Creating(f) /\ CashMoving(f) /\ investments' = WithShell(t, f, "unitised")
        /\ effects'[t] = {CreateEffect(t)} \cup RowEffects("position_txn", inst \cup legs)
    BY <1>9 DEF EmitNewOrder, CashMoving, TypeOK
  <2>2. \A i \in Investments :
            /\ investments'[i].present <=> i = Shell(t) \/ investments[i].present
            /\ i # Shell(t) => investments'[i].rev = investments[i].rev
    BY <2>1, WithShellPresence
  <2>3. \A r \in inst : r.id \in OwnRows(t) /\ r.inv = Shell(t)
    BY InstrumentLegOwn
  <2>4. \A e \in RowEffects("position_txn", inst \cup legs) : e.type = "position_txn" /\ e.id \in OwnRows(t)
    BY <1>6, <2>3, RowEffectsOwn
  <2> QED
    BY <1>1, <1>2, <1>5, <1>6, <1>7, <2>1, <2>2, <2>3, <2>4 DEF Emission, Standing
<1>10. CASE EmitCommitment(t, f)
  <2>1. /\ UNCHANGED <<ledger, flows, navs>> /\ investments' = WithShell(t, f, "reported")
        /\ Creating(f) /\ effects'[t] = {CreateEffect(t)}
    BY <1>10 DEF EmitCommitment, TypeOK
  <2>2. \A i \in Investments :
            /\ investments'[i].present <=> i = Shell(t) \/ investments[i].present
            /\ i # Shell(t) => investments'[i].rev = investments[i].rev
    BY <2>1, WithShellPresence
  <2> QED
    BY <1>1, <1>5, <1>7, <2>1, <2>2 DEF Emission, Standing
<1>11. CASE EmitSecondarySell(t, f)
  <2> DEFINE flow == {[id |-> <<t, "flow">>, inv |-> f.inv]}
             nav == {[id |-> <<t, "nav">>, inv |-> f.inv, day |-> f.day]}
  <2>1. /\ ledger' = ledger \cup legs /\ flows' = flows \cup flow /\ navs' = navs \cup nav
        /\ ~Creating(f) /\ CashMoving(f) /\ investments' = Retired(f.inv)
        /\ effects'[t] = RowEffects("cashflow", flow) \cup RowEffects("nav", nav)
                         \cup RowEffects("position_txn", legs) \cup {RetireEffect(f.inv)}
    BY <1>11 DEF EmitSecondarySell, CashMoving, NavFree, NavWritten, TypeOK
  <2>2. \A i \in Investments : /\ investments'[i].present = investments[i].present
                               /\ investments'[i].rev = investments[i].rev
    BY <1>3, <2>1, RetiredPresence
  <2>3. \A r \in flow \cup nav : r.id \in OwnRows(t) /\ r.inv = f.inv
    BY DEF OwnRows, Legs
  <2>4. /\ \A e \in RowEffects("cashflow", flow) : e.type = "cashflow" /\ e.id \in OwnRows(t)
        /\ \A e \in RowEffects("nav", nav) : e.type = "nav" /\ e.id \in OwnRows(t)
        /\ \A e \in RowEffects("position_txn", legs) : e.type = "position_txn" /\ e.id \in OwnRows(t)
    BY <1>6, <2>3, RowEffectsOwn
  <2>5. /\ RetireEffect(f.inv).type = "investment_update" /\ RetireEffect(f.inv).prior # None
        /\ RetireEffect(f.inv).id = f.inv /\ RetireEffect(f.inv).prior.rev = investments[f.inv].rev
    BY <1>3, <2>1, RetireEffectUpdates
  <2>6. \A e \in effects'[t] : IF e.type = "investment_update" THEN e = RetireEffect(f.inv)
                                                              ELSE e.id \in OwnRows(t)
    BY <2>1, <2>4, <2>5
  <2>7. \A e \in effects'[t] : e.type = "investment_update" =>
            e.id = f.inv /\ e.prior # None /\ e.prior.rev = investments'[e.id].rev
    BY <1>3, <2>1, <2>2, <2>5, <2>6
  <2>8. /\ Standing \subseteq Standing'
        /\ \A r \in Standing' \ Standing :
               r.id \in OwnRows(t) /\ r.inv \in {f.inv, f.cash}
    BY <1>6, <2>1, <2>3 DEF Standing
  <2> QED
    BY <1>2, <1>3, <1>5, <2>1, <2>2, <2>6, <2>7, <2>8 DEF Emission
<1>12. CASE EmitSecondaryBuy(t, f)
  <2> DEFINE nav == {[id |-> <<t, "nav">>, inv |-> Shell(t), day |-> f.day]}
  <2>1. NavsAt(Shell(t), f.day) = {}
    BY <1>4 DEF Structure, RowsPresent, Standing, Present, NavsAt
  <2>2. /\ ledger' = ledger \cup legs /\ navs' = navs \cup nav /\ UNCHANGED flows
        /\ Creating(f) /\ CashMoving(f) /\ investments' = WithShell(t, f, "reported")
        /\ effects'[t] = {CreateEffect(t)} \cup RowEffects("nav", nav)
                         \cup RowEffects("position_txn", legs)
    BY <1>12, <2>1 DEF EmitSecondaryBuy, CashMoving, NavWritten, TypeOK
  <2>3. \A i \in Investments :
            /\ investments'[i].present <=> i = Shell(t) \/ investments[i].present
            /\ i # Shell(t) => investments'[i].rev = investments[i].rev
    BY <2>2, WithShellPresence
  <2>4. \A r \in nav : r.id \in OwnRows(t) /\ r.inv = Shell(t)
    BY DEF OwnRows, Legs
  <2>5. /\ \A e \in RowEffects("nav", nav) : e.type = "nav" /\ e.id \in OwnRows(t)
        /\ \A e \in RowEffects("position_txn", legs) : e.type = "position_txn" /\ e.id \in OwnRows(t)
    BY <1>6, <2>4, RowEffectsOwn
  <2> QED
    BY <1>1, <1>2, <1>5, <1>6, <1>7, <2>2, <2>3, <2>4, <2>5 DEF Emission, Standing
<1> QED
    BY <1>8, <1>9, <1>10, <1>11, <1>12 DEF Book

\* Gestures that leave the book alone.
LEMMA MovesStructure ==
    ASSUME TypeOK, Structure, NEW t \in Tickets,
           \/ \E f \in Drafts : CreateDraft(t, f) \/ UpdateDraft(t, f)
           \/ \E u \in Users : Propose(t, u)
           \/ \E reason \in BOOLEAN : Cancel(t, reason)
    PROVE  Structure'
<1>1. UNCHANGED <<effects, ledger, flows, navs, investments>>
    BY DEF CreateDraft, UpdateDraft, Propose, Cancel, book
<1>2. /\ StationMove(tickets[t], tickets'[t])
      /\ \A u \in Tickets \ {t} : tickets'[u] = tickets[u]
    BY StationMoves DEF TicketStep
<1>3. \/ Form(t)' = Form(t)
      \/ Status(t) \in {"none", "draft"} /\ \E f \in Drafts : Form(t)' = f /\ Storable(f)
  <2>1. tickets[t] \in TicketRows
    BY DEF TypeOK
  <2>2. CASE \E f \in Drafts : CreateDraft(t, f) \/ UpdateDraft(t, f)
    <3>1. PICK f \in Drafts : CreateDraft(t, f) \/ UpdateDraft(t, f)
        BY <2>2
    <3>2. Form(t)' = f
        BY <2>1, <3>1 DEF CreateDraft, UpdateDraft, Form, TypeOK, TicketRows
    <3>3. Storable(f) /\ Status(t) \in {"none", "draft"}
        BY <3>1 DEF CreateDraft, UpdateDraft
    <3> QED
        BY <3>2, <3>3
  <2>3. CASE (\E u \in Users : Propose(t, u)) \/ \E reason \in BOOLEAN : Cancel(t, reason)
    BY <2>1, <2>3 DEF Propose, Cancel, Form, TypeOK, TicketRows
  <2> QED
    BY <2>2, <2>3
<1>4. RowsPresent'
    BY <1>1 DEF Structure, RowsPresent, Standing, Present
<1>5. NamesPresent'
  <2> SUFFICES ASSUME NEW u \in Tickets, NEW i \in {Form(u)'.inv, Form(u)'.cash} \ {None}
               PROVE  Present(i)
    BY <1>1 DEF NamesPresent, Present
  <2>1. CASE Form(u)' = Form(u)
    BY <2>1 DEF Structure, NamesPresent
  <2>2. CASE Form(u)' # Form(u)
    <3>1. u = t
        BY <1>2, <2>2 DEF Form
    <3>2. PICK f \in Drafts : Form(u)' = f /\ Storable(f)
        BY <1>3, <2>2, <3>1
    <3> QED
        BY <3>2 DEF Storable
  <2> QED
    BY <2>1, <2>2
<1>6. ShellOfItsBooking'
  <2>1. \A u \in Tickets : Status(u)' \notin {"booked", "cancelled"}
                              => Status(u) \notin {"booked", "cancelled"}
    BY <1>2 DEF Status, StationMove, Cancellable
  <2>2. \A u \in Tickets : Created(u)' = Created(u)
    BY <1>1 DEF Created, Of
  <2>3. Form(t)'.cash # Shell(t)
    <3>1. CASE Form(t)' = Form(t)
        BY <3>1 DEF Structure, ShellOfItsBooking
    <3>2. CASE Form(t)' # Form(t)
      <4>1. PICK f \in Drafts : Form(t)' = f /\ Storable(f) /\ Status(t) \in {"none", "draft"}
        BY <1>3, <3>2
      <4>2. ~investments[Shell(t)].present
        BY <4>1 DEF Structure, ShellOfItsBooking
      <4> QED
        BY <4>1, <4>2, ShellFacts DEF Storable, Present
    <3> QED
        BY <3>1, <3>2
  <2>4. \A u \in Tickets \ {t} : Form(u)' = Form(u)
    BY <1>2 DEF Form
  <2> QED
    BY <1>1, <2>1, <2>2, <2>3, <2>4 DEF Structure, ShellOfItsBooking
<1> QED
    BY <1>4, <1>5, <1>6 DEF Structure

LEMMA BookForm ==
    ASSUME TypeOK, NEW t \in Tickets, NEW u \in Users, Book(t, u)
    PROVE  /\ Form(t)'.cash = Form(t).cash
           /\ Form(t)'.inv = (IF Creating(Form(t)) THEN Shell(t) ELSE Form(t).inv)
<1>1. Form(t) \in DraftForms
    BY DEF TypeOK, Attributed, Status, Form, Book, Bookable
<1>2. \A row \in TicketRows : Walked(row, u).form = row.form
    BY DEF Walked, TicketRows
<1>3. tickets[t] \in TicketRows /\ [tickets[t] EXCEPT !.form.inv = Shell(t)] \in TicketRows
    BY <1>1, ShellFacts DEF TypeOK, TicketRows, DraftForms, Form
<1> DEFINE row == IF Creating(Form(t)) THEN [tickets[t] EXCEPT !.form.inv = Shell(t)] ELSE tickets[t]
<1>4. Form(t)' = row.form
  <2>1. tickets' = [tickets EXCEPT ![t] = Walked(row, u)]
    BY DEF Book
  <2>2. tickets'[t] = Walked(row, u)
    BY <2>1 DEF TypeOK
  <2> QED
    BY <1>2, <1>3, <2>2 DEF Form
<1>5. [tickets[t] EXCEPT !.form.inv = Shell(t)].form = [Form(t) EXCEPT !.inv = Shell(t)]
    BY <1>3 DEF Form, TicketRows
<1>6. CASE Creating(Form(t))
    BY <1>1, <1>4, <1>5, <1>6 DEF DraftForms
<1>7. CASE ~Creating(Form(t))
  <2>1. Form(t)' = tickets[t].form
    BY <1>4, <1>7
  <2>2. Form(t)'.cash = Form(t).cash /\ Form(t)'.inv = Form(t).inv
    BY <2>1 DEF Form
  <2> QED
    BY <1>7, <2>2
<1> QED
    BY <1>6, <1>7

LEMMA BookStructure ==
    ASSUME TypeOK, Structure, NEW t \in Tickets, NEW u \in Users, Book(t, u)
    PROVE  Structure'
<1>1. Emission(t)
    BY BookEmits
<1>2. /\ StationMove(tickets[t], tickets'[t])
      /\ \A v \in Tickets \ {t} : tickets'[v] = tickets[v]
    BY StationMoves DEF TicketStep
<1>3. Status(t)' = "booked" /\ Status(t) \in Bookable /\ Status(t) \notin {"booked", "cancelled"}
  <2>1. Status(t) \in Bookable
    BY DEF Book
  <2>2. Status(t)' = "booked"
    BY DEF Book, Status, TypeOK, TicketRows, Walked
  <2> QED
    BY <2>1, <2>2 DEF Bookable
<1>4. /\ Form(t)'.cash = Form(t).cash
      /\ \/ Form(t)'.inv = Form(t).inv
         \/ Creating(Form(t)) /\ Form(t)'.inv = Shell(t)
    BY BookForm
<1>5. RowsPresent'
    BY <1>1 DEF Structure, RowsPresent, Present, Emission
<1>6. NamesPresent'
  <2> SUFFICES ASSUME NEW v \in Tickets, NEW i \in {Form(v)'.inv, Form(v)'.cash} \ {None}
               PROVE  i \in Investments /\ investments'[i].present
    BY DEF NamesPresent, Present
  <2>1. CASE v = t /\ i = Shell(t) /\ Creating(Form(t))
    BY <1>1, <2>1, ShellFacts DEF Emission
  <2>2. CASE i \in {Form(v).inv, Form(v).cash}
    BY <1>1, <2>2 DEF Structure, NamesPresent, Present, Emission
  <2>3. v # t => Form(v)' = Form(v)
    BY <1>2 DEF Form
  <2> QED
    BY <1>4, <2>1, <2>2, <2>3
<1>7. ShellOfItsBooking'
  <2> SUFFICES ASSUME NEW v \in Tickets
               PROVE  /\ Status(v)' \notin {"booked", "cancelled"} => ~investments'[Shell(v)].present
                      /\ \A e \in Created(v)' : e.id = Shell(v)
                      /\ Form(v)'.cash # Shell(v)
    BY DEF ShellOfItsBooking
  <2>1. CASE v = t
    BY <1>1, <1>3, <1>4, <2>1 DEF Structure, ShellOfItsBooking, Emission, Created, Of
  <2>2. CASE v # t
    <3>1. Status(v)' = Status(v) /\ Form(v)' = Form(v) /\ Created(v)' = Created(v)
        BY <1>1, <1>2, <2>2 DEF Emission, Status, Form, Created, Of
    <3>2. investments'[Shell(v)].present => investments[Shell(v)].present
        BY <1>1, <2>2, ShellFacts DEF Emission
    <3> QED
        BY <3>1, <3>2 DEF Structure, ShellOfItsBooking
  <2> QED
    BY <2>1, <2>2
<1> QED
    BY <1>5, <1>6, <1>7 DEF Structure

LEMMA RestoredPresence ==
    ASSUME TypeOK, NEW t \in Tickets
    PROVE  \A i \in Investments : /\ Restored(t)[i].present = investments[i].present
                                  /\ Restored(t)[i].rev = investments[i].rev
BY DEF Restored, TypeOK, InvestmentRows

LEMMA ReverseStructure ==
    ASSUME TypeOK, Structure, NEW t \in Tickets, Reverse(t)
    PROVE  Structure'
<1>1. /\ StationMove(tickets[t], tickets'[t])
      /\ \A v \in Tickets \ {t} : tickets'[v] = tickets[v]
    BY StationMoves DEF TicketStep
<1>2. /\ Undo(t) /\ Standing' \subseteq Standing /\ UNCHANGED effects
      /\ ledger' = LedgerWithout(t) /\ flows' = FlowsWithout(t) /\ navs' = NavsWithout(t)
    BY DEF Reverse, ReverseOrder, ReverseAndDelete, ReverseAndRetire, Undo, Standing,
           LedgerWithout, FlowsWithout, NavsWithout
<1>3. Status(t) = "booked" /\ Status(t)' = "cancelled"
    BY <1>1, <1>2 DEF Undo, StationMove, Status, Bookable
<1>4. Form(t) \in DraftForms /\ tickets[t] \in TicketRows
    BY <1>3 DEF TypeOK, Attributed, Status, Form
<1>5. \A u \in Tickets : Created(u)' = Created(u)
    BY <1>2 DEF Created, Of
<1>6. \A u \in Tickets \ {t} : Form(u)' = Form(u) /\ Status(u)' = Status(u)
    BY <1>1 DEF Form, Status
<1>7. ASSUME \A i \in Investments : investments'[i].present = investments[i].present,
             Form(t)' = Form(t)
      PROVE  Structure'
  <2>1. RowsPresent'
    BY <1>2, <1>7 DEF Structure, RowsPresent, Present
  <2>2. NamesPresent'
    BY <1>6, <1>7 DEF Structure, NamesPresent, Present
  <2>3. ShellOfItsBooking'
    BY <1>3, <1>5, <1>6, <1>7, ShellFacts DEF Structure, ShellOfItsBooking
  <2> QED
    BY <2>1, <2>2, <2>3 DEF Structure
<1>8. tickets' = [tickets EXCEPT ![t] = Withdrawn(t)] => Form(t)' = Form(t)
    BY <1>4 DEF Withdrawn, Form, TypeOK, TicketRows
<1>9. CASE ReverseOrder(t)
    BY <1>7, <1>8, <1>9, RestoredPresence DEF ReverseOrder
<1>10. CASE ReverseAndRetire(t)
  <2>1. PICK e \in Created(t) : investments' = Retired(e.id)
    BY <1>10 DEF ReverseAndRetire
  <2>2. e.id \in Investments
    BY ShellFacts DEF Structure, ShellOfItsBooking
  <2> QED
    BY <1>7, <1>8, <1>10, <2>1, <2>2, RetiredPresence DEF ReverseAndRetire
<1>11. CASE ReverseAndDelete(t)
  <2>1. /\ ~HasUserChild(t, Shell(t)) /\ Referencing(t, Shell(t)) = {}
        /\ investments' = [investments EXCEPT ![Shell(t)] = [@ EXCEPT !.present = FALSE]]
    BY <1>11 DEF ReverseAndDelete, Structure, ShellOfItsBooking
  <2>2. \A i \in Investments : investments'[i].present <=> investments[i].present /\ i # Shell(t)
    BY <2>1 DEF TypeOK, InvestmentRows
  <2>3. Form(t)'.inv = None /\ Form(t)'.cash = Form(t).cash
    <3>1. tickets' = [tickets EXCEPT ![t] = [Withdrawn(t) EXCEPT !.form.inv = None]]
        BY <1>11 DEF ReverseAndDelete
    <3>2. DOMAIN Withdrawn(t) = DOMAIN tickets[t] /\ Withdrawn(t).form = Form(t)
        BY <1>4 DEF Withdrawn, Form, TicketRows
    <3>3. [Withdrawn(t) EXCEPT !.form.inv = None].form = [Form(t) EXCEPT !.inv = None]
        BY <1>4, <3>2 DEF TicketRows
    <3>4. Form(t)' = [Form(t) EXCEPT !.inv = None]
        BY <3>1, <3>3 DEF Form, TypeOK
    <3> QED
        BY <1>4, <3>4 DEF DraftForms
  <2>4. RowsPresent'
    <3>1. \A r \in Standing' : r.inv # Shell(t)
        BY <1>2, <2>1 DEF HasUserChild, RowsOf, Standing
    <3> QED
        BY <1>2, <2>2, <3>1 DEF Structure, RowsPresent, Present
  <2>5. NamesPresent'
    <3> SUFFICES ASSUME NEW u \in Tickets, NEW i \in {Form(u)'.inv, Form(u)'.cash} \ {None}
                 PROVE  i \in Investments /\ investments'[i].present
        BY DEF NamesPresent, Present
    <3>1. i \in {Form(u).inv, Form(u).cash}
        BY <1>6, <2>3
    <3>2. i \in Investments /\ investments[i].present
        BY <3>1 DEF Structure, NamesPresent, Present
    <3>3. i # Shell(t)
      <4>1. CASE u = t
        BY <2>3, <4>1 DEF Structure, ShellOfItsBooking
      <4>2. CASE u # t
        BY <2>1, <3>1, <4>2 DEF Referencing
      <4> QED
        BY <4>1, <4>2
    <3> QED
        BY <2>2, <3>2, <3>3
  <2>6. ShellOfItsBooking'
    BY <1>3, <1>5, <1>6, <2>2, <2>3, ShellFacts DEF Structure, ShellOfItsBooking
  <2> QED
    BY <2>4, <2>5, <2>6 DEF Structure
<1> QED
    BY <1>9, <1>10, <1>11 DEF Reverse

LEMMA CrudStructure ==
    ASSUME TypeOK, TypeOK', Structure, LedgerCrud \/ NavCrud \/ FlowCrud \/ InvestmentCrud
    PROVE  Structure'
<1>1. UNCHANGED <<tickets, effects>>
    BY CrudMovesNoTicket
<1>2. ASSUME \A r \in Standing' : Present(r.inv) \/ \E q \in Standing : q.inv = r.inv,
             UNCHANGED investments
      PROVE  Structure'
  <2>1. RowsPresent'
    BY <1>2 DEF Structure, RowsPresent, Present
  <2>2. NamesPresent' /\ ShellOfItsBooking'
    BY <1>1, <1>2 DEF Structure, NamesPresent, ShellOfItsBooking, Present, Status, Form, Created, Of
  <2> QED
    BY <2>1, <2>2 DEF Structure
<1>3. \A i \in CrudTargets : i \in Investments
    BY BoundsAssumption
<1>4. CASE LedgerCrud
  <2>1. UNCHANGED <<flows, navs, investments>>
    BY <1>4 DEF LedgerCrud, AddTxn, UpdateTxn, DeleteTxn
  <2>2. CASE \E id \in UserRows, i \in CrudTargets, day \in Days, units \in TxnUnits :
                AddTxn(id, i, day, units)
    BY <1>2, <2>1, <2>2 DEF AddTxn, Reachable, LedgerRow, Standing
  <2>3. CASE \E r \in ledger, day \in Days, units \in TxnUnits : UpdateTxn(r, day, units)
    <3>1. PICK r \in ledger, day \in Days, units \in TxnUnits :
             ledger' = (ledger \ {r}) \cup {[r EXCEPT !.day = day, !.units = units]}
        BY <2>3 DEF UpdateTxn
    <3>2. [r EXCEPT !.day = day, !.units = units].inv = r.inv
        BY DEF TypeOK, LedgerRows
    <3> QED
        BY <1>2, <2>1, <3>1, <3>2 DEF Standing
  <2>4. CASE \E r \in ledger : DeleteTxn(r)
    BY <1>2, <2>1, <2>4 DEF DeleteTxn, Standing
  <2> QED
    BY <1>4, <2>2, <2>3, <2>4 DEF LedgerCrud
<1>5. CASE NavCrud
  <2>1. UNCHANGED <<ledger, flows, investments>>
    BY <1>5 DEF NavCrud, AddNav, UpdateNav, DeleteNav, book
  <2>2. \A r \in navs' : r \in navs \/ Present(r.inv)
    BY <1>5 DEF NavCrud, AddNav, UpdateNav, DeleteNav, book, NavWritten, NavsAt, Reachable
  <2> QED
    BY <1>2, <2>1, <2>2 DEF Standing
<1>6. CASE FlowCrud
  <2>1. UNCHANGED <<ledger, navs, investments>>
    BY <1>6 DEF FlowCrud, AddFlow, UpdateFlow, DeleteFlow, book
  <2>2. \A r \in flows' : r \in flows \/ Present(r.inv)
    BY <1>6 DEF FlowCrud, AddFlow, UpdateFlow, DeleteFlow, book, Reachable
  <2> QED
    BY <1>2, <2>1, <2>2 DEF Standing
<1>7. CASE InvestmentCrud
  <2>1. PICK i \in CrudTargets :
           \/ \E active \in BOOLEAN : SetActive(i, active)
           \/ \E name \in Names \cup {investments[i].name} : EditInvestment(i, name)
           \/ Retype(i)
           \/ DeleteInvestment(i)
    BY <1>7 DEF InvestmentCrud
  <2>2. CASE DeleteInvestment(i)
    <3>1. /\ Standing' = Standing \ RowsOf(Standing, i) /\ ~NamedByTicket(i)
          /\ investments' = [investments EXCEPT ![i] = [@ EXCEPT !.present = FALSE]]
        BY <2>2 DEF DeleteInvestment, Standing, RowsOf
    <3>2. \A j \in Investments : investments'[j].present <=> investments[j].present /\ j # i
        BY <1>3, <3>1 DEF TypeOK, InvestmentRows
    <3>3. RowsPresent'
        BY <3>1, <3>2 DEF Structure, RowsPresent, Present, RowsOf
    <3>4. NamesPresent'
        BY <1>1, <3>1, <3>2 DEF Structure, NamesPresent, Present, Form, NamedByTicket
    <3>5. ShellOfItsBooking'
        BY <1>1, <3>2, ShellFacts DEF Structure, ShellOfItsBooking, Status, Form, Created, Of
    <3> QED
        BY <3>3, <3>4, <3>5 DEF Structure
  <2>3. CASE ~DeleteInvestment(i)
    <3>1. UNCHANGED <<ledger, flows, navs>>
        BY <2>1, <2>3 DEF SetActive, EditInvestment, Retype
    <3>2. \A j \in Investments : investments'[j].present = investments[j].present
      <4>1. CASE \E active \in BOOLEAN : SetActive(i, active)
        BY <4>1 DEF SetActive, TypeOK, InvestmentRows
      <4>2. CASE \E name \in Names \cup {investments[i].name} : EditInvestment(i, name)
        <5>1. PICK name \in Names \cup {investments[i].name} : EditInvestment(i, name)
            BY <4>2
        <5> QED
            BY <5>1 DEF EditInvestment, TypeOK, InvestmentRows
      <4>3. CASE Retype(i)
        BY <4>3 DEF Retype, TypeOK, InvestmentRows
      <4> QED
        BY <2>1, <2>3, <4>1, <4>2, <4>3
    <3>3. RowsPresent' /\ NamesPresent'
        BY <1>1, <3>1, <3>2 DEF Structure, RowsPresent, NamesPresent, Present, Standing, Form
    <3>4. ShellOfItsBooking'
        BY <1>1, <3>2, ShellFacts DEF Structure, ShellOfItsBooking, Status, Form, Created, Of
    <3> QED
        BY <3>3, <3>4 DEF Structure
  <2> QED
    BY <2>2, <2>3
<1> QED
    BY <1>4, <1>5, <1>6, <1>7

LEMMA StructureHolds == Spec => []Structure
<1>1. Init => Structure
  <2> SUFFICES ASSUME Init PROVE Structure
    OBVIOUS
  <2>1. RowsPresent
    BY OpeningAssumption, IdsAssumption
       DEF Init, RowsPresent, Standing, Present, AtStart, Investments
  <2>2. NamesPresent
    BY DEF Init, NamesPresent, Form, NoForm
  <2>3. ShellOfItsBooking
    BY ShellFacts DEF Init, ShellOfItsBooking, AtStart, Shells, Created, Of, Form, NoForm
  <2> QED
    BY <2>1, <2>2, <2>3 DEF Structure
<1>2. TypeOK /\ TypeOK' /\ Structure /\ [Next]_vars => Structure'
  <2> SUFFICES ASSUME TypeOK, TypeOK', Structure, [Next]_vars PROVE Structure'
    OBVIOUS
  <2>1. CASE \E t \in Tickets : TicketStep(t)
    BY <2>1, MovesStructure, BookStructure, ReverseStructure DEF TicketStep
  <2>2. CASE LedgerCrud \/ NavCrud \/ FlowCrud \/ InvestmentCrud
    BY <2>2, CrudStructure
  <2>3. CASE UNCHANGED vars
    <3>1. UNCHANGED <<tickets, effects, ledger, flows, navs, investments>>
        BY <2>3 DEF vars
    <3> QED
        BY <3>1 DEF Structure, RowsPresent, NamesPresent, ShellOfItsBooking,
                    Standing, Present, Form, Status, Created, Of
  <2> QED
    BY <2>1, <2>2, <2>3 DEF Next
<1> QED
    BY <1>1, <1>2, TypeCorrect, PTL DEF Spec

\* No row of the book and no ticket ever names an investment that is gone.
THEOREM NothingDangles == Spec => []NothingNamesTheDeleted
<1>1. Structure => NothingNamesTheDeleted
    BY DEF Structure, RowsPresent, NamesPresent, NothingNamesTheDeleted
<1> QED
    BY <1>1, StructureHolds, PTL

-----------------------------------------------------------------------------
(* Effects are the ticket's own rows.                                      *)

LEMMA EffectsAreOwnKept ==
    TypeOK /\ Structure /\ EffectsAreOwn /\ [Next]_vars => EffectsAreOwn'
<1> SUFFICES ASSUME TypeOK, Structure, EffectsAreOwn, [Next]_vars,
                    NEW t \in Tickets, Status(t)' = "booked",
                    NEW e \in effects'[t], e.type # "investment_update"
             PROVE  e.id \in OwnRows(t)
    BY DEF EffectsAreOwn, BookedTickets
<1>1. ASSUME Status(t) = "booked", effects'[t] = effects[t]
      PROVE  e.id \in OwnRows(t)
    BY <1>1 DEF EffectsAreOwn, BookedTickets
<1>2. ASSUME NEW s \in Tickets, TicketStep(s)
      PROVE  e.id \in OwnRows(t)
  <2>1. /\ StationMove(tickets[s], tickets'[s])
        /\ \A u \in Tickets \ {s} : tickets'[u] = tickets[u]
    BY <1>2, StationMoves
  <2>2. CASE \E u \in Users : Book(s, u)
    <3>1. Emission(s)
        BY <2>2, BookEmits
    <3>2. CASE s = t
        BY <3>1, <3>2 DEF Emission
    <3>3. CASE s # t
        BY <1>1, <2>1, <3>1, <3>3 DEF Emission, Status
    <3> QED
        BY <3>2, <3>3
  <2>3. CASE ~\E u \in Users : Book(s, u)
    <3>1. UNCHANGED effects
        BY <1>2, <2>3 DEF TicketStep, CreateDraft, UpdateDraft, Propose, Cancel,
                          Reverse, ReverseOrder, ReverseAndDelete, ReverseAndRetire, Undo
    <3>2. Status(s)' # "booked"
      <4>1. CASE Reverse(s)
        <5>1. Status(s) = "booked"
            BY <4>1 DEF Reverse, ReverseOrder, ReverseAndDelete, ReverseAndRetire, Undo
        <5> QED
            BY <2>1, <5>1 DEF StationMove, Status, Bookable
      <4>2. CASE ~Reverse(s)
        BY <1>2, <2>3, <4>2 DEF TicketStep, CreateDraft, UpdateDraft, Propose, Cancel,
                                Status, TypeOK, TicketRows
      <4> QED
        BY <4>1, <4>2
    <3> QED
        BY <1>1, <2>1, <3>1, <3>2 DEF Status
  <2> QED
    BY <2>2, <2>3
<1>3. CASE LedgerCrud \/ NavCrud \/ FlowCrud \/ InvestmentCrud
    BY <1>1, <1>3, CrudMovesNoTicket DEF Status
<1>4. CASE UNCHANGED vars
    BY <1>1, <1>4 DEF vars, Status
<1> QED
    BY <1>2, <1>3, <1>4 DEF Next

\* The effects of a booked ticket name only rows its own booking inserted.
THEOREM EffectsOwned == Spec => []EffectsAreOwn
<1>1. Init => EffectsAreOwn
    BY DEF Init, EffectsAreOwn, BookedTickets, Status
<1> QED
    BY <1>1, EffectsAreOwnKept, TypeCorrect, StructureHolds, PTL DEF Spec

-----------------------------------------------------------------------------
(* A reversal removes exactly its booking, and nothing anybody has edited.  *)

\* An edit of a row a booking inserted is one its reversal would find.
EditsCounted ==
    \A t \in Tickets : \A x \in edited \cap OwnRows(t) :
        /\ Status(t) \in {"booked", "cancelled"}
        /\ Status(t) = "booked" => <<t, x>> \in modified

LEMMA CrudEdits ==
    ASSUME LedgerCrud \/ NavCrud \/ FlowCrud \/ InvestmentCrud
    PROVE  \/ UNCHANGED <<modified, edited>>
           \/ \E x : /\ Edits(x)
                     /\ x \in CrudTargets \/ \E r \in Standing : r.id = x
<1>1. CASE LedgerCrud
    BY <1>1 DEF LedgerCrud, AddTxn, UpdateTxn, DeleteTxn, EditsNothing, Standing
<1>2. CASE NavCrud
  <2>1. CASE \E id \in UserRows, i \in CrudTargets, day \in Days : AddNav(id, i, day)
    <3>1. PICK id \in UserRows, i \in CrudTargets, day \in Days : AddNav(id, i, day)
        BY <2>1
    <3>2. UNCHANGED <<modified, edited>> \/ \E n \in NavsAt(i, day) : Edits(n.id)
        BY <3>1 DEF AddNav, EditsNothing
    <3> QED
        BY <3>2 DEF NavsAt, Standing
  <2>2. CASE \E n \in navs : UpdateNav(n) \/ DeleteNav(n)
    BY <2>2 DEF UpdateNav, DeleteNav, EditsNothing, Standing
  <2> QED
    BY <1>2, <2>1, <2>2 DEF NavCrud
<1>3. CASE FlowCrud
    BY <1>3 DEF FlowCrud, AddFlow, UpdateFlow, DeleteFlow, EditsNothing, Standing
<1>4. CASE InvestmentCrud
    BY <1>4 DEF InvestmentCrud, SetActive, EditInvestment, Retype, DeleteInvestment, EditsNothing
<1> QED
    BY <1>1, <1>2, <1>3, <1>4

\* What the audit log shows of a ticket is only ever dropped by its reversal.
LEMMA TicketStepsKeepAudit ==
    ASSUME TypeOK, NEW t \in Tickets, TicketStep(t)
    PROVE  /\ UNCHANGED edited
           /\ \A m \in modified : m[1] # t => m \in modified'
           /\ ~Reverse(t) => modified \subseteq modified'
<1>1. CASE Reverse(t)
    BY <1>1 DEF Reverse, ReverseOrder, ReverseAndDelete, ReverseAndRetire, Undo,
                TouchInReversal, Touch
<1>2. CASE \E u \in Users : Book(t, u)
    BY <1>2 DEF Book, EmitOrder, EmitNewOrder, EmitCommitment, EmitSecondarySell,
                EmitSecondaryBuy, Touch
<1>3. CASE ~Reverse(t) /\ ~\E u \in Users : Book(t, u)
    BY <1>3 DEF TicketStep, CreateDraft, UpdateDraft, Propose, Cancel
<1> QED
    BY <1>1, <1>2, <1>3

LEMMA ReverseMoves ==
    ASSUME TypeOK, NEW t \in Tickets, TicketStep(t), Status(t) = "booked"
    PROVE  Reverse(t)
BY DEF TicketStep, CreateDraft, UpdateDraft, Propose, Cancel, Book, Bookable, Cancellable

LEMMA EditsCountedKept ==
    TypeOK /\ EmissionsEnumerated /\ EditsCounted /\ [Next]_vars => EditsCounted'
<1> SUFFICES ASSUME TypeOK, EmissionsEnumerated, EditsCounted, [Next]_vars,
                    NEW t \in Tickets, NEW x \in edited' \cap OwnRows(t)
             PROVE  /\ Status(t)' \in {"booked", "cancelled"}
                    /\ Status(t)' = "booked" => <<t, x>> \in modified'
    BY DEF EditsCounted
<1>1. ASSUME x \in edited, UNCHANGED tickets, modified \subseteq modified'
      PROVE  /\ Status(t)' \in {"booked", "cancelled"}
             /\ Status(t)' = "booked" => <<t, x>> \in modified'
    BY <1>1 DEF EditsCounted, Status
<1>2. ASSUME NEW s \in Tickets, TicketStep(s)
      PROVE  /\ Status(t)' \in {"booked", "cancelled"}
             /\ Status(t)' = "booked" => <<t, x>> \in modified'
  <2>1. /\ StationMove(tickets[s], tickets'[s])
        /\ \A u \in Tickets \ {s} : tickets'[u] = tickets[u]
    BY <1>2, StationMoves
  <2>2. x \in edited /\ \A m \in modified : m[1] # s => m \in modified'
    BY <1>2, TicketStepsKeepAudit
  <2>3. Status(t) \in {"booked", "cancelled"} /\ (Status(t) = "booked" => <<t, x>> \in modified)
    BY <2>2 DEF EditsCounted
  <2>4. CASE s # t
    BY <2>1, <2>2, <2>3, <2>4 DEF Status
  <2>5. CASE s = t
    BY <2>1, <2>3, <2>5 DEF StationMove, Status, Bookable, Cancellable
  <2> QED
    BY <2>4, <2>5
<1>3. CASE LedgerCrud \/ NavCrud \/ FlowCrud \/ InvestmentCrud
  <2>1. UNCHANGED <<tickets, effects>>
    BY <1>3, CrudMovesNoTicket
  <2>2. CASE UNCHANGED <<modified, edited>>
    BY <1>1, <2>1, <2>2
  <2>3. CASE \E y : Edits(y) /\ (y \in CrudTargets \/ \E r \in Standing : r.id = y)
    <3>1. PICK y : Edits(y) /\ (y \in CrudTargets \/ \E r \in Standing : r.id = y)
        BY <2>3
    <3>2. modified' = Touch({y}) /\ edited' = edited \cup {y} /\ modified \subseteq modified'
        BY <3>1 DEF Edits, Touch
    <3>3. CASE x = y
      <4>1. x \notin CrudTargets
        BY IdsAssumption, BoundsAssumption DEF OwnRows, RowIds
      <4>2. PICK r \in Standing : r.id = x
        BY <3>1, <3>3, <4>1
      <4>3. Status(t) = "booked" /\ \E type : Effect(type, x, None) \in effects[t]
        BY <4>2 DEF EmissionsEnumerated, EnumeratedIn, EmittedBy, Standing
      <4>4. x \in EffectIds(effects[t])
        BY <4>3 DEF EffectIds, Effect
      <4>5. <<t, x>> \in Tickets \X (RowIds \cup Investments)
        BY DEF OwnRows, RowIds
      <4>6. <<t, x>> \in Touch({y})
        BY <3>3, <4>3, <4>4 DEF Touch, Status
      <4> QED
        BY <2>1, <3>2, <4>3, <4>6 DEF Status
    <3>4. CASE x # y
        BY <1>1, <2>1, <3>2, <3>4
    <3> QED
        BY <3>3, <3>4
  <2> QED
    BY <1>3, <2>2, <2>3, CrudEdits
<1>4. CASE UNCHANGED vars
    BY <1>1, <1>4 DEF vars
<1> QED
    BY <1>2, <1>3, <1>4 DEF Next

LEMMA EditsCountedHolds == Spec => []EditsCounted
<1>1. Init => EditsCounted
    BY DEF Init, EditsCounted
<1> QED
    BY <1>1, EditsCountedKept, TypeCorrect, EffectsEnumerateTheEmission, PTL DEF Spec

LEMMA EnumeratedRow ==
    ASSUME NEW rows, NEW type, EnumeratedIn(rows, type), NEW t \in Tickets,
           NEW r \in rows, r.id \in OwnRows(t)
    PROVE  r.id \in EffectIds(Of(t, type))
<1>1. Effect(type, r.id, None) \in effects[t]
    BY DEF EnumeratedIn, EmittedBy
<1> QED
    BY <1>1 DEF EffectIds, Of, Effect

LEMMA ReversalRemovesItsOwn ==
    ASSUME TypeOK, EmissionsEnumerated, EffectsAreOwn, NEW t \in Tickets, Reverse(t)
    PROVE  Standing \ Standing' = EmittedBy(Standing, t) /\ Standing' \subseteq Standing
<1>1. /\ Status(t) = "booked" /\ Untouched(t)
      /\ ledger' = LedgerWithout(t) /\ flows' = FlowsWithout(t) /\ navs' = NavsWithout(t)
    BY DEF Reverse, ReverseOrder, ReverseAndDelete, ReverseAndRetire, Undo
<1>2. Standing' \subseteq Standing
    BY <1>1 DEF Standing, LedgerWithout, FlowsWithout, NavsWithout
<1>3. ASSUME NEW r \in Standing \ Standing' PROVE r \in EmittedBy(Standing, t)
  <2>1. \/ r.id \in EffectIds(Of(t, "position_txn"))
        \/ r.id \in EffectIds(Of(t, "cashflow"))
        \/ r.id \in EffectIds(Of(t, "nav"))
    BY <1>1 DEF Standing, LedgerWithout, FlowsWithout, NavsWithout
  <2>2. \E e \in effects[t] : e.id = r.id /\ e.type # "investment_update"
    BY <2>1 DEF EffectIds, Of
  <2> QED
    BY <1>1, <2>2 DEF EffectsAreOwn, BookedTickets, EmittedBy
<1>4. ASSUME NEW r \in EmittedBy(Standing, t) PROVE r \in Standing \ Standing'
  <2>1. r \in Standing /\ r.id \in OwnRows(t)
    BY DEF EmittedBy
  <2>2. r \notin LedgerWithout(t)
    BY <2>1, EnumeratedRow DEF EmissionsEnumerated, LedgerWithout
  <2>3. r \notin FlowsWithout(t)
    BY <2>1, EnumeratedRow DEF EmissionsEnumerated, FlowsWithout
  <2>4. r \notin NavsWithout(t)
    BY <2>1, EnumeratedRow DEF EmissionsEnumerated, NavsWithout
  <2> QED
    BY <1>1, <2>1, <2>2, <2>3, <2>4 DEF Standing
<1> QED
    BY <1>2, <1>3, <1>4

\* A step that withdraws a booked ticket removes exactly the rows its booking
\* inserted, and none that anybody has edited since.
THEOREM ReversalIsExact == Spec => ReversalSparesEdits
<1>1. TypeOK /\ EmissionsEnumerated /\ EffectsAreOwn /\ EditsCounted /\ [Next]_vars
          => [\A t \in Tickets : Status(t) = "booked" /\ Status(t)' # "booked"
                                    => WithdrawalIsExact(t)]_vars
  <2> SUFFICES ASSUME TypeOK, EmissionsEnumerated, EffectsAreOwn, EditsCounted, [Next]_vars,
                      NEW t \in Tickets, Status(t) = "booked", Status(t)' # "booked"
               PROVE  WithdrawalIsExact(t)
    OBVIOUS
  <2>1. tickets'[t] # tickets[t]
    BY DEF Status
  <2>2. PICK s \in Tickets : TicketStep(s)
    BY <2>1, CrudMovesNoTicket DEF Next, vars
  <2>3. Reverse(t)
    BY <2>1, <2>2, StationMoves, ReverseMoves
  <2>4. Standing \ Standing' = EmittedBy(Standing, t) /\ Standing' \subseteq Standing
    BY <2>3, ReversalRemovesItsOwn
  <2>5. ASSUME NEW r \in EmittedBy(Standing, t) PROVE r.id \notin edited
    <3>1. r.id \in OwnRows(t) /\ \E type : Effect(type, r.id, None) \in effects[t]
        BY DEF EmittedBy, EmissionsEnumerated, EnumeratedIn, Standing
    <3>2. Untouched(t)
        BY <2>3 DEF Reverse, ReverseOrder, ReverseAndDelete, ReverseAndRetire, Undo
    <3>3. <<t, r.id>> \notin modified
        BY <3>1, <3>2 DEF Untouched, Effect
    <3> QED
        BY <3>1, <3>3 DEF EditsCounted
  <2> QED
    BY <2>4, <2>5 DEF WithdrawalIsExact
<1> QED
    BY <1>1, TypeCorrect, EffectsEnumerateTheEmission, EffectsOwned, EditsCountedHolds, PTL
       DEF Spec, ReversalSparesEdits

-----------------------------------------------------------------------------
(* A before-image can always be restored.                                  *)

\* The one investment a booking's effects name is the one its ticket names.
UpdatesNamed ==
    \A t \in BookedTickets : \A e \in Of(t, "investment_update") :
        e.id \in Investments /\ e.id = Form(t).inv

\* Where the audit log shows no later UPDATE, the row is at the revision its
\* before-image recorded.
ImagesCurrent ==
    \A t \in BookedTickets : \A e \in Updated(t) :
        <<t, e.id>> \in modified \/ investments[e.id].rev = e.prior.rev

LEMMA NamedInvestmentStands ==
    ASSUME Structure, UpdatesNamed, NEW t \in BookedTickets, NEW e \in Of(t, "investment_update")
    PROVE  Present(e.id)
<1>1. e.id \in Investments /\ e.id = Form(t).inv /\ t \in Tickets
    BY DEF UpdatesNamed, BookedTickets
<1>2. e.id # None
    BY <1>1, IdsAssumption
<1> QED
    BY <1>1, <1>2 DEF Structure, NamesPresent

\* Any step but t's own booking leaves a ticket that is booked afterwards with
\* the form and the effects it had.
LEMMA BookedBefore ==
    ASSUME TypeOK, Structure, [Next]_vars, NEW t \in Tickets, Status(t)' = "booked"
    PROVE  \/ \E u \in Users : Book(t, u)
           \/ Status(t) = "booked" /\ Form(t)' = Form(t) /\ UNCHANGED effects[t]
<1>1. ASSUME NEW s \in Tickets, TicketStep(s), s # t
      PROVE  Status(t) = "booked" /\ Form(t)' = Form(t) /\ UNCHANGED effects[t]
  <2>1. tickets'[t] = tickets[t]
    BY <1>1, StationMoves
  <2>2. UNCHANGED effects[t]
    <3>1. CASE \E u \in Users : Book(s, u)
        BY <1>1, <3>1, BookEmits DEF Emission
    <3>2. CASE ~\E u \in Users : Book(s, u)
        BY <1>1, <3>2 DEF TicketStep, CreateDraft, UpdateDraft, Propose, Cancel,
                          Reverse, ReverseOrder, ReverseAndDelete, ReverseAndRetire, Undo
    <3> QED
        BY <3>1, <3>2
  <2> QED
    BY <2>1, <2>2 DEF Status, Form
<1>2. ASSUME TicketStep(t) PROVE \E u \in Users : Book(t, u)
  <2>1. StationMove(tickets[t], tickets'[t]) /\ Status(t) # "booked"
    BY <1>2, StationMoves DEF StationMove, Status, Bookable
  <2>2. ~Reverse(t)
    BY <2>1 DEF Reverse, ReverseOrder, ReverseAndDelete, ReverseAndRetire, Undo
  <2> QED
    BY <1>2, <2>2 DEF TicketStep, CreateDraft, UpdateDraft, Propose, Cancel,
                      Status, TypeOK, TicketRows
<1>3. CASE LedgerCrud \/ NavCrud \/ FlowCrud \/ InvestmentCrud
    BY <1>3, CrudMovesNoTicket DEF Status, Form
<1>4. CASE UNCHANGED vars
    BY <1>4 DEF vars, Status, Form
<1> QED
    BY <1>1, <1>2, <1>3, <1>4 DEF Next

LEMMA UpdatesNamedKept ==
    TypeOK /\ Structure /\ UpdatesNamed /\ [Next]_vars => UpdatesNamed'
<1> SUFFICES ASSUME TypeOK, Structure, UpdatesNamed, [Next]_vars,
                    NEW t \in Tickets, Status(t)' = "booked",
                    NEW e \in effects'[t], e.type = "investment_update"
             PROVE  e.id \in Investments /\ e.id = Form(t)'.inv
    BY DEF UpdatesNamed, BookedTickets, Of
<1>1. ASSUME NEW u \in Users, Book(t, u) PROVE e.id \in Investments /\ e.id = Form(t)'.inv
    BY <1>1, BookEmits, BookForm DEF Emission
<1>2. CASE Status(t) = "booked" /\ Form(t)' = Form(t) /\ UNCHANGED effects[t]
    BY <1>2 DEF UpdatesNamed, BookedTickets, Of
<1> QED
    BY <1>1, <1>2, BookedBefore

LEMMA UpdatesNamedHolds == Spec => []UpdatesNamed
<1>1. Init => UpdatesNamed
    BY DEF Init, UpdatesNamed, BookedTickets, Status
<1> QED
    BY <1>1, UpdatesNamedKept, TypeCorrect, StructureHolds, PTL DEF Spec

\* No investment that a booked ticket's effects name is gone.
TouchedInvestmentsStand ==
    \A t \in BookedTickets : \A e \in Of(t, "investment_update") : Present(e.id)

\* The investments a booked ticket's effects name still stand, so a reversal is
\* never refused as consumed for their sake.
THEOREM TouchedStand == Spec => []TouchedInvestmentsStand
<1>1. Structure /\ UpdatesNamed => TouchedInvestmentsStand
    BY NamedInvestmentStands DEF TouchedInvestmentsStand
<1> QED
    BY <1>1, StructureHolds, UpdatesNamedHolds, PTL

\* A reversal restates is_active or deletes the row, and no other column.
LEMMA ReverseKeepsRevisions ==
    ASSUME TypeOK, Structure, NEW t \in Tickets, Reverse(t)
    PROVE  \A i \in Investments : investments'[i].rev = investments[i].rev
<1>1. \A e \in Created(t) : e.id \in Investments
    BY ShellFacts DEF Structure, ShellOfItsBooking
<1>2. CASE ReverseOrder(t)
    BY <1>2, RestoredPresence DEF ReverseOrder
<1>3. CASE ReverseAndDelete(t)
  <2>1. PICK i \in Investments : investments' = [investments EXCEPT ![i] = [@ EXCEPT !.present = FALSE]]
    BY <1>1, <1>3 DEF ReverseAndDelete
  <2> QED
    BY <2>1 DEF TypeOK, InvestmentRows
<1>4. CASE ReverseAndRetire(t)
    BY <1>1, <1>4, RetiredPresence DEF ReverseAndRetire
<1> QED
    BY <1>2, <1>3, <1>4 DEF Reverse

\* The CRUD changes a revision only by an UPDATE the audit log shows.
LEMMA CrudRevisions ==
    ASSUME TypeOK, LedgerCrud \/ NavCrud \/ FlowCrud \/ InvestmentCrud, NEW i \in Investments
    PROVE  investments'[i].rev = investments[i].rev \/ modified' = Touch({i})
<1>1. CASE LedgerCrud \/ NavCrud \/ FlowCrud
    BY <1>1 DEF LedgerCrud, AddTxn, UpdateTxn, DeleteTxn, NavCrud, AddNav, UpdateNav, DeleteNav,
                FlowCrud, AddFlow, UpdateFlow, DeleteFlow, book
<1>2. CASE InvestmentCrud
  <2>1. PICK j \in CrudTargets :
           \/ \E active \in BOOLEAN : SetActive(j, active)
           \/ \E name \in Names \cup {investments[j].name} : EditInvestment(j, name)
           \/ Retype(j)
           \/ DeleteInvestment(j)
    BY <1>2 DEF InvestmentCrud
  <2>2. j \in Investments
    BY BoundsAssumption
  <2>3. i # j => investments'[i] = investments[i]
    BY <2>1, <2>2 DEF SetActive, EditInvestment, Retype, DeleteInvestment, TypeOK
  <2>4. CASE DeleteInvestment(j)
    BY <2>2, <2>3, <2>4 DEF DeleteInvestment, TypeOK, InvestmentRows
  <2>5. CASE ~DeleteInvestment(j)
    BY <2>1, <2>3, <2>5 DEF SetActive, EditInvestment, Retype, Edits
  <2> QED
    BY <2>4, <2>5
<1> QED
    BY <1>1, <1>2

LEMMA ImagesCurrentKept ==
    TypeOK /\ Structure /\ UpdatesNamed /\ ImagesCurrent /\ [Next]_vars => ImagesCurrent'
<1> SUFFICES ASSUME TypeOK, Structure, UpdatesNamed, ImagesCurrent, [Next]_vars,
                    NEW t \in Tickets, Status(t)' = "booked", NEW e \in effects'[t],
                    e.type = "investment_update", e.prior # None
             PROVE  <<t, e.id>> \in modified' \/ investments'[e.id].rev = e.prior.rev
    BY DEF ImagesCurrent, BookedTickets, Updated, Of
<1>1. CASE \E u \in Users : Book(t, u)
    BY <1>1, BookEmits DEF Emission
<1>2. CASE Status(t) = "booked" /\ UNCHANGED effects[t]
  <2>1. t \in BookedTickets /\ e \in Of(t, "investment_update") /\ e \in Updated(t)
    BY <1>2 DEF BookedTickets, Updated, Of
  <2>2. e.id \in Investments /\ investments[e.id].present
    BY <2>1, NamedInvestmentStands DEF Present
  <2>3. <<t, e.id>> \in modified \/ investments[e.id].rev = e.prior.rev
    BY <2>1 DEF ImagesCurrent
  <2>4. CASE LedgerCrud \/ NavCrud \/ FlowCrud \/ InvestmentCrud
    <3>1. modified \subseteq modified'
        BY <2>4, CrudEdits DEF Edits, Touch
    <3>2. CASE modified' = Touch({e.id})
        BY <1>2, <2>1, <3>2 DEF Touch, Status, EffectIds, Of
    <3> QED
        BY <2>2, <2>3, <2>4, <3>1, <3>2, CrudRevisions
  <2>5. ASSUME NEW s \in Tickets, TicketStep(s)
        PROVE  <<t, e.id>> \in modified' \/ investments'[e.id].rev = e.prior.rev
    <3>1. s # t
        BY <1>2, <2>5, ReverseMoves, StationMoves
           DEF Reverse, ReverseOrder, ReverseAndDelete, ReverseAndRetire, Undo, StationMove,
               Status, Bookable
    <3>2. <<t, e.id>> \in modified => <<t, e.id>> \in modified'
        BY <2>5, <3>1, TicketStepsKeepAudit
    <3>3. investments'[e.id].rev = investments[e.id].rev
      <4>1. CASE \E u \in Users : Book(s, u)
        <5>1. Emission(s) /\ Status(s) \in Bookable
            BY <4>1, BookEmits DEF Book
        <5>2. e.id # Shell(s)
            BY <2>2, <5>1 DEF Structure, ShellOfItsBooking, Bookable
        <5> QED
            BY <2>2, <5>1, <5>2 DEF Emission
      <4>2. CASE Reverse(s)
        BY <2>2, <4>2, ReverseKeepsRevisions
      <4>3. CASE ~Reverse(s) /\ ~\E u \in Users : Book(s, u)
        BY <2>5, <4>3 DEF TicketStep, CreateDraft, UpdateDraft, Propose, Cancel, book
      <4> QED
        BY <4>1, <4>2, <4>3
    <3> QED
        BY <2>3, <3>2, <3>3
  <2>6. CASE UNCHANGED vars
    BY <2>3, <2>6 DEF vars
  <2> QED
    BY <2>4, <2>5, <2>6 DEF Next
<1> QED
    BY <1>1, <1>2, BookedBefore

LEMMA ImagesCurrentHolds == Spec => []ImagesCurrent
<1>1. Init => ImagesCurrent
    BY DEF Init, ImagesCurrent, BookedTickets, Status
<1> QED
    BY <1>1, ImagesCurrentKept, TypeCorrect, StructureHolds, UpdatesNamedHolds, PTL DEF Spec

\* A booking that passes the touched-row check finds every before-image still
\* describing its row: the refusal "unrestorable" behind it is never reached.
THEOREM AlwaysRestorable == Spec => []NeverUnrestorable
<1>1. ImagesCurrent => NeverUnrestorable
    BY DEF ImagesCurrent, NeverUnrestorable, Untouched, Restorable, Updated, Of, BookedTickets
<1> QED
    BY <1>1, ImagesCurrentHolds, PTL

-----------------------------------------------------------------------------
(* The refinement of TicketLifecycle.                                      *)

stations == [t \in Tickets |-> Status(t)]
emitting == {t \in Tickets : EmittedBy(Standing, t) # {}}

LEMMA LifecycleInit == Init => Lifecycle!Init
<1> SUFFICES ASSUME Init PROVE Lifecycle!Init
    OBVIOUS
<1>1. stations \in [Tickets -> {"none", "draft"}]
    BY DEF Init, stations, Status
<1>2. \A t \in Tickets : EmittedBy(Standing, t) = {}
    BY OwnRowsApart, OpeningAssumption DEF Init, EmittedBy, Standing
<1> QED
    BY <1>1, <1>2 DEF Lifecycle!Init, stations

\* A step of t that moves its status alone.
LEMMA StationsMove ==
    ASSUME NEW t \in Tickets, \A u \in Tickets \ {t} : Status(u)' = Status(u)
    PROVE  stations' = [stations EXCEPT ![t] = Status(t)']
BY DEF stations

\* A row of a booking belongs to an investment its ticket names, so the delete
\* of an investment, which no ticket may name, takes no such row with it.
NamedEmission ==
    \A t \in Tickets : \A r \in EmittedBy(Standing, t) : r.inv \in {Form(t).inv, Form(t).cash}

LEMMA EmittersAreBooked ==
    ASSUME EmissionsEnumerated, NEW t \in Tickets, Status(t) # "booked"
    PROVE  EmittedBy(Standing, t) = {}
BY DEF EmissionsEnumerated, EnumeratedIn, EmittedBy, Standing

LEMMA CrudRows ==
    ASSUME TypeOK, LedgerCrud \/ NavCrud \/ FlowCrud \/ InvestmentCrud
    PROVE  \A r \in Standing' :
               r.id \in UserRows \/ \E q \in Standing : q.id = r.id /\ q.inv = r.inv
<1>1. CASE LedgerCrud
  <2>1. UNCHANGED <<flows, navs>>
    BY <1>1 DEF LedgerCrud, AddTxn, UpdateTxn, DeleteTxn
  <2>2. ASSUME NEW id \in UserRows, NEW i, NEW day, NEW units, AddTxn(id, i, day, units)
        PROVE  \A r \in ledger' : r.id \in UserRows \/ r \in ledger
    BY <2>2 DEF AddTxn, LedgerRow
  <2>3. ASSUME NEW r \in ledger, NEW day, NEW units, UpdateTxn(r, day, units)
        PROVE  \A q \in ledger' : q \in ledger \/ (q.id = r.id /\ q.inv = r.inv)
    <3>1. [r EXCEPT !.day = day, !.units = units].inv = r.inv
        BY DEF TypeOK, LedgerRows
    <3>2. [r EXCEPT !.day = day, !.units = units].id = r.id
        BY DEF TypeOK, LedgerRows
    <3> QED
        BY <2>3, <3>1, <3>2 DEF UpdateTxn
  <2>4. ASSUME NEW r \in ledger, DeleteTxn(r) PROVE ledger' \subseteq ledger
    BY <2>4 DEF DeleteTxn
  <2>5. \A r \in ledger' :
            r.id \in UserRows \/ \E q \in ledger : q.id = r.id /\ q.inv = r.inv
    BY <1>1, <2>2, <2>3, <2>4 DEF LedgerCrud
  <2> QED
    BY <2>1, <2>5 DEF Standing
<1>2. CASE NavCrud
  <2>1. UNCHANGED <<ledger, flows>>
    BY <1>2 DEF NavCrud, AddNav, UpdateNav, DeleteNav, book
  <2>2. \A r \in navs' : r.id \in UserRows \/ r \in navs
    BY <1>2 DEF NavCrud, AddNav, UpdateNav, DeleteNav, book, NavWritten, NavsAt
  <2> QED
    BY <2>1, <2>2 DEF Standing
<1>3. CASE FlowCrud
  <2>1. UNCHANGED <<ledger, navs>>
    BY <1>3 DEF FlowCrud, AddFlow, UpdateFlow, DeleteFlow, book
  <2>2. \A r \in flows' : r.id \in UserRows \/ r \in flows
    BY <1>3 DEF FlowCrud, AddFlow, UpdateFlow, DeleteFlow, book
  <2> QED
    BY <2>1, <2>2 DEF Standing
<1>4. CASE InvestmentCrud
  <2>1. Standing' \subseteq Standing
    BY <1>4 DEF InvestmentCrud, SetActive, EditInvestment, Retype, DeleteInvestment, Standing
  <2> QED
    BY <2>1
<1> QED
    BY <1>1, <1>2, <1>3, <1>4

LEMMA CrudKeeps ==
    ASSUME TypeOK, LedgerCrud \/ NavCrud \/ FlowCrud \/ InvestmentCrud
    PROVE  \/ \A r \in Standing : \E q \in Standing' : q.id = r.id
           \/ \E x \in Standing : Standing \ {x} \subseteq Standing'
           \/ \E i : ~NamedByTicket(i) /\ \A r \in Standing : r.inv # i => r \in Standing'
<1>1. CASE LedgerCrud
  <2>1. UNCHANGED <<flows, navs>>
    BY <1>1 DEF LedgerCrud, AddTxn, UpdateTxn, DeleteTxn
  <2>2. CASE \E id \in UserRows, i \in CrudTargets, day \in Days, units \in TxnUnits :
                AddTxn(id, i, day, units)
    BY <2>1, <2>2 DEF AddTxn, Standing
  <2>3. CASE \E r \in ledger, day \in Days, units \in TxnUnits : UpdateTxn(r, day, units)
    <3>1. PICK r \in ledger, day \in Days, units \in TxnUnits :
             ledger' = (ledger \ {r}) \cup {[r EXCEPT !.day = day, !.units = units]}
        BY <2>3 DEF UpdateTxn
    <3>2. [r EXCEPT !.day = day, !.units = units].id = r.id
        BY DEF TypeOK, LedgerRows
    <3> QED
        BY <2>1, <3>1, <3>2 DEF Standing
  <2>4. CASE \E r \in ledger : DeleteTxn(r)
    BY <2>1, <2>4 DEF DeleteTxn, Standing
  <2> QED
    BY <1>1, <2>2, <2>3, <2>4 DEF LedgerCrud
<1>2. CASE NavCrud
    BY <1>2 DEF NavCrud, AddNav, UpdateNav, DeleteNav, book, Standing
<1>3. CASE FlowCrud
    BY <1>3 DEF FlowCrud, AddFlow, UpdateFlow, DeleteFlow, book, Standing
<1>4. CASE InvestmentCrud
    BY <1>4 DEF InvestmentCrud, SetActive, EditInvestment, Retype, DeleteInvestment,
                Standing, RowsOf
<1> QED
    BY <1>1, <1>2, <1>3, <1>4

LEMMA OthersKeepTheirRows ==
    ASSUME TypeOK, Structure, EmissionsEnumerated, EffectsAreOwn,
           NEW t \in Tickets, TicketStep(t)
    PROVE  /\ \A u \in Tickets \ {t} : EmittedBy(Standing, u)' = EmittedBy(Standing, u)
           /\ Reverse(t) => EmittedBy(Standing, t)' = {}
           /\ ~Reverse(t) /\ ~(\E u \in Users : Book(t, u)) => UNCHANGED Standing
<1>1. CASE Reverse(t)
  <2>1. Standing \ Standing' = EmittedBy(Standing, t) /\ Standing' \subseteq Standing
    BY <1>1, ReversalRemovesItsOwn
  <2> QED
    BY <1>1, <2>1, OwnRowsApart DEF EmittedBy
<1>2. CASE \E u \in Users : Book(t, u)
  <2>1. Emission(t)
    BY <1>2, BookEmits
  <2>2. ~Reverse(t)
    BY <1>2 DEF Book, Bookable, Reverse, ReverseOrder, ReverseAndDelete, ReverseAndRetire, Undo
  <2> QED
    BY <1>2, <2>1, <2>2, OwnRowsApart DEF Emission, EmittedBy
<1>3. CASE ~Reverse(t) /\ ~\E u \in Users : Book(t, u)
  <2>1. UNCHANGED Standing
    BY <1>3 DEF TicketStep, CreateDraft, UpdateDraft, Propose, Cancel, book, Standing
  <2> QED
    BY <1>3, <2>1 DEF EmittedBy
<1> QED
    BY <1>1, <1>2, <1>3

LEMMA NamedEmissionKept ==
    TypeOK /\ Structure /\ EmissionsEnumerated /\ EffectsAreOwn /\ NamedEmission /\ [Next]_vars
        => NamedEmission'
<1> SUFFICES ASSUME TypeOK, Structure, EmissionsEnumerated, EffectsAreOwn, NamedEmission,
                    [Next]_vars, NEW t \in Tickets, NEW r \in EmittedBy(Standing, t)'
             PROVE  r.inv \in {Form(t)'.inv, Form(t)'.cash}
    BY DEF NamedEmission
<1>1. ASSUME NEW s \in Tickets, TicketStep(s)
      PROVE  r.inv \in {Form(t)'.inv, Form(t)'.cash}
  <2>1. CASE s # t
    <3>1. r \in EmittedBy(Standing, t) /\ Form(t)' = Form(t)
        BY <1>1, <2>1, OthersKeepTheirRows, StationMoves DEF Form
    <3> QED
        BY <3>1 DEF NamedEmission
  <2>2. CASE s = t
    <3>1. CASE \E u \in Users : Book(t, u)
      <4>1. PICK u \in Users : Book(t, u)
        BY <3>1
      <4>2. EmittedBy(Standing, t) = {}
        BY <4>1, EmittersAreBooked DEF Book, Bookable
      <4>3. r \in Standing' \ Standing
        BY <4>2 DEF EmittedBy
      <4>4. r.inv \in {IF Creating(Form(t)) THEN Shell(t) ELSE Form(t).inv, Form(t).cash}
        BY <4>1, <4>3, BookEmits DEF Emission
      <4> QED
        BY <4>1, <4>4, BookForm
    <3>2. CASE ~\E u \in Users : Book(t, u)
      <4>1. CASE Reverse(t)
        BY <1>1, <2>2, <4>1, OthersKeepTheirRows
      <4>2. CASE ~Reverse(t)
        <5>1. UNCHANGED Standing
            BY <1>1, <2>2, <3>2, <4>2, OthersKeepTheirRows
        <5>2. Status(t) # "booked"
            BY <1>1, <2>2, <4>2, ReverseMoves
        <5> QED
            BY <5>1, <5>2, EmittersAreBooked DEF EmittedBy
      <4> QED
        BY <4>1, <4>2
    <3> QED
        BY <3>1, <3>2
  <2> QED
    BY <2>1, <2>2
<1>2. CASE LedgerCrud \/ NavCrud \/ FlowCrud \/ InvestmentCrud
  <2>1. Form(t)' = Form(t)
    BY <1>2, CrudMovesNoTicket DEF Form
  <2>2. r \in Standing' /\ r.id \in OwnRows(t)
    BY DEF EmittedBy
  <2>3. PICK q \in Standing : q.id = r.id /\ q.inv = r.inv
    BY <1>2, <2>2, CrudRows, OwnRowsApart
  <2>4. q \in EmittedBy(Standing, t)
    BY <2>2, <2>3 DEF EmittedBy
  <2> QED
    BY <2>1, <2>3, <2>4 DEF NamedEmission
<1>3. CASE UNCHANGED vars
  <2>1. Form(t)' = Form(t) /\ r \in EmittedBy(Standing, t)
    BY <1>3 DEF vars, Form, EmittedBy, Standing
  <2> QED
    BY <2>1 DEF NamedEmission
<1> QED
    BY <1>1, <1>2, <1>3 DEF Next

LEMMA NamedEmissionHolds == Spec => []NamedEmission
<1>1. Init => NamedEmission
    BY OwnRowsApart, OpeningAssumption DEF Init, NamedEmission, EmittedBy, Standing
<1> QED
    BY <1>1, NamedEmissionKept, TypeCorrect, StructureHolds, EffectsEnumerateTheEmission,
       EffectsOwned, PTL DEF Spec

LEMMA TicketStepRefines ==
    ASSUME TypeOK, Structure, EmissionsEnumerated, EffectsAreOwn,
           NEW t \in Tickets, TicketStep(t)
    PROVE  [Lifecycle!Next]_(Lifecycle!vars)
<1>1. \A u \in Tickets \ {t} : Status(u)' = Status(u)
    BY StationMoves DEF Status
<1>2. stations' = [stations EXCEPT ![t] = Status(t)'] /\ stations[t] = Status(t)
    BY <1>1, StationsMove DEF stations
<1>3. \A u \in Tickets \ {t} : EmittedBy(Standing, u)' = EmittedBy(Standing, u)
    BY OthersKeepTheirRows
<1>4. CASE Reverse(t)
  <2>1. Status(t) = "booked" /\ Status(t)' = "cancelled"
    BY <1>4, StationMoves DEF Reverse, ReverseOrder, ReverseAndDelete, ReverseAndRetire, Undo,
                              StationMove, Status, Bookable
  <2>2. emitting' = emitting \ {t}
    BY <1>3, <1>4, OthersKeepTheirRows DEF emitting
  <2>3. Lifecycle!Reverse(t)
    BY <1>2, <2>1, <2>2 DEF Lifecycle!Reverse, stations, emitting
  <2> QED
    BY <2>3 DEF Lifecycle!Next
<1>5. CASE \E u \in Users : Book(t, u)
  <2>1. Status(t) \in Bookable /\ Status(t)' = "booked"
    BY <1>5, StationMoves DEF Book, Bookable, Cancellable, StationMove, Status, TypeOK,
                              TicketRows, Walked
  <2>2. t \notin emitting
    BY <2>1, EmittersAreBooked DEF Bookable, emitting
  <2>3. emitting' \in {emitting, emitting \cup {t}}
    <3>1. CASE EmittedBy(Standing, t)' = {}
      <4>1. emitting' = emitting
        BY <1>3, <2>2, <3>1 DEF emitting
      <4> QED
        BY <4>1
    <3>2. CASE EmittedBy(Standing, t)' # {}
      <4>1. emitting' = emitting \cup {t}
        BY <1>3, <3>2 DEF emitting
      <4> QED
        BY <4>1
    <3> QED
        BY <3>1, <3>2
  <2>4. Lifecycle!Book(t)
    BY <1>2, <2>1, <2>3 DEF Lifecycle!Book, Lifecycle!InFlight, Bookable, stations, emitting
  <2> QED
    BY <2>4 DEF Lifecycle!Next
<1>6. CASE ~Reverse(t) /\ ~\E u \in Users : Book(t, u)
  <2>1. UNCHANGED emitting
    BY <1>6, OthersKeepTheirRows DEF emitting, EmittedBy
  <2>2. CASE \E f \in Drafts : CreateDraft(t, f)
    <3>1. Status(t) = "none" /\ Status(t)' = "draft"
        BY <2>2 DEF CreateDraft, Status, TypeOK, TicketRows
    <3>2. Lifecycle!Compose(t)
        BY <1>2, <2>1, <3>1 DEF Lifecycle!Compose, stations, emitting
    <3> QED
        BY <3>2 DEF Lifecycle!Next
  <2>3. CASE \E f \in Drafts : UpdateDraft(t, f)
    <3>1. Status(t)' = Status(t)
        BY <2>3 DEF UpdateDraft, Status, TypeOK, TicketRows
    <3>2. UNCHANGED stations
        BY <1>1, <3>1 DEF stations
    <3> QED
        BY <2>1, <3>2 DEF Lifecycle!vars, stations, emitting
  <2>4. CASE \E u \in Users : Propose(t, u)
    <3>1. Status(t) = "draft" /\ Status(t)' = "proposed"
        BY <2>4 DEF Propose, Status, TypeOK, TicketRows
    <3>2. Lifecycle!Propose(t)
        BY <1>2, <2>1, <3>1 DEF Lifecycle!Propose, stations, emitting
    <3> QED
        BY <3>2 DEF Lifecycle!Next
  <2>5. CASE \E reason \in BOOLEAN : Cancel(t, reason)
    <3>1. Status(t) \in Cancellable /\ Status(t)' = "cancelled"
        BY <2>5 DEF Cancel, Status, TypeOK, TicketRows
    <3>2. Lifecycle!Cancel(t)
        BY <1>2, <2>1, <3>1 DEF Lifecycle!Cancel, Lifecycle!InFlight, Cancellable, stations, emitting
    <3> QED
        BY <3>2 DEF Lifecycle!Next
  <2> QED
    BY <1>6, <2>2, <2>3, <2>4, <2>5 DEF TicketStep
<1> QED
    BY <1>4, <1>5, <1>6

LEMMA CrudRefines ==
    ASSUME TypeOK, NamedEmission, LedgerCrud \/ NavCrud \/ FlowCrud \/ InvestmentCrud
    PROVE  [Lifecycle!Next]_(Lifecycle!vars)
<1>1. UNCHANGED stations
    BY CrudMovesNoTicket DEF stations, Status
<1>2. emitting' \subseteq emitting
  <2> SUFFICES ASSUME NEW t \in Tickets, EmittedBy(Standing, t)' # {}
               PROVE  EmittedBy(Standing, t) # {}
    BY DEF emitting
  <2>1. PICK r \in Standing' : r.id \in OwnRows(t)
    BY DEF EmittedBy
  <2>2. \E q \in Standing : q.id = r.id
    BY <2>1, CrudRows, OwnRowsApart
  <2> QED
    BY <2>1, <2>2 DEF EmittedBy
<1>3. ASSUME emitting \subseteq emitting' PROVE [Lifecycle!Next]_(Lifecycle!vars)
  <2>1. UNCHANGED emitting
    BY <1>2, <1>3
  <2> QED
    BY <1>1, <2>1 DEF Lifecycle!vars, stations, emitting
<1>4. CASE \A r \in Standing : \E q \in Standing' : q.id = r.id
  <2>1. emitting \subseteq emitting'
    BY <1>4 DEF emitting, EmittedBy
  <2> QED
    BY <1>3, <2>1
<1>5. CASE \E x \in Standing : Standing \ {x} \subseteq Standing'
  <2>1. PICK x \in Standing : Standing \ {x} \subseteq Standing'
    BY <1>5
  <2>2. CASE \E t \in Tickets : x.id \in OwnRows(t)
    <3>1. PICK t \in Tickets : x.id \in OwnRows(t)
        BY <2>2
    <3>2. emitting \ {t} \subseteq emitting'
        BY <2>1, <3>1, OwnRowsApart DEF emitting, EmittedBy
    <3>3. emitting' \in {emitting, emitting \ {t}}
        BY <1>2, <3>2
    <3>4. CASE emitting' = emitting
        BY <1>3, <3>4
    <3>5. CASE emitting' = emitting \ {t}
      <4>1. Lifecycle!Correct(t)
        BY <1>1, <3>5 DEF Lifecycle!Correct, stations, emitting
      <4> QED
        BY <4>1 DEF Lifecycle!Next
    <3> QED
        BY <3>3, <3>4, <3>5
  <2>3. CASE ~\E t \in Tickets : x.id \in OwnRows(t)
    <3>1. emitting \subseteq emitting'
        BY <2>1, <2>3 DEF emitting, EmittedBy
    <3> QED
        BY <1>3, <3>1
  <2> QED
    BY <2>2, <2>3
<1>6. CASE \E i : ~NamedByTicket(i) /\ \A r \in Standing : r.inv # i => r \in Standing'
  <2>1. PICK i : ~NamedByTicket(i) /\ \A r \in Standing : r.inv # i => r \in Standing'
    BY <1>6
  <2>2. \A t \in Tickets : EmittedBy(Standing, t) \subseteq EmittedBy(Standing, t)'
    BY <2>1 DEF NamedEmission, NamedByTicket, EmittedBy
  <2>3. emitting \subseteq emitting'
    BY <2>2 DEF emitting
  <2> QED
    BY <1>3, <2>3
<1> QED
    BY <1>4, <1>5, <1>6, CrudKeeps

\* Composing, booking, reversing and the CRUD together implement the lifecycle.
THEOREM TicketsRefineLifecycle == Spec => ImplementsLifecycle
<1>1. TypeOK /\ Structure /\ EmissionsEnumerated /\ EffectsAreOwn /\ NamedEmission /\ [Next]_vars
          => [Lifecycle!Next]_(Lifecycle!vars)
  <2> SUFFICES ASSUME TypeOK, Structure, EmissionsEnumerated, EffectsAreOwn, NamedEmission,
                      [Next]_vars
               PROVE  [Lifecycle!Next]_(Lifecycle!vars)
    OBVIOUS
  <2>1. CASE \E t \in Tickets : TicketStep(t)
    BY <2>1, TicketStepRefines
  <2>2. CASE LedgerCrud \/ NavCrud \/ FlowCrud \/ InvestmentCrud
    BY <2>2, CrudRefines
  <2>3. CASE UNCHANGED vars
    BY <2>3 DEF vars, Lifecycle!vars, Status, EmittedBy, Standing
  <2> QED
    BY <2>1, <2>2, <2>3 DEF Next
<1> QED
    BY <1>1, LifecycleInit, TypeCorrect, StructureHolds, EffectsEnumerateTheEmission,
       EffectsOwned, NamedEmissionHolds, PTL DEF Spec, ImplementsLifecycle, Lifecycle!Spec

-----------------------------------------------------------------------------
(* Cancelling everything restores the book.                                *)
(*                                                                         *)
(* BookRestored speaks of the states in which no ticket is booked.  The    *)
(* invariant names, in every state, the booking that accounts for each     *)
(* difference from the start.                                              *)

\* The booked tickets that retired investment i.
RetiredBy(i) == {t \in BookedTickets : \E e \in Updated(t) : e.id = i}

\* The opening rows stand, and every other row is some booking's own.
OpeningStands ==
    /\ Opening \subseteq Standing
    /\ \A r \in Standing \ Opening : \E t \in Tickets : r.id \in OwnRows(t)

\* A booking retires an investment that was active: blocks refuse any other.
ImagesActive == \A t \in BookedTickets : \A e \in Updated(t) : e.prior.active

\* An investment known at the start is as it was, or a booked ticket retired it.
KnownKept ==
    \A i \in Investments \ Shells :
        /\ investments[i].present
        /\ investments[i].mode = AtStart(i).mode
        /\ investments[i].name = None
        /\ ~investments[i].active => RetiredBy(i) # {}

\* A created investment is an effect of its booking as long as that is booked;
\* once it is reversed the investment is gone, or retired and named by its ticket.
ShellsKept ==
    \A s \in Tickets : investments[Shell(s)].present =>
        /\ Status(s) = "booked" => Shell(s) \in EffectIds(effects[s])
        /\ Status(s) = "cancelled" =>
              ~investments[Shell(s)].active /\ Form(s).inv = Shell(s)

\* Whoever retires a created investment touches the booking that created it, so
\* that booking is not reversed first.
ShellsHeld ==
    \A s \in Tickets : RetiredBy(Shell(s)) # {} =>
        Status(s) = "booked" /\ <<s, Shell(s)>> \in modified

Restoring == OpeningStands /\ ImagesActive /\ KnownKept /\ ShellsKept /\ ShellsHeld

LEMMA SameRow ==
    ASSUME NEW x \in InvestmentRows, NEW y \in InvestmentRows,
           x.present = y.present, x.active = y.active, x.cash = y.cash,
           x.mode = y.mode, x.name = y.name, x.rev = y.rev
    PROVE  x = y
BY DEF InvestmentRows

LEMMA RestoringRestores == TypeOK /\ EmissionsEnumerated /\ Structure /\ Restoring => BookRestored
<1> SUFFICES ASSUME TypeOK, EmissionsEnumerated, Structure, Restoring, BookedTickets = {}
             PROVE  /\ Standing = Opening
                    /\ \A i \in Investments \ Shells :
                          investments[i] = [AtStart(i) EXCEPT !.cash = investments[i].cash,
                                                              !.rev = investments[i].rev]
                    /\ \A i \in Shells : investments[i].present =>
                          ~investments[i].active /\ NamedByTicket(i)
    BY DEF BookRestored
<1>1. Standing = Opening
  <2>1. \A t \in Tickets : EmittedBy(Standing, t) = {}
    BY EmittersAreBooked DEF BookedTickets
  <2> QED
    BY <2>1 DEF Restoring, OpeningStands, EmittedBy
<1>2. ASSUME NEW i \in Investments \ Shells
      PROVE  investments[i] = [AtStart(i) EXCEPT !.cash = investments[i].cash,
                                                 !.rev = investments[i].rev]
  <2>1. investments[i].active = TRUE
    BY <1>2 DEF Restoring, KnownKept, RetiredBy, TypeOK, InvestmentRows
  <2>2. /\ investments[i] \in InvestmentRows /\ investments[i].present = TRUE
        /\ investments[i].mode = AtStart(i).mode /\ investments[i].name = None
    BY <1>2 DEF Restoring, KnownKept, TypeOK, InvestmentRows
  <2> DEFINE row == [AtStart(i) EXCEPT !.cash = investments[i].cash, !.rev = investments[i].rev]
  <2>3. AtStart(i) \in InvestmentRows /\ AtStart(i).present /\ AtStart(i).active /\ AtStart(i).name = None
    <3>1. 0 \in 0..MaxRev
        BY BoundsAssumption
    <3>2. AtStart(i) \in InvestmentRows
        BY <3>1 DEF AtStart, InvestmentRows
    <3>3. AtStart(i).present /\ AtStart(i).active
        BY <1>2 DEF AtStart
    <3>4. AtStart(i).name = None
        BY DEF AtStart
    <3> QED
        BY <3>2, <3>3, <3>4
  <2>4. /\ row \in InvestmentRows /\ row.cash = investments[i].cash /\ row.rev = investments[i].rev
        /\ row.present /\ row.active /\ row.mode = AtStart(i).mode /\ row.name = None
    BY <2>2, <2>3 DEF InvestmentRows
  <2> QED
    BY <2>1, <2>2, <2>4, SameRow
<1>3. ASSUME NEW s \in Tickets, investments[Shell(s)].present
      PROVE  ~investments[Shell(s)].active /\ NamedByTicket(Shell(s))
  <2>1. Status(s) = "cancelled"
    BY <1>3 DEF Structure, ShellOfItsBooking, BookedTickets
  <2> QED
    BY <1>3, <2>1 DEF Restoring, ShellsKept, NamedByTicket
<1> QED
    BY <1>1, <1>2, <1>3 DEF Shells

\* A booking retires one standing, active investment, creates one, or leaves
\* them all alone, and its effects say which.
Retiring(t, i) ==
    /\ i \in Investments /\ investments[i].present /\ investments[i].active
    /\ investments' = Retired(i) /\ modified' = Touch({i})
    /\ \A e \in effects'[t] : e.type = "investment_update" => e = RetireEffect(i)
    /\ RetireEffect(i) \in effects'[t]

Founding(t) ==
    /\ \E mode : investments' = WithShell(t, Form(t), mode)
    /\ UNCHANGED modified
    /\ \A e \in effects'[t] : e.type = "investment_update" => e = CreateEffect(t)
    /\ CreateEffect(t) \in effects'[t]

Trading(t) ==
    /\ UNCHANGED <<investments, modified>>
    /\ \A e \in effects'[t] : e.type # "investment_update"

LEMMA BookKinds ==
    ASSUME TypeOK, NEW t \in Tickets, NEW u \in Users, Book(t, u)
    PROVE  (\E i : Retiring(t, i)) \/ Founding(t) \/ Trading(t)
<1> DEFINE f == Form(t)
<1>1. f \in DraftForms /\ Blocks(f)
    BY DEF TypeOK, Book, Bookable, Status, Form, Attributed
<1>2. ~Creating(f) => f.inv \in Investments /\ investments[f.inv].present /\ investments[f.inv].active
    BY <1>1, BlocksType DEF Blocks, TradableOk
<1>3. \A type, rows : type # "investment_update" =>
          \A e \in RowEffects(type, rows) : e.type # "investment_update"
    BY DEF RowEffects, Effect
<1>4. CreateEffect(t).type = "investment_update" /\ \A i : RetireEffect(i).type = "investment_update"
    BY DEF CreateEffect, RetireEffect, Effect
<1>5. CASE EmitOrder(t, f)
  <2>1. CASE f.setInactive
    <3>1. Retiring(t, f.inv)
        BY <1>2, <1>3, <1>4, <1>5, <2>1 DEF EmitOrder, Retiring, TypeOK
    <3> QED
        BY <3>1
  <2>2. CASE ~f.setInactive
    BY <1>3, <1>5, <2>2 DEF EmitOrder, Trading, TypeOK
  <2> QED
    BY <2>1, <2>2
<1>6. CASE EmitNewOrder(t, f)
    BY <1>3, <1>4, <1>6 DEF EmitNewOrder, Founding, TypeOK
<1>7. CASE EmitCommitment(t, f)
    BY <1>4, <1>7 DEF EmitCommitment, Founding, TypeOK
<1>8. CASE EmitSecondarySell(t, f)
  <2>1. Retiring(t, f.inv)
    BY <1>2, <1>3, <1>4, <1>8 DEF EmitSecondarySell, Retiring, TypeOK
  <2> QED
    BY <2>1
<1>9. CASE EmitSecondaryBuy(t, f)
    BY <1>3, <1>4, <1>9 DEF EmitSecondaryBuy, Founding, TypeOK
<1> QED
    BY <1>5, <1>6, <1>7, <1>8, <1>9 DEF Book

\* In a book nobody edits the CRUD retypes investments and does nothing else.
LEMMA OnlyRetypes ==
    ASSUME Crud \subseteq {"retype"}, LedgerCrud \/ NavCrud \/ FlowCrud \/ InvestmentCrud
    PROVE  \E i \in CrudTargets : Retype(i)
BY DEF LedgerCrud, AddTxn, UpdateTxn, DeleteTxn, NavCrud, AddNav, UpdateNav, DeleteNav,
       FlowCrud, AddFlow, UpdateFlow, DeleteFlow,
       InvestmentCrud, SetActive, EditInvestment, DeleteInvestment

LEMMA MovesRestoring ==
    ASSUME TypeOK, Structure, Restoring, NEW t \in Tickets,
           \/ \E f \in Drafts : CreateDraft(t, f) \/ UpdateDraft(t, f)
           \/ \E u \in Users : Propose(t, u)
           \/ \E reason \in BOOLEAN : Cancel(t, reason)
    PROVE  Restoring'
<1>1. UNCHANGED <<effects, ledger, flows, navs, investments, modified>>
    BY DEF CreateDraft, UpdateDraft, Propose, Cancel, book
<1>2. /\ Status(t) \notin {"booked", "cancelled"} /\ Status(t)' # "booked"
      /\ \A u \in Tickets \ {t} : tickets'[u] = tickets[u]
  <2>1. tickets[t] \in TicketRows
    BY DEF TypeOK
  <2> QED
    BY <2>1 DEF CreateDraft, UpdateDraft, Propose, Cancel, Cancellable, Status, TypeOK, TicketRows
<1>3. BookedTickets' = BookedTickets
    BY <1>2 DEF BookedTickets, Status
<1>4. \A i : RetiredBy(i)' = RetiredBy(i)
    BY <1>1, <1>3 DEF RetiredBy, Updated, Of
<1>5. OpeningStands'
    BY <1>1 DEF Restoring, OpeningStands, Standing
<1>6. ImagesActive'
    BY <1>1, <1>3 DEF Restoring, ImagesActive, Updated, Of
<1>7. KnownKept'
    BY <1>1, <1>4 DEF Restoring, KnownKept
<1>8. ShellsKept'
    BY <1>1, <1>2 DEF Restoring, ShellsKept, Structure, ShellOfItsBooking, Status, Form
<1>9. ShellsHeld'
    BY <1>1, <1>2, <1>4 DEF Restoring, ShellsHeld, Status
<1> QED
    BY <1>5, <1>6, <1>7, <1>8, <1>9 DEF Restoring

LEMMA RetypeRestoring ==
    ASSUME TypeOK, Restoring, NEW i \in CrudTargets, Retype(i)
    PROVE  Restoring'
<1>1. /\ UNCHANGED <<tickets, effects, ledger, flows, navs>>
      /\ modified \subseteq modified'
    BY DEF Retype, Edits, Touch
<1>2. \A j \in Investments :
          /\ investments'[j].present = investments[j].present
          /\ investments'[j].active = investments[j].active
          /\ investments'[j].mode = investments[j].mode
          /\ investments'[j].name = investments[j].name
    BY BoundsAssumption DEF Retype, TypeOK, InvestmentRows
<1>3. BookedTickets' = BookedTickets
    BY <1>1 DEF BookedTickets, Status
<1>4. \A j : RetiredBy(j)' = RetiredBy(j)
    BY <1>1, <1>3 DEF RetiredBy, Updated, Of
<1>5. OpeningStands'
    BY <1>1 DEF Restoring, OpeningStands, Standing
<1>6. ImagesActive'
    BY <1>1, <1>3 DEF Restoring, ImagesActive, Updated, Of
<1>7. KnownKept'
    BY <1>2, <1>4 DEF Restoring, KnownKept
<1>8. ShellsKept'
    BY <1>1, <1>2, ShellFacts DEF Restoring, ShellsKept, Status, Form
<1>9. ShellsHeld'
    BY <1>1, <1>4 DEF Restoring, ShellsHeld, Status
<1> QED
    BY <1>5, <1>6, <1>7, <1>8, <1>9 DEF Restoring

LEMMA BookRestoring ==
    ASSUME TypeOK, Structure, Restoring, NEW t \in Tickets, NEW u \in Users, Book(t, u)
    PROVE  Restoring'
<1>1. Emission(t)
    BY BookEmits
<1>2. /\ Status(t) \notin {"booked", "cancelled"} /\ Status(t)' = "booked"
      /\ \A v \in Tickets \ {t} : Status(v)' = Status(v) /\ Form(v)' = Form(v)
  <2>1. Status(t) \in Bookable
    BY DEF Book
  <2>2. Status(t)' = "booked"
    BY DEF Book, Status, TypeOK, TicketRows, Walked
  <2>3. \A v \in Tickets \ {t} : tickets'[v] = tickets[v]
    BY StationMoves DEF TicketStep
  <2> QED
    BY <2>1, <2>2, <2>3 DEF Bookable, Status, Form
<1>3. (\E i : Retiring(t, i)) \/ Founding(t) \/ Trading(t)
    BY BookKinds
<1>4. \A v \in Tickets \ {t} : effects'[v] = effects[v] /\ Updated(v)' = Updated(v)
    BY <1>1 DEF Emission, Updated, Of
<1>5. BookedTickets' = BookedTickets \cup {t}
    BY <1>2 DEF BookedTickets
<1>6. modified \subseteq modified'
    BY <1>3 DEF Retiring, Founding, Trading, Touch
<1>7. \A i : \A v \in Tickets \ {t} : v \in RetiredBy(i)' <=> v \in RetiredBy(i)
    BY <1>4, <1>5 DEF RetiredBy, BookedTickets
<1>8. /\ CreateEffect(t).prior = None /\ CreateEffect(t).id = Shell(t)
      /\ \A i \in Investments : /\ RetireEffect(i).type = "investment_update"
                                /\ RetireEffect(i).id = i /\ RetireEffect(i).prior # None
                                /\ RetireEffect(i).prior.active = investments[i].active
  <2>1. \A i \in Investments : RetireEffect(i).prior.active = investments[i].active
    BY DEF RetireEffect, Effect, BeforeImage
  <2> QED
    BY <2>1, RetireEffectUpdates DEF CreateEffect, Effect
<1>9. ASSUME NEW e \in Updated(t)'
      PROVE  /\ Retiring(t, e.id) /\ e = RetireEffect(e.id)
             /\ investments[e.id].present /\ investments[e.id].active
    BY <1>3, <1>8 DEF Updated, Of, Retiring, Founding, Trading
<1>10. OpeningStands'
    BY <1>1 DEF Restoring, OpeningStands, Emission
<1>11. ImagesActive'
  <2> SUFFICES ASSUME NEW v \in BookedTickets', NEW e \in Updated(v)' PROVE e.prior.active
    BY DEF ImagesActive
  <2>1. CASE v = t
    BY <1>8, <1>9, <2>1 DEF Retiring
  <2>2. CASE v # t
    BY <1>4, <1>5, <2>2 DEF Restoring, ImagesActive, BookedTickets
  <2> QED
    BY <2>1, <2>2
<1>12. KnownKept'
  <2> SUFFICES ASSUME NEW j \in Investments \ Shells
               PROVE  /\ investments'[j].present /\ investments'[j].mode = AtStart(j).mode
                      /\ investments'[j].name = None
                      /\ ~investments'[j].active => RetiredBy(j)' # {}
    BY DEF KnownKept
  <2>1. /\ investments[j].present /\ investments[j].mode = AtStart(j).mode
        /\ investments[j].name = None
        /\ ~investments[j].active => RetiredBy(j) # {}
    BY DEF Restoring, KnownKept
  <2>2. ~investments[j].active => RetiredBy(j)' # {}
    BY <1>2, <1>7, <2>1 DEF RetiredBy, BookedTickets
  <2>3. CASE investments'[j] = investments[j]
    BY <2>1, <2>2, <2>3
  <2>4. ASSUME NEW i, Retiring(t, i), i = j
        PROVE  /\ investments'[j].present /\ investments'[j].mode = AtStart(j).mode
               /\ investments'[j].name = None /\ RetiredBy(j)' # {}
    <3>1. investments'[j] = [investments[j] EXCEPT !.active = FALSE]
        BY <2>4 DEF Retiring, Retired, TypeOK
    <3>2. RetireEffect(j) \in Updated(t)'
        BY <1>8, <2>4 DEF Retiring, Updated, Of
    <3>3. t \in RetiredBy(j)'
        BY <1>5, <1>8, <3>2 DEF RetiredBy
    <3> QED
        BY <2>1, <3>1, <3>3 DEF TypeOK, InvestmentRows
  <2>5. ASSUME NEW i, Retiring(t, i), i # j PROVE investments'[j] = investments[j]
    BY <2>5 DEF Retiring, Retired, TypeOK
  <2>6. CASE Founding(t) \/ Trading(t)
    <3>1. investments'[j] = investments[j]
        BY <2>6, WithShellPresence DEF Founding, Trading, Shells
    <3> QED
        BY <2>3, <3>1
  <2> QED
    BY <1>3, <2>3, <2>4, <2>5, <2>6
<1>13. ShellsKept'
  <2> SUFFICES ASSUME NEW s \in Tickets, investments'[Shell(s)].present
               PROVE  /\ Status(s)' = "booked" => Shell(s) \in EffectIds(effects'[s])
                      /\ Status(s)' = "cancelled" =>
                            ~investments'[Shell(s)].active /\ Form(s)'.inv = Shell(s)
    BY DEF ShellsKept
  <2>1. CASE s = t
    <3>1. ~investments[Shell(t)].present
        BY <1>2 DEF Structure, ShellOfItsBooking
    <3>2. Founding(t)
      <4>1. investments'[Shell(t)] # investments[Shell(t)]
        BY <2>1, <3>1
      <4>2. ASSUME NEW i, Retiring(t, i) PROVE FALSE
        BY <2>1, <3>1, <4>2, ShellFacts, RetiredPresence DEF Retiring
      <4> QED
        BY <1>3, <4>1, <4>2 DEF Trading
    <3>3. Shell(s) \in EffectIds(effects'[s])
        BY <1>8, <2>1, <3>2 DEF Founding, EffectIds
    <3>4. Status(s)' = "booked"
        BY <1>2, <2>1 DEF Status
    <3> QED
        BY <3>3, <3>4
  <2>2. CASE s # t
    <3>1. Shell(s) # Shell(t) /\ Shell(s) \in Investments
        BY <2>2, ShellFacts
    <3>2. investments[Shell(s)].present
        BY <1>1, <3>1 DEF Emission
    <3>3. /\ Status(s) = "booked" => Shell(s) \in EffectIds(effects[s])
          /\ Status(s) = "cancelled" => ~investments[Shell(s)].active /\ Form(s).inv = Shell(s)
        BY <3>2 DEF Restoring, ShellsKept
    <3>4. ~investments[Shell(s)].active => ~investments'[Shell(s)].active
      <4>1. CASE \E i : Retiring(t, i)
        BY <3>1, <4>1 DEF Retiring, Retired, TypeOK, InvestmentRows
      <4>2. CASE Founding(t) \/ Trading(t)
        BY <3>1, <4>2, WithShellPresence DEF Founding, Trading
      <4> QED
        BY <1>3, <4>1, <4>2
    <3> QED
        BY <1>2, <1>4, <2>2, <3>3, <3>4
  <2> QED
    BY <2>1, <2>2
<1>14. ShellsHeld'
  <2> SUFFICES ASSUME NEW s \in Tickets, NEW v \in RetiredBy(Shell(s))'
               PROVE  Status(s)' = "booked" /\ <<s, Shell(s)>> \in modified'
    BY DEF ShellsHeld
  <2>1. v \in Tickets
    BY DEF RetiredBy, BookedTickets
  <2>2. CASE v # t
    <3>1. Status(s) = "booked" /\ <<s, Shell(s)>> \in modified
        BY <1>7, <2>1, <2>2 DEF Restoring, ShellsHeld
    <3> QED
        BY <1>2, <1>6, <3>1
  <2>3. CASE v = t
    <3>1. PICK e \in Updated(t)' : e.id = Shell(s)
        BY <2>3 DEF RetiredBy
    <3>2. /\ investments[Shell(s)].present /\ investments[Shell(s)].active
          /\ modified' = Touch({Shell(s)})
        BY <1>9, <3>1 DEF Retiring
    <3>3. Status(s) = "booked" /\ Shell(s) \in EffectIds(effects[s])
        BY <3>2 DEF Structure, ShellOfItsBooking, Restoring, ShellsKept
    <3>4. <<s, Shell(s)>> \in modified'
        BY <3>2, <3>3 DEF Touch, Status
    <3> QED
        BY <1>2, <3>3, <3>4
  <2> QED
    BY <2>2, <2>3
<1> QED
    BY <1>10, <1>11, <1>12, <1>13, <1>14 DEF Restoring

LEMMA ReverseRestoring ==
    ASSUME TypeOK, Structure, EmissionsEnumerated, EffectsAreOwn, UpdatesNamed, Restoring,
           NEW t \in Tickets, Reverse(t)
    PROVE  Restoring'
<1>1. /\ Status(t) = "booked" /\ Status(t)' = "cancelled" /\ Untouched(t) /\ UNCHANGED effects
      /\ \A v \in Tickets \ {t} : Status(v)' = Status(v) /\ Form(v)' = Form(v)
  <2>1. StationMove(tickets[t], tickets'[t]) /\ \A v \in Tickets \ {t} : tickets'[v] = tickets[v]
    BY StationMoves DEF TicketStep
  <2>2. Status(t) = "booked" /\ Untouched(t) /\ UNCHANGED effects
    BY DEF Reverse, ReverseOrder, ReverseAndDelete, ReverseAndRetire, Undo
  <2> QED
    BY <2>1, <2>2 DEF StationMove, Status, Form, Bookable
<1>2. BookedTickets' = BookedTickets \ {t} /\ t \in BookedTickets
    BY <1>1 DEF BookedTickets
<1>3. \A v \in Tickets : Updated(v)' = Updated(v)
    BY <1>1 DEF Updated, Of
<1>4. \A i : RetiredBy(i)' = RetiredBy(i) \ {t}
    BY <1>2, <1>3 DEF RetiredBy, BookedTickets
<1>5. /\ \A e \in Created(t) : e.id = Shell(t) /\ Form(t).inv = Shell(t)
      /\ \A e \in Updated(t) : e.id = Form(t).inv
    BY <1>2 DEF Structure, ShellOfItsBooking, UpdatesNamed, Created, Updated
<1>6. \/ ReverseOrder(t) /\ investments' = Restored(t)
      \/ /\ ReverseAndDelete(t) /\ Created(t) # {}
         /\ investments' = [investments EXCEPT ![Shell(t)] = [@ EXCEPT !.present = FALSE]]
      \/ ReverseAndRetire(t) /\ Created(t) # {} /\ investments' = Retired(Shell(t))
    BY <1>5 DEF Reverse, ReverseOrder, ReverseAndDelete, ReverseAndRetire
<1>7. ASSUME NEW i \in Investments, t \in RetiredBy(i), ReverseOrder(t)
      PROVE  investments'[i] = [investments[i] EXCEPT !.active = TRUE]
  <2> DEFINE d == CHOOSE e \in Updated(t) : e.id = i
  <2>1. d \in Updated(t) /\ d.id = i
    BY <1>7 DEF RetiredBy
  <2>2. d.prior.active = TRUE
    <3>1. d.prior \in Images
        BY <2>1 DEF TypeOK, Updated, Of, Effects
    <3> QED
        BY <1>2, <2>1, <3>1 DEF Restoring, ImagesActive, Images
  <2>3. investments'[i] = [investments[i] EXCEPT !.active = d.prior.active]
    BY <1>6, <1>7, <2>1 DEF ReverseOrder, Restored
  <2> QED
    BY <2>2, <2>3
<1>8. ASSUME NEW i \in Investments, t \notin RetiredBy(i), i # Shell(t)
      PROVE  investments'[i] = investments[i]
  <2>1. CASE ReverseOrder(t)
    <3>1. ~\E e \in Updated(t) : e.id = i
        BY <1>2, <1>8 DEF RetiredBy
    <3> QED
        BY <1>8, <2>1, <3>1 DEF ReverseOrder, Restored
  <2>2. CASE ~ReverseOrder(t)
    BY <1>6, <1>8, <2>2 DEF Retired, TypeOK
  <2> QED
    BY <2>1, <2>2
<1>9. \A s \in Tickets : t \in RetiredBy(Shell(s)) => s # t /\ Status(s) = "booked" /\ ReverseOrder(t)
  <2> SUFFICES ASSUME NEW s \in Tickets, t \in RetiredBy(Shell(s))
               PROVE  s # t /\ Status(s) = "booked" /\ ReverseOrder(t)
    OBVIOUS
  <2>1. PICK e \in Updated(t) : e.id = Shell(s)
    BY DEF RetiredBy
  <2>2. <<t, Shell(s)>> \notin modified
    BY <1>1, <2>1 DEF Untouched, Updated, Of
  <2>3. Status(s) = "booked" /\ <<s, Shell(s)>> \in modified
    BY DEF Restoring, ShellsHeld
  <2>4. s # t
    BY <2>2, <2>3
  <2>5. Created(t) = {}
    BY <1>5, <2>1, <2>4, ShellFacts
  <2> QED
    BY <1>6, <2>3, <2>4, <2>5
<1>10. OpeningStands'
  <2>1. Standing \ Standing' = EmittedBy(Standing, t) /\ Standing' \subseteq Standing
    BY ReversalRemovesItsOwn
  <2>2. \A r \in Opening : r.id \in UserRows
    BY OpeningAssumption
  <2> QED
    BY <2>1, <2>2, OwnRowsApart DEF Restoring, OpeningStands, EmittedBy
<1>11. ImagesActive'
    BY <1>2, <1>3 DEF Restoring, ImagesActive, BookedTickets
<1>12. KnownKept'
  <2> SUFFICES ASSUME NEW j \in Investments \ Shells
               PROVE  /\ investments'[j].present /\ investments'[j].mode = AtStart(j).mode
                      /\ investments'[j].name = None
                      /\ ~investments'[j].active => RetiredBy(j)' # {}
    BY DEF KnownKept
  <2>1. /\ investments[j].present /\ investments[j].mode = AtStart(j).mode
        /\ investments[j].name = None
        /\ ~investments[j].active => RetiredBy(j) # {}
    BY DEF Restoring, KnownKept
  <2>2. CASE t \in RetiredBy(j)
    <3>1. PICK e \in Updated(t) : e.id = j
        BY <2>2 DEF RetiredBy
    <3>2. Created(t) = {}
        BY <1>5, <3>1 DEF Shells
    <3>3. investments'[j] = [investments[j] EXCEPT !.active = TRUE]
        BY <1>6, <1>7, <2>2, <3>2
    <3> QED
        BY <2>1, <3>3 DEF TypeOK, InvestmentRows
  <2>3. CASE t \notin RetiredBy(j)
    <3>1. investments'[j] = investments[j]
        BY <1>8, <2>3 DEF Shells
    <3> QED
        BY <1>4, <2>1, <2>3, <3>1
  <2> QED
    BY <2>2, <2>3
<1>13. ShellsKept'
  <2> SUFFICES ASSUME NEW s \in Tickets, investments'[Shell(s)].present
               PROVE  /\ Status(s)' = "booked" => Shell(s) \in EffectIds(effects'[s])
                      /\ Status(s)' = "cancelled" =>
                            ~investments'[Shell(s)].active /\ Form(s)'.inv = Shell(s)
    BY DEF ShellsKept
  <2>1. CASE s = t
    <3>1. CASE ReverseOrder(t)
      <4>1. investments[Shell(t)].present
        BY <2>1, <3>1, RestoredPresence, ShellFacts DEF ReverseOrder
      <4>2. PICK e \in effects[t] : e.id = Shell(t)
        BY <1>1, <4>1 DEF Restoring, ShellsKept, EffectIds
      <4>3. Shell(t) \notin OwnRows(t)
        BY ShellFacts, IdsAssumption DEF RowIds, OwnRows
      <4>4. e.type = "investment_update"
        BY <1>2, <4>2, <4>3 DEF EffectsAreOwn
      <4>5. e \in Updated(t)
        BY <3>1, <4>2, <4>4 DEF ReverseOrder, Created, Updated, Of
      <4> QED
        BY <1>2, <1>9, <4>2, <4>5 DEF RetiredBy
    <3>2. CASE ReverseAndDelete(t) /\ ~ReverseOrder(t)
      <4>1. investments' = [investments EXCEPT ![Shell(t)] = [@ EXCEPT !.present = FALSE]]
        BY <1>5, <3>2 DEF ReverseAndDelete
      <4> QED
        BY <2>1, <4>1, ShellFacts DEF TypeOK, InvestmentRows
    <3>3. CASE ReverseAndRetire(t)
      <4>1. investments' = Retired(Shell(t)) /\ Created(t) # {}
        BY <1>5, <3>3 DEF ReverseAndRetire
      <4>2. Form(t)' = Form(t)
        BY <3>3, <1>1 DEF ReverseAndRetire, Withdrawn, Form, TypeOK, TicketRows
      <4>3. ~investments'[Shell(t)].active
        BY <4>1, ShellFacts DEF Retired, TypeOK, InvestmentRows
      <4>4. Form(t).inv = Shell(t)
        BY <1>5, <4>1
      <4> QED
        BY <1>1, <2>1, <4>2, <4>3, <4>4 DEF Status
    <3> QED
        BY <1>6, <3>1, <3>2, <3>3
  <2>2. CASE s # t
    <3>1. Shell(s) # Shell(t) /\ Shell(s) \in Investments
        BY <2>2, ShellFacts
    <3>2. CASE t \in RetiredBy(Shell(s))
      <4>1. Status(s) = "booked" /\ investments'[Shell(s)] = [investments[Shell(s)] EXCEPT !.active = TRUE]
        BY <1>7, <1>9, <3>1, <3>2
      <4>2. investments[Shell(s)].present
        BY <3>1, <4>1 DEF TypeOK, InvestmentRows
      <4> QED
        BY <1>1, <2>2, <4>1, <4>2 DEF Restoring, ShellsKept
    <3>3. CASE t \notin RetiredBy(Shell(s))
      <4>1. investments'[Shell(s)] = investments[Shell(s)]
        BY <1>8, <3>1, <3>3
      <4> QED
        BY <1>1, <2>2, <4>1 DEF Restoring, ShellsKept
    <3> QED
        BY <3>2, <3>3
  <2> QED
    BY <2>1, <2>2
<1>14. ShellsHeld'
  <2> SUFFICES ASSUME NEW s \in Tickets, NEW v \in RetiredBy(Shell(s))'
               PROVE  Status(s)' = "booked" /\ <<s, Shell(s)>> \in modified'
    BY DEF ShellsHeld
  <2>1. v \in RetiredBy(Shell(s))
    BY <1>4
  <2>2. Status(s) = "booked" /\ <<s, Shell(s)>> \in modified
    BY <2>1 DEF Restoring, ShellsHeld
  <2>3. Present(Shell(s))
    BY <2>1, NamedInvestmentStands DEF RetiredBy, Updated
  <2>4. Shell(s) \in EffectIds(effects[s])
    BY <2>2, <2>3 DEF Restoring, ShellsKept, Present
  <2>5. s # t
    BY <1>1, <2>2, <2>4 DEF Untouched, EffectIds
  <2>6. <<s, Shell(s)>> \in modified'
    BY <2>2, <2>5, TicketStepsKeepAudit DEF TicketStep
  <2> QED
    BY <1>1, <2>2, <2>5, <2>6
<1> QED
    BY <1>10, <1>11, <1>12, <1>13, <1>14 DEF Restoring

\* When nobody edits more than the type of an investment, once no ticket is booked
\* the book is what it was before the first booking, but for created investments
\* retired because a ticket still names them.
THEOREM CancellingRestoresTheBook ==
    ASSUME Crud \subseteq {"retype"}
    PROVE  Spec => []BookRestored
<1>1. Init => Restoring
  <2> SUFFICES ASSUME Init PROVE Restoring
    OBVIOUS
  <2>1. BookedTickets = {} /\ \A i : RetiredBy(i) = {}
    BY DEF Init, BookedTickets, RetiredBy, Status
  <2>2. OpeningStands /\ ImagesActive /\ ShellsHeld
    BY <2>1 DEF Init, OpeningStands, ImagesActive, ShellsHeld, Standing
  <2>3. KnownKept
    BY DEF Init, KnownKept, AtStart
  <2>4. ShellsKept
    BY DEF Init, ShellsKept, Status
  <2> QED
    BY <2>2, <2>3, <2>4 DEF Restoring
<1>2. TypeOK /\ Structure /\ EmissionsEnumerated /\ EffectsAreOwn /\ UpdatesNamed
         /\ Restoring /\ [Next]_vars => Restoring'
  <2> SUFFICES ASSUME TypeOK, Structure, EmissionsEnumerated, EffectsAreOwn, UpdatesNamed,
                      Restoring, [Next]_vars
               PROVE  Restoring'
    OBVIOUS
  <2>1. ASSUME NEW t \in Tickets, TicketStep(t) PROVE Restoring'
    BY <2>1, MovesRestoring, BookRestoring, ReverseRestoring DEF TicketStep
  <2>2. CASE LedgerCrud \/ NavCrud \/ FlowCrud \/ InvestmentCrud
    BY <2>2, OnlyRetypes, RetypeRestoring
  <2>3. CASE UNCHANGED vars
    BY <2>3 DEF vars, Restoring, OpeningStands, ImagesActive, KnownKept, ShellsKept, ShellsHeld,
                RetiredBy, BookedTickets, Standing, Status, Form, Updated, Of
  <2> QED
    BY <2>1, <2>2, <2>3 DEF Next
<1> QED
    BY <1>1, <1>2, RestoringRestores, TypeCorrect, StructureHolds, EffectsEnumerateTheEmission,
       EffectsOwned, UpdatesNamedHolds, PTL DEF Spec

-----------------------------------------------------------------------------
(* Sums over finite sets of rows.                                          *)
(*                                                                         *)
(* Units is a fold that takes the rows in an order nobody knows.  The      *)
(* lemmas unfold it, and show that the order does not matter.              *)

\* A set of natural numbers has a least element.
LEMMA Least ==
    ASSUME NEW S \in SUBSET Nat, S # {}
    PROVE  \E n \in S : \A k \in S : n <= k
<1> DEFINE LT == {pair \in Nat \X Nat : pair[1] < pair[2]}
<1>1. OpToRel(<, Nat) = LT
    BY Zenon DEF OpToRel
<1>2. IsWellFoundedOn(LT, Nat)
    BY <1>1, NatLessThanWellFounded, Zenon
<1>3. \A k, n \in Nat : k < n => <<k, n>> \in LT
    OBVIOUS
<1> HIDE DEF LT
<1>4. PICK n \in S : \A k \in S : <<k, n>> \notin LT
    BY <1>2, WFMin
<1>5. \A k \in S : ~(k < n)
    BY <1>3, <1>4
<1> QED
    BY <1>5

\* Among the finite sets of a collection one is smallest.
LEMMA Smallest ==
    ASSUME NEW C, C # {}, \A S \in C : IsFiniteSet(S)
    PROVE  \E S \in C : \A T \in C : Cardinality(S) <= Cardinality(T)
<1> DEFINE sizes == {Cardinality(S) : S \in C}
<1>1. sizes \in SUBSET Nat /\ sizes # {}
    BY FS_CardinalityType
<1>2. PICK n \in sizes : \A k \in sizes : n <= k
    BY <1>1, Least
<1> QED
    BY <1>2

First(S) == CHOOSE x \in S : TRUE

\* Function g gives each subset of S its sum.
SumsUp(g, S) ==
    g = [s \in SUBSET S |-> IF s = {} THEN 0 ELSE First(s).units + g[s \ {First(s)}]]

\* The equation of a sum, spelled out.
LEMMA SumsUpDef ==
    ASSUME NEW S, NEW g, SumsUp(g, S)
    PROVE  \A s \in SUBSET S :
               /\ s = {} => g[s] = 0
               /\ s # {} => /\ First(s) \in s /\ s \ {First(s)} \in SUBSET S
                            /\ g[s] = First(s).units + g[s \ {First(s)}]
BY DEF SumsUp, First

\* Two sums agree on the sets both give a sum to.
LEMMA SumsAgree ==
    ASSUME NEW S, NEW T, IsFiniteSet(S), NEW g, NEW h, SumsUp(g, S), SumsUp(h, T)
    PROVE  \A s \in (SUBSET S) \cap (SUBSET T) : g[s] = h[s]
<1> DEFINE bad == {s \in (SUBSET S) \cap (SUBSET T) : g[s] # h[s]}
<1> SUFFICES ASSUME bad # {} PROVE FALSE
    OBVIOUS
<1>1. \A s \in bad : IsFiniteSet(s)
    BY FS_Subset
<1>2. PICK s \in bad : \A v \in bad : Cardinality(s) <= Cardinality(v)
    BY <1>1, Smallest
<1>3. s # {}
    BY <1>2, SumsUpDef
<1> DEFINE rest == s \ {First(s)}
<1>4. /\ First(s) \in s /\ rest \in (SUBSET S) \cap (SUBSET T)
      /\ g[s] = First(s).units + g[rest] /\ h[s] = First(s).units + h[rest]
    BY <1>2, <1>3, SumsUpDef
<1>5. Cardinality(rest) = Cardinality(s) - 1 /\ Cardinality(s) \in Nat
    BY <1>1, <1>2, <1>4, FS_RemoveElement, FS_CardinalityType
<1>6. rest \notin bad
    BY <1>2, <1>5
<1> QED
    BY <1>2, <1>4, <1>6

SumOf(S) == CHOOSE g : SumsUp(g, S)

\* Units is such a sum, if there is one.
LEMMA UnitsIsSum == \A S : Units(S) = SumOf(S)[S]
BY DEF Units, MapThenSumSet, MapThenFoldSet, SumOf, SumsUp, First

\* A finite set of rows has a sum.
LEMMA SumsExist ==
    ASSUME NEW R, IsFiniteSet(R)
    PROVE  SumsUp(SumOf(R), R)
<1> DEFINE bad == {S \in SUBSET R : ~SumsUp(SumOf(S), S)}
<1> SUFFICES ASSUME bad # {} PROVE FALSE
    OBVIOUS
<1>1. \A S \in SUBSET R : IsFiniteSet(S)
    BY FS_Subset
<1>2. PICK S \in bad : \A T \in bad : Cardinality(S) <= Cardinality(T)
    BY <1>1, Smallest
<1>3. ASSUME NEW T \in SUBSET S, T # S PROVE SumsUp(SumOf(T), T)
  <2>1. Cardinality(T) < Cardinality(S)
    BY <1>1, <1>2, <1>3, FS_Subset, FS_CardinalityType
  <2> QED
    BY <1>1, <1>2, <2>1, FS_CardinalityType
<1> DEFINE sum(T) == SumOf(T)[T]
           g == [T \in SUBSET S |-> IF T = {} THEN 0 ELSE First(T).units + sum(T \ {First(T)})]
<1>4. ASSUME NEW T \in SUBSET S, T # S PROVE g[T] = sum(T)
  <2>1. SumsUp(SumOf(T), T)
    BY <1>3, <1>4
  <2>2. CASE T = {}
    BY <2>1, <2>2, SumsUpDef
  <2>3. CASE T # {}
    <3> DEFINE rest == T \ {First(T)}
    <3>1. First(T) \in T /\ sum(T) = First(T).units + SumOf(T)[rest]
        BY <2>1, <2>3, SumsUpDef
    <3>2. SumsUp(SumOf(rest), rest)
        BY <1>3, <3>1
    <3>3. SumOf(T)[rest] = sum(rest)
        BY <1>1, <1>2, <2>1, <3>2, SumsAgree
    <3> QED
        BY <2>3, <3>1, <3>3
  <2> QED
    BY <2>2, <2>3
<1>5. \A T \in SUBSET S : T # {} => T \ {First(T)} \in SUBSET S /\ T \ {First(T)} # S
    BY DEF First
<1>6. SumsUp(g, S)
  <2>1. \A T \in SUBSET S : T # {} => g[T \ {First(T)}] = sum(T \ {First(T)})
    BY <1>4, <1>5
  <2>2. g = [T \in SUBSET S |-> IF T = {} THEN 0 ELSE First(T).units + g[T \ {First(T)}]]
    BY <2>1
  <2> QED
    BY <2>2 DEF SumsUp
<1>7. SumsUp(SumOf(S), S)
    BY <1>6 DEF SumOf
<1> QED
    BY <1>2, <1>7

\* A row's units and the sum of the others: the row First picks.
LEMMA UnitsUnfold ==
    ASSUME NEW R, IsFiniteSet(R)
    PROVE  /\ Units({}) = 0
           /\ R # {} => First(R) \in R /\ Units(R) = First(R).units + Units(R \ {First(R)})
<1>1. SumsUp(SumOf(R), R) /\ SumsUp(SumOf({}), {})
    BY SumsExist, FS_EmptySet
<1>2. Units({}) = 0
    BY <1>1, SumsUpDef, UnitsIsSum
<1>3. ASSUME R # {} PROVE First(R) \in R /\ Units(R) = First(R).units + Units(R \ {First(R)})
  <2> DEFINE rest == R \ {First(R)}
  <2>1. First(R) \in R /\ rest \in SUBSET R /\ SumOf(R)[R] = First(R).units + SumOf(R)[rest]
      BY <1>1, <1>3, SumsUpDef
  <2>2. IsFiniteSet(rest)
      BY <2>1, FS_Subset
  <2>3. SumOf(R)[rest] = SumOf(rest)[rest]
      BY <1>1, <2>1, <2>2, SumsExist, SumsAgree
  <2> QED
      BY <2>1, <2>3, UnitsIsSum
<1> QED
    BY <1>2, <1>3

\* The units of finitely many rows add up to an integer.
LEMMA UnitsInt ==
    ASSUME NEW R, IsFiniteSet(R), \A r \in R : r.units \in Int
    PROVE  Units(R) \in Int
<1> DEFINE bad == {S \in SUBSET R : Units(S) \notin Int}
<1> SUFFICES ASSUME bad # {} PROVE FALSE
    OBVIOUS
<1>1. \A S \in SUBSET R : IsFiniteSet(S)
    BY FS_Subset
<1>2. PICK S \in bad : \A T \in bad : Cardinality(S) <= Cardinality(T)
    BY <1>1, Smallest
<1>3. S # {}
  <2>1. Units({}) = 0
      BY FS_EmptySet, UnitsUnfold
  <2> QED
      BY <1>2, <2>1
<1> DEFINE rest == S \ {First(S)}
<1>4. First(S) \in S /\ Units(S) = First(S).units + Units(rest)
    BY <1>1, <1>2, <1>3, UnitsUnfold
<1>5. Cardinality(rest) = Cardinality(S) - 1 /\ Cardinality(S) \in Nat
    BY <1>1, <1>2, <1>4, FS_RemoveElement, FS_CardinalityType
<1>6. rest \notin bad
    BY <1>2, <1>5
<1> QED
    BY <1>2, <1>4, <1>6

\* Any row can be taken out of the sum, not only the one First picks.
LEMMA UnitsRemove ==
    ASSUME NEW R, IsFiniteSet(R), \A r \in R : r.units \in Int
    PROVE  \A r \in R : Units(R) = r.units + Units(R \ {r})
<1> DEFINE Fine(S) == \A r \in S : Units(S) = r.units + Units(S \ {r})
           bad == {S \in SUBSET R : ~Fine(S)}
<1> SUFFICES ASSUME bad # {} PROVE FALSE
    OBVIOUS
<1>1. \A S \in SUBSET R : IsFiniteSet(S) /\ Units(S) \in Int
    BY FS_Subset, UnitsInt
<1>2. PICK S \in bad : \A T \in bad : Cardinality(S) <= Cardinality(T)
    BY <1>1, Smallest
<1>3. PICK r \in S : Units(S) # r.units + Units(S \ {r})
    BY <1>2
<1> DEFINE q == First(S)
           rest == S \ {q}
           both == S \ {q, r}
<1>4. q \in S /\ Units(S) = q.units + Units(rest)
    BY <1>1, <1>2, <1>3, UnitsUnfold
<1>5. r # q
    BY <1>3, <1>4
<1>6. ASSUME NEW x \in S PROVE Fine(S \ {x})
  <2>1. Cardinality(S \ {x}) = Cardinality(S) - 1 /\ Cardinality(S) \in Nat
      BY <1>1, <1>2, <1>6, FS_RemoveElement, FS_CardinalityType
  <2> QED
      BY <1>2, <2>1
<1>7. Units(rest) = r.units + Units(both)
  <2>1. rest \ {r} = both /\ r \in rest
      BY <1>5
  <2> QED
      BY <1>4, <1>6, <2>1
<1>8. Units(S \ {r}) = q.units + Units(both)
  <2>1. (S \ {r}) \ {q} = both /\ q \in S \ {r}
      BY <1>4, <1>5
  <2> QED
      BY <1>6, <2>1
<1>9. Units(both) \in Int /\ r.units \in Int /\ q.units \in Int
    BY <1>1, <1>2, <1>4
<1> HIDE DEF q, rest, both
<1> QED
    BY <1>3, <1>4, <1>7, <1>8, <1>9

\* A new row adds its units to what its own investment holds from its day on.
LEMMA HoldAdd ==
    ASSUME NEW R, IsFiniteSet(R), NEW r, r \notin R, \A q \in R \cup {r} : q.units \in Int
    PROVE  \A i, day : HoldingsAsOf(R \cup {r}, i, day)
                = HoldingsAsOf(R, i, day) + (IF r.inv = i /\ r.day <= day THEN r.units ELSE 0)
<1> TAKE i, day
<1> DEFINE Until(S) == {q \in RowsOf(S, i) : q.day <= day}
<1>1. Until(R) \subseteq R /\ Until(R \cup {r}) \subseteq R \cup {r}
    BY DEF RowsOf
<1>2. IsFiniteSet(Until(R)) /\ IsFiniteSet(Until(R \cup {r})) /\ Units(Until(R)) \in Int
  <2>1. IsFiniteSet(Until(R)) /\ IsFiniteSet(Until(R \cup {r}))
      BY <1>1, FS_Subset, FS_AddElement
  <2>2. \A q \in Until(R) : q.units \in Int
      BY <1>1
  <2> HIDE DEF Until
  <2> QED
      BY <2>1, <2>2, UnitsInt
<1>3. CASE r.inv = i /\ r.day <= day
  <2>1. r \in Until(R \cup {r}) /\ Until(R \cup {r}) \ {r} = Until(R)
      BY <1>3 DEF RowsOf
  <2>2. Units(Until(R \cup {r})) = r.units + Units(Until(R))
      BY <1>1, <1>2, <2>1, UnitsRemove
  <2> QED
      BY <1>2, <1>3, <2>2 DEF HoldingsAsOf
<1>4. CASE ~(r.inv = i /\ r.day <= day)
  <2>1. Until(R \cup {r}) = Until(R)
      BY <1>4 DEF RowsOf
  <2>2. HoldingsAsOf(R \cup {r}, i, day) = HoldingsAsOf(R, i, day) /\ HoldingsAsOf(R, i, day) \in Int
      BY <1>2, <2>1 DEF HoldingsAsOf
  <2> QED
      BY <1>4, <2>2
<1> QED
    BY <1>3, <1>4

\* So does what is held of an investment as of a day.
LEMMA HoldInt ==
    ASSUME NEW R, IsFiniteSet(R), \A q \in R : q.units \in Int
    PROVE  \A i, day : HoldingsAsOf(R, i, day) \in Int
<1> TAKE i, day
<1>1. {q \in RowsOf(R, i) : q.day <= day} \subseteq R
    BY DEF RowsOf
<1> QED
    BY <1>1, FS_Subset, UnitsInt DEF HoldingsAsOf

-----------------------------------------------------------------------------
(* A reversal moves back what the booking moved.                           *)

Traded(f) == IF f.direction = "sell" THEN -f.units ELSE f.units
Settled(f) == IF f.direction = "sell" THEN f.amount ELSE -f.amount
Trades(f) == f.kind = "order"
Settles(f) == CashMoving(f) /\ f.amount # 0

InstrumentRow(t, f, r) ==
    r.id = <<t, "instrument">> /\ r.inv = f.inv /\ r.day = f.day /\ r.units = Traded(f)
CashRow(t, f, r) ==
    r.id = <<t, "cash">> /\ r.inv = f.cash /\ r.day = f.day /\ r.units = Settled(f)
AsBooked(t, f, r) ==
    \/ Trades(f) /\ InstrumentRow(t, f, r)
    \/ Settles(f) /\ CashRow(t, f, r)

\* The rows L are the ledger rows that form f of ticket t states.
LegsOf(t, f, L) ==
    /\ CashMoving(f) => f.amount \in Int
    /\ \A r \in L : AsBooked(t, f, r)
    /\ Trades(f) => \E r \in L : InstrumentRow(t, f, r)
    /\ Settles(f) => \E r \in L : CashRow(t, f, r)
    /\ \A q, r \in L : q.id = r.id => q = r

\* The legs of a form move every holding by what the form states.
LEMMA HoldLegs ==
    ASSUME NEW R, IsFiniteSet(R), NEW L, L \cap R = {}, \A q \in R \cup L : q.units \in Int,
           NEW t, NEW f, LegsOf(t, f, L)
    PROVE  /\ IsFiniteSet(R \cup L)
           /\ \A i, day : HoldingsAsOf(R \cup L, i, day) = HoldingsAsOf(R, i, day) + Moved(f, i, day)
<1> DEFINE traded(i, day) == IF Trades(f) /\ f.inv = i /\ f.day <= day THEN Traded(f) ELSE 0
           settled(i, day) == IF Settles(f) /\ f.cash = i /\ f.day <= day THEN Settled(f) ELSE 0
           A == {r \in L : r.id = <<t, "instrument">>}
           C == L \ A
           RA == R \cup A
<1>1. /\ IsFiniteSet(R \cup A)
      /\ \A i, day : HoldingsAsOf(R \cup A, i, day) = HoldingsAsOf(R, i, day) + traded(i, day)
  <2>1. A \cap R = {} /\ \A q \in R \cup A : q.units \in Int
    OBVIOUS
  <2>2. CASE Trades(f)
    <3>1. PICK a : A = {a} /\ a.inv = f.inv /\ a.day = f.day /\ a.units = Traded(f)
        BY <2>2 DEF LegsOf, InstrumentRow
    <3> HIDE DEF A
    <3>2. IsFiniteSet(R \cup {a})
        BY FS_AddElement
    <3>3. a \notin R /\ \A q \in R \cup {a} : q.units \in Int
        BY <2>1, <3>1
    <3>4. \A i, day : HoldingsAsOf(R \cup {a}, i, day)
               = HoldingsAsOf(R, i, day) + (IF a.inv = i /\ a.day <= day THEN a.units ELSE 0)
        BY <3>3, HoldAdd
    <3>5. \A i, day : traded(i, day) = IF a.inv = i /\ a.day <= day THEN a.units ELSE 0
        BY <2>2, <3>1
    <3> HIDE DEF traded
    <3>6. R \cup A = R \cup {a}
        BY <3>1
    <3> QED
        BY <3>2, <3>4, <3>5, <3>6
  <2>3. CASE ~Trades(f)
    <3>1. A = {}
        BY <2>3 DEF LegsOf, AsBooked, CashRow
    <3>2. \A i, day : traded(i, day) = 0
        BY <2>3
    <3> HIDE DEF A, traded
    <3>3. R \cup A = R
        BY <3>1
    <3>4. \A i, day : HoldingsAsOf(R, i, day) \in Int
        BY <2>1, HoldInt
    <3>5. \A i, day : HoldingsAsOf(R, i, day) + traded(i, day) = HoldingsAsOf(R, i, day)
        BY <3>2, <3>4
    <3> QED
        BY <3>3, <3>5
  <2> QED
    BY <2>2, <2>3
<1>2. IsFiniteSet(RA)
    BY <1>1
<1>3. /\ IsFiniteSet(RA \cup C)
      /\ \A i, day : HoldingsAsOf(RA \cup C, i, day) = HoldingsAsOf(RA, i, day) + settled(i, day)
  <2>1. C \cap RA = {} /\ \A q \in RA \cup C : q.units \in Int
    OBVIOUS
  <2>2. CASE Settles(f)
    <3>1. PICK a : C = {a} /\ a.inv = f.cash /\ a.day = f.day /\ a.units = Settled(f)
        BY <2>2 DEF LegsOf, AsBooked, InstrumentRow, CashRow
    <3> HIDE DEF RA, C
    <3>2. IsFiniteSet(RA \cup {a})
        BY <1>2, FS_AddElement
    <3>3. a \notin RA /\ \A q \in RA \cup {a} : q.units \in Int
        BY <2>1, <3>1
    <3>4. \A i, day : HoldingsAsOf(RA \cup {a}, i, day)
               = HoldingsAsOf(RA, i, day) + (IF a.inv = i /\ a.day <= day THEN a.units ELSE 0)
        BY <1>2, <3>3, HoldAdd
    <3>5. \A i, day : settled(i, day) = IF a.inv = i /\ a.day <= day THEN a.units ELSE 0
        BY <2>2, <3>1
    <3> HIDE DEF settled
    <3>6. RA \cup C = RA \cup {a}
        BY <3>1
    <3> QED
        BY <3>2, <3>4, <3>5, <3>6
  <2>3. CASE ~Settles(f)
    <3>1. C = {}
        BY <2>3 DEF LegsOf, AsBooked, InstrumentRow
    <3>2. \A i, day : settled(i, day) = 0
        BY <2>3
    <3> HIDE DEF RA, C, settled
    <3>3. RA \cup C = RA
        BY <3>1
    <3>4. \A i, day : HoldingsAsOf(RA, i, day) \in Int
        BY <1>2, <2>1, HoldInt
    <3>5. \A i, day : HoldingsAsOf(RA, i, day) + settled(i, day) = HoldingsAsOf(RA, i, day)
        BY <3>2, <3>4
    <3> QED
        BY <1>2, <3>3, <3>5
  <2> QED
    BY <2>2, <2>3
<1>4. RA \cup C = R \cup L
    OBVIOUS
<1>5. \A i, day : HoldingsAsOf(R, i, day) \in Int
    BY HoldInt
<1>6. Trades(f) => Traded(f) \in Int
  <2> SUFFICES ASSUME Trades(f) PROVE Traded(f) \in Int
    OBVIOUS
  <2>1. PICK a \in L : InstrumentRow(t, f, a)
    BY DEF LegsOf
  <2> QED
    BY <2>1 DEF InstrumentRow
<1>7. CashMoving(f) => Settled(f) \in Int /\ (f.amount = 0 => Settled(f) = 0)
    BY DEF LegsOf, Settled
<1>8. \A i, day : /\ Moved(f, i, day) = traded(i, day) + settled(i, day)
                  /\ traded(i, day) \in Int /\ settled(i, day) \in Int
    BY <1>6, <1>7 DEF Moved, Traded, Settled, Trades, Settles
<1> HIDE DEF RA, C, traded, settled
<1>9. ASSUME NEW i, NEW day
      PROVE  HoldingsAsOf(R \cup L, i, day) = HoldingsAsOf(R, i, day) + Moved(f, i, day)
  <2>1. HoldingsAsOf(R \cup L, i, day)
            = (HoldingsAsOf(R, i, day) + traded(i, day)) + settled(i, day)
    BY <1>1, <1>3, <1>4 DEF RA
  <2>2. /\ HoldingsAsOf(R, i, day) \in Int /\ traded(i, day) \in Int /\ settled(i, day) \in Int
        /\ Moved(f, i, day) = traded(i, day) + settled(i, day)
    BY <1>5, <1>8
  <2> QED
    BY <2>1, <2>2
<1> QED
    BY <1>3, <1>4, <1>9

\* A booking names the investment it created and leaves the rest of the form.
LEMMA BookFormRest ==
    ASSUME TypeOK, NEW t \in Tickets, NEW u \in Users, Book(t, u)
    PROVE  /\ Form(t)'.kind = Form(t).kind /\ Form(t)'.direction = Form(t).direction
           /\ Form(t)'.day = Form(t).day /\ Form(t)'.units = Form(t).units
           /\ Form(t)'.amount = Form(t).amount
<1>1. Form(t) \in DraftForms
    BY DEF TypeOK, Attributed, Status, Form, Book, Bookable
<1>2. \A row \in TicketRows : Walked(row, u).form = row.form
    BY DEF Walked, TicketRows
<1>3. tickets[t] \in TicketRows /\ [tickets[t] EXCEPT !.form.inv = Shell(t)] \in TicketRows
    BY <1>1, ShellFacts DEF TypeOK, TicketRows, DraftForms, Form
<1>4. [tickets[t] EXCEPT !.form.inv = Shell(t)].form = [Form(t) EXCEPT !.inv = Shell(t)]
    BY <1>3 DEF Form, TicketRows
<1>5. Form(t)' = Form(t) \/ Form(t)' = [Form(t) EXCEPT !.inv = Shell(t)]
  <2>1. tickets'[t] = Walked(IF Creating(Form(t)) THEN [tickets[t] EXCEPT !.form.inv = Shell(t)]
                                                 ELSE tickets[t], u)
    BY DEF Book, TypeOK
  <2> QED
    BY <1>2, <1>3, <1>4, <2>1 DEF Form
<1> QED
    BY <1>1, <1>5 DEF DraftForms

\* A booking adds the ledger rows its form states, and its effects name them.
LEMMA BookLegs ==
    ASSUME TypeOK, Structure, EmissionsEnumerated,
           NEW t \in Tickets, NEW u \in Users, Book(t, u)
    PROVE  \E L : /\ ledger' = ledger \cup L
                  /\ \A r \in ledger : r.id \notin OwnRows(t)
                  /\ \A r \in L : r.id \in OwnRows(t)
                  /\ LegsOf(t, Form(t)', L)
                  /\ RowEffects("position_txn", L) \subseteq effects'[t]
<1> DEFINE f == Form(t)
           g == Form(t)'
           i == IF Creating(f) THEN Shell(t) ELSE f.inv
           cash == CashLeg(t, f)
           inst == InstrumentLeg(t, f, i)
<1>1. f \in DraftForms /\ Blocks(f)
    BY DEF TypeOK, Book, Bookable, Status, Form, Attributed
<1>2. f.amount \in Int /\ f.units \in Nat
    BY <1>1, BlocksType DEF DraftForms
<1>3. /\ g.inv = i /\ g.cash = f.cash /\ g.kind = f.kind /\ g.direction = f.direction
      /\ g.day = f.day /\ g.units = f.units /\ g.amount = f.amount
    BY BookForm, BookFormRest
<1>4. \A r \in ledger : r.id \notin OwnRows(t)
  <2>1. Status(t) # "booked"
    BY DEF Book, Bookable
  <2> QED
    BY <2>1 DEF EmissionsEnumerated, EnumeratedIn, EmittedBy
<1>5. /\ Traded(g) = Traded(f) /\ Settled(g) = Settled(f)
      /\ (Trades(g) <=> Trades(f)) /\ (Settles(g) <=> Settles(f))
      /\ (CashMoving(g) <=> CashMoving(f))
    BY <1>3 DEF Traded, Settled, Trades, Settles, CashMoving
<1>6. \A r \in inst : InstrumentRow(t, g, r)
    BY <1>3, <1>5 DEF InstrumentLeg, LedgerRow, InstrumentRow, Traded
<1>7. \A r \in cash : CashRow(t, g, r) /\ f.amount # 0
    BY <1>2, <1>3, <1>5 DEF CashLeg, LedgerRow, CashRow, Settled
<1>8. (\E r : inst = {r}) /\ (f.amount # 0 => \E r : cash = {r}) /\ (f.amount = 0 => cash = {})
    BY <1>2 DEF InstrumentLeg, CashLeg
<1>9. \A r \in inst \cup cash : r.id \in OwnRows(t)
    BY CashLegOwn, InstrumentLegOwn
<1> HIDE DEF f, g, i, cash, inst
<1>10. ASSUME Trades(f)
       PROVE  ledger' = ledger \cup (inst \cup cash)
              /\ RowEffects("position_txn", inst \cup cash) \subseteq effects'[t]
              /\ CashMoving(f)
  <2>1. CASE EmitOrder(t, f)
    BY <2>1 DEF EmitOrder, TypeOK, CashMoving, inst, cash, i
  <2>2. CASE EmitNewOrder(t, f)
    BY <2>2 DEF EmitNewOrder, TypeOK, CashMoving, inst, cash, i
  <2> QED
    BY <1>10, <2>1, <2>2 DEF Book, EmitCommitment, EmitSecondarySell, EmitSecondaryBuy, Trades, f
<1>11. ASSUME ~Trades(f), CashMoving(f)
       PROVE  ledger' = ledger \cup cash
              /\ RowEffects("position_txn", cash) \subseteq effects'[t]
  <2>1. CASE EmitSecondarySell(t, f)
    BY <2>1 DEF EmitSecondarySell, TypeOK, cash
  <2>2. CASE EmitSecondaryBuy(t, f)
    BY <2>2 DEF EmitSecondaryBuy, TypeOK, cash
  <2> QED
    BY <1>11, <2>1, <2>2 DEF Book, EmitCommitment, EmitOrder, EmitNewOrder, Trades, CashMoving, f
<1>12. ASSUME ~Trades(f), ~CashMoving(f) PROVE ledger' = ledger
    BY <1>12 DEF Book, EmitCommitment, EmitOrder, EmitNewOrder, EmitSecondarySell,
                 EmitSecondaryBuy, Trades, CashMoving, f
<1>13. CASE Trades(f)
  <2>1. LegsOf(t, g, inst \cup cash)
    <3>1. CashMoving(g) /\ g.amount \in Int /\ Trades(g) /\ (Settles(g) <=> f.amount # 0)
        BY <1>2, <1>3, <1>5, <1>10, <1>13 DEF Settles
    <3>2. \A r \in inst \cup cash : AsBooked(t, g, r)
        BY <1>6, <1>7, <3>1 DEF AsBooked
    <3>3. /\ \E r \in inst \cup cash : InstrumentRow(t, g, r)
          /\ Settles(g) => \E r \in inst \cup cash : CashRow(t, g, r)
        BY <1>6, <1>7, <1>8, <3>1
    <3>4. \A q, r \in inst \cup cash : q.id = r.id => q = r
      <4>1. \A q \in inst, r \in cash : q.id # r.id
        BY <1>6, <1>7 DEF InstrumentRow, CashRow
      <4>2. (\A q, r \in inst : q = r) /\ (\A q, r \in cash : q = r)
        BY <1>8
      <4> QED
        BY <4>1, <4>2
    <3> QED
        BY <3>1, <3>2, <3>3, <3>4 DEF LegsOf
  <2> QED
    BY <1>4, <1>9, <1>10, <1>13, <2>1 DEF g
<1>14. CASE ~Trades(f) /\ CashMoving(f)
  <2>1. LegsOf(t, g, cash)
    BY <1>2, <1>3, <1>5, <1>7, <1>8, <1>14 DEF LegsOf, AsBooked, CashRow, Settles
  <2> QED
    BY <1>4, <1>9, <1>11, <1>14, <2>1 DEF g
<1>15. CASE ~Trades(f) /\ ~CashMoving(f)
  <2>1. LegsOf(t, g, {})
    BY <1>5, <1>15 DEF LegsOf, Settles
  <2>2. ledger' = ledger \cup {} /\ RowEffects("position_txn", {}) \subseteq effects'[t]
    BY <1>12, <1>15 DEF RowEffects
  <2> QED
    BY <1>4, <2>1, <2>2 DEF g
<1> QED
    BY <1>13, <1>14, <1>15

\* What is known of a booked ticket's rows in the ledger: each stands as the form
\* states it, or the audit log shows that it was edited.
LegsKept ==
    \A t \in BookedTickets :
        /\ CashMoving(Form(t)) => Form(t).amount \in Int
        /\ Trades(Form(t)) => Effect("position_txn", <<t, "instrument">>, None) \in effects[t]
        /\ Settles(Form(t)) => Effect("position_txn", <<t, "cash">>, None) \in effects[t]
        /\ \A r \in EmittedBy(ledger, t) :
               AsBooked(t, Form(t), r) \/ <<t, r.id>> \in modified
        /\ \A q, r \in EmittedBy(ledger, t) : q.id = r.id => q = r

\* A booking leaves behind what LegsKept says of a booked ticket.
LEMMA BookKeepsLegs ==
    ASSUME TypeOK, Structure, EmissionsEnumerated,
           NEW t \in Tickets, NEW u \in Users, Book(t, u)
    PROVE  /\ CashMoving(Form(t)') => Form(t)'.amount \in Int
           /\ Trades(Form(t)') => Effect("position_txn", <<t, "instrument">>, None) \in effects'[t]
           /\ Settles(Form(t)') => Effect("position_txn", <<t, "cash">>, None) \in effects'[t]
           /\ \A r \in EmittedBy(ledger', t) : AsBooked(t, Form(t)', r)
           /\ \A q, r \in EmittedBy(ledger', t) : q.id = r.id => q = r
<1> DEFINE g == Form(t)'
<1>1. PICK L : /\ ledger' = ledger \cup L
               /\ \A r \in ledger : r.id \notin OwnRows(t)
               /\ \A r \in L : r.id \in OwnRows(t)
               /\ LegsOf(t, g, L)
               /\ RowEffects("position_txn", L) \subseteq effects'[t]
    BY BookLegs
<1> HIDE DEF g
<1>2. EmittedBy(ledger', t) = L
    BY <1>1 DEF EmittedBy
<1>3. \A r \in L : Effect("position_txn", r.id, None) \in effects'[t]
    BY <1>1 DEF RowEffects
<1>4. Trades(g) => Effect("position_txn", <<t, "instrument">>, None) \in effects'[t]
    BY <1>1, <1>3 DEF LegsOf, InstrumentRow
<1>5. Settles(g) => Effect("position_txn", <<t, "cash">>, None) \in effects'[t]
    BY <1>1, <1>3 DEF LegsOf, CashRow
<1> QED
    BY <1>1, <1>2, <1>4, <1>5 DEF LegsOf, g

\* No other ticket's step touches the ledger rows of t.
LEMMA OthersSpareTheLegs ==
    ASSUME TypeOK, Structure, EmissionsEnumerated, NEW s \in Tickets, TicketStep(s),
           NEW t \in Tickets, s # t
    PROVE  EmittedBy(ledger', t) \subseteq EmittedBy(ledger, t)
<1>1. CASE \E u \in Users : Book(s, u)
  <2>1. PICK L : ledger' = ledger \cup L /\ \A r \in L : r.id \in OwnRows(s)
    BY <1>1, BookLegs
  <2> QED
    BY <2>1, OwnRowsApart DEF EmittedBy
<1>2. CASE ~\E u \in Users : Book(s, u)
  <2>1. ledger' \subseteq ledger
    BY <1>2 DEF TicketStep, CreateDraft, UpdateDraft, Propose, Cancel, book,
                Reverse, ReverseOrder, ReverseAndDelete, ReverseAndRetire, Undo, LedgerWithout
  <2> QED
    BY <2>1 DEF EmittedBy
<1> QED
    BY <1>1, <1>2

\* A restatement of a ledger row through the CRUD is an edit of that row.
LEMMA CrudOfTheLedger ==
    ASSUME TypeOK, LedgerCrud \/ NavCrud \/ FlowCrud \/ InvestmentCrud
    PROVE  \/ \A r \in ledger' : r \in ledger \/ r.id \in UserRows
           \/ \E r \in ledger : \E q : /\ ledger' = (ledger \ {r}) \cup {q}
                                       /\ q.id = r.id /\ modified' = Touch({r.id})
<1>1. CASE LedgerCrud
  <2>1. CASE \E id \in UserRows, i \in CrudTargets, day \in Days, units \in TxnUnits :
                AddTxn(id, i, day, units)
    BY <2>1 DEF AddTxn, LedgerRow
  <2>2. CASE \E r \in ledger, day \in Days, units \in TxnUnits : UpdateTxn(r, day, units)
    <3>1. PICK r \in ledger, day \in Days, units \in TxnUnits : UpdateTxn(r, day, units)
        BY <2>2
    <3>2. [r EXCEPT !.day = day, !.units = units].id = r.id
        BY DEF TypeOK, LedgerRows
    <3> QED
        BY <3>1, <3>2 DEF UpdateTxn, Edits
  <2>3. CASE \E r \in ledger : DeleteTxn(r)
    BY <2>3 DEF DeleteTxn
  <2> QED
    BY <1>1, <2>1, <2>2, <2>3 DEF LedgerCrud
<1>2. CASE NavCrud
    BY <1>2 DEF NavCrud, AddNav, UpdateNav, DeleteNav, book
<1>3. CASE FlowCrud
    BY <1>3 DEF FlowCrud, AddFlow, UpdateFlow, DeleteFlow, book
<1>4. CASE InvestmentCrud
    BY <1>4 DEF InvestmentCrud, SetActive, EditInvestment, Retype, DeleteInvestment
<1> QED
    BY <1>1, <1>2, <1>3, <1>4

\* The CRUD never takes an edit out of the audit log.
LEMMA CrudKeepsAudit ==
    ASSUME LedgerCrud \/ NavCrud \/ FlowCrud \/ InvestmentCrud
    PROVE  modified \subseteq modified'
BY CrudEdits DEF Edits, Touch

\* No step of another ticket and no CRUD operation takes that away: a restated row shows
\* in the audit log.
LEMMA LegsKeptNext ==
    TypeOK /\ Structure /\ EmissionsEnumerated /\ LegsKept /\ [Next]_vars => LegsKept'
<1> SUFFICES ASSUME TypeOK, Structure, EmissionsEnumerated, LegsKept, [Next]_vars,
                    NEW t \in Tickets, Status(t)' = "booked"
             PROVE  /\ CashMoving(Form(t)') => Form(t)'.amount \in Int
                    /\ Trades(Form(t)')
                          => Effect("position_txn", <<t, "instrument">>, None) \in effects'[t]
                    /\ Settles(Form(t)') => Effect("position_txn", <<t, "cash">>, None) \in effects'[t]
                    /\ \A r \in EmittedBy(ledger', t) :
                           AsBooked(t, Form(t)', r) \/ <<t, r.id>> \in modified'
                    /\ \A q, r \in EmittedBy(ledger', t) : q.id = r.id => q = r
    BY DEF LegsKept, BookedTickets
<1>1. ASSUME NEW u \in Users, Book(t, u)
      PROVE  /\ CashMoving(Form(t)') => Form(t)'.amount \in Int
             /\ Trades(Form(t)')
                   => Effect("position_txn", <<t, "instrument">>, None) \in effects'[t]
             /\ Settles(Form(t)') => Effect("position_txn", <<t, "cash">>, None) \in effects'[t]
             /\ \A r \in EmittedBy(ledger', t) : AsBooked(t, Form(t)', r)
             /\ \A q, r \in EmittedBy(ledger', t) : q.id = r.id => q = r
    BY <1>1, BookKeepsLegs
<1>2. CASE Status(t) = "booked" /\ Form(t)' = Form(t) /\ effects'[t] = effects[t]
  <2> DEFINE f == Form(t)
  <2>1. /\ CashMoving(f) => f.amount \in Int
        /\ Trades(f) => Effect("position_txn", <<t, "instrument">>, None) \in effects[t]
        /\ Settles(f) => Effect("position_txn", <<t, "cash">>, None) \in effects[t]
        /\ \A r \in EmittedBy(ledger, t) : AsBooked(t, f, r) \/ <<t, r.id>> \in modified
        /\ \A q, r \in EmittedBy(ledger, t) : q.id = r.id => q = r
    BY <1>2 DEF LegsKept, BookedTickets
  <2> SUFFICES /\ \A r \in EmittedBy(ledger', t) : AsBooked(t, f, r) \/ <<t, r.id>> \in modified'
               /\ \A q, r \in EmittedBy(ledger', t) : q.id = r.id => q = r
    BY <1>2, <2>1
  <2>2. ASSUME EmittedBy(ledger', t) \subseteq EmittedBy(ledger, t),
               \A m \in modified : m[1] = t => m \in modified'
        PROVE  /\ \A r \in EmittedBy(ledger', t) : AsBooked(t, f, r) \/ <<t, r.id>> \in modified'
               /\ \A q, r \in EmittedBy(ledger', t) : q.id = r.id => q = r
    <3>1. \A x : <<t, x>>[1] = t
        OBVIOUS
    <3> QED
        BY <2>1, <2>2, <3>1
  <2>3. ASSUME NEW s \in Tickets, TicketStep(s)
        PROVE  /\ \A r \in EmittedBy(ledger', t) : AsBooked(t, f, r) \/ <<t, r.id>> \in modified'
               /\ \A q, r \in EmittedBy(ledger', t) : q.id = r.id => q = r
    <3>1. s # t
        <4>1. ASSUME s = t PROVE FALSE
          <5>1. Reverse(t)
            BY <1>2, <2>3, <4>1, ReverseMoves
          <5>2. StationMove(tickets[t], tickets'[t])
            BY <2>3, <4>1, StationMoves
          <5>3. Status(t)' = "booked"
            OBVIOUS
          <5> QED
            BY <1>2, <5>2, <5>3 DEF StationMove, Status, Bookable
        <4> QED
          BY <4>1
    <3>2. EmittedBy(ledger', t) \subseteq EmittedBy(ledger, t)
        BY <2>3, <3>1, OthersSpareTheLegs
    <3>3. \A m \in modified : m[1] = t => m \in modified'
        BY <2>3, <3>1, TicketStepsKeepAudit
    <3> QED
        BY <2>2, <3>2, <3>3
  <2>4. CASE LedgerCrud \/ NavCrud \/ FlowCrud \/ InvestmentCrud
    <3>1. modified \subseteq modified'
        BY <2>4, CrudKeepsAudit
    <3>2. CASE \A r \in ledger' : r \in ledger \/ r.id \in UserRows
      <4>1. EmittedBy(ledger', t) \subseteq EmittedBy(ledger, t)
        BY <3>2, OwnRowsApart DEF EmittedBy
      <4> QED
        BY <2>2, <3>1, <4>1
    <3>3. CASE \E r \in ledger : \E q : /\ ledger' = (ledger \ {r}) \cup {q}
                                        /\ q.id = r.id /\ modified' = Touch({r.id})
      <4>1. PICK r \in ledger : \E q : /\ ledger' = (ledger \ {r}) \cup {q}
                                       /\ q.id = r.id /\ modified' = Touch({r.id})
        BY <3>3
      <4>2. PICK q : ledger' = (ledger \ {r}) \cup {q} /\ q.id = r.id /\ modified' = Touch({r.id})
        BY <4>1
      <4>3. ASSUME r.id \in OwnRows(t) PROVE <<t, q.id>> \in modified'
        <5>1. Effect("position_txn", r.id, None) \in effects[t]
            BY <4>3 DEF EmissionsEnumerated, EnumeratedIn, EmittedBy
        <5>2. r.id \in EffectIds(effects[t])
            BY <5>1 DEF EffectIds, Effect
        <5>3. <<t, r.id>> \in Touch({r.id})
            BY <1>2, <5>2 DEF Touch, Status
        <5> QED
            BY <4>2, <5>3
      <4>4. \A x \in EmittedBy(ledger', t) :
                (x \in EmittedBy(ledger, t) /\ x # r) \/ (x = q /\ r \in EmittedBy(ledger, t))
        BY <4>2 DEF EmittedBy
      <4>5. \A x \in EmittedBy(ledger', t) : AsBooked(t, f, x) \/ <<t, x.id>> \in modified'
        BY <2>1, <3>1, <4>3, <4>4 DEF EmittedBy
      <4>6. \A x, y \in EmittedBy(ledger', t) : x.id = y.id => x = y
        BY <2>1, <4>2, <4>4
      <4> QED
        BY <4>5, <4>6
    <3> QED
        BY <2>4, <3>2, <3>3, CrudOfTheLedger
  <2>5. CASE UNCHANGED vars
    BY <2>2, <2>5 DEF vars
  <2> QED
    BY <2>3, <2>4, <2>5 DEF Next
<1> QED
    BY <1>1, <1>2, BookedBefore

LEMMA LegsKeptHolds == Spec => []LegsKept
<1>1. Init => LegsKept
    BY DEF Init, LegsKept, BookedTickets, Status
<1> QED
    BY <1>1, LegsKeptNext, TypeCorrect, StructureHolds, EffectsEnumerateTheEmission, PTL DEF Spec

\* The ledger is a finite set of rows, as a table is.
LEMMA LedgerFinite == Spec => []IsFiniteSet(ledger)
<1>1. Init => IsFiniteSet(ledger)
    BY OpeningAssumption DEF Init
<1>2. TypeOK /\ Structure /\ EmissionsEnumerated /\ IsFiniteSet(ledger) /\ [Next]_vars
          => IsFiniteSet(ledger)'
  <2> SUFFICES ASSUME TypeOK, Structure, EmissionsEnumerated, IsFiniteSet(ledger), [Next]_vars
               PROVE  IsFiniteSet(ledger')
    OBVIOUS
  <2>1. ASSUME ledger' \subseteq ledger PROVE IsFiniteSet(ledger')
    BY <2>1, FS_Subset
  <2>2. ASSUME NEW r, ledger' \subseteq ledger \cup {r} PROVE IsFiniteSet(ledger')
    <3>1. IsFiniteSet(ledger \cup {r})
        BY FS_AddElement
    <3> QED
        BY <2>2, <3>1, FS_Subset
  <2>3. ASSUME NEW t \in Tickets, NEW u \in Users, Book(t, u) PROVE IsFiniteSet(ledger')
    <3>1. PICK L : /\ ledger' = ledger \cup L /\ \A r \in ledger : r.id \notin OwnRows(t)
                   /\ (\A r \in L : r.id \in OwnRows(t)) /\ LegsOf(t, Form(t)', L)
        BY <2>3, BookLegs
    <3>2. L \cap ledger = {} /\ \A r \in ledger \cup L : r.units \in Int
      <4>1. TypeOK'
        BY <2>3, NextType DEF Next, TicketStep
      <4> QED
        BY <3>1, <4>1 DEF TypeOK, LedgerRows
    <3> QED
        BY <3>1, <3>2, HoldLegs
  <2>4. ASSUME NEW t \in Tickets, TicketStep(t), ~\E u \in Users : Book(t, u)
        PROVE  ledger' \subseteq ledger
    BY <2>4 DEF TicketStep, CreateDraft, UpdateDraft, Propose, Cancel, book,
                Reverse, ReverseOrder, ReverseAndDelete, ReverseAndRetire, Undo, LedgerWithout
  <2>5. CASE LedgerCrud
    BY <2>2, <2>5 DEF LedgerCrud, AddTxn, UpdateTxn, DeleteTxn
  <2>6. CASE NavCrud \/ FlowCrud \/ InvestmentCrud
    BY <2>1, <2>6 DEF NavCrud, AddNav, UpdateNav, DeleteNav, FlowCrud, AddFlow, UpdateFlow,
                      DeleteFlow, InvestmentCrud, SetActive, EditInvestment, Retype,
                      DeleteInvestment, book
  <2>7. CASE UNCHANGED vars
    BY <2>7 DEF vars
  <2> QED
    BY <2>1, <2>3, <2>4, <2>5, <2>6, <2>7 DEF Next
<1> QED
    BY <1>1, <1>2, TypeCorrect, StructureHolds, EffectsEnumerateTheEmission, PTL DEF Spec

\* A reversal that the audit log lets through finds the rows as they were booked,
\* all of them, and removes no other.
LEMMA ReversedLegs ==
    ASSUME TypeOK, EmissionsEnumerated, EffectsAreOwn, LegsKept,
           NEW t \in Tickets, Reverse(t)
    PROVE  /\ ledger' \subseteq ledger
           /\ LegsOf(t, Form(t), ledger \ ledger')
<1> DEFINE f == Form(t)
           L == EmittedBy(ledger, t)
<1>1. Status(t) = "booked" /\ Untouched(t) /\ ledger' = LedgerWithout(t)
    BY DEF Reverse, ReverseOrder, ReverseAndDelete, ReverseAndRetire, Undo
<1>2. ledger \ ledger' = L /\ ledger' \subseteq ledger
  <2>1. ASSUME NEW r \in ledger \ ledger' PROVE r.id \in OwnRows(t)
    <3>1. \E e \in effects[t] : e.id = r.id /\ e.type # "investment_update"
        BY <1>1 DEF LedgerWithout, EffectIds, Of
    <3> QED
        BY <1>1, <3>1 DEF EffectsAreOwn, BookedTickets
  <2>2. ASSUME NEW r \in L PROVE r \notin ledger'
    <3>1. r \in ledger /\ r.id \in OwnRows(t)
        BY DEF EmittedBy
    <3> QED
        BY <1>1, <3>1, EnumeratedRow DEF EmissionsEnumerated, LedgerWithout
  <2> QED
    BY <1>1, <2>1, <2>2 DEF LedgerWithout, EmittedBy
<1>3. /\ CashMoving(f) => f.amount \in Int
      /\ Trades(f) => Effect("position_txn", <<t, "instrument">>, None) \in effects[t]
      /\ Settles(f) => Effect("position_txn", <<t, "cash">>, None) \in effects[t]
      /\ \A r \in L : AsBooked(t, f, r) \/ <<t, r.id>> \in modified
      /\ \A q, r \in L : q.id = r.id => q = r
    BY <1>1 DEF LegsKept, BookedTickets
<1>4. ASSUME NEW r \in L PROVE AsBooked(t, f, r)
  <2>1. Effect("position_txn", r.id, None) \in effects[t]
    BY DEF EmissionsEnumerated, EnumeratedIn
  <2>2. <<t, r.id>> \notin modified
    BY <1>1, <2>1 DEF Untouched, Effect
  <2> QED
    BY <1>3, <2>2
<1>5. ASSUME NEW leg \in {"instrument", "cash"}, Effect("position_txn", <<t, leg>>, None) \in effects[t]
      PROVE  \E r \in L : r.id = <<t, leg>>
  <2>1. <<t, leg>> \in IdsIn(ledger)
    BY <1>1, <1>5 DEF Untouched, TargetExists, Effect
  <2>2. <<t, leg>> \in OwnRows(t)
    BY DEF OwnRows, Legs
  <2> QED
    BY <2>1, <2>2 DEF IdsIn, EmittedBy
<1>6. Trades(f) => \E r \in L : InstrumentRow(t, f, r)
    BY <1>3, <1>4, <1>5 DEF AsBooked, CashRow
<1>7. Settles(f) => \E r \in L : CashRow(t, f, r)
    BY <1>3, <1>4, <1>5 DEF AsBooked, InstrumentRow
<1> QED
    BY <1>2, <1>3, <1>4, <1>6, <1>7 DEF LegsOf

\* A booking moves what its form states.
LEMMA MovedByBooking ==
    ASSUME TypeOK, TypeOK', Structure, EmissionsEnumerated, IsFiniteSet(ledger),
           NEW t \in Tickets, NEW u \in Users, Book(t, u)
    PROVE  \A i, day : HoldingsAsOf(ledger', i, day)
                           = HoldingsAsOf(ledger, i, day) + Moved(Form(t)', i, day)
<1>1. PICK L : /\ ledger' = ledger \cup L /\ \A r \in ledger : r.id \notin OwnRows(t)
               /\ (\A r \in L : r.id \in OwnRows(t)) /\ LegsOf(t, Form(t)', L)
    BY BookLegs
<1>2. L \cap ledger = {} /\ \A r \in ledger \cup L : r.units \in Int
    BY <1>1 DEF TypeOK, LedgerRows
<1> DEFINE g == Form(t)'
<1>3. LegsOf(t, g, L)
    BY <1>1
<1> HIDE DEF g
<1>4. \A i, day : HoldingsAsOf(ledger \cup L, i, day) = HoldingsAsOf(ledger, i, day) + Moved(g, i, day)
    BY <1>2, <1>3, HoldLegs
<1> QED
    BY <1>1, <1>4 DEF g

\* A reversal moves it back.
LEMMA MovedBack ==
    ASSUME TypeOK, EmissionsEnumerated, EffectsAreOwn, LegsKept, IsFiniteSet(ledger),
           NEW t \in Tickets, Reverse(t)
    PROVE  \A i, day : HoldingsAsOf(ledger', i, day)
                           = HoldingsAsOf(ledger, i, day) - Moved(Form(t), i, day)
<1> DEFINE L == ledger \ ledger'
<1>1. ledger' \subseteq ledger /\ LegsOf(t, Form(t), L)
    BY ReversedLegs
<1>2. L \cap ledger' = {} /\ ledger = ledger' \cup L
    BY <1>1
<1>3. (\A r \in ledger : r.units \in Int) /\ \A r \in ledger' \cup L : r.units \in Int
    BY <1>2 DEF TypeOK, LedgerRows
<1>4. IsFiniteSet(ledger')
    BY <1>1, FS_Subset
<1> HIDE DEF L
<1>5. \A i, day : HoldingsAsOf(ledger' \cup L, i, day)
                      = HoldingsAsOf(ledger', i, day) + Moved(Form(t), i, day)
    BY <1>1, <1>2, <1>3, <1>4, HoldLegs
<1>6. \A i, day : HoldingsAsOf(ledger', i, day) \in Int
    BY <1>2, <1>3, <1>4, HoldInt
<1>7. \A i, day : Moved(Form(t), i, day) \in Int
  <2>1. Form(t).units \in Int
    BY DEF Reverse, ReverseOrder, ReverseAndDelete, ReverseAndRetire, Undo, TypeOK, Attributed,
           Status, Form, DraftForms
  <2>2. CashMoving(Form(t)) => Form(t).amount \in Int
    BY <1>1 DEF LegsOf
  <2> QED
    BY <2>1, <2>2 DEF Moved
<1>8. ASSUME NEW i, NEW day
      PROVE  HoldingsAsOf(ledger', i, day) = HoldingsAsOf(ledger, i, day) - Moved(Form(t), i, day)
  <2>1. HoldingsAsOf(ledger, i, day) = HoldingsAsOf(ledger', i, day) + Moved(Form(t), i, day)
    BY <1>2, <1>5
  <2> QED
    BY <1>6, <1>7, <2>1
<1> QED
    BY <1>8

\* A booking moves the units its form states, on the day it states, and its
\* reversal moves exactly these back, whatever was booked, entered, restated or
\* retyped in between.
THEOREM ReversalReturnsTheUnits == Spec => UnitsReturn
<1>1. TypeOK /\ TypeOK' /\ Structure /\ EmissionsEnumerated /\ EffectsAreOwn /\ LegsKept
        /\ IsFiniteSet(ledger) /\ [Next]_vars
          => [\A t \in Tickets, i \in Investments, day \in Days :
                 LET held == HoldingsAsOf(ledger, i, day)
                     then == HoldingsAsOf(ledger', i, day)
                 IN  /\ Status(t) # "booked" /\ Status(t)' = "booked"
                            => then = held + Moved(Form(t)', i, day)
                     /\ Status(t) = "booked" /\ Status(t)' # "booked"
                            => then = held - Moved(Form(t), i, day)]_vars
  <2> SUFFICES ASSUME TypeOK, TypeOK', Structure, EmissionsEnumerated, EffectsAreOwn, LegsKept,
                      IsFiniteSet(ledger), [Next]_vars,
                      NEW t \in Tickets, NEW i \in Investments, NEW day \in Days
               PROVE  /\ Status(t) # "booked" /\ Status(t)' = "booked"
                            => HoldingsAsOf(ledger', i, day)
                                 = HoldingsAsOf(ledger, i, day) + Moved(Form(t)', i, day)
                      /\ Status(t) = "booked" /\ Status(t)' # "booked"
                            => HoldingsAsOf(ledger', i, day)
                                 = HoldingsAsOf(ledger, i, day) - Moved(Form(t), i, day)
    OBVIOUS
  <2>1. CASE Status(t) # "booked" /\ Status(t)' = "booked"
    <3>1. PICK u \in Users : Book(t, u)
        BY <2>1, BookedBefore
    <3> QED
        BY <2>1, <3>1, MovedByBooking
  <2>2. CASE Status(t) = "booked" /\ Status(t)' # "booked"
    <3>1. tickets'[t] # tickets[t]
        BY <2>2 DEF Status
    <3>2. PICK s \in Tickets : TicketStep(s)
        BY <3>1, CrudMovesNoTicket DEF Next, vars
    <3>3. Reverse(t)
        BY <2>2, <3>1, <3>2, StationMoves, ReverseMoves
    <3> QED
        BY <2>2, <3>3, MovedBack
  <2> QED
    BY <2>1, <2>2
<1> QED
    BY <1>1, TypeCorrect, StructureHolds, EffectsEnumerateTheEmission, EffectsOwned,
       LegsKeptHolds, LedgerFinite, PTL DEF Spec, UnitsReturn

-----------------------------------------------------------------------------
(* No holding is short on any date.                                        *)

\* A finite set of rows has a last one in the canonical order.
LEMMA LastRow ==
    ASSUME NEW R, IsFiniteSet(R), R # {}, \A r \in R : r.day \in Int /\ r.at \in Int
    PROVE  \E r \in R : \A q \in R : NotAfter(q, r)
<1> DEFINE bad == {S \in SUBSET R : S # {} /\ ~\E r \in S : \A q \in S : NotAfter(q, r)}
<1> SUFFICES ASSUME bad # {} PROVE FALSE
    OBVIOUS
<1>1. \A S \in bad : IsFiniteSet(S)
    BY FS_Subset
<1>2. PICK S \in bad : \A T \in bad : Cardinality(S) <= Cardinality(T)
    BY <1>1, Smallest
<1>3. PICK x \in S : TRUE
    BY <1>2
<1> DEFINE rest == S \ {x}
<1>4. Cardinality(rest) = Cardinality(S) - 1 /\ Cardinality(S) \in Nat
    BY <1>1, <1>2, <1>3, FS_RemoveElement, FS_CardinalityType
<1>5. rest \notin bad
  <2> HIDE DEF bad, rest
  <2> QED
    BY <1>2, <1>4
<1>6. \A r \in S : r.day \in Int /\ r.at \in Int
    BY <1>2
<1>7. \A q, r \in S : NotAfter(q, r) \/ NotAfter(r, q)
  <2> TAKE q, r \in S
  <2>1. q.day \in Int /\ r.day \in Int /\ q.at \in Int /\ r.at \in Int
    BY <1>6
  <2> HIDE DEF bad
  <2> QED
    BY <2>1 DEF NotAfter
<1>8. \A p, q, r \in S : NotAfter(p, q) /\ NotAfter(q, r) => NotAfter(p, r)
  <2> TAKE p, q, r \in S
  <2>1. /\ p.day \in Int /\ q.day \in Int /\ r.day \in Int
        /\ p.at \in Int /\ q.at \in Int /\ r.at \in Int
    BY <1>6
  <2> HIDE DEF bad
  <2> QED
    BY <2>1 DEF NotAfter
<1>9. CASE rest = {}
  <2>1. S = {x}
    BY <1>3, <1>9
  <2> QED
    BY <1>2, <1>7, <2>1
<1>10. CASE rest # {}
  <2>1. PICK r \in rest : \A q \in rest : NotAfter(q, r)
    BY <1>2, <1>5, <1>10
  <2>2. \A q \in S : q = x \/ q \in rest
    OBVIOUS
  <2>3. NotAfter(x, x)
    BY <1>3, <1>7
  <2>4. CASE NotAfter(x, r)
    BY <1>2, <2>1, <2>2, <2>4
  <2>5. CASE NotAfter(r, x)
    <3>1. \A q \in S : NotAfter(q, x)
        BY <1>3, <1>8, <2>1, <2>2, <2>3, <2>5
    <3> QED
        BY <1>2, <1>3, <3>1
  <2> QED
    BY <1>3, <1>7, <2>1, <2>4, <2>5
<1> QED
    BY <1>9, <1>10

\* Every canonical prefix at zero or above: so is the holding on every date.
LEMMA PrefixesDecide ==
    ASSUME NEW R, IsFiniteSet(R), \A r \in R : r.day \in Int /\ r.at \in Int,
           NEW i, NonNegative(R, i), NEW day \in Int
    PROVE  HoldingsAsOf(R, i, day) >= 0
<1> DEFINE S == {q \in RowsOf(R, i) : q.day <= day}
<1>1. S \subseteq RowsOf(R, i) /\ S \subseteq R
    BY DEF RowsOf
<1>2. CASE S = {}
  <2>1. Units({}) = 0
    BY FS_EmptySet, UnitsUnfold
  <2> QED
    BY <1>2, <2>1 DEF HoldingsAsOf
<1>3. CASE S # {}
  <2>1. IsFiniteSet(S) /\ \A r \in S : r.day \in Int /\ r.at \in Int
    BY <1>1, FS_Subset
  <2>2. PICK r \in S : \A q \in S : NotAfter(q, r)
    BY <1>3, <2>1, LastRow
  <2>3. S = {q \in RowsOf(R, i) : NotAfter(q, r)}
    <3>1. \A q \in RowsOf(R, i) : q.day \in Int /\ r.day \in Int /\ r.day <= day
        BY DEF RowsOf
    <3>2. ASSUME NEW q \in RowsOf(R, i), NotAfter(q, r) PROVE q.day <= day
        BY <3>1, <3>2 DEF NotAfter
    <3> QED
        BY <2>2, <3>2
  <2>4. Units({q \in RowsOf(R, i) : NotAfter(q, r)}) >= 0
    BY <1>1, <2>2 DEF NonNegative
  <2> QED
    BY <2>3, <2>4 DEF HoldingsAsOf
<1> QED
    BY <1>2, <1>3

\* What first_negative_holding_date decides on the prefixes of the ledger is what
\* the reader of a holding relies on: holdings_as_of is never negative, on any date,
\* a trade date or not.  Without retyping, for every investment but cash.
THEOREM NoDateShort ==
    ASSUME "retype" \notin Crud
    PROVE  Spec => [](\A i \in Investments, day \in Int :
                         ~investments[i].cash => HoldingsAsOf(ledger, i, day) >= 0)
<1>1. TypeOK /\ IsFiniteSet(ledger) /\ HoldingsNeverNegative
          => \A i \in Investments, day \in Int :
                ~investments[i].cash => HoldingsAsOf(ledger, i, day) >= 0
  <2> SUFFICES ASSUME TypeOK, IsFiniteSet(ledger), HoldingsNeverNegative,
                      NEW i \in Investments, NEW day \in Int, ~investments[i].cash
               PROVE  HoldingsAsOf(ledger, i, day) >= 0
    OBVIOUS
  <2>1. \A r \in ledger : r.day \in Int /\ r.at \in Int
    BY BoundsAssumption DEF TypeOK, LedgerRows
  <2>2. NonNegative(ledger, i)
    BY DEF HoldingsNeverNegative
  <2> QED
    BY <2>1, <2>2, PrefixesDecide
<1> QED
    BY <1>1, TypeCorrect, LedgerFinite, NoShortHolding, PTL

=============================================================================

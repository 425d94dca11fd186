------------------------ MODULE TradeTicketsProofs ------------------------
(***************************************************************************)
(* Theorems of TradeTickets, for every number of tickets, users,           *)
(* investments, drafts and ledger rows.                                    *)
(***************************************************************************)
EXTENDS TradeTickets, TLAPS

-----------------------------------------------------------------------------
(* What the helpers return.                                                *)

LEMMA LedgerRowType ==
    ASSUME NEW id \in RowIds, NEW i \in Investments, NEW day \in Days,
           NEW units \in Int, HasStamp(i)
    PROVE  LedgerRow(id, i, day, units) \in LedgerRows
<1>1. NextStamp(i) \in Stamps
    BY DEF HasStamp, NextStamp
<1> QED
    BY <1>1 DEF LedgerRow, LedgerRows

LEMMA RowEffectsType ==
    ASSUME NEW type \in EffectTypes, NEW rows, \A r \in rows : r.id \in RowIds
    PROVE  RowEffects(type, rows) \in SUBSET Effects
BY DEF RowEffects, Effect, Effects

LEMMA TouchType ==
    ASSUME TypeOK, NEW ids \in SUBSET (RowIds \cup Investments)
    PROVE  Touch(ids) \subseteq Tickets \X (RowIds \cup Investments)
BY DEF TypeOK, Touch

LEMMA OwnIds ==
    ASSUME NEW t \in Tickets
    PROVE  /\ <<t, "instrument">> \in RowIds /\ <<t, "cash">> \in RowIds
           /\ <<t, "flow">> \in RowIds /\ <<t, "nav">> \in RowIds
           /\ Shell(t) \in Investments
BY DEF RowIds, Legs, Shell, Shells, Investments

LEMMA NavWrittenType ==
    ASSUME TypeOK, NEW id \in RowIds, NEW i \in Investments, NEW day \in Days
    PROVE  NavWritten(id, i, day) \subseteq NavRows
BY DEF TypeOK, NavWritten, NavsAt, NavRows

LEMMA CashLegType ==
    ASSUME NEW t \in Tickets, NEW f \in DraftForms, f.amount \in Int,
           f.cash \in Investments, HasStamp(f.cash)
    PROVE  /\ CashLeg(t, f) \subseteq LedgerRows
           /\ \A r \in CashLeg(t, f) : r.id \in RowIds
<1>1. f.day \in Days
    BY DEF DraftForms
<1> DEFINE effect == IF f.direction = "sell" THEN f.amount ELSE -f.amount
<1>2. effect \in Int
    OBVIOUS
<1>3. LedgerRow(<<t, "cash">>, f.cash, f.day, effect) \in LedgerRows
    BY <1>1, <1>2, OwnIds, LedgerRowType
<1>4. CashLeg(t, f) \subseteq LedgerRows
    BY <1>3 DEF CashLeg
<1> QED
    BY <1>4 DEF LedgerRows

LEMMA InstrumentLegType ==
    ASSUME NEW t \in Tickets, NEW f \in DraftForms, NEW i \in Investments, HasStamp(i)
    PROVE  /\ InstrumentLeg(t, f, i) \subseteq LedgerRows
           /\ \A r \in InstrumentLeg(t, f, i) : r.id \in RowIds
<1>1. f.day \in Days /\ f.units \in Int
    BY DEF DraftForms
<1> DEFINE units == IF f.direction = "sell" THEN -f.units ELSE f.units
<1>2. units \in Int
    BY <1>1
<1>3. LedgerRow(<<t, "instrument">>, i, f.day, units) \in LedgerRows
    BY <1>1, <1>2, OwnIds, LedgerRowType
<1>4. InstrumentLeg(t, f, i) \subseteq LedgerRows
    BY <1>3 DEF InstrumentLeg
<1> QED
    BY <1>4 DEF LedgerRows

LEMMA RetiredType ==
    ASSUME TypeOK, NEW i \in Investments
    PROVE  /\ Retired(i) \in [Investments -> InvestmentRows]
           /\ RetireEffect(i) \in Effects
BY DEF TypeOK, Retired, RetireEffect, BeforeImage, Effect, Effects, EffectTypes,
       Images, InvestmentRows

LEMMA WithShellType ==
    ASSUME TypeOK, NEW t \in Tickets, NEW f \in DraftForms, NEW mode \in {"unitised", "reported"}
    PROVE  /\ WithShell(t, f, mode) \in [Investments -> InvestmentRows]
           /\ CreateEffect(t) \in Effects
<1>1. 0 \in 0..MaxRev
    BY BoundsAssumption
<1>2. f.name \in Names \cup {None}
    BY DEF DraftForms
<1> QED
    BY <1>1, <1>2, OwnIds
    DEF TypeOK, WithShell, CreateEffect, Effect, Effects, EffectTypes, InvestmentRows

\* What the blocks leave of a form that passes them.
LEMMA BlocksType ==
    ASSUME NEW f \in DraftForms, Blocks(f)
    PROVE  /\ f.amount \in Int
           /\ CashMoving(f) => f.cash \in Investments
           /\ ~Creating(f) => f.inv \in Investments
<1>1. f.amount \in Int
    BY DEF Blocks, AmountsOk, DraftForms
<1>2. CashMoving(f) => f.cash \in Investments
    BY DEF Blocks, SettlementOk, DraftForms
<1>3. ~Creating(f) => f.inv \in Investments
    BY DEF Blocks, TradableOk, DraftForms
<1> QED
    BY <1>1, <1>2, <1>3

-----------------------------------------------------------------------------
(* Every action keeps the types.                                           *)

\* A ticket's row, restated.
LEMMA TicketRowType ==
    ASSUME TypeOK, NEW t \in Tickets, NEW row \in TicketRows, Attributed(row),
           tickets' = [tickets EXCEPT ![t] = row]
    PROVE  /\ tickets' \in [Tickets -> TicketRows]
           /\ \A u \in Tickets : Attributed(tickets'[u])
BY DEF TypeOK

LEMMA CreateDraftType ==
    ASSUME TypeOK, NEW t \in Tickets, NEW f \in Drafts, CreateDraft(t, f)
    PROVE  TypeOK'
<1> DEFINE row == [tickets[t] EXCEPT !.status = "draft", !.form = f]
<1>1. tickets[t] \in TicketRows /\ f \in DraftForms
    BY DraftsAssumption DEF TypeOK
<1>2. row \in TicketRows /\ Attributed(row)
    BY <1>1 DEF TicketRows, Statuses, Attributed
<1>3. tickets' = [tickets EXCEPT ![t] = row]
    BY DEF CreateDraft
<1>4. tickets' \in [Tickets -> TicketRows] /\ \A u \in Tickets : Attributed(tickets'[u])
    BY <1>2, <1>3, TicketRowType
<1> QED
    BY <1>4 DEF CreateDraft, TypeOK, book

LEMMA UpdateDraftType ==
    ASSUME TypeOK, NEW t \in Tickets, NEW f \in Drafts, UpdateDraft(t, f)
    PROVE  TypeOK'
<1> DEFINE row == [tickets[t] EXCEPT !.form = f]
<1>1. tickets[t] \in TicketRows /\ f \in DraftForms
    BY DraftsAssumption DEF TypeOK
<1>2. row \in TicketRows /\ Attributed(row)
    BY <1>1 DEF TypeOK, UpdateDraft, Status, TicketRows, Statuses, Attributed
<1>3. tickets' = [tickets EXCEPT ![t] = row]
    BY DEF UpdateDraft
<1>4. tickets' \in [Tickets -> TicketRows] /\ \A u \in Tickets : Attributed(tickets'[u])
    BY <1>2, <1>3, TicketRowType
<1> QED
    BY <1>4 DEF UpdateDraft, TypeOK, book

LEMMA ProposeType ==
    ASSUME TypeOK, NEW t \in Tickets, NEW u \in Users, Propose(t, u)
    PROVE  TypeOK'
<1> DEFINE row == [tickets[t] EXCEPT !.status = "proposed", !.proposer = u]
<1>1. tickets[t] \in TicketRows /\ Attributed(tickets[t]) /\ u # None
    BY IdsAssumption DEF TypeOK
<1>2. row \in TicketRows /\ Attributed(row)
    BY <1>1 DEF Propose, Status, TicketRows, Statuses, Attributed
<1>3. tickets' = [tickets EXCEPT ![t] = row]
    BY DEF Propose
<1>4. tickets' \in [Tickets -> TicketRows] /\ \A v \in Tickets : Attributed(tickets'[v])
    BY <1>2, <1>3, TicketRowType
<1> QED
    BY <1>4 DEF Propose, TypeOK, book

LEMMA CancelType ==
    ASSUME TypeOK, NEW t \in Tickets, NEW reason \in BOOLEAN, Cancel(t, reason)
    PROVE  TypeOK'
<1> DEFINE row == [tickets[t] EXCEPT !.status = "cancelled", !.reason = reason]
<1>1. tickets[t] \in TicketRows /\ Attributed(tickets[t])
    BY DEF TypeOK
<1>2. row \in TicketRows /\ Attributed(row)
    BY <1>1 DEF Cancel, Cancellable, Status, TicketRows, Statuses, Attributed
<1>3. tickets' = [tickets EXCEPT ![t] = row]
    BY DEF Cancel
<1>4. tickets' \in [Tickets -> TicketRows] /\ \A v \in Tickets : Attributed(tickets'[v])
    BY <1>2, <1>3, TicketRowType
<1> QED
    BY <1>4 DEF Cancel, TypeOK, book

\* The conjuncts of TypeOK that an emission can disturb.
EmittedTypeOK ==
    /\ effects \in [Tickets -> SUBSET Effects]
    /\ ledger \subseteq LedgerRows
    /\ flows \subseteq FlowRows
    /\ navs \subseteq NavRows
    /\ investments \in [Investments -> InvestmentRows]
    /\ modified \subseteq Tickets \X (RowIds \cup Investments)

LEMMA EmitOrderType ==
    ASSUME TypeOK, NEW t \in Tickets, NEW f \in DraftForms, Blocks(f), EmitOrder(t, f)
    PROVE  EmittedTypeOK'
<1> DEFINE legs == InstrumentLeg(t, f, f.inv) \cup CashLeg(t, f)
<1>1. /\ f.inv \in Investments /\ f.cash \in Investments /\ f.amount \in Int
      /\ HasStamp(f.inv) /\ HasStamp(f.cash)
    BY BlocksType DEF EmitOrder, CashMoving
<1>2. legs \subseteq LedgerRows /\ \A r \in legs : r.id \in RowIds
    BY <1>1, InstrumentLegType, CashLegType
<1>3. RowEffects("position_txn", legs) \in SUBSET Effects
    BY <1>2, RowEffectsType DEF EffectTypes
<1>4. Retired(f.inv) \in [Investments -> InvestmentRows] /\ RetireEffect(f.inv) \in Effects
    BY <1>1, RetiredType
<1>5. Touch({f.inv}) \subseteq Tickets \X (RowIds \cup Investments)
    BY <1>1, TouchType
<1>6. ledger' \subseteq LedgerRows
    BY <1>2 DEF EmitOrder, TypeOK
<1>7. effects' \in [Tickets -> SUBSET Effects]
  <2>1. CASE f.setInactive
    <3>1. effects' = [effects EXCEPT ![t] =
              RowEffects("position_txn", legs) \cup {RetireEffect(f.inv)}]
        BY <2>1 DEF EmitOrder
    <3> QED
        BY <1>3, <1>4, <3>1 DEF TypeOK
  <2>2. CASE ~f.setInactive
    <3>1. effects' = [effects EXCEPT ![t] = RowEffects("position_txn", legs)]
        BY <2>2 DEF EmitOrder
    <3> QED
        BY <1>3, <3>1 DEF TypeOK
  <2> QED
    BY <2>1, <2>2
<1>8. investments' \in [Investments -> InvestmentRows]
    BY <1>4 DEF EmitOrder, TypeOK
<1>9. modified' \subseteq Tickets \X (RowIds \cup Investments)
    BY <1>5 DEF EmitOrder, TypeOK
<1> QED
    BY <1>6, <1>7, <1>8, <1>9 DEF EmitOrder, TypeOK, EmittedTypeOK

LEMMA EmitNewOrderType ==
    ASSUME TypeOK, NEW t \in Tickets, NEW f \in DraftForms, Blocks(f), EmitNewOrder(t, f)
    PROVE  EmittedTypeOK'
<1> DEFINE legs == InstrumentLeg(t, f, Shell(t)) \cup CashLeg(t, f)
<1>1. /\ Shell(t) \in Investments /\ f.cash \in Investments /\ f.amount \in Int
      /\ HasStamp(Shell(t)) /\ HasStamp(f.cash)
    BY BlocksType, OwnIds DEF EmitNewOrder, CashMoving
<1>2. legs \subseteq LedgerRows /\ \A r \in legs : r.id \in RowIds
    BY <1>1, InstrumentLegType, CashLegType
<1>3. RowEffects("position_txn", legs) \in SUBSET Effects
    BY <1>2, RowEffectsType DEF EffectTypes
<1>4. WithShell(t, f, "unitised") \in [Investments -> InvestmentRows] /\ CreateEffect(t) \in Effects
    BY WithShellType
<1>5. ledger' \subseteq LedgerRows
    BY <1>2 DEF EmitNewOrder, TypeOK
<1>6. effects' \in [Tickets -> SUBSET Effects]
    BY <1>3, <1>4 DEF EmitNewOrder, TypeOK
<1>7. investments' \in [Investments -> InvestmentRows]
    BY <1>4 DEF EmitNewOrder
<1> QED
    BY <1>5, <1>6, <1>7 DEF EmitNewOrder, TypeOK, EmittedTypeOK

LEMMA EmitCommitmentType ==
    ASSUME TypeOK, NEW t \in Tickets, NEW f \in DraftForms, EmitCommitment(t, f)
    PROVE  EmittedTypeOK'
<1>1. WithShell(t, f, "reported") \in [Investments -> InvestmentRows] /\ CreateEffect(t) \in Effects
    BY WithShellType
<1>2. effects' \in [Tickets -> SUBSET Effects]
    BY <1>1 DEF EmitCommitment, TypeOK
<1> QED
    BY <1>1, <1>2 DEF EmitCommitment, TypeOK, EmittedTypeOK

LEMMA EmitSecondarySellType ==
    ASSUME TypeOK, NEW t \in Tickets, NEW f \in DraftForms, Blocks(f), EmitSecondarySell(t, f)
    PROVE  EmittedTypeOK'
<1> DEFINE flow == {[id |-> <<t, "flow">>, inv |-> f.inv]}
           nav  == NavWritten(<<t, "nav">>, f.inv, f.day)
           legs == CashLeg(t, f)
<1>1. /\ f.inv \in Investments /\ f.cash \in Investments /\ f.amount \in Int
      /\ f.day \in Days /\ HasStamp(f.cash)
    BY BlocksType DEF EmitSecondarySell, CashMoving, DraftForms
<1>2. legs \subseteq LedgerRows /\ \A r \in legs : r.id \in RowIds
    BY <1>1, CashLegType
<1>3. flow \subseteq FlowRows /\ \A r \in flow : r.id \in RowIds
  <2>1. <<t, "flow">> \in RowIds
    BY OwnIds
  <2> QED
    BY <1>1, <2>1 DEF FlowRows
<1>4. nav \subseteq NavRows /\ \A r \in nav : r.id \in RowIds
    BY <1>1, OwnIds, NavWrittenType DEF NavRows
<1>5. /\ RowEffects("position_txn", legs) \in SUBSET Effects
      /\ RowEffects("cashflow", flow) \in SUBSET Effects
      /\ RowEffects("nav", nav) \in SUBSET Effects
    BY <1>2, <1>3, <1>4, RowEffectsType DEF EffectTypes
<1>6. Retired(f.inv) \in [Investments -> InvestmentRows] /\ RetireEffect(f.inv) \in Effects
    BY <1>1, RetiredType
<1>7. Touch({f.inv}) \subseteq Tickets \X (RowIds \cup Investments)
    BY <1>1, TouchType
<1>8. effects' \in [Tickets -> SUBSET Effects]
    BY <1>5, <1>6 DEF EmitSecondarySell, TypeOK
<1>9. ledger' \subseteq LedgerRows /\ flows' \subseteq FlowRows /\ navs' \subseteq NavRows
    BY <1>2, <1>3, <1>4 DEF EmitSecondarySell, TypeOK
<1> QED
    BY <1>6, <1>7, <1>8, <1>9 DEF EmitSecondarySell, EmittedTypeOK

LEMMA EmitSecondaryBuyType ==
    ASSUME TypeOK, NEW t \in Tickets, NEW f \in DraftForms, Blocks(f), EmitSecondaryBuy(t, f)
    PROVE  EmittedTypeOK'
<1> DEFINE nav  == NavWritten(<<t, "nav">>, Shell(t), f.day)
           legs == CashLeg(t, f)
<1>1. f.cash \in Investments /\ f.amount \in Int /\ f.day \in Days /\ HasStamp(f.cash)
    BY BlocksType DEF EmitSecondaryBuy, CashMoving, DraftForms
<1>2. legs \subseteq LedgerRows /\ \A r \in legs : r.id \in RowIds
    BY <1>1, CashLegType
<1>3. nav \subseteq NavRows /\ \A r \in nav : r.id \in RowIds
    BY <1>1, OwnIds, NavWrittenType DEF NavRows
<1>4. /\ RowEffects("position_txn", legs) \in SUBSET Effects
      /\ RowEffects("nav", nav) \in SUBSET Effects
    BY <1>2, <1>3, RowEffectsType DEF EffectTypes
<1>5. WithShell(t, f, "reported") \in [Investments -> InvestmentRows] /\ CreateEffect(t) \in Effects
    BY WithShellType
<1>6. effects' \in [Tickets -> SUBSET Effects]
    BY <1>4, <1>5 DEF EmitSecondaryBuy, TypeOK
<1>7. ledger' \subseteq LedgerRows /\ navs' \subseteq NavRows
    BY <1>2, <1>3 DEF EmitSecondaryBuy, TypeOK
<1> QED
    BY <1>5, <1>6, <1>7 DEF EmitSecondaryBuy, TypeOK, EmittedTypeOK

LEMMA WalkedType ==
    ASSUME NEW row \in TicketRows, row.form \in DraftForms, NEW u \in Users
    PROVE  Walked(row, u) \in TicketRows /\ Attributed(Walked(row, u))
<1>1. u # None
    BY IdsAssumption
<1> QED
    BY <1>1 DEF Walked, TicketRows, Statuses, Attributed

LEMMA BookType ==
    ASSUME TypeOK, NEW t \in Tickets, NEW u \in Users, Book(t, u)
    PROVE  TypeOK'
<1> DEFINE f == Form(t)
           drafted == IF Creating(f) THEN [tickets[t] EXCEPT !.form.inv = Shell(t)] ELSE tickets[t]
<1>1. tickets[t] \in TicketRows /\ f \in DraftForms
    BY DEF TypeOK, Book, Bookable, Status, Form, Attributed
<1>2. drafted \in TicketRows /\ drafted.form \in DraftForms
  <2> DEFINE linked == [f EXCEPT !.inv = Shell(t)]
  <2>1. linked \in DraftForms
    BY <1>1, OwnIds DEF DraftForms
  <2>2. drafted = IF Creating(f) THEN [tickets[t] EXCEPT !.form = linked] ELSE tickets[t]
    BY DEF Form
  <2> HIDE DEF linked, drafted
  <2>3. CASE Creating(f)
    BY <1>1, <2>1, <2>2, <2>3 DEF TicketRows
  <2>4. CASE ~Creating(f)
    BY <1>1, <2>2, <2>4 DEF Form
  <2> QED
    BY <2>3, <2>4
<1>3. Walked(drafted, u) \in TicketRows /\ Attributed(Walked(drafted, u))
    BY <1>2, WalkedType
<1>4. tickets' = [tickets EXCEPT ![t] = Walked(drafted, u)]
    BY DEF Book
<1>5. tickets' \in [Tickets -> TicketRows] /\ \A v \in Tickets : Attributed(tickets'[v])
    BY <1>3, <1>4, TicketRowType
<1>6. EmittedTypeOK'
    BY <1>1, EmitOrderType, EmitNewOrderType, EmitCommitmentType, EmitSecondarySellType,
       EmitSecondaryBuyType DEF Book
<1> QED
    BY <1>5, <1>6 DEF Book, TypeOK, EmittedTypeOK

LEMMA InvestmentRowType ==
    ASSUME NEW row \in InvestmentRows, NEW flag \in BOOLEAN
    PROVE  /\ [row EXCEPT !.active = flag] \in InvestmentRows
           /\ [row EXCEPT !.present = flag] \in InvestmentRows
BY DEF InvestmentRows

LEMMA RestoredType ==
    ASSUME TypeOK, NEW t \in Tickets
    PROVE  Restored(t) \in [Investments -> InvestmentRows]
<1> SUFFICES ASSUME NEW i \in Investments, NEW e \in Updated(t), e.id = i
             PROVE  [investments[i] EXCEPT !.active =
                        (CHOOSE d \in Updated(t) : d.id = i).prior.active] \in InvestmentRows
    BY DEF Restored, TypeOK
<1> DEFINE d == CHOOSE d \in Updated(t) : d.id = i
<1>1. d \in Updated(t)
    OBVIOUS
<1>2. d.prior \in Images
    BY <1>1 DEF TypeOK, Updated, Of, Effects
<1>3. d.prior.active \in BOOLEAN
    BY <1>2 DEF Images
<1>4. [investments[i] EXCEPT !.active = d.prior.active] \in InvestmentRows
  <2> HIDE DEF d
  <2> QED
    BY <1>3, InvestmentRowType DEF TypeOK
<1> QED
    BY <1>4

\* What a reversal does to the rows, whatever becomes of the investments.
LEMMA UndoType ==
    ASSUME TypeOK, NEW t \in Tickets, Undo(t),
           NEW ids \in SUBSET (RowIds \cup Investments),
           investments' \in [Investments -> InvestmentRows],
           modified' = TouchInReversal(t, ids)
    PROVE  EmittedTypeOK' /\ edited' = edited
<1>1. modified' \subseteq Tickets \X (RowIds \cup Investments)
    BY TouchType DEF TouchInReversal
<1>2. ledger' \subseteq LedgerRows /\ flows' \subseteq FlowRows /\ navs' \subseteq NavRows
    BY DEF Undo, LedgerWithout, FlowsWithout, NavsWithout, TypeOK
<1> QED
    BY <1>1, <1>2 DEF Undo, EmittedTypeOK, TypeOK

LEMMA WithdrawnType ==
    ASSUME TypeOK, NEW t \in Tickets, Undo(t)
    PROVE  /\ Withdrawn(t) \in TicketRows /\ Attributed(Withdrawn(t))
           /\ Withdrawn(t).form \in DraftForms
<1>1. tickets[t] \in TicketRows /\ tickets[t].form \in DraftForms
    BY DEF Undo, TypeOK, Attributed, Status
<1> QED
    BY <1>1 DEF Withdrawn, TicketRows, Statuses, Attributed

LEMMA ReverseOrderType ==
    ASSUME TypeOK, NEW t \in Tickets, ReverseOrder(t)
    PROVE  TypeOK'
<1>1. EffectIds(Updated(t)) \in SUBSET (RowIds \cup Investments)
    BY DEF TypeOK, EffectIds, Updated, Of, Effects
<1>2. EmittedTypeOK' /\ edited' = edited
    BY <1>1, RestoredType, UndoType DEF ReverseOrder
<1>3. tickets' \in [Tickets -> TicketRows] /\ \A v \in Tickets : Attributed(tickets'[v])
    BY WithdrawnType, TicketRowType DEF ReverseOrder
<1> QED
    BY <1>2, <1>3 DEF TypeOK, EmittedTypeOK

LEMMA ReverseAndDeleteType ==
    ASSUME TypeOK, NEW t \in Tickets, ReverseAndDelete(t)
    PROVE  TypeOK'
<1> DEFINE row == [Withdrawn(t) EXCEPT !.form.inv = None]
<1>1. Undo(t)
    BY DEF ReverseAndDelete
<1>2. investments' \in [Investments -> InvestmentRows]
  <2>1. PICK e \in Created(t) :
            investments' = [investments EXCEPT ![e.id] = [@ EXCEPT !.present = FALSE]]
    BY DEF ReverseAndDelete
  <2>2. e.id \in Investments => [investments[e.id] EXCEPT !.present = FALSE] \in InvestmentRows
    BY InvestmentRowType DEF TypeOK
  <2> QED
    BY <2>1, <2>2 DEF TypeOK
<1>3. EmittedTypeOK' /\ edited' = edited
    BY <1>1, <1>2, UndoType DEF ReverseAndDelete
<1>4. row \in TicketRows /\ Attributed(row)
  <2> DEFINE linked == [Withdrawn(t).form EXCEPT !.inv = None]
  <2>1. linked \in DraftForms
    BY <1>1, WithdrawnType DEF DraftForms
  <2>2. row = [Withdrawn(t) EXCEPT !.form = linked]
    OBVIOUS
  <2>3. Withdrawn(t) \in TicketRows /\ Withdrawn(t).status = "cancelled"
    BY <1>1, WithdrawnType DEF Withdrawn, TypeOK, TicketRows
  <2> HIDE DEF linked
  <2> QED
    BY <2>1, <2>2, <2>3 DEF TicketRows, Attributed
<1>5. tickets' \in [Tickets -> TicketRows] /\ \A v \in Tickets : Attributed(tickets'[v])
    BY <1>4, TicketRowType DEF ReverseAndDelete
<1> QED
    BY <1>3, <1>5 DEF TypeOK, EmittedTypeOK

LEMMA ReverseAndRetireType ==
    ASSUME TypeOK, NEW t \in Tickets, ReverseAndRetire(t)
    PROVE  TypeOK'
<1>1. PICK e \in Created(t) :
          investments' = Retired(e.id) /\ modified' = TouchInReversal(t, {e.id})
    BY DEF ReverseAndRetire
<1>2. e.id \in RowIds \cup Investments
    BY DEF TypeOK, Created, Of, Effects
<1>3. investments' \in [Investments -> InvestmentRows]
    BY <1>1 DEF TypeOK, Retired, InvestmentRows
<1>4. EmittedTypeOK' /\ edited' = edited
    BY <1>1, <1>2, <1>3, UndoType DEF ReverseAndRetire
<1>5. tickets' \in [Tickets -> TicketRows] /\ \A v \in Tickets : Attributed(tickets'[v])
    BY WithdrawnType, TicketRowType DEF ReverseAndRetire
<1> QED
    BY <1>4, <1>5 DEF TypeOK, EmittedTypeOK

LEMMA TicketStepType ==
    ASSUME TypeOK, NEW t \in Tickets, TicketStep(t)
    PROVE  TypeOK'
BY CreateDraftType, UpdateDraftType, ProposeType, BookType, CancelType, ReverseOrderType,
   ReverseAndDeleteType, ReverseAndRetireType DEF TicketStep, Reverse

LEMMA EditsType ==
    ASSUME TypeOK, NEW x \in RowIds \cup Investments, Edits(x)
    PROVE  /\ modified' \subseteq Tickets \X (RowIds \cup Investments)
           /\ edited' \subseteq RowIds \cup Investments
<1>1. Touch({x}) \subseteq Tickets \X (RowIds \cup Investments)
    BY TouchType
<1> QED
    BY <1>1 DEF Edits, TypeOK

LEMMA LedgerCrudType ==
    ASSUME TypeOK, LedgerCrud
    PROVE  TypeOK'
<1>1. ASSUME NEW id \in UserRows, NEW i \in CrudTargets, NEW day \in Days,
             NEW units \in TxnUnits, AddTxn(id, i, day, units)
      PROVE  TypeOK'
  <2>1. id \in RowIds /\ i \in Investments /\ units \in Int
    BY BoundsAssumption DEF RowIds
  <2>2. LedgerRow(id, i, day, units) \in LedgerRows
    BY <1>1, <2>1, LedgerRowType DEF AddTxn
  <2> QED
    BY <1>1, <2>2 DEF AddTxn, EditsNothing, TypeOK
<1>2. ASSUME NEW r \in ledger, NEW day \in Days, NEW units \in TxnUnits,
             UpdateTxn(r, day, units)
      PROVE  TypeOK'
  <2>1. r \in LedgerRows /\ units \in Int
    BY BoundsAssumption DEF TypeOK
  <2>2. [r EXCEPT !.day = day, !.units = units] \in LedgerRows /\ r.id \in RowIds
    BY <2>1 DEF LedgerRows
  <2>3. ledger' \subseteq LedgerRows
    BY <1>2, <2>2 DEF UpdateTxn, TypeOK
  <2>4. /\ modified' \subseteq Tickets \X (RowIds \cup Investments)
        /\ edited' \subseteq RowIds \cup Investments
    BY <1>2, <2>2, EditsType DEF UpdateTxn
  <2> QED
    BY <1>2, <2>3, <2>4 DEF UpdateTxn, TypeOK
<1>3. ASSUME NEW r \in ledger, DeleteTxn(r)
      PROVE  TypeOK'
    BY <1>3 DEF DeleteTxn, EditsNothing, TypeOK
<1> QED
    BY <1>1, <1>2, <1>3 DEF LedgerCrud

LEMMA NavCrudType ==
    ASSUME TypeOK, NavCrud
    PROVE  TypeOK'
<1>1. ASSUME NEW id \in UserRows, NEW i \in CrudTargets, NEW day \in Days, AddNav(id, i, day)
      PROVE  TypeOK'
  <2>1. id \in RowIds /\ i \in Investments
    BY BoundsAssumption DEF RowIds
  <2>2. navs' \subseteq NavRows
    BY <1>1, <2>1, NavWrittenType DEF AddNav, TypeOK
  <2>3. /\ modified' \subseteq Tickets \X (RowIds \cup Investments)
        /\ edited' \subseteq RowIds \cup Investments
    <3>1. CASE EditsNothing
        BY <3>1 DEF EditsNothing, TypeOK
    <3>2. ASSUME NEW n \in NavsAt(i, day), Edits(n.id)
          PROVE  <2>3!1 /\ <2>3!2
        BY <3>2, EditsType DEF NavsAt, TypeOK, NavRows
    <3> QED
        BY <1>1, <3>1, <3>2 DEF AddNav
  <2> QED
    BY <1>1, <2>2, <2>3 DEF AddNav, TypeOK
<1>2. ASSUME NEW n \in navs, UpdateNav(n)
      PROVE  TypeOK'
  <2>1. n.id \in RowIds
    BY DEF TypeOK, NavRows
  <2> QED
    BY <1>2, <2>1, EditsType DEF UpdateNav, book, TypeOK
<1>3. ASSUME NEW n \in navs, DeleteNav(n)
      PROVE  TypeOK'
    BY <1>3 DEF DeleteNav, EditsNothing, TypeOK
<1> QED
    BY <1>1, <1>2, <1>3 DEF NavCrud

LEMMA FlowCrudType ==
    ASSUME TypeOK, FlowCrud
    PROVE  TypeOK'
<1>1. ASSUME NEW id \in UserRows, NEW i \in CrudTargets, AddFlow(id, i)
      PROVE  TypeOK'
  <2>1. id \in RowIds /\ i \in Investments
    BY BoundsAssumption DEF RowIds
  <2>2. [id |-> id, inv |-> i] \in FlowRows
    BY <2>1 DEF FlowRows
  <2> QED
    BY <1>1, <2>2 DEF AddFlow, EditsNothing, TypeOK
<1>2. ASSUME NEW r \in flows, UpdateFlow(r)
      PROVE  TypeOK'
  <2>1. r.id \in RowIds
    BY DEF TypeOK, FlowRows
  <2> QED
    BY <1>2, <2>1, EditsType DEF UpdateFlow, book, TypeOK
<1>3. ASSUME NEW r \in flows, DeleteFlow(r)
      PROVE  TypeOK'
    BY <1>3 DEF DeleteFlow, EditsNothing, TypeOK
<1> QED
    BY <1>1, <1>2, <1>3 DEF FlowCrud

LEMMA InvestmentCrudType ==
    ASSUME TypeOK, InvestmentCrud
    PROVE  TypeOK'
<1>1. PICK i \in CrudTargets :
          \/ \E active \in BOOLEAN : SetActive(i, active)
          \/ \E name \in Names \cup {investments[i].name} : EditInvestment(i, name)
          \/ Retype(i)
          \/ DeleteInvestment(i)
    BY DEF InvestmentCrud
<1>2. i \in Investments /\ investments[i] \in InvestmentRows
    BY BoundsAssumption DEF TypeOK
<1>3. investments[i].rev < MaxRev => investments[i].rev + 1 \in 0..MaxRev
    BY <1>2, BoundsAssumption DEF InvestmentRows
<1>4. ASSUME NEW active \in BOOLEAN, SetActive(i, active)
      PROVE  TypeOK'
  <2>1. investments' \in [Investments -> InvestmentRows]
    BY <1>4 DEF SetActive, TypeOK, InvestmentRows
  <2> QED
    BY <1>2, <1>4, <2>1, EditsType DEF SetActive, TypeOK
<1>5. ASSUME NEW name \in Names \cup {investments[i].name}, EditInvestment(i, name)
      PROVE  TypeOK'
  <2>1. name \in Names \cup {None}
    BY <1>2 DEF InvestmentRows
  <2>2. [investments[i] EXCEPT !.name = name, !.rev = @ + 1] \in InvestmentRows
    BY <1>2, <1>3, <1>5, <2>1 DEF EditInvestment, InvestmentRows
  <2>3. investments' \in [Investments -> InvestmentRows]
    BY <1>5, <2>2 DEF EditInvestment, TypeOK
  <2> QED
    BY <1>2, <1>5, <2>3, EditsType DEF EditInvestment, TypeOK
<1>6. CASE Retype(i)
  <2>1. [investments[i] EXCEPT !.cash = ~@, !.rev = @ + 1] \in InvestmentRows
    BY <1>2, <1>3, <1>6 DEF Retype, InvestmentRows
  <2>2. investments' \in [Investments -> InvestmentRows]
    BY <1>6, <2>1 DEF Retype, TypeOK
  <2> QED
    BY <1>2, <1>6, <2>2, EditsType DEF Retype, TypeOK
<1>7. CASE DeleteInvestment(i)
  <2>1. investments' \in [Investments -> InvestmentRows]
    BY <1>7 DEF DeleteInvestment, TypeOK, InvestmentRows
  <2> QED
    BY <1>7, <2>1 DEF DeleteInvestment, EditsNothing, TypeOK
<1> QED
    BY <1>1, <1>4, <1>5, <1>6, <1>7

LEMMA InitType == Init => TypeOK
<1> SUFFICES ASSUME Init PROVE TypeOK
    OBVIOUS
<1>1. Opening \subseteq LedgerRows
    BY OpeningAssumption DEF LedgerRows, RowIds, Investments
<1>2. \A i \in Investments : AtStart(i) \in InvestmentRows
    BY BoundsAssumption DEF AtStart, InvestmentRows
<1>3. investments \in [Investments -> InvestmentRows]
    BY <1>2 DEF Init
<1> QED
    BY <1>1, <1>3 DEF Init, TypeOK, TicketRows, Statuses, Attributed

LEMMA NextType == TypeOK /\ [Next]_vars => TypeOK'
<1> SUFFICES ASSUME TypeOK, [Next]_vars PROVE TypeOK'
    OBVIOUS
<1>1. CASE Next
    BY <1>1, TicketStepType, LedgerCrudType, NavCrudType, FlowCrudType, InvestmentCrudType
    DEF Next
<1>2. CASE UNCHANGED vars
    BY <1>2 DEF vars, TypeOK
<1> QED
    BY <1>1, <1>2

\* Every reachable state is well typed, and its ticket rows satisfy the
\* attribution constraints of migration b034.
THEOREM TypeCorrect == Spec => []TypeOK
BY InitType, NextType, PTL DEF Spec

-----------------------------------------------------------------------------
(* Effects enumerate the emission.                                         *)

LEMMA OwnRowsApart ==
    ASSUME NEW t \in Tickets
    PROVE  /\ OwnRows(t) \cap UserRows = {}
           /\ \A u \in Tickets : OwnRows(t) \cap OwnRows(u) # {} => t = u
BY IdsAssumption DEF OwnRows

\* A step that adds no row of a booking and moves no booked ticket.
LEMMA EnumeratedKept ==
    ASSUME NEW type, NEW rows, NEW rows2, EnumeratedIn(rows, type),
           \A r \in rows2 : r.id \in UserRows \/ \E q \in rows : q.id = r.id,
           \A t \in Tickets : Status(t) = "booked" => Status(t)' = "booked",
           UNCHANGED effects
    PROVE  \A t \in Tickets : \A r \in EmittedBy(rows2, t) :
               Status(t)' = "booked" /\ Effect(type, r.id, None) \in effects'[t]
<1> SUFFICES ASSUME NEW t \in Tickets, NEW r \in EmittedBy(rows2, t)
             PROVE  Status(t)' = "booked" /\ Effect(type, r.id, None) \in effects'[t]
    OBVIOUS
<1>1. PICK q \in rows : q.id = r.id
    BY OwnRowsApart DEF EmittedBy
<1>2. q \in EmittedBy(rows, t)
    BY <1>1 DEF EmittedBy
<1> QED
    BY <1>1, <1>2 DEF EnumeratedIn

\* rows2 is rows with rows of t's booking, whose effects t names from now on.
AddsOwn(t, rows, rows2, type) ==
    \E own : /\ rows2 = rows \cup own
             /\ \A r \in own : r.id \in OwnRows(t)
             /\ RowEffects(type, own) \subseteq effects'[t]

\* t is booked by this step, and no other ticket moves.
BooksOnly(t) ==
    /\ Status(t) # "booked" /\ Status(t)' = "booked"
    /\ \A u \in Tickets \ {t} : effects'[u] = effects[u] /\ Status(u)' = Status(u)

LEMMA EnumeratedByBooking ==
    ASSUME NEW type, NEW rows, NEW rows2, NEW t \in Tickets,
           EnumeratedIn(rows, type), AddsOwn(t, rows, rows2, type), BooksOnly(t)
    PROVE  \A u \in Tickets : \A r \in EmittedBy(rows2, u) :
               Status(u)' = "booked" /\ Effect(type, r.id, None) \in effects'[u]
<1> SUFFICES ASSUME NEW u \in Tickets, NEW r \in EmittedBy(rows2, u)
             PROVE  Status(u)' = "booked" /\ Effect(type, r.id, None) \in effects'[u]
    OBVIOUS
<1>1. PICK own : /\ rows2 = rows \cup own
                 /\ \A q \in own : q.id \in OwnRows(t)
                 /\ RowEffects(type, own) \subseteq effects'[t]
    BY DEF AddsOwn
<1>2. r \in rows \cup own /\ r.id \in OwnRows(u)
    BY <1>1 DEF EmittedBy
<1>3. CASE r \in own
  <2>1. u = t
    BY <1>1, <1>2, <1>3, OwnRowsApart
  <2> QED
    BY <1>1, <1>3, <2>1 DEF RowEffects, BooksOnly
<1>4. CASE r \in rows
  <2>1. Status(u) = "booked" /\ Effect(type, r.id, None) \in effects[u]
    BY <1>2, <1>4 DEF EmittedBy, EnumeratedIn
  <2> QED
    BY <2>1 DEF BooksOnly
<1> QED
    BY <1>2, <1>3, <1>4

\* A reversal of t removes the rows its effects name.
LEMMA EnumeratedByReversal ==
    ASSUME NEW type, NEW rows, NEW rows2, NEW t \in Tickets,
           EnumeratedIn(rows, type),
           rows2 = {r \in rows : r.id \notin EffectIds(Of(t, type))},
           \A u \in Tickets \ {t} : Status(u)' = Status(u),
           UNCHANGED effects
    PROVE  \A u \in Tickets : \A r \in EmittedBy(rows2, u) :
               Status(u)' = "booked" /\ Effect(type, r.id, None) \in effects'[u]
<1> SUFFICES ASSUME NEW u \in Tickets, NEW r \in EmittedBy(rows2, u)
             PROVE  Status(u)' = "booked" /\ Effect(type, r.id, None) \in effects'[u]
    OBVIOUS
<1>1. Status(u) = "booked" /\ Effect(type, r.id, None) \in effects[u]
    BY DEF EmittedBy, EnumeratedIn
<1>2. u # t
    BY <1>1 DEF EmittedBy, EffectIds, Of, Effect
<1> QED
    BY <1>1, <1>2

LEMMA EnumeratedQuietly ==
    ASSUME EmissionsEnumerated, UNCHANGED effects,
           \A t \in Tickets : Status(t) = "booked" => Status(t)' = "booked",
           \A r \in ledger' : r.id \in UserRows \/ \E q \in ledger : q.id = r.id,
           \A r \in flows' : r.id \in UserRows \/ \E q \in flows : q.id = r.id,
           \A r \in navs' : r.id \in UserRows \/ \E q \in navs : q.id = r.id
    PROVE  EmissionsEnumerated'
<1>1. EnumeratedIn(ledger, "position_txn")'
    BY EnumeratedKept DEF EmissionsEnumerated, EnumeratedIn, EmittedBy
<1>2. EnumeratedIn(flows, "cashflow")'
    BY EnumeratedKept DEF EmissionsEnumerated, EnumeratedIn, EmittedBy
<1>3. EnumeratedIn(navs, "nav")'
    BY EnumeratedKept DEF EmissionsEnumerated, EnumeratedIn, EmittedBy
<1> QED
    BY <1>1, <1>2, <1>3 DEF EmissionsEnumerated

LEMMA TicketMovesEnumerated ==
    ASSUME TypeOK, EmissionsEnumerated, NEW t \in Tickets,
           \/ \E f \in Drafts : CreateDraft(t, f) \/ UpdateDraft(t, f)
           \/ \E u \in Users : Propose(t, u)
           \/ \E reason \in BOOLEAN : Cancel(t, reason)
    PROVE  EmissionsEnumerated'
<1>1. UNCHANGED <<effects, ledger, flows, navs>>
    BY DEF CreateDraft, UpdateDraft, Propose, Cancel, book
<1>2. Status(t) # "booked" /\ \A u \in Tickets \ {t} : Status(u)' = Status(u)
    BY DEF CreateDraft, UpdateDraft, Propose, Cancel, Cancellable, Status, TypeOK
<1> QED
    BY <1>1, <1>2, EnumeratedQuietly

LEMMA BookEnumerated ==
    ASSUME TypeOK, EmissionsEnumerated, NEW t \in Tickets, NEW u \in Users, Book(t, u)
    PROVE  EmissionsEnumerated'
<1> DEFINE f == Form(t)
           inst == InstrumentLeg(t, f, f.inv)
           shellInst == InstrumentLeg(t, f, Shell(t))
           cashLeg == CashLeg(t, f)
           flow == {[id |-> <<t, "flow">>, inv |-> f.inv]}
<1>1. BooksOnly(t)
  <2>1. /\ Status(t) # "booked" /\ Status(t)' = "booked"
        /\ \A v \in Tickets \ {t} : Status(v)' = Status(v)
    BY DEF Book, Bookable, Walked, Status, TypeOK, TicketRows
  <2>2. \A v \in Tickets \ {t} : effects'[v] = effects[v]
    BY DEF Book, EmitOrder, EmitNewOrder, EmitCommitment, EmitSecondarySell,
           EmitSecondaryBuy, TypeOK
  <2> QED
    BY <2>1, <2>2 DEF BooksOnly
<1>3. \A r \in inst \cup shellInst \cup cashLeg \cup flow : r.id \in OwnRows(t)
    BY DEF InstrumentLeg, CashLeg, LedgerRow, OwnRows, Legs
<1>4. AddsOwn(t, ledger, ledger', "position_txn")
  <2>1. CASE EmitOrder(t, f)
    <3>1. RowEffects("position_txn", inst \cup cashLeg) \subseteq effects'[t]
      <4>1. CASE f.setInactive
        BY <2>1, <4>1 DEF EmitOrder, TypeOK
      <4>2. CASE ~f.setInactive
        BY <2>1, <4>2 DEF EmitOrder, TypeOK
      <4> QED
        BY <4>1, <4>2
    <3>2. ledger' = ledger \cup (inst \cup cashLeg)
        BY <2>1 DEF EmitOrder
    <3> HIDE DEF inst, cashLeg, f, shellInst, flow
    <3> QED
        BY <1>3, <3>1, <3>2 DEF AddsOwn
  <2>2. CASE EmitNewOrder(t, f)
    <3>1. RowEffects("position_txn", shellInst \cup cashLeg) \subseteq effects'[t]
        BY <2>2 DEF EmitNewOrder, TypeOK
    <3>2. ledger' = ledger \cup (shellInst \cup cashLeg)
        BY <2>2 DEF EmitNewOrder
    <3> HIDE DEF inst, cashLeg, f, shellInst, flow
    <3> QED
        BY <1>3, <3>1, <3>2 DEF AddsOwn
  <2>3. CASE EmitCommitment(t, f)
    <3>1. RowEffects("position_txn", {}) = {} /\ ledger' = ledger
        BY <2>3 DEF EmitCommitment, RowEffects
    <3> QED
        BY <3>1 DEF AddsOwn
  <2>4. CASE EmitSecondarySell(t, f) \/ EmitSecondaryBuy(t, f)
    <3>1. RowEffects("position_txn", cashLeg) \subseteq effects'[t]
        BY <2>4 DEF EmitSecondarySell, EmitSecondaryBuy, TypeOK
    <3>2. ledger' = ledger \cup cashLeg
        BY <2>4 DEF EmitSecondarySell, EmitSecondaryBuy
    <3> HIDE DEF inst, cashLeg, f, shellInst, flow
    <3> QED
        BY <1>3, <3>1, <3>2 DEF AddsOwn
  <2> QED
    BY <2>1, <2>2, <2>3, <2>4 DEF Book
<1>5. AddsOwn(t, flows, flows', "cashflow")
  <2>1. CASE EmitSecondarySell(t, f)
    <3>1. RowEffects("cashflow", flow) \subseteq effects'[t] /\ flows' = flows \cup flow
        BY <2>1 DEF EmitSecondarySell, TypeOK
    <3> HIDE DEF inst, cashLeg, f, shellInst, flow
    <3> QED
        BY <1>3, <3>1 DEF AddsOwn
  <2>2. CASE ~EmitSecondarySell(t, f)
    <3>1. RowEffects("cashflow", {}) = {} /\ flows' = flows
        BY <2>2 DEF Book, EmitOrder, EmitNewOrder, EmitCommitment, EmitSecondaryBuy, RowEffects
    <3> QED
        BY <3>1 DEF AddsOwn
  <2> QED
    BY <2>1, <2>2
<1>6. AddsOwn(t, navs, navs', "nav")
  <2>1. ASSUME NEW i, navs' = navs \cup NavWritten(<<t, "nav">>, i, f.day),
               RowEffects("nav", NavWritten(<<t, "nav">>, i, f.day)) \subseteq effects'[t]
        PROVE  <1>6
    <3>1. CASE NavsAt(i, f.day) = {}
      <4>1. \A r \in NavWritten(<<t, "nav">>, i, f.day) : r.id \in OwnRows(t)
        BY <3>1 DEF NavWritten, OwnRows, Legs
      <4> QED
        BY <2>1, <4>1 DEF AddsOwn
    <3>2. CASE NavsAt(i, f.day) # {}
      <4>1. navs' = navs /\ RowEffects("nav", {}) = {}
        BY <2>1, <3>2 DEF NavWritten, NavsAt, RowEffects
      <4> QED
        BY <4>1 DEF AddsOwn
    <3> QED
      BY <3>1, <3>2
  <2>2. CASE EmitSecondarySell(t, f)
    BY <2>1, <2>2 DEF EmitSecondarySell, TypeOK
  <2>3. CASE EmitSecondaryBuy(t, f)
    BY <2>1, <2>3 DEF EmitSecondaryBuy, TypeOK
  <2>4. CASE ~EmitSecondarySell(t, f) /\ ~EmitSecondaryBuy(t, f)
    <3>1. RowEffects("nav", {}) = {} /\ navs' = navs
        BY <2>4 DEF Book, EmitOrder, EmitNewOrder, EmitCommitment, RowEffects
    <3> QED
        BY <3>1 DEF AddsOwn
  <2> QED
    BY <2>2, <2>3, <2>4
<1> HIDE DEF f, inst, shellInst, cashLeg, flow
<1>7. EnumeratedIn(ledger, "position_txn")'
  <2>2. EnumeratedIn(ledger, "position_txn")
    BY DEF EmissionsEnumerated
  <2>3. \A v \in Tickets : \A r \in EmittedBy(ledger', v) :
            Status(v)' = "booked" /\ Effect("position_txn", r.id, None) \in effects'[v]
    BY <1>1, <1>4, <2>2, EnumeratedByBooking
  <2> QED
    BY <2>3 DEF EnumeratedIn
<1>8. EnumeratedIn(flows, "cashflow")'
  <2>2. EnumeratedIn(flows, "cashflow")
    BY DEF EmissionsEnumerated
  <2>3. \A v \in Tickets : \A r \in EmittedBy(flows', v) :
            Status(v)' = "booked" /\ Effect("cashflow", r.id, None) \in effects'[v]
    BY <1>1, <1>5, <2>2, EnumeratedByBooking
  <2> QED
    BY <2>3 DEF EnumeratedIn
<1>9. EnumeratedIn(navs, "nav")'
  <2>2. EnumeratedIn(navs, "nav")
    BY DEF EmissionsEnumerated
  <2>3. \A v \in Tickets : \A r \in EmittedBy(navs', v) :
            Status(v)' = "booked" /\ Effect("nav", r.id, None) \in effects'[v]
    BY <1>1, <1>6, <2>2, EnumeratedByBooking
  <2> QED
    BY <2>3 DEF EnumeratedIn
<1> QED
    BY <1>7, <1>8, <1>9 DEF EmissionsEnumerated

LEMMA ReverseEnumerated ==
    ASSUME TypeOK, EmissionsEnumerated, NEW t \in Tickets, Reverse(t)
    PROVE  EmissionsEnumerated'
<1>1. /\ ledger' = LedgerWithout(t) /\ flows' = FlowsWithout(t) /\ navs' = NavsWithout(t)
      /\ UNCHANGED effects
    BY DEF Reverse, ReverseOrder, ReverseAndDelete, ReverseAndRetire, Undo
<1>2. \A u \in Tickets \ {t} : Status(u)' = Status(u)
    BY DEF Reverse, ReverseOrder, ReverseAndDelete, ReverseAndRetire, Status, TypeOK
<1>3. EnumeratedIn(ledger, "position_txn")'
  <2>1. EnumeratedIn(ledger, "position_txn")
    BY DEF EmissionsEnumerated
  <2>2. ledger' = {r \in ledger : r.id \notin EffectIds(Of(t, "position_txn"))}
    BY <1>1 DEF LedgerWithout
  <2>3. \A v \in Tickets : \A r \in EmittedBy(ledger', v) :
            Status(v)' = "booked" /\ Effect("position_txn", r.id, None) \in effects'[v]
    BY <1>1, <1>2, <2>1, <2>2, EnumeratedByReversal
  <2> QED
    BY <2>3 DEF EnumeratedIn
<1>4. EnumeratedIn(flows, "cashflow")'
  <2>1. EnumeratedIn(flows, "cashflow")
    BY DEF EmissionsEnumerated
  <2>2. flows' = {r \in flows : r.id \notin EffectIds(Of(t, "cashflow"))}
    BY <1>1 DEF FlowsWithout
  <2>3. \A v \in Tickets : \A r \in EmittedBy(flows', v) :
            Status(v)' = "booked" /\ Effect("cashflow", r.id, None) \in effects'[v]
    BY <1>1, <1>2, <2>1, <2>2, EnumeratedByReversal
  <2> QED
    BY <2>3 DEF EnumeratedIn
<1>5. EnumeratedIn(navs, "nav")'
  <2>1. EnumeratedIn(navs, "nav")
    BY DEF EmissionsEnumerated
  <2>2. navs' = {r \in navs : r.id \notin EffectIds(Of(t, "nav"))}
    BY <1>1 DEF NavsWithout
  <2>3. \A v \in Tickets : \A r \in EmittedBy(navs', v) :
            Status(v)' = "booked" /\ Effect("nav", r.id, None) \in effects'[v]
    BY <1>1, <1>2, <2>1, <2>2, EnumeratedByReversal
  <2> QED
    BY <2>3 DEF EnumeratedIn
<1> QED
    BY <1>3, <1>4, <1>5 DEF EmissionsEnumerated

LEMMA CrudEnumerated ==
    ASSUME TypeOK, EmissionsEnumerated,
           LedgerCrud \/ NavCrud \/ FlowCrud \/ InvestmentCrud
    PROVE  EmissionsEnumerated'
<1>1. UNCHANGED <<tickets, effects>>
    BY DEF LedgerCrud, AddTxn, UpdateTxn, DeleteTxn, NavCrud, AddNav, UpdateNav, DeleteNav,
           FlowCrud, AddFlow, UpdateFlow, DeleteFlow,
           InvestmentCrud, SetActive, EditInvestment, Retype, DeleteInvestment
<1>2. \A r \in ledger' : r.id \in UserRows \/ \E q \in ledger : q.id = r.id
  <2>1. CASE LedgerCrud
    <3>1. ASSUME NEW id \in UserRows, NEW i, NEW day, NEW units, AddTxn(id, i, day, units)
          PROVE  <1>2
        BY <3>1 DEF AddTxn, LedgerRow
    <3>2. ASSUME NEW r \in ledger, NEW day, NEW units, UpdateTxn(r, day, units)
          PROVE  <1>2
        BY <3>2 DEF UpdateTxn, TypeOK, LedgerRows
    <3>3. ASSUME NEW r \in ledger, DeleteTxn(r)
          PROVE  <1>2
        BY <3>3 DEF DeleteTxn
    <3> QED
        BY <2>1, <3>1, <3>2, <3>3 DEF LedgerCrud
  <2>2. CASE ~LedgerCrud
    BY <2>2 DEF NavCrud, AddNav, UpdateNav, DeleteNav, book,
                FlowCrud, AddFlow, UpdateFlow, DeleteFlow,
                InvestmentCrud, SetActive, EditInvestment, Retype, DeleteInvestment
  <2> QED
    BY <2>1, <2>2
<1>3. \A r \in flows' : r.id \in UserRows \/ \E q \in flows : q.id = r.id
  <2>1. CASE FlowCrud
    <3>1. ASSUME NEW id \in UserRows, NEW i, AddFlow(id, i)
          PROVE  <1>3
        BY <3>1 DEF AddFlow
    <3>2. ASSUME NEW r \in flows, UpdateFlow(r) \/ DeleteFlow(r)
          PROVE  <1>3
        BY <3>2 DEF UpdateFlow, DeleteFlow, book
    <3> QED
        BY <2>1, <3>1, <3>2 DEF FlowCrud
  <2>2. CASE InvestmentCrud
    BY <2>2 DEF InvestmentCrud, SetActive, EditInvestment, Retype, DeleteInvestment
  <2>3. CASE LedgerCrud \/ NavCrud
    BY <2>3 DEF LedgerCrud, AddTxn, UpdateTxn, DeleteTxn,
                NavCrud, AddNav, UpdateNav, DeleteNav, book
  <2> QED
    BY <2>1, <2>2, <2>3
<1>4. \A r \in navs' : r.id \in UserRows \/ \E q \in navs : q.id = r.id
  <2>1. CASE NavCrud
    <3>1. ASSUME NEW id \in UserRows, NEW i, NEW day, AddNav(id, i, day)
          PROVE  <1>4
        BY <3>1 DEF AddNav, NavWritten, NavsAt
    <3>2. ASSUME NEW n \in navs, UpdateNav(n) \/ DeleteNav(n)
          PROVE  <1>4
        BY <3>2 DEF UpdateNav, DeleteNav, book
    <3> QED
        BY <2>1, <3>1, <3>2 DEF NavCrud
  <2>2. CASE InvestmentCrud
    BY <2>2 DEF InvestmentCrud, SetActive, EditInvestment, Retype, DeleteInvestment
  <2>3. CASE LedgerCrud \/ FlowCrud
    BY <2>3 DEF LedgerCrud, AddTxn, UpdateTxn, DeleteTxn,
                FlowCrud, AddFlow, UpdateFlow, DeleteFlow, book
  <2> QED
    BY <2>1, <2>2, <2>3
<1> QED
    BY <1>1, <1>2, <1>3, <1>4, EnumeratedQuietly DEF Status

LEMMA InitEnumerated == Init => EmissionsEnumerated
<1> SUFFICES ASSUME Init PROVE EmissionsEnumerated
    OBVIOUS
<1>1. \A t \in Tickets : EmittedBy(ledger, t) = {}
    BY OwnRowsApart, OpeningAssumption DEF Init, EmittedBy
<1> QED
    BY <1>1 DEF Init, EmissionsEnumerated, EnumeratedIn, EmittedBy

LEMMA NextEnumerated == TypeOK /\ EmissionsEnumerated /\ [Next]_vars => EmissionsEnumerated'
<1> SUFFICES ASSUME TypeOK, EmissionsEnumerated, [Next]_vars PROVE EmissionsEnumerated'
    OBVIOUS
<1>1. CASE Next
    BY <1>1, TicketMovesEnumerated, BookEnumerated, ReverseEnumerated, CrudEnumerated
    DEF Next, TicketStep
<1>2. CASE UNCHANGED vars
    BY <1>2, EnumeratedQuietly DEF vars, Status
<1> QED
    BY <1>1, <1>2

\* Nothing is inferred: what a booking emitted is among its ticket's effects
\* for as long as it stands.
THEOREM EffectsEnumerateTheEmission == Spec => []EmissionsEnumerated
BY TypeCorrect, InitEnumerated, NextEnumerated, PTL DEF Spec

\* No cancelled ticket leaves rows in the book.
THEOREM NoRowOrphaned == Spec => []NoOrphanEmission
<1>1. EmissionsEnumerated => NoOrphanEmission
    BY DEF EmissionsEnumerated, EnumeratedIn, NoOrphanEmission, Standing, EmittedBy
<1> QED
    BY <1>1, EffectsEnumerateTheEmission, PTL

-----------------------------------------------------------------------------
(* No short holding, as long as no investment changes its type.            *)

\* The cash positions are the ones known at the start.
CashFixed == \A i \in Investments : investments[i].cash <=> i \in CashPositions

LEMMA SameRowsSameHoldings ==
    ASSUME NEW rows, NEW rows2, NEW i, RowsOf(rows2, i) = RowsOf(rows, i), NonNegative(rows, i)
    PROVE  NonNegative(rows2, i)
BY DEF NonNegative

LEMMA NoRowsNoHoldings ==
    ASSUME NEW rows, NEW i, RowsOf(rows, i) = {}
    PROVE  NonNegative(rows, i)
BY DEF NonNegative

\* A step that leaves the rows of every other investment as they are.
LEMMA HoldingsKept ==
    ASSUME HoldingsNeverNegative, CashFixed, CashFixed',
           \A i \in Investments \ CashPositions :
               RowsOf(ledger', i) = RowsOf(ledger, i) \/ NonNegative(ledger', i)
    PROVE  HoldingsNeverNegative'
<1> SUFFICES ASSUME NEW i \in Investments, ~investments'[i].cash
             PROVE  NonNegative(ledger', i)
    BY DEF HoldingsNeverNegative
<1>1. i \notin CashPositions /\ ~investments[i].cash
    BY DEF CashFixed
<1>2. NonNegative(ledger, i)
    BY <1>1 DEF HoldingsNeverNegative
<1> QED
    BY <1>1, <1>2, SameRowsSameHoldings

LEMMA LegRows ==
    ASSUME NEW t, NEW f, NEW i
    PROVE  /\ \A r \in CashLeg(t, f) : r.inv = f.cash
           /\ \A r \in InstrumentLeg(t, f, i) : r.inv = i
BY DEF CashLeg, InstrumentLeg, LedgerRow

LEMMA ShellsAreNotCash ==
    ASSUME NEW t \in Tickets
    PROVE  Shell(t) \in Investments /\ Shell(t) \notin CashPositions
BY IdsAssumption, OwnIds DEF Shells

LEMMA CashFixedKept ==
    ASSUME TypeOK, CashFixed, [Next]_vars, "retype" \notin Crud
    PROVE  CashFixed'
<1>1. ASSUME NEW i \in Investments, investments' = Retired(i)
      PROVE  CashFixed'
    BY <1>1 DEF Retired, CashFixed, TypeOK, InvestmentRows
<1>2. ASSUME NEW t \in Tickets, NEW f, NEW mode, investments' = WithShell(t, f, mode)
      PROVE  CashFixed'
    BY <1>2, ShellsAreNotCash DEF WithShell, CashFixed, TypeOK
<1>3. ASSUME investments' = investments
      PROVE  CashFixed'
    BY <1>3 DEF CashFixed
<1>4. ASSUME NEW t \in Tickets, TicketStep(t)
      PROVE  CashFixed'
  <2>1. CASE \/ \E f \in Drafts : CreateDraft(t, f) \/ UpdateDraft(t, f)
             \/ \E u \in Users : Propose(t, u)
             \/ \E reason \in BOOLEAN : Cancel(t, reason)
    BY <1>3, <2>1 DEF CreateDraft, UpdateDraft, Propose, Cancel, book
  <2>2. ASSUME NEW u \in Users, Book(t, u)
        PROVE  CashFixed'
    <3> DEFINE f == Form(t)
    <3>1. f \in DraftForms /\ Blocks(f)
        BY <2>2 DEF TypeOK, Book, Bookable, Status, Form, Attributed
    <3>2. CASE EmitOrder(t, f)
        BY <1>1, <1>3, <3>1, <3>2, BlocksType DEF EmitOrder
    <3>3. CASE EmitNewOrder(t, f)
        BY <1>2, <3>3 DEF EmitNewOrder
    <3>4. CASE EmitCommitment(t, f)
        BY <1>2, <3>4 DEF EmitCommitment
    <3>5. CASE EmitSecondarySell(t, f)
        BY <1>1, <3>1, <3>5, BlocksType DEF EmitSecondarySell
    <3>6. CASE EmitSecondaryBuy(t, f)
        BY <1>2, <3>6 DEF EmitSecondaryBuy
    <3> QED
        BY <2>2, <3>2, <3>3, <3>4, <3>5, <3>6 DEF Book
  <2>3. CASE ReverseOrder(t)
    <3>1. investments' = Restored(t)
        BY <2>3 DEF ReverseOrder
    <3> QED
        BY <3>1 DEF Restored, CashFixed, TypeOK, InvestmentRows
  <2>4. CASE ReverseAndDelete(t)
    <3>1. PICK e \in Created(t) :
              investments' = [investments EXCEPT ![e.id] = [@ EXCEPT !.present = FALSE]]
        BY <2>4 DEF ReverseAndDelete
    <3> QED
        BY <3>1 DEF CashFixed, TypeOK, InvestmentRows
  <2>5. CASE ReverseAndRetire(t)
    <3>1. PICK e \in Created(t) : investments' = Retired(e.id)
        BY <2>5 DEF ReverseAndRetire
    <3> QED
        BY <3>1 DEF Retired, CashFixed, TypeOK, InvestmentRows
  <2> QED
    BY <1>4, <2>1, <2>2, <2>3, <2>4, <2>5 DEF TicketStep, Reverse
<1>5. CASE LedgerCrud \/ NavCrud \/ FlowCrud
    BY <1>3, <1>5 DEF LedgerCrud, AddTxn, UpdateTxn, DeleteTxn,
           NavCrud, AddNav, UpdateNav, DeleteNav, FlowCrud, AddFlow, UpdateFlow, DeleteFlow, book
<1>6. CASE InvestmentCrud
  <2>1. PICK i \in CrudTargets :
           \/ \E active \in BOOLEAN : SetActive(i, active)
           \/ \E name \in Names \cup {investments[i].name} : EditInvestment(i, name)
           \/ Retype(i)
           \/ DeleteInvestment(i)
    BY <1>6 DEF InvestmentCrud
  <2>2. ~Retype(i)
    BY DEF Retype
  <2>3. CASE \E active \in BOOLEAN : SetActive(i, active)
    <3>1. PICK active \in BOOLEAN :
             investments' = [investments EXCEPT ![i] = [@ EXCEPT !.active = active]]
        BY <2>3 DEF SetActive
    <3> QED
        BY <3>1 DEF CashFixed, TypeOK, InvestmentRows
  <2>4. CASE \E name \in Names \cup {investments[i].name} : EditInvestment(i, name)
    <3>1. PICK name \in Names \cup {investments[i].name} : EditInvestment(i, name)
        BY <2>4
    <3>2. \A j \in Investments : investments'[j].cash = investments[j].cash
        BY <3>1 DEF EditInvestment, TypeOK, InvestmentRows
    <3> QED
        BY <3>2 DEF CashFixed
  <2>5. CASE DeleteInvestment(i)
    <3>1. investments' = [investments EXCEPT ![i] = [@ EXCEPT !.present = FALSE]]
        BY <2>5 DEF DeleteInvestment
    <3> QED
        BY <3>1 DEF CashFixed, TypeOK, InvestmentRows
  <2> QED
    BY <2>1, <2>2, <2>3, <2>4, <2>5
<1>7. CASE UNCHANGED vars
    BY <1>3, <1>7 DEF vars
<1> QED
    BY <1>4, <1>5, <1>6, <1>7 DEF Next

LEMMA BookHoldings ==
    ASSUME TypeOK, CashFixed, CashFixed', HoldingsNeverNegative,
           NEW t \in Tickets, NEW u \in Users, Book(t, u)
    PROVE  HoldingsNeverNegative'
<1> DEFINE f == Form(t)
<1>1. f \in DraftForms /\ Blocks(f)
    BY DEF TypeOK, Book, Bookable, Status, Form, Attributed
<1>2. CashMoving(f) => f.cash \in CashPositions
    BY <1>1, BlocksType DEF Blocks, SettlementOk, CashFixed
<1>3. ASSUME CashMoving(f), NEW i \in Investments \ CashPositions, NEW j \in Investments,
             i # j, ledger' = ledger \cup (InstrumentLeg(t, f, j) \cup CashLeg(t, f))
      PROVE  RowsOf(ledger', i) = RowsOf(ledger, i)
    BY <1>2, <1>3, LegRows DEF RowsOf
<1>4. ASSUME CashMoving(f), NEW i \in Investments \ CashPositions,
             ledger' = ledger \cup CashLeg(t, f)
      PROVE  RowsOf(ledger', i) = RowsOf(ledger, i)
    BY <1>2, <1>4, LegRows DEF RowsOf
<1>5. CASE EmitOrder(t, f)
  <2>1. CashMoving(f) /\ f.inv \in Investments
    BY <1>1, <1>5, BlocksType DEF EmitOrder, CashMoving
  <2>2. f.inv \notin CashPositions => NonNegative(ledger', f.inv)
    BY <1>5, <2>1 DEF EmitOrder, HoldingsAllowed, CashFixed
  <2>3. ledger' = ledger \cup (InstrumentLeg(t, f, f.inv) \cup CashLeg(t, f))
    BY <1>5 DEF EmitOrder
  <2> QED
    BY <1>3, <2>1, <2>2, <2>3, HoldingsKept
<1>6. CASE EmitNewOrder(t, f)
  <2>1. CashMoving(f) /\ Shell(t) \in Investments
    BY <1>6, ShellsAreNotCash DEF EmitNewOrder, CashMoving
  <2>2. NonNegative(ledger', Shell(t))
    BY <1>6 DEF EmitNewOrder
  <2>3. ledger' = ledger \cup (InstrumentLeg(t, f, Shell(t)) \cup CashLeg(t, f))
    BY <1>6 DEF EmitNewOrder
  <2> QED
    BY <1>3, <2>1, <2>2, <2>3, HoldingsKept
<1>7. CASE EmitCommitment(t, f)
    BY <1>7, HoldingsKept DEF EmitCommitment
<1>8. CASE EmitSecondarySell(t, f) \/ EmitSecondaryBuy(t, f)
  <2>1. CashMoving(f) /\ ledger' = ledger \cup CashLeg(t, f)
    BY <1>8 DEF EmitSecondarySell, EmitSecondaryBuy, CashMoving
  <2> QED
    BY <1>4, <2>1, HoldingsKept
<1> QED
    BY <1>5, <1>6, <1>7, <1>8 DEF Book

LEMMA ReverseHoldings ==
    ASSUME TypeOK, CashFixed, CashFixed', HoldingsNeverNegative,
           NEW t \in Tickets, Reverse(t)
    PROVE  HoldingsNeverNegative'
<1>1. ledger' = LedgerWithout(t) /\ UnitsStillThere(t)
    BY DEF Reverse, ReverseOrder, ReverseAndDelete, ReverseAndRetire, Undo
<1> SUFFICES ASSUME NEW i \in Investments \ CashPositions,
                    RowsOf(ledger', i) # RowsOf(ledger, i)
             PROVE  NonNegative(ledger', i)
    BY HoldingsKept
<1>2. LedgerWithout(t) \subseteq ledger
    BY DEF LedgerWithout
<1>3. PICK r \in ledger \ LedgerWithout(t) : r.inv = i
    BY <1>1, <1>2 DEF RowsOf
<1>4. HoldingsAllowed(LedgerWithout(t), i)
    BY <1>1, <1>3 DEF UnitsStillThere
<1> QED
    BY <1>1, <1>4 DEF HoldingsAllowed, CashFixed

LEMMA CrudHoldings ==
    ASSUME TypeOK, CashFixed, CashFixed', HoldingsNeverNegative,
           LedgerCrud \/ NavCrud \/ FlowCrud \/ InvestmentCrud
    PROVE  HoldingsNeverNegative'
<1>1. ASSUME NEW j, HoldingsAllowed(ledger', j),
             \A i \in Investments \ {j} : RowsOf(ledger', i) = RowsOf(ledger, i)
      PROVE  HoldingsNeverNegative'
    BY <1>1, HoldingsKept DEF HoldingsAllowed, CashFixed
<1>2. ASSUME ledger' = ledger
      PROVE  HoldingsNeverNegative'
    BY <1>2, HoldingsKept
<1>3. ASSUME NEW id, NEW i \in CrudTargets, NEW day, NEW units, AddTxn(id, i, day, units)
      PROVE  HoldingsNeverNegative'
  <2>1. HoldingsAllowed(ledger', i)
    BY <1>3 DEF AddTxn
  <2>2. \A j \in Investments \ {i} : RowsOf(ledger', j) = RowsOf(ledger, j)
    BY <1>3 DEF AddTxn, RowsOf, LedgerRow
  <2> QED
    BY <1>1, <2>1, <2>2
<1>4. ASSUME NEW r \in ledger, NEW day, NEW units, UpdateTxn(r, day, units)
      PROVE  HoldingsNeverNegative'
  <2> DEFINE new == [r EXCEPT !.day = day, !.units = units]
  <2>1. new.inv = r.inv
    BY DEF TypeOK, LedgerRows
  <2>2. HoldingsAllowed(ledger', r.inv) /\ ledger' = (ledger \ {r}) \cup {new}
    BY <1>4 DEF UpdateTxn
  <2> HIDE DEF new
  <2>3. \A j \in Investments \ {r.inv} : RowsOf(ledger', j) = RowsOf(ledger, j)
    BY <2>1, <2>2 DEF RowsOf
  <2> QED
    BY <1>1, <2>2, <2>3
<1>5. ASSUME NEW r \in ledger, DeleteTxn(r)
      PROVE  HoldingsNeverNegative'
  <2>1. HoldingsAllowed(ledger', r.inv)
    BY <1>5 DEF DeleteTxn
  <2>2. \A j \in Investments \ {r.inv} : RowsOf(ledger', j) = RowsOf(ledger, j)
    BY <1>5 DEF DeleteTxn, RowsOf
  <2> QED
    BY <1>1, <2>1, <2>2
<1>6. ASSUME NEW i, DeleteInvestment(i)
      PROVE  HoldingsNeverNegative'
  <2>1. RowsOf(ledger', i) = {} /\ \A j \in Investments \ {i} : RowsOf(ledger', j) = RowsOf(ledger, j)
    BY <1>6 DEF DeleteInvestment, RowsOf
  <2> QED
    BY <2>1, HoldingsKept, NoRowsNoHoldings
<1>7. CASE LedgerCrud
    BY <1>3, <1>4, <1>5, <1>7 DEF LedgerCrud
<1>8. CASE NavCrud \/ FlowCrud
    BY <1>2, <1>8 DEF NavCrud, AddNav, UpdateNav, DeleteNav,
                      FlowCrud, AddFlow, UpdateFlow, DeleteFlow, book
<1>9. CASE InvestmentCrud
    BY <1>2, <1>6, <1>9 DEF InvestmentCrud, SetActive, EditInvestment, Retype
<1> QED
    BY <1>7, <1>8, <1>9

\* Bookings, reversals and the CRUD of the ledger never leave an investment
\* short on any date, except by retyping a cash position.
THEOREM NoShortHolding ==
    ASSUME "retype" \notin Crud
    PROVE  Spec => []HoldingsNeverNegative
<1>1. Init => CashFixed /\ HoldingsNeverNegative
  <2> SUFFICES ASSUME Init PROVE CashFixed /\ HoldingsNeverNegative
    OBVIOUS
  <2>1. CashFixed
    BY DEF Init, CashFixed, AtStart
  <2>2. ASSUME NEW i \in Investments, i \notin CashPositions
        PROVE  NonNegative(Opening, i)
    <3>1. CASE i \in Funds \cup Stakes
        BY <3>1, OpeningAssumption
    <3>2. CASE i \in Shells
      <4>1. RowsOf(Opening, i) = {}
        BY <3>2, OpeningAssumption, IdsAssumption DEF RowsOf
      <4> QED
        BY <4>1, NoRowsNoHoldings
    <3> QED
        BY <2>2, <3>1, <3>2 DEF Investments
  <2> QED
    BY <2>1, <2>2 DEF Init, CashFixed, HoldingsNeverNegative
<1>2. TypeOK /\ CashFixed /\ HoldingsNeverNegative /\ [Next]_vars
          => (CashFixed /\ HoldingsNeverNegative)'
  <2> SUFFICES ASSUME TypeOK, CashFixed, HoldingsNeverNegative, [Next]_vars
               PROVE  CashFixed' /\ HoldingsNeverNegative'
    OBVIOUS
  <2>1. CashFixed'
    BY CashFixedKept
  <2>2. ASSUME ledger' = ledger PROVE HoldingsNeverNegative'
    BY <2>1, <2>2, HoldingsKept
  <2>3. ASSUME NEW t \in Tickets, TicketStep(t) PROVE HoldingsNeverNegative'
    <3>1. CASE \/ \E f \in Drafts : CreateDraft(t, f) \/ UpdateDraft(t, f)
               \/ \E u \in Users : Propose(t, u)
               \/ \E reason \in BOOLEAN : Cancel(t, reason)
        BY <2>2, <3>1 DEF CreateDraft, UpdateDraft, Propose, Cancel, book
    <3>2. CASE (\E u \in Users : Book(t, u)) \/ Reverse(t)
        BY <2>1, <3>2, BookHoldings, ReverseHoldings
    <3> QED
        BY <2>3, <3>1, <3>2 DEF TicketStep
  <2>4. CASE LedgerCrud \/ NavCrud \/ FlowCrud \/ InvestmentCrud
    BY <2>1, <2>4, CrudHoldings
  <2>5. CASE UNCHANGED vars
    <3>1. ledger' = ledger
        BY <2>5 DEF vars
    <3> QED
        BY <2>1, <3>1, HoldingsKept
  <2>6. HoldingsNeverNegative'
    BY <2>3, <2>4, <2>5 DEF Next
  <2> QED
    BY <2>1, <2>6
<1> QED
    BY <1>1, <1>2, TypeCorrect, PTL DEF Spec

=============================================================================

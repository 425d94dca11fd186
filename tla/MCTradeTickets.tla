--------------------------- MODULE MCTradeTickets ---------------------------
(* Small instances of TradeTickets for TLC.                                *)
EXTENDS TradeTickets, TLC

CONSTANTS fund, stake, cash, n1

MCFunds == {fund}
MCStakes == {stake}
MCCash == {cash}
MCNames == {n1}
MCSymmetry == Permutations(Tickets)

MCUserRows == {<<"row", 1>>}

\* Two units of the fund on day 1; the cash position starts without a row.
MCOpening == {[id |-> <<"row", 1>>, inv |-> fund, day |-> 1, units |-> 2, at |-> 0]}

\* The CRUD enters sales, before or on the day of what a ticket bought; no
\* ticket it interferes with trades the fund.
EditOpening == {}
MCTxnUnits == {-1}

-----------------------------------------------------------------------------
(* Composer forms.                                                         *)

Blank == [kind |-> "order", direction |-> "buy", inv |-> None, cash |-> cash, day |-> 2,
          units |-> 0, amount |-> 1, name |-> None, anlv |-> TRUE, setInactive |-> FALSE]

Buy(i, day) == [Blank EXCEPT !.inv = i, !.day = day, !.units = 1]
Sell(i, day, units) == [Buy(i, day) EXCEPT !.direction = "sell", !.units = units]
Disposal(i, day, units) == [Sell(i, day, units) EXCEPT !.setInactive = TRUE]
NewOrder == [Blank EXCEPT !.name = n1, !.units = 1]
Commitment == [Blank EXCEPT !.kind = "commitment", !.cash = None, !.name = n1]
StakeSale(day) ==
    [Blank EXCEPT !.kind = "secondary", !.direction = "sell", !.inv = stake, !.day = day]
StakePurchase == [Blank EXCEPT !.kind = "secondary", !.name = n1, !.amount = 0]

\* Every flow, against the known investments.
KnownDrafts ==
    {Buy(fund, 2), Sell(fund, 2, 2), Disposal(fund, 2, 2), StakeSale(2)}

\* Every flow that creates an investment, and trades against what it created.
CreatingDrafts ==
    {NewOrder, Commitment, StakePurchase}
        \cup {Buy(Shell(t), 2) : t \in Tickets}
        \cup {Disposal(Shell(t), 2, 1) : t \in Tickets}

\* Few flows, for the instances in which the CRUD interferes with them.
ShellDrafts == {NewOrder} \cup {Disposal(Shell(t), 2, 1) : t \in Tickets}
StakeDrafts == {StakeSale(2), StakePurchase}
StakeTargets == {stake} \cup Shells

EditDrafts == ShellDrafts \cup StakeDrafts

FlowDrafts == KnownDrafts \cup CreatingDrafts
=============================================================================

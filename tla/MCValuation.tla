----------------------------- MODULE MCValuation -----------------------------
(* A fund with an old live NAV beside a reported one, with an opening or without, or unitised. *)
EXTENDS Valuation

Rows(f) == [d \in Days |-> IF d \in DOMAIN f THEN f[d] ELSE NoRow]

Bought(d, u) == [inv |-> Fund, day |-> d, units |-> u, kind |-> "opening", origin |-> "excel"]
Paid(d, u) == [inv |-> Cash, day |-> d, units |-> u, kind |-> "opening", origin |-> "excel"]

\* Cash opened by a workbook, with a plan flow of the fund ahead of it.
Reported ==
  [ledger |-> {Bought(2, 1), Paid(1, 2)},
   flows |-> {[inv |-> Fund, day |-> 2, amount |-> -1, origin |-> "excel"]},
   mode |-> [i \in Invs |-> IF i = Fund THEN "reported" ELSE "unitised"],
   active |-> [i \in Invs |-> TRUE],
   prices |-> [i \in Invs |-> IF i = Fund THEN Rows(<<>>) ELSE Rows(<<Row(1, "excel")>>)],
   navs |-> [s \in Series |->
     CASE s = Fund -> Rows(<<Row(1, "live"), Row(2, "excel")>>)
       [] s = Cash -> Rows(<<Row(2, "system")>>)
       [] s = Plan -> Rows(<<NoRow, Row(1, "system")>>)]]

Unitised ==
  [Reported EXCEPT
    !.mode[Fund] = "unitised",
    !.prices[Fund] = Rows(<<Row(1, "live"), Row(2, "live"), Row(1, "live")>>),
    !.navs[Fund] = Rows(<<NoRow, Row(2, "excel"), Row(1, "system")>>)]

MCSizes == {1, -1}
\* Nobody entered an opening yet, and two people may try to.
Unopened == [Reported EXCEPT !.ledger = {Paid(1, 2)}]

MCStarts == {Reported, Unitised, Unopened}

Sheet(fund, units, asof, navs, flows, statements) ==
  [fund |-> fund, units |-> units, asof |-> asof, navs |-> navs, flows |-> flows,
   statements |-> statements]

None == <<Blank, Blank, Blank>>
Call(d) == [inv |-> Fund, day |-> d, amount |-> -1, origin |-> "excel"]

\* The opening moved and levels restated; the fund alone; the cash position alone.
MCWorkbooks ==
  {Sheet(TRUE, 1, 1, <<Blank, 2, Blank>>, {Call(3)}, <<2, 1, Blank>>),
   Sheet(TRUE, 1, 2, None, {}, None),
   Sheet(FALSE, 0, 1, None, {}, <<Blank, 1, 2>>)}

\* The account is emptied on the second day.
MCEmptied == {Sheet(FALSE, 0, 1, None, {}, <<2, 0, Blank>>)}
==============================================================================

------------------------------ MODULE Valuation ------------------------------
(***************************************************************************)
(* How one tenant's book is valued.  A fund is reported until somebody     *)
(* flips it; from then on its NAVs are computed, holdings times price, and *)
(* so are those of a cash position, whose price is one.  The plan path of  *)
(* the cash position is projected from its latest NAV and the plan flows.  *)
(* Ledger edits, the flip, the live prices, the plan flows and the import  *)
(* of a workbook each recompute what they believe they moved, in their own *)
(* transaction (src/services/investments/nav_materialisation.py,           *)
(* cash_plan_materialisation.py, investment_service.py).                   *)
(*                                                                         *)
(* A transaction reads the committed book when it begins; its writes meet  *)
(* the book as it is when it commits.  Rows that agree in every column     *)
(* modelled are one.  There is one currency, one fund, one cash position.  *)
(***************************************************************************)
EXTENDS Integers, FiniteSets, FiniteSetsExt

CONSTANTS
  Fund, Cash,  \* a listed investment and the cash position plan flows settle on
  MaxDay,
  Sizes,       \* the units of a transaction entered by hand
  Quotes,      \* prices of the provider, and NAVs entered by hand
  Amounts,     \* amounts of plan flows
  Starts,      \* the books the model may begin with
  Workbooks,   \* the workbooks that may be imported
  Workers,     \* transactions in flight at one time
  MaxOps, MaxFaults

ASSUME BoundsAreNaturals == MaxDay \in Nat \ {0} /\ MaxOps \in Nat /\ MaxFaults \in Nat
ASSUME ValuesAreNumbers == Sizes \subseteq Int /\ Amounts \subseteq Int /\ Quotes \subseteq Nat \ {0}

VARIABLES
  book,     \* the committed rows
  tx,       \* tx[w]: a transaction in flight
  stale,    \* one committed on a book that was no longer the one it had read
  cleared,  \* <<s, d>>s whose NAV row was taken away and not recomputed since
  moved,    \* the anchor or the active set moved since the last full projection
  ops, faults

vars == <<book, tx, stale, cleared, moved, ops, faults>>

Days == 1..MaxDay
Invs == {Fund, Cash}
Plan == "plan"                \* the plan NAVs of the cash position
Series == Invs \union {Plan}
Origins == {"excel", "manual", "system", "live"}
NoRow == [value |-> 0, origin |-> "none"]
Row(v, o) == [value |-> v, origin |-> o]
There(row) == row.origin # "none"
Computed(row) == row.origin \in {"none", "system"}
Blank == -1

LedgerRows == [inv : Invs, day : Days, units : Int, kind : {"opening", "trade"},
               origin : {"excel", "manual"}]
Flows == [inv : Invs, day : Days, amount : Int, origin : {"excel", "manual"}]

NoTx == [op |-> "none"]

ASSUME SeriesAreApart == Fund # Cash /\ Plan \notin Invs

ASSUME WorkbooksAreSheets ==
  \A sheet \in Workbooks :
    /\ sheet.fund \in BOOLEAN /\ sheet.asof \in Days /\ sheet.units \in Int
    /\ sheet.navs \in [Days -> Int] /\ sheet.statements \in [Days -> Int]
    /\ sheet.flows \subseteq Flows

------------------------------------------------------------------------------
(* Holdings times price. *)

Units(rows) == MapThenSumSet(LAMBDA r : r.units, rows)

Held(ledger, i, d) == Units({r \in ledger : r.inv = i /\ r.day <= d})

\* A cash position may be overdrawn, nothing else may be short (ADR-0130).
NonNegative(ledger, i) == i = Cash \/ \A d \in Days : Held(ledger, i, d) >= 0

Opening(ledger, i) == {r \in ledger : r.inv = i /\ r.kind = "opening"}

\* The partial unique index of the ledger.
OneOpening(ledger) == \A i \in Invs : \A r, s \in Opening(ledger, i) : r = s

TargetNavs(b, i, since) ==
  {d \in Days : d >= since /\ There(b.prices[i][d]) /\ Held(b.ledger, i, d) > 0}

\* Only system rows are written, refreshed or, when stranded, deleted.
Materialised(b, i, since) ==
  IF b.mode[i] # "unitised" THEN b ELSE
  [b EXCEPT !.navs[i] = [d \in Days |->
     CASE d < since \/ ~Computed(@[d]) -> @[d]
       [] d >= since /\ Computed(@[d]) ->
            IF d \in TargetNavs(b, i, since)
            THEN Row(Held(b.ledger, i, d) * b.prices[i][d].value, "system") ELSE NoRow]]

------------------------------------------------------------------------------
(* The plan path of the cash position. *)

Anchors(b) == {d \in Days : There(b.navs[Cash][d])}
Anchor(b) == Max(Anchors(b))

\* The plan flows of the active investments after the anchor, until a day.
Settling(b, d) == {f \in b.flows : b.active[f.inv] /\ f.day > Anchor(b) /\ f.day <= d}

EventDays(b) == {f.day : f \in Settling(b, MaxDay)}

Total(flows) == MapThenSumSet(LAMBDA f : f.amount, flows)

Balance(b, d) == b.navs[Cash][Anchor(b)].value + Total(Settling(b, d))

\* No active position or no anchor: nothing is written and nothing is deleted.
Projected(b, since) ==
  IF ~b.active[Cash] \/ Anchors(b) = {} THEN b ELSE
  [b EXCEPT !.navs[Plan] = [d \in Days |->
     CASE d < since \/ ~Computed(@[d]) -> @[d]
       [] d >= since /\ Computed(@[d]) ->
            IF d \in EventDays(b) THEN Row(Balance(b, d), "system") ELSE NoRow]]

------------------------------------------------------------------------------
(* State. *)

\* A book holds these and nothing else, a row or none for every series and day.
Shaped(b) ==
  b = [ledger |-> b.ledger, flows |-> b.flows,
       mode |-> [i \in Invs |-> b.mode[i]], active |-> [i \in Invs |-> b.active[i]],
       prices |-> [i \in Invs |-> [d \in Days |-> b.prices[i][d]]],
       navs |-> [s \in Series |-> [d \in Days |-> b.navs[s][d]]]]

WellFormed(b) ==
  /\ Shaped(b)
  /\ b.ledger \subseteq LedgerRows
  /\ b.flows \subseteq Flows
  /\ OneOpening(b.ledger)
  /\ \A i \in Invs : \A d \in Days : b.prices[i][d].origin \in Origins \union {"none"}
  /\ \A s \in Series : \A d \in Days : b.navs[s][d].origin \in Origins \union {"none"}
  /\ \A d \in Days : b.navs[Fund][d].origin = "live" => b.mode[Fund] = "reported"
  /\ b.mode[Cash] = "unitised" /\ \A i \in Invs : b.active[i] \in BOOLEAN

\* Every computed NAV is holdings times price of the day, and no priced day with
\* holdings is without a NAV unless its row was taken away.
NavsFollow(b, taken) ==
  \A i \in Invs : b.mode[i] = "unitised" =>
    \A d \in Days :
      LET row == b.navs[i][d] IN
      /\ row.origin = "system" =>
           /\ d \in TargetNavs(b, i, 1)
           /\ row.value = Held(b.ledger, i, d) * b.prices[i][d].value
      /\ d \in TargetNavs(b, i, 1) /\ <<i, d>> \notin taken => There(row)

\* The plan path is the projection: one row per day of a plan flow after the
\* latest NAV, cumulative, and none besides but what was not computed.
PathFollows(b, taken) ==
  b.active[Cash] /\ Anchors(b) # {} =>
    \A d \in Days :
      LET row == b.navs[Plan][d] IN
      /\ row.origin = "system" => d \in EventDays(b) /\ row.value = Balance(b, d)
      /\ d \in EventDays(b) /\ <<Plan, d>> \notin taken => There(row)

ASSUME StartsAreValued ==
  \A b \in Starts : WellFormed(b) /\ NavsFollow(b, {}) /\ PathFollows(b, {})

TypeOK ==
  /\ WellFormed(book)
  /\ cleared \subseteq Series \X Days
  /\ ops \in 0..MaxOps /\ faults \in 0..MaxFaults

Init ==
  /\ book \in Starts
  /\ tx = [w \in Workers |-> NoTx]
  /\ stale = FALSE /\ cleared = {} /\ moved = FALSE
  /\ ops = 0 /\ faults = 0

------------------------------------------------------------------------------
(* Transactions. *)

\* A ledger row that another transaction has changed and not committed.
Locked(r) ==
  \E w \in Workers : tx[w].op # "none" /\ r \in tx[w].from.ledger \ tx[w].to.ledger

\* The operation on the book it read: what it replaces outright, what it recomputed.
Begin(w, op, to, replaces, renewed) ==
  /\ tx[w].op = "none" /\ ops < MaxOps
  /\ ops' = ops + 1
  /\ tx' = [tx EXCEPT ![w] = [op |-> op, from |-> book, to |-> to,
                              replaces |-> replaces, renewed |-> renewed]]
  /\ UNCHANGED <<book, stale, cleared, moved, faults>>

From(s, since) == {s} \X {d \in Days : d >= since}

\* A slip: the upsert asks nothing of the row it meets.
YieldsAny(op, row) == TRUE

\* ON CONFLICT ... WHERE ingest_origin: which rows a computed or a live write replaces.
Yields(op, row) ==
  \/ Computed(row)
  \/ row.origin = "live" /\ op \in {"flip", "refresh"}

Met(yields, was, new, now) == IF new = was \/ ~yields THEN now ELSE new

\* The writes of a transaction on the book as it has become.
Merged(t) ==
  LET onto(was, new, now) == (now \ (was \ new)) \union (new \ was) IN
  [ledger |-> onto(t.from.ledger, t.to.ledger, book.ledger),
   flows |-> onto(t.from.flows, t.to.flows, book.flows),
   mode |-> [i \in Invs |-> IF t.to.mode[i] # t.from.mode[i] THEN t.to.mode[i] ELSE book.mode[i]],
   active |-> [i \in Invs |-> IF i \in t.replaces \/ t.to.active[i] # t.from.active[i]
                              THEN t.to.active[i] ELSE book.active[i]],
   prices |-> [i \in Invs |-> [d \in Days |->
     Met(t.op = "import" \/ Yields(t.op, book.prices[i][d]),
         t.from.prices[i][d], t.to.prices[i][d], book.prices[i][d])]],
   navs |-> [s \in Series |-> [d \in Days |->
     IF s \in t.replaces THEN t.to.navs[s][d]
     ELSE Met(Yields(t.op, book.navs[s][d]),
              t.from.navs[s][d], t.to.navs[s][d], book.navs[s][d])]]]

AnchorRow(b) == IF Anchors(b) = {} THEN <<>> ELSE <<Anchor(b), b.navs[Cash][Anchor(b)].value>>

\* Ghosts: what no recompute has accounted for, after rows were taken and renewed.
Accounts(taken, renewed) ==
  /\ cleared' = (cleared \union taken) \ renewed
  /\ moved' = /\ ~(From(Plan, 1) \subseteq renewed)
              /\ moved \/ AnchorRow(book') # AnchorRow(book) \/ book'.active # book.active

Commit(w) ==
  /\ tx[w].op # "none"
  /\ OneOpening(Merged(tx[w]).ledger)
  /\ book' = Merged(tx[w])
  /\ stale' = (stale \/ book # tx[w].from)
  /\ Accounts(tx[w].replaces \X Days, tx[w].renewed)
  /\ tx' = [tx EXCEPT ![w] = NoTx]
  /\ UNCHANGED <<ops, faults>>

\* Refused by a constraint, cancelled or cut off: nothing was written.
Fail(w) ==
  /\ tx[w].op # "none" /\ faults < MaxFaults
  /\ faults' = faults + 1
  /\ tx' = [tx EXCEPT ![w] = NoTx]
  /\ UNCHANGED <<book, stale, cleared, moved, ops>>

------------------------------------------------------------------------------
(* The ledger. *)

\* A ledger of an investment rewritten, and its NAVs recomputed since a day.
Rewrite(w, op, i, ledger, since) ==
  /\ NonNegative(ledger, i)
  /\ Begin(w, op, Materialised([book EXCEPT !.ledger = ledger], i, since), {},
           IF book.mode[i] = "unitised" THEN From(i, since) ELSE {})

AddPositionTransaction(w) ==
  \E i \in Invs, d \in Days, u \in Sizes, k \in {"opening", "trade"} :
    LET row == [inv |-> i, day |-> d, units |-> u, kind |-> k, origin |-> "manual"] IN
    /\ row \notin book.ledger
    /\ k = "opening" => u > 0 /\ Opening(book.ledger, i) = {}
    /\ Rewrite(w, "add", i, book.ledger \union {row}, d)

\* A slip: only the day the row moves to is recomputed.
SinceNew(old, new) == new

Since(old, new) == IF old < new THEN old ELSE new

\* The day and the units are restated; an Excel row stays the workbook's.
UpdatePositionTransaction(w) ==
  \E r \in book.ledger, d \in Days, u \in Sizes :
    LET row == [r EXCEPT !.day = d, !.units = u] IN
    /\ ~Locked(r)
    /\ row \notin book.ledger
    /\ r.kind = "opening" => u > 0
    /\ Rewrite(w, "update", r.inv, (book.ledger \ {r}) \union {row}, Since(r.day, d))

DeletePositionTransaction(w) ==
  \E r \in book.ledger :
    /\ ~Locked(r)
    /\ Rewrite(w, "delete", r.inv, book.ledger \ {r}, r.day)

\* A slip: the flip leaves the live rows where they are.
FlipKeepingLive(w) ==
  /\ book.mode[Fund] = "reported"
  /\ Opening(book.ledger, Fund) # {}
  /\ Begin(w, "flip", Materialised([book EXCEPT !.mode[Fund] = "unitised"], Fund, 1), {}, From(Fund, 1))

\* One way: the live rows go, and the whole series is computed.
FlipToUnitised(w) ==
  LET live(row) == row.origin = "live"
      bare == [book EXCEPT !.mode[Fund] = "unitised",
                           !.navs[Fund] = [d \in Days |-> IF live(@[d]) THEN NoRow ELSE @[d]]] IN
  /\ book.mode[Fund] = "reported"
  /\ Opening(book.ledger, Fund) # {}
  /\ Begin(w, "flip", Materialised(bare, Fund, 1), {}, From(Fund, 1))

\* What the provider answers for some days; its prices yield to all but its own.
IngestLivePrices(w) ==
  \E days \in (SUBSET Days) \ {{}}, q \in Quotes :
    LET priced == [book EXCEPT !.prices[Fund] = [d \in Days |->
                     IF d \in days /\ @[d].origin \in {"none", "live"} THEN Row(q, "live") ELSE @[d]]]
    IN  /\ book.mode[Fund] = "unitised" /\ book.active[Fund]
        /\ Begin(w, "refresh", Materialised(priced, Fund, Min(days)), {}, From(Fund, Min(days)))

------------------------------------------------------------------------------
(* Plan flows, and what recomputes nothing. *)

Reflow(w, op, flows, since) ==
  Begin(w, op, Projected([book EXCEPT !.flows = flows], since), {},
        IF book.active[Cash] /\ Anchors(book) # {} THEN From(Plan, since) ELSE {})

AddCashflow(w) ==
  \E i \in Invs, d \in Days, a \in Amounts :
    LET f == [inv |-> i, day |-> d, amount |-> a, origin |-> "manual"] IN
    /\ f \notin book.flows
    /\ Reflow(w, "flow", book.flows \union {f}, d)

UpdateCashflow(w) ==
  \E f \in book.flows, d \in Days, a \in Amounts :
    LET g == [f EXCEPT !.day = d, !.amount = a, !.origin = "manual"] IN
    /\ g \notin book.flows
    /\ Reflow(w, "flow", (book.flows \ {f}) \union {g}, Since(f.day, d))

DeleteCashflow(w) == \E f \in book.flows : Reflow(w, "flow", book.flows \ {f}, f.day)

\* A single statement that recomputes nothing.
Statement(b, taken) ==
  /\ ops < MaxOps
  /\ ops' = ops + 1
  /\ book' = b
  /\ Accounts(taken, {})
  /\ UNCHANGED <<tx, stale, faults>>

\* A NAV by hand takes the place of whatever row the day carries.
WriteNav(s, d) == \E q \in Quotes :
  Statement([book EXCEPT !.navs[s][d] = Row(q, "manual")], {})

AddNav == \E s \in Series, d \in Days : ~There(book.navs[s][d]) /\ WriteNav(s, d)
UpdateNav == \E s \in Series, d \in Days : There(book.navs[s][d]) /\ WriteNav(s, d)

DeleteNav ==
  \E s \in Series, d \in Days :
    /\ There(book.navs[s][d])
    /\ Statement([book EXCEPT !.navs[s][d] = NoRow], {<<s, d>>})

SetInvestmentActive == \E i \in Invs : Statement([book EXCEPT !.active[i] = ~@], {})

------------------------------------------------------------------------------
(* The import of a workbook. *)

Stated(sheet) == {d \in Days : sheet.statements[d] # Blank}

Named(sheet) == (IF sheet.fund THEN {Fund} ELSE {}) \union (IF Stated(sheet) # {} THEN {Cash} ELSE {})

\* Every investment of the workbook: active, its NAVs and plan flows replaced.
Replaced(b, sheet) ==
  [b EXCEPT
    !.active = [i \in Invs |-> i \in Named(sheet)],
    !.navs = [s \in Series |->
       CASE s = Fund /\ Fund \in Named(sheet) ->
              [d \in Days |-> IF sheet.navs[d] = Blank THEN NoRow ELSE Row(sheet.navs[d], "excel")]
         [] s # Fund /\ Cash \in Named(sheet) -> [d \in Days |-> NoRow]
         [] OTHER -> @[s]],
    !.flows = {f \in @ : f.inv \notin Named(sheet)} \union sheet.flows]

\* The fund's opening is the workbook's, unless somebody else entered one.
Reopened(b, sheet) ==
  LET there == Opening(b.ledger, Fund)
      opening == [inv |-> Fund, day |-> sheet.asof, units |-> sheet.units,
                  kind |-> "opening", origin |-> "excel"]
      since == Min({r.day : r \in there} \union {sheet.asof}) IN
  IF ~sheet.fund \/ opening \in there \/ (\E r \in there : r.origin # "excel") THEN b
  ELSE Materialised([b EXCEPT !.ledger = (@ \ there) \union {opening}], Fund, since)

\* The balance before a statement is the statement's before it.
Previous(sheet, d) == sheet.statements[Max({e \in Stated(sheet) : e < d})]

\* An opening at the first statement, then a transfer wherever the level moves.
StatedRows(sheet) ==
  LET first == Min(Stated(sheet))
      row(d, u, k) == [inv |-> Cash, day |-> d, units |-> u, kind |-> k, origin |-> "excel"] IN
  {row(first, sheet.statements[first], "opening")} \union
  {row(d, sheet.statements[d] - Previous(sheet, d), "trade") :
     d \in {e \in Stated(sheet) \ {first} : sheet.statements[e] # Previous(sheet, e)}}

\* The cash position's Excel rows and unit prices follow its statements.
Restated(b, sheet) ==
  LET byHand == \E r \in Opening(b.ledger, Cash) : r.origin # "excel"
      own == {r \in b.ledger : r.inv = Cash /\ r.origin = "excel"}
      target == {r \in StatedRows(sheet) : byHand => r.kind # "opening"} IN
  IF Stated(sheet) = {} THEN b
  ELSE Materialised(
    [b EXCEPT
      !.ledger = (@ \ own) \union target,
      !.prices[Cash] = [d \in Days |->
         CASE d \in Stated(sheet) /\ @[d].origin \in {"none", "excel"} -> Row(1, "excel")
           [] d \notin Stated(sheet) /\ @[d].origin = "excel" -> NoRow
           [] OTHER -> @[d]]], Cash, 1)

\* A slip: the plan path is projected before the statements are in the ledger.
ImportedPlanFirst(b, sheet) ==
  Restated(Reopened(Projected(Replaced(b, sheet), 1), sheet), sheet)

Imported(b, sheet) == Projected(Restated(Reopened(Replaced(b, sheet), sheet), sheet), 1)

TransformUpload(w) ==
  \E sheet \in Workbooks :
    LET after == Imported(book, sheet)
        named == Named(sheet) \union (IF Cash \in Named(sheet) THEN {Plan} ELSE {}) IN
    /\ \A r \in book.ledger \ after.ledger : ~Locked(r)
    /\ NonNegative(after.ledger, Fund)
    /\ Begin(w, "import", after, named,
             (IF Cash \in named THEN From(Cash, 1) ELSE {}) \union From(Plan, 1))

------------------------------------------------------------------------------

Operation(w) ==
  \/ AddPositionTransaction(w) \/ UpdatePositionTransaction(w) \/ DeletePositionTransaction(w)
  \/ FlipToUnitised(w) \/ IngestLivePrices(w)
  \/ AddCashflow(w) \/ UpdateCashflow(w) \/ DeleteCashflow(w)
  \/ TransformUpload(w)

Next ==
  \/ \E w \in Workers : Operation(w) \/ Commit(w) \/ Fail(w)
  \/ AddNav \/ UpdateNav \/ DeleteNav \/ SetInvestmentActive

Spec == Init /\ [][Next]_vars

------------------------------------------------------------------------------
(* Properties. *)

\* While no transaction commits on a book that has moved on, every computed NAV
\* is holdings times price of the day, and no priced day with holdings is without
\* a NAV unless somebody took its row away: each operation recomputes from the
\* right day on (ADR-0098 §3).
NavsFollowBook == ~stale => NavsFollow(book, cleared)

\* While moreover the anchor and the active set have stood since the last full
\* projection, the plan path is the projection: one row per day of a plan flow
\* after the latest NAV, cumulative, and none besides (ADR-0103 §6).
PathFollowsFlows == ~stale /\ ~moved => PathFollows(book, cleared)

\* However the transactions overlap, a NAV of the workbook or of a person changes
\* or goes only by an import or by a person's own edit: no recompute that classified
\* the day before that row was written touches it (ADR-0098 §1).
ForeignNavsSpared ==
  [][\A s \in Series, d \in Days :
       /\ book.navs[s][d].origin \in {"excel", "manual"}
       /\ book'.navs[s][d] # book.navs[s][d]
       => tx' = tx \/ \E w \in Workers : tx[w].op = "import" /\ tx'[w] = NoTx]_vars

\* The latest NAV of a position on a day, carried forward as every reader does.
ValueOn(b, i, d) ==
  LET known == {e \in Days : e <= d /\ There(b.navs[i][e])} IN
  IF known = {} THEN 0 ELSE b.navs[i][Max(known)].value

\* After an import nobody interfered with, the cash position is worth on every
\* statement date what its statement says.
StatementsAreValued ==
  [][\A w \in Workers : \A sheet \in Workbooks :
       /\ tx[w].op = "import" /\ tx'[w] = NoTx /\ book' # book
       /\ book = tx[w].from /\ tx[w].to = Imported(book, sheet)
       => \A d \in Stated(sheet) : ValueOn(book', Cash, d) = sheet.statements[d]]_vars

==============================================================================

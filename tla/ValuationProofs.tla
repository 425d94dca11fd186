-------------------------- MODULE ValuationProofs --------------------------
(***************************************************************************)
(* Theorems of Valuation, for any days, sizes, prices, books, workbooks    *)
(* and faults, and however many transactions overlap.                      *)
(***************************************************************************)
EXTENDS Valuation, WellFoundedInduction, TLAPS

------------------------------------------------------------------------------
(* The shape of a book. *)

Parts == {"ledger", "flows", "mode", "active", "prices", "navs"}
Whole(b) == b = [ledger |-> b.ledger, flows |-> b.flows, mode |-> b.mode, active |-> b.active,
                 prices |-> b.prices, navs |-> b.navs]
OfDays(f) == f = [d \in Days |-> f[d]]
OfInvs(f) == f = [i \in Invs |-> f[i]]
OfPrices(f) == f = [i \in Invs |-> [d \in Days |-> f[i][d]]]
OfSeries(f) == f = [s \in Series |-> [d \in Days |-> f[s][d]]]

LEMMA ShapedParts ==
  ASSUME NEW b, Shaped(b)
  PROVE  /\ DOMAIN b = Parts
         /\ DOMAIN b.mode = Invs /\ DOMAIN b.active = Invs
         /\ DOMAIN b.prices = Invs /\ \A i \in Invs : DOMAIN b.prices[i] = Days
         /\ DOMAIN b.navs = Series /\ \A s \in Series : DOMAIN b.navs[s] = Days
<1>1. PICK mode, active, prices, navs :
        /\ mode = [i \in Invs |-> b.mode[i]] /\ active = [i \in Invs |-> b.active[i]]
        /\ prices = [i \in Invs |-> [d \in Days |-> b.prices[i][d]]]
        /\ navs = [s \in Series |-> [d \in Days |-> b.navs[s][d]]]
  OBVIOUS
<1>2. b = [ledger |-> b.ledger, flows |-> b.flows, mode |-> mode, active |-> active,
           prices |-> prices, navs |-> navs]
  BY <1>1 DEF Shaped
<1>3. DOMAIN b = Parts /\ b.mode = mode /\ b.active = active /\ b.prices = prices /\ b.navs = navs
  BY <1>2 DEF Parts
<1> QED  BY <1>1, <1>3

LEMMA ShapedAnew ==
  ASSUME NEW b, Whole(b), OfInvs(b.mode), OfInvs(b.active), OfPrices(b.prices), OfSeries(b.navs)
  PROVE  Shaped(b)
BY DEF Shaped, Whole, OfInvs, OfPrices, OfSeries

LEMMA ShapedWhole ==
  ASSUME NEW b, Shaped(b)
  PROVE  /\ b = [ledger |-> b.ledger, flows |-> b.flows, mode |-> b.mode, active |-> b.active,
                 prices |-> b.prices, navs |-> b.navs]
         /\ OfInvs(b.mode) /\ OfInvs(b.active) /\ OfPrices(b.prices) /\ OfSeries(b.navs)
<1>1. PICK mode, active, prices, navs :
        /\ mode = [i \in Invs |-> b.mode[i]] /\ active = [i \in Invs |-> b.active[i]]
        /\ prices = [i \in Invs |-> [d \in Days |-> b.prices[i][d]]]
        /\ navs = [s \in Series |-> [d \in Days |-> b.navs[s][d]]]
  OBVIOUS
<1>2. b = [ledger |-> b.ledger, flows |-> b.flows, mode |-> mode, active |-> active,
           prices |-> prices, navs |-> navs]
  BY <1>1 DEF Shaped
<1>3. b.mode = mode /\ b.active = active /\ b.prices = prices /\ b.navs = navs
  BY <1>2
<1>4. OfInvs(mode) /\ OfInvs(active) /\ OfPrices(prices) /\ OfSeries(navs)
  BY <1>1 DEF OfInvs, OfPrices, OfSeries
<1> QED  BY <1>2, <1>3, <1>4

LEMMA ShapedRows ==
  ASSUME NEW b, Shaped(b)
  PROVE  /\ \A s \in Series : OfDays(b.navs[s])
         /\ \A i \in Invs : OfDays(b.prices[i])
<1>1. OfPrices(b.prices) /\ OfSeries(b.navs)
  BY ShapedWhole
<1>2. \A s \in Series : b.navs[s] = [d \in Days |-> b.navs[s][d]]
  BY <1>1 DEF OfSeries
<1>3. \A i \in Invs : b.prices[i] = [d \in Days |-> b.prices[i][d]]
  BY <1>1 DEF OfPrices
<1> QED  BY <1>2, <1>3 DEF OfDays

\* One part of a book replaced.
LEMMA WithPart ==
  ASSUME NEW b, Shaped(b), NEW v
  PROVE  /\ [b EXCEPT !.ledger = v] =
              [ledger |-> v, flows |-> b.flows, mode |-> b.mode, active |-> b.active,
               prices |-> b.prices, navs |-> b.navs]
         /\ [b EXCEPT !.flows = v] =
              [ledger |-> b.ledger, flows |-> v, mode |-> b.mode, active |-> b.active,
               prices |-> b.prices, navs |-> b.navs]
         /\ [b EXCEPT !.mode = v] =
              [ledger |-> b.ledger, flows |-> b.flows, mode |-> v, active |-> b.active,
               prices |-> b.prices, navs |-> b.navs]
         /\ [b EXCEPT !.active = v] =
              [ledger |-> b.ledger, flows |-> b.flows, mode |-> b.mode, active |-> v,
               prices |-> b.prices, navs |-> b.navs]
         /\ [b EXCEPT !.prices = v] =
              [ledger |-> b.ledger, flows |-> b.flows, mode |-> b.mode, active |-> b.active,
               prices |-> v, navs |-> b.navs]
         /\ [b EXCEPT !.navs = v] =
              [ledger |-> b.ledger, flows |-> b.flows, mode |-> b.mode, active |-> b.active,
               prices |-> b.prices, navs |-> v]
<1>1. PICK ledger, flows, mode, active, prices, navs :
        /\ ledger = b.ledger /\ flows = b.flows /\ mode = b.mode /\ active = b.active
        /\ prices = b.prices /\ navs = b.navs
  OBVIOUS
<1>2. b = [ledger |-> ledger, flows |-> flows, mode |-> mode, active |-> active,
           prices |-> prices, navs |-> navs]
  BY <1>1, ShapedWhole
<1> QED  BY <1>1, <1>2

NavsSet(b, s, f) == [b EXCEPT !.navs[s] = f]

LEMMA WithNavs ==
  ASSUME NEW b, Shaped(b), NEW s \in Series, NEW f, OfDays(f),
         NEW c, c = NavsSet(b, s, f)
  PROVE  /\ Shaped(c) /\ c.ledger = b.ledger /\ c.flows = b.flows /\ c.mode = b.mode
         /\ c.active = b.active /\ c.prices = b.prices
         /\ c.navs[s] = f /\ \A r \in Series \ {s} : c.navs[r] = b.navs[r]
<1>1. PICK navs : navs = [b.navs EXCEPT ![s] = f]
  OBVIOUS
<1>2. OfSeries(navs) /\ navs[s] = f /\ \A r \in Series \ {s} : navs[r] = b.navs[r]
  <2>1. b.navs = [r \in Series |-> [d \in Days |-> b.navs[r][d]]]
    BY ShapedWhole DEF OfSeries
  <2>2. PICK old : old = b.navs
    OBVIOUS
  <2>3. \A r \in Series : old[r] = [d \in Days |-> old[r][d]]
    BY <2>1, <2>2
  <2>4. DOMAIN old = Series /\ navs = [r \in Series |-> IF r = s THEN f ELSE old[r]]
    BY <1>1, <2>1, <2>2
  <2>5. navs[s] = f /\ \A r \in Series \ {s} : navs[r] = old[r]
    BY <2>4
  <2>6. \A r \in Series : navs[r] = [d \in Days |-> navs[r][d]]
    BY <2>3, <2>5 DEF OfDays
  <2> QED  BY <2>2, <2>4, <2>5, <2>6 DEF OfSeries
<1>3. c = [b EXCEPT !.navs = navs]
  BY <1>1, ShapedParts DEF Parts, NavsSet
<1>4. c = [ledger |-> b.ledger, flows |-> b.flows, mode |-> b.mode, active |-> b.active,
           prices |-> b.prices, navs |-> navs]
  BY <1>3, WithPart
<1>5. PICK ledger, flows, mode, active, prices :
        /\ ledger = b.ledger /\ flows = b.flows /\ mode = b.mode /\ active = b.active
        /\ prices = b.prices
  OBVIOUS
<1>6. OfInvs(mode) /\ OfInvs(active) /\ OfPrices(prices) /\ OfSeries(navs)
  BY <1>2, <1>5, ShapedWhole
<1>7. c = [ledger |-> ledger, flows |-> flows, mode |-> mode, active |-> active,
           prices |-> prices, navs |-> navs]
  BY <1>4, <1>5
<1>8. /\ c.ledger = ledger /\ c.flows = flows /\ c.mode = mode /\ c.active = active
      /\ c.prices = prices /\ c.navs = navs
  BY <1>7
<1>9. Whole(c)
  BY <1>7, <1>8 DEF Whole
<1>10. Shaped(c)
  BY <1>6, <1>8, <1>9, ShapedAnew
<1> QED  BY <1>2, <1>5, <1>8, <1>10


------------------------------------------------------------------------------
(* A recompute of the NAVs. *)

MaterialisedRow(b, i, since, d) ==
  IF d >= since /\ Computed(b.navs[i][d])
  THEN IF d \in TargetNavs(b, i, since)
       THEN Row(Held(b.ledger, i, d) * b.prices[i][d].value, "system") ELSE NoRow
  ELSE b.navs[i][d]

LEMMA DaysAreNumbers == Days \subseteq Nat /\ 1 \in Days /\ \A d \in Days : d >= 1
BY BoundsAreNaturals DEF Days

LEMMA MaterialisedRows ==
  ASSUME NEW b, Shaped(b), NEW i \in Invs, NEW since \in Nat, NEW c, c = Materialised(b, i, since)
  PROVE  /\ Shaped(c) /\ c.ledger = b.ledger /\ c.flows = b.flows /\ c.mode = b.mode
         /\ c.active = b.active /\ c.prices = b.prices
         /\ \A s \in Series \ {i} : c.navs[s] = b.navs[s]
         /\ b.mode[i] # "unitised" => c = b
         /\ b.mode[i] = "unitised" => \A d \in Days : c.navs[i][d] = MaterialisedRow(b, i, since, d)
<1>1. CASE b.mode[i] # "unitised"
  BY <1>1 DEF Materialised
<1>2. CASE b.mode[i] = "unitised"
  <2>1. PICK f : f = [d \in Days |-> MaterialisedRow(b, i, since, d)]
    OBVIOUS
  <2>2. DOMAIN b = Parts /\ DOMAIN b.navs = Series /\ i \in Series
    BY ShapedParts DEF Series
  <2>3. PICK g : g = [d \in Days |->
     CASE d < since \/ ~Computed(b.navs[i][d]) -> b.navs[i][d]
       [] d >= since /\ Computed(b.navs[i][d]) ->
            IF d \in TargetNavs(b, i, since)
            THEN Row(Held(b.ledger, i, d) * b.prices[i][d].value, "system") ELSE NoRow]
    OBVIOUS
  <2>4. c = NavsSet(b, i, g)
    BY <1>2, <2>2, <2>3 DEF Materialised, Parts, NavsSet
  <2>5. \A d \in Days : d < since <=> ~(d >= since)
    BY DaysAreNumbers
  <2>6. g = f
    BY <2>1, <2>3, <2>5 DEF MaterialisedRow
  <2>7. OfDays(f)
    BY <2>1 DEF OfDays
  <2>8. c = NavsSet(b, i, f) /\ i \in Series
    BY <2>2, <2>4, <2>6
  <2>9. /\ Shaped(c) /\ c.ledger = b.ledger /\ c.flows = b.flows /\ c.mode = b.mode
        /\ c.active = b.active /\ c.prices = b.prices
        /\ c.navs[i] = f /\ \A s \in Series \ {i} : c.navs[s] = b.navs[s]
    BY <2>7, <2>8, WithNavs
  <2>10. \A d \in Days : c.navs[i][d] = MaterialisedRow(b, i, since, d)
    BY <2>1, <2>9
  <2> QED  BY <1>2, <2>9, <2>10
<1> QED  BY <1>1, <1>2

\* NavsFollow, an investment and a day at a time.
DayFollows(b, i, d, taken) ==
  /\ b.navs[i][d].origin = "system" =>
       /\ There(b.prices[i][d]) /\ Held(b.ledger, i, d) > 0
       /\ b.navs[i][d].value = Held(b.ledger, i, d) * b.prices[i][d].value
  /\ There(b.prices[i][d]) /\ Held(b.ledger, i, d) > 0 /\ <<i, d>> \notin taken => There(b.navs[i][d])

LEMMA FollowsByDays ==
  ASSUME NEW b, NEW taken
  PROVE  NavsFollow(b, taken) <=>
           \A i \in Invs : b.mode[i] = "unitised" => \A d \in Days : DayFollows(b, i, d, taken)
<1>1. ASSUME NEW i, NEW d \in Days
      PROVE  d \in TargetNavs(b, i, 1) <=> There(b.prices[i][d]) /\ Held(b.ledger, i, d) > 0
  BY DaysAreNumbers DEF TargetNavs
<1> QED  BY <1>1 DEF NavsFollow, DayFollows

\* A day that is recomputed follows the book, whatever was there before.
LEMMA RecomputedDay ==
  ASSUME NEW b, Shaped(b), NEW i \in Invs, NEW since \in Nat, NEW c, c = Materialised(b, i, since),
         b.mode[i] = "unitised", NEW d \in Days, d >= since, NEW taken
  PROVE  DayFollows(c, i, d, taken)
<1>1. /\ c.ledger = b.ledger /\ c.prices = b.prices
      /\ c.navs[i][d] = MaterialisedRow(b, i, since, d)
  BY MaterialisedRows
<1>2. PICK h, p : h = Held(b.ledger, i, d) /\ p = b.prices[i][d]
  OBVIOUS
<1>3. d \in TargetNavs(b, i, since) <=> There(p) /\ h > 0
  BY <1>2 DEF TargetNavs
<1>4. PICK row : row = c.navs[i][d]
  OBVIOUS
<1>5. CASE ~Computed(b.navs[i][d])
  <2>1. row.origin # "system" /\ There(row)
    BY <1>1, <1>4, <1>5 DEF MaterialisedRow, Computed, There
  <2> QED  BY <1>4, <2>1 DEF DayFollows
<1>6. CASE Computed(b.navs[i][d]) /\ There(p) /\ h > 0
  <2>1. row = Row(h * p.value, "system")
    BY <1>1, <1>2, <1>3, <1>4, <1>6 DEF MaterialisedRow
  <2>2. row.origin = "system" /\ row.value = h * p.value /\ There(row)
    BY <2>1 DEF Row, There
  <2> QED  BY <1>1, <1>2, <1>4, <1>6, <2>2 DEF DayFollows
<1>7. CASE Computed(b.navs[i][d]) /\ ~(There(p) /\ h > 0)
  <2>1. row = NoRow
    BY <1>1, <1>2, <1>3, <1>4, <1>7 DEF MaterialisedRow
  <2>2. row.origin # "system"
    BY <2>1 DEF NoRow
  <2> QED  BY <1>1, <1>2, <1>4, <1>7, <2>2 DEF DayFollows
<1> QED  BY <1>5, <1>6, <1>7

HeldRows(ledger, i, d) == {r \in ledger : r.inv = i /\ r.day <= d}

\* A day on which nothing that its NAV goes back to has changed.
LEMMA KeptDay ==
  ASSUME NEW b, NEW c, NEW i, NEW d, NEW taken, NEW left, DayFollows(b, i, d, taken),
         c.navs[i][d] = b.navs[i][d], c.prices[i][d] = b.prices[i][d],
         HeldRows(c.ledger, i, d) = HeldRows(b.ledger, i, d),
         <<i, d>> \in taken => <<i, d>> \in left
  PROVE  DayFollows(c, i, d, left)
<1>1. Held(c.ledger, i, d) = Held(b.ledger, i, d)
  BY DEF Held, HeldRows
<1> QED  BY <1>1 DEF DayFollows

\* Book c agrees with book b on every NAV but those of investment i from day since on.
Agrees(b, c, i, since) ==
  \A j \in Invs, d \in Days : j # i \/ d < since =>
    /\ c.navs[j][d] = b.navs[j][d] /\ c.prices[j][d] = b.prices[j][d]
    /\ HeldRows(c.ledger, j, d) = HeldRows(b.ledger, j, d)
    /\ c.mode[j] = "unitised" => b.mode[j] = "unitised"

\* A recompute of one investment from the first day that was touched restores the rule.
LEMMA RecomputeFollows ==
  ASSUME NEW b, NEW c, Shaped(c), NEW i \in Invs, NEW since \in Nat, Agrees(b, c, i, since),
         NEW m, m = Materialised(c, i, since),
         NEW taken, NEW left, NavsFollow(b, taken),
         \A j \in Invs, d \in Days : <<j, d>> \in taken => <<j, d>> \in left \/ (j = i /\ d >= since)
  PROVE  NavsFollow(m, left)
<1>1. /\ m.ledger = c.ledger /\ m.mode = c.mode /\ m.prices = c.prices
      /\ \A s \in Series \ {i} : m.navs[s] = c.navs[s]
      /\ c.mode[i] = "unitised" => \A d \in Days : m.navs[i][d] = MaterialisedRow(c, i, since, d)
  BY MaterialisedRows
<1> SUFFICES ASSUME NEW j \in Invs, m.mode[j] = "unitised", NEW d \in Days
             PROVE  DayFollows(m, j, d, left)
  BY FollowsByDays
<1>2. CASE j = i /\ d >= since
  BY <1>1, <1>2, RecomputedDay
<1>3. CASE j # i \/ d < since
  <2>1. ~(j = i /\ d >= since)
    BY <1>3, DaysAreNumbers
  <2>2. /\ c.navs[j][d] = b.navs[j][d] /\ c.prices[j][d] = b.prices[j][d]
        /\ HeldRows(c.ledger, j, d) = HeldRows(b.ledger, j, d)
        /\ b.mode[j] = "unitised"
    BY <1>1, <1>3 DEF Agrees
  <2>3. m.navs[j][d] = c.navs[j][d]
    <3>1. CASE j # i
      BY <1>1, <3>1 DEF Series
    <3>2. CASE j = i
      BY <1>1, <2>1, <3>2 DEF MaterialisedRow
    <3> QED  BY <3>1, <3>2
  <2>4. DayFollows(b, j, d, taken)
    BY <2>2, FollowsByDays
  <2>5. <<j, d>> \in taken => <<j, d>> \in left
    BY <2>1
  <2> QED  BY <1>1, <2>2, <2>3, <2>4, <2>5, KeptDay
<1>4. d >= since \/ d < since
  BY DaysAreNumbers
<1> QED  BY <1>2, <1>3, <1>4

\* What leaves ledger, prices, modes and NAVs of the investments alone.
LEMMA NavsKept ==
  ASSUME NEW b, NEW c, c.ledger = b.ledger, c.mode = b.mode, c.prices = b.prices,
         \A i \in Invs : c.navs[i] = b.navs[i],
         NEW taken, NEW left, NavsFollow(b, taken),
         \A i \in Invs, d \in Days : <<i, d>> \in taken => <<i, d>> \in left
  PROVE  NavsFollow(c, left)
<1> SUFFICES ASSUME NEW i \in Invs, c.mode[i] = "unitised", NEW d \in Days
             PROVE  DayFollows(c, i, d, left)
  BY FollowsByDays
<1>1. DayFollows(b, i, d, taken)
  BY FollowsByDays
<1> QED  BY <1>1, KeptDay

------------------------------------------------------------------------------
(* A projection of the plan path. *)

PathDay(b, d, taken) ==
  /\ b.navs[Plan][d].origin = "system" => d \in EventDays(b) /\ b.navs[Plan][d].value = Balance(b, d)
  /\ d \in EventDays(b) /\ <<Plan, d>> \notin taken => There(b.navs[Plan][d])

LEMMA PathByDays ==
  ASSUME NEW b, NEW taken
  PROVE  PathFollows(b, taken) <=>
           (b.active[Cash] /\ Anchors(b) # {} => \A d \in Days : PathDay(b, d, taken))
BY DEF PathFollows, PathDay

LEMMA EventDay ==
  ASSUME NEW b, NEW d \in Days
  PROVE  d \in EventDays(b) <=>
           d > Anchor(b) /\ \E f \in b.flows : b.active[f.inv] /\ f.day = d
<1>1. d <= MaxDay
  BY BoundsAreNaturals DEF Days
<1> QED  BY <1>1 DEF EventDays, Settling

\* A day up to which the flows, their investments and the anchor are the same.
LEMMA KeptPathDay ==
  ASSUME NEW b, NEW c, NEW d \in Days, NEW taken, NEW left, PathDay(b, d, taken),
         c.navs[Plan][d] = b.navs[Plan][d], c.active = b.active,
         Anchor(c) = Anchor(b), c.navs[Cash][Anchor(c)].value = b.navs[Cash][Anchor(b)].value,
         \A f : f.day <= d => (f \in c.flows <=> f \in b.flows),
         <<Plan, d>> \in taken => <<Plan, d>> \in left
  PROVE  PathDay(c, d, left)
<1>1. Settling(c, d) = Settling(b, d)
  BY DEF Settling
<1>2. Balance(c, d) = Balance(b, d)
  BY <1>1 DEF Balance
<1>3. d \in EventDays(c) <=> d \in EventDays(b)
  <2>1. d <= d
    BY DaysAreNumbers
  <2>2. \A f : f.day = d => (f \in c.flows <=> f \in b.flows)
    BY <2>1
  <2> QED  BY <2>2, EventDay
<1> QED  BY <1>2, <1>3 DEF PathDay

ProjectedRow(b, since, d) ==
  IF d >= since /\ Computed(b.navs[Plan][d])
  THEN IF d \in EventDays(b) THEN Row(Balance(b, d), "system") ELSE NoRow
  ELSE b.navs[Plan][d]

Projects(b) == b.active[Cash] /\ Anchors(b) # {}

LEMMA ProjectedRows ==
  ASSUME NEW b, Shaped(b), NEW since \in Nat, NEW c, c = Projected(b, since)
  PROVE  /\ Shaped(c) /\ c.ledger = b.ledger /\ c.flows = b.flows /\ c.mode = b.mode
         /\ c.active = b.active /\ c.prices = b.prices
         /\ \A i \in Invs : c.navs[i] = b.navs[i]
         /\ ~Projects(b) => c = b
         /\ Projects(b) => \A d \in Days : c.navs[Plan][d] = ProjectedRow(b, since, d)
<1>1. CASE ~Projects(b)
  BY <1>1 DEF Projected, Projects
<1>2. CASE Projects(b)
  <2>1. PICK f : f = [d \in Days |-> ProjectedRow(b, since, d)]
    OBVIOUS
  <2>2. DOMAIN b = Parts /\ DOMAIN b.navs = Series /\ Plan \in Series
    BY ShapedParts DEF Series
  <2>3. PICK g : g = [d \in Days |->
     CASE d < since \/ ~Computed(b.navs[Plan][d]) -> b.navs[Plan][d]
       [] d >= since /\ Computed(b.navs[Plan][d]) ->
            IF d \in EventDays(b) THEN Row(Balance(b, d), "system") ELSE NoRow]
    OBVIOUS
  <2>4. c = NavsSet(b, Plan, g)
    BY <1>2, <2>2, <2>3 DEF Projected, Projects, Parts, NavsSet
  <2>5. \A d \in Days : d < since <=> ~(d >= since)
    BY DaysAreNumbers
  <2>6. g = f
    BY <2>1, <2>3, <2>5 DEF ProjectedRow
  <2>7. OfDays(f)
    BY <2>1 DEF OfDays
  <2>8. \A i \in Invs : i \in Series \ {Plan}
    BY SeriesAreApart DEF Series
  <2> QED  BY <1>2, <2>1, <2>2, <2>4, <2>6, <2>7, <2>8, WithNavs
<1> QED  BY <1>1, <1>2

\* Flows, anchor and active set are what the projected rows go back to, and stay.
LEMMA ProjectedSame ==
  ASSUME NEW b, Shaped(b), NEW since \in Nat, NEW c, c = Projected(b, since)
  PROVE  /\ Anchors(c) = Anchors(b) /\ Anchor(c) = Anchor(b) /\ EventDays(c) = EventDays(b)
         /\ \A d : Balance(c, d) = Balance(b, d)
<1>1. c.flows = b.flows /\ c.active = b.active /\ c.navs[Cash] = b.navs[Cash]
  BY ProjectedRows DEF Invs
<1>2. Anchors(c) = Anchors(b)
  BY <1>1 DEF Anchors
<1>3. Anchor(c) = Anchor(b)
  BY <1>2 DEF Anchor
<1>4. \A d : Settling(c, d) = Settling(b, d)
  BY <1>1, <1>3 DEF Settling
<1> QED  BY <1>1, <1>2, <1>3, <1>4 DEF EventDays, Balance

LEMMA ProjectedDay ==
  ASSUME NEW b, Shaped(b), NEW since \in Nat, NEW c, c = Projected(b, since), Projects(b),
         NEW d \in Days, d >= since, NEW taken
  PROVE  PathDay(c, d, taken)
<1>1. c.navs[Plan][d] = ProjectedRow(b, since, d)
  BY ProjectedRows
<1>2. PICK row, v : row = c.navs[Plan][d] /\ v = Balance(b, d)
  OBVIOUS
<1>3. Balance(c, d) = v /\ EventDays(c) = EventDays(b)
  BY <1>2, ProjectedSame
<1>4. CASE ~Computed(b.navs[Plan][d])
  <2>1. row.origin # "system" /\ There(row)
    BY <1>1, <1>2, <1>4 DEF ProjectedRow, Computed, There
  <2> QED  BY <1>2, <2>1 DEF PathDay
<1>5. CASE Computed(b.navs[Plan][d]) /\ d \in EventDays(b)
  <2>1. row = Row(v, "system")
    BY <1>1, <1>2, <1>5 DEF ProjectedRow
  <2>2. row.origin = "system" /\ row.value = v /\ There(row)
    BY <2>1 DEF Row, There
  <2> QED  BY <1>2, <1>3, <1>5, <2>2 DEF PathDay
<1>6. CASE Computed(b.navs[Plan][d]) /\ d \notin EventDays(b)
  <2>1. row = NoRow
    BY <1>1, <1>2, <1>6 DEF ProjectedRow
  <2>2. row.origin # "system"
    BY <2>1 DEF NoRow
  <2> QED  BY <1>2, <1>3, <1>6, <2>2 DEF PathDay
<1> QED  BY <1>4, <1>5, <1>6

\* Book c is book b with other flows from day since on.
OtherFlows(b, c, since) ==
  /\ c.ledger = b.ledger /\ c.mode = b.mode /\ c.active = b.active /\ c.prices = b.prices
  /\ c.navs = b.navs
  /\ \A f \in Flows : f.day < since => (f \in c.flows <=> f \in b.flows)

\* Of the plan days in taken, those before since are in left.
Keeps(taken, left, since) ==
  \A d \in Days : <<Plan, d>> \in taken => <<Plan, d>> \in left \/ d >= since

\* A projection from the first day whose flows changed restores the path; one of the whole
\* path needs no path that was right before.
LEMMA ProjectFollows ==
  ASSUME NEW b, WellFormed(b), NEW c, WellFormed(c), NEW since \in Nat, OtherFlows(b, c, since),
         NEW m, m = Projected(c, since),
         NEW taken, NEW left, since <= 1 \/ PathFollows(b, taken), Keeps(taken, left, since)
  PROVE  PathFollows(m, left)
<1>1. /\ Shaped(c) /\ c.navs[Plan] = b.navs[Plan] /\ c.navs[Cash] = b.navs[Cash]
      /\ c.active = b.active /\ b.flows \subseteq Flows /\ c.flows \subseteq Flows
      /\ \A f \in Flows : f.day \in Days
  BY DEF WellFormed, OtherFlows, Flows
<1>2. CASE ~Projects(c)
  <2>1. m = c
    BY <1>1, <1>2, ProjectedRows
  <2> QED  BY <1>2, <2>1, PathByDays DEF Projects
<1>3. CASE Projects(c)
  <2> SUFFICES ASSUME NEW d \in Days PROVE PathDay(m, d, left)
    BY PathByDays
  <2>1. CASE d >= since
    BY <1>1, <1>3, <2>1, ProjectedDay
  <2>2. CASE d < since
    <3>1. PathFollows(b, taken) /\ ~(d >= since)
      BY <2>2, DaysAreNumbers
    <3>2. Anchors(b) = Anchors(c)
      BY <1>1 DEF Anchors
    <3>3. Anchor(b) = Anchor(c)
      BY <3>2 DEF Anchor
    <3>4. PathDay(b, d, taken)
      BY <1>1, <1>3, <3>1, <3>2, PathByDays DEF Projects
    <3>5. <<Plan, d>> \in taken => <<Plan, d>> \in left
      BY <3>1 DEF Keeps
    <3>6. \A f : f.day <= d => (f \in c.flows <=> f \in b.flows)
      <4>1. \A n \in Days : n <= d => n < since
        BY <2>2, DaysAreNumbers
      <4>2. \A f \in Flows : f.day <= d => (f \in c.flows <=> f \in b.flows)
        BY <1>1, <4>1 DEF OtherFlows
      <4> QED  BY <1>1, <4>2
    <3>7. m.navs[Plan][d] = b.navs[Plan][d]
      BY <1>1, <1>3, <3>1, ProjectedRows DEF ProjectedRow
    <3>8. /\ m.active = b.active /\ m.flows = c.flows /\ m.navs[Cash] = b.navs[Cash]
          /\ Anchor(m) = Anchor(b)
      BY <1>1, <3>3, ProjectedRows, ProjectedSame DEF Invs
    <3> QED  BY <3>4, <3>5, <3>6, <3>7, <3>8, KeptPathDay
  <2>3. d >= since \/ d < since
    BY DaysAreNumbers
  <2> QED  BY <2>1, <2>2, <2>3
<1> QED  BY <1>2, <1>3

Stood(b, c) == AnchorRow(c) = AnchorRow(b) /\ c.active = b.active

\* What leaves the plan rows, the flows, the anchor and the active set alone.
LEMMA PathKept ==
  ASSUME NEW b, NEW c, c.flows = b.flows, c.navs[Plan] = b.navs[Plan], Stood(b, c),
         NEW taken, NEW left, PathFollows(b, taken),
         \A d \in Days : <<Plan, d>> \in taken => <<Plan, d>> \in left
  PROVE  PathFollows(c, left)
<1> SUFFICES ASSUME c.active[Cash], Anchors(c) # {}, NEW d \in Days PROVE PathDay(c, d, left)
  BY PathByDays
<1>1. PICK x, y : x = Anchor(c) /\ y = c.navs[Cash][Anchor(c)].value
  OBVIOUS
<1>2. AnchorRow(b) = <<x, y>>
  BY <1>1 DEF Stood, AnchorRow
<1>3. Anchors(b) # {}
  BY <1>2 DEF AnchorRow
<1>4. Anchor(b) = x /\ b.navs[Cash][Anchor(b)].value = y
  BY <1>2, <1>3 DEF AnchorRow
<1>5. PathDay(b, d, taken) /\ c.active = b.active
  BY <1>3, PathByDays DEF Stood
<1> QED  BY <1>1, <1>4, <1>5, KeptPathDay

------------------------------------------------------------------------------
(* The invariant: what a transaction in flight would make of the book it read. *)

After(t, taken) == (taken \union (t.replaces \X Days)) \ t.renewed

\* Outside what it replaces outright, a transaction changes only rows it would also replace
\* if it met them.
Spares(t) ==
  /\ \A i \in Invs, d \in Days : t.to.prices[i][d] # t.from.prices[i][d] =>
       t.op = "import" \/ Yields(t.op, t.from.prices[i][d])
  /\ \A s \in Series \ t.replaces, d \in Days : t.to.navs[s][d] # t.from.navs[s][d] =>
       Yields(t.op, t.from.navs[s][d])

\* Nobody writes a live NAV, and whoever flips the fund takes them away.
LiveGoes(t) ==
  /\ \A d \in Days : t.to.navs[Fund][d].origin = "live" =>
       Fund \notin t.replaces /\ t.to.navs[Fund][d] = t.from.navs[Fund][d]
  /\ t.to.mode # t.from.mode =>
       t.op = "flip" /\ \A d \in Days : t.to.navs[Fund][d].origin # "live"

\* Had the book followed the rules, the book it makes would.
Restores(t) ==
  /\ \A taken : NavsFollow(t.from, taken) => NavsFollow(t.to, After(t, taken))
  /\ \A taken : From(Plan, 1) \subseteq t.renewed \/ (PathFollows(t.from, taken) /\ Stood(t.from, t.to))
       => PathFollows(t.to, After(t, taken))

Sound(t) ==
  /\ WellFormed(t.from) /\ WellFormed(t.to)
  /\ t.replaces \subseteq Series /\ (t.op # "import" => t.replaces = {})
  /\ Spares(t) /\ LiveGoes(t) /\ Restores(t)

LiveIn(b, d) == b.navs[Fund][d].origin = "live"

InFlight ==
  /\ DOMAIN tx = Workers
  /\ \A w \in Workers : tx[w].op # "none" =>
       Sound(tx[w]) /\ \A d \in Days : LiveIn(book, d) => LiveIn(tx[w].from, d)

BookInv == TypeOK /\ InFlight /\ NavsFollowBook /\ PathFollowsFlows

------------------------------------------------------------------------------
(* A commit. *)

LEMMA MergedParts ==
  ASSUME NEW t, NEW m, m = Merged(t)
  PROVE  /\ Shaped(m)
         /\ m.ledger = (book.ledger \ (t.from.ledger \ t.to.ledger)) \union (t.to.ledger \ t.from.ledger)
         /\ m.flows = (book.flows \ (t.from.flows \ t.to.flows)) \union (t.to.flows \ t.from.flows)
         /\ \A i \in Invs :
              /\ m.mode[i] = IF t.to.mode[i] # t.from.mode[i] THEN t.to.mode[i] ELSE book.mode[i]
              /\ m.active[i] = IF i \in t.replaces \/ t.to.active[i] # t.from.active[i]
                               THEN t.to.active[i] ELSE book.active[i]
         /\ \A i \in Invs, d \in Days :
              m.prices[i][d] = Met(t.op = "import" \/ Yields(t.op, book.prices[i][d]),
                                   t.from.prices[i][d], t.to.prices[i][d], book.prices[i][d])
         /\ \A s \in Series, d \in Days :
              m.navs[s][d] = IF s \in t.replaces THEN t.to.navs[s][d]
                             ELSE Met(Yields(t.op, book.navs[s][d]),
                                      t.from.navs[s][d], t.to.navs[s][d], book.navs[s][d])
<1>1. PICK ledger, flows, mode, active, prices, navs :
        /\ ledger = (book.ledger \ (t.from.ledger \ t.to.ledger)) \union (t.to.ledger \ t.from.ledger)
        /\ flows = (book.flows \ (t.from.flows \ t.to.flows)) \union (t.to.flows \ t.from.flows)
        /\ mode = [i \in Invs |-> IF t.to.mode[i] # t.from.mode[i] THEN t.to.mode[i] ELSE book.mode[i]]
        /\ active = [i \in Invs |-> IF i \in t.replaces \/ t.to.active[i] # t.from.active[i]
                                    THEN t.to.active[i] ELSE book.active[i]]
        /\ prices = [i \in Invs |-> [d \in Days |->
             Met(t.op = "import" \/ Yields(t.op, book.prices[i][d]),
                 t.from.prices[i][d], t.to.prices[i][d], book.prices[i][d])]]
        /\ navs = [s \in Series |-> [d \in Days |->
             IF s \in t.replaces THEN t.to.navs[s][d]
             ELSE Met(Yields(t.op, book.navs[s][d]),
                      t.from.navs[s][d], t.to.navs[s][d], book.navs[s][d])]]
  OBVIOUS
<1>2. m = [ledger |-> ledger, flows |-> flows, mode |-> mode, active |-> active,
           prices |-> prices, navs |-> navs]
  BY <1>1 DEF Merged
<1>3. /\ m.ledger = ledger /\ m.flows = flows /\ m.mode = mode /\ m.active = active
      /\ m.prices = prices /\ m.navs = navs
  BY <1>2
<1>4. Whole(m)
  BY <1>2, <1>3 DEF Whole
<1>5. OfInvs(mode) /\ OfInvs(active)
  BY <1>1 DEF OfInvs
<1>6. OfPrices(prices) /\ OfSeries(navs)
  BY <1>1 DEF OfPrices, OfSeries
<1>7. Shaped(m)
  BY <1>3, <1>4, <1>5, <1>6, ShapedAnew
<1>8. \A i \in Invs :
        /\ mode[i] = IF t.to.mode[i] # t.from.mode[i] THEN t.to.mode[i] ELSE book.mode[i]
        /\ active[i] = IF i \in t.replaces \/ t.to.active[i] # t.from.active[i]
                       THEN t.to.active[i] ELSE book.active[i]
  BY <1>1
<1>9. \A i \in Invs, d \in Days :
        prices[i][d] = Met(t.op = "import" \/ Yields(t.op, book.prices[i][d]),
                           t.from.prices[i][d], t.to.prices[i][d], book.prices[i][d])
  BY <1>1
<1>10. \A s \in Series, d \in Days :
         navs[s][d] = IF s \in t.replaces THEN t.to.navs[s][d]
                      ELSE Met(Yields(t.op, book.navs[s][d]),
                               t.from.navs[s][d], t.to.navs[s][d], book.navs[s][d])
  BY <1>1
<1> QED  BY <1>1, <1>3, <1>7, <1>8, <1>9, <1>10

\* Two books that agree in every part are one.
LEMMA SameBook ==
  ASSUME NEW b, NEW c, Shaped(b), Shaped(c), b.ledger = c.ledger, b.flows = c.flows,
         \A i \in Invs : b.mode[i] = c.mode[i] /\ b.active[i] = c.active[i],
         \A i \in Invs, d \in Days : b.prices[i][d] = c.prices[i][d],
         \A s \in Series, d \in Days : b.navs[s][d] = c.navs[s][d]
  PROVE  b = c
<1>1. b.mode = c.mode /\ b.active = c.active
  BY ShapedWhole DEF OfInvs
<1>2. b.prices = c.prices
  <2>1. PICK f, g : f = b.prices /\ g = c.prices
    OBVIOUS
  <2>2. f = [i \in Invs |-> [d \in Days |-> f[i][d]]] /\ g = [i \in Invs |-> [d \in Days |-> g[i][d]]]
    BY <2>1, ShapedWhole DEF OfPrices
  <2>3. \A i \in Invs : [d \in Days |-> f[i][d]] = [d \in Days |-> g[i][d]]
    BY <2>1
  <2> QED  BY <2>1, <2>2, <2>3
<1>3. b.navs = c.navs
  <2>1. PICK f, g : f = b.navs /\ g = c.navs
    OBVIOUS
  <2>2. f = [s \in Series |-> [d \in Days |-> f[s][d]]] /\ g = [s \in Series |-> [d \in Days |-> g[s][d]]]
    BY <2>1, ShapedWhole DEF OfSeries
  <2>3. \A s \in Series : [d \in Days |-> f[s][d]] = [d \in Days |-> g[s][d]]
    BY <2>1
  <2> QED  BY <2>1, <2>2, <2>3
<1>4. Whole(b) /\ Whole(c)
  BY ShapedWhole DEF Whole
<1> QED  BY <1>1, <1>2, <1>3, <1>4 DEF Whole

\* A transaction that commits on the very book it read makes the book it meant to make.
LEMMA MergedOwn ==
  ASSUME NEW t, Sound(t), book = t.from, NEW m, m = Merged(t)
  PROVE  m = t.to
<1>1. Shaped(m) /\ Shaped(t.to)
  BY MergedParts DEF Sound, WellFormed
<1>2. m.ledger = t.to.ledger /\ m.flows = t.to.flows
  <2>1. \A S, T : (S \ (S \ T)) \union (T \ S) = T
    OBVIOUS
  <2>2. /\ m.ledger = (t.from.ledger \ (t.from.ledger \ t.to.ledger)) \union (t.to.ledger \ t.from.ledger)
        /\ m.flows = (t.from.flows \ (t.from.flows \ t.to.flows)) \union (t.to.flows \ t.from.flows)
    BY MergedParts
  <2> QED  BY <2>1, <2>2
<1>3. \A i \in Invs : m.mode[i] = t.to.mode[i] /\ m.active[i] = t.to.active[i]
  BY MergedParts
<1>4. \A i \in Invs, d \in Days : m.prices[i][d] = t.to.prices[i][d]
  BY MergedParts DEF Sound, Spares, Met
<1>5. \A s \in Series, d \in Days : m.navs[s][d] = t.to.navs[s][d]
  BY MergedParts DEF Sound, Spares, Met
<1> QED  BY <1>1, <1>2, <1>3, <1>4, <1>5, SameBook

\* Every row of the merged book was in the book or in what the transaction made of it.
LEMMA MergedRows ==
  ASSUME NEW t, Sound(t), NEW m, m = Merged(t)
  PROVE  /\ \A i \in Invs, d \in Days :
              m.prices[i][d] = book.prices[i][d] \/ m.prices[i][d] = t.to.prices[i][d]
         /\ \A s \in Series, d \in Days :
              m.navs[s][d] = book.navs[s][d] \/ m.navs[s][d] = t.to.navs[s][d]
         /\ m.ledger \subseteq book.ledger \union t.to.ledger
         /\ m.flows \subseteq book.flows \union t.to.flows
<1>1. ASSUME NEW i \in Invs, NEW d \in Days
      PROVE  m.prices[i][d] = book.prices[i][d] \/ m.prices[i][d] = t.to.prices[i][d]
  <2>1. PICK was, new, now :
          was = t.from.prices[i][d] /\ new = t.to.prices[i][d] /\ now = book.prices[i][d]
    OBVIOUS
  <2>2. m.prices[i][d] = Met(t.op = "import" \/ Yields(t.op, now), was, new, now)
    BY <2>1, MergedParts
  <2> QED  BY <2>1, <2>2 DEF Met
<1>2. ASSUME NEW s \in Series, NEW d \in Days
      PROVE  m.navs[s][d] = book.navs[s][d] \/ m.navs[s][d] = t.to.navs[s][d]
  <2>1. PICK was, new, now :
          was = t.from.navs[s][d] /\ new = t.to.navs[s][d] /\ now = book.navs[s][d]
    OBVIOUS
  <2>2. m.navs[s][d] = IF s \in t.replaces THEN new ELSE Met(Yields(t.op, now), was, new, now)
    BY <2>1, MergedParts
  <2> QED  BY <2>1, <2>2 DEF Met
<1>3. /\ m.ledger = (book.ledger \ (t.from.ledger \ t.to.ledger)) \union (t.to.ledger \ t.from.ledger)
      /\ m.flows = (book.flows \ (t.from.flows \ t.to.flows)) \union (t.to.flows \ t.from.flows)
  BY MergedParts
<1>4. \A S, T, U : (S \ (T \ U)) \union (U \ T) \subseteq S \union U
  OBVIOUS
<1>5. m.ledger \subseteq book.ledger \union t.to.ledger /\ m.flows \subseteq book.flows \union t.to.flows
  BY <1>3, <1>4
<1> QED  BY <1>1, <1>2, <1>5

\* A live NAV was live in the book, and stays only while the fund is reported.
LEMMA MergedLive ==
  ASSUME WellFormed(book), NEW t, Sound(t), \A d \in Days : LiveIn(book, d) => LiveIn(t.from, d),
         NEW m, m = Merged(t), NEW d \in Days, LiveIn(m, d)
  PROVE  LiveIn(book, d) /\ m.mode[Fund] = "reported"
<1>1. Fund \in Series /\ Fund \in Invs
  BY DEF Series, Invs
<1>2. PICK was, new, now, yields :
        /\ was = t.from.navs[Fund][d] /\ new = t.to.navs[Fund][d] /\ now = book.navs[Fund][d]
        /\ yields = Yields(t.op, book.navs[Fund][d])
  OBVIOUS
<1>3. m.navs[Fund][d] = IF Fund \in t.replaces THEN new ELSE Met(yields, was, new, now)
  BY <1>1, <1>2, MergedParts
<1>4. new.origin = "live" => Fund \notin t.replaces /\ new = was
  BY <1>2 DEF Sound, LiveGoes
<1>5. m.navs[Fund][d] = now /\ now.origin = "live"
  BY <1>3, <1>4 DEF Met, LiveIn
<1>6. LiveIn(book, d)
  BY <1>2, <1>5 DEF LiveIn
<1>7. was.origin = "live"
  BY <1>2, <1>6 DEF LiveIn
<1>8. CASE t.to.mode # t.from.mode
  <2>1. t.op = "flip" /\ new.origin # "live" /\ Fund \notin t.replaces
    BY <1>2, <1>8 DEF Sound, LiveGoes
  <2>2. yields
    BY <1>2, <1>5, <2>1 DEF Yields
  <2>3. m.navs[Fund][d] = new
    BY <1>3, <1>7, <2>1, <2>2 DEF Met
  <2> QED  BY <1>5, <2>1, <2>3
<1>9. CASE t.to.mode = t.from.mode
  <2>1. m.mode[Fund] = book.mode[Fund]
    <3>1. m.mode[Fund] = IF t.to.mode[Fund] # t.from.mode[Fund] THEN t.to.mode[Fund] ELSE book.mode[Fund]
      BY <1>1, MergedParts
    <3> QED  BY <1>9, <3>1
  <2>2. book.mode[Fund] = "reported"
    BY <1>6 DEF WellFormed, LiveIn
  <2> QED  BY <1>6, <2>1, <2>2
<1> QED  BY <1>8, <1>9

LEMMA MergedWell ==
  ASSUME WellFormed(book), NEW t, Sound(t), \A d \in Days : LiveIn(book, d) => LiveIn(t.from, d),
         NEW m, m = Merged(t), OneOpening(m.ledger)
  PROVE  WellFormed(m)
<1>1. Shaped(m)
  BY MergedParts
<1>2. m.ledger \subseteq LedgerRows /\ m.flows \subseteq Flows
  BY MergedRows DEF Sound, WellFormed
<1>3. ASSUME NEW i \in Invs, NEW d \in Days
      PROVE  m.prices[i][d].origin \in Origins \union {"none"}
  <2>1. m.prices[i][d] = book.prices[i][d] \/ m.prices[i][d] = t.to.prices[i][d]
    BY MergedRows
  <2> QED  BY <2>1 DEF Sound, WellFormed
<1>4. ASSUME NEW s \in Series, NEW d \in Days
      PROVE  m.navs[s][d].origin \in Origins \union {"none"}
  <2>1. m.navs[s][d] = book.navs[s][d] \/ m.navs[s][d] = t.to.navs[s][d]
    BY MergedRows
  <2> QED  BY <2>1 DEF Sound, WellFormed
<1>5. \A d \in Days : m.navs[Fund][d].origin = "live" => m.mode[Fund] = "reported"
  BY MergedLive DEF LiveIn
<1>6. m.mode[Cash] = "unitised"
  <2>1. book.mode[Cash] = "unitised" /\ t.to.mode[Cash] = "unitised" /\ Cash \in Invs
    BY DEF Sound, WellFormed, Invs
  <2> QED  BY <2>1, MergedParts
<1>7. ASSUME NEW i \in Invs PROVE m.active[i] \in BOOLEAN
  <2>1. book.active[i] \in BOOLEAN /\ t.to.active[i] \in BOOLEAN
    BY DEF Sound, WellFormed
  <2>2. m.active[i] = book.active[i] \/ m.active[i] = t.to.active[i]
    BY MergedParts
  <2> QED  BY <2>1, <2>2
<1> QED  BY <1>1, <1>2, <1>3, <1>4, <1>5, <1>6, <1>7 DEF WellFormed

LEMMA CommitKeeps ==
  ASSUME BookInv, NEW w \in Workers, Commit(w)
  PROVE  BookInv'
<1>1. PICK t, m : t = tx[w] /\ m = Merged(t)
  OBVIOUS
<1>2. /\ t.op # "none" /\ OneOpening(m.ledger) /\ book' = m
      /\ stale' = (stale \/ book # t.from)
      /\ Accounts(t.replaces \X Days, t.renewed)
      /\ tx' = [tx EXCEPT ![w] = NoTx] /\ UNCHANGED <<ops, faults>>
  BY <1>1 DEF Commit
<1>3. Sound(t) /\ \A d \in Days : LiveIn(book, d) => LiveIn(t.from, d)
  BY <1>1, <1>2 DEF BookInv, InFlight
<1>4. WellFormed(book)
  BY DEF BookInv, TypeOK
<1>5. WellFormed(m) /\ \A d \in Days : LiveIn(m, d) => LiveIn(book, d)
  BY <1>1, <1>2, <1>3, <1>4, MergedWell, MergedLive
<1>6. cleared' = After(t, cleared)
  BY <1>2 DEF Accounts, After
<1>7. TypeOK'
  <2>1. t.replaces \X Days \subseteq Series \X Days
    BY <1>3 DEF Sound
  <2>2. After(t, cleared) \subseteq Series \X Days
    BY <2>1 DEF After, BookInv, TypeOK
  <2> QED  BY <1>2, <1>5, <1>6, <2>2 DEF BookInv, TypeOK
<1>8. InFlight'
  <2>1. DOMAIN tx' = Workers
    BY <1>2 DEF BookInv, InFlight
  <2>2. ASSUME NEW v \in Workers, tx'[v].op # "none"
        PROVE  Sound(tx'[v]) /\ \A d \in Days : LiveIn(book', d) => LiveIn(tx'[v].from, d)
    <3>1. v # w /\ tx'[v] = tx[v]
      BY <1>2, <2>2 DEF BookInv, InFlight, NoTx
    <3> QED  BY <1>2, <1>5, <2>2, <3>1 DEF BookInv, InFlight
  <2> QED  BY <2>1, <2>2 DEF InFlight, LiveIn
<1>9. ~stale' => ~stale /\ book = t.from /\ book' = t.to
  BY <1>1, <1>2, <1>3, MergedOwn
<1>10. NavsFollowBook'
  <2> SUFFICES ASSUME ~stale' PROVE NavsFollow(book', cleared')
    BY DEF NavsFollowBook
  <2>1. NavsFollow(t.from, cleared)
    BY <1>9 DEF BookInv, NavsFollowBook
  <2> QED  BY <1>3, <1>6, <1>9, <2>1 DEF Sound, Restores
<1>11. PathFollowsFlows'
  <2> SUFFICES ASSUME ~stale', ~moved' PROVE PathFollows(book', cleared')
    BY DEF PathFollowsFlows
  <2>1. \/ From(Plan, 1) \subseteq t.renewed
        \/ ~moved /\ AnchorRow(book') = AnchorRow(book) /\ book'.active = book.active
    BY <1>2 DEF Accounts
  <2>2. From(Plan, 1) \subseteq t.renewed \/ (PathFollows(t.from, cleared) /\ Stood(t.from, t.to))
    <3>1. AnchorRow(book') = AnchorRow(t.to) /\ AnchorRow(book) = AnchorRow(t.from)
      BY <1>9
    <3> QED  BY <1>9, <2>1, <3>1 DEF BookInv, PathFollowsFlows, Stood
  <2> QED  BY <1>3, <1>6, <1>9, <2>2 DEF Sound, Restores
<1> QED  BY <1>7, <1>8, <1>10, <1>11 DEF BookInv

------------------------------------------------------------------------------
(* What begins, fails or is a single statement. *)

LEMMA InFrom ==
  ASSUME NEW s, NEW since, NEW r, NEW d \in Days
  PROVE  <<r, d>> \in From(s, since) <=> r = s /\ d >= since
BY DEF From

LEMMA PathIsLong ==
  ASSUME NEW renewed, From(Plan, 1) \subseteq renewed PROVE <<Plan, 1>> \in renewed
<1>1. <<Plan, 1>> \in From(Plan, 1)
  BY DaysAreNumbers, InFrom
<1> QED  BY <1>1

LEMMA BeginKeeps ==
  ASSUME BookInv, NEW w \in Workers, NEW op, NEW to, NEW replaces, NEW renewed,
         Begin(w, op, to, replaces, renewed),
         NEW t, t = [op |-> op, from |-> book, to |-> to, replaces |-> replaces, renewed |-> renewed],
         Sound(t)
  PROVE  BookInv'
<1>1. /\ tx' = [tx EXCEPT ![w] = t] /\ ops < MaxOps /\ ops' = ops + 1
      /\ UNCHANGED <<book, stale, cleared, moved, faults>>
  BY DEF Begin
<1>2. TypeOK'
  <2>1. ops' \in 0..MaxOps
    BY <1>1, BoundsAreNaturals DEF BookInv, TypeOK
  <2> QED  BY <1>1, <2>1 DEF BookInv, TypeOK
<1>3. InFlight'
  <2>1. DOMAIN tx' = Workers
    BY <1>1 DEF BookInv, InFlight
  <2>2. t.from = book
    OBVIOUS
  <2>3. ASSUME NEW v \in Workers, tx'[v].op # "none"
        PROVE  Sound(tx'[v]) /\ \A d \in Days : LiveIn(book, d) => LiveIn(tx'[v].from, d)
    <3>1. CASE v = w
      <4>1. tx'[v] = t
        BY <1>1, <3>1 DEF BookInv, InFlight
      <4> QED  BY <2>2, <4>1
    <3>2. CASE v # w
      <4>1. tx'[v] = tx[v]
        BY <1>1, <3>2 DEF BookInv, InFlight
      <4> QED  BY <2>3, <4>1 DEF BookInv, InFlight
    <3> QED  BY <3>1, <3>2
  <2> QED  BY <1>1, <2>1, <2>3 DEF InFlight, LiveIn
<1>4. NavsFollowBook' /\ PathFollowsFlows'
  BY <1>1 DEF BookInv, NavsFollowBook, PathFollowsFlows
<1> QED  BY <1>2, <1>3, <1>4 DEF BookInv

LEMMA FailKeeps ==
  ASSUME BookInv, NEW w \in Workers, Fail(w) PROVE BookInv'
<1>1. /\ tx' = [tx EXCEPT ![w] = NoTx] /\ faults < MaxFaults /\ faults' = faults + 1
      /\ UNCHANGED <<book, stale, cleared, moved, ops>>
  BY DEF Fail
<1>2. TypeOK'
  <2>1. faults' \in 0..MaxFaults
    BY <1>1, BoundsAreNaturals DEF BookInv, TypeOK
  <2> QED  BY <1>1, <2>1 DEF BookInv, TypeOK
<1>3. InFlight'
  <2>1. DOMAIN tx' = Workers
    BY <1>1 DEF BookInv, InFlight
  <2>2. ASSUME NEW v \in Workers, tx'[v].op # "none" PROVE tx'[v] = tx[v]
    BY <1>1, <2>2 DEF BookInv, InFlight, NoTx
  <2> QED  BY <1>1, <2>1, <2>2 DEF BookInv, InFlight, LiveIn
<1>4. NavsFollowBook' /\ PathFollowsFlows'
  BY <1>1 DEF BookInv, NavsFollowBook, PathFollowsFlows
<1> QED  BY <1>2, <1>3, <1>4 DEF BookInv

\* A statement that keeps the book well formed and no NAV becomes live by.
LEMMA StatementKeeps ==
  ASSUME BookInv, NEW b, NEW taken, Statement(b, taken), WellFormed(b),
         taken \subseteq Series \X Days, \A d \in Days : LiveIn(b, d) => LiveIn(book, d),
         ~stale => NavsFollow(b, cleared \union taken),
         ~stale /\ ~moved /\ Stood(book, b) => PathFollows(b, cleared \union taken)
  PROVE  BookInv'
<1>1. /\ book' = b /\ ops < MaxOps /\ ops' = ops + 1 /\ Accounts(taken, {})
      /\ UNCHANGED <<tx, stale, faults>>
  BY DEF Statement
<1>2. cleared' = cleared \union taken
  BY <1>1 DEF Accounts
<1>3. moved' = (moved \/ AnchorRow(b) # AnchorRow(book) \/ b.active # book.active)
  <2>1. ~(From(Plan, 1) \subseteq {})
    BY PathIsLong
  <2>2. AnchorRow(book') = AnchorRow(b) /\ book'.active = b.active
    BY <1>1
  <2> QED  BY <1>1, <2>1, <2>2 DEF Accounts
<1>4. TypeOK'
  <2>1. ops' \in 0..MaxOps
    BY <1>1, BoundsAreNaturals DEF BookInv, TypeOK
  <2> QED  BY <1>1, <1>2, <2>1 DEF BookInv, TypeOK
<1>5. InFlight'
  BY <1>1 DEF BookInv, InFlight, LiveIn
<1>6. NavsFollowBook'
  BY <1>1, <1>2 DEF NavsFollowBook
<1>7. PathFollowsFlows'
  BY <1>1, <1>2, <1>3 DEF PathFollowsFlows, Stood
<1> QED  BY <1>4, <1>5, <1>6, <1>7 DEF BookInv

\* One row of the NAVs written by hand or deleted.
Edited(b, s, d, row) == [b EXCEPT !.navs[s][d] = row]

LEMMA RowWritten ==
  ASSUME NEW a, WellFormed(a), NEW s \in Series, NEW e \in Days, NEW row,
         row = NoRow \/ row.origin = "manual",
         NEW b, b = Edited(a, s, e, row)
  PROVE  /\ WellFormed(b) /\ b.ledger = a.ledger /\ b.flows = a.flows /\ b.mode = a.mode
         /\ b.active = a.active /\ b.prices = a.prices
         /\ b.navs[s][e] = row
         /\ \A r \in Series, d \in Days : r # s \/ d # e => b.navs[r][d] = a.navs[r][d]
         /\ \A d \in Days : LiveIn(b, d) => LiveIn(a, d)
         /\ row.origin # "system" /\ row.origin # "live"
<1>1. PICK f : f = [a.navs[s] EXCEPT ![e] = row]
  OBVIOUS
<1>0. Shaped(a)
  BY DEF WellFormed
<1>2. DOMAIN a = Parts /\ DOMAIN a.navs = Series /\ DOMAIN a.navs[s] = Days
  BY <1>0, ShapedParts
<1>3. b = NavsSet(a, s, f)
  BY <1>1, <1>2 DEF Parts, Edited, NavsSet
<1>4. f[e] = row /\ \A d \in Days : d # e => f[d] = a.navs[s][d]
  BY <1>1, <1>2
<1>5. OfDays(f)
  BY <1>1, <1>2 DEF OfDays
<1>6. /\ Shaped(b) /\ b.ledger = a.ledger /\ b.flows = a.flows /\ b.mode = a.mode
      /\ b.active = a.active /\ b.prices = a.prices
      /\ b.navs[s] = f /\ \A r \in Series \ {s} : b.navs[r] = a.navs[r]
  BY <1>0, <1>3, <1>5, WithNavs
<1>7. \A r \in Series, d \in Days : r # s \/ d # e => b.navs[r][d] = a.navs[r][d]
  BY <1>4, <1>6
<1>8. b.navs[s][e] = row
  BY <1>4, <1>6
<1>9. row.origin \in {"none", "manual"}
  BY DEF NoRow
<1>10. \A r \in Series, d \in Days : b.navs[r][d] = a.navs[r][d] \/ b.navs[r][d] = row
  BY <1>7, <1>8
<1>11. \A d \in Days : LiveIn(b, d) => LiveIn(a, d)
  BY <1>9, <1>10 DEF LiveIn, Series, Invs
<1>12. ASSUME NEW r \in Series, NEW d \in Days PROVE b.navs[r][d].origin \in Origins \union {"none"}
  <2>1. b.navs[r][d] = a.navs[r][d] \/ b.navs[r][d] = row
    BY <1>10
  <2> QED  BY <1>9, <2>1 DEF WellFormed, Origins
<1>13. WellFormed(b)
  BY <1>6, <1>11, <1>12 DEF WellFormed, LiveIn
<1> QED  BY <1>6, <1>7, <1>8, <1>9, <1>11, <1>13

LEMMA RowWrittenKeeps ==
  ASSUME BookInv, NEW s \in Series, NEW e \in Days, NEW row, NEW taken,
         \/ row = NoRow /\ taken = {<<s, e>>}
         \/ row.origin = "manual" /\ taken = {},
         Statement(Edited(book, s, e, row), taken)
  PROVE  BookInv'
<1>1. PICK b : b = Edited(book, s, e, row)
  OBVIOUS
<1>2. WellFormed(book)
  BY DEF BookInv, TypeOK
<1>3. /\ WellFormed(b) /\ b.ledger = book.ledger /\ b.flows = book.flows /\ b.mode = book.mode
      /\ b.active = book.active /\ b.prices = book.prices
      /\ b.navs[s][e] = row
      /\ \A r \in Series, d \in Days : r # s \/ d # e => b.navs[r][d] = book.navs[r][d]
      /\ \A d \in Days : LiveIn(b, d) => LiveIn(book, d)
      /\ row.origin # "system" /\ row.origin # "live"
  BY <1>1, <1>2, RowWritten
<1>4. taken \subseteq Series \X Days
  OBVIOUS
<1>5. <<s, e>> \in cleared \union taken \/ There(row)
  BY DEF There
<1>6. ASSUME ~stale PROVE NavsFollow(b, cleared \union taken)
  <2> SUFFICES ASSUME NEW i \in Invs, b.mode[i] = "unitised", NEW d \in Days
               PROVE  DayFollows(b, i, d, cleared \union taken)
    BY FollowsByDays
  <2>1. DayFollows(book, i, d, cleared)
    BY <1>3, <1>6, FollowsByDays DEF BookInv, NavsFollowBook
  <2>2. CASE i = s /\ d = e
    BY <1>3, <1>5, <2>2 DEF DayFollows
  <2>3. CASE i # s \/ d # e
    <3>1. b.navs[i][d] = book.navs[i][d]
      BY <1>3, <2>3 DEF Series
    <3> QED  BY <1>3, <2>1, <3>1, KeptDay
  <2> QED  BY <2>2, <2>3
<1>7. ASSUME ~stale, ~moved, Stood(book, b) PROVE PathFollows(b, cleared \union taken)
  <2>1. CASE s # Plan
    <3>1. PathFollows(book, cleared)
      BY <1>7 DEF BookInv, PathFollowsFlows
    <3>2. b.navs[Plan] = book.navs[Plan]
      <4>1. OfDays(b.navs[Plan]) /\ OfDays(book.navs[Plan])
        BY <1>2, <1>3, ShapedRows DEF WellFormed, Series
      <4>2. \A d \in Days : b.navs[Plan][d] = book.navs[Plan][d]
        BY <1>3, <2>1 DEF Series
      <4> QED  BY <4>1, <4>2 DEF OfDays
    <3> QED  BY <1>3, <1>7, <3>1, <3>2, PathKept
  <2>2. CASE s = Plan
    <3> SUFFICES ASSUME b.active[Cash], Anchors(b) # {}, NEW d \in Days
                 PROVE  PathDay(b, d, cleared \union taken)
      BY PathByDays
    <3>1. \A f \in Days : b.navs[Cash][f] = book.navs[Cash][f]
      BY <1>3, <2>2, SeriesAreApart DEF Series, Invs
    <3>2. Anchors(b) = Anchors(book)
      BY <3>1 DEF Anchors
    <3>3. Anchor(b) = Anchor(book)
      BY <3>2 DEF Anchor
    <3>4. PathDay(book, d, cleared)
      BY <1>3, <1>7, <3>2, PathByDays DEF BookInv, PathFollowsFlows
    <3>5. CASE d = e
      BY <1>3, <1>5, <2>2, <3>5 DEF PathDay
    <3>6. CASE d # e
      <4>1. b.navs[Plan][d] = book.navs[Plan][d]
        BY <1>3, <3>6 DEF Series
      <4>2. b.navs[Cash] = book.navs[Cash]
        <5>1. OfDays(b.navs[Cash]) /\ OfDays(book.navs[Cash])
          BY <1>2, <1>3, ShapedRows DEF WellFormed, Series, Invs
        <5> QED  BY <3>1, <5>1 DEF OfDays
      <4> QED  BY <1>3, <3>3, <3>4, <4>1, <4>2, KeptPathDay
    <3> QED  BY <3>5, <3>6
  <2> QED  BY <2>1, <2>2
<1> QED  BY <1>1, <1>3, <1>4, <1>6, <1>7, StatementKeeps

LEMMA NavStatementsKeep ==
  ASSUME BookInv, AddNav \/ UpdateNav \/ DeleteNav PROVE BookInv'
<1>1. CASE AddNav \/ UpdateNav
  <2>1. PICK s \in Series, d \in Days, q \in Quotes :
          Statement([book EXCEPT !.navs[s][d] = Row(q, "manual")], {})
    BY <1>1 DEF AddNav, UpdateNav, WriteNav
  <2>2. PICK row : row = Row(q, "manual")
    OBVIOUS
  <2>3. row.origin = "manual"
    BY <2>2 DEF Row
  <2>4. Statement(Edited(book, s, d, row), {})
    BY <2>1, <2>2 DEF Edited
  <2> QED  BY <2>3, <2>4, RowWrittenKeeps
<1>2. CASE DeleteNav
  <2>1. PICK s \in Series, d \in Days : Statement([book EXCEPT !.navs[s][d] = NoRow], {<<s, d>>})
    BY <1>2 DEF DeleteNav
  <2>2. PICK taken : taken = {<<s, d>>}
    OBVIOUS
  <2>3. Statement(Edited(book, s, d, NoRow), taken)
    BY <2>1, <2>2 DEF Edited
  <2> QED  BY <2>2, <2>3, RowWrittenKeeps
<1> QED  BY <1>1, <1>2

LEMMA ActiveKeeps ==
  ASSUME BookInv, SetInvestmentActive PROVE BookInv'
<1>1. PICK i \in Invs : Statement([book EXCEPT !.active[i] = ~@], {})
  BY DEF SetInvestmentActive
<1>2. PICK a, b : a = book /\ b = [book EXCEPT !.active[i] = ~@]
  OBVIOUS
<1>3. PICK active : active = [a.active EXCEPT ![i] = ~@]
  OBVIOUS
<1>4. WellFormed(a) /\ Shaped(a)
  BY <1>2 DEF BookInv, TypeOK, WellFormed
<1>5. DOMAIN a = Parts /\ DOMAIN a.active = Invs
  BY <1>4, ShapedParts
<1>6. b = [a EXCEPT !.active = active]
  BY <1>2, <1>3, <1>5 DEF Parts
<1>7. b = [ledger |-> a.ledger, flows |-> a.flows, mode |-> a.mode, active |-> active,
           prices |-> a.prices, navs |-> a.navs]
  BY <1>4, <1>6, WithPart
<1>8. /\ b.ledger = a.ledger /\ b.flows = a.flows /\ b.mode = a.mode /\ b.active = active
      /\ b.prices = a.prices /\ b.navs = a.navs
  BY <1>7
<1>9. OfInvs(active) /\ active[i] = ~a.active[i] /\ \A j \in Invs : j # i => active[j] = a.active[j]
  BY <1>3, <1>5 DEF OfInvs
<1>10. Shaped(b)
  <2>1. Whole(b)
    BY <1>7, <1>8 DEF Whole
  <2>2. OfInvs(b.mode) /\ OfPrices(b.prices) /\ OfSeries(b.navs)
    BY <1>4, <1>8, ShapedWhole
  <2> QED  BY <1>8, <1>9, <2>1, <2>2, ShapedAnew
<1>11. \A j \in Invs : a.active[j] \in BOOLEAN
  BY <1>4 DEF WellFormed
<1>12. \A j \in Invs : active[j] \in BOOLEAN
  BY <1>9, <1>11
<1>13. WellFormed(b)
  BY <1>4, <1>8, <1>10, <1>12 DEF WellFormed
<1>14. ~Stood(book, b)
  <2>1. active[i] # a.active[i]
    BY <1>9, <1>11
  <2> QED  BY <1>2, <1>8, <2>1 DEF Stood
<1>15. ASSUME ~stale PROVE NavsFollow(b, cleared \union {})
  <2>1. NavsFollow(a, cleared)
    BY <1>2, <1>15 DEF BookInv, NavsFollowBook
  <2> QED  BY <1>8, <2>1, NavsKept
<1>16. \A d \in Days : LiveIn(b, d) => LiveIn(book, d)
  BY <1>2, <1>8 DEF LiveIn
<1>17. Statement(b, {}) /\ {} \subseteq Series \X Days
  BY <1>1, <1>2
<1> QED  BY <1>13, <1>14, <1>15, <1>16, <1>17, StatementKeeps

------------------------------------------------------------------------------
(* Transactions that recompute the NAVs of one investment. *)

\* Book c is what a transaction makes of the ledger, prices, modes and live NAVs of b before
\* it recomputes investment i from day since on.
Prepares(b, c, op, i, since) ==
  /\ WellFormed(c) /\ Agrees(b, c, i, since) /\ c.flows = b.flows /\ c.active = b.active
  /\ \A s \in Series \ {i} : c.navs[s] = b.navs[s]
  /\ \A d \in Days : c.navs[i][d] = b.navs[i][d] \/ Yields(op, b.navs[i][d])
  /\ \A j \in Invs, d \in Days : c.prices[j][d] = b.prices[j][d] \/ Yields(op, b.prices[j][d])
  /\ \A d \in Days : LiveIn(c, d) => c.navs[Fund][d] = b.navs[Fund][d]
  /\ c.mode # b.mode => op = "flip" /\ \A d \in Days : ~LiveIn(c, d)

\* A recompute writes computed rows only, and only in the place of such.
LEMMA MaterialisedWell ==
  ASSUME NEW c, WellFormed(c), NEW i \in Invs, NEW since \in Nat, NEW m, m = Materialised(c, i, since)
  PROVE  /\ WellFormed(m)
         /\ \A s \in Series, d \in Days :
              \/ m.navs[s][d] = c.navs[s][d]
              \/ s = i /\ Computed(c.navs[s][d]) /\ m.navs[s][d].origin \in {"system", "none"}
<1>1. WellFormed(c) /\ Shaped(c)
  BY DEF WellFormed
<1>2. /\ Shaped(m) /\ m.ledger = c.ledger /\ m.flows = c.flows /\ m.mode = c.mode
      /\ m.active = c.active /\ m.prices = c.prices
      /\ \A s \in Series \ {i} : m.navs[s] = c.navs[s]
      /\ c.mode[i] # "unitised" => m = c
      /\ c.mode[i] = "unitised" => \A d \in Days : m.navs[i][d] = MaterialisedRow(c, i, since, d)
  BY <1>1, MaterialisedRows
<1>3. i \in Series /\ Fund \in Series
  BY DEF Series, Invs
<1>4. \A s \in Series, d \in Days :
        \/ m.navs[s][d] = c.navs[s][d]
        \/ s = i /\ Computed(c.navs[s][d]) /\ m.navs[s][d].origin \in {"system", "none"}
  <2> SUFFICES ASSUME NEW s \in Series, NEW d \in Days, m.navs[s][d] # c.navs[s][d]
               PROVE  s = i /\ Computed(c.navs[s][d]) /\ m.navs[s][d].origin \in {"system", "none"}
    OBVIOUS
  <2>1. s = i /\ c.mode[i] = "unitised"
    BY <1>2
  <2>2. m.navs[i][d] = MaterialisedRow(c, i, since, d)
    BY <1>2, <2>1
  <2>3. Computed(c.navs[i][d])
    BY <2>1, <2>2 DEF MaterialisedRow
  <2>4. \A v : Row(v, "system").origin = "system"
    BY DEF Row
  <2>5. NoRow.origin = "none"
    BY DEF NoRow
  <2>6. m.navs[i][d].origin \in {"system", "none"}
    BY <2>1, <2>2, <2>4, <2>5 DEF MaterialisedRow
  <2> QED  BY <2>1, <2>3, <2>6
<1>5. WellFormed(m)
  <2>1. ASSUME NEW s \in Series, NEW d \in Days PROVE m.navs[s][d].origin \in Origins \union {"none"}
    BY <1>1, <1>4 DEF WellFormed, Origins
  <2>2. \A d \in Days : m.navs[Fund][d].origin = "live" => m.mode[Fund] = "reported"
    BY <1>1, <1>2, <1>3, <1>4 DEF WellFormed
  <2> QED  BY <1>1, <1>2, <2>1, <2>2 DEF WellFormed
<1> QED  BY <1>4, <1>5

LEMMA RecomputeSound ==
  ASSUME NEW b, WellFormed(b), NEW c, NEW op, NEW i \in Invs, NEW since \in Nat,
         Prepares(b, c, op, i, since), NEW m, m = Materialised(c, i, since),
         NEW renewed, renewed \subseteq From(i, since),
         NEW t, t = [op |-> op, from |-> b, to |-> m, replaces |-> {}, renewed |-> renewed]
  PROVE  Sound(t)
<1>1. /\ t.op = op /\ t.from = b /\ t.to = m /\ t.replaces = {} /\ t.renewed = renewed
  OBVIOUS
<1>2. WellFormed(c) /\ Shaped(c)
  BY DEF Prepares, WellFormed
<1>3. /\ Shaped(m) /\ m.ledger = c.ledger /\ m.flows = c.flows /\ m.mode = c.mode
      /\ m.active = c.active /\ m.prices = c.prices
      /\ \A s \in Series \ {i} : m.navs[s] = c.navs[s]
      /\ c.mode[i] # "unitised" => m = c
      /\ c.mode[i] = "unitised" => \A d \in Days : m.navs[i][d] = MaterialisedRow(c, i, since, d)
  BY <1>2, MaterialisedRows
<1>4. i \in Series /\ Plan \in Series \ {i} /\ Fund \in Series
  BY SeriesAreApart DEF Series, Invs
<1>5. \A s \in Series, d \in Days :
        \/ m.navs[s][d] = c.navs[s][d]
        \/ s = i /\ Computed(c.navs[s][d]) /\ m.navs[s][d].origin \in {"system", "none"}
  BY <1>2, MaterialisedWell
<1>6. WellFormed(m)
  BY <1>2, MaterialisedWell
<1>7. Spares(t)
  <2>1. ASSUME NEW s \in Series, NEW d \in Days, m.navs[s][d] # b.navs[s][d]
        PROVE  Yields(op, b.navs[s][d])
    <3>1. s = i
      BY <1>5, <2>1 DEF Prepares
    <3>2. CASE c.navs[i][d] = b.navs[i][d]
      BY <1>5, <2>1, <3>1, <3>2 DEF Yields
    <3>3. CASE c.navs[i][d] # b.navs[i][d]
      BY <3>1, <3>3 DEF Prepares
    <3> QED  BY <3>2, <3>3
  <2>2. ASSUME NEW j \in Invs, NEW d \in Days, m.prices[j][d] # b.prices[j][d]
        PROVE  Yields(op, b.prices[j][d])
    BY <1>3, <2>2 DEF Prepares
  <2> QED  BY <1>1, <2>1, <2>2 DEF Spares
<1>8. LiveGoes(t)
  <2>1. ASSUME NEW d \in Days, m.navs[Fund][d].origin = "live"
        PROVE  m.navs[Fund][d] = b.navs[Fund][d] /\ LiveIn(c, d)
    <3>1. m.navs[Fund][d] = c.navs[Fund][d]
      BY <1>4, <1>5, <2>1
    <3> QED  BY <2>1, <3>1 DEF Prepares, LiveIn
  <2>2. m.mode # b.mode => op = "flip" /\ \A d \in Days : m.navs[Fund][d].origin # "live"
    BY <1>3, <2>1 DEF Prepares
  <2> QED  BY <1>1, <2>1, <2>2 DEF LiveGoes
<1>9. \A taken, s : \A d \in Days :
        <<s, d>> \in taken => <<s, d>> \in After(t, taken) \/ (s = i /\ d >= since)
  BY <1>1, InFrom DEF After
<1>10. ASSUME NEW taken, NavsFollow(b, taken) PROVE NavsFollow(m, After(t, taken))
  <2>1. PICK left : left = After(t, taken)
    OBVIOUS
  <2>2. \A j \in Invs, d \in Days : <<j, d>> \in taken => <<j, d>> \in left \/ (j = i /\ d >= since)
    BY <1>9, <2>1
  <2>3. Agrees(b, c, i, since)
    BY DEF Prepares
  <2>4. NavsFollow(m, left)
    BY <1>2, <1>10, <2>2, <2>3, RecomputeFollows
  <2> QED  BY <2>1, <2>4
<1>11. ASSUME NEW taken, From(Plan, 1) \subseteq renewed \/ (PathFollows(b, taken) /\ Stood(b, m))
       PROVE  PathFollows(m, After(t, taken))
  <2>1. ~(From(Plan, 1) \subseteq renewed)
    <3> SUFFICES ASSUME From(Plan, 1) \subseteq renewed PROVE FALSE
      OBVIOUS
    <3>1. <<Plan, 1>> \in From(i, since)
      BY PathIsLong
    <3> QED  BY <1>4, <3>1, DaysAreNumbers, InFrom
  <2>2. m.flows = b.flows /\ m.navs[Plan] = b.navs[Plan]
    BY <1>3, <1>4 DEF Prepares
  <2>3. \A d \in Days : <<Plan, d>> \in taken => <<Plan, d>> \in After(t, taken)
    BY <1>4, <1>9
  <2> QED  BY <1>11, <2>1, <2>2, <2>3, PathKept
<1>12. Restores(t)
  BY <1>1, <1>10, <1>11 DEF Restores
<1> QED  BY <1>1, <1>6, <1>7, <1>8, <1>12 DEF Sound

\* A ledger that differs only on rows of i from day since on.
LEMMA LedgerPrepares ==
  ASSUME NEW b, WellFormed(b), NEW ledger, ledger \subseteq LedgerRows, OneOpening(ledger),
         NEW i, NEW since \in Nat, NEW op,
         \A r \in LedgerRows : r.inv # i \/ r.day < since => (r \in ledger <=> r \in b.ledger),
         NEW c, c = [b EXCEPT !.ledger = ledger]
  PROVE  Prepares(b, c, op, i, since)
<1>1. Shaped(b) /\ b.ledger \subseteq LedgerRows
  BY DEF WellFormed
<1>2. c = [ledger |-> ledger, flows |-> b.flows, mode |-> b.mode, active |-> b.active,
           prices |-> b.prices, navs |-> b.navs]
  BY <1>1, WithPart
<1>3. /\ c.ledger = ledger /\ c.flows = b.flows /\ c.mode = b.mode /\ c.active = b.active
      /\ c.prices = b.prices /\ c.navs = b.navs
  BY <1>2
<1>4. Shaped(c)
  <2>1. Whole(c)
    BY <1>2, <1>3 DEF Whole
  <2>2. OfInvs(c.mode) /\ OfInvs(c.active) /\ OfPrices(c.prices) /\ OfSeries(c.navs)
    BY <1>1, <1>3, ShapedWhole
  <2> QED  BY <2>1, <2>2, ShapedAnew
<1>5. WellFormed(c)
  BY <1>3, <1>4 DEF WellFormed
<1>6. ASSUME NEW j \in Invs, NEW d \in Days, j # i \/ d < since
      PROVE  HeldRows(c.ledger, j, d) = HeldRows(b.ledger, j, d)
  <2>1. ASSUME NEW r \in LedgerRows, r.inv = j, r.day <= d
        PROVE  r \in ledger <=> r \in b.ledger
    <3>1. r.day \in Days
      BY DEF LedgerRows
    <3>2. r.inv # i \/ r.day < since
      <4>1. CASE j # i
        BY <2>1, <4>1
      <4>2. CASE d < since
        BY <2>1, <3>1, <4>2, DaysAreNumbers
      <4> QED  BY <1>6, <4>1, <4>2
    <3> QED  BY <3>2
  <2> QED  BY <1>1, <1>3, <2>1 DEF HeldRows
<1>7. Agrees(b, c, i, since)
  BY <1>3, <1>6 DEF Agrees
<1> QED  BY <1>3, <1>5, <1>7 DEF Prepares, LiveIn

LEMMA RewriteKeeps ==
  ASSUME BookInv, NEW w \in Workers, NEW op, op # "none", NEW i \in Invs,
         NEW ledger, ledger \subseteq LedgerRows, OneOpening(ledger), NEW since \in Nat,
         \A r \in LedgerRows : r.inv # i \/ r.day < since => (r \in ledger <=> r \in book.ledger),
         Rewrite(w, op, i, ledger, since)
  PROVE  BookInv'
<1>1. PICK b, c, m, renewed :
        /\ b = book /\ c = [b EXCEPT !.ledger = ledger] /\ m = Materialised(c, i, since)
        /\ renewed = IF b.mode[i] = "unitised" THEN From(i, since) ELSE {}
  OBVIOUS
<1>2. Begin(w, op, m, {}, renewed)
  BY <1>1 DEF Rewrite
<1>3. PICK t : t = [op |-> op, from |-> b, to |-> m, replaces |-> {}, renewed |-> renewed]
  OBVIOUS
<1>4. WellFormed(b)
  BY <1>1 DEF BookInv, TypeOK
<1>5. Prepares(b, c, op, i, since)
  BY <1>1, <1>4, LedgerPrepares
<1>6. renewed \subseteq From(i, since)
  BY <1>1
<1>7. m = Materialised(c, i, since)
  BY <1>1
<1>8. Sound(t)
  BY <1>3, <1>4, <1>5, <1>6, <1>7, RecomputeSound
<1>9. t = [op |-> op, from |-> book, to |-> m, replaces |-> {}, renewed |-> renewed]
  BY <1>1, <1>3
<1> QED  BY <1>2, <1>8, <1>9, BeginKeeps


LEMMA LedgerStepsKeep ==
  ASSUME BookInv, NEW w \in Workers,
         AddPositionTransaction(w) \/ UpdatePositionTransaction(w) \/ DeletePositionTransaction(w)
  PROVE  BookInv'
<1>1. book.ledger \subseteq LedgerRows /\ OneOpening(book.ledger)
  BY DEF BookInv, TypeOK, WellFormed
<1>2. CASE AddPositionTransaction(w)
  <2>1. PICK i \in Invs, d \in Days, u \in Sizes, k \in {"opening", "trade"} :
          LET row == [inv |-> i, day |-> d, units |-> u, kind |-> k, origin |-> "manual"] IN
          /\ k = "opening" => Opening(book.ledger, i) = {}
          /\ Rewrite(w, "add", i, book.ledger \union {row}, d)
    BY <1>2 DEF AddPositionTransaction
  <2>2. PICK row, ledger :
          /\ row = [inv |-> i, day |-> d, units |-> u, kind |-> k, origin |-> "manual"]
          /\ ledger = book.ledger \union {row}
    OBVIOUS
  <2>3. row \in LedgerRows /\ row.inv = i /\ row.day = d /\ row.kind = k
    BY <2>2, ValuesAreNumbers DEF LedgerRows
  <2>4. ledger \subseteq LedgerRows
    BY <1>1, <2>2, <2>3
  <2>5. OneOpening(ledger)
    BY <1>1, <2>1, <2>2, <2>3 DEF OneOpening, Opening
  <2>6. \A r \in LedgerRows : r.inv # i \/ r.day < d => (r \in ledger <=> r \in book.ledger)
    <3>1. ~(d < d) /\ d \in Nat
      BY DaysAreNumbers
    <3> QED  BY <2>2, <2>3, <3>1
  <2>7. Rewrite(w, "add", i, ledger, d) /\ d \in Nat
    BY <2>1, <2>2, DaysAreNumbers
  <2> QED  BY <2>4, <2>5, <2>6, <2>7, RewriteKeeps
<1>3. CASE UpdatePositionTransaction(w)
  <2>1. PICK r \in book.ledger, d \in Days, u \in Sizes :
          LET row == [r EXCEPT !.day = d, !.units = u] IN
          Rewrite(w, "update", r.inv, (book.ledger \ {r}) \union {row}, Since(r.day, d))
    BY <1>3 DEF UpdatePositionTransaction
  <2>2. PICK row, ledger, since, i :
          /\ row = [r EXCEPT !.day = d, !.units = u]
          /\ ledger = (book.ledger \ {r}) \union {row} /\ since = Since(r.day, d) /\ i = r.inv
    OBVIOUS
  <2>3. r \in LedgerRows
    BY <1>1
  <2>4. /\ row \in LedgerRows /\ row.inv = i /\ row.day = d /\ row.kind = r.kind
        /\ i \in Invs /\ r.day \in Days
    BY <2>2, <2>3, ValuesAreNumbers DEF LedgerRows
  <2>5. since \in Nat /\ since <= r.day /\ since <= d
    BY <2>2, <2>4, DaysAreNumbers DEF Since
  <2>6. ledger \subseteq LedgerRows
    BY <1>1, <2>2, <2>4
  <2>7. OneOpening(ledger)
    <3> SUFFICES ASSUME NEW j \in Invs, NEW x \in Opening(ledger, j), NEW y \in Opening(ledger, j)
                 PROVE  x = y
      BY DEF OneOpening
    <3>1. /\ x \in ledger /\ x.inv = j /\ x.kind = "opening"
          /\ y \in ledger /\ y.inv = j /\ y.kind = "opening"
      BY DEF Opening
    <3>2. \A q \in book.ledger : q.inv = j /\ q.kind = "opening" => q \in Opening(book.ledger, j)
      BY DEF Opening
    <3>3. \A q, z \in Opening(book.ledger, j) : q = z
      BY <1>1 DEF OneOpening
    <3>4. x = row \/ (x # r /\ x \in Opening(book.ledger, j))
      BY <2>2, <3>1, <3>2
    <3>5. y = row \/ (y # r /\ y \in Opening(book.ledger, j))
      BY <2>2, <3>1, <3>2
    <3>6. x = row \/ y = row => r \in Opening(book.ledger, j)
      BY <2>2, <2>4, <3>1, <3>2
    <3> QED  BY <3>3, <3>4, <3>5, <3>6
  <2>8. \A q \in LedgerRows : q.inv # i \/ q.day < since => (q \in ledger <=> q \in book.ledger)
    <3>1. PICK n : n = r.day
      OBVIOUS
    <3>2. n \in Nat /\ d \in Nat /\ since \in Nat /\ since <= n /\ since <= d
      BY <2>4, <2>5, <3>1, DaysAreNumbers
    <3>3. ~(n < since) /\ ~(d < since)
      BY <3>2
    <3> QED  BY <2>2, <2>4, <3>1, <3>3
  <2>9. Rewrite(w, "update", i, ledger, since)
    BY <2>1, <2>2
  <2> QED  BY <2>4, <2>5, <2>6, <2>7, <2>8, <2>9, RewriteKeeps
<1>4. CASE DeletePositionTransaction(w)
  <2>1. PICK r \in book.ledger : Rewrite(w, "delete", r.inv, book.ledger \ {r}, r.day)
    BY <1>4 DEF DeletePositionTransaction
  <2>2. PICK ledger, since, i : ledger = book.ledger \ {r} /\ since = r.day /\ i = r.inv
    OBVIOUS
  <2>3. since \in Days /\ i \in Invs
    BY <1>1, <2>2 DEF LedgerRows
  <2>4. ledger \subseteq LedgerRows /\ OneOpening(ledger)
    BY <1>1, <2>2 DEF OneOpening, Opening
  <2>5. \A q \in LedgerRows : q.inv # i \/ q.day < since => (q \in ledger <=> q \in book.ledger)
    <3>1. since \in Nat
      BY <2>3, DaysAreNumbers
    <3>2. ~(since < since)
      BY <3>1
    <3> QED  BY <2>2, <3>2
  <2>6. Rewrite(w, "delete", i, ledger, since) /\ since \in Nat
    BY <2>1, <2>2, <2>3, DaysAreNumbers
  <2> QED  BY <2>3, <2>4, <2>5, <2>6, RewriteKeeps
<1> QED  BY <1>2, <1>3, <1>4

\* The flip takes the live NAVs away and turns the fund over to its ledger.
LEMMA FlipKeeps ==
  ASSUME BookInv, NEW w \in Workers, FlipToUnitised(w)
  PROVE  BookInv'
<1>1. PICK b, f, mode :
        /\ b = book /\ mode = [b.mode EXCEPT ![Fund] = "unitised"]
        /\ f = [d \in Days |-> IF b.navs[Fund][d].origin = "live" THEN NoRow ELSE b.navs[Fund][d]]
  OBVIOUS
<1>2. PICK a : a = [b EXCEPT !.mode = mode]
  OBVIOUS
<1>3. PICK c : c = NavsSet(a, Fund, f)
  OBVIOUS
<1>4. WellFormed(b) /\ Shaped(b)
  BY <1>1 DEF BookInv, TypeOK, WellFormed
<1>5. /\ DOMAIN b = Parts /\ DOMAIN b.mode = Invs /\ DOMAIN b.navs = Series
      /\ Fund \in Series /\ Fund \in Invs /\ Cash \in Series /\ Cash \in Invs
      /\ Cash # Fund /\ Plan # Fund /\ Plan # Cash /\ Plan \in Series
  BY <1>4, ShapedParts, SeriesAreApart DEF Series, Invs
<1>6. Begin(w, "flip", Materialised(c, Fund, 1), {}, From(Fund, 1))
  <2>1. PICK bare : bare = [b EXCEPT !.mode[Fund] = "unitised",
                       !.navs[Fund] = [d \in Days |-> IF @[d].origin = "live" THEN NoRow ELSE @[d]]]
    OBVIOUS
  <2>2. Begin(w, "flip", Materialised(bare, Fund, 1), {}, From(Fund, 1))
    BY <1>1, <2>1 DEF FlipToUnitised
  <2>3. bare = c
    BY <1>1, <1>2, <1>3, <1>5, <2>1 DEF NavsSet, Parts
  <2> QED  BY <2>2, <2>3
<1>7. a = [ledger |-> b.ledger, flows |-> b.flows, mode |-> mode, active |-> b.active,
           prices |-> b.prices, navs |-> b.navs]
  BY <1>2, <1>4, WithPart
<1>8. /\ a.ledger = b.ledger /\ a.flows = b.flows /\ a.mode = mode /\ a.active = b.active
      /\ a.prices = b.prices /\ a.navs = b.navs
  BY <1>7
<1>9. OfInvs(mode) /\ mode[Fund] = "unitised" /\ mode[Cash] = b.mode[Cash]
  BY <1>1, <1>5 DEF OfInvs
<1>10. Shaped(a)
  <2>1. Whole(a)
    BY <1>7, <1>8 DEF Whole
  <2>2. OfInvs(a.active) /\ OfPrices(a.prices) /\ OfSeries(a.navs)
    BY <1>4, <1>8, ShapedWhole
  <2> QED  BY <1>8, <1>9, <2>1, <2>2, ShapedAnew
<1>11. OfDays(f) /\ \A d \in Days : f[d] = IF LiveIn(b, d) THEN NoRow ELSE b.navs[Fund][d]
  BY <1>1 DEF OfDays, LiveIn
<1>12. /\ Shaped(c) /\ c.ledger = b.ledger /\ c.flows = b.flows /\ c.mode = mode
       /\ c.active = b.active /\ c.prices = b.prices
       /\ c.navs[Fund] = f /\ \A s \in Series \ {Fund} : c.navs[s] = b.navs[s]
  BY <1>3, <1>5, <1>8, <1>10, <1>11, WithNavs
<1>13. NoRow.origin = "none"
  BY DEF NoRow
<1>14. \A d \in Days : ~LiveIn(c, d)
  BY <1>11, <1>12, <1>13 DEF LiveIn
<1>15. WellFormed(c)
  <2>1. ASSUME NEW s \in Series, NEW d \in Days
        PROVE  c.navs[s][d].origin \in Origins \union {"none"}
    <3>1. b.navs[s][d].origin \in Origins \union {"none"}
      BY <1>4 DEF WellFormed
    <3> QED  BY <1>11, <1>12, <1>13, <3>1
  <2>2. \A d \in Days : c.navs[Fund][d].origin # "live"
    BY <1>14 DEF LiveIn
  <2> QED  BY <1>4, <1>9, <1>12, <2>1, <2>2 DEF WellFormed
<1>16. Agrees(b, c, Fund, 1)
  <2> SUFFICES ASSUME NEW j \in Invs, NEW d \in Days, j # Fund \/ d < 1
               PROVE  /\ c.navs[j][d] = b.navs[j][d] /\ c.prices[j][d] = b.prices[j][d]
                      /\ HeldRows(c.ledger, j, d) = HeldRows(b.ledger, j, d)
                      /\ c.mode[j] = "unitised" => b.mode[j] = "unitised"
    BY DEF Agrees
  <2>1. j = Cash
    <3>1. ~(d < 1)
      BY DEF Days
    <3> QED  BY <3>1 DEF Invs
  <2> QED  BY <1>5, <1>9, <1>12, <2>1
<1>17. Prepares(b, c, "flip", Fund, 1)
  <2>1. \A d \in Days : c.navs[Fund][d] = b.navs[Fund][d] \/ Yields("flip", b.navs[Fund][d])
    BY <1>11, <1>12 DEF LiveIn, Yields
  <2> QED  BY <1>12, <1>14, <1>15, <1>16, <2>1 DEF Prepares
<1>18. PICK m : m = Materialised(c, Fund, 1)
  OBVIOUS
<1>19. PICK t, renewed :
        /\ renewed = From(Fund, 1)
        /\ t = [op |-> "flip", from |-> b, to |-> m, replaces |-> {}, renewed |-> renewed]
  OBVIOUS
<1>20. renewed \subseteq From(Fund, 1) /\ 1 \in Nat
  BY <1>19
<1>21. Sound(t)
  BY <1>4, <1>5, <1>17, <1>18, <1>19, <1>20, RecomputeSound
<1>22. t = [op |-> "flip", from |-> book, to |-> m, replaces |-> {}, renewed |-> renewed]
       /\ Begin(w, "flip", m, {}, renewed)
  BY <1>1, <1>6, <1>18, <1>19
<1> QED  BY <1>21, <1>22, BeginKeeps

------------------------------------------------------------------------------
(* The first day of some. *)

LEMMA Least ==
  ASSUME NEW S \in SUBSET Nat, S # {}
  PROVE  \E n \in S : \A k \in S : n <= k
<1> DEFINE LT == {pair \in Nat \X Nat : pair[1] < pair[2]}
<1>1. OpToRel(<, Nat) = LT
  BY Zenon DEF OpToRel
<1>2. IsWellFoundedOn(LT, Nat)
  BY <1>1, NatLessThanWellFounded, Zenon
<1>3. \A k, n \in Nat : k < n => <<k, n>> \in LT
  OBVIOUS
<1> HIDE DEF LT
<1>4. PICK n \in S : \A k \in S : <<k, n>> \notin LT
  BY <1>2, WFMin
<1>5. \A k \in S : ~(k < n)
  BY <1>3, <1>4
<1> QED  BY <1>5

LEMMA FirstDay ==
  ASSUME NEW S, S \subseteq Days, S # {}, NEW n, n = Min(S)
  PROVE  n \in S /\ n \in Nat /\ \A d \in S : n <= d
<1>1. S \in SUBSET Nat
  BY DaysAreNumbers
<1>2. \E k \in S : \A d \in S : k <= d
  BY <1>1, Least
<1> QED  BY <1>1, <1>2 DEF Min

LEMMA LastDay ==
  ASSUME NEW S, S \subseteq Days, S # {}, NEW n, n = Max(S)
  PROVE  n \in S
<1>1. PICK above : above = {k \in Nat : \A d \in S : d <= k}
  OBVIOUS
<1>2. MaxDay \in above
  BY <1>1, BoundsAreNaturals DEF Days
<1>3. PICK k \in above : \A e \in above : k <= e
  BY <1>1, <1>2, Least
<1>4. k \in Nat /\ \A d \in S : d \in Nat /\ d >= 1 /\ d <= k
  BY <1>1, <1>3, DaysAreNumbers
<1>5. k \in S
  <2> SUFFICES ASSUME k \notin S PROVE FALSE
    OBVIOUS
  <2>1. PICK e : e = k - 1
    OBVIOUS
  <2>2. PICK d \in S : TRUE
    OBVIOUS
  <2>3. e \in Nat /\ ~(k <= e)
    BY <1>4, <2>1, <2>2
  <2>4. \A x \in S : x <= e
    BY <1>4, <2>1
  <2> QED  BY <1>1, <1>3, <2>3, <2>4
<1>6. \E x \in S : \A d \in S : x >= d
  <2>1. \A d \in S : k >= d
    BY <1>4
  <2> QED  BY <1>5, <2>1
<1> QED  BY <1>6 DEF Max

------------------------------------------------------------------------------
(* The live prices. *)

LEMMA IngestKeeps ==
  ASSUME BookInv, NEW w \in Workers, IngestLivePrices(w)
  PROVE  BookInv'
<1>1. PICK b : b = book
  OBVIOUS
<1>2. PICK days \in (SUBSET Days) \ {{}}, q \in Quotes :
        /\ b.mode[Fund] = "unitised"
        /\ Begin(w, "refresh", Materialised([b EXCEPT !.prices[Fund] = [d \in Days |->
                     IF d \in days /\ @[d].origin \in {"none", "live"} THEN Row(q, "live") ELSE @[d]]],
                     Fund, Min(days)), {}, From(Fund, Min(days)))
  BY <1>1 DEF IngestLivePrices
<1>3. PICK f, since :
        /\ since = Min(days)
        /\ f = [d \in Days |-> IF d \in days /\ b.prices[Fund][d].origin \in {"none", "live"}
                               THEN Row(q, "live") ELSE b.prices[Fund][d]]
  OBVIOUS
<1>4. PICK prices : prices = [b.prices EXCEPT ![Fund] = f]
  OBVIOUS
<1>5. PICK c : c = [b EXCEPT !.prices = prices]
  OBVIOUS
<1>6. WellFormed(b) /\ Shaped(b)
  BY <1>1 DEF BookInv, TypeOK, WellFormed
<1>7. /\ DOMAIN b = Parts /\ DOMAIN b.prices = Invs
      /\ Fund \in Series /\ Fund \in Invs /\ Cash \in Invs /\ Cash # Fund
  BY <1>6, ShapedParts, SeriesAreApart DEF Series, Invs
<1>8. since \in Nat /\ \A d \in days : since <= d
  BY <1>3, FirstDay
<1>9. Begin(w, "refresh", Materialised(c, Fund, since), {}, From(Fund, since))
  BY <1>2, <1>3, <1>4, <1>5, <1>7 DEF Parts
<1>10. c = [ledger |-> b.ledger, flows |-> b.flows, mode |-> b.mode, active |-> b.active,
            prices |-> prices, navs |-> b.navs]
  BY <1>5, <1>6, WithPart
<1>11. /\ c.ledger = b.ledger /\ c.flows = b.flows /\ c.mode = b.mode /\ c.active = b.active
       /\ c.prices = prices /\ c.navs = b.navs
  BY <1>10
<1>12. OfDays(f) /\ prices[Fund] = f /\ prices[Cash] = b.prices[Cash] /\ DOMAIN prices = Invs
  BY <1>3, <1>4, <1>7 DEF OfDays
<1>13. prices = [i \in Invs |-> prices[i]]
  BY <1>4, <1>7
<1>14. OfPrices(prices)
  <2>1. OfDays(b.prices[Cash])
    BY <1>6, <1>7, ShapedRows
  <2>2. \A i \in Invs : prices[i] = [d \in Days |-> prices[i][d]]
    BY <1>12, <2>1 DEF OfDays, Invs
  <2> QED  BY <1>13, <2>2 DEF OfPrices
<1>15. Shaped(c)
  <2>1. Whole(c)
    BY <1>10, <1>11 DEF Whole
  <2>2. OfInvs(c.mode) /\ OfInvs(c.active) /\ OfSeries(c.navs)
    BY <1>6, <1>11, ShapedWhole
  <2> QED  BY <1>11, <1>14, <2>1, <2>2, ShapedAnew
<1>16. \A d \in Days : \/ f[d] = b.prices[Fund][d]
                       \/ d \in days /\ f[d].origin = "live" /\ b.prices[Fund][d].origin \in {"none", "live"}
  BY <1>3 DEF Row
<1>17. WellFormed(c)
  <2>1. ASSUME NEW j \in Invs, NEW d \in Days PROVE c.prices[j][d].origin \in Origins \union {"none"}
    <3>1. b.prices[j][d].origin \in Origins \union {"none"}
      BY <1>6 DEF WellFormed
    <3>2. CASE j = Fund
      BY <1>11, <1>12, <1>16, <3>1, <3>2 DEF Origins
    <3>3. CASE j = Cash
      BY <1>11, <1>12, <3>1, <3>3
    <3> QED  BY <3>2, <3>3 DEF Invs
  <2> QED  BY <1>6, <1>11, <1>15, <2>1 DEF WellFormed
<1>18. Agrees(b, c, Fund, since)
  <2> SUFFICES ASSUME NEW j \in Invs, NEW d \in Days, j # Fund \/ d < since
               PROVE  c.prices[j][d] = b.prices[j][d]
    BY <1>11 DEF Agrees
  <2>1. CASE j = Cash
    BY <1>11, <1>12, <2>1
  <2>2. CASE j = Fund
    <3>1. d \notin days
      <4>1. d < since /\ d \in Nat /\ since \in Nat
        BY <1>8, <2>2, DaysAreNumbers
      <4>2. ~(since <= d)
        BY <4>1
      <4> QED  BY <1>8, <4>2
    <3> QED  BY <1>11, <1>12, <1>16, <2>2, <3>1
  <2> QED  BY <2>1, <2>2 DEF Invs
<1>19. Prepares(b, c, "refresh", Fund, since)
  <2>1. ASSUME NEW j \in Invs, NEW d \in Days
        PROVE  c.prices[j][d] = b.prices[j][d] \/ Yields("refresh", b.prices[j][d])
    <3>1. CASE j = Cash
      BY <1>11, <1>12, <3>1
    <3>2. CASE j = Fund
      BY <1>11, <1>12, <1>16, <3>2 DEF Yields, Computed
    <3> QED  BY <3>1, <3>2 DEF Invs
  <2> QED  BY <1>11, <1>17, <1>18, <2>1 DEF Prepares
<1>20. PICK m, renewed : m = Materialised(c, Fund, since) /\ renewed = From(Fund, since)
  OBVIOUS
<1>21. PICK t : t = [op |-> "refresh", from |-> b, to |-> m, replaces |-> {}, renewed |-> renewed]
  OBVIOUS
<1>22. renewed \subseteq From(Fund, since)
  BY <1>20
<1>23. Sound(t)
  BY <1>6, <1>7, <1>8, <1>19, <1>20, <1>21, <1>22, RecomputeSound
<1>24. t = [op |-> "refresh", from |-> book, to |-> m, replaces |-> {}, renewed |-> renewed]
       /\ Begin(w, "refresh", m, {}, renewed)
  BY <1>1, <1>9, <1>20, <1>21
<1> QED  BY <1>23, <1>24, BeginKeeps

------------------------------------------------------------------------------
(* Transactions that project the plan path. *)

LEMMA ProjectedWell ==
  ASSUME NEW c, WellFormed(c), NEW since \in Nat, NEW m, m = Projected(c, since)
  PROVE  /\ WellFormed(m)
         /\ \A d \in Days : \/ m.navs[Plan][d] = c.navs[Plan][d]
                            \/ Computed(c.navs[Plan][d])
<1>1. Shaped(c)
  BY DEF WellFormed
<1>2. /\ Shaped(m) /\ m.ledger = c.ledger /\ m.flows = c.flows /\ m.mode = c.mode
      /\ m.active = c.active /\ m.prices = c.prices
      /\ \A i \in Invs : m.navs[i] = c.navs[i]
      /\ ~Projects(c) => m = c
      /\ Projects(c) => \A d \in Days : m.navs[Plan][d] = ProjectedRow(c, since, d)
  BY <1>1, ProjectedRows
<1>3. ASSUME NEW d \in Days
      PROVE  \/ m.navs[Plan][d] = c.navs[Plan][d]
             \/ Computed(c.navs[Plan][d]) /\ m.navs[Plan][d].origin \in {"system", "none"}
  <2>1. PICK row, new : row = c.navs[Plan][d] /\ new = m.navs[Plan][d]
    OBVIOUS
  <2>2. new # row => Projects(c) /\ new = ProjectedRow(c, since, d)
    BY <1>2, <2>1
  <2>3. \A v : Row(v, "system").origin = "system"
    BY DEF Row
  <2>4. NoRow.origin = "none"
    BY DEF NoRow
  <2> QED  BY <2>1, <2>2, <2>3, <2>4 DEF ProjectedRow
<1>4. ASSUME NEW s \in Series, NEW d \in Days PROVE m.navs[s][d].origin \in Origins \union {"none"}
  <2>1. c.navs[s][d].origin \in Origins \union {"none"}
    BY DEF WellFormed
  <2>2. CASE s \in Invs
    BY <1>2, <2>1, <2>2
  <2>3. CASE s = Plan
    BY <1>3, <2>1, <2>3 DEF Origins
  <2> QED  BY <2>2, <2>3 DEF Series
<1>5. m.navs[Fund] = c.navs[Fund]
  BY <1>2 DEF Invs
<1>6. WellFormed(m)
  BY <1>2, <1>4, <1>5 DEF WellFormed
<1> QED  BY <1>3, <1>6

LEMMA FlowsReplaced ==
  ASSUME NEW b, WellFormed(b), NEW flows, flows \subseteq Flows, NEW c, c = [b EXCEPT !.flows = flows]
  PROVE  /\ WellFormed(c) /\ c.flows = flows /\ c.ledger = b.ledger /\ c.mode = b.mode
         /\ c.active = b.active /\ c.prices = b.prices /\ c.navs = b.navs
<1>1. Shaped(b)
  BY DEF WellFormed
<1>2. c = [ledger |-> b.ledger, flows |-> flows, mode |-> b.mode, active |-> b.active,
           prices |-> b.prices, navs |-> b.navs]
  BY <1>1, WithPart
<1>3. /\ c.ledger = b.ledger /\ c.flows = flows /\ c.mode = b.mode /\ c.active = b.active
      /\ c.prices = b.prices /\ c.navs = b.navs
  BY <1>2
<1>4. Shaped(c)
  <2>1. Whole(c)
    BY <1>2, <1>3 DEF Whole
  <2>2. OfInvs(c.mode) /\ OfInvs(c.active) /\ OfPrices(c.prices) /\ OfSeries(c.navs)
    BY <1>1, <1>3, ShapedWhole
  <2> QED  BY <2>1, <2>2, ShapedAnew
<1> QED  BY <1>3, <1>4 DEF WellFormed

LEMMA ReflowSound ==
  ASSUME NEW b, WellFormed(b), NEW c, WellFormed(c), NEW since \in Nat, OtherFlows(b, c, since),
         NEW op, NEW m, m = Projected(c, since),
         NEW renewed, renewed = IF Projects(b) THEN From(Plan, since) ELSE {},
         NEW t, t = [op |-> op, from |-> b, to |-> m, replaces |-> {}, renewed |-> renewed]
  PROVE  Sound(t)
<1>1. /\ t.op = op /\ t.from = b /\ t.to = m /\ t.replaces = {} /\ t.renewed = renewed
  OBVIOUS
<1>2. b.flows \subseteq Flows /\ c.flows \subseteq Flows
  BY DEF WellFormed
<1>3. /\ c.ledger = b.ledger /\ c.mode = b.mode /\ c.active = b.active
      /\ c.prices = b.prices /\ c.navs = b.navs
  BY DEF OtherFlows
<1>4. Shaped(c)
  BY DEF WellFormed
<1>5. /\ m.ledger = c.ledger /\ m.flows = c.flows /\ m.mode = c.mode
      /\ m.active = c.active /\ m.prices = c.prices
      /\ \A i \in Invs : m.navs[i] = c.navs[i]
      /\ ~Projects(c) => m = c
  BY <1>4, ProjectedRows
<1>6. WellFormed(m) /\ \A d \in Days : m.navs[Plan][d] = c.navs[Plan][d] \/ Computed(c.navs[Plan][d])
  BY ProjectedWell
<1>7. Spares(t)
  <2>1. ASSUME NEW s \in Series, NEW d \in Days, m.navs[s][d] # b.navs[s][d]
        PROVE  Yields(op, b.navs[s][d])
    <3>1. s = Plan
      BY <1>3, <1>5, <2>1 DEF Series
    <3> QED  BY <1>3, <1>6, <2>1, <3>1 DEF Yields
  <2> QED  BY <1>1, <1>3, <1>5, <2>1 DEF Spares
<1>8. LiveGoes(t)
  BY <1>1, <1>3, <1>5 DEF LiveGoes, Invs
<1>9. \A i \in Invs : m.navs[i] = b.navs[i]
  BY <1>3, <1>5
<1>10. \A taken, s : \A d \in Days :
         <<s, d>> \in taken => <<s, d>> \in After(t, taken) \/ (s = Plan /\ d >= since)
  BY <1>1, InFrom DEF After
<1>11. ASSUME NEW taken, NavsFollow(b, taken) PROVE NavsFollow(m, After(t, taken))
  <2>1. PICK left : left = After(t, taken)
    OBVIOUS
  <2>2. \A i \in Invs, d \in Days : <<i, d>> \in taken => <<i, d>> \in left
    BY <1>10, <2>1, SeriesAreApart
  <2>3. NavsFollow(m, left)
    BY <1>3, <1>5, <1>9, <1>11, <2>2, NavsKept
  <2> QED  BY <2>1, <2>3
<1>12. ASSUME NEW taken, From(Plan, 1) \subseteq renewed \/ (PathFollows(b, taken) /\ Stood(b, m))
       PROVE  PathFollows(m, After(t, taken))
  <2>1. PICK left : left = After(t, taken)
    OBVIOUS
  <2>2. Keeps(taken, left, since)
    BY <1>10, <2>1 DEF Keeps
  <2>3. since <= 1 \/ PathFollows(b, taken)
    <3> SUFFICES ASSUME From(Plan, 1) \subseteq renewed PROVE since <= 1
      BY <1>12
    <3>1. <<Plan, 1>> \in renewed
      BY PathIsLong
    <3>2. <<Plan, 1>> \in From(Plan, since)
      BY <3>1
    <3>3. 1 >= since
      BY <3>2, DaysAreNumbers, InFrom
    <3> QED  BY <3>3
  <2>4. PathFollows(m, left)
    BY <2>2, <2>3, ProjectFollows
  <2> QED  BY <2>1, <2>4
<1>13. Restores(t)
  BY <1>1, <1>11, <1>12 DEF Restores
<1> QED  BY <1>1, <1>6, <1>7, <1>8, <1>13 DEF Sound

LEMMA ReflowKeeps ==
  ASSUME BookInv, NEW w \in Workers, NEW flows, flows \subseteq Flows, NEW since \in Nat,
         \A f \in Flows : f.day < since => (f \in flows <=> f \in book.flows),
         Reflow(w, "flow", flows, since)
  PROVE  BookInv'
<1>1. PICK b, c, m, renewed, op :
        /\ b = book /\ c = [b EXCEPT !.flows = flows] /\ m = Projected(c, since) /\ op = "flow"
        /\ renewed = IF Projects(b) THEN From(Plan, since) ELSE {}
  OBVIOUS
<1>2. Begin(w, op, m, {}, renewed)
  BY <1>1 DEF Reflow, Projects
<1>3. PICK t : t = [op |-> op, from |-> b, to |-> m, replaces |-> {}, renewed |-> renewed]
  OBVIOUS
<1>4. WellFormed(b)
  BY <1>1 DEF BookInv, TypeOK
<1>5. c = [b EXCEPT !.flows = flows]
  BY <1>1
<1>6. m = Projected(c, since) /\ renewed = IF Projects(b) THEN From(Plan, since) ELSE {}
  BY <1>1
<1>7. Sound(t)
  <2>1. /\ WellFormed(c) /\ c.flows = flows /\ c.ledger = b.ledger /\ c.mode = b.mode
        /\ c.active = b.active /\ c.prices = b.prices /\ c.navs = b.navs
    BY <1>4, <1>5, FlowsReplaced
  <2>2. OtherFlows(b, c, since)
    BY <1>1, <2>1 DEF OtherFlows
  <2>3. WellFormed(c)
    BY <2>1
  <2> QED  BY <1>3, <1>4, <1>6, <2>2, <2>3, ReflowSound
<1>8. t = [op |-> op, from |-> book, to |-> m, replaces |-> {}, renewed |-> renewed]
  BY <1>1, <1>3
<1> QED  BY <1>2, <1>7, <1>8, BeginKeeps

LEMMA FlowStepsKeep ==
  ASSUME BookInv, NEW w \in Workers, AddCashflow(w) \/ UpdateCashflow(w) \/ DeleteCashflow(w)
  PROVE  BookInv'
<1>1. book.flows \subseteq Flows
  BY DEF BookInv, TypeOK, WellFormed
<1>2. CASE AddCashflow(w)
  <2>1. PICK i \in Invs, d \in Days, a \in Amounts :
          Reflow(w, "flow", book.flows \union {[inv |-> i, day |-> d, amount |-> a, origin |-> "manual"]}, d)
    BY <1>2 DEF AddCashflow
  <2>2. PICK g, flows : /\ g = [inv |-> i, day |-> d, amount |-> a, origin |-> "manual"]
                        /\ flows = book.flows \union {g}
    OBVIOUS
  <2>3. g \in Flows /\ g.day = d
    BY <2>2, ValuesAreNumbers DEF Flows
  <2>4. d \in Nat
    BY DaysAreNumbers
  <2>5. ~(d < d)
    BY <2>4
  <2>6. flows \subseteq Flows /\ \A f \in Flows : f.day < d => (f \in flows <=> f \in book.flows)
    BY <1>1, <2>2, <2>3, <2>5
  <2>7. Reflow(w, "flow", flows, d)
    BY <2>1, <2>2
  <2> QED  BY <2>4, <2>6, <2>7, ReflowKeeps
<1>3. CASE UpdateCashflow(w)
  <2>1. PICK f \in book.flows, d \in Days, a \in Amounts :
          Reflow(w, "flow", (book.flows \ {f}) \union {[f EXCEPT !.day = d, !.amount = a, !.origin = "manual"]},
                 Since(f.day, d))
    BY <1>3 DEF UpdateCashflow
  <2>2. PICK g, flows, since, n :
          /\ g = [f EXCEPT !.day = d, !.amount = a, !.origin = "manual"]
          /\ flows = (book.flows \ {f}) \union {g} /\ since = Since(f.day, d) /\ n = f.day
    OBVIOUS
  <2>3. f \in Flows
    BY <1>1
  <2>4. g \in Flows /\ g.day = d /\ n \in Days
    BY <2>2, <2>3, ValuesAreNumbers DEF Flows
  <2>5. since \in Nat /\ since <= n /\ since <= d /\ n \in Nat /\ d \in Nat
    BY <2>2, <2>4, DaysAreNumbers DEF Since
  <2>6. ~(n < since) /\ ~(d < since)
    BY <2>5
  <2>7. flows \subseteq Flows /\ \A x \in Flows : x.day < since => (x \in flows <=> x \in book.flows)
    BY <1>1, <2>2, <2>4, <2>6
  <2>8. Reflow(w, "flow", flows, since)
    BY <2>1, <2>2
  <2> QED  BY <2>5, <2>7, <2>8, ReflowKeeps
<1>4. CASE DeleteCashflow(w)
  <2>1. PICK f \in book.flows : Reflow(w, "flow", book.flows \ {f}, f.day)
    BY <1>4 DEF DeleteCashflow
  <2>2. PICK flows, n : flows = book.flows \ {f} /\ n = f.day
    OBVIOUS
  <2>3. n \in Nat
    BY <1>1, <2>2, DaysAreNumbers DEF Flows
  <2>4. ~(n < n)
    BY <2>3
  <2>5. flows \subseteq Flows /\ \A x \in Flows : x.day < n => (x \in flows <=> x \in book.flows)
    BY <1>1, <2>2, <2>4
  <2>6. Reflow(w, "flow", flows, n)
    BY <2>1, <2>2
  <2> QED  BY <2>3, <2>5, <2>6, ReflowKeeps
<1> QED  BY <1>2, <1>3, <1>4

------------------------------------------------------------------------------
(* The import of a workbook, one step after the other. *)

LEMMA SheetIsTyped ==
  ASSUME NEW sheet \in Workbooks
  PROVE  /\ sheet.fund \in BOOLEAN /\ sheet.asof \in Days /\ sheet.units \in Int
         /\ \A d \in Days : sheet.statements[d] \in Int
         /\ sheet.flows \subseteq Flows /\ Stated(sheet) \subseteq Days
         /\ Named(sheet) \subseteq Invs
         /\ (Fund \in Named(sheet) <=> sheet.fund) /\ (Cash \in Named(sheet) <=> Stated(sheet) # {})
<1>1. /\ sheet.fund \in BOOLEAN /\ sheet.asof \in Days /\ sheet.units \in Int
      /\ sheet.statements \in [Days -> Int] /\ sheet.flows \subseteq Flows
  BY WorkbooksAreSheets
<1>2. Stated(sheet) \subseteq Days
  BY DEF Stated
<1>3. /\ Named(sheet) \subseteq Invs
      /\ (Fund \in Named(sheet) <=> sheet.fund) /\ (Cash \in Named(sheet) <=> Stated(sheet) # {})
  BY SeriesAreApart DEF Named, Invs
<1> QED  BY <1>1, <1>2, <1>3

\* What replaces the NAVs, the plan flows and the active set.
LEMMA ReplacedRows ==
  ASSUME NEW b, WellFormed(b), NEW sheet \in Workbooks, NEW r, r = Replaced(b, sheet)
  PROVE  /\ WellFormed(r)
         /\ r.ledger = b.ledger /\ r.mode = b.mode /\ r.prices = b.prices
         /\ \A d \in Days : Fund \in Named(sheet) => r.navs[Fund][d].origin \in {"none", "excel"}
         /\ Cash \in Named(sheet) => \A d \in Days : r.navs[Cash][d] = NoRow /\ r.navs[Plan][d] = NoRow
         /\ Fund \notin Named(sheet) => r.navs[Fund] = b.navs[Fund]
         /\ Cash \notin Named(sheet) => r.navs[Cash] = b.navs[Cash] /\ r.navs[Plan] = b.navs[Plan]
<1>1. Shaped(b) /\ b.flows \subseteq Flows
  BY DEF WellFormed
<1>2. PICK named : named = Named(sheet)
  OBVIOUS
<1>3. PICK active, flows, old :
        /\ active = [i \in Invs |-> i \in named] /\ old = b.navs
        /\ flows = {f \in b.flows : f.inv \notin named} \union sheet.flows
  OBVIOUS
<1>4. PICK told : told = [d \in Days |-> IF sheet.navs[d] = Blank THEN NoRow ELSE Row(sheet.navs[d], "excel")]
  OBVIOUS
<1>5. PICK bare : bare = [d \in Days |-> NoRow]
  OBVIOUS
<1>6. PICK navs : navs = [s \in Series |->
       CASE s = Fund /\ Fund \in named -> told
         [] s # Fund /\ Cash \in named -> bare
         [] OTHER -> old[s]]
  OBVIOUS
<1>7. DOMAIN b = Parts /\ DOMAIN old = Series
  BY <1>1, <1>3, ShapedParts
<1>8. PICK mode, prices, ledger, ahead, acting :
        /\ mode = b.mode /\ prices = b.prices /\ ledger = b.ledger
        /\ ahead = b.flows /\ acting = b.active
  OBVIOUS
<1>9. b = [ledger |-> ledger, flows |-> ahead, mode |-> mode, active |-> acting,
           prices |-> prices, navs |-> old]
  BY <1>1, <1>3, <1>8, ShapedWhole
<1>10. r = [b EXCEPT !.active = active, !.navs = navs, !.flows = flows]
  BY <1>2, <1>3, <1>4, <1>5, <1>6, <1>7 DEF Replaced, Parts
<1>11. r = [ledger |-> ledger, flows |-> flows, mode |-> mode, active |-> active,
            prices |-> prices, navs |-> navs]
  BY <1>9, <1>10
<1>12. /\ r.ledger = ledger /\ r.flows = flows /\ r.mode = mode /\ r.active = active
       /\ r.prices = prices /\ r.navs = navs
  BY <1>11
<1>13. Fund \in Series /\ Cash \in Series /\ Plan \in Series /\ Fund # Cash /\ Fund # Plan
  BY SeriesAreApart DEF Series, Invs
<1>14. /\ navs[Fund] = IF Fund \in named THEN told ELSE old[Fund]
       /\ navs[Cash] = IF Cash \in named THEN bare ELSE old[Cash]
       /\ navs[Plan] = IF Cash \in named THEN bare ELSE old[Plan]
  BY <1>6, <1>13
<1>15. /\ \A d \in Days : told[d].origin \in {"none", "excel"} /\ bare[d] = NoRow
       /\ NoRow.origin = "none"
  BY <1>4, <1>5 DEF NoRow, Row
<1>16. OfDays(told) /\ OfDays(bare) /\ \A s \in Series : OfDays(old[s])
  BY <1>1, <1>3, <1>4, <1>5, ShapedRows DEF OfDays
<1>17. OfSeries(navs)
  <2>1. ASSUME NEW s \in Series PROVE OfDays(navs[s])
    <3>1. s \in {Fund, Cash, Plan}
      BY DEF Series, Invs
    <3> QED  BY <1>14, <1>16, <3>1
  <2>2. navs = [s \in Series |-> navs[s]]
    BY <1>6
  <2>3. \A s \in Series : navs[s] = [d \in Days |-> navs[s][d]]
    BY <2>1 DEF OfDays
  <2> QED  BY <2>2, <2>3 DEF OfSeries
<1>18. Shaped(r)
  <2>1. Whole(r)
    BY <1>11, <1>12 DEF Whole
  <2>2. OfInvs(active)
    BY <1>3 DEF OfInvs
  <2>3. OfInvs(mode) /\ OfPrices(prices)
    BY <1>1, <1>8, ShapedWhole
  <2> QED  BY <1>12, <1>17, <2>1, <2>2, <2>3, ShapedAnew
<1>19. WellFormed(r)
  <2>1. ASSUME NEW s \in Series, NEW d \in Days PROVE r.navs[s][d].origin \in Origins \union {"none"}
    <3>1. old[s][d].origin \in Origins \union {"none"}
      BY <1>3 DEF WellFormed
    <3>2. s \in {Fund, Cash, Plan}
      BY DEF Series, Invs
    <3>3. navs[s] = told \/ navs[s] = bare \/ navs[s] = old[s]
      BY <1>14, <3>2
    <3>4. {"none", "excel"} \subseteq Origins \union {"none"}
      BY DEF Origins
    <3> QED  BY <1>12, <1>15, <3>1, <3>3, <3>4
  <2>2. ASSUME NEW d \in Days, r.navs[Fund][d].origin = "live" PROVE r.mode[Fund] = "reported"
    <3>1. navs[Fund] = old[Fund]
      BY <1>12, <1>14, <1>15, <2>2
    <3> QED  BY <1>3, <1>8, <1>12, <2>2, <3>1 DEF WellFormed
  <2>3. flows \subseteq Flows
    BY <1>1, <1>3, SheetIsTyped
  <2>4. \A i \in Invs : active[i] \in BOOLEAN
    BY <1>3
  <2> QED  BY <1>8, <1>12, <1>18, <2>1, <2>2, <2>3, <2>4 DEF WellFormed
<1> QED  BY <1>2, <1>3, <1>8, <1>12, <1>14, <1>15, <1>19

\* What makes the fund's opening the workbook's.
LEMMA ReopenedRows ==
  ASSUME NEW r, WellFormed(r), NEW sheet \in Workbooks, NEW o, o = Reopened(r, sheet)
  PROVE  /\ WellFormed(o) /\ o.mode = r.mode
         /\ \A s \in Series \ {Fund} : o.navs[s] = r.navs[s]
         /\ Fund \notin Named(sheet) => o.navs[Fund] = r.navs[Fund]
         /\ \A d \in Days : o.navs[Fund][d] = r.navs[Fund][d] \/ o.navs[Fund][d].origin \in {"system", "none"}
         /\ \A taken : NavsFollow(r, taken) => NavsFollow(o, taken)
<1>1. CASE o = r
  BY <1>1
<1>2. CASE o # r
  <2>1. PICK there, opening, since, ledger, c :
          /\ there = Opening(r.ledger, Fund)
          /\ opening = [inv |-> Fund, day |-> sheet.asof, units |-> sheet.units,
                        kind |-> "opening", origin |-> "excel"]
          /\ since = Min({x.day : x \in there} \union {sheet.asof})
          /\ ledger = (r.ledger \ there) \union {opening}
          /\ c = [r EXCEPT !.ledger = ledger]
    OBVIOUS
  <2>2. o = Materialised(c, Fund, since) /\ sheet.fund
    BY <1>2, <2>1 DEF Reopened
  <2>3. /\ r.ledger \subseteq LedgerRows /\ OneOpening(r.ledger) /\ Fund \in Invs
        /\ sheet.asof \in Days /\ sheet.units \in Int
    BY SheetIsTyped DEF WellFormed, Invs
  <2>4. opening \in LedgerRows /\ opening.inv = Fund /\ opening.day = sheet.asof /\ opening.kind = "opening"
    BY <2>1, <2>3 DEF LedgerRows
  <2>5. there \subseteq LedgerRows /\ \A x \in there : x.inv = Fund /\ x.kind = "opening" /\ x.day \in Days
    BY <2>1, <2>3 DEF Opening, LedgerRows
  <2>6. since \in Nat /\ since <= sheet.asof /\ \A x \in there : since <= x.day
    <3>1. PICK days : days = {x.day : x \in there} \union {sheet.asof}
      OBVIOUS
    <3>2. days \subseteq Days /\ days # {} /\ since = Min(days)
      BY <2>1, <2>3, <2>5, <3>1
    <3>3. since \in Nat /\ \A d \in days : since <= d
      BY <3>2, FirstDay
    <3> QED  BY <3>1, <3>3
  <2>7. ledger \subseteq LedgerRows
    BY <2>1, <2>3, <2>4
  <2>8. OneOpening(ledger)
    <3> SUFFICES ASSUME NEW j \in Invs, NEW x \in Opening(ledger, j), NEW y \in Opening(ledger, j)
                 PROVE  x = y
      BY DEF OneOpening
    <3>1. /\ x \in ledger /\ x.inv = j /\ x.kind = "opening"
          /\ y \in ledger /\ y.inv = j /\ y.kind = "opening"
      BY DEF Opening
    <3>2. \A z \in ledger : z.inv = Fund /\ z.kind = "opening" => z = opening
      BY <2>1 DEF Opening
    <3>3. CASE j = Fund
      BY <3>1, <3>2, <3>3
    <3>4. CASE j # Fund
      <4>1. x \in Opening(r.ledger, j) /\ y \in Opening(r.ledger, j)
        BY <2>1, <2>4, <3>1, <3>4 DEF Opening
      <4> QED  BY <2>3, <4>1 DEF OneOpening
    <3> QED  BY <3>3, <3>4
  <2>9. \A x \in LedgerRows : x.inv # Fund \/ x.day < since => (x \in ledger <=> x \in r.ledger)
    <3> SUFFICES ASSUME NEW x \in LedgerRows, x.inv # Fund \/ x.day < since
                 PROVE  x # opening /\ x \notin there
      BY <2>1
    <3>1. PICK n, a : n = x.day /\ a = sheet.asof
      OBVIOUS
    <3>2. n \in Nat /\ a \in Nat /\ since \in Nat /\ since <= a
      BY <2>3, <2>6, <3>1, DaysAreNumbers DEF LedgerRows
    <3>3. n < since => ~(since <= n)
      BY <3>2
    <3> QED  BY <2>4, <2>5, <2>6, <3>1, <3>2, <3>3
  <2>10. Prepares(r, c, "import", Fund, since)
    <3>1. c = [r EXCEPT !.ledger = ledger]
      BY <2>1
    <3>2. since \in Nat
      BY <2>6
    <3> QED  BY <2>7, <2>8, <2>9, <3>1, <3>2, LedgerPrepares
  <2>11. WellFormed(c) /\ Shaped(c) /\ Agrees(r, c, Fund, since) /\ since \in Nat
    BY <2>6, <2>10 DEF Prepares, WellFormed
  <2>12. c.mode = r.mode /\ c.navs = r.navs
    <3>1. Shaped(r)
      BY DEF WellFormed
    <3>2. c = [ledger |-> ledger, flows |-> r.flows, mode |-> r.mode, active |-> r.active,
               prices |-> r.prices, navs |-> r.navs]
      BY <2>1, <3>1, WithPart
    <3> QED  BY <3>2
  <2>13. /\ WellFormed(o)
         /\ \A s \in Series, d \in Days :
              \/ o.navs[s][d] = c.navs[s][d]
              \/ s = Fund /\ Computed(c.navs[s][d]) /\ o.navs[s][d].origin \in {"system", "none"}
    BY <2>2, <2>3, <2>11, MaterialisedWell
  <2>14. o.mode = c.mode /\ \A s \in Series \ {Fund} : o.navs[s] = c.navs[s]
    BY <2>2, <2>3, <2>11, MaterialisedRows
  <2>15. ASSUME NEW taken, NavsFollow(r, taken) PROVE NavsFollow(o, taken)
    BY <2>2, <2>3, <2>11, <2>15, RecomputeFollows
  <2>16. Fund \in Named(sheet) /\ Fund \in Series
    BY <2>2, SheetIsTyped DEF Series, Invs
  <2> QED  BY <2>12, <2>13, <2>14, <2>15, <2>16
<1> QED  BY <1>1, <1>2

LEMMA StatedRowsTyped ==
  ASSUME NEW sheet \in Workbooks, Stated(sheet) # {}
  PROVE  /\ StatedRows(sheet) \subseteq LedgerRows
         /\ \A x \in StatedRows(sheet) : x.inv = Cash
         /\ \A x, y \in StatedRows(sheet) : x.kind = "opening" /\ y.kind = "opening" => x = y
<1>1. PICK first, opening :
        /\ first = Min(Stated(sheet))
        /\ opening = [inv |-> Cash, day |-> first, units |-> sheet.statements[first],
                      kind |-> "opening", origin |-> "excel"]
  OBVIOUS
<1>2. Stated(sheet) \subseteq Days /\ \A d \in Days : sheet.statements[d] \in Int
  BY SheetIsTyped
<1>3. first \in Stated(sheet) /\ first \in Nat /\ \A d \in Stated(sheet) : first <= d
  BY <1>1, <1>2, FirstDay
<1>4. ASSUME NEW d \in Stated(sheet) \ {first}
      PROVE  sheet.statements[d] - Previous(sheet, d) \in Int
  <2>1. PICK before, last : before = {e \in Stated(sheet) : e < d} /\ last = Max(before)
    OBVIOUS
  <2>2. first < d
    <3>1. first \in Nat /\ d \in Nat /\ first <= d /\ first # d
      BY <1>2, <1>3, DaysAreNumbers
    <3> QED  BY <3>1
  <2>3. before \subseteq Days /\ before # {}
    BY <1>2, <1>3, <2>1, <2>2
  <2>4. last \in before
    BY <2>1, <2>3, LastDay
  <2>5. Previous(sheet, d) = sheet.statements[last]
    BY <2>1 DEF Previous
  <2> QED  BY <1>2, <2>3, <2>4, <2>5
<1>5. ASSUME NEW x \in StatedRows(sheet)
      PROVE  \/ x = opening
             \/ \E d \in Stated(sheet) \ {first} :
                  x = [inv |-> Cash, day |-> d, units |-> sheet.statements[d] - Previous(sheet, d),
                       kind |-> "trade", origin |-> "excel"]
  BY <1>1 DEF StatedRows
<1>6. opening \in LedgerRows /\ opening.inv = Cash
  BY <1>1, <1>2, <1>3 DEF LedgerRows, Invs
<1>7. ASSUME NEW x \in StatedRows(sheet), x # opening
      PROVE  x \in LedgerRows /\ x.inv = Cash /\ x.kind = "trade"
  <2>1. PICK d \in Stated(sheet) \ {first} :
          x = [inv |-> Cash, day |-> d, units |-> sheet.statements[d] - Previous(sheet, d),
               kind |-> "trade", origin |-> "excel"]
    BY <1>5, <1>7
  <2>2. PICK n : n = sheet.statements[d] - Previous(sheet, d)
    OBVIOUS
  <2>3. n \in Int /\ d \in Days
    BY <1>2, <1>4, <2>2
  <2> QED  BY <2>1, <2>2, <2>3 DEF LedgerRows, Invs
<1> QED  BY <1>6, <1>7

\* Marks in taken are in left, but those a restatement of the cash position renews.
Carried(taken, left, sheet) ==
  \A j \in Invs, d \in Days :
    <<j, d>> \in taken => <<j, d>> \in left \/ (j = Cash /\ Stated(sheet) # {})

\* What makes the cash position follow its statements.
LEMMA RestatedRows ==
  ASSUME NEW r, WellFormed(r), NEW sheet \in Workbooks, NEW o, o = Restated(r, sheet)
  PROVE  /\ WellFormed(o) /\ o.mode = r.mode
         /\ \A s \in Series \ {Cash} : o.navs[s] = r.navs[s]
         /\ Stated(sheet) = {} => o = r
         /\ \A taken, left : NavsFollow(r, taken) /\ Carried(taken, left, sheet) => NavsFollow(o, left)
<1>1. CASE Stated(sheet) = {}
  <2>1. o = r
    BY <1>1 DEF Restated
  <2>2. ASSUME NEW taken, NEW left, NavsFollow(r, taken), Carried(taken, left, sheet)
        PROVE  NavsFollow(r, left)
    <3>1. \A i \in Invs, d \in Days : <<i, d>> \in taken => <<i, d>> \in left
      BY <1>1, <2>2 DEF Carried
    <3> QED  BY <2>2, <3>1, NavsKept
  <2> QED  BY <2>1, <2>2
<1>2. CASE Stated(sheet) # {}
  <2>1. PICK byHand, own, target, ledger, f, prices, c :
          /\ byHand = (\E x \in Opening(r.ledger, Cash) : x.origin # "excel")
          /\ own = {x \in r.ledger : x.inv = Cash /\ x.origin = "excel"}
          /\ target = {x \in StatedRows(sheet) : byHand => x.kind # "opening"}
          /\ ledger = (r.ledger \ own) \union target
          /\ f = [d \in Days |->
               CASE d \in Stated(sheet) /\ r.prices[Cash][d].origin \in {"none", "excel"} -> Row(1, "excel")
                 [] d \notin Stated(sheet) /\ r.prices[Cash][d].origin = "excel" -> NoRow
                 [] OTHER -> r.prices[Cash][d]]
          /\ prices = [r.prices EXCEPT ![Cash] = f]
          /\ c = [ledger |-> ledger, flows |-> r.flows, mode |-> r.mode, active |-> r.active,
                  prices |-> prices, navs |-> r.navs]
    OBVIOUS
  <2>2. Shaped(r) /\ r.ledger \subseteq LedgerRows /\ OneOpening(r.ledger)
    BY DEF WellFormed
  <2>3. /\ DOMAIN r = Parts /\ DOMAIN r.prices = Invs
        /\ Fund \in Invs /\ Cash \in Invs /\ Cash # Fund /\ Cash \in Series
    BY <2>2, ShapedParts, SeriesAreApart DEF Series, Invs
  <2>4. o = Materialised(c, Cash, 1)
    <3>1. PICK was, old : was = r /\ old = r.prices
      OBVIOUS
    <3>2. PICK a, e : a = [r EXCEPT !.ledger = ledger] /\ e = [a EXCEPT !.prices = prices]
      OBVIOUS
    <3>3. o = Materialised(e, Cash, 1)
      BY <1>2, <2>1, <2>3, <3>2 DEF Restated, Parts
    <3>4. a = [ledger |-> ledger, flows |-> r.flows, mode |-> r.mode, active |-> r.active,
               prices |-> r.prices, navs |-> r.navs]
      BY <2>2, <3>2, WithPart
    <3>5. PICK flows, mode, active, navs :
            flows = r.flows /\ mode = r.mode /\ active = r.active /\ navs = r.navs
      OBVIOUS
    <3>6. a = [ledger |-> ledger, flows |-> flows, mode |-> mode, active |-> active,
               prices |-> old, navs |-> navs]
      BY <3>1, <3>4, <3>5
    <3>7. e = [ledger |-> ledger, flows |-> flows, mode |-> mode, active |-> active,
               prices |-> prices, navs |-> navs]
      <4>1. e = [a EXCEPT !.prices = prices]
        BY <3>2
      <4> QED  BY <3>6, <4>1
    <3>8. e = c
      BY <2>1, <3>5, <3>7
    <3> QED  BY <3>3, <3>8
  <2>5. /\ c.ledger = ledger /\ c.flows = r.flows /\ c.mode = r.mode /\ c.active = r.active
        /\ c.prices = prices /\ c.navs = r.navs
    BY <2>1
  <2>6. OfDays(f) /\ prices[Cash] = f /\ prices[Fund] = r.prices[Fund] /\ prices = [i \in Invs |-> prices[i]]
    BY <2>1, <2>3 DEF OfDays
  <2>7. Shaped(c)
    <3>1. OfDays(r.prices[Fund])
      BY <2>2, <2>3, ShapedRows
    <3>2. \A i \in Invs : prices[i] = [d \in Days |-> prices[i][d]]
      BY <2>6, <3>1 DEF OfDays, Invs
    <3>3. OfPrices(prices)
      BY <2>6, <3>2 DEF OfPrices
    <3>4. Whole(c)
      BY <2>1, <2>5 DEF Whole
    <3>5. OfInvs(c.mode) /\ OfInvs(c.active) /\ OfSeries(c.navs)
      BY <2>2, <2>5, ShapedWhole
    <3> QED  BY <2>5, <3>3, <3>4, <3>5, ShapedAnew
  <2>8. /\ target \subseteq LedgerRows /\ \A x \in target : x.inv = Cash
        /\ \A x, y \in target : x.kind = "opening" /\ y.kind = "opening" => x = y
    BY <1>2, <2>1, StatedRowsTyped
  <2>9. ledger \subseteq LedgerRows
    BY <2>1, <2>2, <2>8
  <2>10. OneOpening(ledger)
    <3> SUFFICES ASSUME NEW j \in Invs, NEW x \in Opening(ledger, j), NEW y \in Opening(ledger, j)
                 PROVE  x = y
      BY DEF OneOpening
    <3>1. /\ x \in ledger /\ x.inv = j /\ x.kind = "opening"
          /\ y \in ledger /\ y.inv = j /\ y.kind = "opening"
      BY DEF Opening
    <3>2. ASSUME NEW z \in ledger, z.inv = j, z.kind = "opening", z \notin target
          PROVE  z \in Opening(r.ledger, j) /\ (j = Cash => byHand)
      <4>1. z \in r.ledger /\ z \notin own
        BY <2>1, <3>2
      <4>2. z \in Opening(r.ledger, j)
        BY <3>2, <4>1 DEF Opening
      <4>3. j = Cash => z.origin # "excel"
        BY <2>1, <3>2, <4>1
      <4> QED  BY <2>1, <4>2, <4>3
    <3>3. \A z \in target : z.kind = "opening" => ~byHand
      BY <2>1
    <3>4. \A p, q \in Opening(r.ledger, j) : p = q
      BY <2>2 DEF OneOpening
    <3>5. CASE x \in target /\ y \in target
      BY <2>8, <3>1, <3>5
    <3>6. CASE x \notin target /\ y \notin target
      BY <3>1, <3>2, <3>4, <3>6
    <3>7. CASE x \in target /\ y \notin target
      BY <2>8, <3>1, <3>2, <3>3, <3>7
    <3>8. CASE x \notin target /\ y \in target
      BY <2>8, <3>1, <3>2, <3>3, <3>8
    <3> QED  BY <3>5, <3>6, <3>7, <3>8
  <2>11. WellFormed(c)
    <3>1. ASSUME NEW j \in Invs, NEW d \in Days PROVE c.prices[j][d].origin \in Origins \union {"none"}
      <4>1. r.prices[j][d].origin \in Origins \union {"none"}
        BY DEF WellFormed
      <4>2. f[d] \in {Row(1, "excel"), NoRow, r.prices[Cash][d]}
        BY <2>1
      <4>3. Row(1, "excel").origin = "excel" /\ NoRow.origin = "none"
        BY DEF Row, NoRow
      <4>4. CASE j = Cash
        BY <2>5, <2>6, <4>1, <4>2, <4>3, <4>4 DEF Origins
      <4>5. CASE j = Fund
        BY <2>5, <2>6, <4>1, <4>5
      <4> QED  BY <4>4, <4>5 DEF Invs
    <3> QED  BY <2>5, <2>7, <2>9, <2>10, <3>1 DEF WellFormed
  <2>12. Agrees(r, c, Cash, 1)
    <3> SUFFICES ASSUME NEW j \in Invs, NEW d \in Days, j # Cash \/ d < 1
                 PROVE  c.prices[j][d] = r.prices[j][d] /\ HeldRows(c.ledger, j, d) = HeldRows(r.ledger, j, d)
      BY <2>5 DEF Agrees
    <3>1. j = Fund
      <4>1. ~(d < 1)
        BY DEF Days
      <4> QED  BY <4>1 DEF Invs
    <3>2. \A x : x.inv = Fund => (x \in ledger <=> x \in r.ledger)
      BY <2>1, <2>3, <2>8
    <3>3. HeldRows(ledger, Fund, d) = HeldRows(r.ledger, Fund, d)
      BY <3>2 DEF HeldRows
    <3> QED  BY <2>5, <2>6, <3>1, <3>3
  <2>13. WellFormed(o)
    BY <2>3, <2>4, <2>11, MaterialisedWell
  <2>14. o.mode = c.mode /\ \A s \in Series \ {Cash} : o.navs[s] = c.navs[s]
    BY <2>3, <2>4, <2>7, MaterialisedRows
  <2>15. ASSUME NEW taken, NEW left, NavsFollow(r, taken), Carried(taken, left, sheet)
         PROVE  NavsFollow(o, left)
    <3>1. \A j \in Invs, d \in Days : <<j, d>> \in taken => <<j, d>> \in left \/ (j = Cash /\ d >= 1)
      BY <2>15, DaysAreNumbers DEF Carried
    <3>2. 1 \in Nat /\ NavsFollow(r, taken)
      BY <2>15
    <3> QED  BY <2>3, <2>4, <2>7, <2>12, <3>1, <3>2, RecomputeFollows
  <2> QED  BY <1>2, <2>5, <2>13, <2>14, <2>15
<1> QED  BY <1>1, <1>2

LEMMA ImportSound ==
  ASSUME NEW b, WellFormed(b), NEW sheet \in Workbooks, NEW m, m = Imported(b, sheet),
         NEW named, named = Named(sheet) \union (IF Cash \in Named(sheet) THEN {Plan} ELSE {}),
         NEW renewed, renewed = (IF Cash \in named THEN From(Cash, 1) ELSE {}) \union From(Plan, 1),
         NEW op, op = "import",
         NEW t, t = [op |-> op, from |-> b, to |-> m, replaces |-> named, renewed |-> renewed]
  PROVE  Sound(t)
<1>1. /\ t.op = op /\ t.from = b /\ t.to = m /\ t.replaces = named /\ t.renewed = renewed
  OBVIOUS
<1>2. PICK r, o, p :
        r = Replaced(b, sheet) /\ o = Reopened(r, sheet) /\ p = Restated(o, sheet)
  OBVIOUS
<1>3. m = Projected(p, 1)
  BY <1>2 DEF Imported
<1>4. /\ WellFormed(r) /\ r.ledger = b.ledger /\ r.mode = b.mode /\ r.prices = b.prices
      /\ \A d \in Days : Fund \in Named(sheet) => r.navs[Fund][d].origin \in {"none", "excel"}
      /\ Cash \in Named(sheet) => \A d \in Days : r.navs[Cash][d] = NoRow /\ r.navs[Plan][d] = NoRow
      /\ Fund \notin Named(sheet) => r.navs[Fund] = b.navs[Fund]
      /\ Cash \notin Named(sheet) => r.navs[Cash] = b.navs[Cash] /\ r.navs[Plan] = b.navs[Plan]
  BY <1>2, ReplacedRows
<1>5. /\ WellFormed(o) /\ o.mode = r.mode
      /\ \A s \in Series \ {Fund} : o.navs[s] = r.navs[s]
      /\ Fund \notin Named(sheet) => o.navs[Fund] = r.navs[Fund]
      /\ \A d \in Days : o.navs[Fund][d] = r.navs[Fund][d] \/ o.navs[Fund][d].origin \in {"system", "none"}
      /\ \A taken : NavsFollow(r, taken) => NavsFollow(o, taken)
  BY <1>2, <1>4, ReopenedRows
<1>6. /\ WellFormed(p) /\ p.mode = o.mode
      /\ \A s \in Series \ {Cash} : p.navs[s] = o.navs[s]
      /\ Stated(sheet) = {} => p = o
      /\ \A taken, left : NavsFollow(o, taken) /\ Carried(taken, left, sheet) => NavsFollow(p, left)
  BY <1>2, <1>5, RestatedRows
<1>7. Shaped(p) /\ 1 \in Nat
  BY <1>6 DEF WellFormed
<1>8. /\ m.ledger = p.ledger /\ m.mode = p.mode /\ m.prices = p.prices
      /\ \A i \in Invs : m.navs[i] = p.navs[i]
  BY <1>3, <1>7, ProjectedRows
<1>9. WellFormed(m) /\ \A d \in Days : m.navs[Plan][d] = p.navs[Plan][d] \/ Computed(p.navs[Plan][d])
  BY <1>3, <1>6, <1>7, ProjectedWell
<1>10. /\ Named(sheet) \subseteq Invs
       /\ (Fund \in Named(sheet) <=> sheet.fund) /\ (Cash \in Named(sheet) <=> Stated(sheet) # {})
  BY SheetIsTyped
<1>11. /\ Fund \in Series /\ Cash \in Series /\ Plan \in Series
       /\ Fund \in Invs /\ Cash \in Invs /\ Fund # Cash /\ Fund # Plan /\ Plan # Cash
  BY SeriesAreApart DEF Series, Invs
<1>12. /\ named \subseteq Series /\ (Fund \in named <=> Fund \in Named(sheet))
       /\ (Cash \in named <=> Cash \in Named(sheet)) /\ (Plan \in named <=> Cash \in Named(sheet))
  BY <1>10, <1>11, SeriesAreApart DEF Series
<1>13. Spares(t)
  <2>1. ASSUME NEW s \in Series \ named, NEW d \in Days, m.navs[s][d] # b.navs[s][d]
        PROVE  Yields(op, b.navs[s][d])
    <3>1. s \in {Fund, Cash, Plan}
      BY DEF Series, Invs
    <3>2. s # Fund
      BY <1>4, <1>5, <1>6, <1>8, <1>11, <1>12, <2>1
    <3>3. s # Cash
      BY <1>4, <1>5, <1>6, <1>8, <1>10, <1>11, <1>12, <2>1
    <3>4. s = Plan
      BY <3>1, <3>2, <3>3
    <3>5. p.navs[Plan] = b.navs[Plan]
      BY <1>4, <1>5, <1>6, <1>11, <1>12, <2>1, <3>4
    <3> QED  BY <1>9, <2>1, <3>4, <3>5 DEF Yields
  <2> QED  BY <1>1, <2>1 DEF Spares
<1>14. LiveGoes(t)
  <2>1. m.navs[Fund] = o.navs[Fund] /\ m.mode = b.mode
    BY <1>4, <1>5, <1>6, <1>8, <1>11
  <2>2. ASSUME NEW d \in Days, m.navs[Fund][d].origin = "live"
        PROVE  Fund \notin named /\ m.navs[Fund][d] = b.navs[Fund][d]
    <3>1. o.navs[Fund][d] = r.navs[Fund][d]
      BY <1>5, <2>1, <2>2
    <3>2. Fund \notin Named(sheet)
      BY <1>4, <2>1, <2>2, <3>1
    <3> QED  BY <1>4, <1>12, <2>1, <3>1, <3>2
  <2> QED  BY <1>1, <2>1, <2>2 DEF LiveGoes
<1>15. ASSUME NEW taken, NavsFollow(b, taken) PROVE NavsFollow(m, After(t, taken))
  <2>1. PICK all, left : all = taken \union (named \X Days) /\ left = After(t, taken)
    OBVIOUS
  <2>2. left = all \ renewed
    BY <1>1, <2>1 DEF After
  <2>3. NavsFollow(r, all)
    <3> SUFFICES ASSUME NEW i \in Invs, r.mode[i] = "unitised", NEW d \in Days
                 PROVE  DayFollows(r, i, d, all)
      BY FollowsByDays
    <3>1. DayFollows(b, i, d, taken)
      BY <1>4, <1>15, FollowsByDays
    <3>2. CASE i \in named
      <4>1. r.navs[i][d].origin # "system"
        <5>1. NoRow.origin = "none"
          BY DEF NoRow
        <5> QED  BY <1>4, <1>12, <3>2, <5>1 DEF Invs
      <4>2. <<i, d>> \in all
        BY <2>1, <3>2
      <4> QED  BY <4>1, <4>2 DEF DayFollows
    <3>3. CASE i \notin named
      <4>1. r.navs[i] = b.navs[i]
        BY <1>4, <1>12, <3>3 DEF Invs
      <4>2. <<i, d>> \in taken => <<i, d>> \in all
        BY <2>1
      <4>3. r.navs[i][d] = b.navs[i][d] /\ r.prices[i][d] = b.prices[i][d]
            /\ HeldRows(r.ledger, i, d) = HeldRows(b.ledger, i, d)
        BY <1>4, <4>1
      <4> QED  BY <3>1, <4>2, <4>3, KeptDay
    <3> QED  BY <3>2, <3>3
  <2>4. NavsFollow(o, all)
    BY <1>5, <2>3
  <2>5. Carried(all, left, sheet)
    <3> SUFFICES ASSUME NEW j \in Invs, NEW d \in Days, <<j, d>> \in all, <<j, d>> \notin left
                 PROVE  j = Cash /\ Stated(sheet) # {}
      BY DEF Carried
    <3>1. <<j, d>> \in renewed
      BY <2>2
    <3>2. <<j, d>> \notin From(Plan, 1)
      BY SeriesAreApart, InFrom
    <3>3. Cash \in named /\ <<j, d>> \in From(Cash, 1)
      BY <3>1, <3>2
    <3>4. j = Cash
      BY <3>3, InFrom
    <3> QED  BY <1>10, <1>12, <3>3, <3>4
  <2>6. NavsFollow(p, left)
    BY <1>6, <2>4, <2>5
  <2>7. NavsFollow(m, left)
    BY <1>8, <2>6, NavsKept
  <2> QED  BY <2>1, <2>7
<1>16. ASSUME NEW taken PROVE PathFollows(m, After(t, taken))
  <2>1. PICK left : left = After(t, taken)
    OBVIOUS
  <2>2. OtherFlows(p, p, 1) /\ Keeps(left, left, 1)
    BY DEF OtherFlows, Keeps
  <2>3. 1 <= 1
    OBVIOUS
  <2>4. PathFollows(m, left)
    BY <1>3, <1>6, <1>7, <2>2, <2>3, ProjectFollows
  <2> QED  BY <2>1, <2>4
<1>17. Restores(t)
  BY <1>1, <1>15, <1>16 DEF Restores
<1> QED  BY <1>1, <1>9, <1>12, <1>13, <1>14, <1>17 DEF Sound

LEMMA ImportKeeps ==
  ASSUME BookInv, NEW w \in Workers, TransformUpload(w) PROVE BookInv'
<1>1. PICK sheet \in Workbooks :
        LET named == Named(sheet) \union (IF Cash \in Named(sheet) THEN {Plan} ELSE {}) IN
        Begin(w, "import", Imported(book, sheet), named,
              (IF Cash \in named THEN From(Cash, 1) ELSE {}) \union From(Plan, 1))
  BY DEF TransformUpload
<1>2. PICK b, m, named, op :
        /\ b = book /\ m = Imported(b, sheet) /\ op = "import"
        /\ named = Named(sheet) \union (IF Cash \in Named(sheet) THEN {Plan} ELSE {})
  OBVIOUS
<1>3. PICK renewed : renewed = (IF Cash \in named THEN From(Cash, 1) ELSE {}) \union From(Plan, 1)
  OBVIOUS
<1>4. PICK t : t = [op |-> op, from |-> b, to |-> m, replaces |-> named, renewed |-> renewed]
  OBVIOUS
<1>5. WellFormed(b)
  BY <1>2 DEF BookInv, TypeOK
<1>6. Sound(t)
  BY <1>2, <1>3, <1>4, <1>5, ImportSound
<1>7. Begin(w, op, m, named, renewed)
  BY <1>1, <1>2, <1>3
<1>8. t = [op |-> op, from |-> book, to |-> m, replaces |-> named, renewed |-> renewed]
  BY <1>2, <1>4
<1> QED  BY <1>6, <1>7, <1>8, BeginKeeps

------------------------------------------------------------------------------
(* The invariant. *)

LEMMA InitBook == Init => BookInv
<1> SUFFICES ASSUME Init PROVE BookInv
  OBVIOUS
<1>1. WellFormed(book) /\ NavsFollow(book, {}) /\ PathFollows(book, {})
  BY StartsAreValued DEF Init
<1>2. TypeOK
  BY <1>1, BoundsAreNaturals DEF Init, TypeOK
<1>3. InFlight
  BY DEF Init, InFlight, NoTx
<1> QED  BY <1>1, <1>2, <1>3 DEF Init, BookInv, NavsFollowBook, PathFollowsFlows

LEMMA NextKeeps == BookInv /\ [Next]_vars => BookInv'
<1> SUFFICES ASSUME BookInv, [Next]_vars PROVE BookInv'
  OBVIOUS
<1>1. ASSUME NEW w \in Workers, Operation(w) PROVE BookInv'
  BY <1>1, LedgerStepsKeep, FlipKeeps, IngestKeeps, FlowStepsKeep, ImportKeeps DEF Operation
<1>2. ASSUME NEW w \in Workers, Commit(w) \/ Fail(w) PROVE BookInv'
  BY <1>2, CommitKeeps, FailKeeps
<1>3. CASE AddNav \/ UpdateNav \/ DeleteNav
  BY <1>3, NavStatementsKeep
<1>4. CASE SetInvestmentActive
  BY <1>4, ActiveKeeps
<1>5. CASE UNCHANGED vars
  BY <1>5 DEF vars, BookInv, TypeOK, InFlight, NavsFollowBook, PathFollowsFlows
<1> QED  BY <1>1, <1>2, <1>3, <1>4, <1>5 DEF Next

LEMMA BookInvariant == Spec => []BookInv
BY InitBook, NextKeeps, PTL DEF Spec

\* Whatever overlaps, the committed book is one: at most one opening of an investment, a row
\* or none for every series and day, no live NAV on a fund that is computed, and a cash
\* position that is; and what is counted as taken away are days of the book.
THEOREM TypesHold == Spec => []TypeOK
<1>1. BookInv => TypeOK
  BY DEF BookInv
<1> QED  BY <1>1, BookInvariant, PTL

\* Every operation recomputes from a day early enough: while no transaction committed on a
\* book that had moved on, every computed NAV is holdings times price of its day, and no
\* priced day with holdings lacks one but where somebody took the row away.
THEOREM NavsFollowTheBook == Spec => []NavsFollowBook
<1>1. BookInv => NavsFollowBook
  BY DEF BookInv
<1> QED  BY <1>1, BookInvariant, PTL

\* While moreover the anchor and the active set have stood since the last full projection,
\* the plan path of the cash position is the projection of the plan flows.
THEOREM PathFollowsTheFlows == Spec => []PathFollowsFlows
<1>1. BookInv => PathFollowsFlows
  BY DEF BookInv
<1> QED  BY <1>1, BookInvariant, PTL

\* However many transactions overlap and however stale what they read, only an import or a
\* person's own statement changes a NAV of the workbook or of a person.
THEOREM ForeignNavsAreSpared == Spec => ForeignNavsSpared
<1>1. ASSUME BookInv, [Next]_vars, NEW s \in Series, NEW d \in Days,
             book.navs[s][d].origin \in {"excel", "manual"}, book'.navs[s][d] # book.navs[s][d]
      PROVE  tx' = tx \/ \E w \in Workers : tx[w].op = "import" /\ tx'[w] = NoTx
  <2>1. ASSUME NEW w \in Workers, Commit(w) PROVE tx[w].op = "import" /\ tx'[w] = NoTx
    <3>1. PICK t, m, row : t = tx[w] /\ m = Merged(t) /\ row = book.navs[s][d]
      OBVIOUS
    <3>2. Sound(t) /\ DOMAIN tx = Workers
      BY <1>1, <2>1, <3>1 DEF BookInv, InFlight, Commit
    <3>3. book' = m /\ tx' = [tx EXCEPT ![w] = NoTx]
      BY <2>1, <3>1 DEF Commit
    <3>4. m.navs[s][d] = IF s \in t.replaces THEN t.to.navs[s][d]
                         ELSE Met(Yields(t.op, row), t.from.navs[s][d], t.to.navs[s][d], row)
      <4>1. m = Merged(t)
        BY <3>1
      <4>2. m.navs[s][d] = IF s \in t.replaces THEN t.to.navs[s][d]
                           ELSE Met(Yields(t.op, book.navs[s][d]), t.from.navs[s][d],
                                    t.to.navs[s][d], book.navs[s][d])
        BY <4>1, MergedParts
      <4> QED  BY <3>1, <4>2
    <3>5. ~Yields(t.op, row)
      BY <1>1, <3>1 DEF Yields, Computed
    <3>6. s \in t.replaces
      BY <1>1, <3>1, <3>3, <3>4, <3>5 DEF Met
    <3> QED  BY <3>1, <3>2, <3>3, <3>6 DEF Sound
  <2>2. ASSUME NEW w \in Workers, Operation(w) \/ Fail(w) PROVE book' = book
    BY <2>2 DEF Operation, Fail, Begin, AddPositionTransaction, UpdatePositionTransaction,
       DeletePositionTransaction, FlipToUnitised, IngestLivePrices, AddCashflow,
       UpdateCashflow, DeleteCashflow, TransformUpload, Rewrite, Reflow
  <2>3. CASE AddNav \/ UpdateNav \/ DeleteNav \/ SetInvestmentActive
    BY <2>3 DEF AddNav, UpdateNav, DeleteNav, SetInvestmentActive, WriteNav, Statement
  <2>4. CASE UNCHANGED vars
    BY <2>4 DEF vars
  <2> QED  BY <1>1, <2>1, <2>2, <2>3, <2>4 DEF Next
<1>2. BookInv /\ [Next]_vars =>
        [\A s \in Series, d \in Days :
           /\ book.navs[s][d].origin \in {"excel", "manual"}
           /\ book'.navs[s][d] # book.navs[s][d]
           => tx' = tx \/ \E w \in Workers : tx[w].op = "import" /\ tx'[w] = NoTx]_vars
  BY <1>1
<1> QED  BY <1>2, BookInvariant, PTL DEF Spec, ForeignNavsSpared

=============================================================================

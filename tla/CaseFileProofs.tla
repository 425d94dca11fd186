--------------------------- MODULE CaseFileProofs ---------------------------
(***************************************************************************)
(* Theorems of CaseFile, for every number of cases, users, requests,       *)
(* events, days and faults.                                                *)
(***************************************************************************)
EXTENDS CaseFile, SequenceTheorems, FiniteSetTheorems, WellFoundedInduction, TLAPS

------------------------------------------------------------------------------
(* The inductive invariant. *)

RowRecs == {row \in [state: States, until: 0..MaxDay, owner: Users \union {Nobody}, number: Nat] :
              row.state = "waiting" => row.until > 0}
Whats == Users \union 1..MaxDay \union Events \union {None, "date", "event", "manual"}
Entries == {e \in [kind: Kinds, seen: Nat, what: Whats, on: 0..MaxDay, stamp: Nat] :
              /\ e.kind \in {"opened", "handed_over"} => e.what \in Users
              /\ e.kind = "waiting_set" => e.what \in 1..MaxDay}

\* Functions from some of the cases.
Partial(S) == UNION {[D -> S] : D \in SUBSET Cases}

Steps == {"idle", "number", "insert", "read", "check", "write", "line", "lift", "commit"}
StepsOf(op) ==
  CASE op = "none" -> {"idle"}
    [] op = "create" -> {"number", "insert", "commit"}
    [] op \in {"wait", "hand_over"} -> {"check", "write", "commit"}
    [] op = "resume" -> {"lift", "commit"}
    [] op = "close" -> {"lift", "check", "write", "commit"}
    [] op = "line" -> {"read", "line", "lift", "commit"}
    [] op = "wake" -> {"read", "lift", "commit"}

TxRecs == [op: Ops \union {"none"}, step: Steps, at: Cases \union {None}, left: SUBSET Cases,
           arg: Whats, number: Nat, stamp: Nat, tries: {0, 1}, saw: Partial(RowRecs),
           seen: Partial(Nat), wrote: Partial(RowRecs), new: Partial(Seq(Entries))]

Types ==
  /\ rows \in [Cases -> RowRecs]
  /\ record \in [Cases -> Seq(Entries)]
  /\ day \in 1..MaxDay /\ clock \in Nat
  /\ tx \in [Procs -> TxRecs]
  /\ requests \in 0..MaxRequests /\ faults \in 0..MaxFaults

Core(row) == [state |-> row.state, until |-> row.until, owner |-> row.owner]
After(c) == Course(Unopened, record[c])
Present(t, c) == IF c \in DOMAIN t.wrote THEN t.wrote[c] ELSE rows[c]

\* Where a transaction is and what it carries there.
Sound(t) ==
  /\ t.step \in StepsOf(t.op)
  /\ t.step # "idle" => DOMAIN t.saw = Cases /\ DOMAIN t.seen = Cases
  /\ t.step \notin {"idle", "read", "commit"} \/ t.op = "create" => t.at \in Cases
  /\ t.op \in {"create", "hand_over"} => t.arg \in Users
  /\ t.op = "wait" => t.arg \in 1..MaxDay
  /\ t.op = "line" => t.arg \in Events
  /\ t.op = "wake" /\ t.step = "read" => t.arg \in 1..MaxDay
  /\ \/ t.step \in {"idle", "number", "insert", "read"}
     \/ t.step # "commit" /\ t.op \in {"wait", "hand_over"}
     => t.new = <<>>
  /\ DOMAIN t.wrote \subseteq DOMAIN t.new
  /\ t.op = "line" \/ DOMAIN t.new \subseteq DOMAIN t.wrote
  /\ t.op = "create" => DOMAIN t.new \subseteq {t.at}
  /\ t.at \notin t.left /\ t.left \intersect DOMAIN t.new = {}
  /\ t.step = "line" => t.at \notin DOMAIN t.new
  /\ t.step = "lift" => t.at \notin DOMAIN t.wrote

\* What a transaction knows of the cases was so after the entries it had seen.
Reads(t) ==
  t.step # "idle" => \A c \in Cases :
    /\ t.seen[c] <= Len(record[c])
    /\ t.op \notin {"wait", "hand_over", "close"} => After(c)[t.seen[c]] = Core(t.saw[c])
    /\ t.op = "wake" /\ t.step = "read" => t.arg <= day
    /\ t.op = "wake" /\ t.step = "lift" /\ c \in t.left \union {t.at} => t.saw[c].until <= day

OpenSince(c, n) == \E m \in n..Len(record[c]) : After(c)[m].state # "closed"
AwakeSince(c, n) == \E m \in n..Len(record[c]) : After(c)[m].state # "waiting"

\* The case a transaction works on stands, and was not closed when it was read for a gesture.
Target(t) ==
  /\ t.op \in {"wait", "hand_over", "close"} => t.at \in Cases /\ rows[t.at].state # "absent"
  /\ t.step = "write" => OpenSince(t.at, t.seen[t.at])
  /\ t.op = "close" /\ t.step \in {"check", "write"} /\ t.at \in DOMAIN t.wrote =>
       rows[t.at].state = "waiting"
  /\ t.op = "create" => rows[t.at].state = "absent"

EntryHolds(t, c, k) ==
  LET e == t.new[c][k]
      before == Course(Core(rows[c]), t.new[c])[k - 1]
  IN  /\ e.seen <= Len(record[c])
      /\ OpenSince(c, e.seen)
      /\ c \notin DOMAIN t.wrote => e.kind = "line"
      /\ e.kind = "waiting_lifted" =>
           /\ before.state = "waiting"
           /\ e.what = "date" => After(c)[e.seen].until <= e.on
      /\ e.kind = "line" =>
           /\ \A j \in 1..e.seen : record[c][j].kind = "line" => record[c][j].what # e.what
           /\ \/ AwakeSince(c, e.seen)
              \/ c \in DOMAIN t.wrote /\ t.wrote[c].state # "waiting"
              \/ t.step = "lift" /\ t.at = c

\* The entries a transaction will add lead from the row as committed to the row it leaves.
Pending(t) ==
  \A c \in DOMAIN t.new :
    /\ t.new[c] # <<>> /\ Present(t, c).state # "absent"
    /\ t.op # "create" => rows[c].state # "absent"
    /\ Course(Core(rows[c]), t.new[c])[Len(t.new[c])] = Core(Present(t, c))
    /\ \A k \in DOMAIN t.new[c] : EntryHolds(t, c, k)

\* Two transactions write different cases, and a case being opened is nobody else's.
Apart(t, u) ==
  /\ DOMAIN t.wrote \intersect DOMAIN u.wrote = {}
  /\ t.op = "create" => /\ t.at \notin DOMAIN u.new
                        /\ u.op = "create" => t.at # u.at

RecordHolds ==
  \A c \in Cases :
    /\ rows[c].state = "absent" <=> record[c] = <<>>
    /\ Core(rows[c]) = After(c)[Len(record[c])]
    /\ \A i \in DOMAIN record[c] :
         LET e == record[c][i] IN
           /\ e.seen < i
           /\ \E m \in e.seen..i - 1 : After(c)[m].state # "closed"
           /\ e.kind = "waiting_lifted" =>
                /\ After(c)[i - 1].state = "waiting"
                /\ e.what = "date" => After(c)[e.seen].until <= e.on
           /\ e.kind = "line" =>
                /\ \A j \in 1..e.seen : record[c][j].kind = "line" => record[c][j].what # e.what
                /\ AwakeSince(c, e.seen)

TxHolds(t) == Sound(t) /\ Reads(t) /\ Target(t) /\ Pending(t)
AllHold == \A p \in Procs : TxHolds(tx[p])
AllApart == \A p, q \in Procs : p # q => Apart(tx[p], tx[q])

Inv == Types /\ RecordHolds /\ AllHold /\ AllApart

------------------------------------------------------------------------------
(* The course of a case through its entries.  Induction over their number  *)
(* is an appeal to the least number for which a claim fails.               *)

LEMMA Least ==
  ASSUME NEW S \in SUBSET Nat, S # {}
  PROVE  \E n \in S : \A k \in S : n <= k
<1> DEFINE LT == {pair \in Nat \X Nat : pair[1] < pair[2]}
<1>1. OpToRel(<, Nat) = LT
  BY Zenon DEF OpToRel
<1>2. IsWellFoundedOn(LT, Nat)
  BY <1>1, NatLessThanWellFounded, Zenon
<1>3. \A k, n \in Nat : k < n => <<k, n>> \in LT
  OBVIOUS
<1> HIDE DEF LT
<1>4. PICK n \in S : \A k \in S : <<k, n>> \notin LT
  BY <1>2, WFMin
<1>5. \A k \in S : ~(k < n)
  BY <1>3, <1>4
<1> QED  BY <1>5

Runs(g, from, s, n) ==
  g = [i \in 0..n |-> IF i = 0 THEN from ELSE Replayed(g[i - 1], s[i])]

LEMMA RunsDef ==
  ASSUME NEW from, NEW s, NEW g, NEW n \in Nat
  PROVE  Runs(g, from, s, n) <=>
           /\ g = [i \in 0..n |-> g[i]] /\ g[0] = from
           /\ \A i \in 1..n : g[i] = Replayed(g[i - 1], s[i])
<1>1. ASSUME Runs(g, from, s, n)
      PROVE  /\ g = [i \in 0..n |-> g[i]] /\ g[0] = from
             /\ \A i \in 1..n : g[i] = Replayed(g[i - 1], s[i])
  BY <1>1 DEF Runs
<1>2. ASSUME g = [i \in 0..n |-> g[i]], g[0] = from,
             \A i \in 1..n : g[i] = Replayed(g[i - 1], s[i])
      PROVE  Runs(g, from, s, n)
  <2>1. \A i \in 0..n : g[i] = IF i = 0 THEN from ELSE Replayed(g[i - 1], s[i])
    BY <1>2
  <2> QED  BY <1>2, <2>1 DEF Runs
<1> QED  BY <1>1, <1>2

LEMMA CourseExists ==
  ASSUME NEW from, NEW s, NEW n \in Nat
  PROVE  \E g : Runs(g, from, s, n)
<1> DEFINE Bad == {m \in Nat : ~ \E g : Runs(g, from, s, m)}
<1>1. Bad = {}
  <2> SUFFICES ASSUME Bad # {} PROVE FALSE
    OBVIOUS
  <2>1. PICK m \in Bad : \A k \in Bad : m <= k
    BY Least
  <2>2. Runs([i \in 0..0 |-> from], from, s, 0)
    BY DEF Runs
  <2>3. m # 0 /\ m \in Nat
    BY <2>1, <2>2
  <2>4. m - 1 \in Nat /\ m - 1 \notin Bad
    BY <2>1, <2>3
  <2>5. PICK g : Runs(g, from, s, m - 1)
    BY <2>4
  <2>6. /\ g = [i \in 0..m - 1 |-> g[i]] /\ g[0] = from
        /\ \A i \in 1..m - 1 : g[i] = Replayed(g[i - 1], s[i])
    BY <2>4, <2>5, RunsDef
  <2> DEFINE h == [i \in 0..m |-> IF i = m THEN Replayed(g[m - 1], s[m]) ELSE g[i]]
  <2>7. h = [i \in 0..m |-> h[i]] /\ h[m] = Replayed(h[m - 1], s[m]) /\ h[0] = from
    BY <2>3, <2>6
  <2>8. \A i \in 1..m - 1 : h[i] = g[i] /\ h[i - 1] = g[i - 1]
    BY <2>3
  <2> HIDE DEF h
  <2>9. \A i \in 1..m : h[i] = Replayed(h[i - 1], s[i])
    <3>1. ASSUME NEW i \in 1..m - 1 PROVE h[i] = Replayed(h[i - 1], s[i])
      <4>1. g[i] = Replayed(g[i - 1], s[i])
        BY <2>6
      <4> QED  BY <2>8, <4>1
    <3>2. \A i \in 1..m : i = m \/ i \in 1..m - 1
      BY <2>3
    <3> QED  BY <2>7, <3>1, <3>2
  <2>10. Runs(h, from, s, m)
    BY <2>3, <2>7, <2>9, RunsDef
  <2> QED  BY <2>1, <2>10
<1> QED  BY <1>1

LEMMA CourseDef ==
  ASSUME NEW from, NEW s, Len(s) \in Nat
  PROVE  /\ DOMAIN Course(from, s) = 0..Len(s)
         /\ Course(from, s)[0] = from
         /\ \A i \in 1..Len(s) :
              Course(from, s)[i] = Replayed(Course(from, s)[i - 1], s[i])
<1>1. \E g : Runs(g, from, s, Len(s))
  BY CourseExists
<1>2. Course(from, s) = CHOOSE g : Runs(g, from, s, Len(s))
  BY DEF Course, Runs
<1>3. Runs(Course(from, s), from, s, Len(s))
  BY <1>1, <1>2
<1> QED  BY <1>3, RunsDef

Cores == [state: States, until: 0..MaxDay, owner: Users \union {Nobody}]

LEMMA ReplayedType ==
  ASSUME NEW core \in Cores, NEW e \in Entries, MaxDay \in Nat
  PROVE  /\ Replayed(core, e) \in Cores
         /\ Replayed(core, e).state = "closed" => core.state = "closed" \/ e.kind = "closed"
         /\ Replayed(core, e).state = "waiting" => core.state = "waiting" \/ e.kind = "waiting_set"
         /\ Replayed(core, e).until > core.until => e.kind = "waiting_set"
         /\ e.kind = "line" => Replayed(core, e) = core
<1>1. /\ core = [state |-> core.state, until |-> core.until, owner |-> core.owner]
      /\ core.state \in States /\ core.until \in 0..MaxDay /\ core.owner \in Users \union {Nobody}
  BY DEF Cores
<1>2. e.kind \in Kinds /\ (e.kind \in {"opened", "handed_over"} => e.what \in Users)
      /\ (e.kind = "waiting_set" => e.what \in 1..MaxDay)
  BY DEF Entries
<1>3. CASE e.kind = "opened"
  BY <1>2, <1>3 DEF Cores, States, Mutable, None, Replayed
<1>4. CASE e.kind = "waiting_set"
  <2>1. Replayed(core, e) = [state |-> "waiting", until |-> e.what, owner |-> core.owner]
    BY <1>1, <1>4 DEF Replayed
  <2> QED  BY <1>1, <1>2, <1>4, <2>1 DEF Cores, States, Mutable
<1>5. CASE e.kind = "waiting_lifted"
  <2>1. Replayed(core, e) = [state |-> "open", until |-> None, owner |-> core.owner]
    BY <1>1, <1>5 DEF Replayed
  <2> QED  BY <1>1, <1>5, <2>1 DEF Cores, States, Mutable, None
<1>6. CASE e.kind = "handed_over"
  <2>1. Replayed(core, e) = [state |-> core.state, until |-> core.until, owner |-> e.what]
    BY <1>1, <1>6 DEF Replayed
  <2> QED  BY <1>1, <1>2, <1>6, <2>1 DEF Cores
<1>7. CASE e.kind = "closed"
  <2>1. Replayed(core, e) = [state |-> "closed", until |-> core.until, owner |-> core.owner]
    BY <1>1, <1>7 DEF Replayed
  <2> QED  BY <1>1, <1>7, <2>1 DEF Cores, States
<1>8. CASE e.kind = "line"
  <2>1. Replayed(core, e) = core
    BY <1>8 DEF Replayed
  <2> QED  BY <1>1, <1>8, <2>1
<1> QED  BY <1>2, <1>3, <1>4, <1>5, <1>6, <1>7, <1>8 DEF Kinds

LEMMA UnopenedType == MaxDay \in Nat => Unopened \in Cores
BY DEF Unopened, Cores, States, None

LEMMA CourseType ==
  ASSUME NEW from \in Cores, NEW s \in Seq(Entries), MaxDay \in Nat
  PROVE  \A i \in 0..Len(s) : Course(from, s)[i] \in Cores
<1> DEFINE C == Course(from, s)
           Bad == {i \in 0..Len(s) : C[i] \notin Cores}
<1>1. /\ C[0] = from
      /\ \A i \in 1..Len(s) : C[i] = Replayed(C[i - 1], s[i])
  BY CourseDef
<1> HIDE DEF C
<1>2. Bad = {}
  <2> SUFFICES ASSUME Bad # {} PROVE FALSE
    OBVIOUS
  <2> HIDE DEF Bad
  <2>1. PICK i \in Bad : \A k \in Bad : i <= k
    <3>1. Bad \in SUBSET Nat
      BY DEF Bad
    <3> QED  BY <3>1, Least
  <2> USE DEF Bad
  <2>2. i \in 1..Len(s) /\ i - 1 \in 0..Len(s) /\ i - 1 \notin Bad
    BY <1>1, <2>1
  <2> QED  BY <1>1, <2>1, <2>2, ReplayedType
<1> QED  BY <1>2 DEF C

\* What holds after n entries and no longer after m, one of those between has changed.
LEMMA Between ==
  ASSUME NEW from \in Cores, NEW s \in Seq(Entries), MaxDay \in Nat,
         NEW n \in 0..Len(s), NEW m \in n..Len(s), NEW Good,
         Course(from, s)[n] \in Good, Course(from, s)[m] \notin Good
  PROVE  \E j \in n + 1..m, core \in Cores :
           /\ s[j] \in Entries /\ core \in Good
           /\ Replayed(core, s[j]) \in Cores \ Good
<1> DEFINE C == Course(from, s)
           Bad == {i \in n..m : C[i] \notin Good}
<1>1. \A i \in 0..Len(s) : C[i] \in Cores
  BY CourseType
<1>2. \A i \in 1..Len(s) : C[i] = Replayed(C[i - 1], s[i])
  BY CourseDef
<1>3. C[n] \in Good /\ C[m] \notin Good
  OBVIOUS
<1> HIDE DEF C
<1>4. PICK i \in Bad : \A k \in Bad : i <= k
  <2>1. Bad \in SUBSET Nat /\ m \in Bad
    BY <1>3
  <2> HIDE DEF Bad
  <2> QED  BY <2>1, Least
<1>5. i \in n..m /\ i # n
  BY <1>3, <1>4
<1>6. i \in n + 1..m /\ i - 1 \in n..m /\ i - 1 \notin Bad
  BY <1>4, <1>5
<1>7. i \in 1..Len(s) /\ i - 1 \in 0..Len(s) /\ s[i] \in Entries
  BY <1>6
<1>8. C[i - 1] \in Good /\ C[i - 1] \in Cores /\ C[i] \in Cores \ Good
  BY <1>1, <1>4, <1>6, <1>7
<1>9. Replayed(C[i - 1], s[i]) \in Cores \ Good
  BY <1>2, <1>7, <1>8
<1> QED  BY <1>6, <1>7, <1>8, <1>9

LEMMA ClosedBetween ==
  ASSUME NEW from \in Cores, NEW s \in Seq(Entries), MaxDay \in Nat,
         NEW n \in 0..Len(s), NEW m \in n..Len(s),
         Course(from, s)[n].state # "closed", Course(from, s)[m].state = "closed"
  PROVE  \E j \in n + 1..m : s[j].kind = "closed"
<1> DEFINE Good == {core \in Cores : core.state # "closed"}
<1>1. n \in 0..Len(s) /\ m \in 0..Len(s)
  OBVIOUS
<1>2. Course(from, s)[n] \in Good /\ Course(from, s)[m] \notin Good
  BY <1>1, CourseType
<1> HIDE DEF Good
<1>3. PICK j \in n + 1..m, core \in Cores :
        s[j] \in Entries /\ core \in Good /\ Replayed(core, s[j]) \in Cores \ Good
  BY <1>2, Between
<1>4. Replayed(core, s[j]).state = "closed" /\ core.state # "closed"
  BY <1>3 DEF Good
<1> QED  BY <1>3, <1>4, ReplayedType

LEMMA WaitSetBetween ==
  ASSUME NEW from \in Cores, NEW s \in Seq(Entries), MaxDay \in Nat,
         NEW n \in 0..Len(s), NEW m \in n..Len(s),
         Course(from, s)[n].state # "waiting", Course(from, s)[m].state = "waiting"
  PROVE  \E j \in n + 1..m : s[j].kind = "waiting_set"
<1> DEFINE Good == {core \in Cores : core.state # "waiting"}
<1>1. n \in 0..Len(s) /\ m \in 0..Len(s)
  OBVIOUS
<1>2. Course(from, s)[n] \in Good /\ Course(from, s)[m] \notin Good
  BY <1>1, CourseType
<1> HIDE DEF Good
<1>3. PICK j \in n + 1..m, core \in Cores :
        s[j] \in Entries /\ core \in Good /\ Replayed(core, s[j]) \in Cores \ Good
  BY <1>2, Between
<1>4. Replayed(core, s[j]).state = "waiting" /\ core.state # "waiting"
  BY <1>3 DEF Good
<1> QED  BY <1>3, <1>4, ReplayedType

LEMMA WaitMovedBetween ==
  ASSUME NEW from \in Cores, NEW s \in Seq(Entries), MaxDay \in Nat,
         NEW n \in 0..Len(s), NEW m \in n..Len(s), NEW x \in Nat,
         Course(from, s)[n].until <= x, ~(Course(from, s)[m].until <= x)
  PROVE  \E j \in n + 1..m : s[j].kind = "waiting_set"
<1> DEFINE Good == {core \in Cores : core.until <= x}
<1>1. n \in 0..Len(s) /\ m \in 0..Len(s)
  OBVIOUS
<1>2. Course(from, s)[n] \in Good /\ Course(from, s)[m] \notin Good
  BY <1>1, CourseType
<1> HIDE DEF Good
<1>3. PICK j \in n + 1..m, core \in Cores :
        s[j] \in Entries /\ core \in Good /\ Replayed(core, s[j]) \in Cores \ Good
  BY <1>2, Between
<1>4. core.until <= x /\ ~(Replayed(core, s[j]).until <= x)
  BY <1>3 DEF Good
<1>5. core.until \in Int /\ Replayed(core, s[j]).until \in Int
  BY <1>3 DEF Cores
<1>6. Replayed(core, s[j]).until > core.until
  BY <1>4, <1>5
<1> QED  BY <1>3, <1>6, ReplayedType

\* Two courses that stand at the same and go on with the same entries.
GoesOnWith(s, a, r, b) == \A i \in 1..b : s[a + i] = r[i]
RunsAs(C, a, D, b) == \A i \in 0..b : C[a + i] = D[i]

LEMMA CoursesAgree ==
  ASSUME NEW from, NEW s, Len(s) \in Nat, NEW to, NEW r, Len(r) \in Nat,
         NEW a \in 0..Len(s), NEW b \in 0..Len(r), a + b <= Len(s),
         GoesOnWith(s, a, r, b),
         Course(from, s)[a] = to
  PROVE  RunsAs(Course(from, s), a, Course(to, r), b)
<1> DEFINE C == Course(from, s)
           D == Course(to, r)
           Bad == {i \in 0..b : C[a + i] # D[i]}
<1>1. \A i \in 1..Len(s) : C[i] = Replayed(C[i - 1], s[i])
  BY CourseDef
<1>2. D[0] = to /\ \A i \in 1..Len(r) : D[i] = Replayed(D[i - 1], r[i])
  BY CourseDef
<1>3. C[a] = to
  OBVIOUS
<1> HIDE DEF C, D
<1>4. Bad = {}
  <2> SUFFICES ASSUME Bad # {} PROVE FALSE
    OBVIOUS
  <2>1. PICK i \in Bad : \A k \in Bad : i <= k
    <3>1. Bad \in SUBSET Nat
      OBVIOUS
    <3> HIDE DEF Bad
    <3> QED  BY <3>1, Least
  <2>2. i # 0
    BY <1>2, <1>3, <2>1
  <2>3. i \in 1..b
    BY <2>1, <2>2
  <2>4. C[a + (i - 1)] = D[i - 1]
    <3>1. i - 1 \in 0..b /\ ~(i <= i - 1)
      BY <2>3
    <3>2. i - 1 \notin Bad
      BY <2>1, <3>1
    <3> QED  BY <3>1, <3>2
  <2>5. a + i \in 1..Len(s) /\ i \in 1..Len(r) /\ (a + i) - 1 = a + (i - 1)
    BY <2>3
  <2>6. C[a + i] = Replayed(C[a + (i - 1)], s[a + i])
    BY <1>1, <2>5
  <2>7. D[i] = Replayed(D[i - 1], r[i])
    BY <1>2, <2>5
  <2>8. s[a + i] = r[i]
    BY <2>3 DEF GoesOnWith
  <2> QED  BY <2>1, <2>4, <2>6, <2>7, <2>8
<1> QED  BY <1>4 DEF C, D, RunsAs

LEMMA CourseConcat ==
  ASSUME NEW from, NEW S, NEW r \in Seq(S), NEW s \in Seq(S)
  PROVE  /\ \A i \in 0..Len(r) : Course(from, r \o s)[i] = Course(from, r)[i]
         /\ \A k \in 0..Len(s) :
              Course(from, r \o s)[Len(r) + k] = Course(Course(from, r)[Len(r)], s)[k]
<1>1. /\ r \o s \in Seq(S) /\ Len(r \o s) = Len(r) + Len(s)
      /\ Len(r) \in Nat /\ Len(s) \in Nat
      /\ \A i \in 1..Len(r) : (r \o s)[i] = r[i]
      /\ \A i \in 1..Len(s) : (r \o s)[Len(r) + i] = s[i]
  BY ConcatProperties
<1> DEFINE w == r \o s
<1> HIDE DEF w
<1>2. /\ Len(w) \in Nat /\ Len(w) = Len(r) + Len(s)
      /\ GoesOnWith(w, 0, r, Len(r)) /\ GoesOnWith(w, Len(r), s, Len(s))
  BY <1>1 DEF w, GoesOnWith
<1>3. Course(from, w)[0] = from
  BY <1>2, CourseDef
<1>4. RunsAs(Course(from, w), 0, Course(from, r), Len(r))
  <2>1. 0 \in 0..Len(w) /\ Len(r) \in 0..Len(r) /\ 0 + Len(r) <= Len(w)
    BY <1>1, <1>2
  <2> QED  BY <1>1, <1>2, <1>3, <2>1, CoursesAgree
<1>5. \A i \in 0..Len(r) : Course(from, w)[i] = Course(from, r)[i]
  BY <1>1, <1>4 DEF RunsAs
<1>6. Course(from, w)[Len(r)] = Course(from, r)[Len(r)]
  BY <1>1, <1>5
<1>7. RunsAs(Course(from, w), Len(r), Course(Course(from, r)[Len(r)], s), Len(s))
  <2>1. Len(r) \in 0..Len(w) /\ Len(s) \in 0..Len(s) /\ Len(r) + Len(s) <= Len(w)
    BY <1>1, <1>2
  <2> QED  BY <1>1, <1>2, <1>6, <2>1, CoursesAgree
<1> QED  BY <1>5, <1>7 DEF w, RunsAs

LEMMA CourseAppend ==
  ASSUME NEW from, NEW S, NEW s \in Seq(S), NEW e \in S
  PROVE  /\ \A i \in 0..Len(s) : Course(from, Append(s, e))[i] = Course(from, s)[i]
         /\ Course(from, Append(s, e))[Len(s) + 1] = Replayed(Course(from, s)[Len(s)], e)
<1> DEFINE w == Append(s, e)
<1>1. /\ Len(s) \in Nat /\ Len(w) = Len(s) + 1 /\ w[Len(s) + 1] = e
      /\ \A i \in 1..Len(s) : w[0 + i] = s[i]
  BY AppendProperties
<1> HIDE DEF w
<1>2. Len(w) \in Nat /\ GoesOnWith(w, 0, s, Len(s))
  BY <1>1 DEF GoesOnWith
<1>3. /\ Course(from, w)[0] = from
      /\ \A i \in 1..Len(w) : Course(from, w)[i] = Replayed(Course(from, w)[i - 1], w[i])
  BY <1>2, CourseDef
<1>4. RunsAs(Course(from, w), 0, Course(from, s), Len(s))
  <2>1. 0 \in 0..Len(w) /\ Len(s) \in 0..Len(s) /\ 0 + Len(s) <= Len(w)
    BY <1>1
  <2> QED  BY <1>1, <1>2, <1>3, <2>1, CoursesAgree
<1>5. \A i \in 0..Len(s) : Course(from, w)[i] = Course(from, s)[i]
  BY <1>1, <1>4 DEF RunsAs
<1>6. Len(s) + 1 \in 1..Len(w) /\ (Len(s) + 1) - 1 = Len(s) /\ Len(s) \in 0..Len(s)
  BY <1>1
<1>7. Course(from, w)[Len(s) + 1] = Replayed(Course(from, w)[Len(s)], e)
  BY <1>1, <1>3, <1>6
<1> QED  BY <1>5, <1>6, <1>7 DEF w

LEMMA LinesChangeNothing ==
  ASSUME NEW from \in Cores, NEW s \in Seq(Entries), MaxDay \in Nat,
         \A k \in 1..Len(s) : s[k].kind = "line"
  PROVE  \A i \in 0..Len(s) : Course(from, s)[i] = from
<1> DEFINE C == Course(from, s)
           Bad == {i \in 0..Len(s) : C[i] # from}
<1>1. C[0] = from /\ \A i \in 1..Len(s) : C[i] = Replayed(C[i - 1], s[i])
  BY CourseDef
<1> HIDE DEF C
<1>2. Bad = {}
  <2> SUFFICES ASSUME Bad # {} PROVE FALSE
    OBVIOUS
  <2>1. PICK i \in Bad : \A k \in Bad : i <= k
    <3>1. Bad \in SUBSET Nat
      OBVIOUS
    <3> HIDE DEF Bad
    <3> QED  BY <3>1, Least
  <2>2. i # 0
    BY <1>1, <2>1
  <2>3. i \in 1..Len(s) /\ i - 1 \in 0..Len(s) /\ i - 1 \notin Bad
    BY <2>1, <2>2
  <2>4. C[i - 1] = from /\ s[i] \in Entries /\ s[i].kind = "line"
    BY <2>3
  <2>5. C[i] = Replayed(from, s[i])
    BY <1>1, <2>3, <2>4
  <2> QED  BY <2>1, <2>4, <2>5, ReplayedType
<1> QED  BY <1>2 DEF C

------------------------------------------------------------------------------
(* Functions from some of the cases, and what a transaction adds to a case. *)

LEMMA PartialDef ==
  ASSUME NEW S, NEW f
  PROVE  f \in Partial(S) <=> DOMAIN f \subseteq Cases /\ f \in [DOMAIN f -> S]
BY DEF Partial

LEMMA EmptyPartial ==
  ASSUME NEW S
  PROVE  <<>> \in Partial(S) /\ DOMAIN <<>> = {}
<1>1. DOMAIN <<>> = {}
  BY DEF Partial
<1>2. <<>> \in [{} -> S]
  OBVIOUS
<1> QED  BY <1>1, <1>2, PartialDef

LEMMA ChangedPartial ==
  ASSUME NEW S, NEW f \in Partial(S), NEW c \in Cases, NEW v \in S,
         NEW g, g = [d \in DOMAIN f \union {c} |-> IF d = c THEN v ELSE f[d]]
  PROVE  /\ g \in Partial(S) /\ DOMAIN g = DOMAIN f \union {c} /\ g[c] = v
         /\ \A d \in DOMAIN f : d # c => g[d] = f[d]
<1>1. DOMAIN f \subseteq Cases /\ f \in [DOMAIN f -> S]
  BY PartialDef
<1>2. /\ DOMAIN g = DOMAIN f \union {c} /\ g[c] = v
      /\ \A d \in DOMAIN f : d # c => g[d] = f[d]
  OBVIOUS
<1>3. g \in [DOMAIN g -> S]
  BY <1>1, <1>2
<1>4. g \in Partial(S)
  BY <1>1, <1>2, <1>3, PartialDef
<1> QED  BY <1>2, <1>4

LEMMA NewOfType ==
  ASSUME NEW t \in TxRecs, NEW c \in Cases
  PROVE  NewOf(t, c) \in Seq(Entries)
<1>1. t.new \in Partial(Seq(Entries))
  BY DEF TxRecs
<1>2. c \in DOMAIN t.new => t.new[c] \in Seq(Entries)
  BY <1>1, PartialDef
<1>3. <<>> \in Seq(Entries)
  OBVIOUS
<1> QED  BY <1>2, <1>3 DEF NewOf

LEMMA AddingFacts ==
  ASSUME NEW t \in TxRecs, NEW c \in Cases, NEW e \in Entries
  PROVE  /\ Adding(t, c, e) \in Partial(Seq(Entries))
         /\ DOMAIN Adding(t, c, e) = DOMAIN t.new \union {c}
         /\ Adding(t, c, e)[c] = Append(NewOf(t, c), e)
         /\ \A d \in DOMAIN t.new : d # c => Adding(t, c, e)[d] = t.new[d]
<1> DEFINE S == Seq(Entries)
           f == t.new
           v == Append(NewOf(t, c), e)
           g == Adding(t, c, e)
<1>1. f \in Partial(S)
  BY DEF TxRecs
<1>2. v \in S
  BY NewOfType, AppendProperties
<1>3. g = [d \in DOMAIN f \union {c} |-> IF d = c THEN v ELSE f[d]]
  BY DEF Adding
<1> HIDE DEF S, f, v, g
<1>4. /\ g \in Partial(S) /\ DOMAIN g = DOMAIN f \union {c} /\ g[c] = v
      /\ \A d \in DOMAIN f : d # c => g[d] = f[d]
  BY <1>1, <1>2, <1>3, ChangedPartial
<1> QED  BY <1>4 DEF S, f, v, g

------------------------------------------------------------------------------
(* One transaction moves, and the rows, the record and the date stand. *)

LEMMA CoreType ==
  ASSUME NEW row \in RowRecs
  PROVE  Core(row) \in Cores
BY DEF Core, RowRecs, Cores

LEMMA PresentType ==
  ASSUME Types, NEW t \in TxRecs, NEW c \in Cases
  PROVE  Present(t, c) \in RowRecs
<1>1. t.wrote \in Partial(RowRecs)
  BY DEF TxRecs
<1>2. c \in DOMAIN t.wrote => t.wrote[c] \in RowRecs
  BY <1>1, PartialDef
<1>3. rows[c] \in RowRecs
  BY DEF Types
<1> QED  BY <1>2, <1>3 DEF Present

\* What is left of a case's course once a transaction's entries are added.
LEMMA NewCourse ==
  ASSUME Types, NEW t \in TxRecs, NEW c \in Cases, Pending(t), DOMAIN t.wrote \subseteq DOMAIN t.new
  PROVE  Course(Core(rows[c]), NewOf(t, c))[Len(NewOf(t, c))] = Core(Present(t, c))
<1>1. CASE c \in DOMAIN t.new
  BY <1>1 DEF Pending, NewOf
<1>2. CASE c \notin DOMAIN t.new
  <2>1. NewOf(t, c) = <<>> /\ Present(t, c) = rows[c] /\ Len(<<>>) = 0
    BY <1>2 DEF NewOf, Present
  <2>2. Course(Core(rows[c]), <<>>)[0] = Core(rows[c])
    BY <2>1, CourseDef
  <2> QED  BY <2>1, <2>2
<1> QED  BY <1>1, <1>2

\* A transaction u that is t with one more entry at a case.
Adds(t, u, c, e) ==
  /\ u \in TxRecs
  /\ u.op = t.op /\ u.at = t.at /\ u.left = t.left /\ u.arg = t.arg
  /\ u.saw = t.saw /\ u.seen = t.seen
  /\ DOMAIN u.new = DOMAIN t.new \union {c}
  /\ u.new[c] = Append(NewOf(t, c), e)
  /\ \A d \in DOMAIN t.new : d # c => u.new[d] = t.new[d]

\* And with the row written.
Writes(t, u, c, row) ==
  /\ DOMAIN u.wrote = DOMAIN t.wrote \union {c}
  /\ u.wrote[c] = row
  /\ \A d \in DOMAIN t.wrote : d # c => u.wrote[d] = t.wrote[d]

LEMMA AddsCourse ==
  ASSUME Types, NEW t \in TxRecs, NEW c \in Cases, Pending(t), DOMAIN t.wrote \subseteq DOMAIN t.new,
         NEW e \in Entries, NEW u, Adds(t, u, c, e)
  PROVE  /\ u.new[c] # <<>> /\ Len(u.new[c]) = Len(NewOf(t, c)) + 1 /\ Len(NewOf(t, c)) \in Nat
         /\ DOMAIN u.new[c] = 1..Len(NewOf(t, c)) + 1
         /\ u.new[c][Len(NewOf(t, c)) + 1] = e
         /\ \A k \in 1..Len(NewOf(t, c)) : u.new[c][k] = NewOf(t, c)[k]
         /\ \A k \in 0..Len(NewOf(t, c)) : Course(Core(rows[c]), u.new[c])[k]
                                             = Course(Core(rows[c]), NewOf(t, c))[k]
         /\ Course(Core(rows[c]), u.new[c])[Len(NewOf(t, c))] = Core(Present(t, c))
         /\ Course(Core(rows[c]), u.new[c])[Len(NewOf(t, c)) + 1]
              = Replayed(Core(Present(t, c)), e)
<1> DEFINE s == NewOf(t, c)
<1>1. s \in Seq(Entries)
  BY NewOfType
<1>2. u.new[c] = Append(s, e)
  BY DEF Adds
<1>3. Course(Core(rows[c]), s)[Len(s)] = Core(Present(t, c))
  BY NewCourse
<1> HIDE DEF s
<1>4. /\ Append(s, e) # <<>> /\ Len(Append(s, e)) = Len(s) + 1 /\ Len(s) \in Nat
      /\ DOMAIN Append(s, e) = 1..Len(s) + 1 /\ Append(s, e)[Len(s) + 1] = e
      /\ \A k \in 1..Len(s) : Append(s, e)[k] = s[k]
  BY <1>1, AppendProperties
<1>5. /\ \A i \in 0..Len(s) : Course(Core(rows[c]), Append(s, e))[i] = Course(Core(rows[c]), s)[i]
      /\ Course(Core(rows[c]), Append(s, e))[Len(s) + 1]
           = Replayed(Course(Core(rows[c]), s)[Len(s)], e)
  BY <1>1, CourseAppend
<1>6. Course(Core(rows[c]), Append(s, e))[Len(s)] = Core(Present(t, c))
  BY <1>3, <1>4, <1>5
<1> QED  BY <1>2, <1>3, <1>4, <1>5, <1>6 DEF s

LEMMA LastIsRow ==
  ASSUME Types, RecordHolds, NEW c \in Cases
  PROVE  /\ Len(record[c]) \in Nat /\ After(c)[Len(record[c])] = Core(rows[c])
         /\ \A n \in Nat : n <= Len(record[c]) /\ rows[c].state # "closed" => OpenSince(c, n)
         /\ \A n \in Nat : n <= Len(record[c]) /\ rows[c].state # "waiting" => AwakeSince(c, n)
<1>1. Len(record[c]) \in Nat /\ After(c)[Len(record[c])] = Core(rows[c])
  BY DEF Types, RecordHolds
<1>2. Core(rows[c]).state = rows[c].state
  BY DEF Core
<1>3. \A n \in Nat : n <= Len(record[c]) => Len(record[c]) \in n..Len(record[c])
  BY <1>1
<1> QED  BY <1>1, <1>2, <1>3 DEF OpenSince, AwakeSince

\* An entry a transaction has still to add stands while the transaction goes elsewhere.
LEMMA EntryStays ==
  ASSUME Types, RecordHolds, NEW d \in Cases, NEW t \in TxRecs, NEW u, NEW k \in DOMAIN t.new[d],
         d \in DOMAIN t.new, EntryHolds(t, d, k), u.new[d] = t.new[d],
         d \in DOMAIN t.wrote <=> d \in DOMAIN u.wrote,
         d \in DOMAIN t.wrote => u.wrote[d] = t.wrote[d],
         t.step = "lift" /\ t.at = d =>
           (u.step = "lift" /\ u.at = d) \/ rows[d].state # "waiting"
  PROVE  EntryHolds(u, d, k)
<1> DEFINE e == t.new[d][k]
<1>1. e.seen \in Nat
  <2>1. t.new \in Partial(Seq(Entries))
    BY DEF TxRecs
  <2>2. t.new[d] \in Seq(Entries)
    BY <2>1, PartialDef
  <2>3. t.new[d][k] \in Entries
    BY <2>2
  <2> QED  BY <2>3 DEF Entries
<1>2. e.seen <= Len(record[d])
  BY DEF EntryHolds
<1>3. rows[d].state # "waiting" => AwakeSince(d, e.seen)
  BY <1>1, <1>2, LastIsRow
<1> QED  BY <1>3 DEF EntryHolds

LEMMA PendingElsewhere ==
  ASSUME Types, RecordHolds, NEW t \in TxRecs, TxHolds(t), NEW d \in DOMAIN t.new, NEW u,
         u.op = t.op, u.new[d] = t.new[d],
         d \in DOMAIN t.wrote <=> d \in DOMAIN u.wrote,
         d \in DOMAIN t.wrote => u.wrote[d] = t.wrote[d],
         t.step = "lift" /\ t.at = d =>
           (u.step = "lift" /\ u.at = d) \/ rows[d].state # "waiting"
  PROVE  /\ u.new[d] # <<>> /\ Present(u, d).state # "absent"
         /\ u.op # "create" => rows[d].state # "absent"
         /\ Course(Core(rows[d]), u.new[d])[Len(u.new[d])] = Core(Present(u, d))
         /\ \A k \in DOMAIN u.new[d] : EntryHolds(u, d, k)
<1>1. d \in Cases
  BY PartialDef DEF TxRecs
<1>2. Present(u, d) = Present(t, d)
  BY DEF Present
<1>3. /\ t.new[d] # <<>> /\ Present(t, d).state # "absent"
      /\ t.op # "create" => rows[d].state # "absent"
      /\ Course(Core(rows[d]), t.new[d])[Len(t.new[d])] = Core(Present(t, d))
      /\ \A k \in DOMAIN t.new[d] : EntryHolds(t, d, k)
  BY DEF TxHolds, Pending
<1>4. ASSUME NEW k \in DOMAIN t.new[d] PROVE EntryHolds(u, d, k)
  <2>1. EntryHolds(t, d, k)
    BY <1>3
  <2> QED  BY <1>1, <2>1, EntryStays
<1> QED  BY <1>2, <1>3, <1>4

\* A transaction that has written a row and its entry, and has nothing left to do there.
LEMMA WroteHolds ==
  ASSUME Types, RecordHolds, NEW t \in TxRecs, TxHolds(t), t.step # "idle",
         NEW c \in Cases, NEW row \in RowRecs, NEW e \in Entries, NEW u,
         Adds(t, u, c, e), Writes(t, u, c, row), u.step = "commit",
         c \notin t.left, t.step = "lift" => t.at = c, t.op = "create" => t.at = c,
         e.seen <= Len(record[c]), OpenSince(c, e.seen), e.kind # "line",
         e.kind = "waiting_lifted" =>
           Present(t, c).state = "waiting" /\ (e.what = "date" => After(c)[e.seen].until <= e.on),
         row.state # "absent", t.op # "create" => rows[c].state # "absent",
         row.state # "waiting" \/ c \notin DOMAIN t.new,
         Core(row) = Replayed(Core(Present(t, c)), e)
  PROVE  TxHolds(u)
<1>1. Sound(t) /\ Reads(t) /\ Target(t) /\ Pending(t)
  BY DEF TxHolds
<1>2. DOMAIN t.wrote \subseteq DOMAIN t.new /\ DOMAIN t.new \subseteq Cases
  BY <1>1, PartialDef DEF Sound, TxRecs
<1>3. Sound(u)
  <2>1. t.op # "none" /\ t.op \in Ops \union {"none"}
    BY <1>1 DEF Sound, StepsOf, TxRecs
  <2>2. "commit" \in StepsOf(t.op)
    BY <2>1 DEF StepsOf, Ops
  <2> QED  BY <1>1, <1>2, <2>2 DEF Sound, Adds, Writes
<1>4. Reads(u)
  BY <1>1 DEF Reads, Adds
<1>5. Target(u)
  BY <1>1 DEF Target, Adds
<1>6. ASSUME NEW d \in DOMAIN u.new
      PROVE  /\ u.new[d] # <<>> /\ Present(u, d).state # "absent"
             /\ u.op # "create" => rows[d].state # "absent"
             /\ Course(Core(rows[d]), u.new[d])[Len(u.new[d])] = Core(Present(u, d))
             /\ \A k \in DOMAIN u.new[d] : EntryHolds(u, d, k)
  <2>1. CASE d # c
    <3>1. /\ d \in DOMAIN t.new /\ u.op = t.op /\ u.new[d] = t.new[d]
          /\ d \in DOMAIN t.wrote <=> d \in DOMAIN u.wrote
          /\ d \in DOMAIN t.wrote => u.wrote[d] = t.wrote[d]
      BY <1>6, <2>1 DEF Adds, Writes
    <3> QED  BY <2>1, <3>1, PendingElsewhere
  <2>2. CASE d = c
    <3> DEFINE n == Len(NewOf(t, c))
               before == Course(Core(rows[c]), u.new[c])
    <3>1. /\ u.new[c] # <<>> /\ Len(u.new[c]) = n + 1 /\ n \in Nat
          /\ DOMAIN u.new[c] = 1..n + 1 /\ u.new[c][n + 1] = e
          /\ \A k \in 1..n : u.new[c][k] = NewOf(t, c)[k]
          /\ \A k \in 0..n : before[k] = Course(Core(rows[c]), NewOf(t, c))[k]
          /\ before[n] = Core(Present(t, c))
          /\ before[n + 1] = Replayed(Core(Present(t, c)), e)
      BY <1>1, <1>2, AddsCourse
    <3>2. Present(u, c) = row /\ c \in DOMAIN u.wrote /\ u.wrote[c] = row /\ u.op = t.op
      BY DEF Present, Writes, Adds
    <3>3. EntryHolds(u, c, n + 1)
      <4>1. before[(n + 1) - 1].state = Present(t, c).state
        BY <3>1 DEF Core
      <4> QED  BY <3>1, <3>2, <4>1 DEF EntryHolds
    <3>4. ASSUME NEW k \in 1..n PROVE EntryHolds(u, c, k)
      <4>1. c \in DOMAIN t.new /\ NewOf(t, c) = t.new[c]
        BY <3>1, <3>4 DEF NewOf
      <4>2. k \in DOMAIN t.new[c]
        <5>1. NewOf(t, c) \in Seq(Entries)
          BY NewOfType
        <5> QED  BY <3>1, <4>1, <5>1
      <4>3. EntryHolds(t, c, k)
        BY <1>1, <4>1, <4>2 DEF Pending
      <4>4. k - 1 \in 0..n /\ row.state # "waiting"
        BY <3>1, <4>1
      <4>5. u.new[c][k] = t.new[c][k] /\ before[k - 1] = Course(Core(rows[c]), t.new[c])[k - 1]
        BY <3>1, <4>1, <4>4
      <4> QED  BY <3>2, <4>3, <4>4, <4>5 DEF EntryHolds
    <3>5. \A k \in DOMAIN u.new[c] : k \in 1..n \/ k = n + 1
      BY <3>1
    <3> QED  BY <2>2, <3>1, <3>2, <3>3, <3>4, <3>5
  <2> QED  BY <2>1, <2>2
<1>7. Pending(u)
  BY <1>6 DEF Pending
<1> QED  BY <1>3, <1>4, <1>5, <1>7 DEF TxHolds

\* A transaction that has written a line, and goes on to lift the wait or leaves the case.
LEMMA LinedHolds ==
  ASSUME Types, RecordHolds, NEW t \in TxRecs, TxHolds(t), t.step = "line",
         NEW c \in Cases, t.at = c, NEW e \in Entries, NEW u,
         Adds(t, u, c, e), u.wrote = t.wrote, u.step \in {"lift", "commit"},
         e.seen <= Len(record[c]), e.kind = "line", rows[c].state \in Mutable,
         \A j \in 1..e.seen : record[c][j].kind = "line" => record[c][j].what # e.what,
         AwakeSince(c, e.seen) \/ u.step = "lift"
  PROVE  TxHolds(u)
<1>1. Sound(t) /\ Reads(t) /\ Target(t) /\ Pending(t)
  BY DEF TxHolds
<1>2. DOMAIN t.wrote \subseteq DOMAIN t.new /\ DOMAIN t.new \subseteq Cases
  BY <1>1, PartialDef DEF Sound, TxRecs
<1>3. t.op = "line" /\ c \notin DOMAIN t.new
  BY <1>1 DEF Sound, StepsOf, TxRecs, Ops
<1>4. Sound(u)
  BY <1>1, <1>2, <1>3 DEF Sound, StepsOf, Adds
<1>5. Reads(u)
  BY <1>1, <1>3 DEF Reads, Adds
<1>6. Target(u)
  BY <1>1, <1>3 DEF Target, Adds
<1>7. ASSUME NEW d \in DOMAIN u.new
      PROVE  /\ u.new[d] # <<>> /\ Present(u, d).state # "absent"
             /\ u.op # "create" => rows[d].state # "absent"
             /\ Course(Core(rows[d]), u.new[d])[Len(u.new[d])] = Core(Present(u, d))
             /\ \A k \in DOMAIN u.new[d] : EntryHolds(u, d, k)
  <2>1. CASE d # c
    <3>1. d \in DOMAIN t.new /\ u.op = t.op /\ u.new[d] = t.new[d]
      BY <1>7, <2>1 DEF Adds
    <3> QED  BY <3>1, PendingElsewhere
  <2>2. CASE d = c
    <3> DEFINE n == Len(NewOf(t, c))
               before == Course(Core(rows[c]), u.new[c])
    <3>1. n = 0
      BY <1>3 DEF NewOf
    <3>2. /\ u.new[c] # <<>> /\ Len(u.new[c]) = n + 1
          /\ DOMAIN u.new[c] = 1..n + 1 /\ u.new[c][n + 1] = e
          /\ before[n + 1] = Replayed(Core(Present(t, c)), e)
      BY <1>1, <1>2, AddsCourse
    <3> HIDE DEF n, before
    <3>7. /\ u.new[c] # <<>> /\ Len(u.new[c]) = 1
          /\ DOMAIN u.new[c] = 1..1 /\ u.new[c][1] = e
          /\ before[1] = Replayed(Core(Present(t, c)), e)
      BY <3>1, <3>2
    <3> USE DEF before
    <3>3. Present(t, c) = rows[c] /\ Present(u, c) = rows[c]
      BY <1>2, <1>3 DEF Present
    <3>4. before[1] = Core(rows[c])
      BY <3>3, <3>7 DEF Replayed
    <3>5. OpenSince(c, e.seen)
      BY LastIsRow DEF Mutable, Entries
    <3>6. EntryHolds(u, c, 1)
      BY <1>2, <1>3, <3>5, <3>7 DEF EntryHolds, Adds
    <3> QED  BY <2>2, <3>3, <3>4, <3>6, <3>7 DEF Mutable
  <2> QED  BY <2>1, <2>2
<1>8. Pending(u)
  BY <1>7 DEF Pending
<1> QED  BY <1>4, <1>5, <1>6, <1>8 DEF TxHolds

------------------------------------------------------------------------------
(* The order in which a transaction takes its cases. *)

LEMMA NextOfLeft ==
  ASSUME NEW t \in TxRecs, DOMAIN t.saw = Cases, t.left # {}
  PROVE  NextOf(t) \in t.left
<1> DEFINE until(c) == t.saw[c].until
           number(c) == t.saw[c].number
<1>1. t.left \subseteq Cases /\ \A c \in Cases : t.saw[c] \in RowRecs
  BY PartialDef DEF TxRecs
<1>2. \A c \in t.left : until(c) \in Nat /\ number(c) \in Nat
  BY <1>1, BoundsAreNumbers DEF RowRecs
<1>3. \E c \in t.left : \A d \in t.left : ~Before(t, d, c)
  <2>1. ASSUME NEW L \in SUBSET t.left, L # {}
        PROVE  \E c \in L : \A d \in L : number(c) <= number(d)
    <3> DEFINE N == {number(c) : c \in L}
    <3>1. N \in SUBSET Nat /\ N # {}
      BY <1>2, <2>1
    <3>2. PICK n \in N : \A m \in N : n <= m
      <4> HIDE DEF N
      <4> QED  BY <3>1, Least
    <3> QED  BY <3>2
  <2>2. CASE t.op # "wake"
    <3>1. PICK c \in t.left : \A d \in t.left : number(c) <= number(d)
      BY <2>1
    <3>2. ASSUME NEW d \in t.left, Before(t, d, c) PROVE FALSE
      <4>1. number(d) < number(c) /\ number(c) <= number(d)
        BY <2>2, <3>1, <3>2 DEF Before
      <4> QED  BY <1>2, <4>1
    <3> QED  BY <3>1, <3>2
  <2>3. CASE t.op = "wake"
    <3> DEFINE U == {until(c) : c \in t.left}
    <3>1. U \in SUBSET Nat /\ U # {}
      BY <1>2
    <3>2. PICK u \in U : \A m \in U : u <= m
      <4> HIDE DEF U
      <4> QED  BY <3>1, Least
    <3> DEFINE L == {c \in t.left : until(c) = u}
    <3>3. L \in SUBSET t.left /\ L # {}
      BY <3>2
    <3>4. PICK c \in L : \A d \in L : number(c) <= number(d)
      <4> HIDE DEF L
      <4> QED  BY <2>1, <3>3
    <3>5. ASSUME NEW d \in t.left, Before(t, d, c) PROVE FALSE
      <4>1. c \in t.left /\ until(c) = u /\ u <= until(d) /\ u \in Nat
        BY <3>1, <3>2, <3>4
      <4>2. CASE until(d) < until(c)
        BY <1>2, <4>1, <4>2
      <4>3. CASE until(d) = until(c) /\ number(d) < number(c)
        <5>1. d \in L
          BY <4>1, <4>3
        <5> QED  BY <1>2, <3>4, <4>1, <4>3, <5>1
      <4> QED  BY <2>3, <3>5, <4>2, <4>3 DEF Before
    <3> QED  BY <3>3, <3>4, <3>5
  <2> QED  BY <2>2, <2>3
<1> QED  BY <1>3 DEF NextOf

Ended(t) == [t EXCEPT !.step = "commit"]

LEMMA TurnFields ==
  ASSUME Types, NEW p \in Procs, NEW t \in TxRecs, DOMAIN t.saw = Cases, DOMAIN t.seen = Cases,
         t.op \in {"line", "wake"}, DOMAIN tx[p].wrote \intersect t.left = {},
         NEW u, u = Turn(p, t)
  PROVE  /\ u \in TxRecs
         /\ u.op = t.op /\ u.arg = t.arg /\ u.wrote = t.wrote /\ u.new = t.new
         /\ DOMAIN u.saw = Cases /\ DOMAIN u.seen = Cases
         /\ \/ t.left = {} /\ u = Ended(t)
            \/ /\ u.at \in t.left /\ u.left = t.left \ {u.at}
               /\ u.step = IF t.op = "wake" THEN "lift" ELSE "line"
               /\ \A c \in Cases : \/ u.saw[c] = t.saw[c] /\ u.seen[c] = t.seen[c]
                                   \/ /\ t.op = "line"
                                      /\ u.saw[c] = rows[c] /\ u.seen[c] = Len(record[c])
<1>1. CASE t.left = {}
  <2>1. u = Ended(t)
    BY <1>1 DEF Turn, Ended
  <2> QED  BY <1>1, <2>1 DEF Ended, TxRecs, Steps
<1>2. CASE t.left # {}
  <2> DEFINE c == NextOf(t)
             turn == [t EXCEPT !.at = c, !.left = t.left \ {c},
                               !.step = IF t.op = "wake" THEN "lift" ELSE "line"]
  <2>1. c \in t.left /\ c \in Cases
    BY <1>2, NextOfLeft DEF TxRecs
  <2>2. u = IF t.op = "wake" \/ t.arg \notin ReadInTurn THEN turn
            ELSE [turn EXCEPT !.saw[c] = View(p, c), !.seen[c] = Len(record[c])]
    BY <1>2 DEF Turn
  <2> HIDE DEF c
  <2>3. turn \in TxRecs
    BY <2>1 DEF TxRecs, Steps
  <2>4. View(p, c) = rows[c]
    BY <2>1 DEF View
  <2>5. rows[c] \in RowRecs /\ Len(record[c]) \in Nat
    BY <2>1 DEF Types
  <2>6. CASE t.op = "wake" \/ t.arg \notin ReadInTurn
    BY <2>1, <2>2, <2>3, <2>6 DEF TxRecs
  <2>7. CASE ~(t.op = "wake" \/ t.arg \notin ReadInTurn)
    <3> DEFINE saw == [t.saw EXCEPT ![c] = rows[c]]
               seen == [t.seen EXCEPT ![c] = Len(record[c])]
    <3>1. u = [op |-> t.op, step |-> "line", at |-> c, left |-> t.left \ {c}, arg |-> t.arg,
               number |-> t.number, stamp |-> t.stamp, tries |-> t.tries, saw |-> saw, seen |-> seen,
               wrote |-> t.wrote, new |-> t.new]
      <4>1. turn = [op |-> t.op, step |-> "line", at |-> c, left |-> t.left \ {c}, arg |-> t.arg,
                    number |-> t.number, stamp |-> t.stamp, tries |-> t.tries, saw |-> t.saw, seen |-> t.seen,
                    wrote |-> t.wrote, new |-> t.new]
        <5>1. /\ turn.op = t.op /\ turn.step = "line" /\ turn.at = c /\ turn.left = t.left \ {c}
              /\ turn.arg = t.arg /\ turn.number = t.number /\ turn.stamp = t.stamp /\ turn.tries = t.tries
              /\ turn.saw = t.saw /\ turn.seen = t.seen
              /\ turn.wrote = t.wrote /\ turn.new = t.new
          BY <2>7 DEF TxRecs
        <5> HIDE DEF saw, seen, turn
        <5>2. turn = [op |-> turn.op, step |-> turn.step, at |-> turn.at, left |-> turn.left,
                      arg |-> turn.arg, number |-> turn.number, stamp |-> turn.stamp, tries |-> turn.tries,
                      saw |-> turn.saw, seen |-> turn.seen, wrote |-> turn.wrote,
                      new |-> turn.new]
          BY <2>3 DEF TxRecs
        <5> QED  BY <5>1, <5>2
      <4> HIDE DEF turn
      <4>2. u = [turn EXCEPT !.saw[c] = rows[c], !.seen[c] = Len(record[c])]
        BY <2>2, <2>4, <2>7
      <4> QED  BY <4>1, <4>2
    <3>2. saw \in Partial(RowRecs) /\ DOMAIN saw = Cases /\ saw[c] = rows[c]
      BY <2>1, <2>5, PartialDef DEF TxRecs
    <3>3. seen \in Partial(Nat) /\ DOMAIN seen = Cases /\ seen[c] = Len(record[c])
      BY <2>1, <2>5, PartialDef DEF TxRecs
    <3>4. \A d \in Cases : d # c => saw[d] = t.saw[d] /\ seen[d] = t.seen[d]
      OBVIOUS
    <3> HIDE DEF saw, seen
    <3>5. u \in TxRecs
      BY <2>1, <3>1, <3>2, <3>3 DEF TxRecs, Steps
    <3> QED  BY <2>1, <2>7, <3>1, <3>2, <3>3, <3>4, <3>5
  <2> QED  BY <2>6, <2>7
<1> QED  BY <1>1, <1>2

LEMMA TurnHolds ==
  ASSUME Types, RecordHolds, NEW p \in Procs, NEW t \in TxRecs, t.op \in {"line", "wake"},
         TxHolds(Ended(t)), DOMAIN tx[p].wrote \intersect t.left = {},
         t.op = "wake" => \A c \in t.left : t.saw[c].until <= day
  PROVE  TxHolds(Turn(p, t))
<1> DEFINE v == Ended(t)
           u == Turn(p, t)
<1>1. Sound(v) /\ Reads(v) /\ Pending(v) /\ TxHolds(v)
  BY DEF TxHolds
<1>2. /\ v \in TxRecs /\ v.step = "commit" /\ v.op = t.op /\ v.at = t.at /\ v.left = t.left
      /\ v.arg = t.arg /\ v.saw = t.saw /\ v.seen = t.seen /\ v.wrote = t.wrote /\ v.new = t.new
  BY DEF TxRecs, Steps, Ended
<1>3. DOMAIN t.saw = Cases /\ DOMAIN t.seen = Cases
  BY <1>1, <1>2 DEF Sound
<1>4. /\ u \in TxRecs
      /\ u.op = t.op /\ u.arg = t.arg /\ u.wrote = t.wrote /\ u.new = t.new
      /\ DOMAIN u.saw = Cases /\ DOMAIN u.seen = Cases
      /\ \/ t.left = {} /\ u = v
         \/ /\ u.at \in t.left /\ u.left = t.left \ {u.at}
            /\ u.step = IF t.op = "wake" THEN "lift" ELSE "line"
            /\ \A c \in Cases : \/ u.saw[c] = t.saw[c] /\ u.seen[c] = t.seen[c]
                                \/ /\ t.op = "line"
                                   /\ u.saw[c] = rows[c] /\ u.seen[c] = Len(record[c])
  BY <1>3, TurnFields
<1> HIDE DEF u, v
<1>5. CASE u = v
  BY <1>1, <1>5 DEF u
<1>6. CASE /\ u.at \in t.left /\ u.left = t.left \ {u.at}
           /\ u.step = IF t.op = "wake" THEN "lift" ELSE "line"
           /\ \A c \in Cases : \/ u.saw[c] = t.saw[c] /\ u.seen[c] = t.seen[c]
                               \/ /\ t.op = "line"
                                  /\ u.saw[c] = rows[c] /\ u.seen[c] = Len(record[c])
  <2>1. u.at \in Cases /\ t.left \subseteq Cases
    BY <1>6 DEF TxRecs
  <2>2. Sound(u)
    BY <1>1, <1>2, <1>4, <1>6, <2>1 DEF Sound, StepsOf
  <2>3. Reads(u)
    <3>1. ASSUME NEW c \in Cases
          PROVE  /\ u.seen[c] <= Len(record[c])
                 /\ After(c)[u.seen[c]] = Core(u.saw[c])
      <4>1. t.seen[c] <= Len(record[c]) /\ After(c)[t.seen[c]] = Core(t.saw[c])
        BY <1>1, <1>2 DEF Reads
      <4>2. Len(record[c]) \in Nat /\ After(c)[Len(record[c])] = Core(rows[c])
        BY LastIsRow
      <4> QED  BY <1>6, <4>1, <4>2
    <3>2. ASSUME NEW c \in u.left \union {u.at}, u.op = "wake" PROVE u.saw[c].until <= day
      BY <1>4, <1>6, <2>1, <3>2
    <3>3. u.step # "read"
      BY <1>6
    <3> QED  BY <3>1, <3>2, <3>3 DEF Reads
  <2>4. Target(u)
    BY <1>4, <1>6 DEF Target
  <2>5. Pending(u)
    <3>1. ASSUME NEW d \in DOMAIN v.new
          PROVE  /\ u.new[d] # <<>> /\ Present(u, d).state # "absent"
                 /\ u.op # "create" => rows[d].state # "absent"
                 /\ Course(Core(rows[d]), u.new[d])[Len(u.new[d])] = Core(Present(u, d))
                 /\ \A k \in DOMAIN u.new[d] : EntryHolds(u, d, k)
      <4>1. u.op = v.op /\ u.new[d] = v.new[d] /\ u.wrote = v.wrote /\ v.step # "lift"
        BY <1>2, <1>4
      <4> QED  BY <1>1, <1>2, <4>1, PendingElsewhere
    <3> QED  BY <1>2, <1>4, <3>1 DEF Pending
  <2> QED  BY <2>2, <2>3, <2>4, <2>5 DEF TxHolds, u
<1> QED  BY <1>4, <1>5, <1>6

\* A transaction moves and the others stand.
LEMMA OneMoves ==
  ASSUME Inv, NEW p \in Procs, NEW u \in TxRecs, TxHolds(u),
         \A q \in Procs : q # p => Apart(u, tx[q]) /\ Apart(tx[q], u),
         tx' = [tx EXCEPT ![p] = u], rows' = rows, record' = record, day' = day, clock' \in Nat,
         requests' \in 0..MaxRequests, faults' \in 0..MaxFaults
  PROVE  Inv'
<1>1. Types'
  BY DEF Inv, Types
<1>2. RecordHolds'
  BY DEF Inv, RecordHolds, After, AwakeSince
<1>3. \A q \in Procs : tx'[q] = IF q = p THEN u ELSE tx[q]
  BY DEF Inv, Types
<1>4. AllHold'
  <2> SUFFICES ASSUME NEW q \in Procs PROVE TxHolds(tx[q])'
    BY DEF AllHold
  <2>1. PICK v : v = tx'[q]
    OBVIOUS
  <2>2. Sound(v) /\ Reads(v) /\ Target(v) /\ Pending(v)
    BY <1>3, <2>1 DEF Inv, AllHold, TxHolds
  <2>3. Sound(tx[q])'
    BY <2>1, <2>2 DEF Sound
  <2>4. Reads(tx[q])'
    BY <2>1, <2>2 DEF Reads, After
  <2>5. Target(tx[q])'
    BY <2>1, <2>2 DEF Target, OpenSince, After
  <2>6. Pending(tx[q])'
    <3>1. ASSUME NEW c \in DOMAIN v.new, NEW k \in DOMAIN v.new[c] PROVE EntryHolds(tx[q], c, k)'
      <4>1. EntryHolds(v, c, k)
        BY <2>2 DEF Pending
      <4> QED  BY <2>1, <4>1 DEF EntryHolds, OpenSince, AwakeSince, After
    <3> QED  BY <2>1, <2>2, <3>1 DEF Pending, Present
  <2> QED  BY <2>3, <2>4, <2>5, <2>6 DEF TxHolds
<1>5. AllApart'
  BY <1>3 DEF Inv, AllApart, Apart
<1> QED  BY <1>1, <1>2, <1>4, <1>5 DEF Inv

LEMMA ApartStays ==
  ASSUME AllApart, NEW p \in Procs, NEW u,
         u.op = tx[p].op, u.wrote = tx[p].wrote, u.new = tx[p].new,
         u.op = "create" => u.at = tx[p].at
  PROVE  \A q \in Procs : q # p => Apart(u, tx[q]) /\ Apart(tx[q], u)
<1> SUFFICES ASSUME NEW q \in Procs, q # p PROVE Apart(u, tx[q]) /\ Apart(tx[q], u)
  OBVIOUS
<1>1. Apart(tx[p], tx[q]) /\ Apart(tx[q], tx[p])
  BY DEF AllApart
<1> QED  BY <1>1 DEF Apart

LEMMA FreshApart ==
  ASSUME NEW p \in Procs, NEW u, u.op # "create", u.wrote = <<>>, u.new = <<>>
  PROVE  \A q \in Procs : q # p => Apart(u, tx[q]) /\ Apart(tx[q], u)
<1>1. DOMAIN u.wrote = {} /\ DOMAIN u.new = {}
  BY EmptyPartial
<1> QED  BY <1>1 DEF Apart

LEMMA EndedBegun ==
  ASSUME NEW op, NEW c, NEW arg, NEW step, NEW L, NEW n
  PROVE  Ended(BegunWith(op, c, arg, step, L, n)) = BegunWith(op, c, arg, "commit", L, n)
BY DEF BegunWith, Ended

LEMMA BegunHolds ==
  ASSUME Types, RecordHolds, NEW op \in Ops, NEW c \in Cases \union {None}, NEW arg \in Whats,
         NEW step \in Steps \ {"idle"}, NEW L \in SUBSET Cases,
         step \in StepsOf(op), c \notin L, NEW n \in Nat,
         step \notin {"read", "commit"} \/ op = "create" => c \in Cases,
         op \in {"create", "hand_over"} => arg \in Users, op = "wait" => arg \in 1..MaxDay,
         op = "line" => arg \in Events,
         op \in {"wait", "hand_over", "close"} => c \in Cases /\ rows[c].state # "absent",
         step = "write" => rows[c].state # "closed", op = "create" => rows[c].state = "absent",
         op = "wake" /\ step = "lift" => \A d \in L \union {c} : rows[d].until <= day,
         op = "wake" /\ step = "read" => arg \in 1..MaxDay /\ arg <= day,
         NEW t, t = BegunWith(op, c, arg, step, L, n)
  PROVE  t \in TxRecs /\ TxHolds(t)
<1>1. <<>> \in Partial(RowRecs) /\ <<>> \in Partial(Seq(Entries)) /\ DOMAIN <<>> = {}
  BY EmptyPartial
<1>2. rows \in [Cases -> RowRecs] /\ \A d \in Cases : Len(record[d]) \in Nat
  BY DEF Types
<1>3. Seen \in [Cases -> Nat] /\ \A d \in Cases : Seen[d] = Len(record[d])
  BY <1>2 DEF Seen
<1>4. rows \in Partial(RowRecs) /\ Seen \in Partial(Nat) /\ DOMAIN rows = Cases /\ DOMAIN Seen = Cases
  BY <1>2, <1>3, PartialDef
<1>5. t \in TxRecs
  <2>1. None \in Nat
    BY DEF None
  <2> QED  BY <1>1, <1>4, <2>1 DEF TxRecs, BegunWith
<1>6. /\ t.op = op /\ t.step = step /\ t.at = c /\ t.left = L /\ t.arg = arg
      /\ t.saw = rows /\ t.seen = Seen /\ DOMAIN t.wrote = {} /\ DOMAIN t.new = {} /\ t.new = <<>>
  BY <1>1 DEF BegunWith
<1>7. Sound(t)
  BY <1>4, <1>6 DEF Sound
<1>8. Reads(t)
  <2>1. \A d \in Cases : After(d)[Len(record[d])] = Core(rows[d])
    BY LastIsRow
  <2> QED  BY <1>2, <1>3, <1>6, <2>1 DEF Reads
<1>9. Target(t)
  <2>1. step = "write" => c \in Cases
    OBVIOUS
  <2>2. step = "write" => OpenSince(c, Seen[c])
    BY <1>2, <1>3, <2>1, LastIsRow
  <2> QED  BY <1>6, <2>1, <2>2 DEF Target
<1>10. Pending(t)
  BY <1>6 DEF Pending
<1> QED  BY <1>5, <1>7, <1>8, <1>9, <1>10 DEF TxHolds

------------------------------------------------------------------------------
(* Every action of a transaction keeps the invariant: requests begin. *)

LEMMA NoTxHolds == NoTx \in TxRecs /\ (Types => TxHolds(NoTx))
<1>1. <<>> \in Partial(RowRecs) /\ <<>> \in Partial(Seq(Entries)) /\ <<>> \in Partial(Nat)
      /\ DOMAIN <<>> = {}
  BY EmptyPartial
<1>2. NoTx \in TxRecs
  BY <1>1 DEF NoTx, TxRecs, Steps, Whats, None
<1>3. /\ NoTx.op = "none" /\ NoTx.step = "idle" /\ NoTx.left = {}
      /\ DOMAIN NoTx.wrote = {} /\ DOMAIN NoTx.new = {} /\ NoTx.new = <<>>
  BY <1>1 DEF NoTx
<1>4. Sound(NoTx) /\ Reads(NoTx) /\ Target(NoTx) /\ Pending(NoTx)
  BY <1>3 DEF Sound, StepsOf, Reads, Target, Pending
<1> QED  BY <1>2, <1>4 DEF TxHolds

LEMMA InstantsAreNumbers == Types => Now \in Nat /\ NowOfTick \in Nat
BY DEF Types, Now, NowOfTick

LEMMA RequestKeepsInv ==
  ASSUME Inv, NEW w \in Workers, NEW u \in TxRecs, TxHolds(u), Request(w, u),
         \A q \in Procs : q # w => Apart(u, tx[q]) /\ Apart(tx[q], u)
  PROVE  Inv'
<1>1. w \in Procs
  BY DEF Procs
<1>2. requests' \in 0..MaxRequests /\ faults' \in 0..MaxFaults /\ clock' \in Nat
  BY BoundsAreNumbers DEF Request, Inv, Types
<1> QED  BY <1>1, <1>2, OneMoves DEF Request

LEMMA ArgTypes ==
  /\ None \in Whats /\ Users \subseteq Whats /\ 1..MaxDay \subseteq Whats /\ Events \subseteq Whats
  /\ None \notin Cases
BY CasesAreNumbers DEF Whats, None

LEMMA StartGestureKeepsInv ==
  ASSUME Inv, NEW w \in Workers, NEW c \in Cases, NEW op, NEW arg, NEW step,
         <<op, step>> \in {<<"wait", "check">>, <<"resume", "lift">>, <<"hand_over", "check">>,
                           <<"close", "lift">>, <<"close", "check">>},
         rows[c].state \in Mutable,
         arg \in Whats, op = "wait" => arg \in 1..MaxDay, op = "hand_over" => arg \in Users,
         Request(w, Begun(op, c, arg, step))
  PROVE  Inv'
<1> DEFINE u == Begun(op, c, arg, step)
<1>1. u = BegunWith(op, c, arg, step, {}, Now) /\ Now \in Nat
  BY InstantsAreNumbers DEF Begun, Inv
<1>2. /\ op \in Ops /\ step \in Steps \ {"idle", "commit"} /\ step \in StepsOf(op)
      /\ op \notin {"create", "line", "wake"}
  BY DEF Ops, Steps, StepsOf
<1>3. rows[c].state # "absent" /\ rows[c].state # "closed"
  BY DEF Mutable
<1> HIDE DEF u
<1>4. u \in TxRecs /\ TxHolds(u)
  BY <1>1, <1>2, <1>3, BegunHolds DEF Inv
<1>5. w \in Procs /\ u.op # "create" /\ u.wrote = <<>> /\ u.new = <<>>
  BY <1>1, <1>2 DEF BegunWith, Procs
<1> QED  BY <1>4, <1>5, FreshApart, RequestKeepsInv DEF u

LEMMA StartCreateKeepsInv ==
  ASSUME Inv, NEW w \in Workers, NEW c \in Cases, NEW a \in Users, StartCreate(w, c, a)
  PROVE  Inv'
<1> DEFINE u == Begun("create", c, a, "number")
<1>1. rows[c].state = "absent" /\ (\A p \in Procs : tx[p].op = "create" => tx[p].at # c)
      /\ Request(w, u)
  BY DEF StartCreate
<1>2. u = BegunWith("create", c, a, "number", {}, Now) /\ Now \in Nat
  BY InstantsAreNumbers DEF Begun, Inv
<1>3. "create" \in Ops /\ "number" \in Steps \ {"idle", "commit"} /\ "number" \in StepsOf("create")
  BY DEF Ops, Steps, StepsOf
<1> HIDE DEF u
<1>4. u \in TxRecs /\ TxHolds(u)
  BY <1>1, <1>2, <1>3, ArgTypes, BegunHolds DEF Inv
<1>5. /\ w \in Procs /\ u.op = "create" /\ u.at = c /\ u.wrote = <<>> /\ u.new = <<>>
      /\ DOMAIN u.wrote = {} /\ DOMAIN u.new = {}
  BY <1>2, EmptyPartial DEF BegunWith, Procs
<1>6. ASSUME NEW q \in Procs, q # w PROVE Apart(u, tx[q]) /\ Apart(tx[q], u)
  <2>1. Sound(tx[q]) /\ Pending(tx[q])
    BY DEF Inv, AllHold, TxHolds
  <2>2. c \notin DOMAIN tx[q].new
    <3>1. CASE tx[q].op = "create"
      BY <1>1, <2>1, <3>1 DEF Sound
    <3>2. CASE tx[q].op # "create"
      BY <1>1, <2>1, <3>2 DEF Pending
    <3> QED  BY <3>1, <3>2
  <2> QED  BY <1>1, <1>5, <2>2 DEF Apart
<1> QED  BY <1>1, <1>4, <1>6, RequestKeepsInv

LEMMA StartLinesKeepsInv ==
  ASSUME Inv, NEW w \in Workers, NEW ev \in Events, StartLines(w, ev)
  PROVE  Inv'
<1> DEFINE u == Begun("line", None, ev, "read")
<1>1. Request(w, u)
  BY DEF StartLines
<1>2. u = BegunWith("line", None, ev, "read", {}, Now) /\ Now \in Nat
  BY InstantsAreNumbers DEF Begun, Inv
<1>3. "line" \in Ops /\ "read" \in Steps \ {"idle"} /\ "read" \in StepsOf("line") /\ ev \in Whats
  BY ArgTypes DEF Ops, Steps, StepsOf
<1> HIDE DEF u
<1>4. u \in TxRecs /\ TxHolds(u)
  BY <1>2, <1>3, BegunHolds DEF Inv
<1>5. w \in Procs /\ u.op # "create" /\ u.wrote = <<>> /\ u.new = <<>>
  BY <1>2 DEF BegunWith, Procs
<1> QED  BY <1>1, <1>4, <1>5, FreshApart, RequestKeepsInv

LEMMA StartKeepsInv ==
  ASSUME Inv, NEW w \in Workers, Start(w)
  PROVE  Inv'
<1>1. ASSUME NEW c \in Cases, StartResume(w, c) PROVE Inv'
  <2>1. rows[c].state \in Mutable /\ Request(w, Begun("resume", c, None, "lift"))
    BY <1>1 DEF StartResume, Mutable
  <2> QED  BY <2>1, ArgTypes, StartGestureKeepsInv
<1>2. ASSUME NEW c \in Cases, StartClose(w, c) PROVE Inv'
  <2>1. PICK step \in {"lift", "check"} :
          rows[c].state \in Mutable /\ Request(w, Begun("close", c, None, step))
    <3>1. CASE rows[c].state = "waiting"
      BY <1>2, <3>1 DEF StartClose, MayClose
    <3>2. CASE rows[c].state # "waiting"
      BY <1>2, <3>2 DEF StartClose, MayClose
    <3> QED  BY <3>1, <3>2
  <2> QED  BY <2>1, ArgTypes, StartGestureKeepsInv
<1>3. ASSUME NEW c \in Cases, NEW a \in Users, StartHandOver(w, c, a) PROVE Inv'
  <2>1. rows[c].state \in Mutable /\ Request(w, Begun("hand_over", c, a, "check"))
    BY <1>3 DEF StartHandOver
  <2> QED  BY <2>1, ArgTypes, StartGestureKeepsInv
<1>4. ASSUME NEW c \in Cases, NEW a \in 1..MaxDay, StartWait(w, c, a) PROVE Inv'
  <2>1. rows[c].state \in Mutable /\ Request(w, Begun("wait", c, a, "check"))
    BY <1>4 DEF StartWait, Mutable
  <2> QED  BY <2>1, ArgTypes, StartGestureKeepsInv
<1> QED  BY <1>1, <1>2, <1>3, <1>4, StartCreateKeepsInv, StartLinesKeepsInv DEF Start

------------------------------------------------------------------------------
(* Every action of a transaction keeps the invariant: statements. *)

Moves(p, u) ==
  tx' = [tx EXCEPT ![p] = u] /\ clock' \in Nat /\ UNCHANGED <<rows, record, day, requests, faults>>

LEMMA GoesMoves ==
  ASSUME Inv, NEW p, NEW u
  PROVE  (Goes(p, u) => Moves(p, u)) /\ (GoesOn(p, u) => Moves(p, AfterLift(p, u)))
BY DEF Goes, GoesOn, Moves, Inv, Types

LEMMA MovesKeepsInv ==
  ASSUME Inv, NEW p \in Procs, NEW u \in TxRecs, TxHolds(u), Moves(p, u),
         \A q \in Procs : q # p => Apart(u, tx[q]) /\ Apart(tx[q], u)
  PROVE  Inv'
<1>1. requests' \in 0..MaxRequests /\ faults' \in 0..MaxFaults
  BY DEF Moves, Inv, Types
<1> QED  BY <1>1, OneMoves DEF Moves

LEMMA GoesKeepsInv ==
  ASSUME Inv, NEW p \in Procs, NEW u \in TxRecs, TxHolds(u), Goes(p, u),
         \A q \in Procs : q # p => Apart(u, tx[q]) /\ Apart(tx[q], u)
  PROVE  Inv'
BY GoesMoves, MovesKeepsInv

LEMMA WakeKeepsInv ==
  ASSUME Inv, Wake
  PROVE  Inv'
<1> DEFINE u == BegunWith("wake", None, day, "read", {}, NowOfTick)
<1>1. Tick \in Procs /\ Goes(Tick, u)
  BY DEF Wake, Procs
<1>2. NowOfTick \in Nat /\ day \in 1..MaxDay /\ day \in Whats /\ day <= day
  BY InstantsAreNumbers, ArgTypes, BoundsAreNumbers DEF Inv, Types
<1>3. "wake" \in Ops /\ "read" \in Steps \ {"idle"} /\ "read" \in StepsOf("wake")
  BY DEF Ops, Steps, StepsOf
<1> HIDE DEF u
<1>4. u \in TxRecs /\ TxHolds(u)
  BY <1>2, <1>3, BegunHolds DEF Inv, u
<1>5. u.op # "create" /\ u.wrote = <<>> /\ u.new = <<>>
  BY DEF BegunWith, u
<1> QED  BY <1>1, <1>4, <1>5, FreshApart, GoesKeepsInv

LEMMA NoTxApart ==
  ASSUME NEW p \in Procs
  PROVE  \A q \in Procs : q # p => Apart(NoTx, tx[q]) /\ Apart(tx[q], NoTx)
BY FreshApart DEF NoTx

LEMMA RollBackKeepsInv ==
  ASSUME Inv, NEW p \in Procs, RollBack(p)
  PROVE  Inv'
BY NoTxHolds, NoTxApart, GoesKeepsInv DEF RollBack, Inv

LEMMA FailKeepsInv ==
  ASSUME Inv, NEW p \in Procs, Fail(p)
  PROVE  Inv'
<1>1. requests' \in 0..MaxRequests /\ faults' \in 0..MaxFaults /\ clock' \in Nat
  BY BoundsAreNumbers DEF Fail, Inv, Types
<1> QED  BY <1>1, NoTxHolds, NoTxApart, OneMoves DEF Fail, Inv

\* What a transaction in flight is known to be.
LEMMA TxFacts ==
  ASSUME Inv, NEW p \in Procs
  PROVE  /\ tx[p] \in TxRecs /\ TxHolds(tx[p])
         /\ Sound(tx[p]) /\ Reads(tx[p]) /\ Target(tx[p]) /\ Pending(tx[p])
         /\ Types /\ RecordHolds /\ AllApart
BY DEF Inv, AllHold, TxHolds, Types

\* A transaction that takes several cases in turn begins with the first.
LEMMA FirstTurn ==
  ASSUME Inv, NEW p \in Procs, DOMAIN tx[p].wrote = {}, NEW n \in Nat, NEW op \in {"line", "wake"}, NEW arg \in Whats,
         NEW step, step = (IF op = "wake" THEN "lift" ELSE "line"),
         op = "line" => arg \in Events, NEW L \in SUBSET Cases,
         op = "wake" => \A c \in L : rows[c].until <= day,
         NEW u, u = Turn(p, BegunWith(op, None, arg, step, L, n))
  PROVE  /\ u \in TxRecs /\ TxHolds(u)
         /\ \A q \in Procs : q # p => Apart(u, tx[q]) /\ Apart(tx[q], u)
<1> DEFINE t == BegunWith(op, None, arg, step, L, n)
<1>1. Ended(t) = BegunWith(op, None, arg, "commit", L, n)
  BY EndedBegun
<1>2. op \in Ops /\ "commit" \in Steps \ {"idle"} /\ "commit" \in StepsOf(op)
  BY DEF Ops, Steps, StepsOf
<1>3. Ended(t) \in TxRecs /\ TxHolds(Ended(t))
  <2>1. None \in Cases \union {None} /\ None \notin L
    BY ArgTypes
  <2> HIDE DEF t
  <2> QED  BY <1>1, <1>2, <2>1, BegunHolds DEF Inv
<1>4. /\ t.op = op /\ t.step = step /\ t.left = L /\ t.saw = rows /\ t.seen = Seen
      /\ t.wrote = <<>> /\ t.new = <<>>
  BY DEF BegunWith
<1>5. t \in TxRecs
  <2>1. /\ Ended(t).op = t.op /\ Ended(t).at = t.at /\ Ended(t).left = t.left
        /\ Ended(t).arg = t.arg /\ Ended(t).number = t.number
        /\ Ended(t).stamp = t.stamp /\ Ended(t).tries = t.tries
        /\ Ended(t).saw = t.saw /\ Ended(t).seen = t.seen
        /\ Ended(t).wrote = t.wrote /\ Ended(t).new = t.new
    BY DEF Ended, BegunWith
  <2>2. t = [op |-> t.op, step |-> t.step, at |-> t.at, left |-> t.left, arg |-> t.arg,
             number |-> t.number, stamp |-> t.stamp, tries |-> t.tries, saw |-> t.saw, seen |-> t.seen,
             wrote |-> t.wrote, new |-> t.new]
    BY DEF BegunWith
  <2>3. t.step \in Steps
    BY <1>4 DEF Steps
  <2> HIDE DEF t
  <2> QED  BY <1>3, <2>1, <2>2, <2>3 DEF TxRecs
<1>6. DOMAIN rows = Cases /\ DOMAIN Seen = Cases
  BY DEF Inv, Types, Seen
<1> HIDE DEF t
<1>8. u = Turn(p, t)
  BY DEF t
<1>9. TxHolds(u)
  BY <1>3, <1>4, <1>5, <1>8, TurnHolds DEF Inv
<1>10. u \in TxRecs /\ u.op = t.op /\ u.wrote = t.wrote /\ u.new = t.new
  BY <1>4, <1>5, <1>6, <1>8, TurnFields DEF Inv
<1> QED  BY <1>4, <1>9, <1>10, FreshApart

LEMMA FindCasesKeepsInv ==
  ASSUME Inv, NEW p \in Procs, FindCases(p)
  PROVE  Inv'
<1> DEFINE t == tx[p]
           step == IF t.op = "wake" THEN "lift" ELSE "line"
           L == Found(t)
           u == Turn(p, BegunWith(t.op, None, t.arg, step, L, t.stamp))
<1>1. t.step = "read" /\ Goes(p, u)
  BY DEF FindCases
<1>2. t \in TxRecs /\ Sound(t) /\ Reads(t)
  BY TxFacts
<1>3. t.op \in {"line", "wake"}
  BY <1>1, <1>2 DEF Sound, StepsOf, TxRecs, Ops
<1>4. DOMAIN t.wrote = {}
  BY <1>1, <1>2, EmptyPartial DEF Sound
<1>5. t.stamp \in Nat /\ t.arg \in Whats /\ (t.op = "line" => t.arg \in Events)
  BY <1>2 DEF TxRecs, Sound
<1>6. L \in SUBSET Cases
  BY <1>3, <1>5, EventsTouchCases DEF Found
<1>7. t.op = "wake" => \A c \in L : rows[c].until <= day
  <2> SUFFICES ASSUME t.op = "wake", NEW c \in L PROVE rows[c].until <= day
    OBVIOUS
  <2>1. c \in Cases /\ rows[c].until <= t.arg
    BY DEF Found, IsDue
  <2>2. t.arg \in 1..MaxDay /\ t.arg <= day
    BY <1>1, <1>2, <2>1 DEF Sound, Reads
  <2>3. rows[c].until \in 0..MaxDay /\ day \in 1..MaxDay
    BY <2>1 DEF Inv, Types, RowRecs
  <2> QED  BY <2>1, <2>2, <2>3, BoundsAreNumbers
<1> HIDE DEF t, L
<1>8. /\ u \in TxRecs /\ TxHolds(u)
      /\ \A q \in Procs : q # p => Apart(u, tx[q]) /\ Apart(tx[q], u)
  BY <1>3, <1>4, <1>5, <1>6, <1>7, FirstTurn DEF t
<1> HIDE DEF u
<1> QED  BY <1>1, <1>8, GoesKeepsInv

LEMMA FiniteHasMax ==
  ASSUME NEW S \in SUBSET Nat, IsFiniteSet(S), S # {}
  PROVE  Max(S) \in S /\ \A n \in S : n <= Max(S)
<1> DEFINE Small(T, k) == T \in SUBSET Nat /\ IsFiniteSet(T) /\ T # {} /\ Cardinality(T) = k
           HasMax(T) == \E m \in T : \A n \in T : n <= m
           Bad == {k \in Nat : \E T : Small(T, k) /\ ~HasMax(T)}
<1>1. Bad = {}
  <2> SUFFICES ASSUME Bad # {} PROVE FALSE
    OBVIOUS
  <2>1. PICK k \in Bad : \A j \in Bad : k <= j
    <3>1. Bad \in SUBSET Nat
      OBVIOUS
    <3> HIDE DEF Bad
    <3> QED  BY <3>1, Least
  <2>2. PICK T : Small(T, k) /\ ~HasMax(T)
    BY <2>1
  <2>3. PICK a \in T : TRUE
    BY <2>2
  <2>4. /\ IsFiniteSet(T \ {a}) /\ Cardinality(T \ {a}) = k - 1 /\ k - 1 \in Nat
    <3>1. IsFiniteSet(T) /\ Cardinality(T) = k
      BY <2>2
    <3>2. IsFiniteSet(T \ {a}) /\ Cardinality(T \ {a}) = k - 1
      BY <2>3, <3>1, FS_RemoveElement
    <3>3. Cardinality(T \ {a}) \in Nat
      BY <3>2, FS_CardinalityType
    <3> QED  BY <3>2, <3>3
  <2>5. T \ {a} # {}
    <3>1. T \ {a} = {} => T = {a}
      BY <2>3
    <3>2. a <= a
      BY <2>2, <2>3
    <3> QED  BY <2>2, <3>1, <3>2
  <2>6. Small(T \ {a}, k - 1) /\ k - 1 \notin Bad
    BY <2>1, <2>2, <2>4, <2>5
  <2>7. PICK m \in T \ {a} : \A n \in T \ {a} : n <= m
    BY <2>4, <2>6
  <2>8. a \in Nat /\ m \in Nat /\ T \subseteq Nat
    BY <2>2, <2>3
  <2>9. CASE a <= m
    BY <2>2, <2>7, <2>9
  <2>10. CASE m <= a
    <3>1. \A n \in T : n <= a
      BY <2>7, <2>8, <2>10
    <3> QED  BY <2>2, <2>3, <3>1
  <2> QED  BY <2>8, <2>9, <2>10
<1>2. HasMax(S)
  <2>1. Cardinality(S) \in Nat
    BY FS_CardinalityType
  <2> QED  BY <1>1, <2>1
<1>3. PICK m \in S : \A n \in S : m >= n
  BY <1>2
<1>4. \E x \in S : \A y \in S : x >= y
  BY <1>3
<1>5. Max(S) \in S /\ \A y \in S : Max(S) >= y
  BY <1>4, Zenon DEF Max
<1> QED  BY <1>5

LEMMA NextNumberIsMax ==
  ASSUME Types, Cases # {}
  PROVE  /\ NextNumber \in Nat \ {0}
         /\ \A d \in Cases : rows[d].number < NextNumber
         /\ \E d \in Cases : rows[d].number = NextNumber - 1
<1> DEFINE N == {rows[c].number : c \in Cases}
           f == [c \in Cases |-> rows[c].number]
<1>1. \A c \in Cases : rows[c].number \in Nat
  BY DEF Types, RowRecs
<1>2. N \in SUBSET Nat /\ N # {}
  BY <1>1
<1>3. f \in Surjection(Cases, N)
  BY DEF Surjection
<1>4. IsFiniteSet(N)
  <2> HIDE DEF N, f
  <2> QED  BY <1>3, CasesAreNumbers, FS_Surjection
<1>5. Max(N) \in N /\ \A n \in N : n <= Max(N)
  <2> HIDE DEF N
  <2> QED  BY <1>2, <1>4, FiniteHasMax
<1>6. NextNumber = Max(N) + 1
  BY DEF NextNumber
<1>7. \A c \in Cases : rows[c].number \in N
  OBVIOUS
<1>8. \A n \in N : n \in Nat /\ \E d \in Cases : rows[d].number = n
  BY <1>1
<1> HIDE DEF N, f
<1>9. PICK d \in Cases : rows[d].number = Max(N) /\ Max(N) \in Nat
  BY <1>5, <1>8
<1> QED  BY <1>1, <1>5, <1>6, <1>7, <1>9

LEMMA TakeNumberKeepsInv ==
  ASSUME Inv, NEW p \in Procs, TakeNumber(p)
  PROVE  Inv'
<1> DEFINE t == tx[p]
           u == [t EXCEPT !.step = "insert", !.number = NextNumber]
<1>1. t.step = "number" /\ Goes(p, u)
  BY DEF TakeNumber
<1>2. /\ t \in TxRecs /\ TxHolds(t) /\ Sound(t) /\ Reads(t) /\ Target(t) /\ Pending(t)
      /\ Types /\ RecordHolds /\ AllApart
  BY TxFacts
<1>3. t.op = "create" /\ t.at \in Cases /\ t.new = <<>> /\ DOMAIN t.wrote = {} /\ DOMAIN t.new = {}
  BY <1>1, <1>2, EmptyPartial DEF Sound, StepsOf, TxRecs, Ops
<1>4. NextNumber \in Nat
  BY <1>2, <1>3, NextNumberIsMax
<1>5. /\ u \in TxRecs /\ u.op = t.op /\ u.step = "insert" /\ u.at = t.at /\ u.left = t.left
      /\ u.arg = t.arg /\ u.saw = t.saw /\ u.seen = t.seen /\ u.wrote = t.wrote /\ u.new = t.new
  BY <1>2, <1>4 DEF TxRecs, Steps
<1> HIDE DEF u
<1>6. Sound(u) /\ Reads(u) /\ Target(u) /\ Pending(u)
  BY <1>1, <1>2, <1>3, <1>5 DEF Sound, StepsOf, Reads, Target, Pending
<1>7. \A q \in Procs : q # p => Apart(u, tx[q]) /\ Apart(tx[q], u)
  BY <1>2, <1>5, ApartStays
<1> QED  BY <1>1, <1>5, <1>6, <1>7, GoesKeepsInv DEF TxHolds

\* A row and its entry written, and nothing more to do there.
LEMMA WritingFacts ==
  ASSUME Inv, NEW p \in Procs, NEW c \in Cases, NEW row \in RowRecs, NEW e \in Entries,
         NEW t, t = tx[p], NEW w, w = Writing(p, c, row, e), NEW u, u = Ended(w)
  PROVE  /\ Adds(t, u, c, e) /\ Writes(t, u, c, row) /\ u.step = "commit"
         /\ Adds(t, w, c, e) /\ Writes(t, w, c, row) /\ w.step = t.step
<1> DEFINE wrote == [d \in DOMAIN t.wrote \union {c} |-> IF d = c THEN row ELSE t.wrote[d]]
           new == Adding(t, c, e)
<1> HIDE DEF wrote, new
<1>0. t \in TxRecs
  BY TxFacts
<1>1. w = [t EXCEPT !.wrote = wrote, !.new = new]
  BY DEF Writing, wrote, new
<1>2. /\ wrote \in Partial(RowRecs) /\ DOMAIN wrote = DOMAIN t.wrote \union {c} /\ wrote[c] = row
      /\ \A d \in DOMAIN t.wrote : d # c => wrote[d] = t.wrote[d]
  <2> DEFINE S == RowRecs
             f == t.wrote
  <2>1. f \in Partial(S) /\ row \in S
    BY <1>0 DEF TxRecs
  <2>2. wrote = [d \in DOMAIN f \union {c} |-> IF d = c THEN row ELSE f[d]]
    BY DEF wrote
  <2> HIDE DEF S, f
  <2>3. /\ wrote \in Partial(S) /\ DOMAIN wrote = DOMAIN f \union {c} /\ wrote[c] = row
        /\ \A d \in DOMAIN f : d # c => wrote[d] = f[d]
    BY <2>1, <2>2, ChangedPartial
  <2> QED  BY <2>3 DEF S, f
<1>3. /\ new \in Partial(Seq(Entries)) /\ DOMAIN new = DOMAIN t.new \union {c}
      /\ new[c] = Append(NewOf(t, c), e)
      /\ \A d \in DOMAIN t.new : d # c => new[d] = t.new[d]
  BY <1>0, AddingFacts DEF new
<1>4. /\ w \in TxRecs /\ w.op = t.op /\ w.step = t.step /\ w.at = t.at /\ w.left = t.left
      /\ w.arg = t.arg /\ w.saw = t.saw /\ w.seen = t.seen /\ w.wrote = wrote /\ w.new = new
  BY <1>0, <1>1, <1>2, <1>3 DEF TxRecs
<1>5. /\ u \in TxRecs /\ u.op = t.op /\ u.step = "commit" /\ u.at = t.at /\ u.left = t.left
      /\ u.arg = t.arg /\ u.saw = t.saw /\ u.seen = t.seen /\ u.wrote = wrote /\ u.new = new
  BY <1>4 DEF Ended, TxRecs, Steps
<1> QED  BY <1>2, <1>3, <1>4, <1>5 DEF Adds, Writes

\* A transaction that writes a case nobody else has written stays apart from the others.
LEMMA WritesApart ==
  ASSUME Inv, NEW p \in Procs, NEW c \in Cases, NEW row, NEW e, NEW u,
         Adds(tx[p], u, c, e),
         u.wrote = tx[p].wrote \/ (Writes(tx[p], u, c, row) /\ ~LockedFrom(p, c)),
         tx[p].op # "create" => rows[c].state # "absent", tx[p].op = "create" => tx[p].at = c
  PROVE  \A q \in Procs : q # p => Apart(u, tx[q]) /\ Apart(tx[q], u)
<1> SUFFICES ASSUME NEW q \in Procs, q # p PROVE Apart(u, tx[q]) /\ Apart(tx[q], u)
  OBVIOUS
<1>1. Apart(tx[p], tx[q]) /\ Apart(tx[q], tx[p]) /\ Target(tx[q]) /\ Sound(tx[q])
  BY TxFacts DEF AllApart
<1>2. ~LockedFrom(p, c) => c \notin DOMAIN tx[q].wrote
  BY DEF LockedFrom
<1>3. DOMAIN u.wrote \intersect DOMAIN tx[q].wrote = {}
  BY <1>1, <1>2 DEF Apart, Writes
<1>4. u.op = "create" => u.at \notin DOMAIN tx[q].new /\ (tx[q].op = "create" => u.at # tx[q].at)
  BY <1>1 DEF Apart, Adds
<1>5. tx[q].op = "create" => tx[q].at # c
  BY <1>1 DEF Apart, Target
<1> QED  BY <1>1, <1>3, <1>4, <1>5 DEF Apart, Adds

LEMMA WritingHolds ==
  ASSUME Inv, NEW p \in Procs, NEW t, t = tx[p], t.step # "idle",
         NEW c \in Cases, t.at = c, ~LockedFrom(p, c), NEW row \in RowRecs, NEW e \in Entries,
         NEW u, u = Ended(Writing(p, c, row, e)),
         e.seen <= Len(record[c]), OpenSince(c, e.seen), e.kind # "line",
         e.kind = "waiting_lifted" =>
           Present(t, c).state = "waiting" /\ (e.what = "date" => After(c)[e.seen].until <= e.on),
         row.state # "absent", t.op # "create" => rows[c].state # "absent",
         row.state # "waiting" \/ c \notin DOMAIN t.new,
         Core(row) = Replayed(Core(Present(t, c)), e)
  PROVE  /\ u \in TxRecs /\ TxHolds(u) /\ Adds(t, u, c, e) /\ Writes(t, u, c, row)
         /\ \A q \in Procs : q # p => Apart(u, tx[q]) /\ Apart(tx[q], u)
<1>1. t \in TxRecs /\ TxHolds(t) /\ Sound(t) /\ Types /\ RecordHolds
  BY TxFacts
<1>2. Adds(t, u, c, e) /\ Writes(t, u, c, row) /\ u.step = "commit"
  BY WritingFacts
<1>3. c \notin t.left
  BY <1>1 DEF Sound
<1>4. TxHolds(u)
  BY <1>1, <1>2, <1>3, WroteHolds
<1>5. \A q \in Procs : q # p => Apart(u, tx[q]) /\ Apart(tx[q], u)
  BY <1>2, WritesApart
<1> QED  BY <1>2, <1>4, <1>5 DEF Adds

LEMMA EntryType ==
  ASSUME Types, NEW kind \in Kinds, NEW seen \in Nat, NEW what \in Whats,
         NEW stamp \in Nat, NEW e,
         e = Entry(kind, seen, what, day, stamp),
         kind \in {"opened", "handed_over"} => what \in Users,
         kind = "waiting_set" => what \in 1..MaxDay
  PROVE  e \in Entries /\ e.kind = kind /\ e.seen = seen /\ e.what = what /\ e.on = day
<1>1. day \in 0..MaxDay
  BY BoundsAreNumbers DEF Types
<1> QED  BY <1>1 DEF Entry, Entries

LEMMA InsertCaseKeepsInv ==
  ASSUME Inv, NEW p \in Procs, InsertCase(p)
  PROVE  Inv'
<1> DEFINE t == tx[p]
           c == t.at
           row == [state |-> "open", until |-> None, owner |-> t.arg, number |-> t.number]
           e == Entry("opened", 0, t.arg, day, t.stamp)
           u == Ended(Writing(p, c, row, e))
           again == [t EXCEPT !.step = "number", !.tries = 1]
<1>1. t.step = "insert" /\ (Goes(p, u) \/ Goes(p, again) \/ RollBack(p))
  BY DEF InsertCase, Ended
<1>2. /\ t \in TxRecs /\ TxHolds(t) /\ Sound(t) /\ Reads(t) /\ Target(t) /\ Pending(t)
      /\ Types /\ RecordHolds /\ AllApart
  BY TxFacts
<1>3. t.op = "create" /\ c \in Cases /\ t.arg \in Users
      /\ t.new = <<>> /\ DOMAIN t.wrote = {} /\ DOMAIN t.new = {}
  BY <1>1, <1>2, EmptyPartial DEF Sound, StepsOf, TxRecs, Ops
<1>4. CASE Goes(p, u)
  <2>1. e \in Entries /\ e.kind = "opened" /\ e.seen = 0 /\ e.what = t.arg
    BY <1>2, <1>3, ArgTypes, EntryType DEF Kinds, TxRecs
  <2>2. row \in RowRecs /\ row.state = "open"
    BY <1>2, <1>3, BoundsAreNumbers DEF RowRecs, States, Mutable, None, TxRecs
  <2>3. Core(row) = Replayed(Core(Present(t, c)), e)
    BY <2>1 DEF Core, Replayed
  <2>4. 0 <= Len(record[c]) /\ OpenSince(c, 0)
    <3>1. Len(record[c]) \in Nat
      BY <1>2, <1>3 DEF Types
    <3>2. After(c)[0] = Unopened
      BY <3>1, CourseDef DEF After
    <3>3. 0 \in 0..Len(record[c]) /\ Unopened.state # "closed"
      BY <3>1 DEF Unopened
    <3> QED  BY <3>1, <3>2, <3>3 DEF OpenSince
  <2>5. \A q \in Procs \ {p} : c \notin DOMAIN tx[q].wrote
    <3>1. \A q \in Procs \ {p} : Apart(t, tx[q]) /\ Sound(tx[q])
      BY <1>2, TxFacts DEF AllApart
    <3> QED  BY <1>3, <3>1 DEF Apart, Sound
  <2>6. ~LockedFrom(p, c)
    BY <2>5 DEF LockedFrom
  <2> HIDE DEF t, c, row, e, u
  <2>7. /\ u \in TxRecs /\ TxHolds(u)
        /\ \A q \in Procs : q # p => Apart(u, tx[q]) /\ Apart(tx[q], u)
    <3>1. t = tx[p] /\ t.at = c /\ u = Ended(Writing(p, c, row, e)) /\ t.step # "idle"
      BY <1>1 DEF t, c, u
    <3>2. e.seen <= Len(record[c]) /\ OpenSince(c, e.seen)
      BY <2>1, <2>4
    <3>3. e.kind # "line" /\ e.kind # "waiting_lifted" /\ row.state # "absent"
          /\ row.state # "waiting"
      BY <2>1, <2>2
    <3> QED  BY <1>3, <2>1, <2>2, <2>3, <2>6, <3>1, <3>2, <3>3, WritingHolds
  <2> QED  BY <1>4, <2>7, GoesKeepsInv
<1>5. CASE Goes(p, again)
  <2>1. /\ again \in TxRecs /\ again.op = t.op /\ again.step = "number" /\ again.at = t.at
        /\ again.left = t.left /\ again.arg = t.arg /\ again.saw = t.saw /\ again.seen = t.seen
        /\ again.wrote = t.wrote /\ again.new = t.new
    BY <1>2 DEF TxRecs, Steps
  <2> HIDE DEF again
  <2>2. Sound(again) /\ Reads(again) /\ Target(again) /\ Pending(again)
    BY <1>1, <1>2, <1>3, <2>1 DEF Sound, StepsOf, Reads, Target, Pending
  <2>3. \A q \in Procs : q # p => Apart(again, tx[q]) /\ Apart(tx[q], again)
    BY <1>2, <2>1, ApartStays
  <2> QED  BY <1>5, <2>1, <2>2, <2>3, GoesKeepsInv DEF TxHolds
<1> QED  BY <1>1, <1>4, <1>5, RollBackKeepsInv

LEMMA CheckKeepsInv ==
  ASSUME Inv, NEW p \in Procs, Check(p)
  PROVE  Inv'
<1> DEFINE t == tx[p]
           c == t.at
           u == [t EXCEPT !.step = "write", !.seen = Seen]
<1>1. t.step = "check" /\ (RollBack(p) \/ (Goes(p, u) /\ Allows(View(p, c), t)))
  BY DEF Check
<1>2. /\ t \in TxRecs /\ TxHolds(t) /\ Sound(t) /\ Reads(t) /\ Target(t) /\ Pending(t)
      /\ Types /\ RecordHolds /\ AllApart
  BY TxFacts
<1>3. t.op \in {"wait", "hand_over", "close"} /\ c \in Cases
  BY <1>1, <1>2 DEF Sound, StepsOf, TxRecs, Ops
<1>4. CASE Goes(p, u) /\ Allows(View(p, c), t)
  <2>1. Seen \in [Cases -> Nat] /\ \A d \in Cases : Seen[d] = Len(record[d])
    BY <1>2 DEF Seen, Types
  <2>2. Seen \in Partial(Nat)
    BY <2>1, PartialDef
  <2>3. /\ u \in TxRecs /\ u.op = t.op /\ u.step = "write" /\ u.at = t.at /\ u.left = t.left
        /\ u.arg = t.arg /\ u.saw = t.saw /\ u.seen = Seen /\ u.wrote = t.wrote /\ u.new = t.new
    BY <1>2, <2>2 DEF TxRecs, Steps
  <2> HIDE DEF u
  <2>4. Sound(u)
    BY <1>1, <1>2, <1>3, <2>1, <2>3 DEF Sound, StepsOf
  <2>5. Reads(u)
    BY <1>2, <1>3, <2>1, <2>3, LastIsRow DEF Reads
  <2>6. Target(u)
    <3>1. rows[c].state # "closed"
      <4>1. View(p, c).state # "closed"
        <5> HIDE DEF c
        <5> QED  BY <1>3, <1>4 DEF Allows, MayClose, Mutable
      <4>2. CASE c \notin DOMAIN t.wrote
        BY <4>1, <4>2 DEF View
      <4>3. CASE c \in DOMAIN t.wrote
        <5>1. t.op = "close"
          <6>1. DOMAIN <<>> = {}
            BY EmptyPartial
          <6> QED  BY <1>1, <1>2, <1>3, <4>3, <6>1 DEF Sound
        <5> QED  BY <1>1, <1>2, <4>3, <5>1 DEF Target
      <4> QED  BY <4>2, <4>3
    <3>2. OpenSince(c, Len(record[c]))
      BY <1>2, <1>3, <3>1, LastIsRow
    <3> QED  BY <1>1, <1>2, <1>3, <2>1, <2>3, <3>2 DEF Target
  <2>7. Pending(u)
    <3>1. ASSUME NEW d \in DOMAIN t.new
          PROVE  /\ u.new[d] # <<>> /\ Present(u, d).state # "absent"
                 /\ u.op # "create" => rows[d].state # "absent"
                 /\ Course(Core(rows[d]), u.new[d])[Len(u.new[d])] = Core(Present(u, d))
                 /\ \A k \in DOMAIN u.new[d] : EntryHolds(u, d, k)
      <4>1. u.op = t.op /\ u.new[d] = t.new[d] /\ u.wrote = t.wrote /\ t.step # "lift"
        BY <1>1, <2>3
      <4> HIDE DEF t
      <4> QED  BY <1>2, <4>1, PendingElsewhere
    <3> QED  BY <2>3, <3>1 DEF Pending
  <2>8. \A q \in Procs : q # p => Apart(u, tx[q]) /\ Apart(tx[q], u)
    BY <1>2, <2>3, ApartStays
  <2> QED  BY <1>4, <2>3, <2>4, <2>5, <2>6, <2>7, <2>8, GoesKeepsInv DEF TxHolds
<1> QED  BY <1>1, <1>4, RollBackKeepsInv

\* What each UPDATE leaves of a row is what its entry makes of the case.
LEMMA RowFields ==
  ASSUME NEW row \in RowRecs
  PROVE  /\ row = [state |-> row.state, until |-> row.until, owner |-> row.owner,
                   number |-> row.number]
         /\ row.state \in States /\ row.until \in 0..MaxDay
         /\ row.owner \in Users \union {Nobody}
         /\ row.number \in Nat /\ (row.state = "waiting" => row.until > 0)
BY DEF RowRecs

LEMMA WaitedRow ==
  ASSUME NEW row \in RowRecs, NEW e, e.kind = "waiting_set", NEW a \in 1..MaxDay, e.what = a, MaxDay \in Nat,
         NEW to, to = [row EXCEPT !.state = "waiting", !.until = a]
  PROVE  to \in RowRecs /\ to.state = "waiting" /\ Core(to) = Replayed(Core(row), e)
<1>0. /\ row = [state |-> row.state, until |-> row.until, owner |-> row.owner,
                number |-> row.number]
      /\ row.state \in States /\ row.until \in 0..MaxDay /\ row.owner \in Users \union {Nobody}
      /\ row.number \in Nat /\ (row.state = "waiting" => row.until > 0)
  BY RowFields
<1>1. to = [state |-> "waiting", until |-> a, owner |-> row.owner, number |-> row.number]
  BY <1>0
<1>2. to \in RowRecs
  BY <1>0, <1>1 DEF RowRecs, States, Mutable
<1>3. Replayed(Core(row), e) = [Core(row) EXCEPT !.state = "waiting", !.until = a]
  BY DEF Replayed
<1>4. Core(to) = Replayed(Core(row), e)
  BY <1>1, <1>3 DEF Core
<1> QED  BY <1>1, <1>2, <1>4

LEMMA HandedRow ==
  ASSUME NEW row \in RowRecs, NEW e, e.kind = "handed_over", NEW a \in Users, e.what = a, MaxDay \in Nat,
         NEW to, to = [row EXCEPT !.owner = a]
  PROVE  to \in RowRecs /\ to.state = row.state /\ Core(to) = Replayed(Core(row), e)
<1>0. /\ row = [state |-> row.state, until |-> row.until, owner |-> row.owner,
                number |-> row.number]
      /\ row.state \in States /\ row.until \in 0..MaxDay /\ row.owner \in Users \union {Nobody}
      /\ row.number \in Nat /\ (row.state = "waiting" => row.until > 0)
  BY RowFields
<1>1. to = [state |-> row.state, until |-> row.until, owner |-> a, number |-> row.number]
  BY <1>0
<1>2. to \in RowRecs
  BY <1>0, <1>1 DEF RowRecs
<1>3. Replayed(Core(row), e) = [Core(row) EXCEPT !.owner = a]
  BY DEF Replayed
<1>4. Core(to) = Replayed(Core(row), e)
  BY <1>1, <1>3 DEF Core
<1> QED  BY <1>1, <1>2, <1>4

LEMMA ClosedRow ==
  ASSUME NEW row \in RowRecs, NEW e, e.kind = "closed", MaxDay \in Nat,
         NEW to, to = [row EXCEPT !.state = "closed"]
  PROVE  to \in RowRecs /\ to.state = "closed" /\ Core(to) = Replayed(Core(row), e)
<1>0. /\ row = [state |-> row.state, until |-> row.until, owner |-> row.owner,
                number |-> row.number]
      /\ row.state \in States /\ row.until \in 0..MaxDay /\ row.owner \in Users \union {Nobody}
      /\ row.number \in Nat /\ (row.state = "waiting" => row.until > 0)
  BY RowFields
<1>1. to = [state |-> "closed", until |-> row.until, owner |-> row.owner, number |-> row.number]
  BY <1>0
<1>2. to \in RowRecs
  BY <1>0, <1>1 DEF RowRecs, States
<1>3. Replayed(Core(row), e) = [Core(row) EXCEPT !.state = "closed"]
  BY DEF Replayed
<1>4. Core(to) = Replayed(Core(row), e)
  BY <1>1, <1>3 DEF Core
<1> QED  BY <1>1, <1>2, <1>4

LEMMA LiftedRow ==
  ASSUME NEW row \in RowRecs, NEW e, e.kind = "waiting_lifted", MaxDay \in Nat,
         NEW to, to = [row EXCEPT !.state = "open", !.until = None]
  PROVE  to \in RowRecs /\ to.state = "open" /\ Core(to) = Replayed(Core(row), e)
<1>0. /\ row = [state |-> row.state, until |-> row.until, owner |-> row.owner,
                number |-> row.number]
      /\ row.state \in States /\ row.until \in 0..MaxDay /\ row.owner \in Users \union {Nobody}
      /\ row.number \in Nat /\ (row.state = "waiting" => row.until > 0)
  BY RowFields
<1>1. to = [state |-> "open", until |-> None, owner |-> row.owner, number |-> row.number]
  BY <1>0
<1>2. to \in RowRecs
  BY <1>0, <1>1 DEF RowRecs, States, Mutable, None
<1>3. Replayed(Core(row), e) = [Core(row) EXCEPT !.state = "open", !.until = None]
  BY DEF Replayed
<1>4. Core(to) = Replayed(Core(row), e)
  BY <1>1, <1>3 DEF Core
<1> QED  BY <1>1, <1>2, <1>4

LEMMA WriteKeepsInv ==
  ASSUME Inv, NEW p \in Procs, Write(p)
  PROVE  Inv'
<1> DEFINE t == tx[p]
           c == t.at
           found == Present(t, c)
<1>1. t.step = "write" /\ ~LockedFrom(p, c)
  BY DEF Write
<1>2. /\ t \in TxRecs /\ TxHolds(t) /\ Sound(t) /\ Reads(t) /\ Target(t) /\ Pending(t)
      /\ Types /\ RecordHolds /\ AllApart
  BY TxFacts
<1>3. t.op \in {"wait", "hand_over", "close"} /\ c \in Cases
  BY <1>1, <1>2 DEF Sound, StepsOf, TxRecs, Ops
<1>4. found \in RowRecs /\ View(p, c) = found
  BY <1>2, <1>3, PresentType DEF View, Present
<1>5. rows[c].state # "absent" /\ found.state # "absent"
  <2>1. rows[c].state # "absent"
    BY <1>2, <1>3 DEF Target
  <2>2. c \in DOMAIN t.wrote => c \in DOMAIN t.new
    BY <1>2 DEF Sound
  <2>3. c \in DOMAIN t.new => found.state # "absent"
    BY <1>2 DEF Pending
  <2> QED  BY <2>1, <2>2, <2>3 DEF Present
<1>6. t.seen[c] \in Nat /\ t.seen[c] <= Len(record[c]) /\ OpenSince(c, t.seen[c])
  <2>1. DOMAIN t.seen = Cases /\ t.seen \in Partial(Nat)
    BY <1>1, <1>2 DEF Sound, TxRecs
  <2>2. t.seen[c] \in Nat
    BY <1>3, <2>1, PartialDef
  <2> QED  BY <1>1, <1>2, <1>3, <2>2 DEF Reads, Target
<1>7. t.arg \in Whats /\ t.stamp \in Nat
  BY <1>2 DEF TxRecs
<1>8. t.op \in {"wait", "hand_over"} => DOMAIN t.new = {}
  BY <1>1, <1>2, EmptyPartial DEF Sound
<1>9. ASSUME NEW row \in RowRecs, NEW kind \in {"waiting_set", "handed_over", "closed"},
             kind = "handed_over" => t.arg \in Users,
             kind = "waiting_set" => t.arg \in 1..MaxDay,
             NEW e, e = Entry(kind, t.seen[c], t.arg, day, t.stamp),
             row.state # "absent", row.state # "waiting" \/ t.op \in {"wait", "hand_over"},
             Core(row) = Replayed(Core(found), e),
             Goes(p, Ended(Writing(p, c, row, e)))
      PROVE  Inv'
  <2>1. e \in Entries /\ e.kind = kind /\ e.seen = t.seen[c]
    BY <1>2, <1>6, <1>7, <1>9, EntryType DEF Kinds
  <2> DEFINE u == Ended(Writing(p, c, row, e))
  <2> HIDE DEF u, t, c, found
  <2>2. /\ u \in TxRecs /\ TxHolds(u)
        /\ \A q \in Procs : q # p => Apart(u, tx[q]) /\ Apart(tx[q], u)
    <3>1. t = tx[p] /\ t.at = c /\ u = Ended(Writing(p, c, row, e)) /\ t.step # "idle"
          /\ found = Present(t, c)
      BY <1>1 DEF t, c, u, found
    <3>2. e.seen <= Len(record[c]) /\ OpenSince(c, e.seen)
      BY <1>6, <2>1
    <3>3. e.kind # "line" /\ e.kind # "waiting_lifted"
      BY <1>9, <2>1
    <3>4. row.state # "waiting" \/ c \notin DOMAIN t.new
      BY <1>8, <1>9
    <3> QED  BY <1>1, <1>3, <1>5, <1>9, <2>1, <3>1, <3>2, <3>3, <3>4, WritingHolds
  <2> QED  BY <1>9, <2>2, GoesKeepsInv DEF u
<1>10. MaxDay \in Nat
  BY BoundsAreNumbers
<1>11. CASE t.op = "wait"
  <2> DEFINE row == [found EXCEPT !.state = "waiting", !.until = t.arg]
             e == Entry("waiting_set", t.seen[c], t.arg, day, t.stamp)
  <2>1. Goes(p, Ended(Writing(p, c, row, e)))
    BY <1>4, <1>11 DEF Write, Updated, Ended
  <2>2. t.arg \in 1..MaxDay /\ e.kind = "waiting_set" /\ e.what = t.arg
    BY <1>2, <1>11 DEF Sound, Entry
  <2>3. row.state = "waiting"
    BY <1>4 DEF RowRecs
  <2> HIDE DEF t, c, found, e
  <2>4. row \in RowRecs /\ Core(row) = Replayed(Core(found), e)
    BY <1>4, <1>10, <2>2, WaitedRow
  <2> HIDE DEF row
  <2> QED  BY <1>9, <1>11, <2>1, <2>2, <2>3, <2>4 DEF e
<1>12. CASE t.op = "hand_over"
  <2> DEFINE row == [found EXCEPT !.owner = t.arg]
             e == Entry("handed_over", t.seen[c], t.arg, day, t.stamp)
  <2>1. Goes(p, Ended(Writing(p, c, row, e)))
    BY <1>4, <1>12 DEF Write, Updated, Ended
  <2>2. t.arg \in Users /\ e.kind = "handed_over" /\ e.what = t.arg
    BY <1>2, <1>12 DEF Sound, Entry
  <2> HIDE DEF t, c, found, e
  <2>4. row \in RowRecs /\ Core(row) = Replayed(Core(found), e) /\ row.state = found.state
    BY <1>4, <1>10, <2>2, HandedRow
  <2> HIDE DEF row
  <2> QED  BY <1>5, <1>9, <1>12, <2>1, <2>2, <2>4 DEF e
<1>13. CASE t.op = "close"
  <2> DEFINE row == [found EXCEPT !.state = "closed"]
             e == Entry("closed", t.seen[c], t.arg, day, t.stamp)
  <2>1. Goes(p, Ended(Writing(p, c, row, e)))
    BY <1>4, <1>13 DEF Write, Updated, Ended
  <2>2. e.kind = "closed"
    BY DEF Entry
  <2> HIDE DEF t, c, found, e
  <2>4. row \in RowRecs /\ Core(row) = Replayed(Core(found), e) /\ row.state = "closed"
    BY <1>4, <1>10, <2>2, ClosedRow
  <2> HIDE DEF row
  <2> QED  BY <1>9, <1>13, <2>1, <2>2, <2>4 DEF e
<1> QED  BY <1>3, <1>11, <1>12, <1>13

\* A transaction done with the case it is at.
LEMMA EndedHolds ==
  ASSUME Types, RecordHolds, NEW t \in TxRecs, TxHolds(t), t.step # "idle",
         t.step = "lift" => rows[t.at].state # "waiting", NEW v, v = Ended(t)
  PROVE  /\ v \in TxRecs /\ TxHolds(v)
         /\ v.op = t.op /\ v.step = "commit" /\ v.at = t.at /\ v.left = t.left /\ v.arg = t.arg
         /\ v.saw = t.saw /\ v.seen = t.seen /\ v.wrote = t.wrote /\ v.new = t.new
<1>1. /\ v \in TxRecs
      /\ v.op = t.op /\ v.step = "commit" /\ v.at = t.at /\ v.left = t.left /\ v.arg = t.arg
      /\ v.saw = t.saw /\ v.seen = t.seen /\ v.wrote = t.wrote /\ v.new = t.new
  BY DEF Ended, TxRecs, Steps
<1>2. Sound(t) /\ Reads(t) /\ Target(t) /\ Pending(t)
  BY DEF TxHolds
<1>3. t.op # "none" /\ t.op \in Ops \union {"none"}
  BY <1>2 DEF Sound, StepsOf, TxRecs
<1>4. "commit" \in StepsOf(t.op)
  BY <1>3 DEF StepsOf, Ops
<1>5. Sound(v)
  BY <1>1, <1>2, <1>4 DEF Sound
<1>6. Reads(v)
  BY <1>1, <1>2 DEF Reads
<1>7. Target(v)
  BY <1>1, <1>2 DEF Target
<1>8. Pending(v)
  <2>1. ASSUME NEW d \in DOMAIN t.new
        PROVE  /\ v.new[d] # <<>> /\ Present(v, d).state # "absent"
               /\ v.op # "create" => rows[d].state # "absent"
               /\ Course(Core(rows[d]), v.new[d])[Len(v.new[d])] = Core(Present(v, d))
               /\ \A k \in DOMAIN v.new[d] : EntryHolds(v, d, k)
    BY <1>1, PendingElsewhere
  <2> QED  BY <1>1, <2>1 DEF Pending
<1> QED  BY <1>1, <1>5, <1>6, <1>7, <1>8 DEF TxHolds

LEMMA PendingAlike ==
  ASSUME Types, RecordHolds, NEW t \in TxRecs, TxHolds(t), t.step # "lift", NEW u,
         u.op = t.op, u.wrote = t.wrote, u.new = t.new
  PROVE  Pending(u)
<1>1. ASSUME NEW d \in DOMAIN t.new
      PROVE  /\ u.new[d] # <<>> /\ Present(u, d).state # "absent"
             /\ u.op # "create" => rows[d].state # "absent"
             /\ Course(Core(rows[d]), u.new[d])[Len(u.new[d])] = Core(Present(u, d))
             /\ \A k \in DOMAIN u.new[d] : EntryHolds(u, d, k)
  BY PendingElsewhere
<1> QED  BY <1>1 DEF Pending

\* A close that has lifted the wait, or found it lifted, has the state to check.
LEMMA CheckHolds ==
  ASSUME Types, RecordHolds, NEW v \in TxRecs, TxHolds(v), v.op = "close", v.step = "commit",
         v.at \in DOMAIN v.wrote => rows[v.at].state = "waiting",
         NEW n \in Nat, NEW u, u = [v EXCEPT !.step = "check", !.stamp = n]
  PROVE  /\ u \in TxRecs /\ TxHolds(u)
         /\ u.op = v.op /\ u.at = v.at /\ u.wrote = v.wrote /\ u.new = v.new
<1>1. /\ u \in TxRecs
      /\ u.op = v.op /\ u.step = "check" /\ u.at = v.at /\ u.left = v.left /\ u.arg = v.arg
      /\ u.saw = v.saw /\ u.seen = v.seen /\ u.wrote = v.wrote /\ u.new = v.new
  BY DEF TxRecs, Steps
<1>2. Sound(v) /\ Reads(v) /\ Target(v) /\ Pending(v)
  BY DEF TxHolds
<1>3. v.at \in Cases
  BY <1>2 DEF Target
<1>4. Sound(u)
  BY <1>1, <1>2, <1>3 DEF Sound, StepsOf
<1>5. Reads(u)
  BY <1>1, <1>2 DEF Reads
<1>6. Target(u)
  BY <1>1, <1>2 DEF Target
<1>7. Pending(u)
  BY <1>1, PendingAlike
<1> QED  BY <1>1, <1>4, <1>5, <1>6, <1>7 DEF TxHolds

LEMMA ApartAlike ==
  ASSUME NEW p \in Procs, NEW v, \A q \in Procs : q # p => Apart(v, tx[q]) /\ Apart(tx[q], v),
         NEW u, u.op = v.op, u.op # "create", u.wrote = v.wrote, u.new = v.new
  PROVE  \A q \in Procs : q # p => Apart(u, tx[q]) /\ Apart(tx[q], u)
<1> SUFFICES ASSUME NEW q \in Procs, q # p PROVE Apart(u, tx[q]) /\ Apart(tx[q], u)
  OBVIOUS
<1>1. Apart(v, tx[q]) /\ Apart(tx[q], v)
  OBVIOUS
<1> QED  BY <1>1 DEF Apart

\* A transaction that is done with one case takes its next.
LEMMA TurnKeepsInv ==
  ASSUME Inv, NEW p \in Procs, NEW t \in TxRecs, t.op \in {"line", "wake"}, t.left = tx[p].left,
         TxHolds(Ended(t)), Moves(p, Turn(p, t)),
         t.op = "wake" => \A c \in t.left : t.saw[c].until <= day,
         \A q \in Procs : q # p => Apart(t, tx[q]) /\ Apart(tx[q], t)
  PROVE  Inv'
<1> DEFINE u == Turn(p, t)
<1>1. Ended(t).saw = t.saw /\ Ended(t).seen = t.seen /\ Ended(t).step = "commit"
  BY DEF Ended, TxRecs
<1>2. DOMAIN t.saw = Cases /\ DOMAIN t.seen = Cases
  BY <1>1 DEF TxHolds, Sound
<1>3. DOMAIN tx[p].wrote \intersect t.left = {}
  BY TxFacts DEF Sound
<1>4. u \in TxRecs /\ u.op = t.op /\ u.wrote = t.wrote /\ u.new = t.new
  BY <1>2, <1>3, TurnFields DEF Inv
<1>5. TxHolds(u)
  BY <1>3, TurnHolds DEF Inv
<1> HIDE DEF u
<1>6. \A q \in Procs : q # p => Apart(u, tx[q]) /\ Apart(tx[q], u)
  BY <1>4, ApartAlike
<1> QED  BY <1>4, <1>5, <1>6, MovesKeepsInv DEF u

LEMMA LiftKeepsInv ==
  ASSUME Inv, NEW p \in Procs, Lift(p)
  PROVE  Inv'
<1> DEFINE t == tx[p]
           c == t.at
           row == [Updated(p, c) EXCEPT !.state = "open", !.until = None]
           e == Entry("waiting_lifted", t.seen[c], Reason(t), day, t.stamp)
           w == Writing(p, c, row, e)
<1>1. /\ t.step = "lift"
      /\ IF StillWaiting(p, c)
         THEN ~LockedFrom(p, c) /\ Moves(p, AfterLift(p, w))
         ELSE IF t.op \in {"wake", "resume"} THEN RollBack(p) ELSE Moves(p, AfterLift(p, t))
  BY GoesMoves DEF Lift
<1>2. /\ t \in TxRecs /\ TxHolds(t) /\ Sound(t) /\ Reads(t) /\ Target(t) /\ Pending(t)
      /\ Types /\ RecordHolds /\ AllApart
  BY TxFacts
<1>3. /\ t.op \in {"resume", "close", "line", "wake"} /\ c \in Cases /\ c \notin DOMAIN t.wrote
      /\ c \notin t.left
  BY <1>1, <1>2 DEF Sound, StepsOf, TxRecs, Ops
<1>4. View(p, c) = rows[c] /\ Present(t, c) = rows[c] /\ rows[c] \in RowRecs
  BY <1>2, <1>3 DEF View, Present, Types
<1>5. t.seen[c] \in Nat /\ t.seen[c] <= Len(record[c]) /\ Len(record[c]) \in Nat
  <2>1. DOMAIN t.seen = Cases /\ t.seen \in Partial(Nat)
    BY <1>1, <1>2 DEF Sound, TxRecs
  <2>2. t.seen[c] \in Nat
    BY <1>3, <2>1, PartialDef
  <2> QED  BY <1>1, <1>2, <1>3, <2>2, LastIsRow DEF Reads
<1>6. ASSUME t.op = "wake" PROVE \A d \in t.left \union {c} : t.saw[d].until <= day
  <2>1. t.left \subseteq Cases
    BY <1>2 DEF TxRecs
  <2> QED  BY <1>1, <1>2, <1>3, <1>6, <2>1 DEF Reads
<1>7. CASE StillWaiting(p, c)
  <2> DEFINE v == Ended(w)
  <2>1. rows[c].state = "waiting" /\ ~LockedFrom(p, c) /\ Moves(p, AfterLift(p, w))
    BY <1>1, <1>4, <1>7 DEF StillWaiting
  <2>2. /\ e \in Entries /\ e.kind = "waiting_lifted" /\ e.seen = t.seen[c]
        /\ e.what = Reason(t) /\ e.on = day
    <3>1. Reason(t) \in Whats /\ t.stamp \in Nat
      BY <1>2 DEF Reason, Whats, TxRecs
    <3> HIDE DEF t, c
    <3> QED  BY <1>2, <1>5, <3>1, EntryType DEF Kinds
  <2>3. row \in RowRecs /\ row.state = "open" /\ Core(row) = Replayed(Core(rows[c]), e)
    <3>1. row = [rows[c] EXCEPT !.state = "open", !.until = None]
      BY <1>4 DEF Updated
    <3> HIDE DEF row, e, t, c
    <3> QED  BY <1>4, <2>2, <3>1, BoundsAreNumbers, LiftedRow
  <2>4. e.what = "date" => After(c)[e.seen].until <= e.on
    <3> SUFFICES ASSUME e.what = "date" PROVE After(c)[e.seen].until <= e.on
      OBVIOUS
    <3>1. t.op = "wake"
      <4>1. Reason(t) = "date"
        BY <2>2
      <4> HIDE DEF e
      <4> QED  BY <4>1 DEF Reason
    <3>2. After(c)[t.seen[c]] = Core(t.saw[c])
      BY <1>1, <1>2, <1>3, <3>1 DEF Reads
    <3>3. t.saw[c].until <= day
      BY <1>6, <3>1
    <3> HIDE DEF e
    <3> QED  BY <2>2, <3>2, <3>3 DEF Core
  <2>5. OpenSince(c, t.seen[c])
    BY <1>2, <1>3, <1>5, <2>1, LastIsRow
  <2> HIDE DEF t, c, row, e, w, v
  <2>6. /\ v \in TxRecs /\ TxHolds(v) /\ Adds(t, v, c, e) /\ Writes(t, v, c, row)
        /\ \A q \in Procs : q # p => Apart(v, tx[q]) /\ Apart(tx[q], v)
    <3>1. t = tx[p] /\ t.at = c /\ t.step # "idle" /\ v = Ended(Writing(p, c, row, e))
      BY <1>1 DEF t, c, w, v
    <3>2. e.seen <= Len(record[c]) /\ OpenSince(c, e.seen) /\ e.kind # "line"
      BY <1>5, <2>2, <2>5
    <3>3. Present(t, c).state = "waiting" /\ row.state # "absent" /\ row.state # "waiting"
          /\ rows[c].state # "absent" /\ Core(row) = Replayed(Core(Present(t, c)), e)
      BY <1>4, <2>1, <2>3
    <3> QED  BY <1>3, <2>1, <2>2, <2>3, <2>4, <3>1, <3>2, <3>3, WritingHolds
  <2>7. Adds(t, w, c, e) /\ Writes(t, w, c, row) /\ w.step = t.step
    BY <1>3, <2>2, <2>3, WritingFacts DEF t, w
  <2>8. w \in TxRecs /\ w.op = t.op /\ w.left = t.left /\ w.saw = t.saw
    BY <2>7 DEF Adds
  <2>9. v.op = w.op /\ v.step = "commit" /\ v.at = w.at /\ v.wrote = w.wrote /\ v.new = w.new
    BY <2>8 DEF v, Ended, TxRecs
  <2>10. CASE t.op = "resume"
    <3>1. Moves(p, v)
      BY <2>1, <2>8, <2>10 DEF AfterLift, v, Ended
    <3> QED  BY <2>6, <3>1, MovesKeepsInv
  <2>11. CASE t.op = "close"
    <3> DEFINE u == [v EXCEPT !.step = "check", !.stamp = Now]
    <3>1. u = [w EXCEPT !.step = "check", !.stamp = Now]
      BY <2>8 DEF v, Ended, TxRecs
    <3>2. Moves(p, u)
      BY <2>1, <2>8, <2>11, <3>1 DEF AfterLift
    <3>3. rows[v.at].state = "waiting"
      BY <2>1, <2>6 DEF Adds, c
    <3> HIDE DEF u
    <3>4. /\ u \in TxRecs /\ TxHolds(u)
          /\ u.op = v.op /\ u.at = v.at /\ u.wrote = v.wrote /\ u.new = v.new
      BY <1>2, <2>6, <2>8, <2>9, <2>11, <3>3, InstantsAreNumbers, CheckHolds DEF u
    <3>5. u.op # "create"
      BY <2>8, <2>9, <2>11, <3>4
    <3>6. \A q \in Procs : q # p => Apart(u, tx[q]) /\ Apart(tx[q], u)
      BY <2>6, <3>4, <3>5, ApartAlike
    <3> QED  BY <3>2, <3>4, <3>6, MovesKeepsInv
  <2>12. CASE t.op \in {"line", "wake"}
    <3>1. Moves(p, Turn(p, w))
      BY <2>1, <2>8, <2>12 DEF AfterLift
    <3>2. \A q \in Procs : q # p => Apart(w, tx[q]) /\ Apart(tx[q], w)
      <4>1. w.op # "create" /\ w.op = v.op /\ w.wrote = v.wrote /\ w.new = v.new
        BY <2>8, <2>9, <2>12
      <4> QED  BY <2>6, <4>1, ApartAlike
    <3>3. w.left = tx[p].left /\ w.op \in {"line", "wake"} /\ TxHolds(Ended(w))
      BY <2>6, <2>8, <2>12 DEF t, v
    <3>4. w.op = "wake" => \A d \in w.left : w.saw[d].until <= day
      BY <1>6, <2>8
    <3> QED  BY <2>8, <3>1, <3>2, <3>3, <3>4, TurnKeepsInv
  <2> QED  BY <1>3, <2>10, <2>11, <2>12
<1>8. CASE ~StillWaiting(p, c)
  <2> DEFINE v == Ended(t)
  <2>1. rows[t.at].state # "waiting"
    BY <1>4, <1>8 DEF StillWaiting
  <2>2. t.step # "idle"
    BY <1>1
  <2> HIDE DEF v
  <2>3. /\ v \in TxRecs /\ TxHolds(v)
        /\ v.op = t.op /\ v.step = "commit" /\ v.at = t.at /\ v.left = t.left
        /\ v.wrote = t.wrote /\ v.new = t.new
    BY <1>2, <2>1, <2>2, EndedHolds DEF v
  <2>4. CASE t.op \in {"wake", "resume"}
    BY <1>1, <1>8, <2>4, RollBackKeepsInv
  <2>5. CASE t.op = "close"
    <3> DEFINE u == [v EXCEPT !.step = "check", !.stamp = Now]
    <3>1. u = [t EXCEPT !.step = "check", !.stamp = Now]
      BY <1>2 DEF v, Ended, TxRecs
    <3>2. Moves(p, u)
      BY <1>1, <1>8, <2>5, <3>1 DEF AfterLift
    <3>3. v.at \notin DOMAIN v.wrote
      BY <1>3, <2>3
    <3> HIDE DEF u
    <3>4. /\ u \in TxRecs /\ TxHolds(u)
          /\ u.op = v.op /\ u.at = v.at /\ u.wrote = v.wrote /\ u.new = v.new
      BY <1>2, <2>3, <2>5, <3>3, InstantsAreNumbers, CheckHolds DEF u
    <3>5. \A q \in Procs : q # p => Apart(u, tx[q]) /\ Apart(tx[q], u)
      BY <1>2, <2>3, <3>4, ApartStays
    <3> QED  BY <3>2, <3>4, <3>5, MovesKeepsInv
  <2>6. CASE t.op = "line"
    <3>1. Moves(p, Turn(p, t))
      BY <1>1, <1>8, <2>6 DEF AfterLift
    <3>2. \A q \in Procs : q # p => Apart(t, tx[q]) /\ Apart(tx[q], t)
      BY <1>2 DEF AllApart
    <3> QED  BY <1>2, <2>3, <2>6, <3>1, <3>2, TurnKeepsInv DEF v
  <2> QED  BY <1>3, <2>4, <2>5, <2>6
<1> QED  BY <1>7, <1>8

LEMMA WriteLineKeepsInv ==
  ASSUME Inv, NEW p \in Procs, WriteLine(p)
  PROVE  Inv'
<1> DEFINE t == tx[p]
           c == t.at
           e == Entry("line", t.seen[c], t.arg, day, t.stamp)
           lined == [t EXCEPT !.new = Adding(t, c, e)]
<1>1. /\ t.step = "line"
      /\ IF View(p, c).state \notin Mutable \/ HasLine(p, c, t.arg) THEN Moves(p, Turn(p, t))
         ELSE IF Wakes(p, c) THEN Moves(p, [lined EXCEPT !.step = "lift"])
              ELSE Moves(p, Turn(p, lined))
  BY GoesMoves DEF WriteLine
<1>2. /\ t \in TxRecs /\ TxHolds(t) /\ Sound(t) /\ Reads(t) /\ Target(t) /\ Pending(t)
      /\ Types /\ RecordHolds /\ AllApart
  BY TxFacts
<1>3. /\ t.op = "line" /\ c \in Cases /\ c \notin DOMAIN t.wrote /\ c \notin DOMAIN t.new
  BY <1>1, <1>2 DEF Sound, StepsOf, TxRecs, Ops
<1>4. View(p, c) = rows[c]
  BY <1>3 DEF View
<1>5. \A q \in Procs : q # p => Apart(t, tx[q]) /\ Apart(tx[q], t)
  BY <1>2 DEF AllApart
<1>6. CASE View(p, c).state \notin Mutable \/ HasLine(p, c, t.arg)
  <2>1. TxHolds(Ended(t))
    BY <1>1, <1>2, EndedHolds
  <2> QED  BY <1>1, <1>2, <1>3, <1>5, <1>6, <2>1, TurnKeepsInv
<1>7. CASE rows[c].state \in Mutable /\ ~HasLine(p, c, t.arg)
  <2>1. t.seen[c] \in Nat /\ t.seen[c] <= Len(record[c]) /\ Len(record[c]) \in Nat
        /\ After(c)[t.seen[c]] = Core(t.saw[c])
    <3>1. DOMAIN t.seen = Cases /\ t.seen \in Partial(Nat)
      BY <1>1, <1>2 DEF Sound, TxRecs
    <3>2. t.seen[c] \in Nat
      BY <1>3, <3>1, PartialDef
    <3> QED  BY <1>1, <1>2, <1>3, <3>2, LastIsRow DEF Reads
  <2>2. /\ e \in Entries /\ e.kind = "line" /\ e.seen = t.seen[c] /\ e.what = t.arg
    <3>1. t.arg \in Whats /\ t.stamp \in Nat
      BY <1>2 DEF TxRecs
    <3> HIDE DEF t, c
    <3> QED  BY <1>2, <2>1, <3>1, EntryType DEF Kinds
  <2>3. \A j \in 1..e.seen : record[c][j].kind = "line" => record[c][j].what # e.what
    <3>1. \A j \in 1..t.seen[c] : j \in DOMAIN record[c]
      <4>1. record[c] \in Seq(Entries)
        BY <1>2, <1>3 DEF Types
      <4> QED  BY <2>1, <4>1
    <3> HIDE DEF e
    <3> QED  BY <1>7, <2>2, <3>1 DEF HasLine
  <2>4. Wakes(p, c) \/ AwakeSince(c, e.seen)
    <3>1. ~Wakes(p, c) => t.saw[c].state # "waiting"
      BY DEF Wakes
    <3>2. t.seen[c] \in t.seen[c]..Len(record[c])
      BY <2>1
    <3> HIDE DEF e
    <3> QED  BY <2>1, <2>2, <3>1, <3>2 DEF AwakeSince, Core
  <2>5. ASSUME NEW u, NEW step \in {"line", "lift", "commit"}, u = [lined EXCEPT !.step = step]
        PROVE  Adds(t, u, c, e) /\ u.wrote = t.wrote /\ u.step = step
    <3> DEFINE new == Adding(t, c, e)
    <3>1. /\ new \in Partial(Seq(Entries)) /\ DOMAIN new = DOMAIN t.new \union {c}
          /\ new[c] = Append(NewOf(t, c), e)
          /\ \A d \in DOMAIN t.new : d # c => new[d] = t.new[d]
      <4> HIDE DEF t, c, e
      <4> QED  BY <1>2, <1>3, <2>2, AddingFacts
    <3>2. lined = [t EXCEPT !.new = new]
      OBVIOUS
    <3> HIDE DEF new, lined
    <3>3. lined \in TxRecs /\ lined.op = t.op /\ lined.at = t.at /\ lined.left = t.left
          /\ lined.arg = t.arg /\ lined.saw = t.saw /\ lined.seen = t.seen
          /\ lined.wrote = t.wrote /\ lined.new = new
      BY <1>2, <3>1, <3>2 DEF TxRecs
    <3>4. u \in TxRecs /\ u.op = t.op /\ u.at = t.at /\ u.left = t.left
          /\ u.arg = t.arg /\ u.saw = t.saw /\ u.seen = t.seen
          /\ u.wrote = t.wrote /\ u.new = new /\ u.step = step
      BY <2>5, <3>3 DEF TxRecs, Steps
    <3> QED  BY <3>1, <3>4 DEF Adds
  <2>6. lined = [lined EXCEPT !.step = "line"]
    BY <1>1, <1>2 DEF TxRecs
  <2>7. Adds(t, lined, c, e) /\ lined.wrote = t.wrote
    BY <2>5, <2>6
  <2>8. t = tx[p] /\ rows[c].state # "absent" /\ t.at = c
    BY <1>7 DEF Mutable
  <2> HIDE DEF t, c, e, lined
  <2>9. CASE Wakes(p, c)
    <3> DEFINE u == [lined EXCEPT !.step = "lift"]
    <3>1. Moves(p, u)
      BY <1>1, <1>4, <1>7, <2>9
    <3>2. Adds(t, u, c, e) /\ u.wrote = t.wrote /\ u.step = "lift"
      BY <2>5
    <3> HIDE DEF u
    <3>3. TxHolds(u)
      BY <1>1, <1>2, <1>3, <1>7, <2>1, <2>2, <2>3, <2>8, <3>2, LinedHolds
    <3>4. \A q \in Procs : q # p => Apart(u, tx[q]) /\ Apart(tx[q], u)
      BY <1>3, <2>8, <3>2, WritesApart
    <3> QED  BY <3>1, <3>2, <3>3, <3>4, MovesKeepsInv DEF Adds
  <2>10. CASE ~Wakes(p, c)
    <3> DEFINE v == Ended(lined)
    <3>1. Moves(p, Turn(p, lined))
      BY <1>1, <1>4, <1>7, <2>10
    <3>2. Adds(t, v, c, e) /\ v.wrote = t.wrote /\ v.step = "commit"
      BY <2>5 DEF Ended
    <3> HIDE DEF v
    <3>3. TxHolds(v)
      BY <1>1, <1>2, <1>3, <1>7, <2>1, <2>2, <2>3, <2>4, <2>8, <2>10, <3>2, LinedHolds
    <3>4. \A q \in Procs : q # p => Apart(lined, tx[q]) /\ Apart(tx[q], lined)
      BY <1>3, <2>7, <2>8, WritesApart
    <3>5. lined \in TxRecs /\ lined.op = "line" /\ lined.left = tx[p].left
      BY <1>3, <2>7, <2>8 DEF Adds
    <3> QED  BY <3>1, <3>3, <3>4, <3>5, TurnKeepsInv DEF v
  <2> QED  BY <2>9, <2>10
<1> QED  BY <1>4, <1>6, <1>7

------------------------------------------------------------------------------
(* A commit: the record grows, and everything known of its earlier part stands. *)

Grown(r, c, s) == r = record[c] \o s

LEMMA GrownRecord ==
  ASSUME Types, RecordHolds, NEW c \in Cases, NEW s \in Seq(Entries), NEW r, Grown(r, c, s)
  PROVE  /\ r \in Seq(Entries) /\ Len(r) = Len(record[c]) + Len(s)
         /\ Len(record[c]) \in Nat /\ Len(s) \in Nat
         /\ \A i \in 1..Len(record[c]) : r[i] = record[c][i]
         /\ \A k \in 1..Len(s) : r[Len(record[c]) + k] = s[k]
         /\ \A i \in 0..Len(record[c]) : Course(Unopened, r)[i] = After(c)[i]
         /\ \A k \in 0..Len(s) :
              Course(Unopened, r)[Len(record[c]) + k] = Course(Core(rows[c]), s)[k]
<1> DEFINE q == record[c]
<1>1. q \in Seq(Entries) /\ After(c) = Course(Unopened, q) /\ After(c)[Len(q)] = Core(rows[c])
  BY DEF Types, RecordHolds, After
<1> HIDE DEF q
<1>2. /\ q \o s \in Seq(Entries) /\ Len(q \o s) = Len(q) + Len(s)
      /\ Len(q) \in Nat /\ Len(s) \in Nat
      /\ \A i \in 1..Len(q) : (q \o s)[i] = q[i]
      /\ \A k \in 1..Len(s) : (q \o s)[Len(q) + k] = s[k]
  BY <1>1, ConcatProperties
<1>3. /\ \A i \in 0..Len(q) : Course(Unopened, q \o s)[i] = Course(Unopened, q)[i]
      /\ \A k \in 0..Len(s) :
           Course(Unopened, q \o s)[Len(q) + k] = Course(Course(Unopened, q)[Len(q)], s)[k]
  BY <1>1, CourseConcat
<1>4. r = q \o s
  BY DEF q, Grown
<1> QED  BY <1>1, <1>2, <1>3, <1>4 DEF q

LEMMA CommitFacts ==
  ASSUME Inv, NEW p \in Procs, Commit(p), NEW c \in Cases
  PROVE  LET s == NewOf(tx[p], c)
             n == Len(record[c])
         IN  /\ rows'[c] = Present(tx[p], c) /\ s \in Seq(Entries)
             /\ record'[c] \in Seq(Entries) /\ Len(record'[c]) = n + Len(s)
             /\ n \in Nat /\ Len(s) \in Nat
             /\ \A i \in 1..n : record'[c][i] = record[c][i]
             /\ \A k \in 1..Len(s) : record'[c][n + k] = s[k]
             /\ \A i \in 0..n : After(c)'[i] = After(c)[i]
             /\ \A k \in 0..Len(s) : After(c)'[n + k] = Course(Core(rows[c]), s)[k]
<1> DEFINE s == NewOf(tx[p], c)
           r == record'[c]
<1>1. /\ tx[p] \in TxRecs /\ Types /\ RecordHolds
  BY TxFacts
<1>2. s \in Seq(Entries)
  BY <1>1, NewOfType
<1>3. rows'[c] = Present(tx[p], c) /\ Grown(r, c, s)
  BY DEF Commit, View, Present, Grown
<1>4. After(c)' = Course(Unopened, r)
  BY DEF After
<1> HIDE DEF s, r
<1>5. /\ r \in Seq(Entries) /\ Len(r) = Len(record[c]) + Len(s)
      /\ Len(record[c]) \in Nat /\ Len(s) \in Nat
      /\ \A i \in 1..Len(record[c]) : r[i] = record[c][i]
      /\ \A k \in 1..Len(s) : r[Len(record[c]) + k] = s[k]
      /\ \A i \in 0..Len(record[c]) : Course(Unopened, r)[i] = After(c)[i]
      /\ \A k \in 0..Len(s) :
           Course(Unopened, r)[Len(record[c]) + k] = Course(Core(rows[c]), s)[k]
  BY <1>1, <1>2, <1>3, GrownRecord
<1> QED  BY <1>2, <1>3, <1>4, <1>5 DEF s, r

\* What was open or awake after an earlier entry was so all along.
LEMMA CommitKeepsSince ==
  ASSUME Inv, NEW p \in Procs, Commit(p), NEW c \in Cases, NEW n \in Nat
  PROVE  /\ OpenSince(c, n) => OpenSince(c, n)'
         /\ AwakeSince(c, n) => AwakeSince(c, n)'
<1>1. \A i \in 0..Len(record[c]) : After(c)'[i] = After(c)[i]
  BY CommitFacts
<1>2. \A m \in n..Len(record[c]) : m \in n..Len(record'[c]) /\ m \in 0..Len(record[c])
  <2> DEFINE a == Len(record[c])
             b == Len(NewOf(tx[p], c))
             l == Len(record'[c])
  <2>1. l = a + b /\ a \in Nat /\ b \in Nat
    BY CommitFacts
  <2> HIDE DEF a, b, l
  <2>2. \A m \in n..a : m \in n..l /\ m \in 0..a
    BY <2>1
  <2> QED  BY <2>2 DEF a, l
<1>3. OpenSince(c, n) => OpenSince(c, n)'
  BY <1>1, <1>2 DEF OpenSince
<1>4. AwakeSince(c, n) => AwakeSince(c, n)'
  BY <1>1, <1>2 DEF AwakeSince
<1> QED  BY <1>3, <1>4

\* An entry of a record r with its course A stands: what RecordHolds says of it.
Stands(r, A, i) ==
  LET e == r[i] IN
    /\ e.seen < i
    /\ \E m \in e.seen..i - 1 : A[m].state # "closed"
    /\ e.kind = "waiting_lifted" =>
         /\ A[i - 1].state = "waiting"
         /\ e.what = "date" => A[e.seen].until <= e.on
    /\ e.kind = "line" =>
         /\ \A j \in 1..e.seen : r[j].kind = "line" => r[j].what # e.what
         /\ \E m \in e.seen..Len(r) : A[m].state # "waiting"

CaseStands(row, r, A) ==
  /\ row.state = "absent" <=> r = <<>>
  /\ Core(row) = A[Len(r)]
  /\ \A i \in DOMAIN r : Stands(r, A, i)

LEMMA RecordStands ==
  RecordHolds <=> \A c \in Cases : CaseStands(rows[c], record[c], After(c))
BY DEF RecordHolds, CaseStands, Stands, AwakeSince

\* A record r with course B continues a record q with course A.
Continues(q, A, r, B) ==
  /\ Len(q) \in Nat /\ Len(r) \in Nat /\ Len(q) <= Len(r)
  /\ \A j \in 1..Len(q) : r[j] = q[j]
  /\ \A j \in 0..Len(q) : B[j] = A[j]

LEMMA OldEntryStands ==
  ASSUME NEW q, NEW A, NEW r, NEW B, Continues(q, A, r, B),
         NEW i \in 1..Len(q), q[i].seen \in Nat, Stands(q, A, i)
  PROVE  Stands(r, B, i)
<1> DEFINE e == q[i]
           a == Len(q)
           b == Len(r)
<1>1. a \in Nat /\ b \in Nat /\ a <= b /\ i \in 1..a /\ e.seen \in Nat
  BY DEF Continues
<1>2. e.seen < i
  BY DEF Stands
<1>3. e = r[i]
  BY DEF Continues
<1> HIDE DEF e, a, b
<1>4. e.seen \in 0..a /\ i - 1 \in 0..a /\ \A j \in 1..e.seen : j \in 1..a
  BY <1>1, <1>2
<1>5. /\ \A m \in e.seen..i - 1 : m \in 0..a
      /\ \A m \in e.seen..a : m \in 0..a /\ m \in e.seen..b
  BY <1>1, <1>4
<1>6. (\A j \in 1..a : r[j] = q[j]) /\ \A j \in 0..a : B[j] = A[j]
  BY DEF Continues, a
<1>7. /\ \E m \in e.seen..i - 1 : A[m].state # "closed"
      /\ e.kind = "waiting_lifted" =>
           /\ A[i - 1].state = "waiting"
           /\ e.what = "date" => A[e.seen].until <= e.on
      /\ e.kind = "line" =>
           /\ \A j \in 1..e.seen : q[j].kind = "line" => q[j].what # e.what
           /\ \E m \in e.seen..a : A[m].state # "waiting"
  BY DEF Stands, e, a
<1>8. \E m \in e.seen..i - 1 : B[m].state # "closed"
  BY <1>5, <1>6, <1>7
<1>9. e.kind = "waiting_lifted" =>
        /\ B[i - 1].state = "waiting"
        /\ e.what = "date" => B[e.seen].until <= e.on
  BY <1>4, <1>6, <1>7
<1>10. e.kind = "line" =>
         /\ \A j \in 1..e.seen : r[j].kind = "line" => r[j].what # e.what
         /\ \E m \in e.seen..b : B[m].state # "waiting"
  BY <1>4, <1>5, <1>6, <1>7
<1> QED  BY <1>2, <1>3, <1>8, <1>9, <1>10 DEF Stands, b

\* The k-th of the entries added after q, where before is the case just before it and the
\* case ends as last.
LEMMA NewEntryStands ==
  ASSUME NEW q, NEW A, NEW r, NEW B, Continues(q, A, r, B),
         NEW k \in Nat \ {0}, Len(q) + k <= Len(r), NEW e, e = r[Len(q) + k],
         NEW before, before = B[Len(q) + (k - 1)], NEW last, last = B[Len(r)],
         e.seen \in Nat, e.seen <= Len(q),
         \E m \in e.seen..Len(q) : A[m].state # "closed",
         e.kind = "waiting_lifted" =>
           before.state = "waiting" /\ (e.what = "date" => A[e.seen].until <= e.on),
         e.kind = "line" =>
           /\ \A j \in 1..e.seen : q[j].kind = "line" => q[j].what # e.what
           /\ (\E m \in e.seen..Len(q) : A[m].state # "waiting") \/ last.state # "waiting"
  PROVE  Stands(r, B, Len(q) + k)
<1> DEFINE a == Len(q)
           b == Len(r)
           i == a + k
<1>1. /\ a \in Nat /\ b \in Nat /\ a <= b /\ i <= b
      /\ \A j \in 1..a : r[j] = q[j]
      /\ \A j \in 0..a : B[j] = A[j]
      /\ r[i] = e /\ before = B[a + (k - 1)] /\ last = B[b] /\ e.seen <= a
      /\ \E m \in e.seen..a : A[m].state # "closed"
      /\ e.kind = "line" =>
           /\ \A j \in 1..e.seen : q[j].kind = "line" => q[j].what # e.what
           /\ (\E m \in e.seen..a : A[m].state # "waiting") \/ last.state # "waiting"
  BY DEF Continues
<1>2. i = a + k
  OBVIOUS
<1> HIDE DEF a, b, i
<1>3. /\ a + (k - 1) = i - 1 /\ e.seen < i /\ e.seen \in 0..a /\ b \in e.seen..b
      /\ \A m \in e.seen..a : m \in 0..a /\ m \in e.seen..i - 1 /\ m \in e.seen..b
      /\ \A j \in 1..e.seen : j \in 1..a
  BY <1>1, <1>2
<1>4. \E m \in e.seen..i - 1 : B[m].state # "closed"
  BY <1>1, <1>3
<1>5. e.kind = "waiting_lifted" =>
        /\ B[i - 1].state = "waiting"
        /\ e.what = "date" => B[e.seen].until <= e.on
  BY <1>1, <1>3
<1>6. e.kind = "line" =>
         /\ \A j \in 1..e.seen : r[j].kind = "line" => r[j].what # e.what
         /\ \E m \in e.seen..b : B[m].state # "waiting"
  BY <1>1, <1>3
<1>7. Stands(r, B, i)
  BY <1>1, <1>3, <1>4, <1>5, <1>6 DEF Stands, b
<1> QED  BY <1>2, <1>7 DEF a, i

LEMMA CommitContinues ==
  ASSUME Inv, NEW p \in Procs, Commit(p), NEW c \in Cases
  PROVE  Continues(record[c], After(c), record'[c], After(c)')
<1> DEFINE a == Len(record[c])
           b == Len(record'[c])
           l == Len(NewOf(tx[p], c))
<1>1. b = a + l /\ a \in Nat /\ l \in Nat
  BY CommitFacts
<1> HIDE DEF a, b, l
<1>2. b \in Nat /\ a <= b
  BY <1>1
<1>3. /\ \A i \in 1..Len(record[c]) : record'[c][i] = record[c][i]
      /\ \A i \in 0..Len(record[c]) : After(c)'[i] = After(c)[i]
  BY CommitFacts
<1> QED  BY <1>1, <1>2, <1>3 DEF Continues, a, b

LEMMA CaseCommits ==
  ASSUME Inv, NEW p \in Procs, Commit(p), NEW c \in Cases,
         NEW row, row = rows'[c], NEW r, r = record'[c], NEW B, B = After(c)'
  PROVE  CaseStands(row, r, B)
<1> DEFINE t == tx[p]
           q == record[c]
           A == After(c)
           s == NewOf(t, c)
<1>1. /\ t \in TxRecs /\ Types /\ RecordHolds /\ Sound(t) /\ Pending(t)
      /\ t.step = "commit"
  BY TxFacts DEF Commit
<1>2. /\ row = Present(t, c) /\ s \in Seq(Entries) /\ r \in Seq(Entries) /\ q \in Seq(Entries)
      /\ Len(r) = Len(q) + Len(s) /\ Len(q) \in Nat /\ Len(s) \in Nat
      /\ \A k \in 1..Len(s) : r[Len(q) + k] = s[k]
      /\ \A k \in 0..Len(s) : B[Len(q) + k] = Course(Core(rows[c]), s)[k]
  <2>1. q \in Seq(Entries)
    BY <1>1 DEF Types
  <2> QED  BY <2>1, CommitFacts
<1>3. Continues(q, A, r, B)
  BY CommitContinues
<1>4. CaseStands(rows[c], q, A)
  BY <1>1, RecordStands
<1>5. Course(Core(rows[c]), s)[Len(s)] = Core(Present(t, c))
  BY <1>1, NewCourse DEF Sound
<1>6. B[Len(r)] = Core(row)
  <2>1. Len(s) \in 0..Len(s)
    BY <1>2
  <2> HIDE DEF t, q, s
  <2> QED  BY <1>2, <1>5, <2>1
<1>7. row.state = "absent" <=> r = <<>>
  <2>1. CASE c \in DOMAIN t.new
    <3>1. s # <<>> /\ row.state # "absent"
      BY <1>1, <1>2, <2>1 DEF Pending, NewOf
    <3>2. Len(s) # 0
      BY <1>2, <3>1, EmptySeq
    <3> HIDE DEF q, s
    <3>3. Len(r) # 0
      BY <1>2, <3>2
    <3>4. r # <<>>
      BY <3>3, EmptySeq
    <3> QED  BY <3>1, <3>4
  <2>2. CASE c \notin DOMAIN t.new
    <3>1. c \notin DOMAIN t.wrote /\ s = <<>>
      BY <1>1, <2>2 DEF Sound, NewOf
    <3>2. row = rows[c] /\ Len(s) = 0
      BY <1>2, <3>1, EmptySeq DEF Present
    <3>3. row.state = "absent" <=> q = <<>>
      BY <1>4, <3>2 DEF CaseStands
    <3> HIDE DEF q, s
    <3>4. Len(r) = Len(q)
      BY <1>2, <3>2
    <3>5. r = <<>> <=> q = <<>>
      BY <1>2, <3>4, EmptySeq
    <3> QED  BY <3>3, <3>5
  <2> QED  BY <2>1, <2>2
<1>8. ASSUME NEW i \in 1..Len(q)
      PROVE  Stands(r, B, i)
  <2>1. i \in DOMAIN q /\ q[i] \in Entries
    BY <1>2
  <2>2. Stands(q, A, i) /\ q[i].seen \in Nat
    BY <1>4, <2>1 DEF CaseStands, Entries
  <2> HIDE DEF q, A
  <2> QED  BY <1>3, <2>2, OldEntryStands
<1>9. ASSUME NEW k \in 1..Len(s)
      PROVE  Stands(r, B, Len(q) + k)
  <2> DEFINE e == s[k]
             before == Course(Core(rows[c]), s)[k - 1]
             last == Core(Present(t, c))
  <2>1. c \in DOMAIN t.new /\ s = t.new[c]
    <3>1. s # <<>>
      BY <1>9, <1>2, EmptySeq
    <3> QED  BY <3>1 DEF NewOf
  <2>2. k \in DOMAIN t.new[c] /\ e \in Entries
    BY <1>2, <1>9, <2>1
  <2>3. EntryHolds(t, c, k)
    BY <1>1, <2>1, <2>2 DEF Pending
  <2>4. e.seen \in Nat /\ e.seen <= Len(q) /\ OpenSince(c, e.seen)
    BY <2>1, <2>2, <2>3 DEF EntryHolds, Entries
  <2>5. e.kind = "waiting_lifted" =>
          before.state = "waiting" /\ (e.what = "date" => A[e.seen].until <= e.on)
    BY <2>1, <2>3 DEF EntryHolds
  <2>6. e.kind = "line" =>
          /\ \A j \in 1..e.seen : q[j].kind = "line" => q[j].what # e.what
          /\ AwakeSince(c, e.seen) \/ last.state # "waiting"
    BY <1>1, <2>1, <2>3 DEF EntryHolds, Present, Core
  <2>7. /\ k \in Nat \ {0} /\ Len(q) + k <= Len(r) /\ e = r[Len(q) + k]
        /\ before = B[Len(q) + (k - 1)] /\ last = B[Len(r)]
    <3>1. k \in Nat \ {0} /\ k - 1 \in 0..Len(s) /\ Len(q) + k <= Len(r)
      <4> HIDE DEF q, s
      <4> QED  BY <1>2, <1>9
    <3> QED  BY <1>2, <1>6, <1>9, <3>1
  <2>8. \E m \in e.seen..Len(q) : A[m].state # "closed"
    BY <2>4 DEF OpenSince
  <2>9. e.kind = "line" =>
          /\ \A j \in 1..e.seen : q[j].kind = "line" => q[j].what # e.what
          /\ (\E m \in e.seen..Len(q) : A[m].state # "waiting") \/ last.state # "waiting"
    BY <2>6 DEF AwakeSince
  <2> HIDE DEF t, q, A, s, e, before, last
  <2> QED  BY <1>3, <2>4, <2>5, <2>7, <2>8, <2>9, NewEntryStands
<1>10. ASSUME NEW i \in DOMAIN r
       PROVE  Stands(r, B, i)
  <2> HIDE DEF t, q, A, s
  <2>1. i \in 1..Len(r)
    <3>1. r \in Seq(Entries)
      BY <1>2
    <3> QED  BY <1>10, <3>1, LenProperties
  <2>2. i \in 1..Len(q) \/ (i - Len(q) \in 1..Len(s) /\ i = Len(q) + (i - Len(q)))
    BY <1>2, <2>1
  <2> QED  BY <1>8, <1>9, <2>2
<1> QED  BY <1>6, <1>7, <1>10 DEF CaseStands

LEMMA CommitKeepsRecord ==
  ASSUME Inv, NEW p \in Procs, Commit(p)
  PROVE  RecordHolds'
<1>1. ASSUME NEW c \in Cases PROVE CaseStands(rows'[c], record'[c], After(c)')
  BY CaseCommits
<1> QED  BY <1>1 DEF RecordHolds, CaseStands, Stands, AwakeSince

LEMMA CommitKeepsTypes ==
  ASSUME Inv, NEW p \in Procs, Commit(p)
  PROVE  Types'
<1>1. /\ tx[p] \in TxRecs /\ Types
  BY TxFacts
<1>2. ASSUME NEW c \in Cases PROVE rows'[c] \in RowRecs /\ record'[c] \in Seq(Entries)
  <2>1. Present(tx[p], c) \in RowRecs
    BY <1>1, PresentType
  <2> QED  BY <2>1, CommitFacts
<1>3. rows' \in [Cases -> RowRecs] /\ record' \in [Cases -> Seq(Entries)]
  <2>1. rows' = [c \in Cases |-> rows'[c]] /\ record' = [c \in Cases |-> record'[c]]
    BY DEF Commit
  <2> QED  BY <1>2, <2>1
<1>4. tx' \in [Procs -> TxRecs]
  BY <1>1, NoTxHolds DEF Commit, Types
<1> QED  BY <1>1, <1>3, <1>4 DEF Types, Commit

\* What the other transactions rest on stands, though the rows they have not written may change.
LEMMA CommitElsewhere ==
  ASSUME Inv, NEW p \in Procs, Commit(p), NEW q \in Procs, q # p, NEW u, u = tx[q], NEW c \in Cases
  PROVE  /\ rows[c].state # "absent" => rows'[c].state # "absent"
         /\ c \in DOMAIN u.wrote \/ (u.op = "create" /\ c = u.at) => rows'[c] = rows[c]
         /\ rows'[c] \in RowRecs
<1> DEFINE t == tx[p]
<1>1. t \in TxRecs /\ Sound(t) /\ Pending(t) /\ Types
  BY TxFacts
<1>2. Apart(t, u) /\ Apart(u, t)
  BY TxFacts DEF AllApart
<1>3. rows'[c] = Present(t, c)
  BY CommitFacts
<1>4. Present(t, c) \in RowRecs
  BY <1>1, PresentType
<1>5. c \in DOMAIN t.wrote => c \in DOMAIN t.new /\ rows'[c].state # "absent"
  BY <1>1, <1>3 DEF Sound, Pending
<1>6. c \notin DOMAIN t.wrote => rows'[c] = rows[c]
  BY <1>3 DEF Present
<1>7. c \in DOMAIN u.wrote \/ (u.op = "create" /\ c = u.at) => c \notin DOMAIN t.wrote
  BY <1>2, <1>5 DEF Apart
<1> QED  BY <1>3, <1>4, <1>5, <1>6, <1>7

LEMMA OtherEntryStands ==
  ASSUME Inv, NEW p \in Procs, Commit(p), NEW q \in Procs, q # p, NEW u, u = tx[q],
         NEW c \in DOMAIN u.new, NEW k \in DOMAIN u.new[c]
  PROVE  EntryHolds(u, c, k)'
<1>1. PICK e : e = u.new[c][k]
  OBVIOUS
<1>2. u \in TxRecs /\ Pending(u)
  BY TxFacts
<1>3. EntryHolds(u, c, k)
  BY <1>2 DEF Pending
<1>4. c \in Cases /\ e.seen \in Nat
  <2>1. u.new \in Partial(Seq(Entries))
    BY <1>2 DEF TxRecs
  <2>2. c \in Cases /\ u.new[c] \in Seq(Entries)
    BY <2>1, PartialDef
  <2>3. e \in Entries
    BY <1>1, <2>2
  <2> QED  BY <2>2, <2>3 DEF Entries
<1>5. Continues(record[c], After(c), record'[c], After(c)')
  BY <1>4, CommitContinues
<1>6. e.seen <= Len(record[c])
  BY <1>1, <1>3 DEF EntryHolds
<1>7. /\ e.seen <= Len(record'[c]) /\ After(c)'[e.seen] = After(c)[e.seen]
      /\ \A j \in 1..e.seen : record'[c][j] = record[c][j]
  <2> DEFINE a == Len(record[c])
             b == Len(record'[c])
  <2>1. a \in Nat /\ b \in Nat /\ a <= b /\ e.seen <= a
    BY <1>5, <1>6 DEF Continues
  <2> HIDE DEF a, b
  <2>2. e.seen <= b /\ e.seen \in 0..a /\ \A j \in 1..e.seen : j \in 1..a
    BY <1>4, <2>1
  <2> QED  BY <1>5, <2>2 DEF a, b, Continues
<1>8. /\ OpenSince(c, e.seen)'
      /\ AwakeSince(c, e.seen) => AwakeSince(c, e.seen)'
  <2>1. OpenSince(c, e.seen)
    BY <1>1, <1>3 DEF EntryHolds
  <2> QED  BY <1>4, <2>1, CommitKeepsSince
<1>9. c \in DOMAIN u.wrote => rows'[c] = rows[c]
  BY <1>4, CommitElsewhere
<1>10. c \notin DOMAIN u.wrote => e.kind = "line"
  BY <1>1, <1>3 DEF EntryHolds
<1>11. e.kind = "waiting_lifted" =>
         /\ Course(Core(rows'[c]), u.new[c])[k - 1].state = "waiting"
         /\ e.what = "date" => After(c)'[e.seen].until <= e.on
  <2>1. ASSUME e.kind = "waiting_lifted"
        PROVE  /\ Course(Core(rows[c]), u.new[c])[k - 1].state = "waiting"
               /\ e.what = "date" => After(c)[e.seen].until <= e.on
    BY <1>1, <1>3, <2>1 DEF EntryHolds
  <2>2. e.kind = "waiting_lifted" => rows'[c] = rows[c]
    BY <1>9, <1>10
  <2> QED  BY <1>7, <2>1, <2>2
<1>12. e.kind = "line" =>
         /\ \A j \in 1..e.seen : record'[c][j].kind = "line" => record'[c][j].what # e.what
         /\ \/ AwakeSince(c, e.seen)'
            \/ c \in DOMAIN u.wrote /\ u.wrote[c].state # "waiting"
            \/ u.step = "lift" /\ u.at = c
  BY <1>1, <1>3, <1>7, <1>8 DEF EntryHolds
<1> QED  BY <1>1, <1>7, <1>8, <1>10, <1>11, <1>12 DEF EntryHolds, OpenSince, AwakeSince, Core

LEMMA OtherPendingStands ==
  ASSUME Inv, NEW p \in Procs, Commit(p), NEW q \in Procs, q # p, NEW u, u = tx[q]
  PROVE  Pending(u)'
<1>1. u \in TxRecs /\ Pending(u) /\ Types
  BY TxFacts
<1> SUFFICES ASSUME NEW c \in DOMAIN u.new
             PROVE  /\ u.new[c] # <<>> /\ Present(u, c)'.state # "absent"
                    /\ u.op # "create" => rows'[c].state # "absent"
                    /\ Course(Core(rows'[c]), u.new[c])[Len(u.new[c])] = Core(Present(u, c)')
                    /\ \A k \in DOMAIN u.new[c] : EntryHolds(u, c, k)'
  BY DEF Pending, Core
<1>2. c \in Cases /\ u.new[c] \in Seq(Entries)
  BY <1>1, PartialDef DEF TxRecs
<1>3. /\ u.new[c] # <<>> /\ Present(u, c).state # "absent"
      /\ u.op # "create" => rows[c].state # "absent"
      /\ Course(Core(rows[c]), u.new[c])[Len(u.new[c])] = Core(Present(u, c))
      /\ \A k \in DOMAIN u.new[c] : EntryHolds(u, c, k)
  BY <1>1 DEF Pending
<1>4. /\ rows[c].state # "absent" => rows'[c].state # "absent"
      /\ c \in DOMAIN u.wrote => rows'[c] = rows[c]
      /\ rows'[c] \in RowRecs
  BY <1>2, CommitElsewhere
<1>5. ASSUME NEW k \in DOMAIN u.new[c] PROVE EntryHolds(u, c, k)'
  BY OtherEntryStands
<1>6. CASE c \in DOMAIN u.wrote
  <2>1. Present(u, c)' = u.wrote[c] /\ Present(u, c) = u.wrote[c]
    BY <1>6 DEF Present
  <2> QED  BY <1>3, <1>4, <1>5, <1>6, <2>1
<1>7. CASE c \notin DOMAIN u.wrote
  <2>1. Present(u, c)' = rows'[c] /\ Present(u, c) = rows[c]
    BY <1>7 DEF Present
  <2>2. \A k \in 1..Len(u.new[c]) : u.new[c][k].kind = "line"
    <3>1. ASSUME NEW k \in 1..Len(u.new[c]) PROVE u.new[c][k].kind = "line"
      <4>1. k \in DOMAIN u.new[c]
        BY <1>2
      <4> QED  BY <1>3, <1>7, <4>1 DEF EntryHolds
    <3> QED  BY <3>1
  <2>3. Course(Core(rows'[c]), u.new[c])[Len(u.new[c])] = Core(rows'[c])
    <3>1. Core(rows'[c]) \in Cores
      BY <1>4, CoreType
    <3>2. \A i \in 0..Len(u.new[c]) : Course(Core(rows'[c]), u.new[c])[i] = Core(rows'[c])
      BY <1>2, <2>2, <3>1, LinesChangeNothing, BoundsAreNumbers
    <3>3. Len(u.new[c]) \in 0..Len(u.new[c])
      BY <1>2
    <3> QED  BY <3>2, <3>3
  <2> QED  BY <1>3, <1>4, <1>5, <2>1, <2>3
<1> QED  BY <1>6, <1>7

LEMMA OtherStands ==
  ASSUME Inv, NEW p \in Procs, Commit(p), NEW q \in Procs, q # p, NEW u, u = tx[q]
  PROVE  TxHolds(u)'
<1>1. u \in TxRecs /\ Sound(u) /\ Reads(u) /\ Target(u) /\ day' = day
  BY TxFacts DEF Commit
<1>2. Sound(u)'
  BY <1>1 DEF Sound
<1>3. ASSUME u.step # "idle", NEW c \in Cases
      PROVE  /\ u.seen[c] \in Nat /\ u.seen[c] <= Len(record'[c])
             /\ After(c)'[u.seen[c]] = After(c)[u.seen[c]]
  <2>1. u.seen[c] <= Len(record[c])
    BY <1>1, <1>3 DEF Reads
  <2>2. u.seen[c] \in Nat
    <3>1. DOMAIN u.seen = Cases /\ u.seen \in Partial(Nat)
      BY <1>1, <1>3 DEF Sound, TxRecs
    <3> QED  BY <3>1, PartialDef
  <2>3. Continues(record[c], After(c), record'[c], After(c)')
    BY CommitContinues
  <2> DEFINE a == Len(record[c])
             b == Len(record'[c])
             n == u.seen[c]
  <2>4. a \in Nat /\ b \in Nat /\ a <= b /\ n <= a /\ n \in Nat
    BY <2>1, <2>2, <2>3 DEF Continues
  <2>5. \A i \in 0..a : After(c)'[i] = After(c)[i]
    BY <2>3 DEF Continues
  <2> HIDE DEF a, b, n
  <2>6. n <= b /\ n \in 0..a
    BY <2>4
  <2>7. After(c)'[n] = After(c)[n]
    BY <2>5, <2>6
  <2> QED  BY <2>2, <2>6, <2>7 DEF b, n
<1>4. Reads(u)'
  BY <1>1, <1>3 DEF Reads, Core
<1>5. Target(u)'
  <2>1. u.op \in {"wait", "hand_over", "close"} => u.at \in Cases /\ rows'[u.at].state # "absent"
    BY <1>1, CommitElsewhere DEF Target
  <2>2. u.step = "write" => OpenSince(u.at, u.seen[u.at])'
    <3>1. ASSUME u.step = "write" PROVE OpenSince(u.at, u.seen[u.at])'
      <4>1. u.at \in Cases /\ OpenSince(u.at, u.seen[u.at])
        BY <1>1, <3>1 DEF Sound, Target
      <4>2. u.seen[u.at] \in Nat
        BY <1>3, <3>1, <4>1
      <4>3. PICK c, n : c = u.at /\ n = u.seen[u.at]
        OBVIOUS
      <4>4. c \in Cases /\ n \in Nat /\ OpenSince(c, n)
        BY <4>1, <4>2, <4>3
      <4>5. OpenSince(c, n)'
        BY <4>4, CommitKeepsSince
      <4> QED  BY <4>3, <4>5 DEF OpenSince
    <3> QED  BY <3>1
  <2>3. u.op = "close" /\ u.step \in {"check", "write"} /\ u.at \in DOMAIN u.wrote =>
          rows'[u.at].state = "waiting"
    BY <1>1, CommitElsewhere DEF Target
  <2>4. u.op = "create" => rows'[u.at].state = "absent"
    BY <1>1, CommitElsewhere DEF Target, Sound
  <2> QED  BY <2>1, <2>2, <2>3, <2>4 DEF Target, OpenSince
<1>6. Pending(u)'
  BY OtherPendingStands
<1> QED  BY <1>2, <1>4, <1>5, <1>6 DEF TxHolds

LEMMA CommitKeepsInv ==
  ASSUME Inv, NEW p \in Procs, Commit(p)
  PROVE  Inv'
<1>1. Types'
  BY CommitKeepsTypes
<1>2. \A q \in Procs : tx'[q] = IF q = p THEN NoTx ELSE tx[q]
  BY DEF Commit, Inv, Types
<1>3. AllHold'
  <2> SUFFICES ASSUME NEW q \in Procs PROVE TxHolds(tx[q])'
    BY DEF AllHold
  <2>1. PICK v : v = tx'[q]
    OBVIOUS
  <2>2. TxHolds(v)'
    <3>1. CASE q = p
      <4>1. v = NoTx
        BY <1>2, <2>1, <3>1
      <4>2. /\ v.op = "none" /\ v.step = "idle" /\ v.left = {}
            /\ DOMAIN v.wrote = {} /\ DOMAIN v.new = {} /\ v.new = <<>>
        BY <4>1, EmptyPartial DEF NoTx
      <4>3. Sound(v)' /\ Reads(v)' /\ Target(v)' /\ Pending(v)'
        BY <4>2 DEF Sound, StepsOf, Reads, Target, Pending
      <4> QED  BY <4>3 DEF TxHolds
    <3>2. CASE q # p
      <4>1. v = tx[q]
        BY <1>2, <2>1, <3>2
      <4> QED  BY <3>2, <4>1, OtherStands
    <3> QED  BY <3>1, <3>2
  <2>3. Sound(v)' /\ Reads(v)' /\ Target(v)' /\ Pending(v)'
    BY <2>2 DEF TxHolds
  <2>4. Sound(tx[q])'
    BY <2>1, <2>3 DEF Sound
  <2>5. Reads(tx[q])'
    BY <2>1, <2>3 DEF Reads, After
  <2>6. Target(tx[q])'
    BY <2>1, <2>3 DEF Target, OpenSince, After
  <2>7. Pending(tx[q])'
    BY <2>1, <2>3 DEF Pending, Present, EntryHolds, OpenSince, AwakeSince, After
  <2> QED  BY <2>4, <2>5, <2>6, <2>7 DEF TxHolds
<1>4. AllApart'
  <2>1. DOMAIN NoTx.wrote = {} /\ DOMAIN NoTx.new = {} /\ NoTx.op = "none"
    BY EmptyPartial DEF NoTx
  <2>2. ASSUME NEW a \in Procs, NEW b \in Procs, a # b
        PROVE  Apart(tx'[a], tx'[b])
    BY <1>2, <2>1, <2>2 DEF Inv, AllApart, Apart
  <2> QED  BY <2>2 DEF AllApart, Apart
<1> QED  BY <1>1, <1>3, <1>4, CommitKeepsRecord DEF Inv

\* The date passes: a lift that was due remains due.
LEMMA TimePassesKeepsInv ==
  ASSUME Inv, TimePasses
  PROVE  Inv'
<1>1. rows' = rows /\ record' = record /\ tx' = tx /\ requests' = requests /\ faults' = faults
      /\ day' = day + 1 /\ day < MaxDay /\ clock' = clock
  BY DEF TimePasses
<1>2. Types'
  <2>1. day' \in 1..MaxDay
    BY <1>1, BoundsAreNumbers DEF Inv, Types
  <2> QED  BY <1>1, <2>1 DEF Inv, Types
<1>3. RecordHolds' /\ AllApart'
  BY <1>1 DEF Inv, RecordHolds, AllApart, After, AwakeSince, Apart
<1>4. ASSUME NEW q \in Procs
      PROVE  Sound(tx[q])' /\ Reads(tx[q])' /\ Target(tx[q])' /\ Pending(tx[q])'
  <2>1. PICK v : v = tx'[q]
    OBVIOUS
  <2>2. v \in TxRecs /\ Sound(v) /\ Reads(v) /\ Target(v) /\ Pending(v)
    BY <1>1, <2>1, TxFacts
  <2>3. Sound(tx[q])'
    BY <2>1, <2>2 DEF Sound
  <2>4. Reads(tx[q])'
    <3>1. ASSUME v.step # "idle", NEW c \in Cases
          PROVE  v.saw[c].until \in Nat
      <4>1. DOMAIN v.saw = Cases /\ v.saw \in Partial(RowRecs)
        BY <2>2, <3>1 DEF Sound, TxRecs
      <4>2. v.saw[c] \in RowRecs
        BY <4>1, PartialDef
      <4> QED  BY <4>2, BoundsAreNumbers DEF RowRecs
    <3>2. day \in Nat
      BY DEF Inv, Types
    <3>3. \A n \in Nat : n <= day => n <= day'
      BY <1>1, <3>2
    <3>4. v.op = "wake" /\ v.step = "read" => v.arg \in Nat
      BY <2>2, BoundsAreNumbers DEF Sound
    <3> QED  BY <1>1, <2>1, <2>2, <3>1, <3>3, <3>4 DEF Reads, After
  <2>5. Target(tx[q])'
    BY <1>1, <2>1, <2>2 DEF Target, OpenSince, After
  <2>6. Pending(tx[q])'
    BY <1>1, <2>1, <2>2 DEF Pending, Present, EntryHolds, OpenSince, AwakeSince, After
  <2> QED  BY <2>3, <2>4, <2>5, <2>6
<1>5. AllHold'
  BY <1>4 DEF AllHold, TxHolds
<1> QED  BY <1>2, <1>3, <1>5 DEF Inv

LEMMA StutterKeepsInv ==
  ASSUME Inv, UNCHANGED vars
  PROVE  Inv'
<1>1. ASSUME NEW p \in Procs PROVE Inv'
  <2>1. Goes(p, tx[p])
    BY DEF vars, Goes, Inv, Types
  <2> QED  BY <2>1, TxFacts, GoesKeepsInv DEF AllApart
<1>2. Tick \in Procs
  BY DEF Procs
<1> QED  BY <1>1, <1>2

LEMMA NextKeepsInv ==
  ASSUME Inv, [Next]_vars
  PROVE  Inv'
<1>1. ASSUME NEW w \in Workers, Start(w) PROVE Inv'
  BY <1>1, StartKeepsInv
<1>2. ASSUME NEW p \in Procs, Advance(p) PROVE Inv'
  <2>1. ASSUME BreakDeadlock(p) PROVE Inv'
    BY <2>1, RollBackKeepsInv DEF BreakDeadlock
  <2> QED  BY <1>2, <2>1, TakeNumberKeepsInv, InsertCaseKeepsInv, FindCasesKeepsInv, CheckKeepsInv,
              WriteKeepsInv, LiftKeepsInv, WriteLineKeepsInv, CommitKeepsInv DEF Advance
<1>3. ASSUME NEW p \in Procs, Fail(p) PROVE Inv'
  BY <1>3, FailKeepsInv
<1> QED  BY <1>1, <1>2, <1>3, WakeKeepsInv, TimePassesKeepsInv, StutterKeepsInv DEF Next

------------------------------------------------------------------------------
(* The cases the model begins with. *)

FirstRow(start, c) ==
  IF start[c] = -1 THEN Absent ELSE
    [state |-> IF start[c] = None THEN "open" ELSE "waiting", until |-> start[c], owner |-> Opener,
     number |-> Cardinality({d \in Cases : start[d] # -1 /\ d <= c})]

FirstRecord(start, c) ==
  CASE start[c] = -1 -> <<>>
    [] start[c] = None -> <<Entry("opened", 0, Opener, 0, 0)>>
    [] start[c] > None -> <<Entry("opened", 0, Opener, 0, 0), Entry("waiting_set", 1, start[c], 0, 1)>>

\* A record that stands and takes a case to core.
LeadsTo(s, core) ==
  /\ s \in Seq(Entries) /\ s # <<>>
  /\ Course(Unopened, s)[Len(s)] = core
  /\ \A i \in DOMAIN s : Stands(s, Course(Unopened, s), i)

LEMMA FirstEntries ==
  ASSUME NEW until \in 1..MaxDay
  PROVE  /\ LeadsTo(<<Entry("opened", 0, Opener, 0, 0)>>,
                    [state |-> "open", until |-> None, owner |-> Opener])
         /\ LeadsTo(<<Entry("opened", 0, Opener, 0, 0), Entry("waiting_set", 1, until, 0, 1)>>,
                    [state |-> "waiting", until |-> until, owner |-> Opener])
<1> DEFINE first == Entry("opened", 0, Opener, 0, 0)
           second == Entry("waiting_set", 1, until, 0, 1)
           open == [state |-> "open", until |-> None, owner |-> Opener]
           waits == [state |-> "waiting", until |-> until, owner |-> Opener]
<1>1. Opener \in Users /\ 0 \in 0..MaxDay /\ until \in Whats /\ Opener \in Whats
  BY StartsAreDays, BoundsAreNumbers DEF Whats
<1>2. first \in Entries /\ second \in Entries
  BY <1>1 DEF Entries, Entry, Kinds
<1>3. /\ Replayed(Unopened, first) = open /\ Replayed(open, second) = waits
      /\ first.seen = 0 /\ first.kind = "opened"
      /\ second.seen = 1 /\ second.kind = "waiting_set"
      /\ Unopened.state # "closed" /\ open.state # "closed"
  BY DEF Replayed, Entry, Unopened
<1> HIDE DEF first, second, open, waits
<1>4. ASSUME NEW s, NEW i \in 1..2, s \in Seq(Entries), s # <<>>, DOMAIN s = 1..i, Len(s) = i,
             s[1] = first, i = 2 => s[2] = second
      PROVE  LeadsTo(s, IF i = 1 THEN open ELSE waits)
  <2> DEFINE A == Course(Unopened, s)
  <2>1. /\ A[0] = Unopened
        /\ \A k \in 1..i : A[k] = Replayed(A[k - 1], s[k])
    BY <1>4, CourseDef
  <2> HIDE DEF A
  <2>2. A[1] = open
    <3>1. A[1] = Replayed(A[1 - 1], s[1]) /\ 1 - 1 = 0
      BY <2>1
    <3> QED  BY <1>3, <1>4, <2>1, <3>1
  <2>3. i = 2 => A[2] = waits
    <3>1. i = 2 => A[2] = Replayed(A[2 - 1], s[2])
      BY <2>1
    <3>2. 2 - 1 = 1
      OBVIOUS
    <3> QED  BY <1>3, <1>4, <2>2, <3>1, <3>2
  <2>4. Stands(s, A, 1)
    <3>1. 0 \in 0..1 - 1
      OBVIOUS
    <3> QED  BY <1>3, <1>4, <2>1, <3>1 DEF Stands
  <2>5. i = 2 => Stands(s, A, 2)
    <3>1. 1 \in 1..2 - 1
      OBVIOUS
    <3> QED  BY <1>3, <1>4, <2>2, <3>1 DEF Stands
  <2>6. \A k \in DOMAIN s : Stands(s, A, k)
    <3>1. \A k \in 1..i : k = 1 \/ (k = 2 /\ i = 2)
      OBVIOUS
    <3> QED  BY <1>4, <2>4, <2>5, <3>1
  <2>7. A[i] = IF i = 1 THEN open ELSE waits
    BY <2>2, <2>3
  <2> QED  BY <1>4, <2>6, <2>7 DEF LeadsTo, A
<1>5. LeadsTo(<<first>>, open)
  <2>1. PICK s : s = <<first>>
    OBVIOUS
  <2>2. s \in Seq(Entries) /\ s # <<>> /\ DOMAIN s = 1..1 /\ Len(s) = 1 /\ s[1] = first
    BY <1>2, <2>1
  <2>3. 1 \in 1..2
    OBVIOUS
  <2>4. LeadsTo(s, IF 1 = 1 THEN open ELSE waits)
    BY <1>4, <2>2, <2>3
  <2> QED  BY <2>1, <2>4
<1>6. LeadsTo(<<first, second>>, waits)
  <2>1. PICK s : s = <<first, second>>
    OBVIOUS
  <2>2. /\ s \in Seq(Entries) /\ s # <<>> /\ DOMAIN s = 1..2 /\ Len(s) = 2
        /\ s[1] = first /\ s[2] = second
    BY <1>2, <2>1
  <2>3. 2 \in 1..2
    OBVIOUS
  <2>4. LeadsTo(s, IF 2 = 1 THEN open ELSE waits)
    BY <1>4, <2>2, <2>3
  <2> QED  BY <2>1, <2>4
<1> QED  BY <1>5, <1>6 DEF first, second, open, waits

LEMMA FirstRowType ==
  ASSUME NEW start \in Starts, NEW c \in Cases
  PROVE  FirstRow(start, c) \in RowRecs
<1> DEFINE number == Cardinality({d \in Cases : start[d] # -1 /\ d <= c})
<1>1. start[c] \in -1..MaxDay
  BY StartsAreDays
<1>2. CASE start[c] = -1
  BY <1>2, BoundsAreNumbers DEF FirstRow, Absent, RowRecs, States, None
<1>3. CASE start[c] # -1
  <2>1. number \in Nat
    <3>1. IsFiniteSet({d \in Cases : start[d] # -1 /\ d <= c})
      BY CasesAreNumbers, FS_Subset
    <3> QED  BY <3>1, FS_CardinalityType
  <2>2. FirstRow(start, c) =
          [state |-> IF start[c] = None THEN "open" ELSE "waiting", until |-> start[c],
           owner |-> Opener, number |-> number]
    BY <1>3 DEF FirstRow
  <2> HIDE DEF number
  <2>3. Opener \in Users /\ start[c] \in 0..MaxDay
    BY <1>1, <1>3, StartsAreDays, BoundsAreNumbers
  <2>4. CASE start[c] = None
    BY <2>1, <2>2, <2>3, <2>4 DEF RowRecs, States, Mutable, None
  <2>5. CASE start[c] # None
    <3>1. start[c] > 0
      BY <2>3, <2>5, BoundsAreNumbers DEF None
    <3> QED  BY <2>1, <2>2, <2>3, <2>5, <3>1 DEF RowRecs, States, Mutable
  <2> QED  BY <2>4, <2>5
<1> QED  BY <1>2, <1>3

LEMMA FirstCaseStands ==
  ASSUME NEW start \in Starts, NEW c \in Cases, NEW r, r = FirstRecord(start, c)
  PROVE  r \in Seq(Entries) /\ CaseStands(FirstRow(start, c), r, Course(Unopened, r))
<1>1. start[c] \in -1..MaxDay /\ 1 \in 1..MaxDay
  BY StartsAreDays, BoundsAreNumbers
<1>2. CASE start[c] = -1
  <2>1. r = <<>> /\ FirstRow(start, c) = Absent
    BY <1>2 DEF FirstRecord, FirstRow, None
  <2>2. Len(r) = 0 /\ DOMAIN r = {} /\ r \in Seq(Entries)
    BY <2>1
  <2>3. Course(Unopened, r)[0] = Unopened
    BY <2>2, CourseDef
  <2>4. Core(Absent) = Unopened /\ Absent.state = "absent"
    BY DEF Core, Absent, Unopened
  <2> QED  BY <2>1, <2>2, <2>3, <2>4 DEF CaseStands
<1>3. CASE start[c] = None
  <2>1. r = <<Entry("opened", 0, Opener, 0, 0)>>
    BY <1>3 DEF FirstRecord, None
  <2>2. LeadsTo(r, [state |-> "open", until |-> None, owner |-> Opener])
    BY <1>1, <2>1, FirstEntries
  <2>3. /\ Core(FirstRow(start, c)) = [state |-> "open", until |-> None, owner |-> Opener]
        /\ FirstRow(start, c).state = "open"
    BY <1>3 DEF FirstRow, Core, None
  <2> QED  BY <2>2, <2>3 DEF LeadsTo, CaseStands
<1>4. CASE start[c] \in 1..MaxDay
  <2>1. r = <<Entry("opened", 0, Opener, 0, 0), Entry("waiting_set", 1, start[c], 0, 1)>>
    BY <1>4, BoundsAreNumbers DEF FirstRecord, None
  <2>2. LeadsTo(r, [state |-> "waiting", until |-> start[c], owner |-> Opener])
    BY <1>4, <2>1, FirstEntries
  <2>3. /\ Core(FirstRow(start, c)) = [state |-> "waiting", until |-> start[c], owner |-> Opener]
        /\ FirstRow(start, c).state = "waiting"
    BY <1>4, BoundsAreNumbers DEF FirstRow, Core, None
  <2> QED  BY <2>2, <2>3 DEF LeadsTo, CaseStands
<1> QED  BY <1>1, <1>2, <1>3, <1>4, BoundsAreNumbers DEF None

LEMMA InitInv == Init => Inv
<1> SUFFICES ASSUME Init PROVE Inv
  OBVIOUS
<1>1. PICK start \in Starts :
        /\ rows = [c \in Cases |-> FirstRow(start, c)]
        /\ record = [c \in Cases |-> FirstRecord(start, c)]
        /\ day = 1 /\ clock = 0 /\ tx = [p \in Procs |-> NoTx] /\ requests = 0 /\ faults = 0
  BY Zenon DEF Init, FirstRow, FirstRecord
<1>2. ASSUME NEW c \in Cases
      PROVE  record[c] \in Seq(Entries) /\ CaseStands(rows[c], record[c], After(c))
  <2>1. PICK r : r = record[c]
    OBVIOUS
  <2>2. r \in Seq(Entries) /\ CaseStands(FirstRow(start, c), r, Course(Unopened, r))
    BY <1>1, <2>1, FirstCaseStands
  <2> QED  BY <1>1, <2>1, <2>2 DEF After
<1>3. Types
  <2>1. rows \in [Cases -> RowRecs]
    BY <1>1, FirstRowType
  <2>2. record \in [Cases -> Seq(Entries)]
    BY <1>1, <1>2
  <2>3. tx \in [Procs -> TxRecs]
    BY <1>1, NoTxHolds
  <2>4. 1 \in 1..MaxDay /\ 0 \in 0..MaxRequests /\ 0 \in 0..MaxFaults
    BY BoundsAreNumbers
  <2> QED  BY <1>1, <2>1, <2>2, <2>3, <2>4 DEF Types
<1>4. RecordHolds
  BY <1>2, RecordStands
<1>5. AllHold
  BY <1>1, <1>3, NoTxHolds DEF AllHold
<1>6. AllApart
  BY <1>1, NoTxApart DEF AllApart
<1> QED  BY <1>3, <1>4, <1>5, <1>6 DEF Inv

LEMMA AlwaysInv == Spec => []Inv
<1>1. Inv /\ [Next]_vars => Inv'
  BY NextKeepsInv
<1> QED  BY <1>1, InitInv, PTL DEF Spec

------------------------------------------------------------------------------
(* Theorems. *)

\* The state is what it should be: rows, records and transactions have their types, a case
\* that exists has a record, and no row is written by two transactions at one time.
THEOREM TypesHold == Spec => []TypeOK
<1>1. Inv => TypeOK
  <2> SUFFICES ASSUME Inv PROVE TypeOK
    OBVIOUS
  <2>1. ASSUME NEW c \in Cases
        PROVE  /\ rows[c].state \in States /\ rows[c].until \in 0..MaxDay
               /\ rows[c].owner \in Users \union {Nobody}
               /\ rows[c].state = "absent" <=> record[c] = <<>>
               /\ rows[c].state = "waiting" => rows[c].until > 0
               /\ \A i \in DOMAIN record[c] : record[c][i].kind \in Kinds /\ record[c][i].seen < i
    <3>1. rows[c] \in RowRecs /\ record[c] \in Seq(Entries)
      BY DEF Inv, Types
    <3>2. \A i \in DOMAIN record[c] : record[c][i] \in Entries
      BY <3>1
    <3>3. \A i \in DOMAIN record[c] : record[c][i].kind \in Kinds
      BY <3>2 DEF Entries
    <3> QED  BY <3>1, <3>3 DEF Inv, RecordHolds, RowRecs
  <2>2. ASSUME NEW p \in Procs
        PROVE  /\ tx[p].op \in Ops \union {"none"}
               /\ tx[p].step \in
                    {"idle", "number", "insert", "read", "check", "write", "line", "lift", "commit"}
               /\ DOMAIN tx[p].new = DOMAIN tx[p].wrote \/ tx[p].op = "line"
               /\ \A q \in Procs \ {p} : DOMAIN tx[p].wrote \intersect DOMAIN tx[q].wrote = {}
    <3>1. tx[p] \in TxRecs /\ Sound(tx[p])
      BY TxFacts
    <3>2. \A q \in Procs \ {p} : DOMAIN tx[p].wrote \intersect DOMAIN tx[q].wrote = {}
      BY DEF Inv, AllApart, Apart
    <3>3. DOMAIN tx[p].new = DOMAIN tx[p].wrote \/ tx[p].op = "line"
      BY <3>1 DEF Sound
    <3> QED  BY <3>1, <3>2, <3>3 DEF TxRecs, Steps
  <2>3. day \in 1..MaxDay /\ clock \in Nat /\ requests \in 0..MaxRequests /\ faults \in 0..MaxFaults
    BY DEF Inv, Types
  <2> QED  BY <2>1, <2>2, <2>3 DEF TypeOK
<1> QED  BY <1>1, AlwaysInv, PTL

LEMMA EntryFacts ==
  ASSUME Inv, NEW c \in Cases, NEW i \in DOMAIN record[c]
  PROVE  /\ record[c] \in Seq(Entries) /\ record[c][i] \in Entries /\ i \in 1..Len(record[c])
         /\ Len(record[c]) \in Nat /\ Stands(record[c], After(c), i)
         /\ Unopened \in Cores /\ MaxDay \in Nat
<1>1. record[c] \in Seq(Entries)
  BY DEF Inv, Types
<1>2. record[c][i] \in Entries /\ i \in 1..Len(record[c]) /\ Len(record[c]) \in Nat
  BY <1>1
<1>3. Stands(record[c], After(c), i)
  BY RecordStands DEF Inv, CaseStands
<1> QED  BY <1>1, <1>2, <1>3, UnopenedType, BoundsAreNumbers

\* Every lift in a record ended a wait that was on, and one by date a wait that was due unless
\* it was set after the tick had read the case.
THEOREM LiftsEndWaitsHolds == Spec => []LiftsEndWaits
<1>1. ASSUME Inv, NEW c \in Cases, NEW i \in DOMAIN record[c], NEW r, r = record[c],
             r[i].kind = "waiting_lifted"
      PROVE  /\ StateBefore(c, i).state = "waiting"
             /\ \/ r[i].what # "date" \/ StateBefore(c, i).until <= r[i].on
                \/ \E j \in r[i].seen + 1 .. i - 1 : r[j].kind = "waiting_set"
  <2> DEFINE n == r[i].seen
             x == r[i].on
  <2>1. /\ r \in Seq(Entries) /\ r[i] \in Entries /\ i \in 1..Len(r) /\ Len(r) \in Nat
        /\ Stands(r, Course(Unopened, r), i) /\ Unopened \in Cores /\ MaxDay \in Nat
    BY <1>1, EntryFacts DEF After
  <2>2. StateBefore(c, i) = Course(Unopened, r)[i - 1]
    BY <1>1 DEF StateBefore
  <2>3. /\ n \in Nat /\ x \in Nat /\ n < i
        /\ Course(Unopened, r)[i - 1].state = "waiting"
        /\ r[i].what = "date" => Course(Unopened, r)[n].until <= x
    BY <1>1, <2>1 DEF Stands, Entries
  <2> HIDE DEF n, x
  <2>4. n \in 0..Len(r) /\ i - 1 \in n..Len(r)
    BY <2>1, <2>3
  <2>5. \/ r[i].what # "date" \/ Course(Unopened, r)[i - 1].until <= x
        \/ \E j \in n + 1 .. i - 1 : r[j].kind = "waiting_set"
    BY <2>1, <2>3, <2>4, WaitMovedBetween
  <2> QED  BY <2>2, <2>3, <2>5 DEF n, x
<1>2. Inv => LiftsEndWaits
  BY <1>1 DEF LiftsEndWaits
<1> QED  BY <1>2, AlwaysInv, PTL

\* An entry that follows the close of a case comes from a transaction that had read the case
\* before it was closed.
THEOREM ClosedRefuses == Spec => []RefusedOnceClosed
<1>1. ASSUME Inv, NEW c \in Cases, NEW i \in DOMAIN record[c], NEW r, r = record[c],
             StateBefore(c, i).state = "closed"
      PROVE  \E j \in r[i].seen + 1 .. i - 1 : r[j].kind = "closed"
  <2> DEFINE n == r[i].seen
             A == Course(Unopened, r)
  <2>1. /\ r \in Seq(Entries) /\ r[i] \in Entries /\ i \in 1..Len(r) /\ Len(r) \in Nat
        /\ Stands(r, A, i) /\ Unopened \in Cores /\ MaxDay \in Nat
    BY <1>1, EntryFacts DEF After
  <2>2. A[i - 1].state = "closed"
    BY <1>1 DEF StateBefore
  <2>3. n \in Nat /\ n < i
    BY <2>1 DEF Stands, Entries
  <2>4. PICK m \in n..i - 1 : A[m].state # "closed"
    BY <2>1 DEF Stands
  <2> HIDE DEF n
  <2>5. m \in 0..Len(r) /\ i - 1 \in m..Len(r)
    BY <2>1, <2>3, <2>4
  <2>6. \E j \in m + 1 .. i - 1 : r[j].kind = "closed"
    BY <2>1, <2>2, <2>4, <2>5, ClosedBetween
  <2>7. \A j \in m + 1 .. i - 1 : j \in n + 1 .. i - 1
    BY <2>1, <2>3, <2>4
  <2> QED  BY <2>6, <2>7 DEF n
<1>2. Inv => RefusedOnceClosed
  BY <1>1 DEF RefusedOnceClosed
<1> QED  BY <1>2, AlwaysInv, PTL

\* A line leaves no case waiting but for a wait set after its writer had read the case, and a
\* case has two lines of one subject only if their writers overlapped.
THEOREM LinesWake == Spec => []LinesWakeOnce
<1>1. ASSUME Inv, NEW c \in Cases, NEW i \in DOMAIN record[c], NEW r, r = record[c],
             r[i].kind = "line"
      PROVE  /\ \A j \in 1..r[i].seen : r[j].kind = "line" => r[j].what # r[i].what
             /\ \/ rows[c].state # "waiting"
                \/ \E j \in r[i].seen + 1 .. Len(r) : r[j].kind = "waiting_set"
  <2> DEFINE n == r[i].seen
             A == Course(Unopened, r)
             l == Len(r)
  <2>1. /\ r \in Seq(Entries) /\ r[i] \in Entries /\ i \in 1..Len(r) /\ Len(r) \in Nat
        /\ Stands(r, A, i) /\ Unopened \in Cores /\ MaxDay \in Nat
    BY <1>1, EntryFacts DEF After
  <2>2. n \in Nat
    BY <2>1 DEF Entries
  <2>3. PICK m \in n..Len(r) : A[m].state # "waiting"
    BY <1>1, <2>1 DEF Stands
  <2>4. ASSUME rows[c].state = "waiting"
        PROVE  \E j \in n + 1 .. Len(r) : r[j].kind = "waiting_set"
    <3>1. A[Len(r)].state = "waiting"
      <4>1. Core(rows[c]) = A[Len(r)]
        BY <1>1 DEF Inv, RecordHolds, After
      <4> QED  BY <2>4, <4>1 DEF Core
    <3>2. m \in 0..l /\ l \in m..l /\ l \in 0..l
      <4> HIDE DEF n
      <4>1. l \in Nat /\ m \in n..l
        BY <2>1, <2>3
      <4> HIDE DEF l
      <4> QED  BY <2>2, <4>1
    <3>3. \E j \in m + 1 .. l : r[j].kind = "waiting_set"
      BY <2>1, <2>3, <3>1, <3>2, WaitSetBetween
    <3>4. \A j \in m + 1 .. l : j \in n + 1 .. l
      <4> HIDE DEF n
      <4>1. l \in Nat /\ m \in n..l
        BY <2>1, <2>3
      <4> HIDE DEF l
      <4> QED  BY <2>2, <4>1
    <3> QED  BY <3>3, <3>4
  <2>5. \A j \in 1..n : r[j].kind = "line" => r[j].what # r[i].what
    BY <1>1, <2>1 DEF Stands
  <2> QED  BY <2>4, <2>5
<1>2. Inv => LinesWakeOnce
  BY <1>1 DEF LinesWakeOnce
<1> QED  BY <1>2, AlwaysInv, PTL


------------------------------------------------------------------------------
(* The numbers of the cases. *)

There == {c \in Cases : rows[c].state # "absent"}

\* The cases a transaction had read as there.
Known(t) == {c \in Cases : t.saw[c].state # "absent"}

\* The cases there have the numbers from one to how many they are.
Numbered ==
  /\ {rows[c].number : c \in There} = 1..Cardinality(There)
  /\ \A c \in Cases \ There : rows[c].number = 0

\* A number taken is above those known and at most the next one; each try but the first is due to
\* a case opened meanwhile; a number inserted is the next one, until it is committed; and the
\* first entry of a case is its opening.
Counts(t) ==
  /\ t.op = "create" =>
       /\ Known(t) \subseteq There
       /\ t.step = "number" => Cardinality(Known(t)) + t.tries <= Cardinality(There)
       /\ t.step = "insert" => /\ Cardinality(Known(t)) + t.tries < t.number
                               /\ t.number <= Cardinality(There) + 1
       /\ t.step = "commit" => /\ t.at \in DOMAIN t.wrote /\ t.wrote[t.at].state = "open"
                               /\ t.wrote[t.at].number = Cardinality(There) + 1
       /\ \A c \in DOMAIN t.new : t.new[c][1].kind = "opened"
  /\ t.op # "create" => \A c \in DOMAIN t.wrote : t.wrote[c].number = rows[c].number

\* A case inserted and not committed yet.
Opens(t) == t.op = "create" /\ t.step = "commit"
OneOpens == \A p, q \in Procs : Opens(tx[p]) /\ Opens(tx[q]) => p = q

NumInv == Inv /\ Numbered /\ (\A p \in Procs : Counts(tx[p])) /\ OneOpens

LEMMA CasesAreCounted ==
  /\ IsFiniteSet(There) /\ Cardinality(There) \in Nat
  /\ \A t : IsFiniteSet(Known(t)) /\ Cardinality(Known(t)) \in Nat
<1>1. There \subseteq Cases /\ \A t : Known(t) \subseteq Cases
  BY DEF There, Known
<1> QED  BY <1>1, CasesAreNumbers, FS_Subset, FS_CardinalityType

Ranks(T) == {Cardinality({d \in T : d <= c}) : c \in T}

LEMMA RanksWithLast ==
  ASSUME NEW T \in SUBSET Nat, IsFiniteSet(T), NEW m \in T, \A n \in T : n <= m,
         NEW R, R = T \ {m}, Ranks(R) = 1..Cardinality(R)
  PROVE  Ranks(T) = 1..Cardinality(T) /\ Cardinality(T) = Cardinality(R) + 1
<1>1. IsFiniteSet(R) /\ Cardinality(R) = Cardinality(T) - 1
  BY FS_RemoveElement
<1>2. PICK k \in Nat : k = Cardinality(R)
  BY <1>1, FS_CardinalityType
<1>3. Cardinality(T) = k + 1
  BY <1>1, <1>2, FS_CardinalityType
<1>4. \A c \in R : {d \in T : d <= c} = {d \in R : d <= c}
  <2> SUFFICES ASSUME NEW c \in R PROVE {d \in T : d <= c} = {d \in R : d <= c}
    OBVIOUS
  <2>1. c \in Nat /\ m \in Nat /\ c <= m /\ c # m
    OBVIOUS
  <2>2. ~(m <= c)
    BY <2>1
  <2> QED  BY <2>2
<1>5. {d \in T : d <= m} = T
  OBVIOUS
<1>6. T = R \union {m}
  OBVIOUS
<1>7. PICK F : F = [c \in T |-> Cardinality({d \in T : d <= c})]
  OBVIOUS
<1>8. Ranks(T) = Ranks(R) \union {F[m]}
  <2>1. PICK G : G = [c \in R |-> Cardinality({d \in R : d <= c})]
    OBVIOUS
  <2>2. \A c \in R : F[c] = G[c]
    BY <1>4, <1>7, <2>1
  <2>3. Ranks(T) = {F[c] : c \in T}
    BY <1>7 DEF Ranks
  <2>4. Ranks(R) = {G[c] : c \in R}
    BY <2>1 DEF Ranks
  <2>5. {F[c] : c \in T} = {F[c] : c \in R} \union {F[m]}
    BY <1>6
  <2> QED  BY <2>2, <2>3, <2>4, <2>5
<1>9. Ranks(T) = 1..k \union {k + 1}
  BY <1>2, <1>3, <1>5, <1>7, <1>8
<1>10. 1..(k + 1) = 1..k \union {k + 1}
  BY <1>2
<1> QED  BY <1>2, <1>3, <1>9, <1>10

\* In a finite set of numbers the first is the first of the set, the second the second, ...
LEMMA Ranked ==
  ASSUME NEW S \in SUBSET Nat, IsFiniteSet(S)
  PROVE  Ranks(S) = 1..Cardinality(S)
<1> DEFINE Bad == {k \in Nat : \E T \in SUBSET Nat :
                      IsFiniteSet(T) /\ Cardinality(T) = k /\ Ranks(T) # 1..k}
<1>1. Bad = {}
  <2> SUFFICES ASSUME Bad # {} PROVE FALSE
    OBVIOUS
  <2>1. PICK k \in Bad : \A j \in Bad : k <= j
    <3>1. Bad \in SUBSET Nat
      OBVIOUS
    <3> HIDE DEF Bad
    <3> QED  BY <3>1, Least
  <2>2. PICK T \in SUBSET Nat : IsFiniteSet(T) /\ Cardinality(T) = k /\ Ranks(T) # 1..k
    BY <2>1
  <2>3. T # {}
    <3> SUFFICES ASSUME T = {} PROVE FALSE
      OBVIOUS
    <3>1. k = 0
      BY <2>2, FS_EmptySet
    <3>2. Ranks(T) = {}
      BY DEF Ranks
    <3> QED  BY <2>2, <3>1, <3>2
  <2>4. PICK m \in T : \A n \in T : n <= m
    BY <2>2, <2>3, FiniteHasMax
  <2>5. PICK R : R = T \ {m}
    OBVIOUS
  <2>6. IsFiniteSet(R) /\ Cardinality(R) \in Nat /\ R \in SUBSET Nat /\ Cardinality(R) = k - 1
    BY <2>2, <2>5, FS_RemoveElement, FS_CardinalityType
  <2>7. Cardinality(R) \notin Bad
    <3>1. k \in Nat
      OBVIOUS
    <3> QED  BY <2>1, <2>6, <3>1
  <2>8. Ranks(R) = 1..Cardinality(R)
    BY <2>6, <2>7
  <2> HIDE DEF Bad
  <2> QED  BY <2>2, <2>4, <2>5, <2>8, RanksWithLast
<1>2. Cardinality(S) \in Nat
  BY FS_CardinalityType
<1> QED  BY <1>1, <1>2

LEMMA InitNumbers == Init => NumInv
<1> SUFFICES ASSUME Init PROVE NumInv
  OBVIOUS
<1>1. PICK start \in Starts :
        rows = [c \in Cases |-> FirstRow(start, c)] /\ tx = [p \in Procs |-> NoTx]
  BY Zenon DEF Init, FirstRow
<1>2. There = {c \in Cases : start[c] # -1}
  <2>1. \A c \in Cases : FirstRow(start, c).state = "absent" <=> start[c] = -1
    BY DEF FirstRow, Absent
  <2> QED  BY <1>1, <2>1 DEF There
<1>3. \A c \in There : rows[c].number = Cardinality({d \in There : d <= c})
  <2> SUFFICES ASSUME NEW c \in There PROVE rows[c].number = Cardinality({d \in There : d <= c})
    OBVIOUS
  <2>1. {d \in There : d <= c} = {d \in Cases : start[d] # -1 /\ d <= c}
    BY <1>2
  <2>2. c \in Cases /\ start[c] # -1
    BY <1>2
  <2>3. FirstRow(start, c).number = Cardinality({d \in Cases : start[d] # -1 /\ d <= c})
    BY <2>2 DEF FirstRow
  <2> QED  BY <1>1, <2>1, <2>2, <2>3
<1>4. {rows[c].number : c \in There} = Ranks(There)
  BY <1>3 DEF Ranks
<1>5. There \in SUBSET Nat /\ IsFiniteSet(There)
  BY CasesAreCounted, CasesAreNumbers DEF There
<1>6. Numbered
  <2>1. \A c \in Cases \ There : rows[c].number = 0
    BY <1>1, <1>2 DEF FirstRow, Absent, None
  <2> QED  BY <1>4, <1>5, <2>1, Ranked DEF Numbered
<1>7. \A p \in Procs : Counts(tx[p]) /\ ~Opens(tx[p])
  <2>1. NoTx.op # "create" /\ DOMAIN NoTx.wrote = {}
    BY EmptyPartial DEF NoTx
  <2> QED  BY <1>1, <2>1 DEF Counts, Opens
<1> QED  BY <1>6, <1>7, InitInv DEF NumInv, OneOpens

\* One transaction moves and commits nothing; if it has now inserted a case, no other has.
LEMMA OneMovesCounted ==
  ASSUME NumInv, Inv', NEW p \in Procs, NEW u, Counts(u),
         tx' = [tx EXCEPT ![p] = u], rows' = rows,
         Opens(u) => \A q \in Procs \ {p} : ~Opens(tx[q])
  PROVE  NumInv'
<1>1. \A q \in Procs : tx'[q] = IF q = p THEN u ELSE tx[q]
  BY DEF NumInv, Inv, Types
<1>2. There' = There /\ Numbered'
  BY DEF NumInv, There, Numbered
<1>3. ASSUME NEW q \in Procs PROVE Counts(tx[q])'
  <2>1. PICK v : v = tx'[q]
    OBVIOUS
  <2>2. Counts(v)
    BY <1>1, <2>1 DEF NumInv
  <2> QED  BY <1>2, <2>1, <2>2 DEF Counts, Known
<1>4. OneOpens'
  BY <1>1 DEF NumInv, OneOpens, Opens
<1> QED  BY <1>2, <1>3, <1>4 DEF NumInv

\* A transaction that opens no case writes rows under the numbers they have.
Modest(u) == u.op # "create" /\ \A c \in DOMAIN u.wrote : u.wrote[c].number = rows[c].number

LEMMA ModestMoves ==
  ASSUME NumInv, Inv', NEW p \in Procs, NEW u, Modest(u), tx' = [tx EXCEPT ![p] = u], rows' = rows
  PROVE  NumInv'
BY OneMovesCounted DEF Modest, Counts, Opens

LEMMA NothingWritten ==
  ASSUME NEW u, u.op # "create", u.wrote = <<>>
  PROVE  Modest(u)
BY EmptyPartial DEF Modest

LEMMA NoTxIsModest == Modest(NoTx)
BY NothingWritten DEF NoTx

LEMMA TurnWritesNothing ==
  ASSUME NEW p, NEW t, DOMAIN t = DOMAIN NoTx
  PROVE  Turn(p, t).op = t.op /\ Turn(p, t).wrote = t.wrote
<1> HIDE DEF NextOf
<1>1. /\ {"op", "wrote", "at", "left", "step", "saw", "seen"} \subseteq DOMAIN t
  BY DEF NoTx
<1> QED  BY <1>1 DEF Turn

LEMMA BegunIsModest ==
  ASSUME NEW op, op # "create", NEW c, NEW arg, NEW step, NEW L, NEW n, NEW p
  PROVE  /\ Modest(BegunWith(op, c, arg, step, L, n)) /\ Modest(Begun(op, c, arg, step))
         /\ Modest(Turn(p, BegunWith(op, c, arg, step, L, n)))
<1> DEFINE t == BegunWith(op, c, arg, step, L, n)
<1>1. t.op = op /\ t.wrote = <<>> /\ DOMAIN t = DOMAIN NoTx
  BY DEF BegunWith, NoTx
<1>2. Begun(op, c, arg, step).op = op /\ Begun(op, c, arg, step).wrote = <<>>
  BY DEF Begun, BegunWith
<1> HIDE DEF t
<1>3. Turn(p, t).op = op /\ Turn(p, t).wrote = <<>>
  BY <1>1, TurnWritesNothing
<1> QED  BY <1>1, <1>2, <1>3, NothingWritten DEF t

LEMMA StartCounted ==
  ASSUME NumInv, Inv', NEW w \in Workers, Start(w)
  PROVE  NumInv'
<1>1. w \in Procs
  BY DEF Procs
<1>2. ASSUME NEW u, Request(w, u), Modest(u) PROVE NumInv'
  BY <1>1, <1>2, ModestMoves DEF Request
<1>3. ASSUME NEW c \in Cases, StartResume(w, c) PROVE NumInv'
  BY <1>2, <1>3, BegunIsModest DEF StartResume
<1>4. ASSUME NEW c \in Cases, StartClose(w, c) PROVE NumInv'
  BY <1>2, <1>4, BegunIsModest DEF StartClose
<1>5. ASSUME NEW c \in Cases, NEW a, StartHandOver(w, c, a) \/ StartWait(w, c, a) PROVE NumInv'
  BY <1>2, <1>5, BegunIsModest DEF StartHandOver, StartWait
<1>6. ASSUME NEW e \in Events, StartLines(w, e) PROVE NumInv'
  BY <1>2, <1>6, BegunIsModest DEF StartLines
<1>7. ASSUME NEW c \in Cases, NEW a \in Users, StartCreate(w, c, a) PROVE NumInv'
  <2> DEFINE u == Begun("create", c, a, "number")
  <2>1. Request(w, u)
    BY <1>7 DEF StartCreate
  <2>2. u.op = "create" /\ u.step = "number" /\ u.tries = 0 /\ u.saw = rows /\ DOMAIN u.new = {}
    BY EmptyPartial DEF Begun, BegunWith
  <2> HIDE DEF u
  <2>3. Known(u) = There
    BY <2>2 DEF Known, There
  <2>4. Counts(u) /\ ~Opens(u)
    BY <2>2, <2>3, CasesAreCounted DEF Counts, Opens
  <2> QED  BY <1>1, <2>1, <2>4, OneMovesCounted DEF Request
<1> QED  BY <1>3, <1>4, <1>5, <1>6, <1>7 DEF Start

LEMMA WakeCounted ==
  ASSUME NumInv, Inv', Wake
  PROVE  NumInv'
<1>1. Tick \in Procs
  BY DEF Procs
<1> QED  BY <1>1, BegunIsModest, ModestMoves DEF Wake, Goes

LEMMA FindCasesCounted ==
  ASSUME NumInv, Inv', NEW p \in Procs, FindCases(p)
  PROVE  NumInv'
<1> DEFINE t == tx[p]
           step == IF t.op = "wake" THEN "lift" ELSE "line"
           u == Turn(p, BegunWith(t.op, None, t.arg, step, Found(t), t.stamp))
<1>1. t.step = "read" /\ tx' = [tx EXCEPT ![p] = u] /\ rows' = rows
  BY DEF FindCases, Goes
<1>2. t.op # "create"
  <2>1. Sound(t)
    BY TxFacts DEF NumInv
  <2> QED  BY <1>1, <2>1 DEF Sound, StepsOf
<1>3. Modest(u)
  BY <1>2, BegunIsModest
<1> HIDE DEF u
<1> QED  BY <1>1, <1>3, ModestMoves

LEMMA OpeningSteps ==
  ASSUME Inv, NEW p \in Procs
  PROVE  /\ tx[p].op = "create" =>
              /\ tx[p].step \in {"number", "insert", "commit"} /\ tx[p].tries \in {0, 1}
              /\ tx[p].step # "commit" => DOMAIN tx[p].wrote = {}
              /\ tx[p].at \in Cases /\ rows[tx[p].at].state = "absent"
              /\ DOMAIN tx[p].wrote \subseteq {tx[p].at}
         /\ tx[p].op # "create" => tx[p].step \notin {"number", "insert"}
         /\ tx[p].step # "idle" => DOMAIN tx[p] = DOMAIN NoTx
<1>1. tx[p] \in TxRecs /\ Sound(tx[p]) /\ Target(tx[p])
  BY TxFacts
<1>2. tx[p].op \in Ops \union {"none"} /\ tx[p].tries \in {0, 1} /\ DOMAIN tx[p] = DOMAIN NoTx
  BY <1>1 DEF TxRecs, NoTx
<1>3. DOMAIN <<>> = {}
  BY EmptyPartial
<1> QED  BY <1>1, <1>2, <1>3 DEF Sound, StepsOf, Target, Ops

LEMMA NextNumberCounts ==
  ASSUME NumInv, Cases # {}
  PROVE  NextNumber = Cardinality(There) + 1
<1>1. /\ NextNumber \in Nat \ {0}
      /\ \A d \in Cases : rows[d].number < NextNumber
      /\ \E d \in Cases : rows[d].number = NextNumber - 1
  BY NextNumberIsMax DEF NumInv, Inv
<1>2. PICK n \in Nat : n = Cardinality(There)
  BY CasesAreCounted
<1>3. \A d \in Cases : rows[d].number \in 0..n
  <2> SUFFICES ASSUME NEW d \in Cases PROVE rows[d].number \in 0..n
    OBVIOUS
  <2>1. d \in There => rows[d].number \in 1..n
    BY <1>2 DEF NumInv, Numbered
  <2> QED  BY <1>2, <2>1 DEF NumInv, Numbered
<1>4. n > 0 => \E d \in Cases : rows[d].number = n
  <2>1. n > 0 => n \in {rows[c].number : c \in There}
    BY <1>2 DEF NumInv, Numbered
  <2> QED  BY <2>1 DEF There
<1> QED  BY <1>1, <1>2, <1>3, <1>4

LEMMA TakeNumberCounted ==
  ASSUME NumInv, Inv', NEW p \in Procs, TakeNumber(p)
  PROVE  NumInv'
<1> DEFINE t == tx[p]
           u == [t EXCEPT !.step = "insert", !.number = NextNumber]
<1>1. t.step = "number" /\ tx' = [tx EXCEPT ![p] = u] /\ rows' = rows
  BY DEF TakeNumber, Goes
<1>2. t.op = "create" /\ t.at \in Cases /\ t.tries \in {0, 1} /\ t \in TxRecs
  BY <1>1, OpeningSteps, TxFacts DEF NumInv
<1>3. /\ u.op = "create" /\ u.step = "insert" /\ u.number = NextNumber /\ u.tries = t.tries
      /\ u.saw = t.saw /\ u.new = t.new
  BY <1>2 DEF TxRecs
<1>4. NextNumber = Cardinality(There) + 1
  BY <1>2, NextNumberCounts
<1>5. Counts(t)
  BY DEF NumInv
<1> HIDE DEF t, u
<1>6. Known(u) = Known(t)
  BY <1>3 DEF Known
<1>7. Counts(u) /\ ~Opens(u)
  BY <1>1, <1>2, <1>3, <1>4, <1>5, <1>6, CasesAreCounted DEF Counts, Opens
<1> QED  BY <1>1, <1>7, OneMovesCounted DEF u

\* The number inserted is the next one: it is taken by no case, and by none about to be committed.
LEMMA InsertCaseCounted ==
  ASSUME NumInv, Inv', NEW p \in Procs, InsertCase(p)
  PROVE  NumInv'
<1> DEFINE t == tx[p]
           c == t.at
           row == [state |-> "open", until |-> None, owner |-> t.arg, number |-> t.number]
           u == [Writing(p, c, row, Entry("opened", 0, t.arg, day, t.stamp)) EXCEPT !.step = "commit"]
           again == [t EXCEPT !.step = "number", !.tries = 1]
<1>1. /\ t.step = "insert" /\ ~NumberPending(p)
      /\ IF \A d \in Cases : rows[d].number # t.number THEN Goes(p, u)
         ELSE IF t.tries = 0 THEN Goes(p, again) ELSE RollBack(p)
  BY DEF InsertCase
<1>2. /\ t.op = "create" /\ c \in Cases /\ t.tries \in {0, 1} /\ t \in TxRecs
      /\ DOMAIN t.wrote = {} /\ DOMAIN t = DOMAIN NoTx
  BY <1>1, OpeningSteps, TxFacts DEF NumInv
<1>3. /\ Known(t) \subseteq There /\ Cardinality(Known(t)) + t.tries < t.number
      /\ t.number <= Cardinality(There) + 1
  BY <1>1, <1>2 DEF NumInv, Counts
<1>4. PICK n \in Nat, k \in Nat : n = Cardinality(There) /\ k = Cardinality(Known(t))
  BY CasesAreCounted
<1>5. t.number \in Nat /\ (t.number = n + 1 \/ t.number \in 1..n)
  BY <1>2, <1>3, <1>4 DEF TxRecs
<1>6. t.number \in 1..n <=> \E d \in Cases : rows[d].number = t.number
  <2>1. {rows[d].number : d \in There} = 1..n /\ \A d \in Cases \ There : rows[d].number = 0
    BY <1>4 DEF NumInv, Numbered
  <2>2. There \subseteq Cases
    BY DEF There
  <2>3. t.number \in 1..n => \E d \in There : rows[d].number = t.number
    BY <2>1
  <2>4. \A d \in There : rows[d].number \in 1..n
    BY <2>1
  <2>5. t.number # 0
    BY <1>5
  <2> HIDE DEF t
  <2> QED  BY <2>1, <2>2, <2>3, <2>4, <2>5
<1>7. CASE \A d \in Cases : rows[d].number # t.number
  <2>1. tx' = [tx EXCEPT ![p] = u] /\ rows' = rows
    BY <1>1, <1>7 DEF Goes
  <2>2. t.number = n + 1
    BY <1>5, <1>6, <1>7
  <2>3. u.op = "create" /\ u.saw = t.saw /\ u.at = c /\ u.step = "commit"
        /\ c \in DOMAIN u.wrote /\ u.wrote[c] = row
    BY <1>2 DEF Writing, NoTx
  <2>8. \A d \in DOMAIN u.new : u.new[d][1].kind = "opened"
    <3> DEFINE e == Entry("opened", 0, t.arg, day, t.stamp)
    <3>1. u.new = Adding(t, c, e)
      BY <1>2 DEF Writing, NoTx
    <3>2. t.new = <<>> /\ DOMAIN t.new = {}
      BY <1>1, TxFacts, EmptyPartial DEF NumInv, Sound
    <3>3. e.kind = "opened"
      BY DEF Entry
    <3> HIDE DEF e, t, u, c
    <3>4. NewOf(t, c) = <<>>
      BY <3>2 DEF NewOf
    <3>5. Append(<<>>, e)[1] = e
      OBVIOUS
    <3>6. DOMAIN u.new = {c} /\ u.new[c] = Append(<<>>, e)
      BY <3>1, <3>2, <3>4 DEF Adding
    <3> QED  BY <3>3, <3>5, <3>6
  <2>4. Known(u) = Known(t)
    BY <2>3 DEF Known
  <2>5. row.state = "open" /\ row.number = t.number
    OBVIOUS
  <2>6. ASSUME NEW q \in Procs \ {p}, Opens(tx[q]) PROVE FALSE
    <3>1. /\ tx[q].at \in DOMAIN tx[q].wrote /\ tx[q].wrote[tx[q].at].number = n + 1
          /\ tx[q].op = "create"
      BY <1>4, <2>6 DEF NumInv, Counts, Opens
    <3>2. NumberPending(p)
      BY <2>2, <3>1 DEF NumberPending
    <3> QED  BY <1>1, <3>2
  <2> HIDE DEF t, c, row, u
  <2>7. Counts(u)
    BY <1>3, <1>4, <2>2, <2>3, <2>4, <2>5, <2>8 DEF Counts
  <2> QED  BY <2>1, <2>6, <2>7, OneMovesCounted
<1>8. CASE t.tries = 0 /\ Goes(p, again) /\ \E d \in Cases : rows[d].number = t.number
  <2>1. tx' = [tx EXCEPT ![p] = again] /\ rows' = rows
    BY <1>8 DEF Goes
  <2>2. again.op = "create" /\ again.step = "number" /\ again.tries = 1 /\ again.saw = t.saw
        /\ again.new = t.new /\ Counts(t)
    BY <1>2 DEF NoTx, NumInv
  <2>3. k + 1 <= n
    BY <1>3, <1>4, <1>5, <1>6, <1>8
  <2> HIDE DEF t, again
  <2>4. Known(again) = Known(t)
    BY <2>2 DEF Known
  <2>5. Counts(again) /\ ~Opens(again)
    BY <1>2, <1>3, <1>4, <2>2, <2>3, <2>4 DEF Counts, Opens
  <2> QED  BY <2>1, <2>5, OneMovesCounted
<1>9. CASE RollBack(p)
  BY <1>9, NoTxIsModest, ModestMoves DEF RollBack, Goes
<1> QED  BY <1>1, <1>7, <1>8, <1>9

LEMMA CheckCounted ==
  ASSUME NumInv, Inv', NEW p \in Procs, Check(p)
  PROVE  NumInv'
<1> DEFINE t == tx[p]
           u == [t EXCEPT !.step = "write", !.seen = Seen]
<1>1. /\ t.step = "check" /\ rows' = rows
      /\ tx' = [tx EXCEPT ![p] = u] \/ tx' = [tx EXCEPT ![p] = NoTx]
  BY DEF Check, Goes, RollBack
<1>2. t.op # "create" /\ DOMAIN t = DOMAIN NoTx /\ Counts(t)
  BY <1>1, OpeningSteps DEF NumInv
<1>3. u.op = t.op /\ u.wrote = t.wrote
  BY <1>2 DEF NoTx
<1> HIDE DEF t, u
<1>4. Modest(u)
  BY <1>2, <1>3 DEF Modest, Counts
<1> QED  BY <1>1, <1>4, NoTxIsModest, ModestMoves

\* A row written to a case keeps the number of the row that was found.
LEMMA WritingIsModest ==
  ASSUME NumInv, NEW p \in Procs, tx[p].op # "create", tx[p].step # "idle", NEW c, NEW row, NEW e,
         row.number = View(p, c).number
  PROVE  /\ DOMAIN Writing(p, c, row, e) = DOMAIN NoTx
         /\ Modest(Writing(p, c, row, e)) /\ Modest(Ended(Writing(p, c, row, e)))
<1> DEFINE t == tx[p]
           wrote == [d \in DOMAIN t.wrote \union {c} |-> IF d = c THEN row ELSE t.wrote[d]]
           new == Adding(t, c, e)
           w == [t EXCEPT !.wrote = wrote, !.new = new]
<1>1. DOMAIN t = DOMAIN NoTx /\ Counts(t)
  BY OpeningSteps DEF NumInv
<1>2. row.number = rows[c].number
  BY <1>1 DEF View, Counts
<1>3. \A d \in DOMAIN wrote : wrote[d].number = rows[d].number
  BY <1>1, <1>2 DEF Counts
<1>4. Writing(p, c, row, e) = w
  BY DEF Writing
<1> HIDE DEF wrote, new
<1>5. /\ DOMAIN w = DOMAIN NoTx /\ w.op = t.op /\ w.wrote = wrote
      /\ Ended(w).op = t.op /\ Ended(w).wrote = wrote
  BY <1>1 DEF NoTx, Ended
<1> HIDE DEF w, t
<1> QED  BY <1>3, <1>4, <1>5 DEF Modest, t

LEMMA WriteCounted ==
  ASSUME NumInv, Inv', NEW p \in Procs, Write(p)
  PROVE  NumInv'
<1> DEFINE t == tx[p]
           c == t.at
           found == View(p, c)
           row == CASE t.op = "wait" -> [found EXCEPT !.state = "waiting", !.until = t.arg]
                    [] t.op = "hand_over" -> [found EXCEPT !.owner = t.arg]
                    [] t.op = "close" -> [found EXCEPT !.state = "closed"]
<1>1. /\ t.step = "write" /\ rows' = rows
      /\ \E e : tx' = [tx EXCEPT ![p] = Ended(Writing(p, c, row, e))]
  BY DEF Write, Goes, Updated, Ended
<1>2. t.op \in {"wait", "hand_over", "close"} /\ found \in RowRecs
  <2>1. t \in TxRecs /\ Sound(t) /\ Types
    BY TxFacts DEF NumInv
  <2>2. t.op \in {"wait", "hand_over", "close"} /\ c \in Cases
    BY <1>1, <2>1 DEF Sound, StepsOf, TxRecs, Ops
  <2>3. found = Present(t, c)
    BY DEF View, Present
  <2> QED  BY <2>1, <2>2, <2>3, PresentType
<1>3. row.number = found.number
  <2> HIDE DEF found, t
  <2> QED  BY <1>2 DEF RowRecs
<1> HIDE DEF row
<1>4. PICK e : tx' = [tx EXCEPT ![p] = Ended(Writing(p, c, row, e))]
  BY <1>1
<1>5. Modest(Ended(Writing(p, c, row, e)))
  BY <1>1, <1>2, <1>3, WritingIsModest
<1> QED  BY <1>1, <1>4, <1>5, ModestMoves

\* What follows a lift writes no further case.
LEMMA AfterLiftIsModest ==
  ASSUME NEW p, NEW t, Modest(t), DOMAIN t = DOMAIN NoTx,
         t.op \in {"resume", "close", "line", "wake"}
  PROVE  Modest(AfterLift(p, t))
<1>1. Turn(p, t).op = t.op /\ Turn(p, t).wrote = t.wrote
  BY TurnWritesNothing
<1>2. AfterLift(p, t).op = t.op /\ AfterLift(p, t).wrote = t.wrote
  <2> HIDE DEF Turn
  <2> QED  BY <1>1 DEF AfterLift, NoTx
<1> QED  BY <1>2 DEF Modest

LEMMA LiftCounted ==
  ASSUME NumInv, Inv', NEW p \in Procs, Lift(p)
  PROVE  NumInv'
<1> DEFINE t == tx[p]
           c == t.at
           row == [View(p, c) EXCEPT !.state = "open", !.until = None]
<1>1. /\ t.step = "lift" /\ rows' = rows
      /\ \/ \E e : tx' = [tx EXCEPT ![p] = AfterLift(p, Writing(p, c, row, e))]
         \/ tx' = [tx EXCEPT ![p] = NoTx] \/ tx' = [tx EXCEPT ![p] = AfterLift(p, t)]
  BY DEF Lift, Goes, GoesOn, RollBack, Updated
<1>2. /\ t.op \in {"resume", "close", "line", "wake"} /\ c \in Cases /\ DOMAIN t = DOMAIN NoTx
      /\ t \in TxRecs /\ Types /\ Modest(t)
  <2>1. t \in TxRecs /\ Sound(t) /\ Types /\ Counts(t)
    BY TxFacts DEF NumInv
  <2>2. t.op \in {"resume", "close", "line", "wake"} /\ c \in Cases /\ DOMAIN t = DOMAIN NoTx
    BY <1>1, <2>1 DEF Sound, StepsOf, TxRecs, Ops, NoTx
  <2> QED  BY <2>1, <2>2 DEF Modest, Counts
<1>3. row.number = View(p, c).number
  <2>1. View(p, c) \in RowRecs
    BY <1>2, PresentType DEF View, Present
  <2> QED  BY <2>1 DEF RowRecs
<1>4. ASSUME NEW e PROVE Modest(AfterLift(p, Writing(p, c, row, e)))
  <2>1. DOMAIN Writing(p, c, row, e) = DOMAIN NoTx /\ Modest(Writing(p, c, row, e))
    <3>1. tx[p].op # "create" /\ tx[p].step # "idle"
      BY <1>1, <1>2
    <3> HIDE DEF row, c, t
    <3> QED  BY <1>3, <3>1, WritingIsModest
  <2>2. Writing(p, c, row, e).op = t.op
    BY <1>2 DEF Writing, NoTx
  <2> QED  BY <1>2, <2>1, <2>2, AfterLiftIsModest
<1>5. Modest(AfterLift(p, t))
  BY <1>2, AfterLiftIsModest
<1> HIDE DEF t, c, row
<1> QED  BY <1>1, <1>4, <1>5, NoTxIsModest, ModestMoves

LEMMA WriteLineCounted ==
  ASSUME NumInv, Inv', NEW p \in Procs, WriteLine(p)
  PROVE  NumInv'
<1> DEFINE t == tx[p]
           new == Adding(t, t.at, Entry("line", t.seen[t.at], t.arg, day, t.stamp))
           lined == [t EXCEPT !.new = new]
           woken == [lined EXCEPT !.step = "lift"]
<1>1. /\ t.step = "line" /\ rows' = rows
      /\ \E u \in {Turn(p, t), woken, Turn(p, lined)} : tx' = [tx EXCEPT ![p] = u]
  BY DEF WriteLine, Goes
<1>2. t.op # "create" /\ DOMAIN t = DOMAIN NoTx /\ Counts(t)
  BY <1>1, OpeningSteps DEF NumInv
<1> HIDE DEF new
<1>3. /\ DOMAIN lined = DOMAIN NoTx /\ lined.op = t.op /\ lined.wrote = t.wrote
      /\ woken.op = t.op /\ woken.wrote = t.wrote
  BY <1>2 DEF NoTx
<1> HIDE DEF t, lined, woken
<1>4. /\ Turn(p, t).op = t.op /\ Turn(p, t).wrote = t.wrote
      /\ Turn(p, lined).op = t.op /\ Turn(p, lined).wrote = t.wrote
  BY <1>2, <1>3, TurnWritesNothing
<1>5. \A u \in {Turn(p, t), woken, Turn(p, lined)} : Modest(u)
  BY <1>2, <1>3, <1>4 DEF Modest, Counts
<1> QED  BY <1>1, <1>5, ModestMoves

LEMMA CommitMovesCounted ==
  ASSUME Inv, NEW p \in Procs, Commit(p)
  PROVE  /\ \A q \in Procs : tx'[q] = IF q = p THEN NoTx ELSE tx[q]
         /\ \A c \in Cases : rows'[c] = Present(tx[p], c)
         /\ \A c \in DOMAIN tx[p].wrote : c \in DOMAIN tx[p].new /\ c \in Cases
<1>1. tx[p] \in TxRecs /\ Sound(tx[p])
  BY TxFacts
<1>2. tx[p].wrote \in Partial(RowRecs)
  BY <1>1 DEF TxRecs
<1>3. DOMAIN tx[p].wrote \subseteq Cases
  BY <1>2, PartialDef
<1> QED  BY <1>1, <1>3 DEF Commit, Inv, Types, View, Present, Sound

\* A commit that opens no case changes no number and how many cases there are.
LEMMA ModestCommit ==
  ASSUME NumInv, Inv', NEW p \in Procs, Commit(p), tx[p].op # "create"
  PROVE  NumInv'
<1> DEFINE t == tx[p]
<1>1. /\ \A q \in Procs : tx'[q] = IF q = p THEN NoTx ELSE tx[q]
      /\ \A c \in Cases : rows'[c] = Present(t, c)
      /\ \A c \in DOMAIN t.wrote : c \in DOMAIN t.new /\ c \in Cases
  BY CommitMovesCounted DEF NumInv
<1>2. Pending(t) /\ Counts(t)
  BY TxFacts DEF NumInv
<1>3. ASSUME NEW c \in Cases
      PROVE  rows'[c].number = rows[c].number /\ (rows'[c].state = "absent" <=> rows[c].state = "absent")
  BY <1>1, <1>2 DEF Pending, Counts, Present
<1>4. There' = There
  BY <1>3 DEF There
<1>5. Numbered'
  <2>1. {rows'[c].number : c \in There} = {rows[c].number : c \in There}
    BY <1>3 DEF There
  <2> QED  BY <1>3, <1>4, <2>1 DEF NumInv, Numbered
<1>6. ASSUME NEW q \in Procs PROVE Counts(tx[q])'
  <2>1. PICK v : v = tx'[q]
    OBVIOUS
  <2>2. Counts(v)
    BY <1>1, <2>1, NoTxIsModest DEF NumInv, Counts, Modest
  <2>3. ASSUME v.op # "create", NEW c \in DOMAIN v.wrote PROVE v.wrote[c].number = rows'[c].number
    <3>1. v.wrote[c].number = rows[c].number
      BY <2>2, <2>3 DEF Counts
    <3>2. c \in Cases
      <4>1. v \in TxRecs
        BY <2>1 DEF NumInv, Inv, Types
      <4>2. v.wrote \in Partial(RowRecs)
        BY <4>1 DEF TxRecs
      <4> QED  BY <2>3, <4>2, PartialDef
    <3> QED  BY <1>3, <3>1, <3>2
  <2> QED  BY <1>4, <2>1, <2>2, <2>3 DEF Counts, Known
<1>7. OneOpens'
  BY <1>1 DEF NumInv, OneOpens, Opens, NoTx
<1> QED  BY <1>5, <1>6, <1>7 DEF NumInv

\* A case that opens gets the number of the cases then there.
LEMMA OpeningCommits ==
  ASSUME NumInv, NEW p \in Procs, Commit(p), tx[p].op = "create"
  PROVE  LET c == tx[p].at IN
         /\ c \in Cases \ There /\ There' = There \union {c}
         /\ Cardinality(There') = Cardinality(There) + 1
         /\ rows'[c].state = "open" /\ rows'[c].number = Cardinality(There')
         /\ \A d \in Cases \ {c} : rows'[d] = rows[d]
<1> DEFINE t == tx[p]
           c == t.at
<1>1. \A d \in Cases : rows'[d] = Present(t, d)
  BY CommitMovesCounted DEF NumInv
<1>2. /\ c \in Cases /\ rows[c].state = "absent" /\ DOMAIN t.wrote \subseteq {c} /\ t.step = "commit"
  BY OpeningSteps DEF NumInv, Commit
<1>3. c \in DOMAIN t.wrote /\ t.wrote[c].state = "open" /\ t.wrote[c].number = Cardinality(There) + 1
  BY <1>2 DEF NumInv, Counts
<1> HIDE DEF t, c
<1>4. rows'[c] = t.wrote[c] /\ \A d \in Cases \ {c} : rows'[d] = rows[d]
  BY <1>1, <1>2, <1>3 DEF Present
<1>5. c \in Cases \ There /\ There' = There \union {c}
  BY <1>2, <1>3, <1>4 DEF There
<1>6. Cardinality(There \union {c}) = Cardinality(There) + 1
  BY <1>5, CasesAreCounted, FS_AddElement
<1> QED  BY <1>3, <1>4, <1>5, <1>6 DEF t, c

LEMMA OpeningCounted ==
  ASSUME NumInv, Inv', NEW p \in Procs, Commit(p), tx[p].op = "create"
  PROVE  NumInv'
<1> DEFINE t == tx[p]
<1>1. PICK c : c = t.at
  OBVIOUS
<1>2. PICK n \in Nat : n = Cardinality(There)
  BY CasesAreCounted
<1>3. /\ c \in Cases \ There /\ There' = There \union {c} /\ Cardinality(There') = n + 1
      /\ rows'[c].state = "open" /\ rows'[c].number = n + 1
      /\ \A d \in Cases \ {c} : rows'[d] = rows[d]
  BY <1>1, <1>2, OpeningCommits
<1>4. \A q \in Procs : tx'[q] = IF q = p THEN NoTx ELSE tx[q]
  BY CommitMovesCounted DEF NumInv
<1>5. Numbered'
  <2>1. {rows[d].number : d \in There} = 1..n
    BY <1>2 DEF NumInv, Numbered
  <2>2. {rows'[d].number : d \in There'} = {rows[d].number : d \in There} \union {n + 1}
    BY <1>3 DEF There
  <2>3. \A d \in Cases \ There' : rows'[d].number = 0
    BY <1>3 DEF NumInv, Numbered
  <2>4. 1..(n + 1) = 1..n \union {n + 1}
    BY <1>2
  <2> QED  BY <1>3, <2>1, <2>2, <2>3, <2>4 DEF Numbered
<1>6. ASSUME NEW q \in Procs PROVE Counts(tx[q])'
  <2>1. PICK v : v = tx'[q]
    OBVIOUS
  <2>2. CASE q = p
    BY <1>4, <2>2, NoTxIsModest, EmptyPartial DEF Counts, NoTx
  <2>3. CASE q # p
    <3>1. v = tx[q] /\ Counts(v) /\ v \in TxRecs /\ Pending(v) /\ Sound(v)
      BY <1>4, <2>1, <2>3, TxFacts DEF NumInv
    <3>2. ASSUME v.op = "create"
          PROVE  /\ Known(v) \subseteq There'
                 /\ v.step = "number" => Cardinality(Known(v)) + v.tries <= n + 1
                 /\ v.step = "insert" => /\ Cardinality(Known(v)) + v.tries < v.number
                                         /\ v.number <= n + 2
                 /\ v.step # "commit"
                 /\ \A d \in DOMAIN v.new : v.new[d][1].kind = "opened"
      <4>1. v.tries \in {0, 1} /\ v.number \in Nat /\ Cardinality(Known(v)) \in Nat
        BY <3>1, CasesAreCounted DEF TxRecs
      <4>2. t.step = "commit"
        BY DEF Commit
      <4>3. v.step # "commit"
        BY <2>3, <3>1, <3>2, <4>2 DEF NumInv, OneOpens, Opens
      <4> QED  BY <1>2, <1>3, <3>1, <3>2, <4>1, <4>3 DEF Counts
    <3>3. ASSUME v.op # "create", NEW d \in DOMAIN v.wrote PROVE v.wrote[d].number = rows'[d].number
      <4>1. d \in DOMAIN v.new /\ rows[d].state # "absent"
        BY <3>1, <3>3 DEF Sound, Pending
      <4>2. d \in Cases
        <5>1. v.wrote \in Partial(RowRecs)
          BY <3>1 DEF TxRecs
        <5> QED  BY <3>3, <5>1, PartialDef
      <4>3. d # c
        BY <1>3, <4>1 DEF There
      <4> QED  BY <1>3, <3>1, <3>3, <4>2, <4>3 DEF Counts
    <3> QED  BY <1>2, <1>3, <2>1, <3>2, <3>3 DEF Counts, Known
  <2> QED  BY <2>2, <2>3
<1>7. OneOpens'
  BY <1>4 DEF NumInv, OneOpens, Opens, NoTx
<1> QED  BY <1>5, <1>6, <1>7 DEF NumInv

LEMMA NextKeepsNumbers ==
  ASSUME NumInv, [Next]_vars
  PROVE  NumInv'
<1>1. Inv'
  BY NextKeepsInv DEF NumInv
<1>2. ASSUME NEW p \in Procs, RollBack(p) PROVE NumInv'
  BY <1>1, <1>2, NoTxIsModest, ModestMoves DEF RollBack, Goes
<1>3. ASSUME NEW p \in Procs, Advance(p) PROVE NumInv'
  <2>1. CASE BreakDeadlock(p)
    BY <1>2, <2>1 DEF BreakDeadlock
  <2> QED  BY <1>1, <1>3, <2>1, TakeNumberCounted, InsertCaseCounted, FindCasesCounted, CheckCounted,
              WriteCounted, LiftCounted, WriteLineCounted, ModestCommit, OpeningCounted DEF Advance
<1>4. ASSUME NEW p \in Procs, Fail(p) PROVE NumInv'
  BY <1>1, <1>4, NoTxIsModest, ModestMoves DEF Fail
<1>5. CASE TimePasses \/ UNCHANGED vars
  <2>1. rows' = rows /\ tx' = tx
    BY <1>5 DEF TimePasses, vars
  <2>2. There' = There /\ Numbered' /\ OneOpens'
    BY <2>1 DEF NumInv, There, Numbered, OneOpens, Opens
  <2>3. \A q \in Procs : Counts(tx[q])'
    BY <2>1, <2>2 DEF NumInv, Counts, Known
  <2> QED  BY <1>1, <2>2, <2>3 DEF NumInv
<1> QED  BY <1>1, <1>3, <1>4, <1>5, StartCounted, WakeCounted DEF Next

LEMMA NumbersHold == Spec => []NumInv
<1>1. NumInv /\ [Next]_vars => NumInv'
  BY NextKeepsNumbers
<1> QED  BY <1>1, InitNumbers, PTL DEF Spec

\* An insert is refused when two numbers it took were taken, so two other cases were opened.
LEMMA RefusedForTwo ==
  ASSUME NumInv, NEW w \in Procs, InsertCase(w), tx'[w].op # "create"
  PROVE  Cardinality({d \in There : tx[w].saw[d].state = "absent"}) >= 2 /\ rows' = rows
<1> DEFINE t == tx[w]
<1>1. /\ t.step = "insert" /\ rows' = rows
      /\ tx' = [tx EXCEPT ![w] = tx'[w]]
  BY DEF InsertCase, Goes, RollBack, NumInv, Inv, Types
<1>2. /\ t.op = "create" /\ t.tries \in {0, 1} /\ t \in TxRecs /\ DOMAIN t = DOMAIN NoTx
  BY <1>1, OpeningSteps, TxFacts DEF NumInv
<1>3. t.tries = 1 /\ \E d \in Cases : rows[d].number = t.number
  BY <1>2 DEF InsertCase, Goes, Writing, NoTx, NumInv, Inv, Types
<1>4. PICK n \in Nat, k \in Nat : n = Cardinality(There) /\ k = Cardinality(Known(t))
  BY CasesAreCounted
<1>5. Known(t) \subseteq There /\ k + 1 < t.number /\ t.number \in Nat
  BY <1>1, <1>2, <1>3, <1>4 DEF NumInv, Counts, TxRecs
<1>6. t.number <= n
  <2>1. PICK d \in Cases : rows[d].number = t.number
    BY <1>3
  <2>2. d \in There
    BY <1>5, <2>1 DEF NumInv, Numbered
  <2>3. rows[d].number \in 1..n
    BY <1>4, <2>2 DEF NumInv, Numbered
  <2> QED  BY <2>1, <2>3
<1>7. {d \in There : t.saw[d].state = "absent"} = There \ Known(t)
  BY DEF There, Known
<1>8. Cardinality(There \ Known(t)) = n - k
  <2>1. PICK A, B : A = There /\ B = Known(t)
    OBVIOUS
  <2>2. IsFiniteSet(A) /\ IsFiniteSet(B) /\ A \intersect B = B
    BY <1>5, <2>1, CasesAreCounted
  <2>3. Cardinality(A \ B) = Cardinality(A) - Cardinality(A \intersect B)
    BY <2>2, FS_Difference
  <2> QED  BY <1>4, <2>1, <2>2, <2>3
<1>9. n - k >= 2
  BY <1>4, <1>5, <1>6
<1> QED  BY <1>1, <1>7, <1>8, <1>9

\* A case opens under the next number, with no gap and no repeat, however many creations overlap;
\* its creation is refused only when two others were opened since it began.
THEOREM NumbersFollowOn == Spec => CreationsAreNumbered
<1>1. ASSUME NumInv, [Next]_vars, NEW w \in Workers,
             tx[w].op = "create", tx'[w].op # "create", faults' = faults
      PROVE  LET c == tx[w].at
                 there == {d \in Cases : rows'[d].state # "absent"}
             IN  \/ rows'[c].state = "open" /\ rows'[c].number = Cardinality(there)
                 \/ Cardinality({d \in there : tx[w].saw[d].state = "absent"}) >= 2
  <2>1. /\ w \in Procs /\ DOMAIN tx = Procs
        /\ tx[w].step \in {"number", "insert", "commit"} /\ tx[w].step # "idle"
    BY <1>1, OpeningSteps DEF Procs, NumInv, Inv, Types
  <2>2. tx' # tx
    BY <1>1
  <2>3. ASSUME NEW v \in Workers, Start(v) PROVE FALSE
    <3>1. tx[v].step = "idle" /\ \E u : tx' = [tx EXCEPT ![v] = u]
      BY <2>3 DEF Start, StartResume, StartClose, StartCreate, StartHandOver, StartWait, StartLines,
                  Request
    <3> QED  BY <1>1, <2>1, <3>1
  <2>4. ASSUME Wake PROVE FALSE
    <3>1. \E u : tx' = [tx EXCEPT ![Tick] = u]
      BY <2>4 DEF Wake, Goes
    <3> QED  BY <1>1, <2>1, <3>1, TheTickIsNoWorker
  <2>5. ASSUME NEW p \in Procs, Fail(p) PROVE FALSE
    BY <1>1, <2>5 DEF Fail, NumInv, Inv, Types
  <2>6. PICK p \in Procs : Advance(p)
    BY <1>1, <2>2, <2>3, <2>4, <2>5 DEF Next, TimePasses, vars
  <2>7. \E u : tx' = [tx EXCEPT ![p] = u]
    BY <2>6 DEF Advance, TakeNumber, InsertCase, FindCases, Check, Write, Lift, WriteLine, Commit,
                BreakDeadlock, RollBack, Goes, GoesOn
  <2>8. p = w
    BY <1>1, <2>1, <2>7
  <2>9. CASE Commit(w)
    BY <1>1, <2>1, <2>9, OpeningCommits DEF There
  <2>10. CASE InsertCase(w)
    <3>1. Cardinality({d \in There : tx[w].saw[d].state = "absent"}) >= 2 /\ rows' = rows
      BY <1>1, <2>1, <2>10, RefusedForTwo
    <3> QED  BY <3>1 DEF There
  <2>11. CASE TakeNumber(w)
    <3>1. /\ tx[w] \in TxRecs
          /\ tx' = [tx EXCEPT ![w] = [tx[w] EXCEPT !.step = "insert", !.number = NextNumber]]
      BY <1>1, <2>1, <2>11, TxFacts DEF TakeNumber, Goes, NumInv
    <3>2. tx'[w].op = tx[w].op
      BY <2>1, <3>1 DEF TxRecs
    <3> QED  BY <1>1, <3>2
  <2>12. CASE BreakDeadlock(w)
    <3>1. PICK b \in Procs : WaitsFor(b, w)
      BY <2>12 DEF BreakDeadlock
    <3>2. PICK a \in Procs : WaitsFor(w, a)
      BY <2>12 DEF BreakDeadlock
    <3>3. DOMAIN tx[w].wrote # {}
      BY <3>1 DEF WaitsFor
    <3>4. tx[w].step # "commit"
      BY <3>2 DEF WaitsFor
    <3> QED  BY <1>1, <2>1, <3>3, <3>4, OpeningSteps DEF NumInv
  <2> QED  BY <2>1, <2>6, <2>8, <2>9, <2>10, <2>11, <2>12 DEF Advance, FindCases, Check,
            Write, Lift, WriteLine
<1>2. NumInv /\ [Next]_vars
      => [\A w \in Workers :
            tx[w].op = "create" /\ tx'[w].op # "create" /\ faults' = faults =>
              LET c == tx[w].at
                  there == {d \in Cases : rows'[d].state # "absent"}
              IN  \/ rows'[c].state = "open" /\ rows'[c].number = Cardinality(there)
                  \/ Cardinality({d \in there : tx[w].saw[d].state = "absent"}) >= 2]_vars
  BY <1>1
<1> QED  BY <1>2, NumbersHold, PTL DEF Spec, CreationsAreNumbered

------------------------------------------------------------------------------
(* The row and its record as it is listed. *)

FirstOpened == \A c \in Cases : record[c] # <<>> => record[c][1].kind = "opened"

LEMMA FirstOpenedStays ==
  ASSUME NumInv, FirstOpened, [Next]_vars
  PROVE  FirstOpened'
<1>1. ASSUME record' = record PROVE FirstOpened'
  BY <1>1 DEF FirstOpened
<1>2. ASSUME NEW p \in Procs, Commit(p) PROVE FirstOpened'
  <2> SUFFICES ASSUME NEW c \in Cases, record'[c] # <<>> PROVE record'[c][1].kind = "opened"
    BY DEF FirstOpened
  <2>1. PICK t : t = tx[p]
    OBVIOUS
  <2>2. t \in TxRecs /\ Pending(t) /\ RecordHolds /\ Types /\ Counts(t)
    BY <2>1, TxFacts DEF NumInv
  <2>3. record'[c] = record[c] \o NewOf(t, c) /\ record[c] \in Seq(Entries)
    BY <1>2, <2>1, <2>2 DEF Commit, Types
  <2>4. NewOf(t, c) \in Seq(Entries)
    BY <2>2, NewOfType
  <2>5. CASE record[c] # <<>>
    <3>1. record'[c][1] = record[c][1]
      BY <2>3, <2>4, <2>5
    <3> QED  BY <2>5, <3>1 DEF FirstOpened
  <2>6. CASE record[c] = <<>>
    <3>1. record'[c] = NewOf(t, c) /\ NewOf(t, c) # <<>>
      BY <2>3, <2>4, <2>6
    <3>2. c \in DOMAIN t.new /\ NewOf(t, c) = t.new[c]
      BY <3>1 DEF NewOf
    <3>3. t.op = "create"
      BY <2>2, <2>6, <3>2 DEF Pending, RecordHolds
    <3> QED  BY <2>2, <3>1, <3>2, <3>3 DEF Counts
  <2> QED  BY <2>5, <2>6
<1>3. ASSUME NEW p \in Procs, Advance(p), ~Commit(p) PROVE record' = record
  BY <1>3 DEF Advance, TakeNumber, InsertCase, FindCases, Check, Write, Lift, WriteLine,
              BreakDeadlock, RollBack, Goes, GoesOn
<1>4. ASSUME NEW w \in Workers, Start(w) PROVE record' = record
  BY <1>4 DEF Start, StartResume, StartClose, StartCreate, StartHandOver, StartWait, StartLines,
              Request
<1>5. Wake \/ TimePasses \/ UNCHANGED vars \/ (\E p \in Procs : Fail(p)) => record' = record
  BY DEF Wake, Goes, TimePasses, vars, Fail
<1> QED  BY <1>1, <1>2, <1>3, <1>4, <1>5 DEF Next

LEMMA OpenedFirst == Spec => [](NumInv /\ FirstOpened)
<1>1. Init => FirstOpened
  <2> SUFFICES ASSUME Init, NEW c \in Cases, record[c] # <<>> PROVE record[c][1].kind = "opened"
    BY DEF FirstOpened
  <2>1. PICK start \in Starts : record = [d \in Cases |-> FirstRecord(start, d)]
    BY Zenon DEF Init, FirstRecord
  <2>2. record[c] = FirstRecord(start, c) /\ start[c] \in -1..MaxDay
    BY <2>1, StartsAreDays
  <2>3. start[c] = -1 \/ start[c] = None \/ start[c] > None
    BY <2>2, BoundsAreNumbers DEF None
  <2>4. Entry("opened", 0, Opener, 0, 0).kind = "opened"
    BY DEF Entry
  <2> HIDE DEF Entry
  <2> QED  BY <2>2, <2>3, <2>4 DEF FirstRecord, None
<1>2. NumInv /\ FirstOpened /\ [Next]_vars => (NumInv /\ FirstOpened)'
  BY NextKeepsNumbers, FirstOpenedStays
<1> QED  BY <1>1, <1>2, InitNumbers, PTL DEF Spec

\* Of some entries one is listed last.
LEMMA NewestExists ==
  ASSUME Types, NEW c \in Cases, NEW kinds, EntriesOf(c, kinds) # {}
  PROVE  Newest(c, kinds) \in EntriesOf(c, kinds)
<1> DEFINE I == EntriesOf(c, kinds)
           stamp(i) == record[c][i].stamp
           S == {stamp(i) : i \in I}
<1>1. record[c] \in Seq(Entries) /\ I \subseteq 1..Len(record[c]) /\ Len(record[c]) \in Nat
  BY DEF Types, EntriesOf
<1>2. \A i \in I : i \in Nat /\ stamp(i) \in Nat
  <2> SUFFICES ASSUME NEW i \in I PROVE i \in Nat /\ stamp(i) \in Nat
    OBVIOUS
  <2>1. record[c][i] \in Entries
    BY <1>1
  <2> QED  BY <1>1, <2>1 DEF Entries
<1>3. IsFiniteSet(I) /\ I \in SUBSET Nat
  <2> HIDE DEF I
  <2>1. IsFiniteSet(1..Len(record[c]))
    BY <1>1, FS_Interval
  <2> QED  BY <1>1, <1>2, <2>1, FS_Subset
<1>4. S \in SUBSET Nat /\ S # {}
  BY <1>2
<1>5. IsFiniteSet(S)
  <2> DEFINE f == [i \in I |-> stamp(i)]
  <2>1. f \in Surjection(I, S)
    BY DEF Surjection
  <2> HIDE DEF f, I, S
  <2> QED  BY <1>3, <2>1, FS_Surjection
<1>6. PICK s \in S : \A n \in S : n <= s
  <2> HIDE DEF S
  <2> QED  BY <1>4, <1>5, FiniteHasMax
<1> DEFINE J == {i \in I : stamp(i) = s}
<1>7. J \in SUBSET Nat /\ J # {} /\ IsFiniteSet(J)
  BY <1>2, <1>3, <1>6, FS_Subset
<1>8. PICK i \in J : \A j \in J : j <= i
  <2> HIDE DEF J
  <2> QED  BY <1>7, FiniteHasMax
<1>9. ASSUME NEW j \in I \ {i} PROVE ListedBefore(c, j, i)
  <2>1. stamp(j) <= s /\ stamp(i) = s /\ stamp(j) \in Nat /\ s \in Nat /\ i \in Nat /\ j \in Nat
    BY <1>2, <1>4, <1>6, <1>8
  <2>2. stamp(j) < s \/ (stamp(j) = s /\ j <= i)
    BY <1>8, <2>1
  <2> QED  BY <1>9, <2>1, <2>2 DEF ListedBefore
<1>10. \E k \in EntriesOf(c, kinds) : \A j \in EntriesOf(c, kinds) \ {k} : ListedBefore(c, j, k)
  BY <1>8, <1>9
<1> HIDE DEF I
<1> QED  BY <1>10 DEF Newest

\* Which entries say a column, and that they say it whatever it was.
LEMMA ColumnsSaid ==
  ASSUME NEW core \in Cores, NEW e \in Entries
  PROVE  LET to == Replayed(core, e)
             said == Replayed(Unopened, e)
         IN  /\ to.state = IF e.kind \in OfState THEN said.state ELSE core.state
             /\ to.until = IF e.kind \in OfDate THEN said.until ELSE core.until
             /\ to.owner = IF e.kind \in OfOwner THEN said.owner ELSE core.owner
<1>1. core = [state |-> core.state, until |-> core.until, owner |-> core.owner]
  BY DEF Cores
<1>2. e.kind \in Kinds
  BY DEF Entries
<1>3. CASE e.kind = "opened"
  BY <1>3 DEF Replayed, OfState, OfDate, OfOwner
<1>4. CASE e.kind = "waiting_set"
  BY <1>1, <1>4 DEF Replayed, Unopened, OfState, OfDate, OfOwner
<1>5. CASE e.kind = "waiting_lifted"
  BY <1>1, <1>5 DEF Replayed, Unopened, OfState, OfDate, OfOwner
<1>6. CASE e.kind = "handed_over"
  BY <1>1, <1>6 DEF Replayed, Unopened, OfState, OfDate, OfOwner
<1>7. CASE e.kind = "closed"
  BY <1>1, <1>7 DEF Replayed, Unopened, OfState, OfDate, OfOwner
<1>8. CASE e.kind = "line"
  BY <1>8 DEF Replayed, OfState, OfDate, OfOwner
<1> QED  BY <1>2, <1>3, <1>4, <1>5, <1>6, <1>7, <1>8 DEF Kinds

\* However the transactions of a case overlap, its row is what its record says: each column is
\* what the newest entry that says it says, as the record is listed, unless one that says it was
\* written after that entry under an instant taken before.
THEOREM RowsFollowRecords == Spec => []RowFollowsRecord
<1>1. ASSUME NumInv, FirstOpened, NEW c \in Cases, rows[c].state # "absent",
             NEW kinds \in {OfState, OfDate, OfOwner}, ~Overtaken(c, kinds),
             NEW i, i = Newest(c, kinds), NEW said, said = Replayed(Unopened, record[c][i])
      PROVE  /\ kinds = OfState => rows[c].state = said.state
             /\ kinds = OfDate => rows[c].until = said.until
             /\ kinds = OfOwner => rows[c].owner = said.owner
  <2>1. PICK s \in Seq(Entries) : s = record[c]
    BY <1>1 DEF NumInv, Inv, Types
  <2>2. /\ Core(rows[c]) = Course(Unopened, s)[Len(s)] /\ s # <<>> /\ s[1].kind = "opened"
        /\ MaxDay \in Nat /\ Unopened \in Cores /\ Len(s) \in Nat /\ Types
    BY <1>1, <2>1, BoundsAreNumbers, UnopenedType
       DEF NumInv, Inv, RecordHolds, After, FirstOpened
  <2>3. "opened" \in kinds
    BY DEF OfState, OfDate, OfOwner
  <2>4. 1 \in EntriesOf(c, kinds)
    BY <2>1, <2>2, <2>3 DEF EntriesOf
  <2>5. i \in EntriesOf(c, kinds)
    BY <1>1, <2>2, <2>4, NewestExists
  <2>6. i \in 1..Len(s) /\ s[i] \in Entries /\ s[i].kind \in kinds
    BY <2>1, <2>5 DEF EntriesOf
  <2>7. \A j \in i + 1 .. Len(s) : s[j].kind \notin kinds
    <3> SUFFICES ASSUME NEW j \in i + 1 .. Len(s), s[j].kind \in kinds PROVE FALSE
      OBVIOUS
    <3>1. j \in EntriesOf(c, kinds) /\ j > i
      BY <2>1, <2>6 DEF EntriesOf
    <3> QED  BY <1>1, <3>1 DEF Overtaken
  <2> DEFINE C == Course(Unopened, s)
             says(core) == /\ kinds = OfState => core.state = said.state
                           /\ kinds = OfDate => core.until = said.until
                           /\ kinds = OfOwner => core.owner = said.owner
             Good == {core \in Cores : says(core)}
  <2>8. C[i] = Replayed(C[i - 1], s[i]) /\ C[i - 1] \in Cores /\ C[i] \in Cores /\ C[Len(s)] \in Cores
    <3>1. i - 1 \in 0..Len(s) /\ i \in 0..Len(s) /\ Len(s) \in 0..Len(s)
      BY <2>2, <2>6
    <3> HIDE DEF C
    <3> QED  BY <2>2, <2>6, <3>1, CourseDef, CourseType DEF C
  <2>9. C[i] \in Good
    <3> HIDE DEF C
    <3> QED  BY <1>1, <2>1, <2>6, <2>8, ColumnsSaid
  <2>10. C[Len(s)] \in Good
    <3> SUFFICES ASSUME C[Len(s)] \notin Good PROVE FALSE
      OBVIOUS
    <3>1. i \in 0..Len(s) /\ Len(s) \in i..Len(s)
      BY <2>2, <2>6
    <3> HIDE DEF Good
    <3>2. PICK j \in i + 1 .. Len(s), core \in Cores :
            s[j] \in Entries /\ core \in Good /\ Replayed(core, s[j]) \in Cores \ Good
      BY <2>2, <2>9, <3>1, Between
    <3>3. s[j].kind \notin kinds /\ says(core)
      BY <2>7, <3>2 DEF Good
    <3>4. says(Replayed(core, s[j]))
      BY <3>2, <3>3, ColumnsSaid
    <3> QED  BY <3>2, <3>4 DEF Good
  <2>11. Core(rows[c]) = C[Len(s)]
    BY <2>2
  <2> HIDE DEF C
  <2> QED  BY <2>10, <2>11 DEF Core
<1>2. NumInv /\ FirstOpened => RowFollowsRecord
  BY <1>1 DEF RowFollowsRecord
<1> QED  BY <1>2, OpenedFirst, PTL

=============================================================================

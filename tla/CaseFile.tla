------------------------------ MODULE CaseFile ------------------------------
(***************************************************************************)
(* The cases of one tenant: the row a case has, the append-only record of  *)
(* its milestones and system lines, and the transactions that write them   *)
(* (src/core/repositories/case_repository.py, src/web/routes/cases.py,     *)
(* src/services/cases/system_lines.py, the wake-up tick).                  *)
(*                                                                         *)
(* Transactions run at READ COMMITTED and overlap.  A read sees what is    *)
(* committed and the transaction's own writes; an UPDATE of a case waits   *)
(* for the transaction that wrote the row last, then changes the columns   *)
(* it names on the row as it has become; all locks are held to the end.    *)
(* What a transaction adds to the record carries the instant its caller    *)
(* took before its reads, not that of the write; the record is listed by   *)
(* these instants.                                                         *)
(* Who a case was shown to and what its milestones say is left out; the    *)
(* working file that hangs on a case is left out too.                      *)
(***************************************************************************)
EXTENDS Integers, Sequences, FiniteSets, FiniteSetsExt

CONSTANTS
  Cases,       \* the cases that exist or may be opened
  Starts,      \* the day each case waits for when the model begins: 0 is open, -1 no case
  Users,       \* the tenant's users
  Opener,      \* the one who opened those
  Workers,     \* requests in flight at one time
  Tick,        \* the tick runner's wake-up transaction
  Events,      \* events that write a line, each with its dedup subject
  Touched,     \* Touched[e]: the cases an event concerns
  ReadInTurn,  \* events whose writer reads each case just before its line
  MaxDay, MaxRequests, MaxFaults

ASSUME CasesAreNumbers == Cases \subseteq Nat \ {0} /\ IsFiniteSet(Cases)
ASSUME StartsAreDays == Opener \in Users /\ Starts \subseteq [Cases -> -1..MaxDay]
ASSUME EventsTouchCases == ReadInTurn \subseteq Events /\ Touched \in [Events -> SUBSET Cases]
ASSUME TheTickIsNoWorker == Tick \notin Workers
ASSUME BoundsAreNumbers == MaxDay \in Nat \ {0} /\ MaxRequests \in Nat /\ MaxFaults \in Nat

VARIABLES
  rows,      \* rows[c]: the committed row of a case
  record,    \* record[c]: its committed entries, in the order they were written
  day,       \* the date, in days
  clock,     \* the instants taken by requests so far
  tx,        \* tx[p]: the transaction in flight of a process
  requests, faults

vars == <<rows, record, day, clock, tx, requests, faults>>

Procs == Workers \union {Tick}
None == 0
Nobody == "nobody"
Absent == [state |-> "absent", until |-> None, owner |-> Nobody, number |-> None]
Mutable == {"open", "waiting"}
States == Mutable \union {"absent", "closed"}
Kinds == {"opened", "waiting_set", "waiting_lifted", "handed_over", "closed", "line"}
Ops == {"create", "wait", "resume", "close", "hand_over", "line", "wake"}

NoTx == [op |-> "none", step |-> "idle", at |-> None, left |-> {}, arg |-> None, number |-> None,
         stamp |-> 0, tries |-> 0, saw |-> <<>>, seen |-> <<>>, wrote |-> <<>>, new |-> <<>>]

TypeOK ==
  /\ \A c \in Cases :
       /\ rows[c].state \in States /\ rows[c].until \in 0..MaxDay
       /\ rows[c].owner \in Users \union {Nobody}
       /\ rows[c].state = "absent" <=> record[c] = <<>>
       /\ rows[c].state = "waiting" => rows[c].until > 0
       /\ \A i \in DOMAIN record[c] : record[c][i].kind \in Kinds /\ record[c][i].seen < i
  /\ day \in 1..MaxDay /\ clock \in Nat
  /\ \A p \in Procs :
       /\ tx[p].op \in Ops \union {"none"}
       /\ tx[p].step \in
            {"idle", "number", "insert", "read", "check", "write", "line", "lift", "commit"}
       /\ DOMAIN tx[p].new = DOMAIN tx[p].wrote \/ tx[p].op = "line"
       /\ \A q \in Procs \ {p} : DOMAIN tx[p].wrote \intersect DOMAIN tx[q].wrote = {}
  /\ requests \in 0..MaxRequests /\ faults \in 0..MaxFaults

Entry(kind, seen, what, on, stamp) ==
  [kind |-> kind, seen |-> seen, what |-> what, on |-> on, stamp |-> stamp]

\* The instants a request and a tick take now; no two requests take the same.
Now == 2 * clock + 3
NowOfTick == 2 * clock + 2

\* On day 1: opened by one user one after the other the day before, some set waiting.
Init ==
  \E start \in Starts :
    /\ rows = [c \in Cases |-> IF start[c] = -1 THEN Absent ELSE
                 [state |-> IF start[c] = None THEN "open" ELSE "waiting", until |-> start[c],
                  owner |-> Opener,
                  number |-> Cardinality({d \in Cases : start[d] # -1 /\ d <= c})]]
    /\ record = [c \in Cases |->
         CASE start[c] = -1 -> <<>>
           [] start[c] = None -> <<Entry("opened", 0, Opener, 0, 0)>>
           [] start[c] > None -> <<Entry("opened", 0, Opener, 0, 0),
                                   Entry("waiting_set", 1, start[c], 0, 1)>>]
    /\ day = 1 /\ clock = 0
    /\ tx = [p \in Procs |-> NoTx]
    /\ requests = 0 /\ faults = 0

------------------------------------------------------------------------------
(* Reading and writing under READ COMMITTED. *)

View(p, c) == IF c \in DOMAIN tx[p].wrote THEN tx[p].wrote[c] ELSE rows[c]

\* A slip: nothing holds an UPDATE back.
LockedFromNobody(p, c) == FALSE

LockedFrom(p, c) == \E q \in Procs \ {p} : c \in DOMAIN tx[q].wrote

\* A slip: the UPDATE writes back every column as the transaction first read it.
UpdatedFromRead(p, c) == tx[p].saw[c]

\* The row an UPDATE finds once it has the lock: committed, or the transaction's own.
Updated(p, c) == View(p, c)

\* The entries a transaction adds to a case; and with one more.
NewOf(t, c) == IF c \in DOMAIN t.new THEN t.new[c] ELSE <<>>

Adding(t, c, entry) ==
  [d \in DOMAIN t.new \union {c} |-> IF d = c THEN Append(NewOf(t, c), entry) ELSE t.new[d]]

\* The transaction with this row written and this entry after its others.
Writing(p, c, row, entry) ==
  [tx[p] EXCEPT !.wrote = [d \in DOMAIN @ \union {c} |-> IF d = c THEN row ELSE @[d]],
                !.new = Adding(tx[p], c, entry)]

Seen == [c \in Cases |-> Len(record[c])]

\* A transaction whose reads found the cases as they are now, at its next statement; some
\* take more cases in turn.
BegunWith(op, c, arg, step, left, stamp) ==
  [op |-> op, step |-> step, at |-> c, left |-> left, arg |-> arg, number |-> None,
   stamp |-> stamp, tries |-> 0, saw |-> rows, seen |-> Seen, wrote |-> <<>>, new |-> <<>>]

\* One that takes its instant now.
Begun(op, c, arg, step) == BegunWith(op, c, arg, step, {}, Now)

Request(w, t) ==
  /\ tx[w].step = "idle" /\ requests < MaxRequests
  /\ tx' = [tx EXCEPT ![w] = t]
  /\ requests' = requests + 1 /\ clock' = clock + 1
  /\ UNCHANGED <<rows, record, day, faults>>

Goes(p, t) ==
  tx' = [tx EXCEPT ![p] = t] /\ UNCHANGED <<rows, record, day, clock, requests, faults>>

\* Refused or failed: the transaction rolls back, and nothing was written.
RollBack(p) == Goes(p, NoTx)

Commit(p) ==
  /\ tx[p].step = "commit"
  /\ rows' = [c \in Cases |-> View(p, c)]
  /\ record' = [c \in Cases |-> record[c] \o NewOf(tx[p], c)]
  /\ tx' = [tx EXCEPT ![p] = NoTx]
  /\ UNCHANGED <<day, clock, requests, faults>>

------------------------------------------------------------------------------
(* Opening a case. *)

StartCreate(w, c, u) ==
  /\ rows[c].state = "absent" /\ \A p \in Procs : tx[p].op = "create" => tx[p].at # c
  /\ Request(w, Begun("create", c, u, "number"))

\* A slip: the next number counts the cases that are not closed.
NextNumberOfOpen == Cardinality({c \in Cases : rows[c].state \in Mutable}) + 1

NextNumber == Max({rows[c].number : c \in Cases}) + 1

TakeNumber(w) ==
  /\ tx[w].step = "number"
  /\ Goes(w, [tx[w] EXCEPT !.step = "insert", !.number = NextNumber])

\* The unique index makes an insert wait for one of the same number in flight.
NumberPending(w) ==
  \E q \in Procs \ {w} : \E c \in DOMAIN tx[q].wrote :
    tx[q].op = "create" /\ tx[q].wrote[c].number = tx[w].number

\* A number taken meanwhile is read again, once; a second collision is raised.
InsertCase(w) ==
  /\ tx[w].step = "insert" /\ ~NumberPending(w)
  /\ LET c == tx[w].at
         row == [state |-> "open", until |-> None, owner |-> tx[w].arg, number |-> tx[w].number]
     IN  IF \A d \in Cases : rows[d].number # tx[w].number
         THEN Goes(w, [Writing(w, c, row, Entry("opened", 0, tx[w].arg, day, tx[w].stamp))
                         EXCEPT !.step = "commit"])
         ELSE IF tx[w].tries = 0
              THEN Goes(w, [tx[w] EXCEPT !.step = "number", !.tries = 1])
              ELSE RollBack(w)

------------------------------------------------------------------------------
(* The PM's gestures: the route reads the case and takes the instant, the *)
(* repository reads it again, then writes.                                 *)

StartWait(w, c, u) ==
  /\ rows[c].state = "open" /\ u > day
  /\ Request(w, Begun("wait", c, u, "check"))

StartResume(w, c) ==
  /\ rows[c].state = "waiting"
  /\ Request(w, Begun("resume", c, None, "lift"))

StartHandOver(w, c, u) ==
  /\ rows[c].state \in Mutable /\ u # rows[c].owner
  /\ Request(w, Begun("hand_over", c, u, "check"))

\* A slip: a case is closed whatever it was read as.
MayCloseAny(state) == TRUE

MayClose(state) == state \in Mutable

\* A waiting case is lifted first, in the transaction that closes it.
StartClose(w, c) ==
  /\ rows[c].state # "absent" /\ MayClose(rows[c].state)
  /\ Request(w, Begun("close", c, None, IF rows[c].state = "waiting" THEN "lift" ELSE "check"))

\* Only an open case is set waiting or closed; it is handed to one who does not own it.
Allows(row, t) ==
  CASE t.op = "wait" -> row.state = "open"
    [] t.op = "hand_over" -> row.state \in Mutable /\ row.owner # t.arg
    [] t.op = "close" -> MayClose(row.state) /\ row.state # "waiting"

\* wait, hand_over and close read the case, and refuse one that has changed by now.
Check(w) ==
  /\ tx[w].step = "check"
  /\ IF Allows(View(w, tx[w].at), tx[w])
     THEN Goes(w, [tx[w] EXCEPT !.step = "write", !.seen = Seen])
     ELSE RollBack(w)

\* The UPDATE of wait, hand_over and close asks nothing of the row it finds.
Write(w) ==
  /\ tx[w].step = "write" /\ ~LockedFrom(w, tx[w].at)
  /\ LET t == tx[w]
         c == t.at
         found == Updated(w, c)
         row == CASE t.op = "wait" -> [found EXCEPT !.state = "waiting", !.until = t.arg]
                  [] t.op = "hand_over" -> [found EXCEPT !.owner = t.arg]
                  [] t.op = "close" -> [found EXCEPT !.state = "closed"]
         kind == CASE t.op = "wait" -> "waiting_set"
                   [] t.op = "hand_over" -> "handed_over"
                   [] t.op = "close" -> "closed"
     IN  Goes(w, [Writing(w, c, row, Entry(kind, t.seen[c], t.arg, day, t.stamp))
                    EXCEPT !.step = "commit"])

------------------------------------------------------------------------------
(* Lifting a wait: by hand, before a close, by a line, by the tick. *)

\* The order of the due query, date then number, and of the cases of an event.
Before(t, c, d) ==
  \/ t.op = "wake" /\ t.saw[c].until < t.saw[d].until
  \/ /\ t.op = "wake" => t.saw[c].until = t.saw[d].until
     /\ t.saw[c].number < t.saw[d].number

NextOf(t) == CHOOSE c \in t.left : \A d \in t.left : ~Before(t, d, c)

\* The transaction at the next of the cases left to it, or done with them.
Turn(p, t) ==
  IF t.left = {} THEN [t EXCEPT !.step = "commit"]
  ELSE LET c == NextOf(t)
           turn == [t EXCEPT !.at = c, !.left = @ \ {c},
                             !.step = IF t.op = "wake" THEN "lift" ELSE "line"]
       IN  IF t.op = "wake" \/ t.arg \notin ReadInTurn THEN turn
           ELSE [turn EXCEPT !.saw[c] = View(p, c), !.seen[c] = Len(record[c])]

Reason(t) == CASE t.op = "wake" -> "date" [] t.op = "line" -> "event" [] OTHER -> "manual"

\* Done with a case: a close that found it waiting takes an instant of its own.
AfterLift(p, t) ==
  CASE t.op \in {"wake", "line"} -> Turn(p, t)
    [] t.op = "resume" -> [t EXCEPT !.step = "commit"]
    [] t.op = "close" -> [t EXCEPT !.step = "check", !.stamp = Now]

GoesOn(p, t) ==
  /\ tx' = [tx EXCEPT ![p] = AfterLift(p, t)]
  /\ clock' = IF t.op = "close" THEN clock + 1 ELSE clock
  /\ UNCHANGED <<rows, record, day, requests, faults>>

\* A slip: the UPDATE of a lift holds no condition on the state.
StillWaitingOrNot(p, c) == TRUE

\* The lift's UPDATE matches a case only while it waits (D-CS-B-72).
StillWaiting(p, c) == View(p, c).state = "waiting"

Lift(p) ==
  /\ tx[p].step = "lift"
  /\ LET t == tx[p]
         c == t.at
         row == [Updated(p, c) EXCEPT !.state = "open", !.until = None]
     IN  IF StillWaiting(p, c)
         THEN /\ ~LockedFrom(p, c)
              /\ GoesOn(p, Writing(p, c, row,
                     Entry("waiting_lifted", t.seen[c], Reason(t), day, t.stamp)))
         ELSE IF t.op \in {"wake", "resume"} THEN RollBack(p) ELSE GoesOn(p, t)

\* A slip: the tick looks for waits that ended before today.
IsDueBefore(c, today) == rows[c].state = "waiting" /\ rows[c].until < today

IsDue(c, today) == rows[c].state = "waiting" /\ rows[c].until <= today

\* The tick takes its instant, and from it the day.
Wake ==
  /\ tx[Tick].step = "idle"
  /\ Goes(Tick, BegunWith("wake", None, day, "read", {}, NowOfTick))

------------------------------------------------------------------------------
(* System lines: something happened to what a case is about. *)

StartLines(w, e) == Request(w, Begun("line", None, e, "read"))

\* The cases a transaction is for: those due, all lifted or none, or those an event concerns.
Found(t) ==
  IF t.op = "wake" THEN {c \in Cases : IsDue(c, t.arg)}
  ELSE {c \in Touched[t.arg] : rows[c].state \in Mutable}

FindCases(p) ==
  /\ tx[p].step = "read"
  /\ LET t == tx[p]
         step == IF t.op = "wake" THEN "lift" ELSE "line"
     IN  Goes(p, Turn(p, BegunWith(t.op, None, t.arg, step, Found(t), t.stamp)))

HasLine(p, c, e) ==
  \E i \in DOMAIN record[c] : record[c][i].kind = "line" /\ record[c][i].what = e

\* A slip: the wait is lifted by every line but the one just written.
WakesNever(p, c) == FALSE

\* A line wakes the case the writer had read as waiting.
Wakes(p, c) == tx[p].saw[c].state = "waiting"

\* A closed case and a repeated line are skipped; a written line may wake the case.
WriteLine(p) ==
  /\ tx[p].step = "line"
  /\ LET t == tx[p]
         c == t.at
         lined == [t EXCEPT !.new = Adding(t, c, Entry("line", t.seen[c], t.arg, day, t.stamp))]
     IN  IF View(p, c).state \notin Mutable \/ HasLine(p, c, t.arg) THEN Goes(p, Turn(p, t))
         ELSE IF Wakes(p, c) THEN Goes(p, [lined EXCEPT !.step = "lift"])
              ELSE Goes(p, Turn(p, lined))

------------------------------------------------------------------------------
(* Failures, time and the specification. *)

WaitsFor(p, q) ==
  /\ p # q
  /\ \/ /\ tx[p].step \in {"write", "lift"} /\ tx[p].at \in DOMAIN tx[q].wrote
        /\ tx[p].step = "lift" => StillWaiting(p, tx[p].at)
     \/ /\ tx[p].step = "insert" /\ tx[q].op = "create"
        /\ \E c \in DOMAIN tx[q].wrote : tx[q].wrote[c].number = tx[p].number

\* Two transactions that lock the cases in different orders: the database ends one.
BreakDeadlock(p) ==
  /\ \E cycle \in SUBSET Procs :
       /\ p \in cycle
       /\ \A a \in cycle : (\E b \in cycle : WaitsFor(a, b)) /\ (\E b \in cycle : WaitsFor(b, a))
  /\ RollBack(p)

\* The connection is lost or the process ends.
Fail(p) ==
  /\ tx[p].step # "idle" /\ faults < MaxFaults
  /\ faults' = faults + 1
  /\ tx' = [tx EXCEPT ![p] = NoTx]
  /\ UNCHANGED <<rows, record, day, clock, requests>>

TimePasses ==
  day < MaxDay /\ day' = day + 1 /\ UNCHANGED <<rows, record, clock, tx, requests, faults>>

Advance(p) ==
  \/ TakeNumber(p) \/ InsertCase(p) \/ FindCases(p) \/ Check(p) \/ Write(p) \/ Lift(p) \/ WriteLine(p)
  \/ Commit(p) \/ BreakDeadlock(p)

Start(w) ==
  \/ \E c \in Cases :
       \/ StartResume(w, c) \/ StartClose(w, c)
       \/ \E u \in Users : StartCreate(w, c, u) \/ StartHandOver(w, c, u)
       \/ \E u \in 1..MaxDay : StartWait(w, c, u)
  \/ \E e \in Events : StartLines(w, e)

Next ==
  \/ \E w \in Workers : Start(w)
  \/ Wake
  \/ \E p \in Procs : Advance(p) \/ Fail(p)
  \/ TimePasses

\* A statement ends once its lock is free, and the tick runner keeps ticking.
Fairness == WF_vars(Wake) /\ \A p \in Procs : WF_vars(Advance(p))

Spec == Init /\ [][Next]_vars /\ Fairness

------------------------------------------------------------------------------
(* Properties. *)

\* What a case must be after an entry of its record.
Replayed(row, entry) ==
  CASE entry.kind = "opened" -> [state |-> "open", until |-> None, owner |-> entry.what]
    [] entry.kind = "waiting_set" -> [row EXCEPT !.state = "waiting", !.until = entry.what]
    [] entry.kind = "waiting_lifted" -> [row EXCEPT !.state = "open", !.until = None]
    [] entry.kind = "handed_over" -> [row EXCEPT !.owner = entry.what]
    [] entry.kind = "closed" -> [row EXCEPT !.state = "closed"]
    [] entry.kind = "line" -> row

Unopened == [state |-> "absent", until |-> None, owner |-> Nobody]

\* Course(from, entries)[i]: what the case is after the first i of the entries.
Course(from, entries) ==
  LET after[i \in 0..Len(entries)] ==
        IF i = 0 THEN from ELSE Replayed(after[i - 1], entries[i])
  IN  after

\* The kinds of entries that say a case's state, its date, its owner.
OfState == {"opened", "waiting_set", "waiting_lifted", "closed"}
OfDate == OfState \ {"closed"}
OfOwner == {"opened", "handed_over"}

\* The record is listed by the instants of its entries.
ListedBefore(c, i, j) ==
  \/ record[c][i].stamp < record[c][j].stamp
  \/ record[c][i].stamp = record[c][j].stamp /\ i < j

EntriesOf(c, kinds) == {i \in DOMAIN record[c] : record[c][i].kind \in kinds}

Newest(c, kinds) ==
  CHOOSE i \in EntriesOf(c, kinds) : \A j \in EntriesOf(c, kinds) \ {i} : ListedBefore(c, j, i)

\* An entry was written after the newest of its kinds, with an older instant.
Overtaken(c, kinds) == \E j \in EntriesOf(c, kinds) : j > Newest(c, kinds)

IsDueToday(c) == rows[c].state = "waiting" /\ rows[c].until <= day

StateBefore(c, i) == Course(Unopened, record[c])[i - 1]

\* However the transactions overlap, the row holds what the record says of it: the state, the
\* date and the owner are those of the newest entries that say them, as the record is listed -
\* unless one that says the same was written later under an instant taken earlier.
RowFollowsRecord ==
  \A c \in Cases : rows[c].state # "absent" =>
    LET said(kinds) == Replayed(Unopened, record[c][Newest(c, kinds)]) IN
      /\ rows[c].state = said(OfState).state \/ Overtaken(c, OfState)
      /\ rows[c].until = said(OfDate).until \/ Overtaken(c, OfDate)
      /\ rows[c].owner = said(OfOwner).owner \/ Overtaken(c, OfOwner)

\* Every lift in a record ends a wait that was on: two processes that both found the case
\* waiting do not both lift it (D-CS-B-72).  And a lift by date ends a wait that was due, unless
\* the wait was set after the tick had read the case.
LiftsEndWaits ==
  \A c \in Cases : \A i \in DOMAIN record[c] :
    LET e == record[c][i] IN
      e.kind = "waiting_lifted" =>
        /\ StateBefore(c, i).state = "waiting"
        /\ \/ e.what # "date" \/ StateBefore(c, i).until <= e.on
           \/ \E j \in e.seen + 1 .. i - 1 : record[c][j].kind = "waiting_set"

\* A closed case refuses every write by a transaction that reads it after the close: an entry
\* that follows the close comes from one that had read the case before it.
RefusedOnceClosed ==
  \A c \in Cases : \A i \in DOMAIN record[c] :
    StateBefore(c, i).state = "closed" =>
      \E j \in record[c][i].seen + 1 .. i - 1 : record[c][j].kind = "closed"

\* A new line leaves no case waiting, unless the wait was set after its writer had read the
\* case; and a case has two lines of one subject only if their writers overlapped.
LinesWakeOnce ==
  \A c \in Cases : \A i \in DOMAIN record[c] :
    LET e == record[c][i] IN
      e.kind = "line" =>
        /\ \A j \in 1..e.seen : record[c][j].kind = "line" => record[c][j].what # e.what
        /\ \/ rows[c].state # "waiting"
           \/ \E j \in e.seen + 1 .. Len(record[c]) : record[c][j].kind = "waiting_set"

\* Opening a case gives it the next number without a gap or a repeat, though two requests read
\* the same highest number; it is refused only when two others were opened since it began.
CreationsAreNumbered ==
  [][\A w \in Workers :
       tx[w].op = "create" /\ tx'[w].op # "create" /\ faults' = faults =>
         LET c == tx[w].at
             there == {d \in Cases : rows'[d].state # "absent"}
         IN  \/ rows'[c].state = "open" /\ rows'[c].number = Cardinality(there)
             \/ Cardinality({d \in there : tx[w].saw[d].state = "absent"}) >= 2]_vars

\* A wait whose date has come ends: again and again no such wait is left, though the tick's
\* transaction fails as a whole when one of its cases was lifted meanwhile, and may lose a
\* deadlock against a writer of lines.
DueWaitsEnd == []<>(\A c \in Cases : ~IsDueToday(c))
=============================================================================

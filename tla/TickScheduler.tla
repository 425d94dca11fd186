---------------------------- MODULE TickScheduler ----------------------------
(***************************************************************************)
(* The periodic jobs of PortfoliFLOW: the tick loop inside the web process *)
(* and the command-line ticks that may run beside it.  A tick walks its    *)
(* domains one after the other; in each it reads across tenants who is     *)
(* due, and gives every due tenant a transaction of its own, which opens   *)
(* by claiming the tenant's advisory lock and ends by moving the           *)
(* schedule on (src/services/scheduler/tick_runner.py).                    *)
(*                                                                         *)
(* Time is counted in the units of the shortest cadence.  A cadence steps  *)
(* on the wall clock of the schedule's timezone, which one change of its   *)
(* offset sets back or forward; instants are what everything else compares.*)
(* What the work of a domain does to the tenant's own tables is            *)
(* WatchBeat's and CaseFile's subject; here it succeeds, reports an error, *)
(* raises or is cut off.                                                   *)
(***************************************************************************)
EXTENDS Integers, Sequences, FiniteSets

CONSTANTS
  Tenants,     \* tenants with a schedule row in every scheduled domain
  Troubled,    \* tenants whose work never succeeds (no credential, bad data)
  Edited,      \* the tenants somebody edits the schedules of
  Enabled,     \* <<domain, tenant>>s whose schedule is enabled at first
  Sources,     \* processes that tick: the web loop, the command lines
  Isolating,   \* the sources that catch a failed domain and go on to the next
  Route,       \* Route[s]: the domains a tick of s walks, in order
  Cadences,    \* the steps a schedule may have, in units of time
  Turn,        \* the instant at which timezones change their offset
  Zones,       \* the timezones: how far each sets its clock back then, < 0 for forward
  ZoneOf,      \* ZoneOf[d][t]: the timezone of a schedule at first
  Forms,       \* what a saved schedule may say: a cadence, a timezone, enabled or not
  MaxNow,      \* bound on the clock
  MaxFaults,   \* bound on failures and crashes of healthy work
  MaxEdits     \* bound on saves of a schedule and requests for a run

Nobody == "nobody"
None == -1
Scheduled == {"irene", "market"}
Domains == Scheduled \union {"cases"}
Pairs == Scheduled \X Tenants

ASSUME RoutesAreOfSources ==
  /\ Nobody \notin Sources /\ Isolating \subseteq Sources
  /\ Troubled \subseteq Tenants /\ Edited \subseteq Tenants
  /\ Route \in [Sources -> Seq(Domains)]

ASSUME CadencesArePositive == Cadences \subseteq Nat \ {0} /\ 1 \in Cadences

ASSUME ZonesAreShifts == Turn \in Int /\ Zones \subseteq Int /\ ZoneOf \in [Scheduled -> [Tenants -> Zones]]

ASSUME FormsAreForms == Forms \subseteq [step : Cadences, zone : Zones, enabled : BOOLEAN]

ASSUME BoundsAreNumbers == MaxNow \in Nat /\ MaxFaults \in Nat /\ MaxEdits \in Nat

VARIABLES
  now,      \* the clock the due read and the routes use
  sched,    \* sched[d][t]: the tenant's schedule row of a domain
  lock,     \* the source holding each advisory lock, or Nobody
  run,      \* run[s]: where the tick of a source stands
  settled,  \* <<d, t>>s whose last mark_*_done saw the row as it still was
  asked,    \* asked[d][t]: when a run was requested that is not yet answered
  faults, edits

vars == <<now, sched, lock, run, settled, asked, faults, edits>>

NoOne == [tenant |-> Nobody, step |-> 0, zone |-> 0, rev |-> 0]

------------------------------------------------------------------------------
(* Schedules. *)

\* What the clock on the wall of a timezone shows at an instant.
Wall(at, zone) == IF at < Turn THEN at ELSE at - zone

\* The instant of a wall-clock time.  The hour a clock is set back over names its first
\* pass (fold=0); a time that does not exist is read with the offset before the gap.
Localised(wall, zone) == IF wall < Turn \/ wall + zone < Turn THEN wall ELSE wall + zone

\* The first time of the cadence's grid strictly after what the clock shows.
NextWall(at, step, zone) == (Wall(at, zone) \div step + 1) * step

\* A slip: the grid instant at or after now, so an exact hit fires again.
NextDueOrNow(at, step, zone) ==
  Localised(((Wall(at, zone) + step - 1) \div step) * step, zone)

NextDue(at, step, zone) == Localised(NextWall(at, step, zone), zone)

\* A slip: an instant is due only once it has passed.
IsDueStrictly(d, t) == sched[d][t].enabled /\ sched[d][t].due < now

IsDue(d, t) == sched[d][t].enabled /\ sched[d][t].due <= now

\* A slip: the lock is the tenant's, whatever the domain.
LockKeyOfTenant(d, t) == <<"irene", t>>

\* The lock domains keep a refresh from blocking a beat of the same tenant.
LockKey(d, t) == <<d, t>>

Idle == [at |-> None, left |-> <<>>, todo |-> {}, who |-> NoOne, pc |-> "asleep"]

TypeOK ==
  /\ now \in 0..MaxNow
  /\ \A p \in Pairs :
       /\ sched[p[1]][p[2]].enabled \in BOOLEAN
       /\ sched[p[1]][p[2]].step \in Cadences
       /\ sched[p[1]][p[2]].zone \in Zones
       /\ sched[p[1]][p[2]].due \in Int
       /\ sched[p[1]][p[2]].last \in -1..MaxNow
       /\ asked[p[1]][p[2]] \in -1..MaxNow
  /\ lock \in [Domains \X Tenants -> Sources \union {Nobody}]
  /\ \A s \in Sources :
       /\ run[s].pc \in {"asleep", "reading", "tenants", "working"}
       /\ run[s].pc # "asleep" => run[s].left # <<>>
       /\ run[s].pc = "working" => run[s].who # NoOne
  /\ settled \subseteq Pairs
  /\ faults \in 0..MaxFaults /\ edits \in 0..MaxEdits

Init ==
  /\ now = 0
  /\ sched = [d \in Scheduled |-> [t \in Tenants |->
       [enabled |-> <<d, t>> \in Enabled, step |-> 1, zone |-> ZoneOf[d][t], due |-> 0,
        last |-> None, rev |-> 0]]]
  /\ lock = [k \in Domains \X Tenants |-> Nobody]
  /\ run = [s \in Sources |-> Idle]
  /\ settled = {}
  /\ asked = [d \in Scheduled |-> [t \in Tenants |-> None]]
  /\ faults = 0 /\ edits = 0

------------------------------------------------------------------------------
(* A tick. *)

Dom(s) == Head(run[s].left)

\* The next domain of a tick: its clock is read before the harvest and the due read.
Entered(left) == IF left = <<>> THEN Idle
                 ELSE [Idle EXCEPT !.pc = "reading", !.at = now, !.left = left]

\* The loop's interval has elapsed, or the command line was started.
StartTick(s) ==
  /\ run[s].pc = "asleep"
  /\ run' = [run EXCEPT ![s] = Entered(Route[s])]
  /\ UNCHANGED <<now, sched, lock, settled, asked, faults, edits>>

\* Who is due, with what the row says now: the tick never reads it again.
DueRows(d) ==
  {[tenant |-> t, step |-> sched[d][t].step, zone |-> sched[d][t].zone,
    rev |-> sched[d][t].rev] : t \in {u \in Tenants : IsDue(d, u)}}

DueBeats == DueRows("irene")
DueRefreshes == DueRows("market")

\* The wake-up of waiting cases has no schedule: it looks at every tenant.
CaseTenants == [tenant : Tenants, step : {1}, zone : {0}, rev : {0}]

DueTenants(d) ==
  CASE d = "irene" -> DueBeats [] d = "market" -> DueRefreshes [] d = "cases" -> CaseTenants

\* The tick of s with these tenants left to look at; with none it goes on.
At(s, todo) ==
  IF todo = {} THEN Entered(Tail(run[s].left))
  ELSE [run[s] EXCEPT !.pc = "tenants", !.todo = todo, !.who = NoOne]

ReadDue(s) ==
  /\ run[s].pc = "reading"
  /\ run' = [run EXCEPT ![s] = At(s, DueTenants(Dom(s)))]
  /\ UNCHANGED <<now, sched, lock, settled, asked, faults, edits>>

\* The due read raises: the loop goes on to its next domain, a command line ends.
FailDomain(s) ==
  /\ run[s].pc = "reading"
  /\ faults < MaxFaults
  /\ faults' = faults + 1
  /\ run' = [run EXCEPT ![s] = IF s \in Isolating THEN Entered(Tail(run[s].left)) ELSE Idle]
  /\ UNCHANGED <<now, sched, lock, settled, asked, edits>>

\* A slip: one tenant's failure ends the domain for the others.
OnwardNever(s, due) == At(s, {})

\* One tenant's failure is its own: the others are still looked at.
Onward(s, due) == At(s, run[s].todo \ {due})

\* pg_try_advisory_xact_lock, in the order the due read happened to return.
Claim(s) ==
  \E due \in run[s].todo :
    LET k == LockKey(Dom(s), due.tenant) IN
    /\ run[s].pc = "tenants"
    /\ lock[k] = Nobody
    /\ lock' = [lock EXCEPT ![k] = s]
    /\ run' = [run EXCEPT ![s].pc = "working", ![s].who = due]
    /\ UNCHANGED <<now, sched, settled, asked, faults, edits>>

SkipClaimed(s) ==
  \E due \in run[s].todo :
    /\ run[s].pc = "tenants"
    /\ lock[LockKey(Dom(s), due.tenant)] # Nobody
    /\ run' = [run EXCEPT ![s] = Onward(s, due)]
    /\ UNCHANGED <<now, sched, lock, settled, asked, faults, edits>>

\* A slip: the lock outlives a transaction that was cut off.
ReleaseNone(s) == lock

\* COMMIT and ROLLBACK alike release the transaction's advisory lock.
Release(s) == [k \in DOMAIN lock |-> IF lock[k] = s THEN Nobody ELSE lock[k]]

\* A slip: the two instants change places.
MarkedSwapped(s, d, due) ==
  [sched EXCEPT ![d][due.tenant].last = NextDue(run[s].at, due.step, due.zone),
                ![d][due.tenant].due = run[s].at]

\* mark_beat_done / mark_run_done, by the row's id, from what the due read said.
Marked(s, d, due) ==
  [sched EXCEPT ![d][due.tenant].last = run[s].at,
                ![d][due.tenant].due = NextDue(run[s].at, due.step, due.zone)]

\* The work succeeds and the schedule moves on in the work's own transaction.
Succeed(s) ==
  LET due == run[s].who
      d == Dom(s)
      p == <<d, due.tenant>> IN
  /\ run[s].pc = "working"
  /\ due.tenant \notin Troubled
  /\ IF d \in Scheduled
     THEN /\ sched' = Marked(s, d, due)
          /\ settled' = IF sched[d][due.tenant].rev = due.rev
                        THEN settled \union {p} ELSE settled \ {p}
          /\ asked' = [asked EXCEPT ![d][due.tenant] = IF @ <= run[s].at THEN None ELSE @]
     ELSE UNCHANGED <<sched, settled, asked>>
  /\ lock' = Release(s)
  /\ run' = [run EXCEPT ![s] = Onward(s, due)]
  /\ UNCHANGED <<now, faults, edits>>

\* The work raises, reports an error or has no credential: its transaction
\* ends without touching the schedule, and the next tenant is looked at.
Fail(s) ==
  LET due == run[s].who IN
  /\ run[s].pc = "working"
  /\ IF due.tenant \in Troubled
     THEN UNCHANGED faults
     ELSE faults < MaxFaults /\ faults' = faults + 1
  /\ lock' = Release(s)
  /\ run' = [run EXCEPT ![s] = Onward(s, due)]
  /\ UNCHANGED <<now, sched, settled, asked, edits>>

\* The process dies, or a shutdown's grace period ends in a cancellation.
CutOff(s) ==
  /\ run[s].pc # "asleep"
  /\ faults < MaxFaults
  /\ faults' = faults + 1
  /\ lock' = Release(s)
  /\ run' = [run EXCEPT ![s] = Idle]
  /\ UNCHANGED <<now, sched, settled, asked, edits>>

------------------------------------------------------------------------------
(* The operator. *)

\* Saving a schedule restarts its grid from now.
Saved(d, t, f) ==
  /\ edits < MaxEdits
  /\ edits' = edits + 1
  /\ sched' = [sched EXCEPT ![d][t] =
                 [@ EXCEPT !.step = f.step, !.zone = f.zone, !.enabled = f.enabled,
                           !.rev = edits', !.due = NextDue(now, f.step, f.zone)]]
  /\ settled' = settled \ {<<d, t>>}
  /\ asked' = [asked EXCEPT ![d][t] = None]
  /\ UNCHANGED <<now, lock, run, faults>>

SaveCadence(t) == \E f \in Forms : Saved("irene", t, f)
SaveMarketSchedule(t) == \E f \in Forms : Saved("market", t, f)

\* A source that has taken its clock and not finished with the tenant.
InFlight(d, t) ==
  \E s \in Sources :
    /\ run[s].pc # "asleep"
    /\ Dom(s) = d
    /\ run[s].pc = "reading" \/ \E due \in run[s].todo : due.tenant = t

\* The row is brought due and nothing else: the next tick is to run it.
DueNow(d, t) ==
  /\ edits < MaxEdits
  /\ edits' = edits + 1
  /\ sched' = [sched EXCEPT ![d][t].due = now, ![d][t].rev = edits']
  /\ settled' = settled \ {<<d, t>>}
  /\ asked' = [asked EXCEPT ![d][t] = IF sched[d][t].enabled /\ ~InFlight(d, t)
                                      THEN now ELSE @]
  /\ UNCHANGED <<now, lock, run, faults>>

RequestAnalysis(t) == DueNow("irene", t)
RefreshNow(t) == sched["market"][t].enabled /\ DueNow("market", t)

TimePasses ==
  /\ now < MaxNow
  /\ now' = now + 1
  /\ UNCHANGED <<sched, lock, run, settled, asked, faults, edits>>

------------------------------------------------------------------------------

Step(s) ==
  \/ ReadDue(s) \/ Claim(s) \/ SkipClaimed(s)
  \/ Succeed(s) \/ Fail(s)

Next ==
  \/ \E s \in Sources : StartTick(s) \/ Step(s) \/ FailDomain(s) \/ CutOff(s)
  \/ \E t \in Edited :
       SaveCadence(t) \/ SaveMarketSchedule(t) \/ RequestAnalysis(t) \/ RefreshNow(t)
  \/ TimePasses

\* The loop never stops ticking; a tick under way goes on, whoever runs it,
\* and a healthy tenant's work ends of itself: every call it makes has a timeout.
\* The clock goes on, too: the second pass of an hour comes to its end.
Fairness ==
  /\ WF_vars(TimePasses)
  /\ \A s \in Isolating : WF_vars(StartTick(s))
  /\ \A s \in Sources : WF_vars(Step(s))

Spec == Init /\ [][Next]_vars /\ Fairness

------------------------------------------------------------------------------
(* Properties. *)

WorkingOn(s, d, t) ==
  run[s].pc = "working" /\ Dom(s) = d /\ run[s].who.tenant = t

\* An advisory lock is held exactly by a source inside a transaction, and two
\* sources never work for the same tenant in the same domain: whatever failed,
\* was cancelled or died, no claim leaks (src/services/scheduler/tick_runner.py).
ClaimsAreExclusive ==
  /\ \A s \in Sources : (run[s].pc = "working") <=> (\E k \in DOMAIN lock : lock[k] = s)
  /\ \A s, o \in Sources, d \in Domains, t \in Tenants :
       WorkingOn(s, d, t) /\ WorkingOn(o, d, t) => s = o

\* A tenant is passed over only because another source is at that tenant in that
\* very domain: a refresh never costs a tenant its beat, nor one tenant another's.
SkipsOnlyDuplicates ==
  [][\A s \in Sources : \A due \in run[s].todo :
       run[s].pc = "tenants" /\ faults' = faults /\ run'[s] = Onward(s, due)
       => \E o \in Sources \ {s} : WorkingOn(o, Dom(s), due.tenant)]_vars

Visitors(d) == {s \in Sources : \E i \in DOMAIN Route[s] : Route[s][i] = d}

\* A slot of the cadence begins at this instant.
SlotBegins(at, step, zone) ==
  \E wall \in {at, at - zone} : wall % step = 0 /\ Localised(wall, zone) = at

\* The hour the clock was set back over is gone through again, and the next slot of the
\* cadence began in its first pass.
BegunBefore(at, step, zone) ==
  Turn <= at /\ at < Turn + zone /\ NextWall(at, step, zone) < Turn

\* The work of a tenant whose work can succeed is done and the run marked.
Served(s, d, t) ==
  WorkingOn(s, d, t) /\ run'[s] # run[s] /\ t \notin Troubled /\ faults' = faults

\* A run of a tenant that nobody edited the schedule under since the run before.
RunsAgain(s, p) == Served(s, p[1], p[2]) /\ p \in settled /\ p \in settled'

\* Between the two runs a slot of the row's cadence began.
SlotBetween(old, new) ==
  \E at \in old.last + 1 .. new.last : SlotBegins(at, old.step, old.zone)

\* Where one source alone visits a domain, a slot of the tenant's cadence begins between
\* each run and the next, and no clock runs back, unless somebody edited the schedule in
\* between; or the slot began between the tick's reading of its own clock and the due
\* read, which asks the database's; or the earlier run fell into the second pass of an
\* hour the clock was set back over, with a later slot in that hour: its next instant is
\* then one of the first pass, and past (compute_next_due_at, fold=0).
OncePerSlot ==
  [][\A s \in Sources, p \in settled :
       Visitors(p[1]) = {s} /\ RunsAgain(s, p) =>
         LET old == sched[p[1]][p[2]]
             new == sched'[p[1]][p[2]]
         IN  /\ new.last >= old.last
             /\ \/ SlotBetween(old, new)
                \/ run[s].at < old.due
                \/ BegunBefore(old.last, old.step, old.zone)]_vars

\* A due tenant whose work can succeed is served, however often the others fail
\* and whichever source died half-way: nobody starves behind a broken tenant.
HealthyServed ==
  \A d \in Scheduled, t \in Tenants \ Troubled : IsDue(d, t) ~> ~IsDue(d, t)

\* A run requested while no tick is at the tenant is answered by a run that began
\* after the request, which is what the poll of the page waits for.
RequestsAnswered ==
  \A d \in Scheduled, t \in Tenants \ Troubled :
    asked[d][t] # None ~> asked[d][t] = None

==============================================================================

------------------------ MODULE TickSchedulerProofs ------------------------
(***************************************************************************)
(* Proofs about TickScheduler for any tenants, sources, routes and bounds: *)
(* its types, the exclusiveness of the advisory locks, and that a slot of  *)
(* its cadence begins between each run of a tenant and the next.           *)
(***************************************************************************)
EXTENDS TickScheduler, TLAPS

Dues == [tenant : Tenants, step : Cadences, zone : Int, rev : 0..MaxEdits]
Places == {"asleep", "reading", "tenants", "working"}
RunRecs == [at : -1..MaxNow, left : Seq(Domains), todo : SUBSET Dues,
            who : Dues \union {NoOne}, pc : Places]
Rows == [enabled : BOOLEAN, step : Cadences, zone : Zones, due : Int, last : -1..MaxNow,
         rev : 0..MaxEdits]

\* A tick that is awake has a domain and a clock it read in the past, and the
\* tenant it works for is one of those it found due.
Sound(r) ==
  /\ r.pc # "asleep" => r.left # <<>> /\ r.at \in 0..now
  /\ r.pc = "working" => r.who \in r.todo

Types ==
  /\ now \in 0..MaxNow
  /\ sched \in [Scheduled -> [Tenants -> Rows]]
  /\ lock \in [Domains \X Tenants -> Sources \union {Nobody}]
  /\ run \in [Sources -> RunRecs]
  /\ \A s \in Sources : Sound(run[s])
  /\ settled \subseteq Pairs
  /\ asked \in [Scheduled -> [Tenants -> -1..MaxNow]]
  /\ faults \in 0..MaxFaults /\ edits \in 0..MaxEdits

USE RoutesAreOfSources, CadencesArePositive, BoundsAreNumbers, ZonesAreShifts

-----------------------------------------------------------------------------
(* The operators.                                                          *)

\* The next time of a grid is a multiple of its step, and later than the clock shows.
LEMMA NextWallLater ==
  ASSUME NEW at \in Int, NEW step \in Nat \ {0}, NEW zone \in Int
  PROVE  /\ NextWall(at, step, zone) \in Int /\ NextWall(at, step, zone) > Wall(at, zone)
         /\ NextWall(at, step, zone) % step = 0
<1> DEFINE w == Wall(at, zone)
           q == w \div step
           n == (q + 1) * step
<1>1. w \in Int
  BY DEF Wall
<1> HIDE DEF w
<1>2. q \in Int /\ w % step \in 0..step - 1 /\ w = step * q + (w % step)
  BY <1>1, SMT
<1> HIDE DEF q
<1>3. n = q * step + step /\ q * step \in Int /\ step * q = q * step
  BY <1>2
<1>4. n \in Int /\ n > w
  BY <1>1, <1>2, <1>3
<1>5. n % step = 0
  <2> DEFINE p == n \div step
             m == q + 1
  <2>2. m \in Int /\ n = m * step
    BY <1>2
  <2> HIDE DEF n, m
  <2>1. p \in Int /\ n % step \in 0..step - 1 /\ n = step * p + (n % step)
    BY <1>4, SMT
  <2> HIDE DEF p
  <2>3. n % step = (m - p) * step
    BY <2>1, <2>2
  <2>4. m - p = 0
    <3>1. ~(m - p >= 1)
      <4> SUFFICES ASSUME m - p >= 1 PROVE FALSE  OBVIOUS
      <4>1. (m - p) * step >= step  BY <2>1, <2>2
      <4> QED  BY <4>1, <2>1, <2>3
    <3>2. ~(m - p <= -1)
      <4> SUFFICES ASSUME m - p <= -1 PROVE FALSE  OBVIOUS
      <4>1. (m - p) * step <= -step  BY <2>1, <2>2
      <4> QED  BY <4>1, <2>1, <2>3
    <3> QED  BY <3>1, <3>2, <2>1, <2>2
  <2> QED  BY <2>3, <2>4
<1> QED  BY <1>4, <1>5 DEF NextWall, q, w

\* The next instant of a cadence begins a slot, and lies ahead unless that slot began in
\* the first pass of an hour that is gone through again.
LEMMA NextDueLater ==
  ASSUME NEW at \in Int, NEW step \in Nat \ {0}, NEW zone \in Int
  PROVE  /\ NextDue(at, step, zone) \in Int
         /\ SlotBegins(NextDue(at, step, zone), step, zone)
         /\ NextDue(at, step, zone) > at \/ BegunBefore(at, step, zone)
<1> DEFINE w == NextWall(at, step, zone)
           i == NextDue(at, step, zone)
<1>1. w \in Int /\ w > Wall(at, zone) /\ w % step = 0
  BY NextWallLater
<1>2. i = Localised(w, zone)
  BY DEF NextDue
<1> HIDE DEF w, i
<1>3. i \in Int /\ w \in {i, i - zone}
  BY <1>1, <1>2 DEF Localised
<1>4. SlotBegins(i, step, zone)
  BY <1>1, <1>2, <1>3 DEF SlotBegins
<1>5. i > at \/ (Turn <= at /\ at < Turn + zone /\ w < Turn)
  BY <1>1, <1>2 DEF Localised, Wall
<1> QED  BY <1>3, <1>4, <1>5 DEF BegunBefore, i, w

-----------------------------------------------------------------------------
(* Types.                                                                  *)

LEMMA IdleType == Idle \in RunRecs /\ Sound(Idle) /\ Idle.pc = "asleep"
BY DEF Idle, RunRecs, Places, Sound, None

LEMMA EnteredType ==
  ASSUME now \in 0..MaxNow, NEW left \in Seq(Domains)
  PROVE  /\ Entered(left) \in RunRecs /\ Sound(Entered(left))
         /\ Entered(left).pc \in {"asleep", "reading"}
         /\ Entered(left).pc # "asleep" => Entered(left).left = left
<1>1. CASE left = <<>>
  BY <1>1, IdleType DEF Entered
<1>2. CASE left # <<>>
  <2> DEFINE r == [at |-> now, left |-> left, todo |-> {}, who |-> NoOne, pc |-> "reading"]
  <2>1. Entered(left) = r
    BY <1>2 DEF Entered, Idle
  <2>2. r \in RunRecs
    BY DEF RunRecs, Places
  <2>3. Sound(r)
    BY <1>2 DEF Sound
  <2> QED  BY <2>1, <2>2, <2>3
<1> QED  BY <1>1, <1>2

LEMMA AtType ==
  ASSUME Types, NEW s \in Sources, run[s].pc # "asleep", NEW todo \in SUBSET Dues
  PROVE  /\ At(s, todo) \in RunRecs /\ Sound(At(s, todo))
         /\ At(s, todo).pc \in {"asleep", "reading", "tenants"}
<1>1. run[s] \in RunRecs /\ Sound(run[s]) /\ run[s].left # <<>> /\ now \in 0..MaxNow
  BY DEF Types, Sound
<1>2. run[s].left \in Seq(Domains)
  BY <1>1 DEF RunRecs
<1>3. Tail(run[s].left) \in Seq(Domains)
  BY <1>1, <1>2
<1>4. CASE todo = {}
  BY <1>3, <1>1, <1>4, EnteredType DEF At
<1>5. CASE todo # {}
  BY <1>1, <1>5 DEF At, RunRecs, Places, Sound
<1> QED  BY <1>4, <1>5

LEMMA OnwardType ==
  ASSUME Types, NEW s \in Sources, run[s].pc # "asleep", NEW due
  PROVE  /\ Onward(s, due) \in RunRecs /\ Sound(Onward(s, due))
         /\ Onward(s, due).pc \in {"asleep", "reading", "tenants"}
<1>1. run[s].todo \ {due} \in SUBSET Dues
  BY DEF Types, RunRecs
<1> QED  BY <1>1, AtType DEF Onward

LEMMA DomType ==
  ASSUME Types, NEW s \in Sources, run[s].pc # "asleep"
  PROVE  Dom(s) \in Domains
<1>1. run[s].left \in Seq(Domains) /\ run[s].left # <<>>
  BY DEF Types, Sound, RunRecs
<1> QED  BY <1>1 DEF Dom

LEMMA DueTenantsType ==
  ASSUME Types, NEW d \in Domains
  PROVE  DueTenants(d) \in SUBSET Dues
<1>1. \A c \in Scheduled : DueRows(c) \in SUBSET Dues
  <2>1. \A c \in Scheduled, t \in Tenants :
          /\ sched[c][t].step \in Cadences /\ sched[c][t].zone \in Int
          /\ sched[c][t].rev \in 0..MaxEdits
    <3>1. \A c \in Scheduled, t \in Tenants : sched[c][t] \in Rows
      BY DEF Types
    <3> QED  BY <3>1 DEF Rows
  <2> QED  BY <2>1 DEF DueRows, Dues
<1>2. CaseTenants \in SUBSET Dues
  BY DEF CaseTenants, Dues
<1> QED  BY <1>1, <1>2 DEF DueTenants, DueBeats, DueRefreshes, Domains, Scheduled

LEMMA ReleaseType ==
  ASSUME Types, NEW s \in Sources
  PROVE  Release(s) \in [Domains \X Tenants -> Sources \union {Nobody}]
BY DEF Types, Release

LEMMA InitTypes == ASSUME Init PROVE Types
<1>1. now \in 0..MaxNow
  BY DEF Init
<1>2. sched \in [Scheduled -> [Tenants -> Rows]]
  BY DEF Init, Rows, None
<1>3. asked \in [Scheduled -> [Tenants -> -1..MaxNow]]
  BY DEF Init, None
<1>4. run \in [Sources -> RunRecs] /\ \A s \in Sources : Sound(run[s])
  BY IdleType DEF Init
<1> QED  BY <1>1, <1>2, <1>3, <1>4 DEF Init, Types

\* One source moves and the clock stands still.
LEMMA MoveTypes ==
  ASSUME Types, NEW s \in Sources, NEW r, r \in RunRecs, Sound(r),
         run' = [run EXCEPT ![s] = r], now' = now
  PROVE  run' \in [Sources -> RunRecs] /\ \A o \in Sources : Sound(run[o])'
<1>1. \A o \in Sources : run'[o] = IF o = s THEN r ELSE run[o]
  BY DEF Types
<1> QED  BY <1>1 DEF Types, Sound

LEMMA MarkedRow ==
  ASSUME NEW row \in Rows, NEW last \in -1..MaxNow, NEW due \in Int
  PROVE  [row EXCEPT !.last = last, !.due = due] \in Rows
BY DEF Rows

LEMMA SavedRow ==
  ASSUME NEW row \in Rows, NEW e \in BOOLEAN, NEW c \in Cadences, NEW z \in Zones,
         NEW due \in Int, NEW rev \in 0..MaxEdits
  PROVE  [row EXCEPT !.step = c, !.zone = z, !.enabled = e, !.rev = rev, !.due = due] \in Rows
BY DEF Rows

LEMMA RequestedRow ==
  ASSUME NEW row \in Rows, NEW due \in Int, NEW rev \in 0..MaxEdits
  PROVE  [row EXCEPT !.due = due, !.rev = rev] \in Rows
BY DEF Rows

LEMMA MarkedType ==
  ASSUME Types, NEW s \in Sources, NEW d \in Scheduled, NEW due \in Dues,
         run[s].at \in 0..now
  PROVE  Marked(s, d, due) \in [Scheduled -> [Tenants -> Rows]]
<1>1. due.tenant \in Tenants /\ due.step \in Nat \ {0} /\ due.zone \in Int
  BY DEF Dues
<1>2. run[s].at \in 0..MaxNow
  BY DEF Types
<1>3. NextDue(run[s].at, due.step, due.zone) \in Int
  <2>1. run[s].at \in Int
    BY <1>2
  <2> QED  BY <1>1, <2>1, NextDueLater
<1> DEFINE row == [sched[d][due.tenant] EXCEPT !.last = run[s].at,
                                               !.due = NextDue(run[s].at, due.step, due.zone)]
<1>4. row \in Rows
  <2>1. sched[d][due.tenant] \in Rows /\ run[s].at \in -1..MaxNow
    BY <1>1, <1>2 DEF Types
  <2> QED  BY <1>3, <2>1, MarkedRow
<1>5. Marked(s, d, due) = [sched EXCEPT ![d][due.tenant] = row]
  BY <1>1 DEF Marked, Types
<1> QED  BY <1>1, <1>4, <1>5 DEF Types

LEMMA WorkingFor ==
  ASSUME Types, NEW s \in Sources, run[s].pc = "working"
  PROVE  run[s].who \in Dues /\ run[s].at \in 0..now
BY DEF Types, Sound, RunRecs

LEMMA SucceedTypes ==
  ASSUME Types, NEW s \in Sources, Succeed(s)
  PROVE  Types'
<1> DEFINE due == run[s].who
           d == Dom(s)
<1>1. run[s].pc = "working" /\ due \in Dues /\ run[s].at \in 0..now /\ d \in Domains
  BY WorkingFor, DomType DEF Succeed
<1>2. run' \in [Sources -> RunRecs] /\ \A o \in Sources : Sound(run[o])'
  <2>1. run' = [run EXCEPT ![s] = Onward(s, due)] /\ now' = now
    BY DEF Succeed
  <2> QED  BY <1>1, <2>1, OnwardType, MoveTypes
<1>3. lock' \in [Domains \X Tenants -> Sources \union {Nobody}]
  BY ReleaseType DEF Succeed
<1>4. /\ sched' \in [Scheduled -> [Tenants -> Rows]]
      /\ settled' \subseteq Pairs
      /\ asked' \in [Scheduled -> [Tenants -> -1..MaxNow]]
  <2>1. CASE d \in Scheduled
    <3>1. sched' = Marked(s, d, due)
      BY <2>1 DEF Succeed
    <3>2. settled' \subseteq Pairs
      BY <1>1, <2>1 DEF Succeed, Types, Pairs, Dues
    <3>3. asked' = [asked EXCEPT ![d] = [t \in Tenants |->
                      IF t = due.tenant /\ asked[d][t] <= run[s].at THEN None ELSE asked[d][t]]]
      BY <1>1, <2>1 DEF Succeed, Types, Dues
    <3>4. asked' \in [Scheduled -> [Tenants -> -1..MaxNow]]
      BY <2>1, <3>3 DEF Types, None
    <3> QED  BY <1>1, <2>1, <3>1, <3>2, <3>4, MarkedType
  <2>2. CASE d \notin Scheduled
    BY <2>2 DEF Succeed, Types
  <2> QED  BY <2>1, <2>2
<1> QED  BY <1>2, <1>3, <1>4 DEF Succeed, Types

LEMMA SavedTypes ==
  ASSUME Types, NEW d \in Scheduled, NEW t \in Tenants, NEW f \in Forms,
         Saved(d, t, f)
  PROVE  Types'
<1>1. /\ f.step \in Cadences /\ f.step \in Nat \ {0} /\ f.enabled \in BOOLEAN
      /\ f.zone \in Zones /\ f.zone \in Int /\ now \in Int
  <2>1. f \in [step : Cadences, zone : Zones, enabled : BOOLEAN]
    BY FormsAreForms
  <2>2. f.step \in Cadences /\ f.zone \in Zones /\ f.enabled \in BOOLEAN
    BY <2>1
  <2>3. now \in Int
    BY DEF Types
  <2> QED  BY <2>2, <2>3
<1>2. NextDue(now, f.step, f.zone) \in Int
  BY <1>1, NextDueLater
<1>3. edits' \in 0..MaxEdits
  BY DEF Saved, Types
<1> DEFINE row == [sched[d][t] EXCEPT !.step = f.step, !.zone = f.zone,
                                      !.enabled = f.enabled, !.rev = edits',
                                      !.due = NextDue(now, f.step, f.zone)]
<1>4. row \in Rows
  <2>1. sched[d][t] \in Rows
    BY DEF Types
  <2> QED  BY <1>1, <1>2, <1>3, <2>1, SavedRow
<1>5. sched' = [sched EXCEPT ![d][t] = row]
  BY DEF Saved, Types
<1>6. sched' \in [Scheduled -> [Tenants -> Rows]]
  BY <1>4, <1>5 DEF Types
<1>7. asked' \in [Scheduled -> [Tenants -> -1..MaxNow]] /\ settled' \subseteq Pairs
  BY DEF Saved, Types, None
<1> QED  BY <1>3, <1>6, <1>7 DEF Saved, Types, Sound

LEMMA DueNowTypes ==
  ASSUME Types, NEW d \in Scheduled, NEW t \in Tenants, DueNow(d, t)
  PROVE  Types'
<1>1. edits' \in 0..MaxEdits /\ now \in 0..MaxNow
  BY DEF DueNow, Types
<1> DEFINE row == [sched[d][t] EXCEPT !.due = now, !.rev = edits']
<1>2. row \in Rows
  <2>1. sched[d][t] \in Rows /\ now \in Int
    BY <1>1 DEF Types
  <2> QED  BY <1>1, <2>1, RequestedRow
<1>3. sched' = [sched EXCEPT ![d][t] = row]
  BY DEF DueNow, Types
<1>4. sched' \in [Scheduled -> [Tenants -> Rows]]
  BY <1>2, <1>3 DEF Types
<1>5. asked' \in [Scheduled -> [Tenants -> -1..MaxNow]] /\ settled' \subseteq Pairs
  BY DEF DueNow, Types
<1> QED  BY <1>1, <1>4, <1>5 DEF DueNow, Types, Sound

\* The moves of a source that leave the schedules alone.
LEMMA WalkTypes ==
  ASSUME Types, NEW s \in Sources,
         StartTick(s) \/ ReadDue(s) \/ FailDomain(s) \/ Claim(s) \/ SkipClaimed(s)
         \/ Fail(s) \/ CutOff(s)
  PROVE  Types'
<1>1. /\ lock' \in [Domains \X Tenants -> Sources \union {Nobody}]
      /\ faults' \in 0..MaxFaults
      /\ UNCHANGED <<now, sched, settled, asked, edits>>
  <2>1. CASE StartTick(s) \/ ReadDue(s) \/ SkipClaimed(s)
    BY <2>1 DEF StartTick, ReadDue, SkipClaimed, Types
  <2>2. CASE FailDomain(s)
    BY <2>2 DEF FailDomain, Types
  <2>3. CASE Claim(s)
    <3>1. PICK k : lock' = [lock EXCEPT ![k] = s]
      BY <2>3 DEF Claim
    <3>2. lock' \in [Domains \X Tenants -> Sources \union {Nobody}]
      BY <3>1 DEF Types
    <3>3. UNCHANGED <<now, sched, settled, asked, faults, edits>>
      BY <2>3 DEF Claim
    <3> QED  BY <3>2, <3>3 DEF Types
  <2>4. CASE Fail(s)
    <3>1. faults' \in 0..MaxFaults
      BY <2>4 DEF Fail, Types
    <3> QED  BY <2>4, <3>1, ReleaseType DEF Fail
  <2>5. CASE CutOff(s)
    <3>1. faults' \in 0..MaxFaults
      BY <2>5 DEF CutOff, Types
    <3> QED  BY <2>5, <3>1, ReleaseType DEF CutOff
  <2> QED  BY <2>1, <2>2, <2>3, <2>4, <2>5
<1>2. PICK r \in RunRecs : Sound(r) /\ run' = [run EXCEPT ![s] = r]
  <2>1. CASE StartTick(s)
    <3>1. Route[s] \in Seq(Domains) /\ now \in 0..MaxNow
      BY DEF Types
    <3> QED  BY <2>1, <3>1, EnteredType DEF StartTick
  <2>2. CASE ReadDue(s)
    <3>1. DueTenants(Dom(s)) \in SUBSET Dues
      BY <2>2, DomType, DueTenantsType DEF ReadDue
    <3> QED  BY <2>2, <3>1, AtType DEF ReadDue
  <2>3. CASE FailDomain(s)
    <3>1. run[s].left \in Seq(Domains) /\ run[s].left # <<>> /\ now \in 0..MaxNow
      BY <2>3 DEF FailDomain, Types, RunRecs, Sound
    <3>2. Tail(run[s].left) \in Seq(Domains)
      BY <3>1
    <3> QED  BY <2>3, <3>1, <3>2, EnteredType, IdleType DEF FailDomain
  <2>4. CASE Claim(s)
    <3>1. PICK due \in run[s].todo : run' = [run EXCEPT ![s].pc = "working", ![s].who = due]
                                   /\ run[s].pc = "tenants"
      BY <2>4 DEF Claim
    <3> DEFINE r == [run[s] EXCEPT !.pc = "working", !.who = due]
    <3>2. run[s] \in RunRecs /\ Sound(run[s]) /\ due \in Dues
      BY DEF Types, RunRecs
    <3>3. r \in RunRecs
      BY <3>2 DEF RunRecs, Places
    <3>4. Sound(r)
      BY <3>1, <3>2 DEF Sound, RunRecs
    <3>5. run' = [run EXCEPT ![s] = r]
      BY <3>1 DEF Types
    <3> QED  BY <3>3, <3>4, <3>5
  <2>5. CASE SkipClaimed(s) \/ Fail(s)
    <3>1. run[s].pc # "asleep" /\ \E due : run' = [run EXCEPT ![s] = Onward(s, due)]
      BY <2>5 DEF SkipClaimed, Fail
    <3> QED  BY <3>1, OnwardType
  <2>6. CASE CutOff(s)
    BY <2>6, IdleType DEF CutOff
  <2> QED  BY <2>1, <2>2, <2>3, <2>4, <2>5, <2>6
<1>3. run' \in [Sources -> RunRecs] /\ \A o \in Sources : Sound(run[o])'
  BY <1>1, <1>2, MoveTypes
<1> QED  BY <1>1, <1>3 DEF Types

LEMMA NextTypes == ASSUME Types, [Next]_vars PROVE Types'
<1>1. CASE \E s \in Sources : StartTick(s) \/ Step(s) \/ FailDomain(s) \/ CutOff(s)
  <2>1. PICK s \in Sources : StartTick(s) \/ Step(s) \/ FailDomain(s) \/ CutOff(s)
    BY <1>1
  <2> QED  BY <2>1, SucceedTypes, WalkTypes DEF Step
<1>2. CASE \E t \in Edited : SaveCadence(t) \/ SaveMarketSchedule(t)
                            \/ RequestAnalysis(t) \/ RefreshNow(t)
  <2>1. PICK t \in Tenants : SaveCadence(t) \/ SaveMarketSchedule(t)
                            \/ RequestAnalysis(t) \/ RefreshNow(t)
    BY <1>2
  <2> QED  BY <2>1, SavedTypes, DueNowTypes
           DEF SaveCadence, SaveMarketSchedule, RequestAnalysis, RefreshNow, Scheduled
<1>3. CASE TimePasses
  <2>1. now' \in 0..MaxNow /\ now' >= now
    BY <1>3 DEF TimePasses, Types
  <2>2. \A s \in Sources : Sound(run[s])'
    BY <1>3, <2>1 DEF TimePasses, Types, Sound
  <2> QED  BY <1>3, <2>1, <2>2 DEF TimePasses, Types
<1>4. CASE UNCHANGED vars
  BY <1>4 DEF vars, Types, Sound
<1> QED  BY <1>1, <1>2, <1>3, <1>4 DEF Next

LEMMA AlwaysTypes == Spec => []Types
<1>1. Init => Types
  BY InitTypes
<1>2. Types /\ [Next]_vars => Types'
  BY NextTypes
<1> QED  BY <1>1, <1>2, PTL DEF Spec

\* Every variable keeps its type, and a tick that is awake has a domain to look at and, at
\* work, a tenant it found due (src/services/scheduler/tick_runner.py).
THEOREM TypeCorrect == Spec => []TypeOK
<1>1. ASSUME Types PROVE TypeOK
  <2>1. \A p \in Pairs : p[1] \in Scheduled /\ p[2] \in Tenants
    BY DEF Pairs
  <2>2. \A s \in Sources : run[s].pc = "working" => run[s].who # NoOne
    <3>1. NoOne \notin Dues
      BY DEF NoOne, Dues
    <3> QED  BY <1>1, <3>1, WorkingFor
  <2> QED  BY <1>1, <2>1, <2>2 DEF Types, TypeOK, Rows, RunRecs, Places, Sound
<1> QED  BY <1>1, AlwaysTypes, PTL

-----------------------------------------------------------------------------
(* Locks.                                                                  *)

\* The locks that are held and the tenants that are worked for are the same.
HeldByWorkers ==
  /\ \A s \in Sources :
       run[s].pc = "working" => lock[LockKey(Dom(s), run[s].who.tenant)] = s
  /\ \A s \in Sources, k \in DOMAIN lock :
       lock[k] = s => run[s].pc = "working" /\ k = LockKey(Dom(s), run[s].who.tenant)

LEMMA WorkerKey ==
  ASSUME Types, NEW s \in Sources, run[s].pc = "working"
  PROVE  LockKey(Dom(s), run[s].who.tenant) \in DOMAIN lock
<1>1. run[s].who.tenant \in Tenants /\ Dom(s) \in Domains
  BY WorkingFor, DomType DEF Dues
<1> QED  BY <1>1 DEF LockKey, Types

\* A source that was not at work and is not now.
LEMMA StandsAside ==
  ASSUME Types, HeldByWorkers, NEW s \in Sources, NEW r, run' = [run EXCEPT ![s] = r],
         r.pc # "working", run[s].pc # "working", lock' = lock
  PROVE  HeldByWorkers'
<1>1. \A o \in Sources : run'[o] = IF o = s THEN r ELSE run[o]
  BY DEF Types
<1> QED  BY <1>1 DEF HeldByWorkers, Dom

\* A source whose transaction ends.
LEMMA LetsGo ==
  ASSUME Types, HeldByWorkers, NEW s \in Sources, NEW r, run' = [run EXCEPT ![s] = r],
         r.pc # "working", lock' = Release(s)
  PROVE  HeldByWorkers'
<1>1. \A o \in Sources : run'[o] = IF o = s THEN r ELSE run[o]
  BY DEF Types
<1>2. /\ DOMAIN lock' = DOMAIN lock
      /\ \A k \in DOMAIN lock : lock'[k] = IF lock[k] = s THEN Nobody ELSE lock[k]
  BY DEF Release
<1>3. ASSUME NEW o \in Sources, run'[o].pc = "working"
      PROVE  lock'[LockKey(Dom(o)', run'[o].who.tenant)] = o
  <2>1. o # s /\ run'[o] = run[o]
    BY <1>1, <1>3
  <2>2. Dom(o)' = Dom(o)
    BY <2>1 DEF Dom
  <2>3. LockKey(Dom(o), run[o].who.tenant) \in DOMAIN lock
    BY <1>3, <2>1, WorkerKey
  <2>4. lock[LockKey(Dom(o), run[o].who.tenant)] = o
    BY <1>3, <2>1 DEF HeldByWorkers
  <2> QED  BY <1>2, <2>1, <2>2, <2>3, <2>4
<1>4. ASSUME NEW o \in Sources, NEW k \in DOMAIN lock', lock'[k] = o
      PROVE  run'[o].pc = "working" /\ k = LockKey(Dom(o)', run'[o].who.tenant)
  <2>1. k \in DOMAIN lock /\ lock[k] = o /\ o # s
    BY <1>2, <1>4
  <2>2. run'[o] = run[o]
    BY <1>1, <2>1
  <2> QED  BY <2>1, <2>2 DEF HeldByWorkers, Dom
<1> QED  BY <1>3, <1>4 DEF HeldByWorkers

LEMMA ClaimHeld ==
  ASSUME Types, HeldByWorkers, NEW s \in Sources, Claim(s)
  PROVE  HeldByWorkers'
<1>1. PICK due \in run[s].todo :
        /\ run[s].pc = "tenants"
        /\ lock[LockKey(Dom(s), due.tenant)] = Nobody
        /\ lock' = [lock EXCEPT ![LockKey(Dom(s), due.tenant)] = s]
        /\ run' = [run EXCEPT ![s].pc = "working", ![s].who = due]
  BY DEF Claim
<1> DEFINE k == LockKey(Dom(s), due.tenant)
<1>2. due \in Dues /\ run[s] \in RunRecs /\ Dom(s) \in Domains
  BY <1>1, DomType DEF Types, RunRecs
<1>3. k \in DOMAIN lock
  BY <1>2 DEF LockKey, Types, Dues
<1>4. \A o \in Sources : o # s => run'[o] = run[o]
  BY <1>1 DEF Types
<1>5. run'[s].pc = "working" /\ run'[s].who = due /\ run'[s].left = run[s].left
  BY <1>1, <1>2 DEF Types, RunRecs
<1>6. \A o \in Sources : Dom(o)' = Dom(o)
  BY <1>4, <1>5 DEF Dom
<1>7. \A j \in DOMAIN lock : lock'[j] = IF j = k THEN s ELSE lock[j]
  BY <1>1
<1>8. DOMAIN lock' = DOMAIN lock
  BY <1>1
<1>9. ASSUME NEW o \in Sources, run'[o].pc = "working"
      PROVE  lock'[LockKey(Dom(o)', run'[o].who.tenant)] = o
  <2>1. CASE o = s
    BY <1>3, <1>5, <1>6, <1>7, <2>1
  <2>2. CASE o # s
    <3>1. LockKey(Dom(o), run[o].who.tenant) \in DOMAIN lock
      BY <1>4, <1>9, <2>2, WorkerKey
    <3>2. lock[LockKey(Dom(o), run[o].who.tenant)] = o /\ o # Nobody
      BY <1>4, <1>9, <2>2 DEF HeldByWorkers
    <3>3. LockKey(Dom(o), run[o].who.tenant) # k
      BY <1>1, <3>2
    <3> QED  BY <1>4, <1>6, <1>7, <2>2, <3>1, <3>2, <3>3
  <2> QED  BY <2>1, <2>2
<1>10. ASSUME NEW o \in Sources, NEW j \in DOMAIN lock', lock'[j] = o
       PROVE  run'[o].pc = "working" /\ j = LockKey(Dom(o)', run'[o].who.tenant)
  <2>1. CASE j = k
    BY <1>3, <1>5, <1>6, <1>7, <1>10, <2>1
  <2>2. CASE j # k
    <3>1. j \in DOMAIN lock /\ lock[j] = o
      BY <1>7, <1>8, <1>10, <2>2
    <3>2. run[o].pc = "working" /\ j = LockKey(Dom(o), run[o].who.tenant)
      BY <3>1 DEF HeldByWorkers
    <3>3. o # s
      BY <1>1, <3>2
    <3> QED  BY <1>4, <1>6, <3>2, <3>3
  <2> QED  BY <2>1, <2>2
<1> QED  BY <1>9, <1>10 DEF HeldByWorkers

\* Where a source's run goes that does not claim: never to work.
LEMMA WalkRun ==
  ASSUME Types, NEW s \in Sources,
         StartTick(s) \/ ReadDue(s) \/ FailDomain(s) \/ SkipClaimed(s)
         \/ Succeed(s) \/ Fail(s) \/ CutOff(s)
  PROVE  \E r : run' = [run EXCEPT ![s] = r] /\ r.pc # "working"
<1>1. CASE StartTick(s)
  <2>1. Route[s] \in Seq(Domains) /\ now \in 0..MaxNow
    BY DEF Types
  <2> QED  BY <1>1, <2>1, EnteredType DEF StartTick
<1>2. CASE ReadDue(s)
  <2>1. DueTenants(Dom(s)) \in SUBSET Dues
    BY <1>2, DomType, DueTenantsType DEF ReadDue
  <2>2. At(s, DueTenants(Dom(s))).pc # "working"
    BY <1>2, <2>1, AtType DEF ReadDue
  <2> QED  BY <1>2, <2>2 DEF ReadDue
<1>3. CASE FailDomain(s)
  <2>1. run[s].left \in Seq(Domains) /\ run[s].left # <<>> /\ now \in 0..MaxNow
    BY <1>3 DEF FailDomain, Types, RunRecs, Sound
  <2>2. Tail(run[s].left) \in Seq(Domains)
    BY <2>1
  <2>3. Entered(Tail(run[s].left)).pc # "working"
    BY <2>1, <2>2, EnteredType
  <2>4. Idle.pc # "working"
    BY IdleType
  <2>5. CASE s \in Isolating
    BY <1>3, <2>3, <2>5 DEF FailDomain
  <2>6. CASE s \notin Isolating
    BY <1>3, <2>4, <2>6 DEF FailDomain
  <2> QED  BY <2>5, <2>6
<1>4. CASE SkipClaimed(s) \/ Succeed(s) \/ Fail(s)
  <2>1. run[s].pc # "asleep" /\ \E due : run' = [run EXCEPT ![s] = Onward(s, due)]
    BY <1>4 DEF SkipClaimed, Succeed, Fail
  <2>2. \A due : Onward(s, due).pc # "working"
    BY <2>1, OnwardType
  <2> QED  BY <2>1, <2>2
<1>5. CASE CutOff(s)
  BY <1>5, IdleType DEF CutOff
<1> QED  BY <1>1, <1>2, <1>3, <1>4, <1>5

LEMMA NextHeld == ASSUME Types, HeldByWorkers, [Next]_vars PROVE HeldByWorkers'
<1>1. ASSUME NEW s \in Sources, StartTick(s) \/ ReadDue(s) \/ FailDomain(s) \/ SkipClaimed(s)
      PROVE  HeldByWorkers'
  <2>1. run[s].pc # "working" /\ lock' = lock
    BY <1>1 DEF StartTick, ReadDue, FailDomain, SkipClaimed
  <2> QED  BY <1>1, <2>1, WalkRun, StandsAside
<1>2. ASSUME NEW s \in Sources, Succeed(s) \/ Fail(s) \/ CutOff(s)
      PROVE  HeldByWorkers'
  <2>1. lock' = Release(s)
    BY <1>2 DEF Succeed, Fail, CutOff
  <2> QED  BY <1>2, <2>1, WalkRun, LetsGo
<1>3. CASE UNCHANGED <<lock, run>>
  BY <1>3 DEF HeldByWorkers, Dom
<1>4. CASE \E t \in Edited : SaveCadence(t) \/ SaveMarketSchedule(t)
                            \/ RequestAnalysis(t) \/ RefreshNow(t)
  <2>1. PICK t \in Edited : SaveCadence(t) \/ SaveMarketSchedule(t)
                          \/ RequestAnalysis(t) \/ RefreshNow(t)
    BY <1>4
  <2>2. \A d, f : Saved(d, t, f) => UNCHANGED <<lock, run>>
    BY DEF Saved
  <2>3. \A d : DueNow(d, t) => UNCHANGED <<lock, run>>
    BY DEF DueNow
  <2>4. UNCHANGED <<lock, run>>
    BY <2>1, <2>2, <2>3 DEF SaveCadence, SaveMarketSchedule, RequestAnalysis, RefreshNow
  <2> QED  BY <1>3, <2>4
<1>5. CASE TimePasses \/ UNCHANGED vars
  BY <1>3, <1>5 DEF TimePasses, vars
<1> QED  BY <1>1, <1>2, <1>4, <1>5, ClaimHeld DEF Next, Step

LEMMA AlwaysHeld == Spec => [](Types /\ HeldByWorkers)
<1>1. Init => Types /\ HeldByWorkers
  <2> SUFFICES ASSUME Init PROVE HeldByWorkers
    BY InitTypes
  <2> QED  BY IdleType DEF Init, HeldByWorkers
<1>2. Types /\ HeldByWorkers /\ [Next]_vars => (Types /\ HeldByWorkers)'
  BY NextTypes, NextHeld
<1> QED  BY <1>1, <1>2, PTL DEF Spec

\* An advisory lock is held exactly while its source is inside a tenant's transaction, and no
\* two sources work for one tenant in one domain, whatever fails, is cancelled or dies.
THEOREM ClaimsExclude == Spec => []ClaimsAreExclusive
<1>1. ASSUME Types, HeldByWorkers PROVE ClaimsAreExclusive
  <2>1. ASSUME NEW s \in Sources
        PROVE  (run[s].pc = "working") <=> (\E k \in DOMAIN lock : lock[k] = s)
    BY <1>1, WorkerKey DEF HeldByWorkers
  <2>2. ASSUME NEW s \in Sources, NEW o \in Sources, NEW d \in Domains, NEW t \in Tenants,
               WorkingOn(s, d, t), WorkingOn(o, d, t)
        PROVE  s = o
    BY <1>1, <2>2 DEF HeldByWorkers, WorkingOn
  <2> QED  BY <2>1, <2>2 DEF ClaimsAreExclusive
<1> QED  BY <1>1, AlwaysHeld, PTL

\* Only its own actions move a source.
LEMMA MovesItself ==
  ASSUME Types, [Next]_vars, NEW s \in Sources, run'[s] # run[s]
  PROVE  StartTick(s) \/ Step(s) \/ FailDomain(s) \/ CutOff(s)
<1>1. ASSUME NEW o \in Sources, StartTick(o) \/ Step(o) \/ FailDomain(o) \/ CutOff(o)
      PROVE  o = s
  <2>1. CASE Claim(o)
    <3>1. PICK due : run' = [run EXCEPT ![o].pc = "working", ![o].who = due]
      BY <2>1 DEF Claim
    <3> QED  BY <3>1 DEF Types
  <2>2. CASE ~Claim(o)
    <3>1. \E r : run' = [run EXCEPT ![o] = r]
      BY <1>1, <2>2, WalkRun DEF Step
    <3> QED  BY <3>1 DEF Types
  <2> QED  BY <2>1, <2>2
<1>2. \A t \in Edited : ~(SaveCadence(t) \/ SaveMarketSchedule(t)
                        \/ RequestAnalysis(t) \/ RefreshNow(t))
  <2>1. \A d, t, f : Saved(d, t, f) => run' = run
    BY DEF Saved
  <2>2. \A d, t : DueNow(d, t) => run' = run
    BY DEF DueNow
  <2> QED  BY <2>1, <2>2 DEF SaveCadence, SaveMarketSchedule, RequestAnalysis, RefreshNow
<1>3. ~TimePasses /\ ~UNCHANGED vars
  BY DEF TimePasses, vars
<1> QED  BY <1>1, <1>2, <1>3 DEF Next

\* A tenant is passed over only because another source works for that very tenant in that
\* very domain: the lock domains keep a refresh from costing a tenant its beat.
THEOREM SkipsAreDuplicates == Spec => SkipsOnlyDuplicates
<1>1. ASSUME Types, HeldByWorkers, [Next]_vars, NEW s \in Sources, NEW due \in run[s].todo,
             run[s].pc = "tenants", faults' = faults, run'[s] = Onward(s, due)
      PROVE  \E o \in Sources \ {s} : WorkingOn(o, Dom(s), due.tenant)
  <2>1. /\ run[s] \in RunRecs /\ due \in Dues
        /\ Onward(s, due).pc \in {"asleep", "reading", "tenants"}
        /\ faults \in Nat
    <3>1. run[s] \in RunRecs /\ faults \in Nat
      BY <1>1 DEF Types
    <3>2. due \in Dues
      BY <3>1 DEF RunRecs
    <3> QED  BY <1>1, <3>1, <3>2, OnwardType
  <2>2. \A x \in run[s].todo :
           \/ Onward(s, x).pc \in {"asleep", "reading"} /\ run[s].todo = {x}
           \/ Onward(s, x).pc = "tenants" /\ Onward(s, x).todo = run[s].todo \ {x}
    <3> SUFFICES ASSUME NEW x \in run[s].todo
                 PROVE  \/ Onward(s, x).pc \in {"asleep", "reading"} /\ run[s].todo = {x}
                        \/ Onward(s, x).pc = "tenants" /\ Onward(s, x).todo = run[s].todo \ {x}
      OBVIOUS
    <3>1. CASE run[s].todo \ {x} = {}
      <4>1. run[s].left \in Seq(Domains) /\ run[s].left # <<>> /\ now \in 0..MaxNow
        BY <1>1 DEF Types, Sound, RunRecs
      <4>2. Tail(run[s].left) \in Seq(Domains)
        BY <4>1
      <4> QED  BY <3>1, <4>1, <4>2, EnteredType DEF Onward, At
    <3>2. CASE run[s].todo \ {x} # {}
      BY <1>1, <2>1, <3>2 DEF Onward, At, RunRecs
    <3> QED  BY <3>1, <3>2
  <2>3. run'[s] # run[s]
    BY <1>1, <2>2
  <2>4. StartTick(s) \/ Step(s) \/ FailDomain(s) \/ CutOff(s)
    BY <1>1, <2>3, MovesItself
  <2>5. ~Claim(s)
    <3>1. ASSUME Claim(s) PROVE run'[s].pc = "working"
      <4>1. PICK x : run' = [run EXCEPT ![s].pc = "working", ![s].who = x]
        BY <3>1 DEF Claim
      <4> QED  BY <1>1, <2>1, <4>1 DEF Types, RunRecs
    <3> QED  BY <1>1, <2>1, <3>1
  <2>6. SkipClaimed(s)
    BY <1>1, <2>1, <2>4, <2>5
       DEF StartTick, Step, ReadDue, Succeed, Fail, FailDomain, CutOff
  <2>7. PICK x \in run[s].todo : /\ lock[LockKey(Dom(s), x.tenant)] # Nobody
                                /\ run' = [run EXCEPT ![s] = Onward(s, x)]
    BY <2>6 DEF SkipClaimed
  <2>8. Onward(s, x) = Onward(s, due)
    BY <1>1, <2>7 DEF Types
  <2>9. x = due
    BY <2>2, <2>8
  <2> DEFINE k == LockKey(Dom(s), due.tenant)
  <2>10. k \in DOMAIN lock /\ lock[k] \in Sources
    <3>1. Dom(s) \in Domains
      BY <1>1, DomType
    <3> QED  BY <1>1, <2>1, <2>7, <2>9, <3>1 DEF Types, Dues, LockKey
  <2>11. /\ run[lock[k]].pc = "working"
         /\ k = LockKey(Dom(lock[k]), run[lock[k]].who.tenant)
    BY <1>1, <2>10 DEF HeldByWorkers
  <2>12. Dom(lock[k]) = Dom(s) /\ run[lock[k]].who.tenant = due.tenant
    BY <2>11 DEF LockKey
  <2> QED  BY <1>1, <2>10, <2>11, <2>12 DEF WorkingOn
<1>2. Types /\ HeldByWorkers /\ [Next]_vars =>
        [\A s \in Sources : \A due \in run[s].todo :
           run[s].pc = "tenants" /\ faults' = faults /\ run'[s] = Onward(s, due)
           => \E o \in Sources \ {s} : WorkingOn(o, Dom(s), due.tenant)]_vars
  BY <1>1
<1> QED  BY <1>2, AlwaysHeld, PTL DEF Spec, SkipsOnlyDuplicates

-----------------------------------------------------------------------------
(* Slots.                                                                  *)

\* No row says more than has happened.
Clocked ==
  \A d \in Scheduled, t \in Tenants : sched[d][t].last <= now /\ sched[d][t].rev <= edits

Awake(s, d) == run[s].pc # "asleep" /\ Dom(s) = d

Agrees(due, row) == due.step = row.step /\ due.zone = row.zone

\* What the due read kept of a row still tells whether the row was edited since.
KnownRows ==
  \A s \in Sources, d \in Scheduled : Awake(s, d) =>
    \A due \in run[s].todo :
      /\ due.rev <= edits
      /\ due.rev = sched[d][due.tenant].rev => Agrees(due, sched[d][due.tenant])

\* A row that its last mark saw unedited is due at the grid's next instant.
SettledRows ==
  \A d \in Scheduled, t \in Tenants : <<d, t>> \in settled =>
    /\ sched[d][t].last \in Nat
    /\ sched[d][t].due = NextDue(sched[d][t].last, sched[d][t].step, sched[d][t].zone)

\* A lone visitor's clock is past the runs it has recorded.
NotAhead ==
  \A s \in Sources, d \in Scheduled, t \in Tenants :
    Awake(s, d) /\ Visitors(d) = {s} => sched[d][t].last <= run[s].at

\* A tick has only domains of its route before it.
OnRoute ==
  \A s \in Sources : \A i \in DOMAIN run[s].left :
    \E j \in DOMAIN Route[s] : run[s].left[i] = Route[s][j]

Slots == Clocked /\ KnownRows /\ SettledRows /\ NotAhead /\ OnRoute

LEMMA AwakeVisits ==
  ASSUME Types, OnRoute, NEW s \in Sources, NEW d, Awake(s, d)
  PROVE  s \in Visitors(d)
<1>1. run[s].left \in Seq(Domains) /\ run[s].left # <<>>
  BY DEF Types, Sound, RunRecs, Awake
<1>2. 1 \in DOMAIN run[s].left /\ d = run[s].left[1]
  BY <1>1 DEF Awake, Dom
<1> QED  BY <1>2 DEF OnRoute, Visitors

\* The run of a source starts over, at its route or its next domain, ...
Fresh(s, r) ==
  /\ r.todo = {}
  /\ \/ r.pc = "asleep" /\ r.left = <<>>
     \/ r.at = now /\ r.left = Route[s]
     \/ r.at = now /\ run[s].left # <<>> /\ r.left = Tail(run[s].left)

\* ... or goes on with tenants it had before it or that it has just read as due.
Further(s, r) ==
  /\ run[s].pc # "asleep" /\ r.at = run[s].at /\ r.left = run[s].left
  /\ r.todo \subseteq run[s].todo \/ r.todo \subseteq DueTenants(Dom(s))

LEMMA EnteredFresh ==
  ASSUME Types, NEW s \in Sources, NEW left \in Seq(Domains),
         left = Route[s] \/ (run[s].left # <<>> /\ left = Tail(run[s].left))
  PROVE  Fresh(s, Entered(left))
<1>1. CASE left = <<>>
  BY <1>1 DEF Entered, Idle, Fresh
<1>2. CASE left # <<>>
  BY <1>2 DEF Entered, Idle, Fresh
<1> QED  BY <1>1, <1>2

LEMMA AtMoves ==
  ASSUME Types, NEW s \in Sources, run[s].pc # "asleep", NEW todo \in SUBSET Dues,
         todo \subseteq run[s].todo \/ todo \subseteq DueTenants(Dom(s))
  PROVE  Fresh(s, At(s, todo)) \/ Further(s, At(s, todo))
<1>1. run[s] \in RunRecs /\ run[s].left \in Seq(Domains) /\ run[s].left # <<>>
  BY DEF Types, Sound, RunRecs
<1>2. CASE todo = {}
  <2>1. Tail(run[s].left) \in Seq(Domains)
    BY <1>1
  <2> QED  BY <1>1, <1>2, <2>1, EnteredFresh DEF At
<1>3. CASE todo # {}
  <2>1. At(s, todo) = [run[s] EXCEPT !.pc = "tenants", !.todo = todo, !.who = NoOne]
    BY <1>3 DEF At
  <2> QED  BY <1>1, <2>1 DEF Further, RunRecs
<1> QED  BY <1>2, <1>3

LEMMA OnwardMoves ==
  ASSUME Types, NEW s \in Sources, run[s].pc # "asleep", NEW due
  PROVE  Fresh(s, Onward(s, due)) \/ Further(s, Onward(s, due))
<1>1. run[s].todo \ {due} \in SUBSET Dues
  BY DEF Types, RunRecs
<1> QED  BY <1>1, AtMoves DEF Onward

LEMMA SourceMoves ==
  ASSUME Types, NEW s \in Sources, StartTick(s) \/ Step(s) \/ FailDomain(s) \/ CutOff(s)
  PROVE  \E r : run' = [run EXCEPT ![s] = r] /\ (Fresh(s, r) \/ Further(s, r))
<1>1. CASE StartTick(s)
  <2>1. Route[s] \in Seq(Domains)
    OBVIOUS
  <2> QED  BY <1>1, <2>1, EnteredFresh DEF StartTick
<1>2. CASE ReadDue(s)
  <2>1. DueTenants(Dom(s)) \in SUBSET Dues /\ run[s].pc # "asleep"
    BY <1>2, DomType, DueTenantsType DEF ReadDue
  <2>2. Fresh(s, At(s, DueTenants(Dom(s)))) \/ Further(s, At(s, DueTenants(Dom(s))))
    BY <2>1, AtMoves
  <2> QED  BY <1>2, <2>2 DEF ReadDue
<1>3. CASE FailDomain(s)
  <2>1. run[s].left \in Seq(Domains) /\ run[s].left # <<>>
    BY <1>3 DEF FailDomain, Types, RunRecs, Sound
  <2>2. Tail(run[s].left) \in Seq(Domains)
    BY <2>1
  <2>3. Fresh(s, Entered(Tail(run[s].left))) /\ Fresh(s, Idle)
    BY <2>1, <2>2, EnteredFresh DEF Fresh, Idle
  <2> QED  BY <1>3, <2>3 DEF FailDomain
<1>4. CASE Claim(s)
  <2>1. PICK due : /\ run' = [run EXCEPT ![s].pc = "working", ![s].who = due]
                   /\ run[s].pc = "tenants"
    BY <1>4 DEF Claim
  <2> DEFINE r == [run[s] EXCEPT !.pc = "working", !.who = due]
  <2>2. run' = [run EXCEPT ![s] = r]
    BY <2>1 DEF Types
  <2>3. Further(s, r)
    BY <2>1 DEF Further, Types, RunRecs
  <2> QED  BY <2>2, <2>3
<1>5. CASE SkipClaimed(s) \/ Succeed(s) \/ Fail(s)
  <2>1. run[s].pc # "asleep" /\ \E due : run' = [run EXCEPT ![s] = Onward(s, due)]
    BY <1>5 DEF SkipClaimed, Succeed, Fail
  <2> QED  BY <2>1, OnwardMoves
<1>6. CASE CutOff(s)
  <2>1. Fresh(s, Idle)
    BY DEF Fresh, Idle
  <2> QED  BY <1>6, <2>1 DEF CutOff
<1> QED  BY <1>1, <1>2, <1>3, <1>4, <1>5, <1>6 DEF Step

LEMMA RouteMoves ==
  ASSUME Types, OnRoute, NEW s \in Sources, NEW r, run' = [run EXCEPT ![s] = r],
         Fresh(s, r) \/ Further(s, r)
  PROVE  OnRoute'
<1>1. \A o \in Sources : run'[o] = IF o = s THEN r ELSE run[o]
  BY DEF Types
<1>2. ASSUME NEW i \in DOMAIN r.left PROVE \E j \in DOMAIN Route[s] : r.left[i] = Route[s][j]
  <2>1. CASE r.left = <<>> \/ r.left = Route[s]
    BY <1>2, <2>1
  <2>2. CASE r.left = run[s].left
    BY <1>2, <2>2 DEF OnRoute
  <2>3. CASE run[s].left # <<>> /\ r.left = Tail(run[s].left)
    <3>1. run[s].left \in Seq(Domains)
      BY DEF Types, RunRecs
    <3>2. i + 1 \in DOMAIN run[s].left /\ r.left[i] = run[s].left[i + 1]
      BY <1>2, <2>3, <3>1
    <3> QED  BY <3>2 DEF OnRoute
  <2> QED  BY <2>1, <2>2, <2>3 DEF Fresh, Further
<1> QED  BY <1>1, <1>2 DEF OnRoute

LEMMA KnownMoves ==
  ASSUME Types, Clocked, KnownRows, NEW s \in Sources, NEW r, run' = [run EXCEPT ![s] = r],
         Fresh(s, r) \/ Further(s, r), edits' = edits,
         \A d \in Scheduled, t \in Tenants :
           sched'[d][t].rev = sched[d][t].rev /\ Agrees(sched'[d][t], sched[d][t])
  PROVE  KnownRows'
<1>1. \A o \in Sources : run'[o] = IF o = s THEN r ELSE run[o]
  BY DEF Types
<1> SUFFICES ASSUME NEW o \in Sources, NEW d \in Scheduled, Awake(o, d)',
                    NEW due \in run'[o].todo
             PROVE  /\ due.rev <= edits'
                    /\ due.rev = sched'[d][due.tenant].rev => Agrees(due, sched'[d][due.tenant])
  BY DEF KnownRows
<1>2. ASSUME NEW x \in run[o].todo, Awake(o, d)
      PROVE  /\ x.rev <= edits
             /\ x.rev = sched[d][x.tenant].rev => Agrees(x, sched[d][x.tenant])
             /\ x.tenant \in Tenants
  BY <1>2 DEF KnownRows, Types, RunRecs, Dues
<1> DEFINE Known == /\ due.rev <= edits
                    /\ due.rev = sched[d][due.tenant].rev => Agrees(due, sched[d][due.tenant])
                    /\ due.tenant \in Tenants
<1>3. ASSUME o # s PROVE Known
  BY <1>1, <1>2, <1>3 DEF Awake, Dom
<1>4. ASSUME o = s PROVE Known
  <2>1. r.todo # {} /\ Further(s, r)
    BY <1>1, <1>4 DEF Fresh
  <2>2. Awake(s, d) /\ due \in r.todo
    BY <1>1, <1>4, <2>1 DEF Awake, Dom, Further
  <2>3. CASE due \in run[s].todo
    BY <1>2, <1>4, <2>2, <2>3
  <2>4. CASE due \in DueTenants(d)
    <3>1. due \in DueRows(d)
      BY <2>4 DEF DueTenants, DueBeats, DueRefreshes, Scheduled
    <3>2. PICK t \in Tenants :
            due = [tenant |-> t, step |-> sched[d][t].step, zone |-> sched[d][t].zone,
                   rev |-> sched[d][t].rev]
      BY <3>1 DEF DueRows
    <3> QED  BY <3>2 DEF Clocked, Agrees
  <2> QED  BY <2>1, <2>2, <2>3, <2>4 DEF Further, Awake
<1>5. Known
  BY <1>3, <1>4
<1> QED  BY <1>5 DEF Agrees

LEMMA AheadMoves ==
  ASSUME Types, Clocked, NotAhead, OnRoute, NEW s \in Sources, NEW r,
         run' = [run EXCEPT ![s] = r], Fresh(s, r) \/ Further(s, r),
         \A d \in Scheduled, t \in Tenants :
           \/ sched'[d][t].last = sched[d][t].last
           \/ sched'[d][t].last = run[s].at /\ Awake(s, d)
  PROVE  NotAhead'
<1>1. \A o \in Sources : run'[o] = IF o = s THEN r ELSE run[o]
  BY DEF Types
<1> SUFFICES ASSUME NEW o \in Sources, NEW d \in Scheduled, NEW t \in Tenants,
                    Awake(o, d)', Visitors(d) = {o}
             PROVE  sched'[d][t].last <= run'[o].at
  BY DEF NotAhead, Visitors
<1>2. CASE o # s
  <2>1. Awake(o, d) /\ run'[o] = run[o]
    BY <1>1, <1>2 DEF Awake, Dom
  <2>2. ~Awake(s, d)
    BY <1>2, AwakeVisits
  <2> QED  BY <2>1, <2>2 DEF NotAhead
<1>3. CASE o = s
  <2>1. run'[o] = r /\ r.pc # "asleep"
    BY <1>1, <1>3 DEF Awake
  <2>2. CASE Fresh(s, r)
    <3>1. r.at = now
      BY <2>1, <2>2 DEF Fresh
    <3>2. Awake(s, d) => run[s].at <= now
      BY DEF Types, Sound, Awake
    <3> QED  BY <2>1, <3>1, <3>2 DEF Clocked
  <2>3. CASE Further(s, r)
    <3>1. Awake(s, d) /\ r.at = run[s].at
      BY <1>1, <1>3, <2>3 DEF Further, Awake, Dom
    <3>2. sched[d][t].last <= run[s].at
      BY <1>3, <3>1 DEF NotAhead
    <3>3. run[s].at \in Int
      <4>1. run[s] \in RunRecs
        BY DEF Types
      <4> QED  BY <4>1 DEF RunRecs
    <3> QED  BY <2>1, <3>1, <3>2, <3>3
  <2> QED  BY <2>2, <2>3
<1> QED  BY <1>2, <1>3

\* What the work of a source leaves in the schedules.
LEMMA SucceedLeaves ==
  ASSUME Types, NEW s \in Sources, Succeed(s), Dom(s) \in Scheduled
  PROVE  LET d == Dom(s)
             u == run[s].who
         IN  /\ u.tenant \in Tenants /\ u.step \in Nat \ {0} /\ u.zone \in Int
             /\ sched'[d][u.tenant] = [sched[d][u.tenant] EXCEPT
                   !.last = run[s].at, !.due = NextDue(run[s].at, u.step, u.zone)]
             /\ \A e \in Scheduled, t \in Tenants :
                  <<e, t>> # <<d, u.tenant>> => sched'[e][t] = sched[e][t]
             /\ settled' = IF sched[d][u.tenant].rev = u.rev
                           THEN settled \union {<<d, u.tenant>>}
                           ELSE settled \ {<<d, u.tenant>>}
<1> DEFINE d == Dom(s)
           u == run[s].who
<1>1. u \in Dues
  BY WorkingFor DEF Succeed
<1>2. u.tenant \in Tenants /\ u.step \in Nat \ {0} /\ u.zone \in Int
  BY <1>1 DEF Dues
<1>3. sched' = Marked(s, d, u)
  BY DEF Succeed
<1>4. settled' = IF sched[d][u.tenant].rev = u.rev
                 THEN settled \union {<<d, u.tenant>>} ELSE settled \ {<<d, u.tenant>>}
  BY DEF Succeed
<1> QED  BY <1>2, <1>3, <1>4 DEF Marked, Types

LEMMA SucceedSlots ==
  ASSUME Types, Slots, NEW s \in Sources, Succeed(s)
  PROVE  Slots'
<1>1. PICK r : run' = [run EXCEPT ![s] = r] /\ (Fresh(s, r) \/ Further(s, r))
  BY SourceMoves DEF Step
<1>2. run[s].pc = "working" /\ run[s].who \in run[s].todo /\ run[s].at \in 0..now
  BY DEF Succeed, Types, Sound
<1>3. now' = now /\ edits' = edits /\ now \in Nat
  BY DEF Succeed, Types
<1>4. OnRoute'
  BY <1>1, RouteMoves DEF Slots
<1>5. CASE Dom(s) \notin Scheduled
  <2>1. sched' = sched /\ settled' = settled
    BY <1>5 DEF Succeed
  <2>2. KnownRows' /\ NotAhead'
    <3>1. \A e \in Scheduled, x \in Tenants : Agrees(sched'[e][x], sched[e][x])
      BY <2>1 DEF Agrees
    <3> QED  BY <1>1, <1>3, <2>1, <3>1, KnownMoves, AheadMoves DEF Slots
  <2> QED  BY <1>3, <1>4, <2>1, <2>2 DEF Slots, Clocked, SettledRows
<1>6. CASE Dom(s) \in Scheduled
  <2> DEFINE d == Dom(s)
             u == run[s].who
             t == u.tenant
  <2>1. /\ t \in Tenants /\ u.step \in Nat \ {0}
        /\ sched'[d][t] = [sched[d][t] EXCEPT !.last = run[s].at, !.due = NextDue(run[s].at, u.step, u.zone)]
        /\ \A e \in Scheduled, x \in Tenants :
             <<e, x>> # <<d, t>> => sched'[e][x] = sched[e][x]
        /\ settled' = IF sched[d][t].rev = u.rev THEN settled \union {<<d, t>>}
                                                ELSE settled \ {<<d, t>>}
    BY <1>6, SucceedLeaves
  <2>2. /\ sched'[d][t].last = run[s].at /\ sched'[d][t].due = NextDue(run[s].at, u.step, u.zone)
        /\ sched'[d][t].rev = sched[d][t].rev /\ sched'[d][t].step = sched[d][t].step
        /\ sched'[d][t].zone = sched[d][t].zone
    <3>1. sched[d][t] \in Rows
      BY <1>6, <2>1 DEF Types
    <3> HIDE DEF d, t, u
    <3> QED  BY <2>1, <3>1 DEF Rows
  <2>3. Clocked'
    <3>1. \A e \in Scheduled, x \in Tenants : sched'[e][x].rev = sched[e][x].rev
      BY <2>1, <2>2
    <3>2. \A e \in Scheduled, x \in Tenants :
            sched'[e][x].last = sched[e][x].last \/ sched'[e][x].last = run[s].at
      BY <2>1, <2>2
    <3>3. run[s].at <= now
      BY <1>2
    <3>4. \A e \in Scheduled, x \in Tenants : sched[e][x].last <= now /\ sched[e][x].rev <= edits
      BY DEF Slots, Clocked
    <3>5. \A e \in Scheduled, x \in Tenants : sched'[e][x].last <= now'
      BY <1>3, <3>2, <3>3, <3>4
    <3>6. \A e \in Scheduled, x \in Tenants : sched'[e][x].rev <= edits'
      BY <1>3, <3>1, <3>4
    <3> QED  BY <3>5, <3>6 DEF Clocked
  <2>4. KnownRows'
    <3>1. \A e \in Scheduled, x \in Tenants :
            sched'[e][x].rev = sched[e][x].rev /\ Agrees(sched'[e][x], sched[e][x])
      BY <2>1, <2>2 DEF Agrees
    <3> QED  BY <1>1, <1>3, <3>1, KnownMoves DEF Slots
  <2>5. NotAhead'
    <3>1. \A e \in Scheduled, x \in Tenants :
            \/ sched'[e][x].last = sched[e][x].last
            \/ sched'[e][x].last = run[s].at /\ Awake(s, e)
      BY <1>2, <2>1, <2>2 DEF Awake
    <3> QED  BY <1>1, <3>1, AheadMoves DEF Slots
  <2>6. SettledRows'
    <3> SUFFICES ASSUME NEW e \in Scheduled, NEW x \in Tenants, <<e, x>> \in settled'
                 PROVE  /\ sched'[e][x].last \in Nat
                        /\ sched'[e][x].due = NextDue(sched'[e][x].last, sched'[e][x].step,
                                                      sched'[e][x].zone)
      BY DEF SettledRows
    <3>1. CASE <<e, x>> = <<d, t>>
      <4>1. sched[d][t].rev = u.rev
        BY <2>1, <3>1
      <4>2. u.step = sched[d][t].step /\ u.zone = sched[d][t].zone
        BY <1>2, <1>6, <4>1 DEF Slots, KnownRows, Awake, Agrees
      <4> QED  BY <1>2, <2>2, <3>1, <4>2
    <3>2. CASE <<e, x>> # <<d, t>>
      BY <2>1, <3>2 DEF Slots, SettledRows
    <3> QED  BY <3>1, <3>2
  <2> QED  BY <1>4, <2>3, <2>4, <2>5, <2>6 DEF Slots
<1> QED  BY <1>5, <1>6

LEMMA WalkSlots ==
  ASSUME Types, Slots, NEW s \in Sources,
         StartTick(s) \/ ReadDue(s) \/ FailDomain(s) \/ Claim(s) \/ SkipClaimed(s)
         \/ Fail(s) \/ CutOff(s)
  PROVE  Slots'
<1>1. PICK r : run' = [run EXCEPT ![s] = r] /\ (Fresh(s, r) \/ Further(s, r))
  BY SourceMoves DEF Step
<1>2. UNCHANGED <<now, sched, settled, edits>>
  BY DEF StartTick, ReadDue, FailDomain, Claim, SkipClaimed, Fail, CutOff
<1>3. OnRoute' /\ KnownRows' /\ NotAhead'
  <2>1. \A e \in Scheduled, x \in Tenants : Agrees(sched'[e][x], sched[e][x])
    BY <1>2 DEF Agrees
  <2> QED  BY <1>1, <1>2, <2>1, RouteMoves, KnownMoves, AheadMoves DEF Slots
<1> QED  BY <1>2, <1>3 DEF Slots, Clocked, SettledRows

\* A save or a request stamps the row with a revision no due read has seen.
LEMMA EditSlots ==
  ASSUME Types, Slots, NEW d \in Scheduled, NEW t \in Tenants, NEW row,
         sched' = [sched EXCEPT ![d][t] = row], edits' = edits + 1, row.rev = edits + 1,
         row.last = sched[d][t].last, settled' = settled \ {<<d, t>>}, UNCHANGED <<now, run>>
  PROVE  Slots'
<1>1. /\ sched'[d][t] = row /\ edits \in Nat
      /\ \A e \in Scheduled, x \in Tenants : <<e, x>> # <<d, t>> => sched'[e][x] = sched[e][x]
  BY DEF Types
<1>2. \A e \in Scheduled, x \in Tenants : sched[e][x].rev \in Nat
  BY DEF Types, Rows
<1>3. \A e \in Scheduled, x \in Tenants : sched'[e][x].last = sched[e][x].last
  BY <1>1
<1>4. Clocked'
  BY <1>1, <1>2, <1>3 DEF Slots, Clocked
<1>5. KnownRows'
  <2> SUFFICES ASSUME NEW s \in Sources, NEW e \in Scheduled, Awake(s, e), NEW due \in run[s].todo
               PROVE  /\ due.rev <= edits + 1
                      /\ due.rev = sched'[e][due.tenant].rev => Agrees(due, sched'[e][due.tenant])
    BY DEF KnownRows, Awake, Dom, Agrees
  <2>1. /\ due.rev <= edits
        /\ due.rev = sched[e][due.tenant].rev => Agrees(due, sched[e][due.tenant])
    BY DEF Slots, KnownRows
  <2>2. due.tenant \in Tenants /\ due.rev \in Nat
    <3>1. due \in Dues
      BY DEF Types, RunRecs
    <3> QED  BY <3>1 DEF Dues
  <2>3. CASE <<e, due.tenant>> = <<d, t>>
    BY <1>1, <2>1, <2>2, <2>3
  <2>4. CASE <<e, due.tenant>> # <<d, t>>
    BY <1>1, <2>1, <2>2, <2>4
  <2> QED  BY <2>3, <2>4
<1>6. SettledRows'
  <2> SUFFICES ASSUME NEW e \in Scheduled, NEW x \in Tenants, <<e, x>> \in settled'
               PROVE  /\ sched'[e][x].last \in Nat
                      /\ sched'[e][x].due = NextDue(sched'[e][x].last, sched'[e][x].step,
                                                    sched'[e][x].zone)
    BY DEF SettledRows
  <2>1. <<e, x>> # <<d, t>> /\ <<e, x>> \in settled
    OBVIOUS
  <2> QED  BY <1>1, <2>1 DEF Slots, SettledRows
<1>7. OnRoute'
  BY DEF Slots, OnRoute
<1>8. NotAhead'
  <2> SUFFICES ASSUME NEW s \in Sources, NEW e \in Scheduled, NEW x \in Tenants,
                      Awake(s, e), Visitors(e) = {s}
               PROVE  sched'[e][x].last <= run[s].at
    BY DEF NotAhead, Awake, Dom, Visitors
  <2> QED  BY <1>3 DEF Slots, NotAhead
<1> QED  BY <1>4, <1>5, <1>6, <1>7, <1>8 DEF Slots

LEMMA NextSlots == ASSUME Types, Slots, [Next]_vars PROVE Slots'
<1>1. ASSUME NEW s \in Sources, StartTick(s) \/ Step(s) \/ FailDomain(s) \/ CutOff(s)
      PROVE  Slots'
  BY <1>1, SucceedSlots, WalkSlots DEF Step
<1>2. ASSUME NEW d \in Scheduled, NEW t \in Tenants, NEW f \in Forms,
             Saved(d, t, f)
      PROVE  Slots'
  <2> DEFINE row == [sched[d][t] EXCEPT !.step = f.step, !.zone = f.zone,
                                        !.enabled = f.enabled, !.rev = edits',
                                        !.due = NextDue(now, f.step, f.zone)]
  <2>1. sched[d][t] \in Rows
    BY DEF Types
  <2>2. row.rev = edits + 1 /\ row.last = sched[d][t].last
    BY <1>2, <2>1 DEF Saved, Rows
  <2>3. sched' = [sched EXCEPT ![d][t] = row]
    BY <1>2 DEF Saved, Types
  <2> QED  BY <1>2, <2>2, <2>3, EditSlots DEF Saved
<1>3. ASSUME NEW d \in Scheduled, NEW t \in Tenants, DueNow(d, t)
      PROVE  Slots'
  <2> DEFINE row == [sched[d][t] EXCEPT !.due = now, !.rev = edits']
  <2>1. sched[d][t] \in Rows
    BY DEF Types
  <2>2. row.rev = edits + 1 /\ row.last = sched[d][t].last
    BY <1>3, <2>1 DEF DueNow, Rows
  <2>3. sched' = [sched EXCEPT ![d][t] = row]
    BY <1>3 DEF DueNow, Types
  <2> QED  BY <1>3, <2>2, <2>3, EditSlots DEF DueNow
<1>4. ASSUME NEW t \in Edited, SaveCadence(t) \/ SaveMarketSchedule(t)
                                \/ RequestAnalysis(t) \/ RefreshNow(t)
      PROVE  Slots'
  BY <1>2, <1>3, <1>4 DEF SaveCadence, SaveMarketSchedule, RequestAnalysis, RefreshNow, Scheduled
<1>5. CASE TimePasses
  <2>1. now' = now + 1 /\ now \in Nat /\ UNCHANGED <<sched, run, settled, edits>>
    BY <1>5 DEF TimePasses, Types
  <2>2. \A d \in Scheduled, t \in Tenants : sched[d][t].last \in Int
    BY DEF Types, Rows
  <2>3. Clocked'
    BY <2>1, <2>2 DEF Slots, Clocked
  <2> QED  BY <2>1, <2>3 DEF Slots, KnownRows, SettledRows, NotAhead, OnRoute, Awake, Dom, Visitors
<1>6. CASE UNCHANGED vars
  BY <1>6 DEF vars, Slots, Clocked, KnownRows, SettledRows, NotAhead, OnRoute, Awake, Dom, Visitors
<1> QED  BY <1>1, <1>4, <1>5, <1>6 DEF Next

LEMMA AlwaysSlots == Spec => [](Types /\ Slots)
<1>1. Init => Types /\ Slots
  <2> SUFFICES ASSUME Init PROVE Slots
    BY InitTypes
  <2>1. Clocked
    BY DEF Init, Clocked, None
  <2>2. KnownRows /\ NotAhead /\ OnRoute
    BY DEF Init, Idle, KnownRows, NotAhead, OnRoute, Awake
  <2> QED  BY <2>1, <2>2 DEF Init, Slots, SettledRows
<1>2. Types /\ Slots /\ [Next]_vars => (Types /\ Slots)'
  BY NextTypes, NextSlots
<1> QED  BY <1>1, <1>2, PTL DEF Spec

\* Where a lone visitor runs a tenant again that nobody edited the schedule of, a slot of
\* the cadence has begun since the run before, and no clock runs back; only a slot that
\* begins between the tick's clock and the due read escapes it, and a run of the second
\* pass of an hour (src/services/irene/scheduling.py, compute_next_due_at).
THEOREM SlotsRunOnce == Spec => OncePerSlot
<1>1. ASSUME Types, Slots, [Next]_vars, NEW s \in Sources, NEW p \in settled,
             Visitors(p[1]) = {s}, RunsAgain(s, p)
      PROVE  LET old == sched[p[1]][p[2]]
                 new == sched'[p[1]][p[2]]
             IN  /\ new.last >= old.last
                 /\ \/ SlotBetween(old, new)
                    \/ run[s].at < old.due
                    \/ BegunBefore(old.last, old.step, old.zone)
  <2> DEFINE d == p[1]
             t == p[2]
  <2>1. d \in Scheduled /\ t \in Tenants /\ p = <<d, t>> /\ p \in settled'
    BY <1>1 DEF Types, Pairs, RunsAgain
  <2>2. run[s].pc = "working" /\ Dom(s) = d /\ run[s].who.tenant = t
    BY <1>1 DEF RunsAgain, Served, WorkingOn
  <2>3. Succeed(s)
    <3>1. StartTick(s) \/ Step(s) \/ FailDomain(s) \/ CutOff(s)
      BY <1>1, MovesItself DEF RunsAgain, Served
    <3>2. faults \in Nat
      BY <1>1 DEF Types
    <3> QED  BY <1>1, <2>2, <3>1, <3>2
             DEF RunsAgain, Served, StartTick, Step, ReadDue, Claim, SkipClaimed, Fail,
                 FailDomain, CutOff
  <2> DEFINE u == run[s].who
             old == sched[d][t]
             new == sched'[d][t]
  <2>4. new = [old EXCEPT !.last = run[s].at, !.due = NextDue(run[s].at, u.step, u.zone)]
    BY <1>1, <2>1, <2>2, <2>3, SucceedLeaves
  <2>5. old \in Rows /\ old.step \in Nat \ {0} /\ old.zone \in Int
    BY <1>1, <2>1 DEF Types, Rows
  <2>6. new.last = run[s].at
    <3> HIDE DEF old, new, u
    <3> QED  BY <2>4, <2>5 DEF Rows
  <2>7. /\ old.last \in Nat /\ old.last <= run[s].at
        /\ old.due = NextDue(old.last, old.step, old.zone)
    BY <1>1, <2>1, <2>2 DEF Slots, SettledRows, NotAhead, Awake
  <2>8. run[s].at \in Nat
    BY <1>1, <2>2, WorkingFor DEF Types
  <2> HIDE DEF old, new, u
  <2>9. /\ old.due \in Int /\ SlotBegins(old.due, old.step, old.zone)
        /\ old.due > old.last \/ BegunBefore(old.last, old.step, old.zone)
    <3> DEFINE due == NextDue(old.last, old.step, old.zone)
    <3>1. old.last \in Int
      BY <2>7
    <3>2. /\ due \in Int /\ SlotBegins(due, old.step, old.zone)
          /\ due > old.last \/ BegunBefore(old.last, old.step, old.zone)
      BY <2>5, <3>1, NextDueLater
    <3> QED  BY <2>7, <3>2
  <2>10. CASE run[s].at >= old.due /\ old.due > old.last
    <3>1. old.due \in old.last + 1 .. new.last
      BY <2>6, <2>7, <2>8, <2>9, <2>10
    <3> QED  BY <2>6, <2>7, <2>9, <3>1 DEF SlotBetween, old, new
  <2>11. CASE ~(run[s].at >= old.due /\ old.due > old.last)
    <3>1. run[s].at < old.due \/ BegunBefore(old.last, old.step, old.zone)
      BY <2>8, <2>9, <2>11
    <3> QED  BY <2>6, <2>7, <3>1 DEF old, new
  <2> QED  BY <2>10, <2>11
<1>2. Types /\ Slots /\ [Next]_vars =>
        [\A s \in Sources, p \in settled :
           Visitors(p[1]) = {s} /\ RunsAgain(s, p) =>
             LET old == sched[p[1]][p[2]]
                 new == sched'[p[1]][p[2]]
             IN  /\ new.last >= old.last
                 /\ \/ SlotBetween(old, new)
                    \/ run[s].at < old.due
                    \/ BegunBefore(old.last, old.step, old.zone)]_vars
  BY <1>1
<1> QED  BY <1>2, AlwaysSlots, PTL DEF Spec, OncePerSlot

=============================================================================

------------------------------ MODULE WatchBeat ------------------------------
(***************************************************************************)
(* One tenant's watch desk: the heartbeat that compares the book with what *)
(* was last acknowledged and offers the edges to the model, and the people *)
(* who meanwhile calibrate the desk, resolve findings and work their cases.*)
(*                                                                         *)
(* A beat is one transaction that runs over several reads of committed     *)
(* data: it resolves the calibration once, evaluates the limit and signal  *)
(* subjects, writes falling edges to the cases, gates the press clusters,  *)
(* calls the model and appends the findings.  An error in any of these     *)
(* steps is caught and commits what was written so far, half a step too; a *)
(* crash rolls the beat back (src/services/irene/beat.py).  TickScheduler  *)
(* shows that no two beats of a tenant overlap.                            *)
(*                                                                         *)
(* A magnitude is a coverage or a move on a scale of a few steps.  The     *)
(* wording of findings, lines and briefings is left out.                   *)
(***************************************************************************)
EXTENDS Integers, Sequences, FiniteSets, SequencesExt

CONSTANTS
  Quotas,       \* limit subjects (saa, anlv)
  Signals,      \* watchpoint subjects (price, fx, freshness, liquidity)
  Presses,      \* press clusters (rss)
  Magnitudes,   \* what a limit or a signal can measure
  Books,        \* the states of the book and the market that are looked at
  Ceiling,      \* the ceiling of a limit, the threshold of a signal
  Warns,        \* where the warning band may begin
  Deltas,       \* what a move within a band may be asked to come to, to be news again
  Default,      \* the figures of a tenant that calibrated nothing
  Overlays,     \* what may be saved for one subject: its figures and its mute
  MaxFindings,  \* bound on findings ever appended
  MaxMoves,     \* bound on moves of the book
  MaxActs,      \* bound on acts of people
  MaxFaults     \* bound on crashes, failed calls and failed savepoints

NoData == -1

ASSUME SubjectsAreApart ==
  /\ IsFiniteSet(Quotas \union Signals \union Presses)
  /\ Quotas \intersect Signals = {} /\ (Quotas \union Signals) \intersect Presses = {}

ASSUME BooksAreMeasured ==
  Books \subseteq [Quotas \union Signals -> Magnitudes \union {NoData}]

ASSUME MagnitudesAreCounts ==
  /\ Magnitudes \subseteq Nat /\ Warns \subseteq Nat /\ Ceiling \in Nat
  /\ \A w \in Warns : w <= Ceiling

\* Only a negative delta is refused, and an overlay's is not even asked (which
\* then does what a zero does): a move of nothing may count as a move.
ASSUME DeltasMayBeZero ==
  /\ Deltas \subseteq Nat
  /\ Default \in [warn : Warns, delta : Deltas]
  /\ Overlays \subseteq [warn : Warns \union {NoData}, delta : Deltas \union {NoData}, mute : BOOLEAN]

VARIABLES
  mag,       \* what the book and the market measure now, or NoData
  desk,      \* the calibration in force: revisions are never edited
  acked,     \* irene_watch_state: the acknowledged magnitude of a subject
  findings,  \* irene_finding, in the order appended
  cases,     \* the cases opened from findings, with or without the line of a fall
  beat,      \* the beat under way and what its transaction has written
  moves, acts, faults

vars == <<mag, desk, acked, findings, cases, beat, moves, acts, faults>>

NoAck == -2
Seen == 0         \* a press cluster has no magnitude
Scalars == Quotas \union Signals
Subjects == Scalars \union Presses
Families == {"quota", "signal", "press"}
Family(s) == CASE s \in Quotas -> "quota" [] s \in Signals -> "signal" [] s \in Presses -> "press"

Acts == acts < MaxActs /\ acts' = acts + 1
Faults(n) == faults + n <= MaxFaults /\ faults' = faults + n

------------------------------------------------------------------------------
(* The delta layer. *)

\* A limit is breached above its ceiling, a signal triggers at its threshold.
Breached(s, m) == IF s \in Quotas THEN m > Ceiling ELSE m >= Ceiling

Status(s, m, warn) ==
  CASE Breached(s, m) -> "BREACH"
    [] ~Breached(s, m) /\ m > warn -> "WARN"
    [] ~Breached(s, m) /\ m <= warn -> "OK"

Rank == [OK |-> 0, WARN |-> 1, BREACH |-> 2]

Distance(m, n) == IF m > n THEN m - n ELSE n - m

\* A slip: a first observation is no edge.
DecideAcknowledged(s, m, ack, warn, delta) ==
  IF ack # NoAck /\ Rank[Status(s, m, warn)] < Rank[Status(s, ack, warn)]
  THEN "falling_edge" ELSE "none"

\* The live figure against the acknowledged one, both under today's threshold.
Decide(s, m, ack, warn, delta) ==
  LET now == Rank[Status(s, m, warn)]
      was == Rank[Status(s, ack, warn)] IN
  CASE ack = NoAck -> IF now = 0 THEN "none" ELSE "rising_edge"
    [] ack # NoAck /\ now > was -> "rising_edge"
    [] ack # NoAck /\ now < was -> "falling_edge"
    [] ack # NoAck /\ now = was ->
         IF Distance(m, ack) >= delta THEN "magnitude_retrigger" ELSE "none"

\* A slip: a mute silences a breach of a limit like anything else.
MuteSuppressesAll(s, kind, status, was) == TRUE

\* What a mute may hide: never a breached limit, never the end of a raised one.
MuteSuppresses(s, kind, status, was) ==
  /\ ~(s \in Quotas /\ status = "BREACH")
  /\ ~(kind = "falling_edge" /\ was = "BREACH")

\* The subject's own figure, else the tenant's.
WarnFor(d, s) == IF d.own[s].warn = NoData THEN d.default.warn ELSE d.own[s].warn
DeltaFor(d, s) == IF d.own[s].delta = NoData THEN d.default.delta ELSE d.own[s].delta

Enabled(d, s) == Family(s) \notin d.off /\ s \notin d.retired

------------------------------------------------------------------------------
(* The deterministic floor under what the model suggests. *)

Trigger(s, kind, status) ==
  CASE s \in Presses -> "rss_cluster"
    [] s \notin Presses /\ kind = "falling_edge" -> "all_clear"
    [] s \in Signals /\ kind # "falling_edge" -> "price_trigger"
    [] s \in Quotas /\ kind # "falling_edge" /\ status = "BREACH" -> "limit_breach"
    [] s \in Quotas /\ kind # "falling_edge" /\ status # "BREACH" -> "limit_escalation"

Floor == [limit_breach |-> 7, limit_escalation |-> 5, price_trigger |-> 4,
          all_clear |-> 1, rss_cluster |-> 1]
Cap == [limit_breach |-> 10, limit_escalation |-> 10, price_trigger |-> 10,
        all_clear |-> 3, rss_cluster |-> 3]

Least(a, b) == IF a < b THEN a ELSE b
Most(a, b) == IF a > b THEN a ELSE b

FinalUrgency(suggestion, trigger) == Most(Floor[trigger], Least(suggestion, Cap[trigger]))

Band(urgency) ==
  CASE urgency <= 3 -> "informational"
    [] urgency > 3 /\ urgency <= 6 -> "noteworthy"
    [] urgency > 6 -> "critical"

CaseBands == {"noteworthy", "critical"}

------------------------------------------------------------------------------
(* State. *)

NoLines == -1     \* the beat has not come to its lines

Idle == [pc |-> "idle", desk |-> <<>>, acked |-> <<>>, offer |-> {}, lost |-> {},
         lines |-> {}, upto |-> NoLines, found |-> <<>>]

Inherits == [warn |-> NoData, delta |-> NoData]

Init ==
  /\ mag = [s \in Scalars |-> NoData]
  /\ \E retired \in SUBSET Signals :
       desk = [default |-> Default, own |-> [s \in Scalars |-> Inherits],
               muted |-> {}, off |-> {}, retired |-> retired]
  /\ acked = [s \in Subjects |-> NoAck]
  /\ findings = <<>> /\ cases = <<>>
  /\ beat = Idle
  /\ moves = 0 /\ acts = 0 /\ faults = 0

------------------------------------------------------------------------------
(* The beat. *)

Unmoved == UNCHANGED <<mag, desk, moves, acts>>
Uncommitted == UNCHANGED <<acked, findings, cases>>

\* One resolution of the calibration, which every later step reads.
Resolve ==
  /\ beat.pc = "idle"
  /\ beat' = [Idle EXCEPT !.pc = "limits", !.desk = desk, !.acked = acked]
  /\ Unmoved /\ Uncommitted /\ UNCHANGED faults

\* A subject that is off, retired or without data writes no watch state.
Observed == {s \in Scalars : mag[s] # NoData /\ Enabled(beat.desk, s)}

KindOf(s) ==
  Decide(s, mag[s], beat.acked[s], WarnFor(beat.desk, s), DeltaFor(beat.desk, s))

\* What the model is to be shown: the mute is asked last.
Offered(s) ==
  LET warn == WarnFor(beat.desk, s)
      status == Status(s, mag[s], warn) IN
  [subject |-> s, kind |-> KindOf(s), status |-> status, at |-> mag[s],
   withheld |-> s \in beat.desk.muted /\
     MuteSuppresses(s, KindOf(s), status,
                    IF beat.acked[s] = NoAck THEN "OK" ELSE Status(s, beat.acked[s], warn))]

\* A slip: what was raised is never acknowledged.
AcknowledgedNot(done) == [s \in Subjects |->
  IF s \in done \intersect Observed /\ KindOf(s) = "falling_edge" THEN NoAck ELSE beat.acked[s]]

\* A raise acknowledges the level, a falling edge forgets it, muted or not.
Acknowledged(done) == [s \in Subjects |->
  CASE s \in done \intersect Observed /\ KindOf(s) \in {"rising_edge", "magnitude_retrigger"} -> mag[s]
    [] s \in done \intersect Observed /\ KindOf(s) = "falling_edge" -> NoAck
    [] OTHER -> beat.acked[s]]

\* The beat after the subjects in done have been compared, one by one.
Compared(done) == [beat EXCEPT
  !.acked = Acknowledged(done),
  !.offer = @ \union
    {o \in {Offered(s) : s \in {r \in done \intersect Observed : KindOf(r) # "none"}} : ~o.withheld}]

EvaluateLimits ==
  /\ beat.pc = "limits"
  /\ beat' = [Compared(Quotas) EXCEPT !.pc = "signals"]
  /\ Unmoved /\ Uncommitted /\ UNCHANGED faults

EvaluateSignals ==
  /\ beat.pc = "signals"
  /\ beat' = [Compared(Signals) EXCEPT !.pc = "lines"]
  /\ Unmoved /\ Uncommitted /\ UNCHANGED faults

Falls == {o.subject : o \in {p \in beat.offer : p.kind = "falling_edge"}}

\* The cases opened from a finding on the subject (none is closed here: CaseFile).
CasesOn(s) ==
  {c \in DOMAIN cases :
     /\ findings[cases[c].finding].subject = s
     /\ findings[cases[c].finding].resolution = "opened_case"}

\* A slip: the first savepoint that fails ends the writing of lines.
LinesUntilLost(lost) ==
  IF lost # {} THEN {}
  ELSE UNION {{c \in CasesOn(s) : ~cases[c].fell} : s \in Falls}

\* Every fall in a savepoint of its own; a case carries one line per subject.
LinesFor(lost) == UNION {{c \in CasesOn(s) : ~cases[c].fell} : s \in Falls \ lost}

WriteLines ==
  /\ beat.pc = "lines"
  /\ \E lost \in SUBSET Falls :
       /\ Faults(Cardinality(lost))
       /\ beat' = [beat EXCEPT !.pc = "press", !.lost = lost, !.upto = Len(cases), !.lines = LinesFor(lost)]
  /\ Unmoved /\ Uncommitted

\* A cluster is news until it has been acknowledged once.
News(buckets) == {b \in buckets : beat.acked[b] = NoAck /\ "press" \notin beat.desk.off}

Read(news) == [s \in Subjects |-> IF s \in news THEN Seen ELSE beat.acked[s]]

EvaluatePress ==
  /\ beat.pc = "press"
  /\ \E buckets \in SUBSET Presses :
       beat' = [beat EXCEPT
         !.pc = "synthesis",
         !.acked = Read(News(buckets)),
         !.offer = @ \union
           {[subject |-> b, kind |-> "rising_edge", status |-> "OK", at |-> Seen,
             withheld |-> FALSE] : b \in News(buckets) \ beat.desk.muted}]
  /\ Unmoved /\ Uncommitted /\ UNCHANGED faults

Finding(o, suggestion) ==
  [subject |-> o.subject, resolution |-> "open",
   band |-> Band(FinalUrgency(suggestion, Trigger(o.subject, o.kind, o.status)))]

\* A slip: whatever the model names becomes a finding at the urgency it asks for.
GroundedAnyway(said, suggestion) ==
  {[subject |-> s, resolution |-> "open", band |-> Band(suggestion)] : s \in said}

\* Only what was offered may be surfaced; anything else the model names is dropped.
Grounded(said, suggestion) == {Finding(o, suggestion) : o \in {p \in beat.offer : p.subject \in said}}

\* The model is shown the offers and surfaces what it likes, silence included.
Surfaced == {Grounded(said, suggestion) : said \in SUBSET Subjects, suggestion \in {1, 10}}

Fits(found) == Len(findings) + Cardinality(found) <= MaxFindings

Synthesise ==
  /\ beat.pc = "synthesis"
  /\ \E found \in Surfaced :
       Fits(found) /\ beat' = [beat EXCEPT !.pc = "commit", !.found = SetToSeq(found)]
  /\ Unmoved /\ Uncommitted /\ UNCHANGED faults

\* What the transaction wrote becomes the tenant's.
Committed(b) ==
  /\ acked' = b.acked
  /\ findings' = findings \o b.found
  /\ cases' = [c \in DOMAIN cases |->
       [cases[c] EXCEPT !.fell = @ \/ c \in b.lines]]
  /\ beat' = Idle

\* The briefing's savepoint may fail; the check stands and commits.
Commit ==
  /\ beat.pc = "commit"
  /\ Committed(beat)
  /\ Unmoved /\ UNCHANGED faults

\* A step raises: the beat reports an error and the caller's transaction ends
\* normally with what the steps before wrote, and a part of what this one did.
\* The lines have savepoints of their own and the briefing never raises.
FailBeat ==
  /\ Faults(1)
  /\ \/ beat.pc = "limits" /\ \E done \in SUBSET Quotas : Committed(Compared(done))
     \/ beat.pc = "signals" /\ \E done \in SUBSET Signals : Committed(Compared(done))
     \/ /\ beat.pc = "press"
        /\ \E buckets \in SUBSET Presses : Committed([beat EXCEPT !.acked = Read(News(buckets))])
     \/ /\ beat.pc = "synthesis"
        /\ \E said \in Surfaced : \E found \in SUBSET said :
             Fits(found) /\ Committed([beat EXCEPT !.found = SetToSeq(found)])
  /\ Unmoved

\* The process dies or the database refuses: nothing was written.
RollBack ==
  /\ beat.pc # "idle"
  /\ Faults(1)
  /\ beat' = Idle
  /\ Unmoved /\ Uncommitted

------------------------------------------------------------------------------
(* The book and the people. *)

\* New values, prices or limits: several figures may move at once.
BookMoves ==
  /\ moves < MaxMoves
  /\ moves' = moves + 1
  /\ mag' \in Books
  /\ mag' # mag
  /\ UNCHANGED <<desk, acked, findings, cases, beat, acts, faults>>

Calibrates(d) ==
  /\ Acts
  /\ d # desk
  /\ desk' = d
  /\ UNCHANGED <<mag, acked, findings, cases, beat, moves, faults>>

SaveCalibration ==
  \E w \in Warns, n \in Deltas : Calibrates([desk EXCEPT !.default = [warn |-> w, delta |-> n]])

SwitchFamily ==
  \E f \in Families :
    Calibrates([desk EXCEPT !.off = IF f \in @ THEN @ \ {f} ELSE @ \union {f}])

\* A revision states the whole overlay of a subject; press carries a mute alone.
SaveOverlay ==
  \E s \in Subjects \ desk.retired, o \in Overlays :
    /\ s \in Presses => o.warn = NoData /\ o.delta = NoData
    /\ Calibrates([desk EXCEPT
      !.own = [r \in Scalars |-> IF r = s THEN [warn |-> o.warn, delta |-> o.delta] ELSE @[r]],
      !.muted = IF o.mute THEN @ \union {s} ELSE @ \ {s}])

\* A retired watchpoint is observed no more; its acknowledgement stays.
RetireWatchpoint ==
  \E s \in Signals \ desk.retired :
    Calibrates([desk EXCEPT !.retired = @ \union {s}, !.muted = @ \ {s}, !.own[s] = Inherits])

\* A watchpoint is created, for the first time or again.
CreateWatchpoint == \E s \in desk.retired : Calibrates([desk EXCEPT !.retired = @ \ {s}])

\* The resolution of a card is written over whatever it was.
ResolveFinding ==
  /\ Acts
  /\ \E i \in DOMAIN findings : findings' = [findings EXCEPT ![i].resolution = "acknowledged"]
  /\ UNCHANGED <<mag, desk, acked, cases, beat, moves, faults>>

\* An informational card is acknowledged, never handed to a case.
Openable(i) == findings[i].band \in CaseBands /\ findings[i].resolution = "open"

OpenCase ==
  /\ Acts
  /\ \E i \in {j \in DOMAIN findings : Openable(j)} :
       /\ cases' = Append(cases, [finding |-> i, fell |-> FALSE])
       /\ findings' = [findings EXCEPT ![i].resolution = "opened_case"]
  /\ UNCHANGED <<mag, desk, acked, beat, moves, faults>>

------------------------------------------------------------------------------

BeatStep ==
  \/ Resolve \/ EvaluateLimits \/ EvaluateSignals
  \/ WriteLines \/ EvaluatePress \/ Synthesise \/ Commit

People ==
  \/ SaveCalibration \/ SwitchFamily \/ SaveOverlay \/ RetireWatchpoint \/ CreateWatchpoint
  \/ ResolveFinding \/ OpenCase

Next ==
  \/ BeatStep \/ FailBeat \/ RollBack
  \/ BookMoves \/ People

\* The tick comes round for ever and a beat under way goes on.
Fairness == WF_vars(BeatStep)

Spec == Init /\ [][Next]_vars /\ Fairness

------------------------------------------------------------------------------
(* Properties. *)

\* A comparison that acknowledges a breach of a limit offers it too, whoever
\* muted the subject, even between two beats (ADR-0116: it cannot be muted).
BreachIsOffered ==
  [][beat.pc = "limits" /\ beat'.pc = "signals" =>
       \A s \in Quotas :
         /\ beat'.acked[s] # beat.acked[s]
         /\ beat'.acked[s] # NoAck
         /\ Breached(s, beat'.acked[s])
         => \E o \in beat'.offer : o.subject = s /\ o.status = "BREACH"]_vars

\* Whatever the model names and suggests, a finding is about a subject its beat
\* offered, a breached limit is critical, and neither an all-clear nor the press
\* is ever more than informational: so neither of them becomes a case.
FindingsGrounded ==
  /\ beat.pc = "commit" =>
       \A i \in DOMAIN beat.found : \E o \in beat.offer :
         /\ o.subject = beat.found[i].subject
         /\ o.subject \in Quotas /\ o.kind # "falling_edge" /\ o.status = "BREACH"
              => beat.found[i].band = "critical"
         /\ o.subject \in Presses \/ o.kind = "falling_edge"
              => beat.found[i].band = "informational"
  /\ \A c \in DOMAIN cases :
       LET f == findings[cases[c].finding] IN
       f.subject \notin Presses /\ f.band # "informational"

\* Why a fall may leave an open case without its line: the very savepoint failed,
\* the case was opened after the lines, or a mute hid a fall from a warning.
Excepted(s, c) ==
  \/ s \in beat.lost
  \/ beat.upto \in 0..(c - 1)
  \/ s \in beat.desk.muted /\ ~Breached(s, acked[s])

Forgets(s) == acked[s] # NoAck /\ acked'[s] = NoAck

\* A level that was acknowledged is never forgotten but by a beat that leaves its
\* line on every case open on the subject: one subject's failure costs no other
\* its line, nor does an error later in the beat.  Only a beat that failed while
\* it still compared forgets in silence.
FallsReachCases ==
  [][\A s \in Scalars : Forgets(s) =>
       \A c \in CasesOn(s) :
         cases'[c].fell \/ Excepted(s, c) \/ beat.pc \in {"limits", "signals"}]_vars

\* Once the book and the desk have come to rest the beats offer nothing more, a
\* subject apart whose every observation was made news by a delta of zero.
BeatsFallSilent ==
  <>[](\A o \in beat.offer :
         o.kind = "magnitude_retrigger" /\ DeltaFor(beat.desk, o.subject) = 0)

\* A limit in breach that stays in breach, watched, is acknowledged by some beat,
\* however often a call failed or the process died before.
BreachIsSeen ==
  \A s \in Quotas :
    Breached(s, mag[s]) /\ Enabled(desk, s) ~>
      \/ acked[s] # NoAck /\ Breached(s, acked[s])
      \/ ~Breached(s, mag[s]) \/ ~Enabled(desk, s)

==============================================================================

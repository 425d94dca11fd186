-------------------------- MODULE WatchBeatProofs --------------------------
(***************************************************************************)
(* Theorems of WatchBeat, for any subjects, books and calibrations, and    *)
(* however many findings, cases, moves and faults.                         *)
(***************************************************************************)
EXTENDS WatchBeat, FiniteSetTheorems, SequenceTheorems, TLAPS

Kinds == {"rising_edge", "magnitude_retrigger", "falling_edge", "none"}
Triggers == {"limit_breach", "limit_escalation", "price_trigger", "all_clear", "rss_cluster"}
Bands == {"informational", "noteworthy", "critical"}
Found == [subject : Subjects, resolution : {"open", "acknowledged", "opened_case"}, band : Bands]

------------------------------------------------------------------------------
(* The floor under the model's suggestion. *)

LEMMA UrgencyIsFloored ==
  ASSUME NEW n \in {1, 10}, NEW g \in Triggers
  PROVE  /\ Band(FinalUrgency(n, g)) \in Bands
         /\ g = "limit_breach" => Band(FinalUrgency(n, g)) = "critical"
         /\ g \in {"all_clear", "rss_cluster"} => Band(FinalUrgency(n, g)) = "informational"
<1>1. CASE g = "limit_breach"
  BY <1>1 DEF FinalUrgency, Most, Least, Floor, Cap, Band, Bands
<1>2. CASE g = "limit_escalation"
  BY <1>2 DEF FinalUrgency, Most, Least, Floor, Cap, Band, Bands
<1>3. CASE g = "price_trigger"
  BY <1>3 DEF FinalUrgency, Most, Least, Floor, Cap, Band, Bands
<1>4. CASE g = "all_clear"
  BY <1>4 DEF FinalUrgency, Most, Least, Floor, Cap, Band, Bands
<1>5. CASE g = "rss_cluster"
  BY <1>5 DEF FinalUrgency, Most, Least, Floor, Cap, Band, Bands
<1> QED  BY <1>1, <1>2, <1>3, <1>4, <1>5 DEF Triggers

LEMMA TriggersAreSorted ==
  ASSUME NEW s \in Subjects, NEW kind, NEW status
  PROVE  /\ Trigger(s, kind, status) \in Triggers
         /\ s \in Quotas /\ kind # "falling_edge" /\ status = "BREACH"
              => Trigger(s, kind, status) = "limit_breach"
         /\ s \in Presses => Trigger(s, kind, status) = "rss_cluster"
         /\ s \notin Presses /\ kind = "falling_edge" => Trigger(s, kind, status) = "all_clear"
<1> DEFINE g == Trigger(s, kind, status)
<1>1. CASE s \in Presses
  <2>1. g = "rss_cluster"
    BY <1>1, SubjectsAreApart DEF Trigger
  <2> QED  BY <1>1, <2>1, SubjectsAreApart DEF Triggers
<1>2. CASE s \notin Presses /\ kind = "falling_edge"
  <2>1. g = "all_clear"
    BY <1>2 DEF Trigger
  <2> QED  BY <1>2, <2>1 DEF Triggers
<1>3. CASE s \in Signals /\ kind # "falling_edge"
  <2>1. g = "price_trigger"
    BY <1>3, SubjectsAreApart DEF Trigger
  <2> QED  BY <1>3, <2>1, SubjectsAreApart DEF Triggers
<1>4. CASE s \in Quotas /\ kind # "falling_edge" /\ status = "BREACH"
  <2>1. g = "limit_breach"
    BY <1>4, SubjectsAreApart DEF Trigger
  <2> QED  BY <1>4, <2>1, SubjectsAreApart DEF Triggers
<1>5. CASE s \in Quotas /\ kind # "falling_edge" /\ status # "BREACH"
  <2>1. g = "limit_escalation"
    BY <1>5, SubjectsAreApart DEF Trigger
  <2> QED  BY <1>5, <2>1, SubjectsAreApart DEF Triggers
<1> QED  BY <1>1, <1>2, <1>3, <1>4, <1>5 DEF Subjects, Scalars

\* What a finding of an offer is, whatever urgency the model suggests.
LEMMA FindingIsFloored ==
  ASSUME NEW o, o.subject \in Subjects, NEW n \in {1, 10}, NEW f, f = Finding(o, n)
  PROVE  /\ f \in Found /\ f.subject = o.subject /\ f.resolution = "open"
         /\ o.subject \in Quotas /\ o.kind # "falling_edge" /\ o.status = "BREACH"
              => f.band = "critical"
         /\ o.subject \in Presses \/ o.kind = "falling_edge" => f.band = "informational"
<1>1. PICK g : g = Trigger(o.subject, o.kind, o.status)
  OBVIOUS
<1>2. /\ g \in Triggers
      /\ o.subject \in Quotas /\ o.kind # "falling_edge" /\ o.status = "BREACH" => g = "limit_breach"
      /\ o.subject \in Presses => g = "rss_cluster"
      /\ o.subject \notin Presses /\ o.kind = "falling_edge" => g = "all_clear"
  BY <1>1, TriggersAreSorted
<1>3. PICK b : b = Band(FinalUrgency(n, g))
  OBVIOUS
<1>4. /\ b \in Bands
      /\ g = "limit_breach" => b = "critical"
      /\ g \in {"all_clear", "rss_cluster"} => b = "informational"
  BY <1>2, <1>3, UrgencyIsFloored
<1>5. f = [subject |-> o.subject, resolution |-> "open", band |-> b]
  BY <1>1, <1>3 DEF Finding
<1> QED  BY <1>2, <1>4, <1>5 DEF Found

LEMMA SeqOfFound ==
  ASSUME NEW S \in SUBSET Found
  PROVE  SetToSeq(S) \in Seq(S)
<1>1. IsFiniteSet(S)
  <2> DEFINE R == {"open", "acknowledged", "opened_case"}
             D == Subjects \X (R \X Bands)
             F == [x \in D |-> [subject |-> x[1], resolution |-> x[2][1], band |-> x[2][2]]]
  <2>1. IsFiniteSet(Subjects)
    BY SubjectsAreApart DEF Subjects, Scalars
  <2>2. IsFiniteSet(R) /\ IsFiniteSet(Bands)
    <3>1. \A a, b, c : IsFiniteSet({a, b, c})
      <4> SUFFICES ASSUME NEW a, NEW b, NEW c PROVE IsFiniteSet({a, b, c})
        OBVIOUS
      <4>1. IsFiniteSet({a}) /\ IsFiniteSet({b}) /\ IsFiniteSet({c})
        BY FS_Singleton
      <4>2. IsFiniteSet({a} \cup {b})
        BY <4>1, FS_Union
      <4>3. IsFiniteSet(({a} \cup {b}) \cup {c})
        BY <4>1, <4>2, FS_Union
      <4>4. ({a} \cup {b}) \cup {c} = {a, b, c}
        OBVIOUS
      <4> QED  BY <4>3, <4>4
    <3> QED  BY <3>1 DEF Bands
  <2>3. IsFiniteSet(D)
    <3> HIDE DEF R
    <3>1. IsFiniteSet(R \X Bands)
      BY <2>2, FS_Product
    <3> QED  BY <2>1, <3>1, FS_Product
  <2>4. Found = {F[x] : x \in D}
    <3>1. ASSUME NEW f \in Found PROVE f \in {F[x] : x \in D}
      <4>1. PICK x : x = <<f.subject, <<f.resolution, f.band>>>>
        OBVIOUS
      <4>2. x \in D /\ F[x] = f
        BY <4>1 DEF Found
      <4> QED  BY <4>2
    <3>2. \A x \in D : F[x] \in Found
      BY DEF Found
    <3> QED  BY <3>1, <3>2
  <2>5. IsFiniteSet(Found)
    <3>1. F \in Surjection(D, Found)
      <4>1. F \in [D -> Found]
        BY DEF Found
      <4> QED  BY <2>4, <4>1 DEF Surjection
    <3> HIDE DEF D, F
    <3> QED  BY <2>3, <3>1, FS_Surjection
  <2> QED  BY <2>5, FS_Subset
<1>2. PICK n \in Nat : n = Cardinality(S) /\ ExistsBijection(1..n, S)
  BY <1>1, FS_CardinalityType
<1>3. \E f \in [1..n -> S] : IsInjective(f)
  BY <1>2 DEF ExistsBijection, Bijection, Injection
<1>4. SetToSeq(S) \in [1..n -> S]
  BY <1>2, <1>3 DEF SetToSeq
<1> QED  BY <1>2, <1>4

------------------------------------------------------------------------------
(* The invariant. *)

Fields == {"pc", "desk", "acked", "offer", "lost", "lines", "upto", "found"}

Types ==
  /\ DOMAIN beat = Fields
  /\ mag \in [Scalars -> Magnitudes \union {NoData}]
  /\ findings \in Seq(Found)
  /\ cases \in Seq([finding : Nat, fell : BOOLEAN])
  /\ \A o \in beat.offer : o.subject \in Subjects
  /\ beat.found \in Seq(Found) /\ beat.upto \in {NoLines} \union 0..Len(cases)

\* A case is opened from a finding that may become one, once, and for good.
CasesAreFounded ==
  \A c \in 1..Len(cases) :
    /\ cases[c].finding \in 1..Len(findings)
    /\ findings[cases[c].finding].subject \notin Presses
    /\ findings[cases[c].finding].band # "informational"
    /\ findings[cases[c].finding].resolution # "open"

PressIsInformational ==
  \A i \in 1..Len(findings) : findings[i].subject \in Presses => findings[i].band = "informational"

\* What the beat has not come to yet, and what it starts from.
Stages ==
  /\ beat.pc = "idle" => beat.offer = {}
  /\ beat.pc \in {"idle", "limits", "signals", "lines"} <=> beat.upto = NoLines
  /\ beat.pc # "commit" => beat.found = <<>>
  /\ \A s \in Scalars :
       beat.pc = "limits" \/ (beat.pc = "signals" /\ s \in Signals) => beat.acked[s] = acked[s]

Hidden(s) == s \in beat.desk.muted /\ ~Breached(s, acked[s])

\* What the beat forgets it offers as a fall, unless a mute hides a fall from a warning.
ForgottenFalls ==
  beat.pc # "idle" =>
    \A s \in Scalars : acked[s] # NoAck /\ beat.acked[s] = NoAck => s \in Falls \/ Hidden(s)

\* The offer that finding f of the beat goes back to.
GroundedIn(f, o) ==
  /\ o \in beat.offer /\ o.subject = f.subject
  /\ o.subject \in Quotas /\ o.kind # "falling_edge" /\ o.status = "BREACH" => f.band = "critical"
  /\ o.subject \in Presses \/ o.kind = "falling_edge" => f.band = "informational"

FoundIsGrounded == \A i \in 1..Len(beat.found) : \E o \in beat.offer : GroundedIn(beat.found[i], o)

SubjectOf(c) == findings[cases[c].finding].subject

\* A case that was open when the lines were written has its line or had it.
Written ==
  \A c \in 1..beat.upto :
    SubjectOf(c) \in Falls \ beat.lost /\ c \in CasesOn(SubjectOf(c)) => c \in beat.lines \/ cases[c].fell

DeskInv ==
  /\ Types /\ CasesAreFounded /\ PressIsInformational
  /\ Stages /\ ForgottenFalls /\ FoundIsGrounded /\ Written

------------------------------------------------------------------------------
(* The beat, step by step.  A step of it that commits nothing leaves the findings, the  *)
(* cases and what is acknowledged alone.                                                *)

LEMMA IdleIsIdle ==
  ASSUME beat' = Idle, mag' \in [Scalars -> Magnitudes \union {NoData}],
         findings' \in Seq(Found), cases' \in Seq([finding : Nat, fell : BOOLEAN])
  PROVE  Types' /\ Stages' /\ ForgottenFalls' /\ FoundIsGrounded' /\ Written'
<1>1. /\ DOMAIN Idle = Fields /\ Idle.pc = "idle" /\ Idle.offer = {} /\ Idle.upto = NoLines
      /\ Idle.found = <<>>
  BY DEF Idle, Fields
<1>2. <<>> \in Seq(Found) /\ Len(<<>>) = 0 /\ 1..0 = {} /\ 1..NoLines = {}
  BY DEF NoLines
<1>3. Types'
  BY <1>1, <1>2 DEF Types
<1>4. Stages' /\ ForgottenFalls'
  BY <1>1 DEF Stages, ForgottenFalls
<1>5. FoundIsGrounded' /\ Written'
  BY <1>1, <1>2 DEF FoundIsGrounded, Written
<1> QED  BY <1>3, <1>4, <1>5

LEMMA ResolveKeeps ==
  ASSUME DeskInv, Resolve PROVE DeskInv'
<1>1. /\ beat.pc = "idle" /\ beat' = [Idle EXCEPT !.pc = "limits", !.desk = desk, !.acked = acked]
      /\ UNCHANGED <<mag, acked, findings, cases>>
  BY DEF Resolve, Unmoved, Uncommitted
<1>2. /\ DOMAIN beat' = Fields /\ beat'.pc = "limits" /\ beat'.acked = acked /\ beat'.offer = {}
      /\ beat'.upto = NoLines /\ beat'.found = <<>>
  BY <1>1 DEF Idle, Fields
<1>3. <<>> \in Seq(Found) /\ Len(<<>>) = 0 /\ 1..0 = {} /\ 1..NoLines = {}
  BY DEF NoLines
<1>4. Types'
  BY <1>1, <1>2, <1>3 DEF DeskInv, Types
<1>5. Stages' /\ ForgottenFalls'
  BY <1>1, <1>2 DEF Stages, ForgottenFalls
<1>6. FoundIsGrounded' /\ Written'
  BY <1>2, <1>3 DEF FoundIsGrounded, Written
<1>7. CasesAreFounded' /\ PressIsInformational'
  BY <1>1 DEF DeskInv, CasesAreFounded, PressIsInformational
<1> QED  BY <1>4, <1>5, <1>6, <1>7 DEF DeskInv

\* A subject is forgotten on a falling edge only, and the edge is offered or hidden.
LEMMA ForgettingIsOffered ==
  ASSUME DeskInv, NEW done, NEW s \in Scalars, beat.acked[s] # NoAck, Acknowledged(done)[s] = NoAck
  PROVE  \/ \E o \in Compared(done).offer : o.kind = "falling_edge" /\ o.subject = s
         \/ s \in beat.desk.muted /\ ~Breached(s, beat.acked[s])
<1>1. s \in Subjects
  BY DEF Subjects
<1>2. s \in done \intersect Observed /\ KindOf(s) = "falling_edge"
  <2>1. mag[s] # NoAck
    <3>1. mag[s] \in Magnitudes \union {NoData}
      BY DEF DeskInv, Types
    <3> QED  BY <3>1, MagnitudesAreCounts DEF NoData, NoAck
  <2> QED  BY <1>1, <2>1 DEF Acknowledged
<1>3. PICK o : o = Offered(s)
  OBVIOUS
<1>4. o.subject = s /\ o.kind = "falling_edge"
  BY <1>2, <1>3 DEF Offered
<1>5. CASE ~o.withheld
  <2>1. DOMAIN beat = Fields
    BY DEF DeskInv, Types
  <2>2. o \in Compared(done).offer
    BY <1>2, <1>3, <1>4, <1>5, <2>1 DEF Compared, Fields
  <2> QED  BY <1>4, <2>2
<1>6. CASE o.withheld
  <2>1. s \in beat.desk.muted
    BY <1>3, <1>6 DEF Offered
  <2>2. Status(s, beat.acked[s], WarnFor(beat.desk, s)) # "BREACH"
    BY <1>2, <1>3, <1>6 DEF Offered, MuteSuppresses
  <2>3. ~Breached(s, beat.acked[s])
    BY <2>2 DEF Status
  <2> QED  BY <2>1, <2>3
<1> QED  BY <1>5, <1>6

\* Comparing, one by one, the subjects that were not compared yet.
LEMMA ComparedKeeps ==
  ASSUME DeskInv, NEW done \in SUBSET Scalars, NEW next \in {"signals", "lines"},
         \/ beat.pc = "limits" /\ done = Quotas /\ next = "signals"
         \/ beat.pc = "signals" /\ done = Signals /\ next = "lines",
         beat' = [Compared(done) EXCEPT !.pc = next], UNCHANGED <<mag, acked, findings, cases>>
  PROVE  DeskInv'
<1>1. beat.upto = NoLines /\ beat.found = <<>> /\ beat.pc # "idle"
  BY DEF DeskInv, Stages
<1>2. /\ DOMAIN beat' = Fields /\ beat'.pc = next /\ beat'.acked = Acknowledged(done)
      /\ beat'.offer = beat.offer \union
           {o \in {Offered(s) : s \in {r \in done \intersect Observed : KindOf(r) # "none"}} : ~o.withheld}
      /\ beat'.offer = Compared(done).offer /\ beat'.desk = beat.desk
      /\ beat'.upto = NoLines /\ beat'.found = <<>>
  BY <1>1 DEF Compared, DeskInv, Types, Fields
<1>3. \A o \in beat'.offer : o.subject \in Subjects
  <2> SUFFICES ASSUME NEW o \in beat'.offer, o \notin beat.offer PROVE o.subject \in Subjects
    BY DEF DeskInv, Types
  <2>1. PICK s \in Observed : o = Offered(s)
    BY <1>2
  <2> QED  BY <2>1 DEF Offered, Observed, Subjects
<1>4. <<>> \in Seq(Found) /\ Len(<<>>) = 0 /\ 1..0 = {} /\ 1..NoLines = {}
  BY DEF NoLines
<1>5. Types'
  BY <1>2, <1>3, <1>4 DEF DeskInv, Types
<1>6. Stages'
  <2>1. ASSUME NEW s \in Signals, beat.pc = "limits" PROVE beat'.acked[s] = acked[s]
    <3>1. s \in Subjects /\ s \notin done
      BY <2>1, SubjectsAreApart DEF Subjects, Scalars
    <3>2. beat'.acked[s] = beat.acked[s]
      BY <1>2, <3>1 DEF Acknowledged
    <3> QED  BY <2>1, <3>2 DEF DeskInv, Stages, Scalars
  <2> QED  BY <1>2, <2>1 DEF Stages
<1>7. ForgottenFalls'
  <2> SUFFICES ASSUME NEW s \in Scalars, acked[s] # NoAck, beat'.acked[s] = NoAck
               PROVE  s \in Falls' \/ Hidden(s)'
    BY DEF ForgottenFalls
  <2>1. Hidden(s)' = Hidden(s)
    BY <1>2 DEF Hidden
  <2>2. CASE beat.acked[s] = NoAck
    <3>1. s \in Falls \/ Hidden(s)
      BY <1>1, <2>2 DEF DeskInv, ForgottenFalls
    <3>2. Falls \subseteq Falls'
      BY <1>2 DEF Falls
    <3> QED  BY <2>1, <3>1, <3>2
  <2>3. CASE beat.acked[s] # NoAck
    <3>1. \/ \E o \in beat'.offer : o.kind = "falling_edge" /\ o.subject = s
          \/ s \in beat.desk.muted /\ ~Breached(s, beat.acked[s])
      BY <1>2, <2>3, ForgettingIsOffered
    <3>2. s \in done
      <4>1. s \in Subjects
        BY DEF Subjects
      <4> QED  BY <1>2, <2>3, <4>1 DEF Acknowledged
    <3>3. beat.acked[s] = acked[s]
      BY <3>2 DEF DeskInv, Stages
    <3> QED  BY <2>1, <3>1, <3>3 DEF Falls, Hidden
  <2> QED  BY <2>2, <2>3
<1>8. FoundIsGrounded' /\ Written'
  BY <1>2, <1>4 DEF FoundIsGrounded, Written
<1>9. CasesAreFounded' /\ PressIsInformational'
  BY DEF DeskInv, CasesAreFounded, PressIsInformational
<1> QED  BY <1>5, <1>6, <1>7, <1>8, <1>9 DEF DeskInv

LEMMA EvaluationKeeps ==
  ASSUME DeskInv, EvaluateLimits \/ EvaluateSignals PROVE DeskInv'
BY ComparedKeeps DEF EvaluateLimits, EvaluateSignals, Unmoved, Uncommitted, Scalars

LEMMA LinesKeep ==
  ASSUME DeskInv, WriteLines PROVE DeskInv'
<1>1. beat.pc = "lines" /\ beat.found = <<>> /\ UNCHANGED <<mag, acked, findings, cases>>
  BY DEF WriteLines, Unmoved, Uncommitted, DeskInv, Stages
<1>2. PICK lost \in SUBSET Falls :
        beat' = [beat EXCEPT !.pc = "press", !.lost = lost, !.upto = Len(cases), !.lines = LinesFor(lost)]
  BY DEF WriteLines
<1>3. /\ DOMAIN beat' = Fields /\ beat'.pc = "press" /\ beat'.acked = beat.acked
      /\ beat'.offer = beat.offer /\ beat'.upto = Len(cases) /\ beat'.found = <<>>
      /\ beat'.lost = lost /\ beat'.lines = LinesFor(lost) /\ beat'.desk = beat.desk
  BY <1>1, <1>2 DEF DeskInv, Types, Fields
<1>4. Types' /\ Len(cases) # NoLines
  <2>1. Len(cases) \in Nat
    BY DEF DeskInv, Types
  <2>2. Len(cases) \in 0..Len(cases) /\ Len(cases) # NoLines
    BY <2>1 DEF NoLines
  <2> QED  BY <1>1, <1>3, <2>2 DEF DeskInv, Types
<1>5. Stages' /\ ForgottenFalls'
  BY <1>1, <1>3, <1>4 DEF DeskInv, Stages, ForgottenFalls, Falls, Hidden
<1>6. FoundIsGrounded'
  BY <1>3 DEF FoundIsGrounded
<1>7. Written'
  <2> SUFFICES ASSUME NEW c \in 1..Len(cases),
                      SubjectOf(c) \in Falls \ lost, c \in CasesOn(SubjectOf(c))
               PROVE  c \in LinesFor(lost) \/ cases[c].fell
    BY <1>1, <1>3 DEF Written, SubjectOf, Falls, CasesOn
  <2> QED  BY DEF LinesFor
<1>8. CasesAreFounded' /\ PressIsInformational'
  BY <1>1 DEF DeskInv, CasesAreFounded, PressIsInformational
<1> QED  BY <1>4, <1>5, <1>6, <1>7, <1>8 DEF DeskInv

LEMMA PressKeeps ==
  ASSUME DeskInv, EvaluatePress PROVE DeskInv'
<1>1. beat.pc = "press" /\ beat.found = <<>> /\ UNCHANGED <<mag, acked, findings, cases>>
  BY DEF EvaluatePress, Unmoved, Uncommitted, DeskInv, Stages
<1>2. PICK news, offers :
        /\ news \in SUBSET Presses
        /\ \A o \in offers : o.subject \in Presses /\ o.kind = "rising_edge"
        /\ beat' = [beat EXCEPT
             !.pc = "synthesis",
             !.acked = [s \in Subjects |-> IF s \in news THEN Seen ELSE beat.acked[s]],
             !.offer = beat.offer \union offers]
  <2>1. PICK buckets \in SUBSET Presses :
          beat' = [beat EXCEPT
            !.pc = "synthesis",
            !.acked = Read(News(buckets)),
            !.offer = beat.offer \union
              {[subject |-> b, kind |-> "rising_edge", status |-> "OK", at |-> Seen,
                withheld |-> FALSE] : b \in News(buckets) \ beat.desk.muted}]
    BY DEF EvaluatePress
  <2>2. PICK offers : offers = {[subject |-> b, kind |-> "rising_edge", status |-> "OK", at |-> Seen,
                                 withheld |-> FALSE] : b \in News(buckets) \ beat.desk.muted}
    OBVIOUS
  <2>3. News(buckets) \in SUBSET Presses /\ \A o \in offers : o.subject \in Presses /\ o.kind = "rising_edge"
    BY <2>2 DEF News
  <2> QED  BY <2>1, <2>2, <2>3 DEF Read
<1>3. /\ DOMAIN beat' = Fields /\ beat'.pc = "synthesis"
      /\ beat'.acked = [s \in Subjects |-> IF s \in news THEN Seen ELSE beat.acked[s]]
      /\ beat'.offer = beat.offer \union offers /\ beat'.upto = beat.upto /\ beat'.found = <<>>
      /\ beat'.lost = beat.lost /\ beat'.lines = beat.lines /\ beat'.desk = beat.desk
  BY <1>1, <1>2 DEF DeskInv, Types, Fields
<1>4. Types'
  BY <1>1, <1>2, <1>3 DEF DeskInv, Types, Subjects
<1>5. Stages'
  BY <1>1, <1>3 DEF DeskInv, Stages
<1>6. ASSUME NEW s \in Scalars PROVE beat'.acked[s] = beat.acked[s]
  BY <1>2, <1>3, SubjectsAreApart DEF Scalars, Subjects
<1>7. Falls' = Falls
  BY <1>2, <1>3 DEF Falls
<1>8. FoundIsGrounded' /\ Written' /\ ForgottenFalls'
  <2>1. FoundIsGrounded' /\ Written'
    BY <1>1, <1>3, <1>7 DEF FoundIsGrounded, DeskInv, Written, SubjectOf, CasesOn
  <2>2. \A s \in Scalars : Hidden(s)' = Hidden(s)
    BY <1>1, <1>3 DEF Hidden
  <2>3. \A s \in Scalars : acked[s] # NoAck /\ beat.acked[s] = NoAck => s \in Falls \/ Hidden(s)
    BY <1>1 DEF DeskInv, ForgottenFalls
  <2>4. ForgottenFalls'
    <3> SUFFICES ASSUME NEW s \in Scalars, acked[s] # NoAck, beat'.acked[s] = NoAck
                 PROVE  s \in Falls' \/ Hidden(s)'
      BY <1>1 DEF ForgottenFalls
    <3>1. beat.acked[s] = NoAck
      BY <1>6
    <3>2. s \in Falls \/ Hidden(s)
      BY <2>3, <3>1
    <3>3. CASE s \in Falls
      BY <1>7, <3>3
    <3>4. CASE Hidden(s)
      BY <2>2, <3>4
    <3> QED  BY <3>2, <3>3, <3>4
  <2> QED  BY <2>1, <2>4
<1>9. CasesAreFounded' /\ PressIsInformational'
  BY <1>1 DEF DeskInv, CasesAreFounded, PressIsInformational
<1> QED  BY <1>4, <1>5, <1>8, <1>9 DEF DeskInv

LEMMA SurfacedIsGrounded ==
  ASSUME DeskInv, NEW S \in Surfaced, NEW f \in S
  PROVE  f \in Found /\ \E o \in beat.offer : GroundedIn(f, o)
<1>1. PICK said \in SUBSET Subjects, n \in {1, 10} : S = Grounded(said, n)
  BY DEF Surfaced
<1>2. PICK o \in beat.offer : f = Finding(o, n)
  BY <1>1 DEF Grounded
<1>3. o.subject \in Subjects
  BY DEF DeskInv, Types
<1> QED  BY <1>2, <1>3, FindingIsFloored DEF GroundedIn

LEMMA SynthesisKeeps ==
  ASSUME DeskInv, Synthesise PROVE DeskInv'
<1>1. beat.pc = "synthesis" /\ UNCHANGED <<mag, acked, findings, cases>>
  BY DEF Synthesise, Unmoved, Uncommitted
<1>2. PICK S \in Surfaced : beat' = [beat EXCEPT !.pc = "commit", !.found = SetToSeq(S)]
  BY DEF Synthesise
<1>3. ASSUME NEW f \in S PROVE f \in Found /\ \E o \in beat.offer : GroundedIn(f, o)
  BY SurfacedIsGrounded
<1>4. SetToSeq(S) \in Seq(S) /\ S \in SUBSET Found
  BY <1>3, SeqOfFound
<1>5. SetToSeq(S) \in Seq(Found) /\ \A i \in 1..Len(SetToSeq(S)) : SetToSeq(S)[i] \in S
  BY <1>4
<1>6. /\ DOMAIN beat' = Fields /\ beat'.pc = "commit" /\ beat'.acked = beat.acked
      /\ beat'.offer = beat.offer /\ beat'.upto = beat.upto /\ beat'.found = SetToSeq(S)
      /\ beat'.lost = beat.lost /\ beat'.lines = beat.lines /\ beat'.desk = beat.desk
  BY <1>2 DEF DeskInv, Types, Fields
<1>7. Types'
  BY <1>1, <1>5, <1>6 DEF DeskInv, Types
<1>8. Stages' /\ ForgottenFalls'
  BY <1>1, <1>6 DEF DeskInv, Stages, ForgottenFalls, Falls, Hidden
<1>9. FoundIsGrounded'
  BY <1>3, <1>5, <1>6 DEF FoundIsGrounded, GroundedIn
<1>10. Written'
  BY <1>1, <1>6 DEF DeskInv, Written, SubjectOf, Falls, CasesOn
<1>11. CasesAreFounded' /\ PressIsInformational'
  BY <1>1 DEF DeskInv, CasesAreFounded, PressIsInformational
<1> QED  BY <1>7, <1>8, <1>9, <1>10, <1>11 DEF DeskInv

------------------------------------------------------------------------------
(* What commits, and what people do meanwhile. *)

LEMMA SeqAsFunction ==
  ASSUME NEW S, NEW q \in Seq(S) PROVE DOMAIN q = 1..Len(q) /\ q \in [1..Len(q) -> S] /\ Len(q) \in Nat
OBVIOUS

LEMMA FunctionAsSeq ==
  ASSUME NEW S, NEW n \in Nat, NEW q \in [1..n -> S] PROVE q \in Seq(S) /\ Len(q) = n
OBVIOUS

\* The findings a transaction may commit: the press is informational.
Sober(q) ==
  /\ q \in Seq(Found)
  /\ \A i \in 1..Len(q) : q[i].subject \in Presses => q[i].band = "informational"

LEMMA CommitKeeps ==
  ASSUME DeskInv, NEW b, Committed(b), Sober(b.found), mag' = mag PROVE DeskInv'
<1>1. /\ findings' = findings \o b.found /\ beat' = Idle
      /\ cases' = [c \in DOMAIN cases |->
                    [cases[c] EXCEPT !.fell = @ \/ c \in b.lines]]
  BY DEF Committed
<1> DEFINE n == Len(findings)
           m == Len(findings')
           k == Len(cases)
<1>2. /\ findings \in Seq(Found) /\ b.found \in Seq(Found) /\ cases \in Seq([finding : Nat, fell : BOOLEAN])
      /\ n \in Nat /\ k \in Nat /\ Len(b.found) \in Nat
  BY DEF DeskInv, Types, Sober
<1>3. /\ findings' \in Seq(Found) /\ m = n + Len(b.found)
      /\ \A i \in 1..n : findings'[i] = findings[i]
      /\ \A i \in 1..Len(b.found) : findings'[n + i] = b.found[i]
  BY <1>1, <1>2, ConcatProperties
<1>4. cases' \in Seq([finding : Nat, fell : BOOLEAN]) /\ Len(cases') = k
      /\ \A c \in 1..k : cases'[c].finding = cases[c].finding
  <2>1. DOMAIN cases = 1..k /\ cases \in [1..k -> [finding : Nat, fell : BOOLEAN]]
    BY <1>2, SeqAsFunction
  <2>2. ASSUME NEW c \in 1..k
        PROVE  /\ cases'[c] \in [finding : Nat, fell : BOOLEAN]
               /\ cases'[c].finding = cases[c].finding
    <3>1. cases[c] \in [finding : Nat, fell : BOOLEAN]
      <4> HIDE DEF k
      <4> QED  BY <2>1
    <3>2. cases'[c] = [cases[c] EXCEPT !.fell = @ \/ c \in b.lines]
      BY <1>1, <2>1
    <3>3. PICK fell \in BOOLEAN : fell = (cases[c].fell \/ c \in b.lines)
      OBVIOUS
    <3>4. cases'[c] = [cases[c] EXCEPT !.fell = fell]
      BY <3>2, <3>3
    <3> QED  BY <3>1, <3>4
  <2>3. DOMAIN cases' = 1..k
    BY <1>1, <2>1
  <2>4. cases' \in [1..k -> [finding : Nat, fell : BOOLEAN]]
    <3>1. cases' = [c \in 1..k |-> cases'[c]]
      BY <1>1, <2>1
    <3> QED  BY <2>2, <3>1
  <2>5. k \in Nat
    BY <1>2
  <2> HIDE DEF k
  <2>6. cases' \in Seq([finding : Nat, fell : BOOLEAN]) /\ Len(cases') = k
    BY <2>4, <2>5, FunctionAsSeq
  <2> QED  BY <2>2, <2>6
<1> HIDE DEF n, m, k
<1>5. \A i \in 1..m : i \in 1..n \/ (i - n \in 1..Len(b.found) /\ n + (i - n) = i)
  BY <1>2, <1>3
<1>6. \A i \in 1..n : i \in 1..m
  BY <1>2, <1>3
<1>7. PressIsInformational'
  <2> SUFFICES ASSUME NEW i \in 1..m, findings'[i].subject \in Presses
               PROVE  findings'[i].band = "informational"
    BY DEF PressIsInformational, m
  <2>1. CASE i \in 1..n
    BY <1>3, <2>1 DEF DeskInv, PressIsInformational, n
  <2>2. CASE i - n \in 1..Len(b.found) /\ n + (i - n) = i
    <3>1. findings'[i] = b.found[i - n]
      BY <1>3, <2>2
    <3> QED  BY <2>2, <3>1 DEF Sober
  <2> QED  BY <1>5, <2>1, <2>2
<1>8. CasesAreFounded'
  <2> SUFFICES ASSUME NEW c \in 1..k
               PROVE  /\ cases'[c].finding \in 1..m
                      /\ findings'[cases'[c].finding].subject \notin Presses
                      /\ findings'[cases'[c].finding].band # "informational"
                      /\ findings'[cases'[c].finding].resolution # "open"
    BY <1>4 DEF CasesAreFounded, m
  <2>1. /\ cases[c].finding \in 1..n
        /\ findings[cases[c].finding].subject \notin Presses
        /\ findings[cases[c].finding].band # "informational"
        /\ findings[cases[c].finding].resolution # "open"
    BY DEF DeskInv, CasesAreFounded, k, n
  <2> QED  BY <1>3, <1>4, <1>6, <2>1
<1>9. mag' \in [Scalars -> Magnitudes \union {NoData}]
  BY DEF DeskInv, Types
<1> QED  BY <1>1, <1>3, <1>4, <1>7, <1>8, <1>9, IdleIsIdle DEF DeskInv

LEMMA FoundIsSober == ASSUME DeskInv PROVE Sober(beat.found)
<1> SUFFICES ASSUME NEW i \in 1..Len(beat.found), beat.found[i].subject \in Presses
             PROVE  beat.found[i].band = "informational"
  BY DEF DeskInv, Types, Sober
<1>1. PICK o \in beat.offer : GroundedIn(beat.found[i], o)
  BY DEF DeskInv, FoundIsGrounded
<1> QED  BY <1>1 DEF GroundedIn

MayCommit(b) ==
  /\ Committed(b) /\ Sober(b.found)
  /\ beat.pc \in {"press", "synthesis"} =>
       b.lines = beat.lines /\ \A s \in Scalars : b.acked[s] = beat.acked[s]

\* What a beat may have written when it fails: nothing it had not compared, read or been told.
LEMMA FailuresCommit ==
  ASSUME DeskInv, FailBeat
  PROVE  /\ mag' = mag
         /\ beat.pc \in {"limits", "signals", "press", "synthesis"}
         /\ \E b : MayCommit(b)
<1>1. DOMAIN beat = Fields /\ Sober(beat.found)
  BY FoundIsSober DEF DeskInv, Types
<1>2. mag' = mag
  BY DEF FailBeat, Unmoved
<1>3. ASSUME NEW done, Committed(Compared(done)), beat.pc \in {"limits", "signals"}
      PROVE  \E b : MayCommit(b)
  <2>1. Compared(done).found = beat.found
    BY DEF Compared
  <2>2. MayCommit(Compared(done))
    BY <1>1, <1>3, <2>1 DEF MayCommit
  <2> QED  BY <2>2
<1>4. ASSUME NEW buckets \in SUBSET Presses, Committed([beat EXCEPT !.acked = Read(News(buckets))]),
             beat.pc = "press"
      PROVE  \E b : MayCommit(b)
  <2>1. PICK b : b = [beat EXCEPT !.acked = Read(News(buckets))]
    OBVIOUS
  <2>2. b.found = beat.found /\ b.lines = beat.lines /\ b.acked = Read(News(buckets))
    BY <1>1, <2>1 DEF Fields
  <2>3. ASSUME NEW s \in Scalars PROVE b.acked[s] = beat.acked[s]
    <3>1. s \in Subjects /\ s \notin News(buckets)
      BY SubjectsAreApart DEF News, Subjects, Scalars
    <3> QED  BY <2>2, <3>1 DEF Read
  <2>4. MayCommit(b)
    BY <1>1, <1>4, <2>1, <2>2, <2>3 DEF MayCommit
  <2> QED  BY <2>4
<1>5. ASSUME NEW S \in Surfaced, NEW found \in SUBSET S,
             Committed([beat EXCEPT !.found = SetToSeq(found)])
      PROVE  \E b : MayCommit(b)
  <2>1. PICK b : b = [beat EXCEPT !.found = SetToSeq(found)]
    OBVIOUS
  <2>2. b.found = SetToSeq(found) /\ b.lines = beat.lines /\ b.acked = beat.acked
    BY <1>1, <2>1 DEF Fields
  <2>3. \A f \in found : f \in Found /\ \E o \in beat.offer : GroundedIn(f, o)
    BY SurfacedIsGrounded
  <2>4. SetToSeq(found) \in Seq(found)
    BY <2>3, SeqOfFound
  <2>5. SetToSeq(found) \in Seq(Found) /\ \A i \in 1..Len(SetToSeq(found)) : SetToSeq(found)[i] \in found
    BY <2>3, <2>4
  <2>6. Sober(b.found)
    BY <2>2, <2>3, <2>5 DEF Sober, GroundedIn
  <2>7. MayCommit(b)
    BY <1>5, <2>1, <2>2, <2>6 DEF MayCommit
  <2> QED  BY <2>7
<1>6. beat.pc \in {"limits", "signals", "press", "synthesis"}
  BY DEF FailBeat
<1>7. \E b : MayCommit(b)
  BY <1>3, <1>4, <1>5 DEF FailBeat
<1> QED  BY <1>2, <1>6, <1>7

LEMMA EndsKeep ==
  ASSUME DeskInv, Commit \/ FailBeat PROVE DeskInv'
<1>1. CASE Commit
  BY <1>1, CommitKeeps, FoundIsSober DEF Commit, Unmoved
<1>2. CASE FailBeat
  <2>1. mag' = mag /\ \E b : MayCommit(b)
    BY <1>2, FailuresCommit
  <2>2. PICK b : MayCommit(b)
    BY <2>1
  <2> QED  BY <2>1, <2>2, CommitKeeps DEF MayCommit
<1> QED  BY <1>1, <1>2

LEMMA RollBackKeeps ==
  ASSUME DeskInv, RollBack PROVE DeskInv'
<1>1. beat' = Idle /\ UNCHANGED <<mag, acked, findings, cases>>
  BY DEF RollBack, Unmoved, Uncommitted
<1>2. CasesAreFounded' /\ PressIsInformational'
  BY <1>1 DEF DeskInv, CasesAreFounded, PressIsInformational
<1>3. /\ mag' \in [Scalars -> Magnitudes \union {NoData}] /\ findings' \in Seq(Found)
      /\ cases' \in Seq([finding : Nat, fell : BOOLEAN])
  BY <1>1 DEF DeskInv, Types
<1> QED  BY <1>1, <1>2, <1>3, IdleIsIdle DEF DeskInv

LEMMA OthersKeep ==
  ASSUME DeskInv, mag' \in [Scalars -> Magnitudes \union {NoData}],
         UNCHANGED <<acked, findings, cases, beat>>
  PROVE  DeskInv'
BY DEF DeskInv, Types, CasesAreFounded, PressIsInformational, Stages, ForgottenFalls, Hidden,
       FoundIsGrounded, GroundedIn, Written, SubjectOf, Falls, CasesOn

\* The resolution of a finding is written over, and perhaps a case is opened from it.
LEMMA ResolutionKeeps ==
  ASSUME DeskInv, NEW i \in 1..Len(findings), NEW res \in {"acknowledged", "opened_case"},
         findings' = [findings EXCEPT ![i].resolution = res], UNCHANGED <<mag, acked, beat>>,
         \/ res = "acknowledged" /\ cases' = cases
         \/ /\ res = "opened_case"
            /\ findings[i].resolution = "open" /\ findings[i].band \in CaseBands
            /\ cases' = Append(cases, [finding |-> i, fell |-> FALSE])
  PROVE  DeskInv'
<1> DEFINE n == Len(findings)
           k == Len(cases)
           l == Len(cases')
<1>1. /\ findings \in Seq(Found) /\ cases \in Seq([finding : Nat, fell : BOOLEAN])
      /\ n \in Nat /\ k \in Nat /\ beat.upto \in {NoLines} \union 0..k
  BY DEF DeskInv, Types
<1>2. /\ findings' \in Seq(Found) /\ Len(findings') = n
      /\ \A j \in 1..n : /\ findings'[j].subject = findings[j].subject
                         /\ findings'[j].band = findings[j].band
                         /\ findings'[j].resolution = IF j = i THEN res ELSE findings[j].resolution
  <2>1. findings \in [1..n -> Found]
    BY <1>1
  <2>2. \A j \in 1..n : findings[j] \in Found
    BY <2>1
  <2>3. ASSUME NEW j \in 1..n
        PROVE  /\ findings'[j] \in Found
               /\ findings'[j].subject = findings[j].subject
               /\ findings'[j].band = findings[j].band
               /\ findings'[j].resolution = IF j = i THEN res ELSE findings[j].resolution
    <3>1. CASE j = i
      <4>1. findings'[j] = [findings[j] EXCEPT !.resolution = res]
        BY <2>1, <3>1
      <4> QED  BY <2>2, <3>1, <4>1 DEF Found
    <3>2. CASE j # i
      <4>1. findings'[j] = findings[j]
        BY <2>1, <3>2
      <4> QED  BY <2>2, <3>2, <4>1
    <3> QED  BY <3>1, <3>2
  <2>4. findings' \in [1..n -> Found]
    <3>1. DOMAIN findings' = 1..n /\ findings' = [j \in 1..n |-> findings'[j]]
      BY <2>1
    <3> QED  BY <2>3, <3>1
  <2> HIDE DEF n
  <2> QED  BY <1>1, <2>3, <2>4
<1>3. /\ cases' \in Seq([finding : Nat, fell : BOOLEAN]) /\ l \in {k, k + 1}
      /\ \A c \in 1..k : cases'[c] = cases[c]
      /\ \A c \in 1..l : c \in 1..k \/
           (cases'[c].finding = i /\ findings[i].resolution = "open"
              /\ findings[i].band \in CaseBands /\ res = "opened_case")
  <2>1. CASE cases' = cases
    <3>1. l = k
      BY <2>1
    <3> QED  BY <1>1, <2>1, <3>1
  <2>2. CASE /\ res = "opened_case"
             /\ findings[i].resolution = "open" /\ findings[i].band \in CaseBands
             /\ cases' = Append(cases, [finding |-> i, fell |-> FALSE])
    <3>1. PICK e \in [finding : Nat, fell : BOOLEAN] : e = [finding |-> i, fell |-> FALSE]
      <4>1. i \in Nat
        BY <1>1
      <4> QED  BY <4>1
    <3>2. cases' = Append(cases, e) /\ e.finding = i
      BY <2>2, <3>1
    <3>3. /\ cases' \in Seq([finding : Nat, fell : BOOLEAN]) /\ l = k + 1
          /\ \A c \in 1..k : cases'[c] = cases[c]
          /\ cases'[k + 1] = e
      BY <1>1, <3>2, AppendProperties
    <3>4. \A c \in 1..k + 1 : c \in 1..k \/ c = k + 1
      <4> HIDE DEF k
      <4> QED  BY <1>1
    <3> HIDE DEF k, l
    <3>5. ASSUME NEW c \in 1..l
          PROVE  c \in 1..k \/ cases'[c].finding = i
      BY <3>2, <3>3, <3>4
    <3> QED  BY <2>2, <3>3, <3>5
  <2> QED  BY <2>1, <2>2
<1> HIDE DEF n, k, l
<1>4. Types'
  <2>1. beat.upto \in {NoLines} \union 0..l
    BY <1>1, <1>3
  <2> QED  BY <1>2, <1>3, <2>1 DEF DeskInv, Types, l
<1>5. PressIsInformational'
  BY <1>2 DEF DeskInv, PressIsInformational, n
<1>6. CasesAreFounded'
  <2> SUFFICES ASSUME NEW c \in 1..l
               PROVE  /\ cases'[c].finding \in 1..n
                      /\ findings'[cases'[c].finding].subject \notin Presses
                      /\ findings'[cases'[c].finding].band # "informational"
                      /\ findings'[cases'[c].finding].resolution # "open"
    BY <1>2 DEF CasesAreFounded, l
  <2>1. CASE c \in 1..k
    <3>1. /\ cases[c].finding \in 1..n
          /\ findings[cases[c].finding].subject \notin Presses
          /\ findings[cases[c].finding].band # "informational"
          /\ findings[cases[c].finding].resolution # "open"
      BY <2>1 DEF DeskInv, CasesAreFounded, k, n
    <3> QED  BY <1>2, <1>3, <2>1, <3>1
  <2>2. CASE c \notin 1..k
    <3>1. cases'[c].finding = i /\ findings[i].band \in CaseBands /\ res = "opened_case" /\ i \in 1..n
      BY <1>3, <2>2 DEF n
    <3>2. findings[i].band # "informational"
      BY <3>1 DEF CaseBands
    <3>3. findings[i].subject \notin Presses
      BY <3>1, <3>2 DEF DeskInv, PressIsInformational, n
    <3> QED  BY <1>2, <3>1, <3>2, <3>3
  <2> QED  BY <2>1, <2>2
<1>7. Stages' /\ ForgottenFalls' /\ FoundIsGrounded'
  BY DEF DeskInv, Stages, ForgottenFalls, Hidden, Falls, FoundIsGrounded, GroundedIn
<1>8. Written'
  <2> SUFFICES ASSUME NEW c \in 1..beat.upto,
                      SubjectOf(c)' \in Falls \ beat.lost, c \in CasesOn(SubjectOf(c))'
               PROVE  c \in beat.lines \/ cases'[c].fell
    BY DEF Written, Falls
  <2>1. c \in 1..k
    BY <1>1 DEF NoLines
  <2>2. /\ cases'[c] = cases[c] /\ cases[c].finding \in 1..n
        /\ findings[cases[c].finding].resolution # "open"
    BY <1>3, <2>1 DEF DeskInv, CasesAreFounded, k, n
  <2>3. SubjectOf(c)' = SubjectOf(c)
    BY <1>2, <2>2 DEF SubjectOf
  <2>4. findings[cases[c].finding].resolution = "opened_case"
    <3>1. findings'[cases[c].finding].resolution = "opened_case"
      BY <2>2 DEF CasesOn
    <3>2. CASE cases[c].finding = i
      <4>1. findings[i].resolution # "open"
        BY <2>2, <3>2
      <4>2. res = "acknowledged"
        BY <4>1
      <4> QED  BY <1>2, <2>2, <3>1, <3>2, <4>2
    <3>3. CASE cases[c].finding # i
      BY <1>2, <2>2, <3>1, <3>3
    <3> QED  BY <3>2, <3>3
  <2>5. c \in CasesOn(SubjectOf(c))
    <3>1. c \in DOMAIN cases
      <4>1. DOMAIN cases = 1..k
        BY <1>1 DEF k
      <4> QED  BY <2>1, <4>1
    <3> QED  BY <2>4, <3>1 DEF CasesOn, SubjectOf
  <2>6. c \in beat.lines \/ cases[c].fell
    BY <2>3, <2>5 DEF DeskInv, Written
  <2> QED  BY <2>2, <2>6
<1> QED  BY <1>4, <1>5, <1>6, <1>7, <1>8 DEF DeskInv

LEMMA NextKeepsDesk ==
  ASSUME DeskInv, [Next]_vars PROVE DeskInv'
<1>1. mag \in [Scalars -> Magnitudes \union {NoData}]
  BY DEF DeskInv, Types
<1>2. CASE BookMoves
  BY <1>2, OthersKeep, BooksAreMeasured DEF BookMoves, Scalars
<1>3. CASE SaveCalibration \/ SwitchFamily \/ SaveOverlay \/ RetireWatchpoint \/ CreateWatchpoint
           \/ UNCHANGED vars
  BY <1>1, <1>3, OthersKeep DEF SaveCalibration, SwitchFamily, SaveOverlay, RetireWatchpoint,
                                CreateWatchpoint, Calibrates, vars
<1>4. DOMAIN findings = 1..Len(findings)
  BY DEF DeskInv, Types
<1>5. CASE ResolveFinding
  BY <1>4, <1>5, ResolutionKeeps DEF ResolveFinding
<1>6. CASE OpenCase
  BY <1>4, <1>6, ResolutionKeeps DEF OpenCase, Openable
<1> QED  BY <1>2, <1>3, <1>5, <1>6, ResolveKeeps, EvaluationKeeps, LinesKeep, PressKeeps,
            SynthesisKeeps, EndsKeep, RollBackKeeps DEF Next, BeatStep, People

LEMMA InitDesk == Init => DeskInv
<1> SUFFICES ASSUME Init PROVE DeskInv
  OBVIOUS
<1>1. findings = <<>> /\ cases = <<>> /\ beat = Idle /\ mag = [s \in Scalars |-> NoData]
  BY DEF Init
<1>2. /\ DOMAIN beat = Fields /\ beat.pc = "idle" /\ beat.offer = {} /\ beat.upto = NoLines
      /\ beat.found = <<>>
  BY <1>1 DEF Idle, Fields
<1>3. Len(<<>>) = 0 /\ 1..0 = {} /\ 1..NoLines = {} /\ <<>> \in Seq(Found)
      /\ <<>> \in Seq([finding : Nat, fell : BOOLEAN])
  BY DEF NoLines
<1>4. mag \in [Scalars -> Magnitudes \union {NoData}]
  BY <1>1
<1> QED  BY <1>1, <1>2, <1>3, <1>4 DEF DeskInv, Types, CasesAreFounded, PressIsInformational, Stages,
            ForgottenFalls, FoundIsGrounded, Written

LEMMA DeskInvariant == Spec => []DeskInv
<1>1. DeskInv /\ [Next]_vars => DeskInv'
  BY NextKeepsDesk
<1> QED  BY <1>1, InitDesk, PTL DEF Spec

\* Whatever the model names and suggests, a finding is about a subject its beat offered, at an
\* urgency the floor allows, and no all-clear and no press cluster becomes a case.
THEOREM FindingsAreGrounded == Spec => []FindingsGrounded
<1>1. ASSUME DeskInv PROVE FindingsGrounded
  <2>1. DOMAIN beat.found = 1..Len(beat.found) /\ DOMAIN cases = 1..Len(cases)
    BY <1>1 DEF DeskInv, Types
  <2>2. ASSUME NEW i \in 1..Len(beat.found)
        PROVE  \E o \in beat.offer :
                 /\ o.subject = beat.found[i].subject
                 /\ o.subject \in Quotas /\ o.kind # "falling_edge" /\ o.status = "BREACH"
                      => beat.found[i].band = "critical"
                 /\ o.subject \in Presses \/ o.kind = "falling_edge"
                      => beat.found[i].band = "informational"
    BY <1>1 DEF DeskInv, FoundIsGrounded, GroundedIn
  <2>3. ASSUME NEW c \in 1..Len(cases)
        PROVE  /\ findings[cases[c].finding].subject \notin Presses
               /\ findings[cases[c].finding].band # "informational"
    BY <1>1 DEF DeskInv, CasesAreFounded
  <2> QED  BY <2>1, <2>2, <2>3 DEF FindingsGrounded
<1> QED  BY <1>1, DeskInvariant, PTL

------------------------------------------------------------------------------
(* What a step of the beat may never do. *)

\* Only the comparison of the limits takes a beat on to its signals.
LEMMA OnlyEvaluationOffers ==
  ASSUME DeskInv, [Next]_vars, beat.pc = "limits", beat'.pc = "signals" PROVE EvaluateLimits
<1>1. beat' # beat
  OBVIOUS
<1>2. ~Resolve /\ ~EvaluateSignals /\ ~WriteLines /\ ~EvaluatePress /\ ~Synthesise /\ ~Commit
  BY DEF Resolve, EvaluateSignals, WriteLines, EvaluatePress, Synthesise, Commit
<1>3. ~RollBack /\ ~FailBeat
  BY DEF RollBack, FailBeat, Committed, Idle
<1>4. ~BookMoves /\ ~People /\ ~UNCHANGED vars
  BY <1>1 DEF BookMoves, People, SaveCalibration, SwitchFamily, SaveOverlay, RetireWatchpoint,
              CreateWatchpoint, Calibrates, ResolveFinding, OpenCase, vars
<1> QED  BY <1>2, <1>3, <1>4 DEF Next, BeatStep

LEMMA BreachOffered ==
  ASSUME DeskInv, [Next]_vars, beat.pc = "limits", beat'.pc = "signals", NEW s \in Quotas,
         beat'.acked[s] # beat.acked[s], beat'.acked[s] # NoAck, Breached(s, beat'.acked[s])
  PROVE  \E o \in beat'.offer : o.subject = s /\ o.status = "BREACH"
<1>1. /\ beat'.acked = Acknowledged(Quotas)
      /\ {o \in {Offered(r) : r \in {q \in Quotas \intersect Observed : KindOf(q) # "none"}} : ~o.withheld}
           \subseteq beat'.offer
  <2>1. beat' = [Compared(Quotas) EXCEPT !.pc = "signals"] /\ DOMAIN beat = Fields
    BY OnlyEvaluationOffers DEF EvaluateLimits, DeskInv, Types
  <2> QED  BY <2>1 DEF Compared, Fields
<1>2. s \in Subjects
  BY DEF Subjects, Scalars
<1>3. /\ s \in Observed /\ KindOf(s) \in {"rising_edge", "magnitude_retrigger"}
      /\ beat'.acked[s] = mag[s]
  BY <1>1, <1>2 DEF Acknowledged
<1>4. PICK o : o = Offered(s)
  OBVIOUS
<1>5. Status(s, mag[s], WarnFor(beat.desk, s)) = "BREACH"
  BY <1>3 DEF Status
<1>6. o.subject = s /\ o.status = "BREACH"
  BY <1>4, <1>5 DEF Offered
<1>7. ~o.withheld
  BY <1>4, <1>5 DEF Offered, MuteSuppresses
<1> QED  BY <1>1, <1>3, <1>4, <1>6, <1>7

\* A comparison that acknowledges a limit's breach offers it to the model, whoever muted the
\* subject and whatever the beats before it saw (evaluate_deltas and its mute).
THEOREM BreachesAreOffered == Spec => BreachIsOffered
<1>1. ASSUME DeskInv, [Next]_vars
      PROVE  [beat.pc = "limits" /\ beat'.pc = "signals" =>
                \A s \in Quotas :
                  /\ beat'.acked[s] # beat.acked[s]
                  /\ beat'.acked[s] # NoAck
                  /\ Breached(s, beat'.acked[s])
                  => \E o \in beat'.offer : o.subject = s /\ o.status = "BREACH"]_vars
  BY <1>1, BreachOffered
<1> QED  BY <1>1, DeskInvariant, PTL DEF Spec, BreachIsOffered

\* Only a beat that commits forgets what was acknowledged.
LEMMA OnlyEndsForget ==
  ASSUME [Next]_vars, acked' # acked PROVE Commit \/ FailBeat
<1>1. ~BookMoves /\ ~People /\ ~UNCHANGED vars /\ ~RollBack
  BY DEF BookMoves, People, SaveCalibration, SwitchFamily, SaveOverlay, RetireWatchpoint,
         CreateWatchpoint, Calibrates, ResolveFinding, OpenCase, vars, RollBack, Uncommitted
<1>2. ~Resolve /\ ~EvaluateLimits /\ ~EvaluateSignals /\ ~WriteLines /\ ~EvaluatePress /\ ~Synthesise
  BY DEF Resolve, EvaluateLimits, EvaluateSignals, WriteLines, EvaluatePress, Synthesise, Uncommitted
<1> QED  BY <1>1, <1>2 DEF Next, BeatStep

LEMMA FallWritten ==
  ASSUME DeskInv, [Next]_vars, NEW s \in Scalars, Forgets(s), NEW c \in CasesOn(s),
         ~Excepted(s, c), beat.pc \notin {"limits", "signals"}
  PROVE  cases'[c].fell
<1>1. PICK b : /\ Committed(b) /\ b.lines = beat.lines /\ \A r \in Scalars : b.acked[r] = beat.acked[r]
               /\ beat.pc \in {"press", "synthesis", "commit"}
  <2>1. Commit \/ FailBeat
    BY OnlyEndsForget DEF Forgets
  <2>2. CASE Commit
    <3>1. PICK b : b = beat
      OBVIOUS
    <3>2. Committed(b) /\ beat.pc = "commit"
      BY <2>2, <3>1 DEF Commit
    <3> QED  BY <3>1, <3>2
  <2>3. CASE FailBeat
    <3>1. beat.pc \in {"press", "synthesis"} /\ \E b : MayCommit(b)
      BY <2>3, FailuresCommit
    <3>2. PICK b : MayCommit(b)
      BY <3>1
    <3> QED  BY <3>1, <3>2 DEF MayCommit
  <2> QED  BY <2>1, <2>2, <2>3
<1>2. acked[s] # NoAck /\ beat.acked[s] = NoAck
  BY <1>1 DEF Forgets, Committed
<1>3. s \in Falls \ beat.lost
  BY <1>1, <1>2 DEF DeskInv, ForgottenFalls, Hidden, Excepted
<1>4. c \in DOMAIN cases /\ SubjectOf(c) = s /\ c \in 1..Len(cases)
  BY DEF CasesOn, SubjectOf, DeskInv, Types
<1>5. beat.upto \in Nat
  BY <1>1 DEF DeskInv, Types, Stages
<1>6. c \in 1..beat.upto
  BY <1>4, <1>5 DEF Excepted
<1>7. c \in beat.lines \/ cases[c].fell
  BY <1>3, <1>4, <1>6 DEF DeskInv, Written
<1>8. cases[c] \in [finding : Nat, fell : BOOLEAN]
  BY <1>4, SeqAsFunction DEF DeskInv, Types
<1>9. cases'[c] = [cases[c] EXCEPT !.fell = @ \/ c \in b.lines]
  BY <1>1, <1>4 DEF Committed
<1> QED  BY <1>1, <1>7, <1>8, <1>9

\* An acknowledged level is forgotten only by a beat that commits its line on every case open on the
\* subject, but for a failed savepoint, a case opened since, a mute over a warning, or an error while
\* the beat still compared (evaluate_internal_deltas, evaluate_signal_deltas).
THEOREM FallsReachTheirCases == Spec => FallsReachCases
<1>1. ASSUME DeskInv, [Next]_vars
      PROVE  [\A s \in Scalars : Forgets(s) =>
                \A c \in CasesOn(s) :
                  cases'[c].fell \/ Excepted(s, c) \/ beat.pc \in {"limits", "signals"}]_vars
  BY <1>1, FallWritten
<1> QED  BY <1>1, DeskInvariant, PTL DEF Spec, FallsReachCases

=============================================================================

------------------------- MODULE TicketRacesProofs -------------------------
(***************************************************************************)
(* Theorems of TicketRaces, for any tickets and any number of requests of  *)
(* any kinds.  They rest on the one lock there is: update_draft takes the  *)
(* ticket's row and re-reads its status under it, so whoever holds it      *)
(* holds a draft, and nobody else changes the status meanwhile.            *)
(***************************************************************************)
EXTENDS TicketRaces, FiniteSetTheorems, TLAPS

Statuses == {"draft", "proposed", "booked", "cancelled"}
TicketKinds == {"propose", "book", "cancel", "reverse"}

Reqs == [step : Steps, kind : Kinds \cup {None}, ticket : Tickets \cup {None},
         row : Requests \cup {None}, reason : BOOLEAN, start : Nat]

\* The gestures on tickets are about one.
Types ==
  /\ status \in [Tickets -> Statuses]
  /\ rows \in SUBSET Requests
  /\ effects \in SUBSET [row : Requests, ticket : Tickets, at : Nat]
  /\ clock \in Nat
  /\ req \in [Requests -> Reqs]
  /\ \A r \in Requests : req[r].step # "unsent" /\ req[r].kind \in TicketKinds => req[r].ticket \in Tickets

\* Who has saved the draft of a ticket and not ended holds it alone, and it is a draft.
HeldAreDrafts ==
  \A r \in Requests, t \in Tickets :
    HoldsTicket(r, t) => status[t] = "draft" /\ TicketFree(r, t)

\* What a ticket emitted is one row, and the ticket is no draft any more.
OneEmission ==
  \A e \in effects :
    /\ status[e.ticket] # "draft"
    /\ \A f \in effects : e.ticket = f.ticket => e.row = f.row

RaceInv == Types /\ HeldAreDrafts /\ OneEmission

-----------------------------------------------------------------------------
(* Steps that leave the tickets alone. *)

\* The request moves on to step s, and holds no ticket that it did not hold before.
LEMMA MovesOn ==
  ASSUME RaceInv, NEW r \in Requests, NEW s \in Steps, NEW x \in Requests \cup {None},
         req[r].step # "unsent", s # "unsent",
         \/ req' = [req EXCEPT ![r].step = s]
         \/ req' = [req EXCEPT ![r].step = s, ![r].row = x],
         \/ s \notin {"saved", "checked", "written"}
         \/ req[r].kind \notin {"propose", "book"}
         \/ req[r].step \in {"saved", "checked", "written"},
         UNCHANGED <<status, rows, effects, clock>>
  PROVE  RaceInv'
<1>1. req \in [Requests -> Reqs]
  BY DEF RaceInv, Types
<1>2. /\ req' \in [Requests -> Reqs]
      /\ req'[r].step = s /\ req'[r].kind = req[r].kind /\ req'[r].ticket = req[r].ticket
      /\ \A q \in Requests \ {r} : req'[q] = req[q]
  BY <1>1 DEF Reqs
<1>3. Types'
  BY <1>2 DEF RaceInv, Types
<1>4. \A q \in Requests, t \in Tickets : HoldsTicket(q, t)' => HoldsTicket(q, t)
  BY <1>2 DEF HoldsTicket
<1>5. HeldAreDrafts'
  BY <1>4 DEF RaceInv, HeldAreDrafts, TicketFree
<1> QED  BY <1>3, <1>5 DEF RaceInv, OneEmission

LEMMA BeginKeeps ==
  ASSUME RaceInv, NEW r \in Requests, NEW kind \in Kinds, NEW t \in Tickets \cup {None},
         kind \in TicketKinds => t \in Tickets, Begin(r, kind, t)
  PROVE  RaceInv'
<1>1. PICK e \in Reqs : /\ e.step = "begun" /\ e.kind = kind /\ e.ticket = t
                        /\ req' = [req EXCEPT ![r] = e]
  <2>1. PICK reason \in BOOLEAN :
          req' = [req EXCEPT ![r] = [step |-> "begun", kind |-> kind, ticket |-> t,
                                     row |-> None, reason |-> reason, start |-> clock]]
    BY DEF Begin
  <2>2. PICK e : e = [step |-> "begun", kind |-> kind, ticket |-> t,
                      row |-> None, reason |-> reason, start |-> clock]
    OBVIOUS
  <2>3. clock \in Nat
    BY DEF RaceInv, Types
  <2>4. e \in Reqs /\ e.step = "begun" /\ e.kind = kind /\ e.ticket = t
    BY <2>2, <2>3 DEF Reqs, Steps
  <2> QED  BY <2>1, <2>2, <2>4
<1>2. /\ req' \in [Requests -> Reqs] /\ req'[r] = e
      /\ \A q \in Requests \ {r} : req'[q] = req[q]
  BY <1>1 DEF RaceInv, Types
<1>3. UNCHANGED <<status, rows, effects>> /\ clock' \in Nat
  BY DEF Begin, committed, RaceInv, Types
<1>4. Types'
  BY <1>1, <1>2, <1>3 DEF RaceInv, Types
<1>5. \A q \in Requests, u \in Tickets : HoldsTicket(q, u)' => HoldsTicket(q, u)
  BY <1>1, <1>2 DEF HoldsTicket
<1>6. HeldAreDrafts'
  BY <1>3, <1>5 DEF RaceInv, HeldAreDrafts, TicketFree
<1> QED  BY <1>3, <1>4, <1>6 DEF RaceInv, OneEmission

\* The statements between the first and the last: a refusal, or one step on.
LEMMA StatementKeeps ==
  ASSUME RaceInv, NEW r \in Requests,
         \/ RunBlocks(r) \/ EmitSell(r) \/ ReadCancellable(r) \/ CheckReversal(r)
         \/ ReadEmitted(r) \/ DeleteEmitted(r) \/ UpdateRow(r) \/ CheckSell(r) \/ Abort(r)
         \/ CommitEdit(r)
  PROVE  RaceInv'
<1>1. PICK s \in Steps, x \in Requests \cup {None} :
        /\ req[r].step # "unsent" /\ s # "unsent"
        /\ \/ req' = [req EXCEPT ![r].step = s]
           \/ req' = [req EXCEPT ![r].step = s, ![r].row = x]
        /\ \/ s \notin {"saved", "checked", "written"}
           \/ req[r].kind \notin {"propose", "book"}
           \/ req[r].step \in {"saved", "checked", "written"}
  <2>1. CASE \/ RunBlocks(r) \/ EmitSell(r) \/ ReadCancellable(r) \/ ReadEmitted(r)
             \/ DeleteEmitted(r) \/ CheckSell(r)
    BY <2>1 DEF RunBlocks, EmitSell, ReadCancellable, ReadEmitted, DeleteEmitted, CheckSell,
                Doing, Proceed, Refuse, Advance, Steps
  <2>2. CASE Abort(r)
    BY <2>2 DEF Abort, Refuse, Advance, Steps, InFlight
  <2>3. CASE CommitEdit(r)
    BY <2>3 DEF CommitEdit, Advance, Doing, Steps
  <2>4. CASE UpdateRow(r)
    <3>1. rows \subseteq Requests
      BY DEF RaceInv, Types
    <3> QED  BY <2>4, <3>1 DEF UpdateRow, Refuse, Advance, Doing, Steps
  <2>5. CASE CheckReversal(r)
    <3>1. \A e \in effects : e.row \in Requests
      BY DEF RaceInv, Types
    <3> QED  BY <2>5, <3>1 DEF CheckReversal, Refuse, Advance, Doing, Steps
  <2> QED  BY <2>1, <2>2, <2>3, <2>4, <2>5
<1>2. UNCHANGED <<status, rows, effects, clock>>
  BY DEF RunBlocks, EmitSell, ReadCancellable, CheckReversal, ReadEmitted, DeleteEmitted,
         UpdateRow, CheckSell, Abort, CommitEdit, Proceed, Refuse, committed
<1> QED  BY <1>1, <1>2, MovesOn

-----------------------------------------------------------------------------
(* The lock is taken, and a status changes. *)

LEMMA SaveKeeps ==
  ASSUME RaceInv, NEW r \in Requests, SaveDraft(r) PROVE RaceInv'
<1>1. PICK t \in Tickets : t = req[r].ticket
  BY DEF SaveDraft, Doing, RaceInv, Types, TicketKinds
<1>2. CASE req' = [req EXCEPT ![r].step = "refused"]
  BY <1>2, MovesOn DEF SaveDraft, Doing, Proceed, Refuse, committed, Steps
<1>3. CASE status[t] = "draft" /\ req' = [req EXCEPT ![r].step = "saved"]
  <2>1. UNCHANGED <<status, rows, effects, clock>> /\ TicketFree(r, t)
    BY <1>1 DEF SaveDraft, Proceed, Refuse, committed
  <2>2. /\ req' \in [Requests -> Reqs]
        /\ req'[r].step = "saved" /\ req'[r].kind = req[r].kind /\ req'[r].ticket = t
        /\ \A q \in Requests \ {r} : req'[q] = req[q]
    BY <1>1, <1>3 DEF RaceInv, Types, Reqs, Steps
  <2>3. Types'
    BY <1>1, <2>1, <2>2 DEF RaceInv, Types
  <2>4. \A q \in Requests, u \in Tickets : HoldsTicket(q, u)' => HoldsTicket(q, u) \/ (q = r /\ u = t)
    BY <2>2 DEF HoldsTicket
  <2>5. \A q \in Requests \ {r} : ~HoldsTicket(q, t)'
    BY <1>1, <2>1, <2>2 DEF TicketFree, HoldsTicket
  <2>6. HeldAreDrafts'
    BY <1>1, <1>3, <2>1, <2>4, <2>5 DEF RaceInv, HeldAreDrafts, TicketFree
  <2> QED  BY <2>1, <2>3, <2>6 DEF RaceInv, OneEmission
<1> QED  BY <1>1, <1>2, <1>3 DEF SaveDraft, Proceed, Refuse, Advance

\* What a commit does to its ticket: the request ends, and no other held the ticket.
LEMMA CommitsAlone ==
  ASSUME RaceInv, NEW r \in Requests,
         CommitPropose(r) \/ CommitBook(r) \/ CommitCancel(r) \/ CommitReversal(r)
  PROVE  LET t == req[r].ticket IN
         /\ t \in Tickets /\ req[r].step # "unsent"
         /\ req' = [req EXCEPT ![r].step = "done"] /\ clock' = clock
         /\ CommitPropose(r) \/ CommitBook(r) => HoldsTicket(r, t) /\ status[t] = "draft"
         /\ TicketFree(r, t)
         /\ \E s \in Statuses \ {"draft"} :
              /\ status' = [status EXCEPT ![t] = s]
              /\ CommitCancel(r) \/ CommitReversal(r) => s = "cancelled"
<1>1. PICK t : t = req[r].ticket
  OBVIOUS
<1>2. t \in Tickets /\ req[r].step # "unsent"
  BY <1>1 DEF CommitPropose, CommitBook, CommitCancel, CommitReversal, Doing,
              RaceInv, Types, TicketKinds
<1>3. req' = [req EXCEPT ![r].step = "done"] /\ clock' = clock
  BY DEF CommitPropose, CommitBook, CommitCancel, CommitReversal, Advance
<1>4. CommitPropose(r) \/ CommitBook(r) => HoldsTicket(r, t) /\ status[t] = "draft"
  BY <1>1, <1>2 DEF CommitPropose, CommitBook, Doing, HoldsTicket, RaceInv, HeldAreDrafts
<1>5. TicketFree(r, t)
  BY <1>1, <1>2, <1>4 DEF CommitCancel, CommitReversal, RaceInv, HeldAreDrafts
<1>6. PICK s \in {"proposed", "booked", "cancelled"} :
        /\ status' = [status EXCEPT ![t] = s]
        /\ CommitCancel(r) \/ CommitReversal(r) => s = "cancelled"
  BY <1>1 DEF CommitPropose, CommitBook, CommitCancel, CommitReversal, Doing
<1>7. s \in Statuses \ {"draft"}
  BY DEF Statuses
<1> QED  BY <1>1, <1>2, <1>3, <1>4, <1>5, <1>6, <1>7

LEMMA CommitKeeps ==
  ASSUME RaceInv, NEW r \in Requests,
         CommitPropose(r) \/ CommitBook(r) \/ CommitCancel(r) \/ CommitReversal(r)
  PROVE  RaceInv'
<1>1. PICK t \in Tickets : t = req[r].ticket
  BY CommitsAlone
<1>2. PICK s \in Statuses \ {"draft"} : status' = [status EXCEPT ![t] = s]
  BY <1>1, CommitsAlone
<1>3. /\ req' = [req EXCEPT ![r].step = "done"] /\ clock' = clock /\ req[r].step # "unsent"
      /\ TicketFree(r, t)
  BY <1>1, CommitsAlone
<1>4. /\ req' \in [Requests -> Reqs]
      /\ req'[r].step = "done" /\ req'[r].kind = req[r].kind /\ req'[r].ticket = t
      /\ \A q \in Requests \ {r} : req'[q] = req[q]
  BY <1>1, <1>3 DEF RaceInv, Types, Reqs, Steps
<1>5. status' \in [Tickets -> Statuses] /\ status'[t] # "draft"
      /\ \A u \in Tickets \ {t} : status'[u] = status[u]
  BY <1>2 DEF RaceInv, Types
<1>6. /\ rows' \in SUBSET Requests
      /\ \/ effects' = effects
         \/ /\ CommitBook(r)
            /\ \E at \in Nat : effects' = effects \cup {[row |-> r, ticket |-> t, at |-> at]}
  <2>1. CASE CommitBook(r)
    <3>1. req[r].start \in Nat
      BY DEF RaceInv, Types, Reqs
    <3> QED  BY <1>1, <2>1, <3>1 DEF CommitBook, RaceInv, Types
  <2>2. CASE CommitPropose(r) \/ CommitCancel(r) \/ CommitReversal(r)
    BY <2>2 DEF CommitPropose, CommitCancel, CommitReversal, RaceInv, Types
  <2> QED  BY <2>1, <2>2
<1>7. effects' \in SUBSET [row : Requests, ticket : Tickets, at : Nat]
  BY <1>6 DEF RaceInv, Types
<1>8. Types'
  BY <1>1, <1>3, <1>4, <1>5, <1>6, <1>7 DEF RaceInv, Types
<1>9. \A q \in Requests, u \in Tickets : HoldsTicket(q, u)' => HoldsTicket(q, u) /\ u # t
  <2>1. \A q \in Requests \ {r} : ~HoldsTicket(q, t)
    BY <1>3 DEF TicketFree
  <2> QED  BY <1>4, <2>1 DEF HoldsTicket
<1>10. HeldAreDrafts'
  BY <1>5, <1>9 DEF RaceInv, HeldAreDrafts, TicketFree
<1>11. OneEmission'
  <2>1. CASE effects' = effects
    BY <1>5, <2>1 DEF RaceInv, OneEmission, Types
  <2>2. CASE CommitBook(r) /\ effects' # effects
    <3>1. PICK at \in Nat : effects' = effects \cup {[row |-> r, ticket |-> t, at |-> at]}
      BY <1>6, <2>2
    <3>2. \A e \in effects : e.ticket # t
      BY <1>1, <2>2, CommitsAlone DEF RaceInv, OneEmission
    <3>3. PICK n : n = [row |-> r, ticket |-> t, at |-> at]
      OBVIOUS
    <3>4. n.ticket = t /\ n.row = r /\ effects' = effects \cup {n}
      BY <3>1, <3>3
    <3> QED  BY <1>5, <3>2, <3>4 DEF RaceInv, OneEmission, Types
  <2> QED  BY <1>6, <2>1, <2>2
<1> QED  BY <1>8, <1>10, <1>11 DEF RaceInv

LEMMA SellKeeps ==
  ASSUME RaceInv, NEW r \in Requests, CommitSell(r) PROVE RaceInv'
<1>1. /\ req[r].kind = "sell" /\ req[r].step = "checked" /\ req' = [req EXCEPT ![r].step = "done"]
      /\ rows' = rows \cup {r} /\ UNCHANGED <<status, effects, clock>>
  BY DEF CommitSell, Doing, Advance
<1>2. /\ req' \in [Requests -> Reqs]
      /\ req'[r].step = "done" /\ req'[r].kind = "sell"
      /\ \A q \in Requests \ {r} : req'[q] = req[q]
  BY <1>1 DEF RaceInv, Types, Reqs, Steps
<1>3. Types'
  BY <1>1, <1>2 DEF RaceInv, Types, TicketKinds
<1>4. \A q \in Requests, u \in Tickets : HoldsTicket(q, u)' => HoldsTicket(q, u)
  BY <1>2 DEF HoldsTicket
<1>5. HeldAreDrafts'
  BY <1>1, <1>4 DEF RaceInv, HeldAreDrafts, TicketFree
<1> QED  BY <1>1, <1>3, <1>5 DEF RaceInv, OneEmission

LEMMA NextKeepsRaces ==
  ASSUME RaceInv, [Next]_vars PROVE RaceInv'
<1>1. ASSUME NEW r \in Requests, NEW kind \in Kinds, NEW t \in Tickets \cup {None},
             Begin(r, kind, t), kind \in CrudKinds \/ t \in Tickets
      PROVE  RaceInv'
  <2>1. kind \in TicketKinds => t \in Tickets
    BY <1>1 DEF TicketKinds, CrudKinds
  <2> QED  BY <1>1, <2>1, BeginKeeps
<1>2. ASSUME NEW r \in Requests, Statement(r) \/ Abort(r) PROVE RaceInv'
  BY <1>2, SaveKeeps, StatementKeeps, CommitKeeps, SellKeeps DEF Statement
<1>3. CASE UNCHANGED vars
  BY <1>3 DEF vars, committed, RaceInv, Types, HeldAreDrafts, OneEmission, HoldsTicket, TicketFree
<1> QED  BY <1>1, <1>2, <1>3 DEF Next

LEMMA InitRaces == Init => RaceInv
BY DEF Init, RaceInv, Types, HeldAreDrafts, OneEmission, HoldsTicket, Statuses, Reqs, Steps

LEMMA RaceInvariant == Spec => []RaceInv
<1>1. RaceInv /\ [Next]_vars => RaceInv'
  BY NextKeepsRaces
<1> QED  BY <1>1, InitRaces, PTL DEF Spec

\* However the requests interleave, a ticket's booking is emitted at most once: Book now saves
\* the draft under the ticket's row lock, and no second save finds a draft.
THEOREM EmitsOnce == Spec => []EmittedAtMostOnce
<1>1. ASSUME RaceInv, NEW t \in Tickets PROVE Cardinality(Emitted(t)) <= 1
  <2>1. \A x, y \in Emitted(t) : x = y
    BY <1>1 DEF Emitted, RaceInv, OneEmission
  <2>2. CASE Emitted(t) = {}
    BY <2>2, FS_EmptySet
  <2>3. CASE Emitted(t) # {}
    <3>1. PICK x \in Emitted(t) : Emitted(t) = {x}
      BY <2>1, <2>3
    <3> QED  BY <3>1, FS_Singleton
  <2> QED  BY <2>2, <2>3
<1>2. RaceInv => EmittedAtMostOnce
  BY <1>1 DEF EmittedAtMostOnce
<1> QED  BY <1>2, RaceInvariant, PTL

\* A cancelled ticket stays cancelled: the gestures that would take it elsewhere hold a draft.
THEOREM CancelledStays == Spec => CancelledIsFinal
<1>1. ASSUME RaceInv, [Next]_vars, NEW t \in Tickets, status[t] = "cancelled"
      PROVE  status'[t] = "cancelled"
  <2>1. ASSUME NEW r \in Requests,
               CommitPropose(r) \/ CommitBook(r) \/ CommitCancel(r) \/ CommitReversal(r)
        PROVE  status'[t] = "cancelled"
    BY <1>1, <2>1, CommitsAlone DEF RaceInv, Types
  <2>2. CASE UNCHANGED status
    BY <1>1, <2>2
  <2>3. ASSUME NEW r \in Requests,
               \/ \E kind \in Kinds, u \in Tickets \cup {None} : Begin(r, kind, u)
               \/ SaveDraft(r) \/ RunBlocks(r) \/ EmitSell(r) \/ ReadCancellable(r)
               \/ CheckReversal(r) \/ ReadEmitted(r) \/ DeleteEmitted(r) \/ UpdateRow(r)
               \/ CommitEdit(r) \/ CheckSell(r) \/ CommitSell(r) \/ Abort(r)
        PROVE  UNCHANGED status
    BY <2>3 DEF Begin, SaveDraft, RunBlocks, EmitSell, ReadCancellable, CheckReversal,
                ReadEmitted, DeleteEmitted, UpdateRow, CommitEdit, CheckSell, CommitSell,
                Abort, Proceed, Refuse, committed
  <2> QED  BY <1>1, <2>1, <2>2, <2>3 DEF Next, Statement, vars, committed
<1>2. RaceInv /\ [Next]_vars =>
        [\A t \in Tickets : status[t] = "cancelled" => status'[t] = "cancelled"]_vars
  BY <1>1
<1> QED  BY <1>2, RaceInvariant, PTL DEF Spec, CancelledIsFinal

=============================================================================

----------------------------- MODULE TicketRaces -----------------------------
(***************************************************************************)
(* Several web requests in flight at once against the tickets of one       *)
(* tenant.  core/repositories/_session.py gives each request one           *)
(* PostgreSQL transaction at READ COMMITTED; nothing in the code locks     *)
(* explicitly or compares versions.  What orders two requests is only the  *)
(* row lock an UPDATE or DELETE takes, held until the transaction ends.    *)
(*                                                                         *)
(* The data is the least that can race: every ticket is a U-SELL of one    *)
(* unit of the same fund with one emitted ledger row; the CRUD may sell    *)
(* a unit of that fund too, or restate an emitted row.  The flows, the     *)
(* blocks and the kinds of row are TradeTickets'.                          *)
(***************************************************************************)
EXTENDS Integers, FiniteSets

CONSTANTS
    Tickets,
    Requests,   \* requests the environment may send, each once
    Kinds,      \* the gestures of this instance
    Opening,    \* units of the fund before any sell
    None

VARIABLES
    status,     \* committed status of each ticket
    proposed,   \* tickets whose proposed_by is set
    unexplained,\* tickets cancelled without a reason
    rows,       \* committed sell rows of the fund, named by the request that wrote them
    effects,    \* committed effects: row, ticket, emitted_at
    audit,      \* committed UPDATEs of the audit log: row, created_at
    clock,      \* NOW() of the transaction that starts next
    req         \* the requests

committed == <<status, proposed, unexplained, rows, effects, audit>>
vars == <<status, proposed, unexplained, rows, effects, audit, clock, req>>

ASSUME OpeningAssumption == Opening \in Nat
ASSUME NoneAssumption == None \notin Tickets \cup Requests

Cancellable == {"draft", "proposed"}
Bookable == {"draft", "proposed"}
CrudKinds == {"edit", "sell"}

\* Where a request is: the statement it has executed last.
Steps == {"unsent", "begun", "saved", "checked", "read", "written", "done", "refused"}
InFlight == Steps \ {"unsent", "done", "refused"}

-----------------------------------------------------------------------------
(* Transactions and row locks.                                             *)

Doing(r, kind, step) == req[r].kind = kind /\ req[r].step = step
Advance(r, step) == req' = [req EXCEPT ![r].step = step]

\* A slip: the save takes no lock.
HoldsTicketUnlocked(r, t) == FALSE
\* A slip: the lock outlives its request.
HoldsTicketForever(r, t) ==
    /\ req[r].ticket = t /\ req[r].kind \in {"propose", "book"}
    /\ req[r].step \in {"saved", "checked", "written", "done"}

\* update_draft locks the ticket until its request ends.
HoldsTicket(r, t) ==
    /\ req[r].ticket = t /\ req[r].kind \in {"propose", "book"}
    /\ req[r].step \in {"saved", "checked", "written"}
TicketFree(r, t) == \A q \in Requests \ {r} : ~HoldsTicket(q, t)

\* An UPDATE or DELETE of a ledger row locks that row.
HoldsRow(r, x) ==
    /\ x \in rows /\ req[r].row = x
    /\ req[r].kind \in {"edit", "reverse"} /\ req[r].step = "written"
RowFree(r, x) == \A q \in Requests \ {r} : ~HoldsRow(q, x)

\* The holdings a statement's snapshot shows, one more sell included.
UnitsLeftFor(sells) == Cardinality(sells) < Opening

Begin(r, kind, t) ==
    /\ req[r].step = "unsent"
    /\ \E reason \in IF kind = "cancel" THEN BOOLEAN ELSE {FALSE} :
          req' = [req EXCEPT ![r] = [step |-> "begun", kind |-> kind, ticket |-> t,
                                     row |-> None, reason |-> reason, start |-> clock]]
    /\ clock' = clock + 1
    /\ UNCHANGED committed

\* A typed refusal ends the handler; what the transaction wrote before it is
\* rolled back to the savepoint or not written yet.
Refuse(r) ==
    /\ Advance(r, "refused")
    /\ UNCHANGED <<committed, clock>>

Proceed(r, step) ==
    /\ Advance(r, step)
    /\ UNCHANGED <<committed, clock>>

\* A driver error or a lost connection at any statement: ROLLBACK.
Abort(r) ==
    /\ req[r].step \in InFlight
    /\ Refuse(r)

-----------------------------------------------------------------------------
(* Propose and Book now: _ensure_draft first, then the service's gesture.  *)

\* A slip: the save does not require a draft.
SaveAny(r) ==
    /\ Doing(r, "propose", "begun") \/ Doing(r, "book", "begun")
    /\ TicketFree(r, req[r].ticket)
    /\ Proceed(r, "saved")

\* UPDATE ... WHERE status = 'draft': waits for the lock, then sees the
\* committed status.
SaveDraft(r) ==
    LET t == req[r].ticket IN
    /\ Doing(r, "propose", "begun") \/ Doing(r, "book", "begun")
    /\ TicketFree(r, t)
    /\ IF status[t] = "draft" THEN Proceed(r, "saved") ELSE Refuse(r)

\* _run_blocks: the oversell block reads the ledger.
RunBlocks(r) ==
    /\ Doing(r, "propose", "saved") \/ Doing(r, "book", "saved")
    /\ IF UnitsLeftFor(rows) THEN Proceed(r, "checked") ELSE Refuse(r)

CommitPropose(r) ==
    LET t == req[r].ticket IN
    /\ Doing(r, "propose", "checked")
    /\ status' = [status EXCEPT ![t] = "proposed"]
    /\ proposed' = proposed \cup {t}
    /\ Advance(r, "done")
    /\ UNCHANGED <<unexplained, rows, effects, audit, clock>>

\* The write seam asks the holdings question again and inserts the row.
EmitSell(r) ==
    /\ Doing(r, "book", "checked")
    /\ IF UnitsLeftFor(rows) THEN Proceed(r, "written") ELSE Refuse(r)

CommitBook(r) ==
    LET t == req[r].ticket IN
    /\ Doing(r, "book", "written")
    /\ rows' = rows \cup {r}
    /\ effects' = effects \cup {[row |-> r, ticket |-> t, at |-> req[r].start]}
    /\ status' = [status EXCEPT ![t] = "booked"]
    /\ proposed' = proposed \cup {t}
    /\ Advance(r, "done")
    /\ UNCHANGED <<unexplained, audit, clock>>

-----------------------------------------------------------------------------
(* Cancel: a read, then an UPDATE by id alone.                             *)

ReadCancellable(r) ==
    LET t == req[r].ticket IN
    /\ Doing(r, "cancel", "begun")
    /\ IF status[t] \in Cancellable /\ (status[t] = "proposed" => req[r].reason)
       THEN Proceed(r, "checked") ELSE Refuse(r)

CommitCancel(r) ==
    LET t == req[r].ticket IN
    /\ Doing(r, "cancel", "checked")
    /\ TicketFree(r, t)
    /\ status' = [status EXCEPT ![t] = "cancelled"]
    /\ unexplained' = IF req[r].reason THEN unexplained \ {t} ELSE unexplained \cup {t}
    /\ Advance(r, "done")
    /\ UNCHANGED <<proposed, rows, effects, audit, clock>>

-----------------------------------------------------------------------------
(* Reverse: every check first, then the deletes, then the status.          *)

Untouched(e) ==
    /\ e.row \in rows
    /\ ~\E a \in audit : a.row = e.row /\ a.at > e.at

CheckReversal(r) ==
    LET mine == {e \in effects : e.ticket = req[r].ticket} IN
    /\ Doing(r, "reverse", "begun")
    /\ IF status[req[r].ticket] = "booked" /\ mine # {} /\ \A e \in mine : Untouched(e)
       THEN /\ \E e \in mine :
                  req' = [req EXCEPT ![r].step = "checked", ![r].row = e.row]
            /\ UNCHANGED <<committed, clock>>
       ELSE Refuse(r)

\* _delete_ledger_row reads the row once more, and refuses when it is gone.
ReadEmitted(r) ==
    /\ Doing(r, "reverse", "checked")
    /\ IF req[r].row \in rows THEN Proceed(r, "read") ELSE Refuse(r)

\* The DELETE waits for a lock, takes the row as it then stands, and goes on
\* when there is none: nobody looks at its row count.
DeleteEmitted(r) ==
    /\ Doing(r, "reverse", "read")
    /\ RowFree(r, req[r].row)
    /\ Proceed(r, "written")

CommitReversal(r) ==
    LET t == req[r].ticket IN
    /\ Doing(r, "reverse", "written")
    /\ TicketFree(r, t)
    /\ rows' = rows \ {req[r].row}
    /\ status' = [status EXCEPT ![t] = "cancelled"]
    /\ unexplained' = unexplained \ {t}
    /\ Advance(r, "done")
    /\ UNCHANGED <<proposed, effects, audit, clock>>

-----------------------------------------------------------------------------
(* The CRUD beside the tickets: restate an emitted row, or sell a unit.    *)

UpdateRow(r) ==
    /\ Doing(r, "edit", "begun")
    /\ \/ rows = {} /\ Refuse(r)
       \/ \E x \in rows :
             /\ RowFree(r, x)
             /\ req' = [req EXCEPT ![r].step = "written", ![r].row = x]
             /\ UNCHANGED <<committed, clock>>

CommitEdit(r) ==
    /\ Doing(r, "edit", "written")
    /\ audit' = audit \cup {[row |-> req[r].row, at |-> req[r].start]}
    /\ Advance(r, "done")
    /\ UNCHANGED <<status, proposed, unexplained, rows, effects, clock>>

CheckSell(r) ==
    /\ Doing(r, "sell", "begun")
    /\ IF UnitsLeftFor(rows) THEN Proceed(r, "checked") ELSE Refuse(r)

CommitSell(r) ==
    /\ Doing(r, "sell", "checked")
    /\ rows' = rows \cup {r}
    /\ Advance(r, "done")
    /\ UNCHANGED <<status, proposed, unexplained, effects, audit, clock>>

-----------------------------------------------------------------------------
(* The system.                                                             *)

Init ==
    /\ status = [t \in Tickets |-> "draft"]
    /\ proposed = {} /\ unexplained = {}
    /\ rows = {} /\ effects = {} /\ audit = {}
    /\ clock = 1
    /\ req = [r \in Requests |->
          [step |-> "unsent", kind |-> None, ticket |-> None, row |-> None,
           reason |-> FALSE, start |-> 1]]

\* The next statement of a request that has begun.
Statement(r) ==
    \/ SaveDraft(r) \/ RunBlocks(r) \/ CommitPropose(r) \/ EmitSell(r) \/ CommitBook(r)
    \/ ReadCancellable(r) \/ CommitCancel(r)
    \/ CheckReversal(r) \/ ReadEmitted(r) \/ DeleteEmitted(r) \/ CommitReversal(r)
    \/ UpdateRow(r) \/ CommitEdit(r) \/ CheckSell(r) \/ CommitSell(r)

Next ==
    \E r \in Requests :
        \/ \E kind \in Kinds \ CrudKinds, t \in Tickets : Begin(r, kind, t)
        \/ \E kind \in Kinds \cap CrudKinds : Begin(r, kind, None)
        \/ Statement(r)
        \/ Abort(r)

\* A handler that has begun runs on: the server awaits each statement, and
\* PostgreSQL grants a lock once its holder has ended.
Fairness == \A r \in Requests : WF_vars(Statement(r))

Spec == Init /\ [][Next]_vars /\ Fairness

-----------------------------------------------------------------------------
(* Properties.                                                             *)

Emitted(t) == {e.row : e \in {e \in effects : e.ticket = t}}

\* However the requests interleave, a ticket's booking is emitted at most
\* once: the WHERE status = 'draft' of the save is re-read under the lock.
EmittedAtMostOnce ==
    \A t \in Tickets : Cardinality(Emitted(t)) <= 1

\* However the requests interleave, a cancelled ticket stays cancelled: a
\* cancellation that commits first is seen by the gesture that was waiting.
CancelledIsFinal ==
    [][\A t \in Tickets : status[t] = "cancelled" => status'[t] = "cancelled"]_vars

\* Every request that was begun ends: no two handlers wait for one another.
EveryRequestEnds ==
    \A r \in Requests : req[r].step \in InFlight ~> req[r].step \in {"done", "refused"}

\* A ticket's emitted rows stand only while it is booked ("refusing it here is
\* what keeps a status flip from orphaning emitted rows", cancel).
NoOrphanEmission ==
    \A t \in Tickets : Emitted(t) \cap rows # {} => status[t] = "booked"

=============================================================================

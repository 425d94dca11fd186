--------------------------- MODULE TicketLifecycle ---------------------------
(***************************************************************************)
(* What the ticket service promises of a ticket and its emission, whatever *)
(* the flow: rows appear by booking alone and at most once, they stand     *)
(* only while the ticket is booked, and a ticket that has been cancelled   *)
(* stays cancelled with nothing in the book.  TradeTickets implements it.  *)
(***************************************************************************)
CONSTANT Tickets

VARIABLES
    status,     \* the station of each ticket
    emitted     \* the tickets that have rows in the book

vars == <<status, emitted>>

InFlight == {"draft", "proposed", "approved"}

Compose(t) ==
    /\ status[t] = "none"
    /\ status' = [status EXCEPT ![t] = "draft"]
    /\ UNCHANGED emitted

Propose(t) ==
    /\ status[t] = "draft"
    /\ status' = [status EXCEPT ![t] = "proposed"]
    /\ UNCHANGED emitted

\* A booking may have nothing but an investment to show for itself.
Book(t) ==
    /\ status[t] \in InFlight
    /\ status' = [status EXCEPT ![t] = "booked"]
    /\ emitted' \in {emitted, emitted \cup {t}}

Cancel(t) ==
    /\ status[t] \in InFlight
    /\ status' = [status EXCEPT ![t] = "cancelled"]
    /\ UNCHANGED emitted

Reverse(t) ==
    /\ status[t] = "booked"
    /\ status' = [status EXCEPT ![t] = "cancelled"]
    /\ emitted' = emitted \ {t}

\* Emitted rows may be deleted by hand, but none can be added.
Correct(t) ==
    /\ emitted' = emitted \ {t}
    /\ UNCHANGED status

Init ==
    /\ status \in [Tickets -> {"none", "draft"}]
    /\ emitted = {}

Next ==
    \E t \in Tickets :
        Compose(t) \/ Propose(t) \/ Book(t) \/ Cancel(t) \/ Reverse(t) \/ Correct(t)

Spec == Init /\ [][Next]_vars
=============================================================================

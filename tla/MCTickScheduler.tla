-------------------------- MODULE MCTickScheduler --------------------------
(* The web loop over all three domains beside the command-line refresh.   *)
EXTENDS TickScheduler

MCRoute == [s \in Sources |-> IF s = "loop" THEN <<"market", "cases", "irene">>
                                           ELSE <<"market">>]

\* Irene runs for everybody; the market schedule is off until a tenant enables it.
CONSTANT t1
MCEnabled == {<<"market", t1>>} \union {<<"irene", t>> : t \in Tenants}
\* The schedules' clock is set forward by two units.  Whoever saves, picks a timezone
\* whose clock is set back, or slows the schedule down and switches it off.
MCZones == {-2, 2}
MCZoneOf == [d \in Scheduled |-> [t \in Tenants |-> -2]]
MCForms == {[step |-> 1, zone |-> 2, enabled |-> TRUE], [step |-> 2, zone |-> -2, enabled |-> FALSE]}
=============================================================================

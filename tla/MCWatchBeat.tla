----------------------------- MODULE MCWatchBeat -----------------------------
(* Small instances of WatchBeat for TLC. *)
EXTENDS WatchBeat

CONSTANTS q, p  \* the one limit and the one signal

MCMagnitudes == {0, 2, 4, 6}
MCWarns == {1, 3}
MCDefault == [warn |-> 1, delta |-> 2]

\* What one subject may be given: a wider band, a mute, a delta of zero.
Wider == [warn |-> 3, delta |-> NoData, mute |-> FALSE]
Muted == [warn |-> NoData, delta |-> NoData, mute |-> TRUE]
Twitchy == [warn |-> NoData, delta |-> 0, mute |-> FALSE]
MCOverlays == {Wider, Muted, Twitchy}

Book(m, n) == [s \in Scalars |-> IF s = q THEN m ELSE n]

\* Calm, warning, breach and trigger, a signal without data; a deeper breach.
MCBooks == {Book(0, 0), Book(2, 0), Book(4, 4), Book(4, NoData), Book(6, 4)}
==============================================================================

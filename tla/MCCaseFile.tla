----------------------------- MODULE MCCaseFile -----------------------------
(* One event concerns both cases that exist, another the first only. *)
EXTENDS CaseFile, TLC

MCTouched == [e \in Events |-> IF e = "nav" THEN {1, 2} ELSE {1}]
\* Two cases that wait, the first opened the longer; one of them, or none yet.
MCWaiting == {<<2, 1>>}
MCStarts == MCWaiting \union {<<2, -1>>, <<-1, -1>>}

\* Requests are alike.
MCAlike == Permutations(Workers)
=============================================================================

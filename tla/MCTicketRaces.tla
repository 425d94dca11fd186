---------------------------- MODULE MCTicketRaces ----------------------------
(* Small instances of TicketRaces for TLC.                                 *)
EXTENDS TicketRaces, TLC

MCSymmetry == Permutations(Requests)
=============================================================================

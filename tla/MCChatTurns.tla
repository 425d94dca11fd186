---------------------------- MODULE MCChatTurns ----------------------------
(* A typed turn of either session beside one the voice call asks for.     *)
EXTENDS ChatTurns

CONSTANTS a, j, s1, s2

MCUses == [t \in Turns |-> IF t = a THEN {"fetch"} ELSE {"chart"}]
=============================================================================

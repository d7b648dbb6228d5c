------------------------- MODULE MCDebouncerProtocol -------------------------
(***************************************************************************)
(* A small instance of DebouncerProtocol: a customer with three messages,  *)
(* two of which share a sequence number (an Instagram timestamp), and one  *)
(* with a single message.                                                  *)
(***************************************************************************)
EXTENDS DebouncerProtocol

CONSTANTS alice, bob, a1, a2, a3, b1

MCOwner == [m \in MessageIds |-> IF m = b1 THEN bob ELSE alice]

MCSequenceOf == [m \in MessageIds |-> IF m = a1 THEN 1 ELSE 2]
=============================================================================

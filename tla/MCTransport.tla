------------------------------ MODULE MCTransport ------------------------------
(***************************************************************************)
(* A small instance of Transport.                                          *)
(***************************************************************************)
EXTENDS Transport

\* A text from its length and the places of its gaps.
TextOf(length, gaps) == [i \in 1..length |-> IF i \in gaps THEN Gap ELSE i]

\* The empty text; one that is too long for a request; and one of three
\* paragraphs, where two bubbles are allowed.
MCTexts == {TextOf(0, {}), TextOf(5, {}), TextOf(5, {2, 4})}
===============================================================================

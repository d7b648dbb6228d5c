----------------------------- MODULE MCDispatch ------------------------------
(***************************************************************************)
(* A small instance of Dispatch: one Telegram customer, whose messages can *)
(* be edited and redelivered, and two Instagram customers whose messages   *)
(* Meta may put into one POST.                                             *)
(***************************************************************************)
EXTENDS Dispatch

CONSTANTS tg, ig1, ig2,    \* customers
          m1, m2, i1, j1   \* their messages

MCOwner == (m1 :> tg) @@ (m2 :> tg) @@ (i1 :> ig1) @@ (j1 :> ig2)

MCSequenceOf == (m1 :> 1) @@ (m2 :> 2) @@ (i1 :> 1) @@ (j1 :> 1)

MCPayloads == [edit : {0}, staffed : BOOLEAN]

Says(m) == {[messageId |-> m, payload |-> p] : p \in Payloads}

\* Every single message, and both Instagram messages in one POST.
MCUpdates ==
    {<<message>> : message \in Message}
       \cup {<<x, y>> : x \in Says(i1), y \in Says(j1)}

\* Friday's last millisecond of work and the closing hour after it; Monday's
\* last millisecond of rest and the opening hour.
FridayEvening == {133199999, 133200000}
MondayMorning == {363599999, 363600000}
WeekendBetween == FridayEvening \cup {363600000}

\* The tasks are interchangeable; used where only safety is checked.
TaskSymmetry == Permutations(Tasks)
=============================================================================

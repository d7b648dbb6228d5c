---------------------------- MODULE BatchContract ----------------------------
(***************************************************************************)
(* What the message debouncer promises the rest of the program, without    *)
(* queues, maps, logs or a database: the life of one customer message.     *)
(*                                                                         *)
(*   new -> waiting -> handed -> done -> new                               *)
(*                                                                         *)
(* A message is handed to the handler together with everything of its      *)
(* customer that was waiting, only one batch of a customer is out at a     *)
(* time, nothing waits while no batch is out, and a message that is done   *)
(* is remembered for at least Retention before it can be taken for new.    *)
(***************************************************************************)
EXTENDS Integers

CONSTANTS MessageIds,  \* the identifiers messages carry
          Customers,   \* the customers who send them
          Owner,       \* the customer each identifier belongs to
          Retention    \* how long a finished message must be remembered

VARIABLES status,   \* where each message is in its life
          doneAt,   \* when it was last finished
          clock

contractVars == <<status, doneAt, clock>>

Phases == {"new", "waiting", "handed", "done"}

Those(c, phase) == {m \in MessageIds : Owner[m] = c /\ status[m] = phase}

Forgettable == {m \in MessageIds : status[m] = "done" /\ clock - doneAt[m] > Retention}

Init ==
    /\ status = [m \in MessageIds |-> "new"]
    /\ doneAt = [m \in MessageIds |-> 0]
    /\ clock = 0

\* A message that is not known yet starts a batch of its own, or waits for
\* the batch that is out.
Accept(m) ==
    /\ status[m] = "new"
    /\ status' = [status EXCEPT ![m] =
                    IF Those(Owner[m], "handed") = {} THEN "handed" ELSE "waiting"]
    /\ UNCHANGED <<doneAt, clock>>

\* The batch of c is finished and all that waited becomes the next one.
\* Only messages finished long ago may drop out of memory.
Settle(c) ==
    /\ Those(c, "handed") # {}
    /\ \E forgotten \in SUBSET Forgettable :
          status' = [m \in MessageIds |->
                       CASE m \in Those(c, "handed")  -> "done"
                         [] m \in Those(c, "waiting") -> "handed"
                         [] m \in forgotten           -> "new"
                         [] OTHER                     -> status[m]]
    /\ doneAt' = [m \in MessageIds |->
                    IF m \in Those(c, "handed") THEN clock ELSE doneAt[m]]
    /\ UNCHANGED clock

\* A restart loses whatever was waiting or handed out, and nothing that is
\* done.
Restart ==
    /\ \E forgotten \in SUBSET Forgettable :
          status' = [m \in MessageIds |->
                       IF status[m] \in {"waiting", "handed"} \/ m \in forgotten
                       THEN "new" ELSE status[m]]
    /\ UNCHANGED <<doneAt, clock>>

Tick ==
    /\ clock' = clock + 1
    /\ UNCHANGED <<status, doneAt>>

Next ==
    \/ \E m \in MessageIds : Accept(m)
    \/ \E c \in Customers : Settle(c)
    \/ Restart
    \/ Tick

Spec == Init /\ [][Next]_contractVars

\* Every batch that is handed out is eventually finished.
FairSpec == Spec /\ \A c \in Customers : WF_contractVars(Settle(c))
=============================================================================

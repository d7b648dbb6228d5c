-------------------------- MODULE InstagramRedirect --------------------------
(***************************************************************************)
(* engine/instagramRedirectHandler.ts: a customer who writes on Instagram   *)
(* is pointed to Telegram, and staff are told of the lead.  A call works    *)
(* through the messages of one delivery, one after the other, and awaits    *)
(* each of the three requests it makes for each of them.                    *)
(*                                                                          *)
(* A message is a batch of its own here; MessageDebouncer has the batching. *)
(* What the texts say, and in which language, is left out.                  *)
(***************************************************************************)
EXTENDS SequencesExt

CONSTANT Exchanges  \* the deliveries there can be calls for

VARIABLES stage,  \* which request the call for a delivery awaits
          work,   \* the messages it has not dealt with, the present one first
          leads,  \* history: the messages the handler was called for
          notes   \* history: those of which staff were sent a note

redirectVars == <<stage, work, leads, notes>>

RedirectInit ==
    /\ stage = [x \in Exchanges |-> "idle"]
    /\ work = [x \in Exchanges |-> <<>>]
    /\ leads = {}
    /\ notes = {}

\* handleParsedUpdate on what is left.  The debouncer may find any message to
\* be a duplicate, or queue it: Dispatch says which.
TakeUp(x, messages) ==
    \E rest \in Suffixes(messages) :
       /\ work' = [work EXCEPT ![x] = rest]
       /\ stage' = [stage EXCEPT ![x] = IF rest = <<>> THEN "idle" ELSE "reply"]
       /\ leads' = IF rest = <<>> THEN leads ELSE leads \cup {rest[1].messageId}

\* Mutant of SendRedirect: what the send throws ends the call.
SendRedirectOrLeave(x) ==
    /\ stage[x] = "reply"
    /\ \/ stage' = [stage EXCEPT ![x] = "profile"] /\ UNCHANGED work
       \/ stage' = [stage EXCEPT ![x] = "idle"] /\ work' = [work EXCEPT ![x] = <<>>]
    /\ UNCHANGED <<leads, notes>>

\* The customer has been sent the redirect, or that failed and was logged.
SendRedirect(x) ==
    /\ stage[x] = "reply"
    /\ stage' = [stage EXCEPT ![x] = "profile"]
    /\ UNCHANGED <<work, leads, notes>>

\* getUserProfile has named the customer, by handle or by name, or has not.
describeInstagramCustomer(x) ==
    /\ stage[x] = "profile"
    /\ stage' = [stage EXCEPT ![x] = "notify"]
    /\ UNCHANGED <<work, leads, notes>>

\* The note to staff was sent, or that failed and was logged.  The message is
\* dealt with, and the next one of the delivery is admitted.
notifyManagerOfInstagramLead(x) ==
    /\ stage[x] = "notify"
    /\ notes' = notes \cup {work[x][1].messageId}
    /\ TakeUp(x, Tail(work[x]))
===============================================================================

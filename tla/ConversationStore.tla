--------------------------- MODULE ConversationStore ---------------------------
(***************************************************************************)
(* The two rows the database keeps of one customer: the long-lived one of  *)
(* SqliteCustomerIdentityRepository and the working state of               *)
(* SqliteConversationStateRepository, which is ignored once its time is    *)
(* up.  The columns nothing in the program writes are left out.            *)
(***************************************************************************)
EXTENDS Integers, Sequences

CONSTANTS Ttl,        \* DEFAULT_CONVERSATION_STATE_TTL_MS
          Languages,  \* ru, uz, en
          MaxCalls,   \* bound on the batches handled: they are numbered
          NoRow       \* no row in the table

\* The number of the batch a value comes from, 0 for null.
Source == 0..MaxCalls

Turn == [role : {"user", "assistant"}, call : 1..MaxCalls, at : Nat, checked : BOOLEAN]

ConversationState ==
    [history : Seq(Turn), language : Languages, phone : Source, location : Source,
     escalated : BOOLEAN, expiresAt : Nat]

CustomerIdentity == [firstSeen : Nat, lastSeen : Nat, returning : BOOLEAN]

ASSUME StoreAssumption ==
    /\ Ttl \in Nat \ {0}
    /\ MaxCalls \in Nat
    /\ NoRow \notin ConversationState \cup CustomerIdentity

VARIABLES conversation,  \* the row of conversation_state
          identity,      \* the row of customer_identity
          clock          \* Date.now()

rowVars == <<conversation, identity>>

RowsTypeOK ==
    /\ conversation \in ConversationState \cup {NoRow}
    /\ identity \in CustomerIdentity \cup {NoRow}
    /\ clock \in Nat

RowsInit ==
    /\ conversation = NoRow
    /\ identity = NoRow
    /\ clock = 0

\* Mutant of Live: get() without the lazy expiry.
LiveWhilePresent(time) == conversation

\* get(): an expired row is as good as none.
Live(time) ==
    IF conversation # NoRow /\ conversation.expiresAt > time THEN conversation ELSE NoRow

\* recordContact().
RecordContact(time) ==
    identity' = IF identity = NoRow
                THEN [firstSeen |-> time, lastSeen |-> time, returning |-> FALSE]
                ELSE [identity EXCEPT !.lastSeen = time, !.returning = TRUE]

\* save(): the whole row is replaced and its life starts again.
Save(row, time) == conversation' = [row EXCEPT !.expiresAt = time + Ttl]
================================================================================

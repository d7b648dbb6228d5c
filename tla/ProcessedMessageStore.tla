------------------------ MODULE ProcessedMessageStore ------------------------
(***************************************************************************)
(* The durable memory of finished messages: the table processed_messages   *)
(* behind SqliteProcessedMessageStore.  It survives a restart.  Time is    *)
(* counted in abstract units, Retention of which stand for the seven days  *)
(* of RETENTION_MS.                                                        *)
(***************************************************************************)
EXTENDS Integers

CONSTANTS MessageIds,   \* the platform-qualified message identifiers
          Retention     \* RETENTION_MS

ASSUME RetentionAssumption == Retention \in Nat

VARIABLES processedAt,  \* the row of each message: when it was recorded, or Never
          clock         \* Date.now()

storeVars == <<processedAt, clock>>

\* No row with this message_id.
Never == -1

StoreTypeOK ==
    /\ processedAt \in [MessageIds -> Nat \cup {Never}]
    /\ clock \in Nat

StoreInit ==
    /\ processedAt = [m \in MessageIds |-> Never]
    /\ clock = 0

Has(m) == processedAt[m] # Never

\* Mutant of Expired: purges the rows that reach the cutoff as well.
ExpiredAtCutoff(m) == Has(m) /\ processedAt[m] <= clock - Retention

Expired(m) == Has(m) /\ processedAt[m] < clock - Retention

\* Mutant of RecordAll: the cutoff of the purge is bound to the INSERT.
RecordAllWithCutoff(ids, purged) ==
    processedAt' = [m \in MessageIds |->
                      CASE m \in ids /\ ~Has(m) -> clock - Retention
                        [] purged /\ Expired(m) -> Never
                        [] OTHER                -> processedAt[m]]

\* The calls record(m) for every m of ids, within one instant: INSERT OR
\* IGNORE keeps the time of a row that is already there, and the DELETE that
\* follows, unless it was the statement that failed, purges the old rows.
RecordAll(ids, purged) ==
    processedAt' = [m \in MessageIds |->
                      CASE m \in ids /\ ~Has(m) -> clock
                        [] purged /\ Expired(m) -> Never
                        [] OTHER                -> processedAt[m]]
=============================================================================

-------------------------- MODULE DebouncerProtocol --------------------------
(***************************************************************************)
(* The debouncer used the way its header comment prescribes: a caller      *)
(* passes every message to admit, handles the batch it is given, calls     *)
(* complete with that batch and goes on with what complete returns.        *)
(* Messages are delivered in any order and any number of times, with any   *)
(* of their contents; the process restarts at any moment.                  *)
(***************************************************************************)
EXTENDS MessageDebouncer

CONSTANTS StoreMayFail,  \* whether a write to the persisted store can throw
          MaxClock       \* bound on the clock

ASSUME ProtocolAssumption ==
    /\ StoreMayFail \in BOOLEAN
    /\ MaxClock \in Nat

VARIABLES handed,       \* the batch each customer's caller holds, <<>> for none
          completedAt   \* history: when complete() last returned for a message

protocolVars == <<queueVars, storeVars, handed, completedAt>>

TypeOK ==
    /\ QueueTypeOK
    /\ StoreTypeOK
    /\ handed \in [Customers -> Seq(Message)]
    /\ completedAt \in [MessageIds -> Nat \cup {Never}]

Init ==
    /\ EmptyQueues
    /\ StoreInit
    /\ handed = [c \in Customers |-> <<>>]
    /\ completedAt = [m \in MessageIds |-> Never]

Admit(message) ==
    \/ AdmitDuplicate(message) /\ UNCHANGED <<handed, completedAt>>
    \/ AdmitQueued(message) /\ UNCHANGED <<handed, completedAt>>
    \/ /\ AdmitProcess(message)
       /\ handed' = [handed EXCEPT ![Owner[message.messageId]] = FirstBatch(message)]
       /\ UNCHANGED completedAt

CompleteBatch(c) ==
    /\ handed[c] # <<>>
    /\ Complete(c, handed[c])
    /\ handed' = [handed EXCEPT ![c] = NextBatch(c)]
    /\ completedAt' = [m \in MessageIds |->
                         IF m \in IdSet(handed[c]) THEN clock ELSE completedAt[m]]

\* complete() throws; the caller still holds its batch and may call again.
CompleteFails(c) ==
    /\ StoreMayFail
    /\ handed[c] # <<>>
    /\ CompleteThrows(c, handed[c])
    /\ UNCHANGED <<handed, completedAt>>

\* The process dies and starts again: only the table of processed messages
\* is left.
Restart ==
    /\ LoseQueues
    /\ handed' = [c \in Customers |-> <<>>]
    /\ UNCHANGED <<storeVars, completedAt>>

Tick ==
    /\ clock < MaxClock
    /\ clock' = clock + 1
    /\ UNCHANGED <<queueVars, processedAt, handed, completedAt>>

Next ==
    \/ \E message \in Message : Admit(message)
    \/ \E c \in Customers : CompleteBatch(c) \/ CompleteFails(c)
    \/ Restart
    \/ Tick

Spec == Init /\ [][Next]_protocolVars

-----------------------------------------------------------------------------
\* The debouncer's idea of what is in flight is the batch some caller really
\* holds.  The in-flight ids decide which deliveries are duplicates, and the
\* flag whether a message is queued behind a batch that will be completed.
FlightIsHeld ==
    \A c \in Customers :
       /\ inFlight[c] <=> handed[c] # <<>>
       /\ inFlightMessageIds[c] = IdSet(handed[c])

\* No message waits while nobody is going to call complete for its customer:
\* the next batch is triggered by nothing but the end of the previous one.
NoStrandedWork ==
    \A c \in Customers : pending[c] # <<>> => inFlight[c]

\* A message occupies one slot of its own customer's queue: it is not twice
\* in the queue or in the batch, not in both, and not in another's.
OneSlotPerMessage ==
    \A c \in Customers :
       LET all == pending[c] \o handed[c] IN
       /\ IsInjective(Ids(all))
       /\ \A m \in IdSet(all) : Owner[m] = c

\* The handler is given a batch in sequence order, whatever order its messages
\* arrived in and however often they were edited.
HandedInOrder ==
    \A c \in Customers : \A i, j \in DOMAIN handed[c] :
       i < j => SequenceOf[handed[c][i].messageId] <= SequenceOf[handed[c][j].messageId]

\* A message that waits to be handled is not one that was finished: however
\* the bounded memory, the purge and a restart interleave, the queue holds no
\* message the next redelivery would be refused for.
NothingFinishedWaits ==
    \A c \in Customers : \A m \in IdSet(pending[c]) :
       m \notin ToSet(recentlyProcessed[c]) /\ ~Has(m)

\* A completed message is refused for the whole retention period, across
\* evictions from the bounded memory, purges of the table and restarts.
RememberedForRetention ==
    \A m \in MessageIds :
       completedAt[m] # Never /\ clock - completedAt[m] <= Retention => Has(m)

-----------------------------------------------------------------------------
\* The phase of each message as the debouncer sees it, for the contract.
Phase(m) ==
    IF m \in inFlightMessageIds[Owner[m]] THEN "handed"
    ELSE IF m \in IdSet(pending[Owner[m]]) THEN "waiting"
    ELSE IF Has(m) \/ m \in ToSet(recentlyProcessed[Owner[m]]) THEN "done"
    ELSE "new"

Contract == INSTANCE BatchContract WITH
    status <- [m \in MessageIds |-> Phase(m)],
    doneAt <- [m \in MessageIds |-> IF completedAt[m] = Never THEN 0 ELSE completedAt[m]],
    clock  <- clock

\* The queues, the in-flight set, the bounded memory and the table together
\* implement the life of a message that BatchContract states.
ImplementsContract == Contract!Spec
=============================================================================

-------------------------- MODULE MessageDebouncer ---------------------------
(***************************************************************************)
(* The class MessageDebouncer: one queue per customer and the two methods  *)
(* the rest of the program calls, admit and complete.  Each runs without   *)
(* an await, so each outcome of a call is one atomic action.  An absent    *)
(* entry of the map of queues is the idle, empty queue that                *)
(* getOrCreateQueue would put there.                                       *)
(***************************************************************************)
EXTENDS ProcessedMessageStore, Sequences, FiniteSets, SequencesExt

CONSTANTS Customers,             \* the platform-qualified customer keys
          Owner,                 \* InboundMessage.customerId, embedded in the id
          SequenceOf,            \* InboundMessage.sequence
          Payloads,              \* the contents a delivery of a message can carry
          MaxRecentlyProcessed   \* maxRecentlyProcessedPerCustomer

ASSUME DebouncerAssumption ==
    /\ Owner \in [MessageIds -> Customers]
    /\ SequenceOf \in [MessageIds -> Nat]
    /\ MaxRecentlyProcessed \in Nat

VARIABLES inFlight,            \* a batch of the customer is with the caller
          inFlightMessageIds,  \* and these are its messages
          pending,             \* the waiting messages, in Map insertion order
          recentlyProcessed    \* the finished ids kept in memory, oldest first

queueVars == <<inFlight, inFlightMessageIds, pending, recentlyProcessed>>

Message == [messageId : MessageIds, payload : Payloads]

QueueTypeOK ==
    /\ inFlight \in [Customers -> BOOLEAN]
    /\ inFlightMessageIds \in [Customers -> SUBSET MessageIds]
    /\ pending \in [Customers -> Seq(Message)]
    /\ recentlyProcessed \in [Customers -> Seq(MessageIds)]
    /\ \A c \in Customers : Len(recentlyProcessed[c]) <= MaxRecentlyProcessed

EmptyQueues ==
    /\ inFlight = [c \in Customers |-> FALSE]
    /\ inFlightMessageIds = [c \in Customers |-> {}]
    /\ pending = [c \in Customers |-> <<>>]
    /\ recentlyProcessed = [c \in Customers |-> <<>>]

\* A restarted process has no queues.
LoseQueues ==
    /\ inFlight' = [c \in Customers |-> FALSE]
    /\ inFlightMessageIds' = [c \in Customers |-> {}]
    /\ pending' = [c \in Customers |-> <<>>]
    /\ recentlyProcessed' = [c \in Customers |-> <<>>]

-----------------------------------------------------------------------------
Ids(batch) == [i \in DOMAIN batch |-> batch[i].messageId]

IdSet(batch) == {batch[i].messageId : i \in DOMAIN batch}

\* Mutant of Put: an array instead of a map.
PutLast(queue, message) == Append(queue, message)

\* Map.set: a message already in the map keeps its place and takes the new
\* content, another one goes last.
Put(queue, message) ==
    IF message.messageId \in IdSet(queue)
    THEN [i \in DOMAIN queue |->
            IF queue[i].messageId = message.messageId THEN message ELSE queue[i]]
    ELSE Append(queue, message)

\* The order a stable sort by sequence gives the positions of a queue.
Precedes(queue, i, j) ==
    \/ SequenceOf[queue[i].messageId] < SequenceOf[queue[j].messageId]
    \/ SequenceOf[queue[i].messageId] = SequenceOf[queue[j].messageId] /\ i <= j

Rank(queue, j) == Cardinality({i \in DOMAIN queue : Precedes(queue, i, j)})

\* Mutant of SortBySequence: the map's insertion order.
KeepInsertionOrder(queue) == queue

SortBySequence(queue) ==
    [k \in DOMAIN queue |-> queue[CHOOSE j \in DOMAIN queue : Rank(queue, j) = k]]

\* The newest MaxRecentlyProcessed ids.
Trim(ids) ==
    IF Len(ids) > MaxRecentlyProcessed
    THEN SubSeq(ids, Len(ids) - MaxRecentlyProcessed + 1, Len(ids))
    ELSE ids

-----------------------------------------------------------------------------
InMemory(m) == m \in ToSet(recentlyProcessed[Owner[m]]) \cup inFlightMessageIds[Owner[m]]

\* Mutants of IsDuplicate: one source of knowledge is not asked.
IsDuplicateInMemory(m) == InMemory(m)
IsDuplicateWhenDone(m) == m \in ToSet(recentlyProcessed[Owner[m]]) \/ Has(m)

IsDuplicate(m) == InMemory(m) \/ Has(m)

\* Mutants of Drain: one of its assignments is forgotten.
DrainWithoutIds(c, queue) ==
    /\ pending' = [pending EXCEPT ![c] = <<>>]
    /\ inFlight' = [inFlight EXCEPT ![c] = TRUE]
    /\ UNCHANGED inFlightMessageIds

DrainWithoutFlag(c, queue) ==
    /\ pending' = [pending EXCEPT ![c] = <<>>]
    /\ inFlightMessageIds' = [inFlightMessageIds EXCEPT ![c] = IdSet(SortBySequence(queue))]
    /\ UNCHANGED inFlight

\* drain(): the queue becomes the batch in flight.
Drain(c, queue) ==
    /\ pending' = [pending EXCEPT ![c] = <<>>]
    /\ inFlight' = [inFlight EXCEPT ![c] = TRUE]
    /\ inFlightMessageIds' = [inFlightMessageIds EXCEPT ![c] = IdSet(SortBySequence(queue))]

\* The batch admit() returns with "process".
FirstBatch(message) == SortBySequence(Put(pending[Owner[message.messageId]], message))

\* admit() returns "duplicate".
AdmitDuplicate(message) ==
    /\ IsDuplicate(message.messageId)
    /\ UNCHANGED <<queueVars, storeVars>>

\* admit() returns "queued".
AdmitQueued(message) ==
    LET c == Owner[message.messageId] IN
    /\ ~IsDuplicate(message.messageId)
    /\ inFlight[c]
    /\ pending' = [pending EXCEPT ![c] = Put(@, message)]
    /\ UNCHANGED <<inFlight, inFlightMessageIds, recentlyProcessed, storeVars>>

\* admit() returns "process".
AdmitProcess(message) ==
    LET c == Owner[message.messageId] IN
    /\ ~IsDuplicate(message.messageId)
    /\ ~inFlight[c]
    /\ Drain(c, Put(pending[c], message))
    /\ UNCHANGED <<recentlyProcessed, storeVars>>

\* has() throws: the persisted store is asked only when memory does not know
\* the message.  Nothing has been changed yet.
AdmitThrows(message) ==
    /\ ~InMemory(message.messageId)
    /\ UNCHANGED <<queueVars, storeVars>>

\* The batch complete() returns, <<>> standing for null.
NextBatch(c) == SortBySequence(pending[c])

\* Mutant of PushRecent: nothing is evicted.
PushWithoutEviction(c, batch) ==
    recentlyProcessed' = [recentlyProcessed EXCEPT ![c] = @ \o Ids(batch)]

PushRecent(c, batch) ==
    recentlyProcessed' = [recentlyProcessed EXCEPT ![c] = Trim(@ \o Ids(batch))]

\* Mutant of Complete: it goes idle whatever is queued.
CompleteGoesIdle(c, batch) ==
    /\ PushRecent(c, batch)
    /\ RecordAll(IdSet(batch), TRUE)
    /\ inFlight' = [inFlight EXCEPT ![c] = FALSE]
    /\ inFlightMessageIds' = [inFlightMessageIds EXCEPT ![c] = {}]
    /\ UNCHANGED <<pending, clock>>

Complete(c, batch) ==
    /\ PushRecent(c, batch)
    /\ RecordAll(IdSet(batch), TRUE)
    /\ IF pending[c] = <<>>
       THEN /\ inFlight' = [inFlight EXCEPT ![c] = FALSE]
            /\ inFlightMessageIds' = [inFlightMessageIds EXCEPT ![c] = {}]
            /\ UNCHANGED pending
       ELSE Drain(c, pending[c])
    /\ UNCHANGED clock

\* record() throws inside complete(), after n of the batch's rows are in:
\* either the next INSERT failed, or the DELETE that follows the n-th.  The
\* ids have been pushed to memory, the rest of the queue is as it was.
CompleteThrows(c, batch) ==
    /\ PushRecent(c, batch)
    /\ \E n \in 0..Len(batch) :
          \/ n < Len(batch) /\ RecordAll(IdSet(SubSeq(batch, 1, n)), n > 0)
          \/ n > 0 /\ RecordAll(IdSet(SubSeq(batch, 1, n)), n > 1)
    /\ UNCHANGED <<inFlight, inFlightMessageIds, pending, clock>>
=============================================================================

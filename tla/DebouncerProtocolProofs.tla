----------------------- MODULE DebouncerProtocolProofs -----------------------
(***************************************************************************)
(* Proofs about DebouncerProtocol for any number of customers, messages    *)
(* and contents, any bound of the memory and any retention: first the      *)
(* invariants that hold whatever becomes of the store, then those of a     *)
(* store whose writes succeed, and the refinement of BatchContract.        *)
(***************************************************************************)
EXTENDS DebouncerProtocol, BatchOrderProofs

\* Every part of the state that belongs to customer c, as it must be for the
\* properties below to be inductive: the flag and the in-flight ids describe
\* the batch that is held, ids are distinct and in the right queue, and no
\* waiting message is remembered as finished.
CustomerInv(c) ==
    /\ inFlight[c] <=> handed[c] # <<>>
    /\ inFlightMessageIds[c] = IdSet(handed[c])
    /\ pending[c] # <<>> => inFlight[c]
    /\ Distinct(pending[c])
    /\ Distinct(handed[c])
    /\ IdSet(pending[c]) \cap IdSet(handed[c]) = {}
    /\ \A m \in IdSet(pending[c]) \cup IdSet(handed[c]) : Owner[m] = c
    /\ \A i, j \in DOMAIN handed[c] :
          i < j => SequenceOf[handed[c][i].messageId] <= SequenceOf[handed[c][j].messageId]
    /\ \A m \in IdSet(pending[c]) : m \notin ToSet(recentlyProcessed[c]) /\ ~Has(m)

IInv == TypeOK /\ \A c \in Customers : CustomerInv(c)

-----------------------------------------------------------------------------
\* A step keeps the invariant of a customer none of whose queue it touches
\* and none of whose waiting messages it records.
LEMMA Untouched ==
    ASSUME NEW c \in Customers, CustomerInv(c),
           inFlight'[c] = inFlight[c],
           inFlightMessageIds'[c] = inFlightMessageIds[c],
           pending'[c] = pending[c],
           recentlyProcessed'[c] = recentlyProcessed[c],
           handed'[c] = handed[c],
           \A m \in IdSet(pending[c]) : processedAt'[m] = Never
    PROVE  CustomerInv(c)'
<1>1. \A m \in IdSet(pending'[c]) :
         m \notin ToSet(recentlyProcessed'[c]) /\ ~(processedAt'[m] # Never)
  BY DEF CustomerInv
<1> QED
  BY <1>1 DEF CustomerInv, Has

\* What RecordAll leaves in the table.
LEMMA RecordProperties ==
    ASSUME TypeOK, NEW ids \in SUBSET MessageIds, NEW purged \in BOOLEAN,
           RecordAll(ids, purged)
    PROVE  /\ processedAt' \in [MessageIds -> Nat \cup {Never}]
           /\ \A m \in MessageIds : m \notin ids /\ ~Has(m) => processedAt'[m] = Never
BY DEF RecordAll, TypeOK, StoreTypeOK, Has, Expired


-----------------------------------------------------------------------------
LEMMA InitInv == Init => IInv
<1> SUFFICES ASSUME Init PROVE IInv
  OBVIOUS
<1>1. TypeOK
  BY EmptyFits DEF Init, EmptyQueues, StoreInit, TypeOK, QueueTypeOK, StoreTypeOK
<1>2. ASSUME NEW c \in Customers PROVE CustomerInv(c)
  <2>1. /\ ~inFlight[c]
        /\ inFlightMessageIds[c] = {}
        /\ pending[c] = <<>>
        /\ handed[c] = <<>>
    BY DEF Init, EmptyQueues
  <2>2. IdSet(<<>>) = {} /\ DOMAIN (<<>>) = {}
    BY DEF IdSet
  <2> QED
    BY <2>1, <2>2 DEF CustomerInv, Distinct
<1> QED
  BY <1>1, <1>2 DEF IInv

\* admit() returns "queued": the message enters its own queue, in which no
\* other slot holds its id, and the batch in flight does not hold it either.
LEMMA QueuedInv ==
    ASSUME IInv, NEW message \in Message,
           AdmitQueued(message), UNCHANGED <<handed, completedAt>>
    PROVE  IInv'
<1> DEFINE c == Owner[message.messageId]
           put == Put(pending[c], message)
<1>1. c \in Customers /\ message.messageId \in MessageIds
  BY DebouncerAssumption DEF Message
<1>2. /\ TypeOK
      /\ pending \in [Customers -> Seq(Message)]
      /\ CustomerInv(c)
  BY <1>1 DEF IInv, TypeOK, QueueTypeOK
<1>3. /\ put \in Seq(Message)
      /\ IdSet(put) = IdSet(pending[c]) \cup {message.messageId}
      /\ Distinct(put)
  BY <1>1, <1>2, PutProperties DEF CustomerInv
<1>4. /\ inFlight[c]
      /\ message.messageId \notin ToSet(recentlyProcessed[c])
      /\ message.messageId \notin inFlightMessageIds[c]
      /\ ~Has(message.messageId)
      /\ pending' = [pending EXCEPT ![c] = put]
      /\ UNCHANGED <<inFlight, inFlightMessageIds, recentlyProcessed, processedAt, clock>>
  BY DEF AdmitQueued, IsDuplicate, InMemory, storeVars
<1> HIDE DEF put, c
<1>5. TypeOK'
  BY <1>2, <1>3, <1>4 DEF TypeOK, QueueTypeOK, StoreTypeOK
<1>6. CustomerInv(c)'
  <2>1. pending'[c] = put
    BY <1>1, <1>2, <1>4
  <2>2. /\ inFlight'[c] <=> handed'[c] # <<>>
        /\ inFlightMessageIds'[c] = IdSet(handed'[c])
        /\ inFlight'[c]
        /\ Distinct(handed'[c])
        /\ \A i, j \in DOMAIN handed'[c] : i < j =>
              SequenceOf[handed'[c][i].messageId] <= SequenceOf[handed'[c][j].messageId]
    BY <1>2, <1>4 DEF CustomerInv
  <2>3. IdSet(put) \cap IdSet(handed'[c]) = {}
    BY <1>2, <1>3, <1>4 DEF CustomerInv
  <2>4. \A m \in IdSet(put) \cup IdSet(handed'[c]) : Owner[m] = c
    BY <1>2, <1>3, <1>4 DEF CustomerInv, c
  <2>5. \A m \in IdSet(put) :
           m \notin ToSet(recentlyProcessed'[c]) /\ ~(processedAt'[m] # Never)
    BY <1>2, <1>3, <1>4 DEF CustomerInv, Has
  <2> QED
    BY <1>3, <2>1, <2>2, <2>3, <2>4, <2>5 DEF CustomerInv, Has
<1>7. ASSUME NEW d \in Customers, d # c PROVE CustomerInv(d)'
  <2>1. CustomerInv(d)
    BY DEF IInv
  <2>2. \A m \in IdSet(pending[d]) : processedAt'[m] = Never
    BY <1>4, <2>1 DEF CustomerInv, Has
  <2>3. pending'[d] = pending[d]
    BY <1>2, <1>4, <1>7
  <2> QED
    BY <1>4, <2>1, <2>2, <2>3, Untouched
<1> QED
  BY <1>5, <1>6, <1>7 DEF IInv

\* admit() returns "process": the customer is idle, so nothing waits and the
\* message is the whole batch.
LEMMA ProcessInv ==
    ASSUME IInv, NEW message \in Message,
           AdmitProcess(message),
           handed' = [handed EXCEPT ![Owner[message.messageId]] = FirstBatch(message)],
           UNCHANGED completedAt
    PROVE  IInv'
<1> DEFINE c == Owner[message.messageId]
           put == Put(pending[c], message)
<1>1. c \in Customers /\ message.messageId \in MessageIds
  BY DebouncerAssumption DEF Message
<1>2. /\ TypeOK
      /\ pending \in [Customers -> Seq(Message)]
      /\ inFlight \in [Customers -> BOOLEAN]
      /\ inFlightMessageIds \in [Customers -> SUBSET MessageIds]
      /\ handed \in [Customers -> Seq(Message)]
      /\ CustomerInv(c)
  BY <1>1 DEF IInv, TypeOK, QueueTypeOK
<1>3. /\ put \in Seq(Message)
      /\ put # <<>>
      /\ IdSet(put) = IdSet(pending[c]) \cup {message.messageId}
      /\ Distinct(put)
  BY <1>1, <1>2, PutProperties DEF CustomerInv
<1>4. /\ pending' = [pending EXCEPT ![c] = <<>>]
      /\ inFlight' = [inFlight EXCEPT ![c] = TRUE]
      /\ inFlightMessageIds' = [inFlightMessageIds EXCEPT ![c] = IdSet(SortBySequence(put))]
      /\ handed' = [handed EXCEPT ![c] = SortBySequence(put)]
      /\ UNCHANGED <<recentlyProcessed, processedAt, clock, completedAt>>
  BY DEF AdmitProcess, Drain, storeVars, FirstBatch
<1> HIDE DEF put, c
<1>5. /\ SortBySequence(put) \in Seq(Message)
      /\ Distinct(SortBySequence(put))
      /\ IdSet(SortBySequence(put)) = IdSet(put)
      /\ SortBySequence(put) # <<>>
      /\ \A i, j \in DOMAIN SortBySequence(put) : i < j =>
            SequenceOf[SortBySequence(put)[i].messageId]
               <= SequenceOf[SortBySequence(put)[j].messageId]
  BY <1>3, DrainedBatch
<1>6. TypeOK'
  <2>1. IdSet(SortBySequence(put)) \in SUBSET MessageIds
    BY <1>5, IdsProperties
  <2>2. <<>> \in Seq(Message)
    BY EmptySeq
  <2> QED
    BY <1>2, <1>4, <1>5, <2>1, <2>2 DEF TypeOK, QueueTypeOK, StoreTypeOK
<1>7. CustomerInv(c)'
  <2>1. /\ pending'[c] = <<>>
        /\ inFlight'[c]
        /\ inFlightMessageIds'[c] = IdSet(SortBySequence(put))
        /\ handed'[c] = SortBySequence(put)
    BY <1>1, <1>2, <1>4
  <2>2. IdSet(<<>>) = {} /\ Distinct(<<>>)
    BY DEF IdSet, Distinct
  <2>3. \A m \in IdSet(SortBySequence(put)) : Owner[m] = c
    BY <1>2, <1>3, <1>5 DEF CustomerInv, c
  <2> QED
    BY <1>5, <2>1, <2>2, <2>3 DEF CustomerInv
<1>8. ASSUME NEW d \in Customers, d # c PROVE CustomerInv(d)'
  <2>1. CustomerInv(d)
    BY DEF IInv
  <2>2. \A m \in IdSet(pending[d]) : processedAt'[m] = Never
    BY <1>4, <2>1 DEF CustomerInv, Has
  <2>3. /\ pending'[d] = pending[d]
        /\ inFlight'[d] = inFlight[d]
        /\ inFlightMessageIds'[d] = inFlightMessageIds[d]
        /\ handed'[d] = handed[d]
    BY <1>2, <1>4, <1>8
  <2> QED
    BY <1>4, <2>1, <2>2, <2>3, Untouched
<1> QED
  BY <1>6, <1>7, <1>8 DEF IInv


\* complete() returns: the held ids become remembered ones, of this customer
\* only, and what waited, if anything, becomes the batch.
LEMMA CompleteInv ==
    ASSUME IInv, NEW c \in Customers, CompleteBatch(c)
    PROVE  IInv'
<1> DEFINE next == SortBySequence(pending[c])
<1>1. /\ TypeOK
      /\ pending \in [Customers -> Seq(Message)]
      /\ inFlight \in [Customers -> BOOLEAN]
      /\ inFlightMessageIds \in [Customers -> SUBSET MessageIds]
      /\ handed \in [Customers -> Seq(Message)]
      /\ recentlyProcessed \in [Customers -> Seq(MessageIds)]
      /\ pending[c] \in Seq(Message)
      /\ handed[c] \in Seq(Message)
      /\ CustomerInv(c)
  BY DEF IInv, TypeOK, QueueTypeOK
<1>2. /\ IdSet(handed[c]) \subseteq MessageIds
      /\ Trim(recentlyProcessed[c] \o Ids(handed[c])) \in Seq(MessageIds)
      /\ Len(Trim(recentlyProcessed[c] \o Ids(handed[c]))) <= MaxRecentlyProcessed
      /\ ToSet(Trim(recentlyProcessed[c] \o Ids(handed[c])))
            \subseteq ToSet(recentlyProcessed[c]) \cup IdSet(handed[c])
  BY <1>1, IdsProperties, PushProperties
<1>3. /\ next \in Seq(Message)
      /\ Distinct(next)
      /\ IdSet(next) = IdSet(pending[c])
      /\ next = <<>> <=> pending[c] = <<>>
      /\ \A i, j \in DOMAIN next : i < j =>
            SequenceOf[next[i].messageId] <= SequenceOf[next[j].messageId]
  BY <1>1, DrainedBatch DEF CustomerInv
<1>4. /\ recentlyProcessed' =
            [recentlyProcessed EXCEPT ![c] = Trim(recentlyProcessed[c] \o Ids(handed[c]))]
      /\ RecordAll(IdSet(handed[c]), TRUE)
      /\ handed' = [handed EXCEPT ![c] = next]
      /\ completedAt' = [m \in MessageIds |->
                           IF m \in IdSet(handed[c]) THEN clock ELSE completedAt[m]]
      /\ clock' = clock
  BY DEF CompleteBatch, Complete, PushRecent, NextBatch
<1>5. /\ processedAt' \in [MessageIds -> Nat \cup {Never}]
      /\ \A m \in MessageIds : m \notin IdSet(handed[c]) /\ ~Has(m) => processedAt'[m] = Never
  BY <1>1, <1>2, <1>4, RecordProperties
<1>6. IdSet(<<>>) = {} /\ Distinct(<<>>) /\ <<>> \in Seq(Message)
  BY EmptySeq DEF IdSet, Distinct
<1>7. /\ pending' = [pending EXCEPT ![c] = <<>>]
      /\ inFlight' = [inFlight EXCEPT ![c] = (next # <<>>)]
      /\ inFlightMessageIds' = [inFlightMessageIds EXCEPT ![c] = IdSet(next)]
  <2>1. CASE pending[c] = <<>>
    <3>1. next = <<>> /\ IdSet(next) = {}
      BY <1>3, <1>6, <2>1
    <3>2. /\ inFlight' = [inFlight EXCEPT ![c] = FALSE]
          /\ inFlightMessageIds' = [inFlightMessageIds EXCEPT ![c] = {}]
          /\ pending' = pending
      BY <2>1 DEF CompleteBatch, Complete
    <3>3. pending = [pending EXCEPT ![c] = <<>>]
      BY <1>1, <2>1
    <3>4. (next # <<>>) = FALSE
      BY <3>1
    <3> QED
      BY <3>1, <3>2, <3>3, <3>4
  <2>2. CASE pending[c] # <<>>
    <3>1. Drain(c, pending[c])
      BY <2>2 DEF CompleteBatch, Complete
    <3>2. (next # <<>>) = TRUE
      BY <1>3, <2>2
    <3> QED
      BY <3>1, <3>2 DEF Drain
  <2> QED
    BY <2>1, <2>2
<1> HIDE DEF next
<1>8. TypeOK'
  <2>1. IdSet(next) \in SUBSET MessageIds
    BY <1>3, IdsProperties
  <2>2. completedAt' \in [MessageIds -> Nat \cup {Never}]
    BY <1>1, <1>4 DEF TypeOK, StoreTypeOK
  <2>3. (next # <<>>) \in BOOLEAN
    OBVIOUS
  <2>4. \A d \in Customers : Len(recentlyProcessed'[d]) <= MaxRecentlyProcessed
    BY <1>1, <1>2, <1>4 DEF TypeOK, QueueTypeOK
  <2> QED
    BY <1>1, <1>2, <1>3, <1>4, <1>5, <1>6, <1>7, <2>1, <2>2, <2>3, <2>4
    DEF TypeOK, QueueTypeOK, StoreTypeOK
<1>9. CustomerInv(c)'
  <2>1. /\ pending'[c] = <<>>
        /\ inFlight'[c] = (next # <<>>)
        /\ inFlightMessageIds'[c] = IdSet(next)
        /\ handed'[c] = next
    BY <1>1, <1>4, <1>7
  <2>2. \A m \in IdSet(next) : Owner[m] = c
    BY <1>1, <1>3 DEF CustomerInv
  <2> QED
    BY <1>3, <1>6, <2>1, <2>2 DEF CustomerInv
<1>10. ASSUME NEW d \in Customers, d # c PROVE CustomerInv(d)'
  <2>1. CustomerInv(d) /\ pending[d] \in Seq(Message)
    BY <1>1 DEF IInv
  <2>2. \A m \in IdSet(pending[d]) : m \in MessageIds /\ Owner[m] = d /\ ~Has(m)
    BY <2>1, IdsProperties DEF CustomerInv
  <2>3. \A m \in IdSet(handed[c]) : Owner[m] = c
    BY <1>1 DEF CustomerInv
  <2>4. \A m \in IdSet(pending[d]) : processedAt'[m] = Never
    BY <1>5, <1>10, <2>2, <2>3
  <2>5. /\ pending'[d] = pending[d]
        /\ inFlight'[d] = inFlight[d]
        /\ inFlightMessageIds'[d] = inFlightMessageIds[d]
        /\ recentlyProcessed'[d] = recentlyProcessed[d]
        /\ handed'[d] = handed[d]
    BY <1>1, <1>4, <1>7, <1>10
  <2> QED
    BY <2>1, <2>4, <2>5, Untouched
<1> QED
  BY <1>8, <1>9, <1>10 DEF IInv

\* complete() throws: ids of the batch in flight may be remembered already,
\* none of a waiting message.
LEMMA FailsInv ==
    ASSUME IInv, NEW c \in Customers, CompleteFails(c)
    PROVE  IInv'
<1>1. /\ TypeOK
      /\ recentlyProcessed \in [Customers -> Seq(MessageIds)]
      /\ pending \in [Customers -> Seq(Message)]
      /\ handed[c] \in Seq(Message)
      /\ CustomerInv(c)
  BY DEF IInv, TypeOK, QueueTypeOK
<1>2. /\ IdSet(handed[c]) \subseteq MessageIds
      /\ Trim(recentlyProcessed[c] \o Ids(handed[c])) \in Seq(MessageIds)
      /\ Len(Trim(recentlyProcessed[c] \o Ids(handed[c]))) <= MaxRecentlyProcessed
      /\ ToSet(Trim(recentlyProcessed[c] \o Ids(handed[c])))
            \subseteq ToSet(recentlyProcessed[c]) \cup IdSet(handed[c])
  BY <1>1, IdsProperties, PushProperties
<1>3. /\ recentlyProcessed' =
            [recentlyProcessed EXCEPT ![c] = Trim(recentlyProcessed[c] \o Ids(handed[c]))]
      /\ UNCHANGED <<inFlight, inFlightMessageIds, pending, clock, handed, completedAt>>
  BY DEF CompleteFails, CompleteThrows, PushRecent
<1>4. PICK n \in 0..Len(handed[c]), purged \in BOOLEAN :
         RecordAll(IdSet(SubSeq(handed[c], 1, n)), purged)
  <2>1. PICK n \in 0..Len(handed[c]) :
           \/ RecordAll(IdSet(SubSeq(handed[c], 1, n)), n > 0)
           \/ RecordAll(IdSet(SubSeq(handed[c], 1, n)), n > 1)
    BY DEF CompleteFails, CompleteThrows
  <2>2. (n > 0) \in BOOLEAN /\ (n > 1) \in BOOLEAN
    OBVIOUS
  <2> QED
    BY <2>1, <2>2
<1>5. IdSet(SubSeq(handed[c], 1, n)) \subseteq IdSet(handed[c])
  BY <1>1, PrefixIds
<1>6. /\ processedAt' \in [MessageIds -> Nat \cup {Never}]
      /\ \A m \in MessageIds : m \notin IdSet(handed[c]) /\ ~Has(m) => processedAt'[m] = Never
  BY <1>1, <1>2, <1>4, <1>5, RecordProperties
<1>7. TypeOK'
  <2>1. \A d \in Customers : Len(recentlyProcessed'[d]) <= MaxRecentlyProcessed
    BY <1>1, <1>2, <1>3 DEF TypeOK, QueueTypeOK
  <2> QED
    BY <1>1, <1>2, <1>3, <1>6, <2>1 DEF TypeOK, QueueTypeOK, StoreTypeOK
<1>8. \A d \in Customers : \A m \in IdSet(pending[d]) : processedAt'[m] = Never
  <2> SUFFICES ASSUME NEW d \in Customers, NEW m \in IdSet(pending[d])
               PROVE  processedAt'[m] = Never
    OBVIOUS
  <2>1. CustomerInv(d) /\ pending[d] \in Seq(Message)
    BY <1>1 DEF IInv
  <2>2. m \in MessageIds /\ Owner[m] = d /\ ~Has(m)
    BY <2>1, IdsProperties DEF CustomerInv
  <2>3. m \notin IdSet(handed[c])
    <3>1. CASE d = c
      BY <1>1, <3>1 DEF CustomerInv
    <3>2. CASE d # c
      BY <1>1, <2>2, <3>2 DEF CustomerInv
    <3> QED
      BY <3>1, <3>2
  <2> QED
    BY <1>6, <2>2, <2>3
<1>9. CustomerInv(c)'
  <2>1. \A m \in IdSet(pending'[c]) :
           m \notin ToSet(recentlyProcessed'[c]) /\ ~(processedAt'[m] # Never)
    <3>1. recentlyProcessed'[c] = Trim(recentlyProcessed[c] \o Ids(handed[c]))
      BY <1>1, <1>3
    <3> QED
      BY <1>1, <1>2, <1>3, <1>8, <3>1 DEF CustomerInv
  <2> QED
    BY <1>1, <1>3, <2>1 DEF CustomerInv, Has
<1>10. ASSUME NEW d \in Customers, d # c PROVE CustomerInv(d)'
  <2>1. CustomerInv(d)
    BY DEF IInv
  <2>2. recentlyProcessed'[d] = recentlyProcessed[d]
    BY <1>1, <1>3, <1>10
  <2> QED
    BY <1>3, <1>8, <2>1, <2>2, Untouched
<1> QED
  BY <1>7, <1>9, <1>10 DEF IInv


LEMMA RestartInv == IInv /\ Restart => IInv'
<1> SUFFICES ASSUME IInv, Restart PROVE IInv'
  OBVIOUS
<1>1. TypeOK'
  <2>1. <<>> \in Seq(Message) /\ <<>> \in Seq(MessageIds)
    BY EmptySeq
  <2> QED
    BY <2>1, EmptyFits
    DEF IInv, TypeOK, QueueTypeOK, StoreTypeOK, storeVars, Restart, LoseQueues
<1>2. ASSUME NEW c \in Customers PROVE CustomerInv(c)'
  <2>1. /\ ~inFlight'[c]
        /\ inFlightMessageIds'[c] = {}
        /\ pending'[c] = <<>>
        /\ handed'[c] = <<>>
    BY DEF Restart, LoseQueues
  <2>2. IdSet(<<>>) = {} /\ Distinct(<<>>) /\ DOMAIN (<<>>) = {}
    BY DEF IdSet, Distinct
  <2> QED
    BY <2>1, <2>2 DEF CustomerInv
<1> QED
  BY <1>1, <1>2 DEF IInv

LEMMA TickInv == IInv /\ (Tick \/ UNCHANGED protocolVars) => IInv'
<1> SUFFICES ASSUME IInv, Tick \/ UNCHANGED protocolVars PROVE IInv'
  OBVIOUS
<1>1. /\ UNCHANGED <<inFlight, inFlightMessageIds, pending, recentlyProcessed,
                     processedAt, handed, completedAt>>
      /\ clock' = clock \/ clock' = clock + 1
  BY DEF Tick, protocolVars, queueVars, storeVars
<1>2. TypeOK'
  BY <1>1 DEF IInv, TypeOK, QueueTypeOK, StoreTypeOK
<1>3. ASSUME NEW c \in Customers PROVE CustomerInv(c)'
  <2>1. CustomerInv(c)
    BY DEF IInv
  <2>2. \A m \in IdSet(pending[c]) : processedAt'[m] = Never
    BY <1>1, <2>1 DEF CustomerInv, Has
  <2> QED
    BY <1>1, <2>1, <2>2, Untouched
<1> QED
  BY <1>2, <1>3 DEF IInv

\* The invariant is inductive: one case for every outcome of every call.
LEMMA NextInv == IInv /\ [Next]_protocolVars => IInv'
<1> SUFFICES ASSUME IInv, [Next]_protocolVars PROVE IInv'
  OBVIOUS
<1>1. ASSUME NEW message \in Message, Admit(message) PROVE IInv'
  <2>1. CASE AdmitDuplicate(message) /\ UNCHANGED <<handed, completedAt>>
    BY <2>1, TickInv DEF AdmitDuplicate, protocolVars
  <2>2. CASE AdmitQueued(message) /\ UNCHANGED <<handed, completedAt>>
    BY <2>2, QueuedInv
  <2>3. CASE /\ AdmitProcess(message)
             /\ handed' = [handed EXCEPT ![Owner[message.messageId]] = FirstBatch(message)]
             /\ UNCHANGED completedAt
    BY <2>3, ProcessInv
  <2> QED
    BY <1>1, <2>1, <2>2, <2>3 DEF Admit
<1>2. ASSUME NEW c \in Customers, CompleteBatch(c) PROVE IInv'
  BY <1>2, CompleteInv
<1>3. ASSUME NEW c \in Customers, CompleteFails(c) PROVE IInv'
  BY <1>3, FailsInv
<1>4. CASE Restart
  BY <1>4, RestartInv
<1>5. CASE Tick \/ UNCHANGED protocolVars
  BY <1>5, TickInv
<1> QED
  BY <1>1, <1>2, <1>3, <1>4, <1>5 DEF Next

-----------------------------------------------------------------------------
\* The inductive invariant holds of every reachable state.
THEOREM Invariance == Spec => []IInv
<1>1. Init => IInv
  BY InitInv
<1>2. IInv /\ [Next]_protocolVars => IInv'
  BY NextInv
<1> QED
  BY <1>1, <1>2, PTL DEF Spec

\* The state keeps its types: in particular every queue, batch and memory
\* holds messages and ids only.
THEOREM TypeCorrect == Spec => []TypeOK
<1>1. IInv => TypeOK
  BY DEF IInv
<1> QED
  BY <1>1, Invariance, PTL

\* What the debouncer calls in flight is the batch its caller holds.
THEOREM FlightCorrect == Spec => []FlightIsHeld
<1>1. IInv => FlightIsHeld
  BY DEF IInv, CustomerInv, FlightIsHeld
<1> QED
  BY <1>1, Invariance, PTL

\* Nothing waits for a customer who is not being served.
THEOREM NothingStranded == Spec => []NoStrandedWork
<1>1. IInv => NoStrandedWork
  BY DEF IInv, CustomerInv, NoStrandedWork
<1> QED
  BY <1>1, Invariance, PTL

\* Redeliveries and edits never give a message a second slot.
THEOREM SlotsCorrect == Spec => []OneSlotPerMessage
<1>1. ASSUME IInv, NEW c \in Customers
      PROVE  /\ IsInjective(Ids(pending[c] \o handed[c]))
             /\ \A m \in IdSet(pending[c] \o handed[c]) : Owner[m] = c
  <2>1. pending[c] \in Seq(Message) /\ handed[c] \in Seq(Message) /\ CustomerInv(c)
    BY <1>1 DEF IInv, TypeOK, QueueTypeOK
  <2> QED
    BY <2>1, SlotsOfBoth DEF CustomerInv
<1>2. IInv => OneSlotPerMessage
  BY <1>1 DEF OneSlotPerMessage
<1> QED
  BY <1>2, Invariance, PTL

\* Whatever the order of arrival, a batch is handed out in sequence order.
THEOREM BatchesInOrder == Spec => []HandedInOrder
<1>1. IInv => HandedInOrder
  BY DEF IInv, CustomerInv, HandedInOrder
<1> QED
  BY <1>1, Invariance, PTL

\* No waiting message is remembered as finished.
THEOREM WaitingIsUnfinished == Spec => []NothingFinishedWaits
<1>1. IInv => NothingFinishedWaits
  BY DEF IInv, CustomerInv, NothingFinishedWaits
<1> QED
  BY <1>1, Invariance, PTL

-----------------------------------------------------------------------------
\* With a store whose writes succeed, the debouncer remembers a finished message
\* for the whole retention period, and implements BatchContract.

\* What the two memories, the bounded one and the table, know: only completed
\* messages, all those completed within the retention period with the time
\* they were completed at, and none that is still with a caller.
MemoryInv ==
    /\ \A m \in MessageIds :
          /\ Has(m) => completedAt[m] # Never
          /\ completedAt[m] # Never /\ clock - completedAt[m] <= Retention
                => processedAt[m] = completedAt[m]
    /\ \A c \in Customers :
          /\ \A m \in ToSet(recentlyProcessed[c]) : completedAt[m] # Never
          /\ \A m \in IdSet(handed[c]) : ~Has(m)

ReliableStore == ~StoreMayFail

-----------------------------------------------------------------------------
LEMMA InitMemory == Init => MemoryInv
<1> SUFFICES ASSUME Init PROVE MemoryInv
  OBVIOUS
<1>1. \A m \in MessageIds : processedAt[m] = Never /\ completedAt[m] = Never
  BY DEF Init, StoreInit
<1>2. \A c \in Customers : recentlyProcessed[c] = <<>> /\ handed[c] = <<>>
  BY DEF Init, EmptyQueues
<1>3. IdSet(<<>>) = {} /\ ToSet(<<>>) = {}
  BY DEF IdSet, ToSet
<1> QED
  BY <1>1, <1>2, <1>3 DEF MemoryInv, Has

\* admit() changes neither memory, and refuses what they know.
LEMMA AdmitMemory ==
    ASSUME IInv, MemoryInv, NEW message \in Message, Admit(message)
    PROVE  MemoryInv'
<1> DEFINE c == Owner[message.messageId]
           put == Put(pending[c], message)
<1>1. /\ c \in Customers
      /\ pending[c] \in Seq(Message)
      /\ CustomerInv(c)
      /\ handed \in [Customers -> Seq(Message)]
  BY DebouncerAssumption DEF Message, IInv, TypeOK, QueueTypeOK
<1>2. UNCHANGED <<processedAt, clock, recentlyProcessed, completedAt>>
  BY DEF Admit, AdmitDuplicate, AdmitQueued, AdmitProcess, queueVars, storeVars
<1>3. \/ handed' = handed
      \/ /\ ~Has(message.messageId)
         /\ handed' = [handed EXCEPT ![c] = SortBySequence(put)]
  BY DEF Admit, AdmitProcess, IsDuplicate, FirstBatch
<1>4. IdSet(SortBySequence(put)) = IdSet(pending[c]) \cup {message.messageId}
  BY <1>1, PutProperties, SortKeepsIds
<1> HIDE DEF c, put
<1>5. ASSUME NEW d \in Customers, NEW m \in IdSet(handed'[d]) PROVE ~Has(m)
  <2>1. CASE handed' = handed
    BY <1>5, <2>1 DEF MemoryInv
  <2>2. CASE /\ ~Has(message.messageId)
             /\ handed' = [handed EXCEPT ![c] = SortBySequence(put)]
    <3>1. CASE d = c
      <4>1. handed'[d] = SortBySequence(put)
        BY <1>1, <2>2, <3>1
      <4> QED
        BY <1>1, <1>4, <1>5, <2>2, <4>1 DEF CustomerInv
    <3>2. CASE d # c
      <4>1. handed'[d] = handed[d]
        BY <1>1, <2>2, <3>2
      <4> QED
        BY <1>5, <4>1 DEF MemoryInv
    <3> QED
      BY <3>1, <3>2
  <2> QED
    BY <1>3, <2>1, <2>2
<1>6. \A d \in Customers : \A m \in IdSet(handed'[d]) : ~(processedAt'[m] # Never)
  BY <1>2, <1>5 DEF Has
<1> QED
  BY <1>2, <1>6 DEF MemoryInv, Has

\* complete() records the batch at the present time, which no purge removes
\* before the retention period is over.
LEMMA CompleteMemory ==
    ASSUME IInv, MemoryInv, NEW c \in Customers, CompleteBatch(c)
    PROVE  MemoryInv'
<1>1. /\ TypeOK
      /\ handed[c] \in Seq(Message)
      /\ handed \in [Customers -> Seq(Message)]
      /\ pending[c] \in Seq(Message)
      /\ recentlyProcessed \in [Customers -> Seq(MessageIds)]
      /\ recentlyProcessed[c] \in Seq(MessageIds)
      /\ processedAt \in [MessageIds -> Nat \cup {Never}]
      /\ completedAt \in [MessageIds -> Nat \cup {Never}]
      /\ clock \in Nat
      /\ CustomerInv(c)
  BY DEF IInv, TypeOK, QueueTypeOK, StoreTypeOK
<1>2. /\ recentlyProcessed' =
            [recentlyProcessed EXCEPT ![c] = Trim(recentlyProcessed[c] \o Ids(handed[c]))]
      /\ RecordAll(IdSet(handed[c]), TRUE)
      /\ handed' = [handed EXCEPT ![c] = SortBySequence(pending[c])]
      /\ completedAt' = [m \in MessageIds |->
                           IF m \in IdSet(handed[c]) THEN clock ELSE completedAt[m]]
      /\ clock' = clock
  BY DEF CompleteBatch, Complete, PushRecent, NextBatch
<1>3. \A m \in MessageIds :
         /\ m \in IdSet(handed[c]) => processedAt'[m] = clock /\ completedAt'[m] = clock
         /\ m \notin IdSet(handed[c]) =>
               /\ processedAt'[m] = IF Expired(m) THEN Never ELSE processedAt[m]
               /\ completedAt'[m] = completedAt[m]
  <2> SUFFICES ASSUME NEW m \in MessageIds
               PROVE  /\ m \in IdSet(handed[c]) =>
                            processedAt'[m] = clock /\ completedAt'[m] = clock
                      /\ m \notin IdSet(handed[c]) =>
                            /\ processedAt'[m] = IF Expired(m) THEN Never ELSE processedAt[m]
                            /\ completedAt'[m] = completedAt[m]
    OBVIOUS
  <2>1. m \in IdSet(handed[c]) => ~Has(m)
    BY DEF MemoryInv
  <2>2. completedAt'[m] = IF m \in IdSet(handed[c]) THEN clock ELSE completedAt[m]
    BY <1>2
  <2>3. processedAt'[m] = CASE m \in IdSet(handed[c]) /\ ~Has(m) -> clock
                            [] TRUE /\ Expired(m) -> Never
                            [] OTHER -> processedAt[m]
    BY <1>2 DEF RecordAll
  <2>4. Expired(m) => Has(m)
    BY DEF Expired
  <2> QED
    BY <2>1, <2>2, <2>3, <2>4
<1>4. /\ Never \notin Nat
      /\ \A m \in MessageIds : Expired(m) => processedAt[m] < clock - Retention
  BY DEF Never, Expired
<1>5. ASSUME NEW m \in MessageIds
      PROVE  /\ processedAt'[m] # Never => completedAt'[m] # Never
             /\ completedAt'[m] # Never /\ clock - completedAt'[m] <= Retention
                   => processedAt'[m] = completedAt'[m]
  <2>1. CASE m \in IdSet(handed[c])
    BY <1>1, <1>3, <1>4, <2>1
  <2>2. CASE m \notin IdSet(handed[c])
    <3>1. Has(m) => completedAt[m] # Never
      BY DEF MemoryInv
    <3>2. completedAt[m] # Never /\ clock - completedAt[m] <= Retention
             => processedAt[m] = completedAt[m]
      BY DEF MemoryInv
    <3>3. completedAt[m] \in Nat \cup {Never} /\ processedAt[m] \in Nat \cup {Never}
      BY <1>1
    <3> QED
      BY <1>1, <1>3, <1>4, <2>2, <3>1, <3>2, <3>3, RetentionAssumption DEF Has
  <2> QED
    BY <2>1, <2>2
<1>6. \A d \in Customers : \A m \in ToSet(recentlyProcessed[d]) : m \in MessageIds
  <2> SUFFICES ASSUME NEW d \in Customers, NEW m \in ToSet(recentlyProcessed[d])
               PROVE  m \in MessageIds
    OBVIOUS
  <2>1. recentlyProcessed[d] \in [1..Len(recentlyProcessed[d]) -> MessageIds]
    BY <1>1, LenProperties
  <2> QED
    BY <2>1 DEF ToSet
<1>7. ASSUME NEW d \in Customers, NEW m \in ToSet(recentlyProcessed'[d])
      PROVE  completedAt'[m] # Never
  <2>1. m \in ToSet(recentlyProcessed[d]) \/ m \in IdSet(handed[c])
    <3>1. CASE d = c
      <4>1. recentlyProcessed'[d] = Trim(recentlyProcessed[c] \o Ids(handed[c]))
        BY <1>1, <1>2, <3>1
      <4> QED
        BY <1>1, <1>7, <3>1, <4>1, PushProperties
    <3>2. CASE d # c
      <4>1. recentlyProcessed'[d] = recentlyProcessed[d]
        BY <1>1, <1>2, <3>2
      <4> QED
        BY <1>7, <4>1
    <3> QED
      BY <3>1, <3>2
  <2>2. m \in MessageIds
    BY <1>1, <1>6, <2>1, IdsProperties
  <2>3. m \in ToSet(recentlyProcessed[d]) => completedAt[m] # Never
    BY DEF MemoryInv
  <2> QED
    BY <1>1, <1>3, <1>4, <2>1, <2>2, <2>3
<1>8. ASSUME NEW d \in Customers, NEW m \in IdSet(handed'[d])
      PROVE  ~(processedAt'[m] # Never)
  <2>1. m \in MessageIds /\ ~Has(m) /\ m \notin IdSet(handed[c])
    <3>1. CASE d = c
      <4>1. handed'[d] = SortBySequence(pending[c])
        BY <1>1, <1>2, <3>1
      <4>2. m \in IdSet(pending[c])
        BY <1>1, <1>8, <4>1, SortKeepsIds
      <4> QED
        BY <1>1, <4>2, IdsProperties DEF CustomerInv
    <3>2. CASE d # c
      <4>1. handed'[d] = handed[d] /\ handed[d] \in Seq(Message)
        BY <1>1, <1>2, <3>2
      <4>2. m \in IdSet(handed[d]) /\ m \in MessageIds
        BY <1>8, <4>1, IdsProperties
      <4>3. CustomerInv(d)
        BY DEF IInv
      <4>4. Owner[m] = d
        BY <4>2, <4>3 DEF CustomerInv
      <4>5. m \notin IdSet(handed[c])
        BY <1>1, <3>2, <4>4 DEF CustomerInv
      <4> QED
        BY <4>2, <4>5 DEF MemoryInv
    <3> QED
      BY <3>1, <3>2
  <2> QED
    BY <1>3, <2>1 DEF Has
<1> QED
  BY <1>2, <1>5, <1>7, <1>8 DEF MemoryInv, Has

LEMMA RestartMemory == IInv /\ MemoryInv /\ Restart => MemoryInv'
<1> SUFFICES ASSUME MemoryInv, Restart PROVE MemoryInv'
  OBVIOUS
<1>1. \A c \in Customers : recentlyProcessed'[c] = <<>> /\ handed'[c] = <<>>
  BY DEF Restart, LoseQueues
<1>2. UNCHANGED <<processedAt, clock, completedAt>>
  BY DEF Restart, storeVars
<1>3. IdSet(<<>>) = {} /\ ToSet(<<>>) = {}
  BY DEF IdSet, ToSet
<1> QED
  BY <1>1, <1>2, <1>3 DEF MemoryInv, Has

LEMMA TickMemory == IInv /\ MemoryInv /\ (Tick \/ UNCHANGED protocolVars) => MemoryInv'
<1> SUFFICES ASSUME IInv, MemoryInv, Tick \/ UNCHANGED protocolVars PROVE MemoryInv'
  OBVIOUS
<1>1. /\ UNCHANGED <<recentlyProcessed, processedAt, handed, completedAt>>
      /\ clock' = clock \/ clock' = clock + 1
  BY DEF Tick, protocolVars, queueVars, storeVars
<1>2. clock \in Nat /\ completedAt \in [MessageIds -> Nat \cup {Never}]
  BY DEF IInv, TypeOK, StoreTypeOK
<1>3. ASSUME NEW m \in MessageIds,
             completedAt[m] # Never, clock' - completedAt[m] <= Retention
      PROVE  processedAt[m] = completedAt[m]
  <2>1. completedAt[m] \in Nat
    BY <1>2, <1>3
  <2>2. clock - completedAt[m] <= Retention
    BY <1>1, <1>2, <1>3, <2>1, RetentionAssumption
  <2> QED
    BY <1>3, <2>2 DEF MemoryInv
<1> QED
  BY <1>1, <1>3 DEF MemoryInv, Has

\* With a reliable store what the memories know is an invariant.
THEOREM MemoryInvariance ==
    ASSUME ReliableStore
    PROVE  Spec => []MemoryInv
<1>1. Init => MemoryInv
  BY InitMemory
<1>2. IInv /\ MemoryInv /\ [Next]_protocolVars => MemoryInv'
  <2> SUFFICES ASSUME IInv, MemoryInv, [Next]_protocolVars PROVE MemoryInv'
    OBVIOUS
  <2>1. ASSUME NEW message \in Message, Admit(message) PROVE MemoryInv'
    BY <2>1, AdmitMemory
  <2>2. ASSUME NEW c \in Customers, CompleteBatch(c) PROVE MemoryInv'
    BY <2>2, CompleteMemory
  <2>3. \A c \in Customers : ~CompleteFails(c)
    BY DEF ReliableStore, CompleteFails
  <2>4. CASE Restart
    BY <2>4, RestartMemory
  <2>5. CASE Tick \/ UNCHANGED protocolVars
    BY <2>5, TickMemory
  <2> QED
    BY <2>1, <2>2, <2>3, <2>4, <2>5 DEF Next
<1> QED
  BY <1>1, <1>2, Invariance, PTL DEF Spec

\* A completed message is refused for the whole retention period, across
\* evictions from the bounded memory, purges of the table and restarts.
THEOREM Remembered ==
    ASSUME ReliableStore
    PROVE  Spec => []RememberedForRetention
<1>1. MemoryInv => RememberedForRetention
  BY DEF MemoryInv, RememberedForRetention, Has
<1> QED
  BY <1>1, MemoryInvariance, PTL

-----------------------------------------------------------------------------
\* The debouncer knows the message as a finished one.
Remembers(m) == Has(m) \/ m \in ToSet(recentlyProcessed[Owner[m]])

\* The phase of a message is decided by the batch that is held, the queue and
\* the memories, and a waiting message is in no other of them.
LEMMA PhaseNow ==
    ASSUME IInv, NEW m \in MessageIds
    PROVE  /\ Phase(m) = IF m \in IdSet(handed[Owner[m]]) THEN "handed"
                         ELSE IF m \in IdSet(pending[Owner[m]]) THEN "waiting"
                         ELSE IF Remembers(m) THEN "done" ELSE "new"
           /\ m \in IdSet(pending[Owner[m]]) =>
                 m \notin IdSet(handed[Owner[m]]) /\ ~Remembers(m)
<1>1. Owner[m] \in Customers
  BY DebouncerAssumption
<1>2. CustomerInv(Owner[m])
  BY <1>1 DEF IInv
<1>3. /\ inFlightMessageIds[Owner[m]] = IdSet(handed[Owner[m]])
      /\ m \in IdSet(pending[Owner[m]]) =>
            m \notin IdSet(handed[Owner[m]]) /\ ~Remembers(m)
  BY <1>2 DEF CustomerInv, Remembers
<1> QED
  BY <1>3 DEF Phase, Remembers

\* The same of the state a step leads to.
LEMMA PhaseNext ==
    ASSUME IInv', NEW m \in MessageIds
    PROVE  Phase(m)' = IF m \in IdSet(handed'[Owner[m]]) THEN "handed"
                       ELSE IF m \in IdSet(pending'[Owner[m]]) THEN "waiting"
                       ELSE IF Remembers(m)' THEN "done" ELSE "new"
<1>1. Owner[m] \in Customers
  BY DebouncerAssumption
<1>2. CustomerInv(Owner[m])'
  BY <1>1 DEF IInv
<1>3. inFlightMessageIds'[Owner[m]] = IdSet(handed'[Owner[m]])
  BY <1>2 DEF CustomerInv
<1> QED
  BY <1>3 DEF Phase, Remembers

\* The messages the contract calls handed or waiting are those of the batch
\* and of the queue.
LEMMA ThoseOf ==
    ASSUME IInv, NEW c \in Customers
    PROVE  /\ Contract!Those(c, "handed") = IdSet(handed[c])
           /\ Contract!Those(c, "waiting") = IdSet(pending[c])
           /\ \A m \in IdSet(handed[c]) \cup IdSet(pending[c]) :
                 m \in MessageIds /\ Owner[m] = c
<1>1. /\ CustomerInv(c)
      /\ handed[c] \in Seq(Message)
      /\ pending[c] \in Seq(Message)
  BY DEF IInv, TypeOK, QueueTypeOK
<1>2. \A m \in IdSet(handed[c]) \cup IdSet(pending[c]) : m \in MessageIds /\ Owner[m] = c
  BY <1>1, IdsProperties DEF CustomerInv
<1>3. \A m \in MessageIds : Owner[m] = c =>
         /\ Phase(m) = "handed" <=> m \in IdSet(handed[c])
         /\ Phase(m) = "waiting" <=> m \in IdSet(pending[c])
  BY PhaseNow
<1> QED
  BY <1>2, <1>3 DEF Contract!Those

\* Only what was completed longer than Retention ago drops out of the table.
LEMMA ForgottenIsOld ==
    ASSUME IInv, MemoryInv, MemoryInv', NEW m \in MessageIds,
           Phase(m) = "done", ~(processedAt'[m] # Never),
           clock' = clock, completedAt'[m] = completedAt[m]
    PROVE  m \in Contract!Forgettable
<1>1. /\ clock \in Nat
      /\ completedAt[m] \in Nat \cup {Never}
  BY DEF IInv, TypeOK, StoreTypeOK
<1>2. Remembers(m) /\ Owner[m] \in Customers
  BY PhaseNow, DebouncerAssumption
<1>3. completedAt[m] # Never
  BY <1>2 DEF Remembers, MemoryInv
<1>4. ~(clock - completedAt[m] <= Retention)
  BY <1>3 DEF MemoryInv
<1>5. clock - completedAt[m] > Retention
  BY <1>1, <1>3, <1>4, RetentionAssumption
<1> QED
  BY <1>3, <1>5 DEF Contract!Forgettable

-----------------------------------------------------------------------------
LEMMA InitRefines == Init => Contract!Init
<1> SUFFICES ASSUME Init PROVE Contract!Init
  OBVIOUS
<1>1. \A c \in Customers : /\ inFlightMessageIds[c] = {}
                           /\ pending[c] = <<>>
                           /\ recentlyProcessed[c] = <<>>
  BY DEF Init, EmptyQueues
<1>2. clock = 0 /\ \A m \in MessageIds : processedAt[m] = Never /\ completedAt[m] = Never
  BY DEF Init, StoreInit
<1>3. IdSet(<<>>) = {} /\ ToSet(<<>>) = {}
  BY DEF IdSet, ToSet
<1>4. \A m \in MessageIds : Phase(m) = "new"
  <2> SUFFICES ASSUME NEW m \in MessageIds PROVE Phase(m) = "new"
    OBVIOUS
  <2>1. Owner[m] \in Customers
    BY DebouncerAssumption
  <2> QED
    BY <1>1, <1>2, <1>3, <2>1 DEF Phase, Has
<1> QED
  BY <1>2, <1>4 DEF Contract!Init

\* admit() accepts a new message, or changes nothing the contract sees: a
\* duplicate, or new content for a message that is waiting.
LEMMA AdmitRefines ==
    ASSUME IInv, IInv', NEW message \in Message, Admit(message)
    PROVE  [Contract!Next]_Contract!contractVars
<1> DEFINE n == message.messageId
           c == Owner[n]
           put == Put(pending[c], message)
<1>1. /\ n \in MessageIds
      /\ c \in Customers
      /\ pending[c] \in Seq(Message)
      /\ pending \in [Customers -> Seq(Message)]
      /\ handed \in [Customers -> Seq(Message)]
      /\ CustomerInv(c)
  BY DebouncerAssumption DEF Message, IInv, TypeOK, QueueTypeOK
<1>2. /\ IdSet(put) = IdSet(pending[c]) \cup {n}
      /\ put \in Seq(Message)
  BY <1>1, PutProperties
<1>3. UNCHANGED <<processedAt, clock, recentlyProcessed, completedAt>>
  BY DEF Admit, AdmitDuplicate, AdmitQueued, AdmitProcess, queueVars, storeVars
<1>4. \A m \in MessageIds : Remembers(m)' <=> Remembers(m)
  BY <1>3 DEF Remembers, Has
<1>5. CASE AdmitDuplicate(message) /\ UNCHANGED <<handed, completedAt>>
  <2>1. \A m \in MessageIds : Phase(m)' = Phase(m)
    BY <1>5 DEF AdmitDuplicate, queueVars, storeVars, Phase, Has
  <2> QED
    BY <1>3, <2>1 DEF Contract!contractVars
<1>6. ~IsDuplicate(n) => ~Remembers(n) /\ n \notin IdSet(handed[c])
  BY <1>1 DEF IsDuplicate, InMemory, Remembers, CustomerInv
<1>7. CASE AdmitQueued(message) /\ UNCHANGED <<handed, completedAt>>
  <2>1. pending' = [pending EXCEPT ![c] = put] /\ handed' = handed /\ inFlight[c]
    BY <1>7 DEF AdmitQueued
  <2>2. ~Remembers(n) /\ n \notin IdSet(handed[c])
    BY <1>6, <1>7 DEF AdmitQueued
  <2>3. Contract!Those(c, "handed") # {}
    BY <1>1, <2>1, ThoseOf, IdsProperties DEF CustomerInv
  <2>4. \A m \in MessageIds : Phase(m)' = IF m = n THEN "waiting" ELSE Phase(m)
    <3> SUFFICES ASSUME NEW m \in MessageIds
                 PROVE  Phase(m)' = IF m = n THEN "waiting" ELSE Phase(m)
      OBVIOUS
    <3>1. Owner[m] \in Customers
      BY DebouncerAssumption
    <3>2. m \in IdSet(pending'[Owner[m]]) <=> m = n \/ m \in IdSet(pending[Owner[m]])
      <4>1. CASE Owner[m] = c
        BY <1>1, <1>2, <2>1, <4>1
      <4>2. CASE Owner[m] # c
        BY <1>1, <2>1, <3>1, <4>2
      <4> QED
        BY <4>1, <4>2
    <3> QED
      BY <1>4, <2>1, <2>2, <3>2, PhaseNow, PhaseNext
  <2>5. CASE n \in IdSet(pending[c])
    <3>1. Phase(n) = "waiting"
      BY <1>1, <2>5, PhaseNow
    <3>2. \A m \in MessageIds : Phase(m)' = Phase(m)
      BY <2>4, <3>1
    <3> QED
      BY <1>3, <3>2 DEF Contract!contractVars
  <2>6. CASE n \notin IdSet(pending[c])
    <3>1. Phase(n) = "new"
      BY <1>1, <2>2, <2>6, PhaseNow
    <3>2. Contract!Accept(n)
      BY <1>1, <1>3, <2>3, <2>4, <3>1 DEF Contract!Accept
    <3> QED
      BY <1>1, <3>2 DEF Contract!Next
  <2> QED
    BY <2>5, <2>6
<1>8. CASE /\ AdmitProcess(message)
           /\ handed' = [handed EXCEPT ![Owner[message.messageId]] = FirstBatch(message)]
           /\ UNCHANGED completedAt
  <2>1. /\ pending' = [pending EXCEPT ![c] = <<>>]
        /\ handed' = [handed EXCEPT ![c] = SortBySequence(put)]
        /\ ~inFlight[c]
    BY <1>8 DEF AdmitProcess, Drain, FirstBatch
  <2>2. ~Remembers(n) /\ n \notin IdSet(handed[c])
    BY <1>6, <1>8 DEF AdmitProcess
  <2>3. handed[c] = <<>> /\ pending[c] = <<>> /\ IdSet(<<>>) = {}
    BY <1>1, <2>1 DEF CustomerInv, IdSet
  <2>4. Contract!Those(c, "handed") = {}
    BY <1>1, <2>3, ThoseOf
  <2>5. IdSet(SortBySequence(put)) = {n}
    BY <1>2, <2>3, SortKeepsIds
  <2> HIDE DEF put
  <2>6. \A m \in MessageIds : Phase(m)' = IF m = n THEN "handed" ELSE Phase(m)
    <3> SUFFICES ASSUME NEW m \in MessageIds
                 PROVE  Phase(m)' = IF m = n THEN "handed" ELSE Phase(m)
      OBVIOUS
    <3>1. Owner[m] \in Customers
      BY DebouncerAssumption
    <3>2. /\ m \in IdSet(pending'[Owner[m]]) <=> m \in IdSet(pending[Owner[m]])
          /\ m \in IdSet(handed'[Owner[m]]) <=> m = n \/ m \in IdSet(handed[Owner[m]])
      <4>1. CASE Owner[m] = c
        BY <1>1, <2>1, <2>3, <2>5, <4>1
      <4>2. CASE Owner[m] # c
        BY <1>1, <2>1, <3>1, <4>2
      <4> QED
        BY <4>1, <4>2
    <3> QED
      BY <1>4, <3>2, PhaseNow, PhaseNext
  <2>7. Phase(n) = "new"
    BY <1>1, <2>2, <2>3, PhaseNow
  <2>8. Contract!Accept(n)
    BY <1>1, <1>3, <2>4, <2>6, <2>7 DEF Contract!Accept
  <2> QED
    BY <1>1, <2>8 DEF Contract!Next
<1> QED
  BY <1>5, <1>7, <1>8 DEF Admit

\* complete() settles the batch, and forgets old messages only.
LEMMA CompleteRefines ==
    ASSUME IInv, IInv', MemoryInv, MemoryInv', NEW c \in Customers, CompleteBatch(c)
    PROVE  Contract!Settle(c)
<1>1. /\ handed \in [Customers -> Seq(Message)]
      /\ pending \in [Customers -> Seq(Message)]
      /\ recentlyProcessed \in [Customers -> Seq(MessageIds)]
      /\ handed[c] \in Seq(Message)
      /\ pending[c] \in Seq(Message)
      /\ recentlyProcessed[c] \in Seq(MessageIds)
      /\ CustomerInv(c)
      /\ clock \in Nat
  BY DEF IInv, TypeOK, QueueTypeOK, StoreTypeOK
<1>2. /\ recentlyProcessed' =
            [recentlyProcessed EXCEPT ![c] = Trim(recentlyProcessed[c] \o Ids(handed[c]))]
      /\ RecordAll(IdSet(handed[c]), TRUE)
      /\ handed' = [handed EXCEPT ![c] = SortBySequence(pending[c])]
      /\ completedAt' = [m \in MessageIds |->
                           IF m \in IdSet(handed[c]) THEN clock ELSE completedAt[m]]
      /\ clock' = clock
      /\ handed[c] # <<>>
  BY DEF CompleteBatch, Complete, PushRecent, NextBatch
<1>3. pending' = [pending EXCEPT ![c] = <<>>]
  BY <1>1 DEF CompleteBatch, Complete, Drain
<1>4. /\ Contract!Those(c, "handed") = IdSet(handed[c])
      /\ Contract!Those(c, "waiting") = IdSet(pending[c])
      /\ \A m \in IdSet(handed[c]) \cup IdSet(pending[c]) : m \in MessageIds /\ Owner[m] = c
      /\ IdSet(handed[c]) # {}
  BY <1>1, <1>2, ThoseOf, IdsProperties
<1>5. /\ IdSet(SortBySequence(pending[c])) = IdSet(pending[c])
      /\ ToSet(Trim(recentlyProcessed[c] \o Ids(handed[c])))
            \subseteq ToSet(recentlyProcessed[c]) \cup IdSet(handed[c])
      /\ IdSet(<<>>) = {}
  <2>1. IdSet(<<>>) = {}
    BY DEF IdSet
  <2> QED
    BY <1>1, <2>1, SortKeepsIds, PushProperties
<1>6. ASSUME NEW m \in MessageIds
      PROVE  /\ m \in IdSet(pending'[Owner[m]]) <=>
                    Owner[m] # c /\ m \in IdSet(pending[Owner[m]])
             /\ m \in IdSet(handed'[Owner[m]]) <=>
                    IF Owner[m] = c THEN m \in IdSet(pending[c])
                    ELSE m \in IdSet(handed[Owner[m]])
             /\ m \notin IdSet(handed[c]) => (Remembers(m)' => Remembers(m))
             /\ m \in IdSet(handed[c]) => Remembers(m)'
  <2>1. Owner[m] \in Customers
    BY DebouncerAssumption
  <2>2. m \in IdSet(handed[c]) => processedAt'[m] # Never
    <3>1. m \in IdSet(handed[c]) => ~Has(m)
      BY DEF MemoryInv
    <3>2. clock # Never
      BY <1>1 DEF Never
    <3>3. m \in IdSet(handed[c]) => processedAt'[m] = clock
      BY <1>2, <3>1 DEF RecordAll, Expired
    <3> QED
      BY <3>2, <3>3
  <2>3. m \notin IdSet(handed[c]) => (processedAt'[m] # Never => processedAt[m] # Never)
    BY <1>2 DEF RecordAll
  <2>4. CASE Owner[m] = c
    <3>1. /\ pending'[Owner[m]] = <<>>
          /\ handed'[Owner[m]] = SortBySequence(pending[c])
          /\ recentlyProcessed'[Owner[m]] = Trim(recentlyProcessed[c] \o Ids(handed[c]))
      BY <1>1, <1>2, <1>3, <2>4
    <3> QED
      BY <1>5, <2>2, <2>3, <2>4, <3>1 DEF Remembers, Has
  <2>5. CASE Owner[m] # c
    <3>1. /\ pending'[Owner[m]] = pending[Owner[m]]
          /\ handed'[Owner[m]] = handed[Owner[m]]
          /\ recentlyProcessed'[Owner[m]] = recentlyProcessed[Owner[m]]
      BY <1>1, <1>2, <1>3, <2>1, <2>5
    <3> QED
      BY <2>2, <2>3, <2>5, <3>1 DEF Remembers, Has
  <2> QED
    BY <2>4, <2>5
<1> DEFINE forgotten == {m \in MessageIds : Phase(m) = "done" /\ Phase(m)' = "new"}
<1>7. forgotten \in SUBSET Contract!Forgettable
  <2> SUFFICES ASSUME NEW m \in MessageIds, Phase(m) = "done", Phase(m)' = "new"
               PROVE  m \in Contract!Forgettable
    OBVIOUS
  <2>1. ~Remembers(m)'
    BY PhaseNext
  <2>2. m \notin IdSet(handed[c])
    BY <1>6, <2>1
  <2>3. completedAt'[m] = completedAt[m] /\ ~(processedAt'[m] # Never)
    BY <1>2, <2>1, <2>2 DEF Remembers, Has
  <2> QED
    BY <1>2, <2>3, ForgottenIsOld
<1>8. ASSUME NEW m \in MessageIds
      PROVE  Phase(m)' = CASE m \in IdSet(handed[c])  -> "done"
                           [] m \in IdSet(pending[c]) -> "handed"
                           [] m \in forgotten         -> "new"
                           [] OTHER                   -> Phase(m)
  <2>1. CASE m \in IdSet(handed[c])
    <3>1. Owner[m] = c /\ m \notin IdSet(pending[c])
      BY <1>1, <1>4, <2>1 DEF CustomerInv
    <3>2. Phase(m)' = "done" /\ Phase(m) # "done"
      BY <1>6, <2>1, <3>1, PhaseNow, PhaseNext
    <3> QED
      BY <2>1, <3>1, <3>2
  <2>2. CASE m \in IdSet(pending[c])
    <3>1. Owner[m] = c /\ m \notin IdSet(handed[c])
      BY <1>1, <1>4, <2>2 DEF CustomerInv
    <3>2. Phase(m)' = "handed" /\ Phase(m) # "done"
      BY <1>6, <2>2, <3>1, PhaseNow, PhaseNext
    <3> QED
      BY <2>2, <3>1, <3>2
  <2>3. CASE m \notin IdSet(handed[c]) /\ m \notin IdSet(pending[c])
    <3>1. Owner[m] = c => m \notin IdSet(handed[Owner[m]]) /\ m \notin IdSet(pending[Owner[m]])
      BY <2>3
    <3>2. m \notin forgotten => Phase(m)' = Phase(m)
      BY <1>6, <2>3, <3>1, PhaseNow, PhaseNext
    <3>3. m \in forgotten => Phase(m)' = "new"
      OBVIOUS
    <3> HIDE DEF forgotten
    <3> QED
      BY <2>3, <3>2, <3>3
  <2> QED
    BY <2>1, <2>2, <2>3
<1> HIDE DEF forgotten
<1>9. \A m \in MessageIds :
         (IF completedAt'[m] = Never THEN 0 ELSE completedAt'[m]) =
            IF m \in IdSet(handed[c]) THEN clock
            ELSE IF completedAt[m] = Never THEN 0 ELSE completedAt[m]
  <2>1. clock # Never
    BY <1>1 DEF Never
  <2> QED
    BY <1>2, <2>1
<1> QED
  BY <1>2, <1>4, <1>7, <1>8, <1>9 DEF Contract!Settle

\* A restart makes all unfinished work new and forgets old messages only.
LEMMA RestartRefines ==
    ASSUME IInv, IInv', MemoryInv, MemoryInv', Restart
    PROVE  Contract!Restart
<1>1. /\ UNCHANGED <<processedAt, clock, completedAt>>
      /\ \A d \in Customers : /\ pending'[d] = <<>>
                              /\ handed'[d] = <<>>
                              /\ recentlyProcessed'[d] = <<>>
  BY DEF Restart, LoseQueues, storeVars
<1>2. IdSet(<<>>) = {} /\ ToSet(<<>>) = {}
  BY DEF IdSet, ToSet
<1>3. \A m \in MessageIds : Phase(m)' = IF Has(m) THEN "done" ELSE "new"
  <2> SUFFICES ASSUME NEW m \in MessageIds PROVE Phase(m)' = IF Has(m) THEN "done" ELSE "new"
    OBVIOUS
  <2>1. Owner[m] \in Customers
    BY DebouncerAssumption
  <2> QED
    BY <1>1, <1>2, <2>1, PhaseNext DEF Remembers, Has
<1>4. \A m \in MessageIds : Phase(m) \in {"waiting", "handed"} => ~Has(m)
  <2> SUFFICES ASSUME NEW m \in MessageIds, Phase(m) \in {"waiting", "handed"} PROVE ~Has(m)
    OBVIOUS
  <2>1. Owner[m] \in Customers
    BY DebouncerAssumption
  <2>2. CASE m \in IdSet(handed[Owner[m]])
    BY <2>1, <2>2 DEF MemoryInv
  <2>3. CASE m \in IdSet(pending[Owner[m]])
    BY <2>3, PhaseNow DEF Remembers
  <2> QED
    BY <2>2, <2>3, PhaseNow
<1> DEFINE forgotten == {m \in MessageIds : Phase(m) = "done" /\ ~Has(m)}
<1>5. forgotten \in SUBSET Contract!Forgettable
  BY <1>1, ForgottenIsOld DEF Has
<1>6. ASSUME NEW m \in MessageIds
      PROVE  Phase(m)' = IF Phase(m) \in {"waiting", "handed"} \/ m \in forgotten
                         THEN "new" ELSE Phase(m)
  <2>1. Has(m) => Phase(m) = "done"
    BY <1>4, PhaseNow DEF Remembers
  <2>2. Phase(m) \in {"waiting", "handed", "done", "new"}
    BY PhaseNow
  <2> QED
    BY <1>3, <1>4, <2>1, <2>2
<1> HIDE DEF forgotten
<1> QED
  BY <1>1, <1>5, <1>6 DEF Contract!Restart

\* The passing of time is seen by the contract as just that.
LEMMA TickRefines ==
    ASSUME IInv, Tick \/ UNCHANGED protocolVars
    PROVE  [Contract!Next]_Contract!contractVars
<1>1. /\ UNCHANGED <<inFlightMessageIds, pending, recentlyProcessed, processedAt, completedAt>>
      /\ clock' = clock \/ clock' = clock + 1
  BY DEF Tick, protocolVars, queueVars, storeVars
<1>2. \A m \in MessageIds : Phase(m)' = Phase(m)
  BY <1>1 DEF Phase, Has
<1>3. CASE clock' = clock
  BY <1>1, <1>2, <1>3 DEF Contract!contractVars
<1>4. CASE clock' = clock + 1
  <2>1. Contract!Tick
    BY <1>1, <1>2, <1>4 DEF Contract!Tick
  <2> QED
    BY <2>1 DEF Contract!Next
<1> QED
  BY <1>1, <1>3, <1>4

\* With a reliable store the debouncer, used by its protocol, implements the
\* contract: no message is handled twice within the retention period, waits
\* while its customer is idle, or is lost but by a restart.
THEOREM Refinement ==
    ASSUME ReliableStore
    PROVE  Spec => ImplementsContract
<1>1. Init => Contract!Init
  BY InitRefines
<1>2. IInv /\ IInv' /\ MemoryInv /\ MemoryInv' /\ [Next]_protocolVars
         => [Contract!Next]_Contract!contractVars
  <2> SUFFICES ASSUME IInv, IInv', MemoryInv, MemoryInv', [Next]_protocolVars
               PROVE  [Contract!Next]_Contract!contractVars
    OBVIOUS
  <2>1. ASSUME NEW message \in Message, Admit(message)
        PROVE  [Contract!Next]_Contract!contractVars
    BY <2>1, AdmitRefines
  <2>2. ASSUME NEW c \in Customers, CompleteBatch(c)
        PROVE  [Contract!Next]_Contract!contractVars
    BY <2>2, CompleteRefines DEF Contract!Next
  <2>3. \A c \in Customers : ~CompleteFails(c)
    BY DEF ReliableStore, CompleteFails
  <2>4. CASE Restart
    BY <2>4, RestartRefines DEF Contract!Next
  <2>5. CASE Tick \/ UNCHANGED protocolVars
    BY <2>5, TickRefines
  <2> QED
    BY <2>1, <2>2, <2>3, <2>4, <2>5 DEF Next
<1> QED
  BY <1>1, <1>2, Invariance, MemoryInvariance, PTL DEF Spec, ImplementsContract, Contract!Spec
=============================================================================

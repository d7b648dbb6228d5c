---------------------------- MODULE DispatchProofs ----------------------------
(***************************************************************************)
(* Proofs about Dispatch for any number of tasks, customers and messages,  *)
(* any updates and any moments.  Unless a theorem says otherwise, reads    *)
(* and writes of the store may fail at any time and the process may crash. *)
(***************************************************************************)
EXTENDS Dispatch, BatchOrderProofs

\* isWithinWorkingHours in businessHours.ts is the rule it stands for: Monday to
\* Friday, from 10:00 up to and without 18:00 in Tashkent, at every millisecond.
THEOREM HoursAreKept ==
    ASSUME NEW moment \in Nat
    PROVE  isWithinWorkingHours(moment) <=> StaffAtDesk(moment)
BY SMT DEF isWithinWorkingHours, StaffAtDesk, isWeekday, UTCDay, UTCHours, FirstMorning,
      OpeningHour, ClosingHour, TashkentUtcOffsetHours, MsPerHour, MsPerDay, MsPerWeek

-----------------------------------------------------------------------------
\* Synchronous code is the work of one task at a time.
OneMover == \A t, u \in Tasks : Synchronous(t) /\ Synchronous(u) => t = u

\* What is in flight or waits for a customer is the customer's own.  Nothing
\* waits for an idle customer, nothing waits that is in flight or recorded.
QueueInv(c) ==
    /\ pending[c] # <<>> => inFlight[c]
    /\ \A m \in inFlightMessageIds[c] : Owner[m] = c
    /\ \A m \in IdSet(pending[c]) :
          Owner[m] = c /\ m \notin inFlightMessageIds[c] /\ ~Has(m)

\* The batch of a task is what its customer's queue calls in flight.
BatchInv(t) ==
    Holds(t) => /\ batch[t] # <<>>
                /\ inFlight[CustomerOf(t)]
                /\ inFlightMessageIds[CustomerOf(t)] = IdSet(batch[t])

\* Every message of a queue arrived with staff at their desks.
Staffed(queue) == \A i \in DOMAIN queue : queue[i].payload.staffed

\* A task that has events to admit has one; those of a staff task arrived
\* with staff at their desks, and so did its batch, behind which nothing waits.
TaskInv(t) ==
    /\ pc[t] = "admit" => events[t] # <<>>
    /\ handler[t] = "staff" =>
          /\ Staffed(events[t])
          /\ pc[t] = "handle" => pending[CustomerOf(t)] = <<>> /\ Staffed(batch[t])

\* The table knows of a message in a batch only what a complete() of this very
\* instant has written before it threw.
BatchMemory(t) ==
    Holds(t) => \A m \in IdSet(batch[t]) :
                   Has(m) => pc[t] = "flush" /\ processedAt[m] = clock

\* The table knows every message completed within the retention period.
TableMemory ==
    \A m \in MessageIds :
       completedAt[m] # Never /\ clock - completedAt[m] <= Retention
          => processedAt[m] = completedAt[m]

IInv ==
    /\ TypeOK
    /\ OneMover
    /\ OneHandlerPerCustomer
    /\ \A c \in Customers : QueueInv(c)
    /\ \A t \in Tasks : BatchInv(t) /\ TaskInv(t) /\ BatchMemory(t)
    /\ TableMemory

-----------------------------------------------------------------------------
\* A step of task t leaves the other tasks where they are.
OthersKept(t) ==
    \A u \in Tasks : u # t =>
       /\ pc'[u] = pc[u] /\ events'[u] = events[u]
       /\ handler'[u] = handler[u] /\ batch'[u] = batch[u]

TaskTypeOK ==
    /\ pc \in [Tasks -> {"idle", "admit", "handle", "flush"}]
    /\ events \in [Tasks -> Seq(Message)]
    /\ handler \in [Tasks -> {"none", "agent", "staff", "redirect"}]
    /\ batch \in [Tasks -> Seq(Message)]

\* What Become does to its task, and that it does it to no other.
LEMMA BecomeProperties ==
    ASSUME TaskTypeOK, NEW t \in Tasks,
           NEW where \in {"idle", "admit", "handle", "flush"},
           NEW rest \in Seq(Message), NEW work \in Seq(Message),
           Become(t, where, rest, work)
    PROVE  /\ TaskTypeOK'
           /\ OthersKept(t)
           /\ pc'[t] = where /\ events'[t] = rest /\ batch'[t] = work
           /\ handler'[t] = IF where = "idle" THEN "none" ELSE handler[t]
<1>1. /\ pc' = [pc EXCEPT ![t] = where]
      /\ events' = [events EXCEPT ![t] = rest]
      /\ batch' = [batch EXCEPT ![t] = work]
      /\ handler' = [handler EXCEPT ![t] = IF where = "idle" THEN "none" ELSE handler[t]]
  BY DEF Become, TaskTypeOK
<1>2. (IF where = "idle" THEN "none" ELSE handler[t]) \in {"none", "agent", "staff", "redirect"}
  BY DEF TaskTypeOK
<1>3. TaskTypeOK'
  BY <1>1, <1>2 DEF TaskTypeOK
<1>4. OthersKept(t)
  BY <1>1 DEF TaskTypeOK, OthersKept
<1> QED
  BY <1>1, <1>3, <1>4 DEF TaskTypeOK

\* A task that advances is idle or has an event left to admit.
LEMMA AdvanceProperties ==
    ASSUME TaskTypeOK, NEW t \in Tasks, NEW rest \in Seq(Message),
           Advance(t, rest) \/ (rest = <<>> /\ Abort(t))
    PROVE  /\ TaskTypeOK'
           /\ OthersKept(t)
           /\ pc'[t] \in {"idle", "admit"}
           /\ pc'[t] = "admit" => events'[t] # <<>>
           /\ events'[t] = rest
           /\ handler'[t] \in {"none", handler[t]}
<1>1. <<>> \in Seq(Message)
  BY EmptySeq
<1>2. CASE Advance(t, rest)
  BY <1>1, <1>2, BecomeProperties DEF Advance
<1>3. CASE rest = <<>> /\ Abort(t)
  BY <1>1, <1>3, BecomeProperties DEF Abort
<1> QED
  BY <1>2, <1>3

\* The customer a task works for is the owner of everything in its batch.
LEMMA Holder ==
    ASSUME IInv, NEW t \in Tasks, Holds(t)
    PROVE  /\ CustomerOf(t) \in Customers
           /\ batch[t] \in Seq(Message)
           /\ batch[t] # <<>>
           /\ inFlight[CustomerOf(t)]
           /\ inFlightMessageIds[CustomerOf(t)] = IdSet(batch[t])
           /\ IdSet(batch[t]) \subseteq MessageIds
           /\ \A m \in IdSet(batch[t]) : Owner[m] = CustomerOf(t)
<1>1. batch[t] \in Seq(Message) /\ BatchInv(t)
  BY DEF IInv, TypeOK
<1>2. batch[t] # <<>>
  BY <1>1 DEF BatchInv
<1>3. batch[t][1] \in Message
  BY <1>1, <1>2, LenProperties
<1>4. CustomerOf(t) \in Customers
  BY <1>3, DebouncerAssumption DEF CustomerOf, Sender, Message
<1>5. QueueInv(CustomerOf(t))
  BY <1>4 DEF IInv
<1> QED
  BY <1>1, <1>2, <1>4, <1>5, IdsProperties DEF BatchInv, QueueInv

-----------------------------------------------------------------------------
\* While one task runs no other is in synchronous code, and afterwards only
\* the one that ran may be.
LEMMA MoverStep ==
    ASSUME NEW t \in Tasks, MayRun(t), OthersKept(t)
    PROVE  OneMover'
<1>1. ASSUME NEW u \in Tasks, u # t PROVE ~Synchronous(u)'
  BY <1>1 DEF MayRun, OthersKept, Synchronous
<1> QED
  BY <1>1 DEF OneMover

\* No task joins another on a customer.
LEMMA HandlerStep ==
    ASSUME OneHandlerPerCustomer, NEW t \in Tasks, OthersKept(t),
           Holds(t)' => \A u \in Tasks : u # t /\ Holds(u) => CustomerOf(u) # CustomerOf(t)'
    PROVE  OneHandlerPerCustomer'
<1>1. ASSUME NEW u \in Tasks, u # t
      PROVE  (Holds(u)' <=> Holds(u)) /\ CustomerOf(u)' = CustomerOf(u)
  BY <1>1 DEF OthersKept, Holds, CustomerOf, Sender
<1>2. ASSUME NEW u \in Tasks, NEW v \in Tasks, Holds(u)', Holds(v)', u # v
      PROVE  CustomerOf(u)' # CustomerOf(v)'
  <2>1. CASE u = t
    BY <1>1, <1>2, <2>1
  <2>2. CASE v = t
    BY <1>1, <1>2, <2>2
  <2>3. CASE u # t /\ v # t
    BY <1>1, <1>2, <2>3 DEF OneHandlerPerCustomer
  <2> QED
    BY <2>1, <2>2, <2>3
<1> QED
  BY <1>2 DEF OneHandlerPerCustomer

\* A task that waits for its handler notices nothing of a step of another that
\* leaves its customer's flight alone and records none of its messages.
LEMMA Bystander ==
    ASSUME IInv, NEW t \in Tasks, MayRun(t), OthersKept(t),
           NEW u \in Tasks, u # t,
           Holds(u) => /\ inFlight'[CustomerOf(u)] = inFlight[CustomerOf(u)]
                       /\ inFlightMessageIds'[CustomerOf(u)] = inFlightMessageIds[CustomerOf(u)]
                       /\ \A m \in IdSet(batch[u]) : ~Has(m) => processedAt'[m] = Never
    PROVE  BatchInv(u)' /\ TaskInv(u)' /\ BatchMemory(u)'
<1>1. /\ pc'[u] = pc[u] /\ events'[u] = events[u]
      /\ handler'[u] = handler[u] /\ batch'[u] = batch[u]
  BY DEF OthersKept
<1>2. pc[u] \notin {"admit", "flush"} /\ ~(pc[u] = "handle" /\ handler[u] = "staff")
  BY DEF MayRun, Synchronous
<1>3. BatchInv(u) /\ TaskInv(u) /\ BatchMemory(u)
  BY DEF IInv
<1>4. (Holds(u)' <=> Holds(u)) /\ CustomerOf(u)' = CustomerOf(u)
  BY <1>1 DEF Holds, CustomerOf, Sender
<1>5. BatchInv(u)'
  BY <1>1, <1>3, <1>4 DEF BatchInv
<1>6. TaskInv(u)'
  BY <1>1, <1>2, <1>3 DEF TaskInv
<1>7. BatchMemory(u)'
  <2> SUFFICES ASSUME Holds(u), NEW m \in IdSet(batch[u]) PROVE processedAt'[m] = Never
    BY <1>1, <1>4 DEF BatchMemory, Has
  <2>1. ~Has(m)
    BY <1>2, <1>3 DEF BatchMemory
  <2> QED
    BY <2>1
<1> QED
  BY <1>5, <1>6, <1>7

\* A task that has let go of its batch.
LEMMA Resting ==
    ASSUME NEW t \in Tasks,
           pc'[t] \in {"idle", "admit"},
           pc'[t] = "admit" => events'[t] # <<>>,
           handler'[t] = "staff" => Staffed(events'[t])
    PROVE  BatchInv(t)' /\ TaskInv(t)' /\ BatchMemory(t)' /\ ~Holds(t)'
BY DEF BatchInv, TaskInv, BatchMemory, Holds

\* A queue that a step touches neither directly nor through the table.
LEMMA QueueUntouched ==
    ASSUME NEW c \in Customers, QueueInv(c),
           inFlight'[c] = inFlight[c],
           inFlightMessageIds'[c] = inFlightMessageIds[c],
           pending'[c] = pending[c],
           \A m \in IdSet(pending[c]) : processedAt'[m] = Never
    PROVE  QueueInv(c)'
BY DEF QueueInv, Has

\* Removing the first event of an update.
LEMMA TailProperties ==
    ASSUME NEW queue \in Seq(Message), queue # <<>>
    PROVE  /\ Head(queue) \in Message
           /\ Tail(queue) \in Seq(Message)
           /\ Staffed(queue) => Head(queue).payload.staffed /\ Staffed(Tail(queue))
<1>1. /\ Head(queue) = queue[1]
      /\ Head(queue) \in Message
      /\ Tail(queue) \in Seq(Message)
      /\ Len(Tail(queue)) = Len(queue) - 1
      /\ \A i \in 1..Len(Tail(queue)) : Tail(queue)[i] = queue[i + 1]
  BY HeadTailProperties
<1>2. /\ DOMAIN queue = 1..Len(queue) /\ Len(queue) \in Nat /\ Len(queue) # 0
      /\ DOMAIN Tail(queue) = 1..Len(Tail(queue))
  BY <1>1, LenProperties, EmptySeq
<1>3. 1 \in DOMAIN queue /\ \A i \in DOMAIN Tail(queue) : i + 1 \in DOMAIN queue
  BY <1>1, <1>2
<1> QED
  BY <1>1, <1>2, <1>3 DEF Staffed

-----------------------------------------------------------------------------
\* AdmitNext of an event that changes no queue: a duplicate, or a read of the
\* store that throws and takes the rest of the update with it.
LEMMA DroppedInv ==
    ASSUME IInv, NEW t \in Tasks, NEW rest \in Seq(Message),
           pc[t] = "admit", MayRun(t),
           handler[t] = "staff" => Staffed(rest),
           UNCHANGED <<queueVars, storeVars, now, completedAt>>,
           Advance(t, rest) \/ (rest = <<>> /\ Abort(t))
    PROVE  IInv'
<1>1. UNCHANGED <<inFlight, inFlightMessageIds, pending, recentlyProcessed,
                  processedAt, clock, now, completedAt>>
  BY DEF queueVars, storeVars
<1>2. TaskTypeOK
  BY DEF IInv, TypeOK, TaskTypeOK
<1>3. /\ TaskTypeOK'
      /\ OthersKept(t)
      /\ pc'[t] \in {"idle", "admit"}
      /\ pc'[t] = "admit" => events'[t] # <<>>
      /\ events'[t] = rest
      /\ handler'[t] \in {"none", handler[t]}
  BY <1>2, AdvanceProperties
<1>4. TypeOK'
  BY <1>1, <1>3 DEF IInv, TypeOK, TaskTypeOK, QueueTypeOK, StoreTypeOK
<1>5. BatchInv(t)' /\ TaskInv(t)' /\ BatchMemory(t)' /\ ~Holds(t)'
  <2>1. handler'[t] = "staff" => Staffed(events'[t])
    BY <1>3
  <2> QED
    BY <1>3, <2>1, Resting
<1>6. OneMover'
  BY <1>3, MoverStep
<1>7. OneHandlerPerCustomer'
  BY <1>3, <1>5, HandlerStep DEF IInv
<1>8. ASSUME NEW u \in Tasks PROVE BatchInv(u)' /\ TaskInv(u)' /\ BatchMemory(u)'
  <2>1. CASE u = t
    BY <1>5, <2>1
  <2>2. CASE u # t
    BY <1>1, <1>3, <2>2, Bystander DEF Has
  <2> QED
    BY <2>1, <2>2
<1>9. ASSUME NEW c \in Customers PROVE QueueInv(c)'
  BY <1>1 DEF IInv, QueueInv, Has
<1>10. TableMemory'
  BY <1>1 DEF IInv, TableMemory
<1> QED
  BY <1>4, <1>6, <1>7, <1>8, <1>9, <1>10 DEF IInv

\* admit() returns "queued": the message waits behind a batch in flight, and
\* the staff hand-off has none.
LEMMA QueuedInv ==
    ASSUME IInv, NEW t \in Tasks, NEW message \in Message, NEW rest \in Seq(Message),
           pc[t] = "admit", MayRun(t),
           handler[t] = "staff" => Staffed(rest),
           AdmitQueued(message), Advance(t, rest),
           UNCHANGED <<now, completedAt>>
    PROVE  IInv'
<1> DEFINE c == Owner[message.messageId]
           put == Put(pending[c], message)
<1>1. /\ inFlight[c]
      /\ message.messageId \notin inFlightMessageIds[c]
      /\ ~Has(message.messageId)
      /\ pending' = [pending EXCEPT ![c] = put]
      /\ UNCHANGED <<inFlight, inFlightMessageIds, recentlyProcessed,
                     processedAt, clock, now, completedAt>>
  BY DEF AdmitQueued, IsDuplicate, InMemory, storeVars
<1>2. c \in Customers /\ message.messageId \in MessageIds
  BY DebouncerAssumption DEF Message
<1>3. TaskTypeOK /\ pending \in [Customers -> Seq(Message)] /\ QueueInv(c)
  BY <1>2 DEF IInv, TypeOK, TaskTypeOK, QueueTypeOK
<1>4. put \in Seq(Message) /\ IdSet(put) = IdSet(pending[c]) \cup {message.messageId}
  BY <1>2, <1>3, PutProperties
<1>5. \A m \in IdSet(put) : Owner[m] = c /\ m \notin inFlightMessageIds[c] /\ ~Has(m)
  BY <1>1, <1>3, <1>4 DEF QueueInv
<1> HIDE DEF c, put
<1>6. /\ TaskTypeOK'
      /\ OthersKept(t)
      /\ pc'[t] \in {"idle", "admit"}
      /\ pc'[t] = "admit" => events'[t] # <<>>
      /\ events'[t] = rest
      /\ handler'[t] \in {"none", handler[t]}
  BY <1>3, AdvanceProperties
<1>7. TypeOK'
  BY <1>1, <1>3, <1>4, <1>6 DEF IInv, TypeOK, TaskTypeOK, QueueTypeOK, StoreTypeOK
<1>8. BatchInv(t)' /\ TaskInv(t)' /\ BatchMemory(t)' /\ ~Holds(t)'
  <2>1. handler'[t] = "staff" => Staffed(events'[t])
    BY <1>6
  <2> QED
    BY <1>6, <2>1, Resting
<1>9. OneMover'
  BY <1>6, MoverStep
<1>10. OneHandlerPerCustomer'
  BY <1>6, <1>8, HandlerStep DEF IInv
<1>11. ASSUME NEW u \in Tasks PROVE BatchInv(u)' /\ TaskInv(u)' /\ BatchMemory(u)'
  <2>1. CASE u = t
    BY <1>8, <2>1
  <2>2. CASE u # t
    BY <1>1, <1>6, <2>2, Bystander DEF Has
  <2> QED
    BY <2>1, <2>2
<1>12. ASSUME NEW d \in Customers PROVE QueueInv(d)'
  <2>1. CASE d = c
    <3>1. pending'[d] = put
      BY <1>1, <1>3, <2>1
    <3> QED
      BY <1>1, <1>3, <1>5, <2>1, <3>1 DEF QueueInv, Has
  <2>2. CASE d # c
    <3>1. pending'[d] = pending[d] /\ QueueInv(d)
      BY <1>1, <1>3, <2>2 DEF IInv
    <3>2. \A m \in IdSet(pending[d]) : processedAt'[m] = Never
      BY <1>1, <3>1 DEF QueueInv, Has
    <3> QED
      BY <1>1, <3>1, <3>2, QueueUntouched
  <2> QED
    BY <2>1, <2>2
<1>13. TableMemory'
  BY <1>1 DEF IInv, TableMemory
<1> QED
  BY <1>7, <1>9, <1>10, <1>11, <1>12, <1>13 DEF IInv

\* The first batch of an idle customer is the one message.
LEMMA FirstBatchProperties ==
    ASSUME IInv, NEW message \in Message, ~inFlight[Owner[message.messageId]]
    PROVE  /\ Owner[message.messageId] \in Customers
           /\ message.messageId \in MessageIds
           /\ pending[Owner[message.messageId]] = <<>>
           /\ FirstBatch(message) \in Seq(Message)
           /\ FirstBatch(message) # <<>>
           /\ IdSet(FirstBatch(message)) = {message.messageId}
           /\ Sender(FirstBatch(message)[1]) = Owner[message.messageId]
           /\ message.payload.staffed => Staffed(FirstBatch(message))
<1> DEFINE put == Put(<<>>, message)
<1>1. Owner[message.messageId] \in Customers /\ message.messageId \in MessageIds
  BY DebouncerAssumption DEF Message
<1>2. pending[Owner[message.messageId]] = <<>>
  BY <1>1 DEF IInv, QueueInv
<1>3. FirstBatch(message) = SortBySequence(put)
  BY <1>2 DEF FirstBatch
<1>4. IdSet(<<>>) = {} /\ <<>> \in Seq(Message)
  BY EmptySeq DEF IdSet
<1>5. put = <<message>>
  BY <1>4 DEF Put
<1>6. put \in Seq(Message) /\ put # <<>> /\ IdSet(put) = {message.messageId}
  BY <1>4, PutProperties
<1>7. /\ SortBySequence(put) \in Seq(Message)
      /\ SortBySequence(put) # <<>>
      /\ IdSet(SortBySequence(put)) = {message.messageId}
      /\ DOMAIN SortBySequence(put) = DOMAIN put
      /\ \A k \in DOMAIN put : \E j \in DOMAIN put : SortBySequence(put)[k] = put[j]
  BY <1>6, SortPermutes, SortKeepsIds
<1>8. \A k \in DOMAIN put : put[k] = message
  BY <1>5
<1>9. DOMAIN put = {1}
  BY <1>5
<1> HIDE DEF put
<1>10. SortBySequence(put)[1] = message
  BY <1>7, <1>8, <1>9
<1>11. message.payload.staffed => Staffed(SortBySequence(put))
  BY <1>7, <1>8 DEF Staffed
<1> QED
  BY <1>1, <1>2, <1>3, <1>7, <1>10, <1>11 DEF Sender

\* admit() returns "process": the message's customer has no other handler, for
\* it has nothing in flight.
LEMMA ProcessInv ==
    ASSUME IInv, NEW t \in Tasks, NEW message \in Message, NEW rest \in Seq(Message),
           pc[t] = "admit", MayRun(t),
           handler[t] = "staff" => Staffed(rest) /\ message.payload.staffed,
           AdmitProcess(message), Become(t, "handle", rest, FirstBatch(message)),
           UNCHANGED <<now, completedAt>>
    PROVE  IInv'
<1> DEFINE c == Owner[message.messageId]
           first == FirstBatch(message)
<1>1. ~inFlight[c] /\ ~Has(message.messageId)
  BY DEF AdmitProcess, IsDuplicate
<1>2. /\ c \in Customers
      /\ message.messageId \in MessageIds
      /\ pending[c] = <<>>
      /\ first \in Seq(Message)
      /\ first # <<>>
      /\ IdSet(first) = {message.messageId}
      /\ Sender(first[1]) = c
      /\ message.payload.staffed => Staffed(first)
  BY <1>1, FirstBatchProperties
<1>3. /\ pending' = [pending EXCEPT ![c] = <<>>]
      /\ inFlight' = [inFlight EXCEPT ![c] = TRUE]
      /\ inFlightMessageIds' = [inFlightMessageIds EXCEPT ![c] = IdSet(first)]
      /\ UNCHANGED <<recentlyProcessed, processedAt, clock, now, completedAt>>
  BY DEF AdmitProcess, Drain, FirstBatch, storeVars
<1>4. /\ TaskTypeOK
      /\ pending \in [Customers -> Seq(Message)]
      /\ inFlight \in [Customers -> BOOLEAN]
      /\ inFlightMessageIds \in [Customers -> SUBSET MessageIds]
  BY DEF IInv, TypeOK, TaskTypeOK, QueueTypeOK
<1>5. Owner[message.messageId] = c
  OBVIOUS
<1> HIDE DEF c
<1>6. /\ TaskTypeOK'
      /\ OthersKept(t)
      /\ pc'[t] = "handle" /\ events'[t] = rest /\ batch'[t] = first
      /\ handler'[t] = handler[t]
  BY <1>2, <1>4, BecomeProperties
<1> HIDE DEF first
<1>7. TypeOK'
  <2>1. IdSet(first) \in SUBSET MessageIds /\ <<>> \in Seq(Message)
    BY <1>2, EmptySeq
  <2> QED
    BY <1>2, <1>3, <1>4, <1>6, <2>1 DEF IInv, TypeOK, TaskTypeOK, QueueTypeOK, StoreTypeOK
<1>8. /\ pending'[c] = <<>>
      /\ inFlight'[c]
      /\ inFlightMessageIds'[c] = IdSet(first)
      /\ \A d \in Customers : d # c => /\ pending'[d] = pending[d]
                                       /\ inFlight'[d] = inFlight[d]
                                       /\ inFlightMessageIds'[d] = inFlightMessageIds[d]
  BY <1>2, <1>3, <1>4
<1>9. ASSUME NEW u \in Tasks, Holds(u) PROVE CustomerOf(u) \in Customers /\ CustomerOf(u) # c
  BY <1>1, <1>9, Holder
<1>10. CustomerOf(t)' = c /\ Holds(t)'
  BY <1>2, <1>6 DEF CustomerOf, Sender, Holds
<1>11. BatchInv(t)'
  BY <1>2, <1>6, <1>8, <1>10 DEF BatchInv
<1>12. TaskInv(t)'
  BY <1>2, <1>6, <1>8, <1>10 DEF TaskInv
<1>13. BatchMemory(t)'
  BY <1>1, <1>2, <1>3, <1>6 DEF BatchMemory, Has
<1>14. OneMover'
  BY <1>6, MoverStep
<1>15. OneHandlerPerCustomer'
  BY <1>6, <1>9, <1>10, HandlerStep DEF IInv
<1>16. ASSUME NEW u \in Tasks PROVE BatchInv(u)' /\ TaskInv(u)' /\ BatchMemory(u)'
  <2>1. CASE u = t
    BY <1>11, <1>12, <1>13, <2>1
  <2>2. CASE u # t
    BY <1>3, <1>6, <1>8, <1>9, <2>2, Bystander DEF Has
  <2> QED
    BY <2>1, <2>2
<1>17. ASSUME NEW d \in Customers PROVE QueueInv(d)'
  <2>1. CASE d = c
    <3>1. IdSet(<<>>) = {}
      BY DEF IdSet
    <3>2. \A m \in IdSet(first) : Owner[m] = c
      BY <1>2, <1>5
    <3> QED
      BY <1>8, <2>1, <3>1, <3>2 DEF QueueInv
  <2>2. CASE d # c
    <3>1. QueueInv(d)
      BY DEF IInv
    <3>2. \A m \in IdSet(pending[d]) : processedAt'[m] = Never
      BY <1>3, <3>1 DEF QueueInv, Has
    <3> QED
      BY <1>8, <2>2, <3>1, <3>2, QueueUntouched
  <2> QED
    BY <2>1, <2>2
<1>18. TableMemory'
  BY <1>3 DEF IInv, TableMemory
<1> QED
  BY <1>7, <1>14, <1>15, <1>16, <1>17, <1>18 DEF IInv

-----------------------------------------------------------------------------
\* What RecordAll leaves of each row.
LEMMA RecordedRows ==
    ASSUME StoreTypeOK, NEW ids \in SUBSET MessageIds, NEW purged \in BOOLEAN,
           RecordAll(ids, purged)
    PROVE  /\ processedAt' \in [MessageIds -> Nat \cup {Never}]
           /\ \A m \in MessageIds :
                 /\ m \in ids /\ ~Has(m) => processedAt'[m] = clock
                 /\ processedAt[m] = clock => processedAt'[m] = clock
                 /\ m \notin ids /\ ~Has(m) => processedAt'[m] = Never
                 /\ Has(m) => processedAt'[m] \in {Never, processedAt[m]}
                 /\ Has(m) /\ processedAt'[m] = Never => processedAt[m] < clock - Retention
<1>1. /\ processedAt \in [MessageIds -> Nat \cup {Never}]
      /\ clock \in Nat
      /\ Never \notin Nat
      /\ Retention \in Nat
  BY RetentionAssumption DEF StoreTypeOK, Never
<1>2. \A m \in MessageIds :
         processedAt'[m] = IF m \in ids /\ ~Has(m) THEN clock
                           ELSE IF purged /\ Expired(m) THEN Never
                           ELSE processedAt[m]
  BY DEF RecordAll, Expired
<1>3. processedAt' \in [MessageIds -> Nat \cup {Never}]
  BY <1>1 DEF RecordAll
<1> QED
  BY <1>1, <1>2, <1>3 DEF Has, Expired

\* What complete() returns and leaves of the queue.
LEMMA CompleteProperties ==
    ASSUME QueueTypeOK, StoreTypeOK, NEW c \in Customers, NEW done \in Seq(Message),
           Complete(c, done)
    PROVE  /\ QueueTypeOK'
           /\ pending' = [pending EXCEPT ![c] = <<>>]
           /\ inFlight' = [inFlight EXCEPT ![c] = (NextBatch(c) # <<>>)]
           /\ inFlightMessageIds' = [inFlightMessageIds EXCEPT ![c] = IdSet(NextBatch(c))]
           /\ clock' = clock
           /\ NextBatch(c) \in Seq(Message)
           /\ IdSet(NextBatch(c)) = IdSet(pending[c])
           /\ NextBatch(c) = <<>> <=> pending[c] = <<>>
           /\ RecordAll(IdSet(done), TRUE)
<1> DEFINE next == SortBySequence(pending[c])
<1>1. /\ pending \in [Customers -> Seq(Message)]
      /\ inFlight \in [Customers -> BOOLEAN]
      /\ inFlightMessageIds \in [Customers -> SUBSET MessageIds]
      /\ recentlyProcessed \in [Customers -> Seq(MessageIds)]
      /\ pending[c] \in Seq(Message)
  BY DEF QueueTypeOK
<1>2. /\ next \in Seq(Message)
      /\ IdSet(next) = IdSet(pending[c])
      /\ next = <<>> <=> pending[c] = <<>>
      /\ IdSet(next) \in SUBSET MessageIds
  BY <1>1, SortPermutes, SortKeepsIds, IdsProperties
<1>3. /\ recentlyProcessed' =
            [recentlyProcessed EXCEPT ![c] = Trim(recentlyProcessed[c] \o Ids(done))]
      /\ RecordAll(IdSet(done), TRUE)
      /\ clock' = clock
  BY DEF Complete, PushRecent
<1>4. /\ Trim(recentlyProcessed[c] \o Ids(done)) \in Seq(MessageIds)
      /\ Len(Trim(recentlyProcessed[c] \o Ids(done))) <= MaxRecentlyProcessed
  BY <1>1, PushProperties
<1>5. IdSet(<<>>) = {} /\ <<>> \in Seq(Message)
  BY EmptySeq DEF IdSet
<1>6. /\ pending' = [pending EXCEPT ![c] = <<>>]
      /\ inFlight' = [inFlight EXCEPT ![c] = (next # <<>>)]
      /\ inFlightMessageIds' = [inFlightMessageIds EXCEPT ![c] = IdSet(next)]
  <2>1. CASE pending[c] = <<>>
    <3>1. next = <<>> /\ IdSet(next) = {} /\ (next # <<>>) = FALSE
      BY <1>2, <1>5, <2>1
    <3>2. pending = [pending EXCEPT ![c] = <<>>]
      BY <1>1, <2>1
    <3>3. /\ inFlight' = [inFlight EXCEPT ![c] = FALSE]
          /\ inFlightMessageIds' = [inFlightMessageIds EXCEPT ![c] = {}]
          /\ pending' = pending
      BY <2>1 DEF Complete
    <3> QED
      BY <3>1, <3>2, <3>3
  <2>2. CASE pending[c] # <<>>
    <3>1. (next # <<>>) = TRUE
      BY <1>2, <2>2
    <3> QED
      BY <2>2, <3>1 DEF Complete, Drain
  <2> QED
    BY <2>1, <2>2
<1>7. NextBatch(c) = next
  BY DEF NextBatch
<1> HIDE DEF next
<1>8. QueueTypeOK'
  <2>1. \A d \in Customers : Len(recentlyProcessed'[d]) <= MaxRecentlyProcessed
    BY <1>1, <1>3, <1>4 DEF QueueTypeOK
  <2> QED
    BY <1>1, <1>2, <1>3, <1>4, <1>5, <1>6, <2>1 DEF QueueTypeOK
<1> QED
  BY <1>2, <1>3, <1>6, <1>7, <1>8

\* Recording messages of one batch makes no row for a message that waits or
\* is in another batch.
LEMMA OthersUnrecorded ==
    ASSUME IInv, NEW t \in Tasks, Holds(t),
           NEW ids \in SUBSET IdSet(batch[t]), NEW purged \in BOOLEAN,
           RecordAll(ids, purged)
    PROVE  /\ \A c \in Customers : \A m \in IdSet(pending[c]) : processedAt'[m] = Never
           /\ \A u \in Tasks : u # t /\ Holds(u) =>
                 \A m \in IdSet(batch[u]) : ~Has(m) => processedAt'[m] = Never
<1>1. /\ StoreTypeOK
      /\ ids \in SUBSET MessageIds
      /\ \A m \in ids : Owner[m] = CustomerOf(t) /\ m \in inFlightMessageIds[CustomerOf(t)]
  BY Holder DEF IInv, TypeOK
<1>2. \A m \in MessageIds : m \notin ids /\ ~Has(m) => processedAt'[m] = Never
  BY <1>1, RecordedRows
<1>3. ASSUME NEW c \in Customers, NEW m \in IdSet(pending[c]) PROVE processedAt'[m] = Never
  <2>1. QueueInv(c) /\ pending[c] \in Seq(Message)
    BY DEF IInv, TypeOK, QueueTypeOK
  <2>2. m \in MessageIds /\ Owner[m] = c /\ m \notin inFlightMessageIds[c] /\ ~Has(m)
    BY <2>1, IdsProperties DEF QueueInv
  <2> QED
    BY <1>1, <1>2, <2>2
<1>4. ASSUME NEW u \in Tasks, u # t, Holds(u), NEW m \in IdSet(batch[u]), ~Has(m)
      PROVE  processedAt'[m] = Never
  <2>1. m \in MessageIds /\ Owner[m] = CustomerOf(u)
    BY <1>4, Holder
  <2>2. CustomerOf(u) # CustomerOf(t)
    BY <1>4 DEF IInv, OneHandlerPerCustomer
  <2> QED
    BY <1>1, <1>2, <1>4, <2>1, <2>2
<1> QED
  BY <1>3, <1>4

\* complete() returns and the task goes on with what it returned, whether it
\* was called for a handled batch or by drainStuck.
LEMMA CompleteInv ==
    ASSUME IInv, NEW t \in Tasks, Holds(t), MayRun(t), CompleteBatch(t),
           IF NextBatch(CustomerOf(t)) = <<>>
           THEN Advance(t, events[t])
           ELSE Become(t, pc[t], events[t], NextBatch(CustomerOf(t))),
           UNCHANGED now
    PROVE  IInv'
<1> DEFINE c == CustomerOf(t)
           next == NextBatch(CustomerOf(t))
<1>1. /\ TaskTypeOK
      /\ QueueTypeOK /\ StoreTypeOK
      /\ events[t] \in Seq(Message)
      /\ pending \in [Customers -> Seq(Message)]
      /\ inFlight \in [Customers -> BOOLEAN]
      /\ inFlightMessageIds \in [Customers -> SUBSET MessageIds]
      /\ completedAt \in [MessageIds -> Nat \cup {Never}]
  BY DEF IInv, TypeOK, TaskTypeOK, QueueTypeOK
<1>2. /\ c \in Customers
      /\ batch[t] \in Seq(Message)
      /\ inFlightMessageIds[c] = IdSet(batch[t])
      /\ IdSet(batch[t]) \subseteq MessageIds
      /\ QueueInv(c)
  BY Holder DEF IInv
<1>3. /\ Complete(c, batch[t])
      /\ completedAt' = [m \in MessageIds |->
                           IF m \in IdSet(batch[t]) THEN clock ELSE completedAt[m]]
  BY DEF CompleteBatch
<1>4. /\ QueueTypeOK'
      /\ pending' = [pending EXCEPT ![c] = <<>>]
      /\ inFlight' = [inFlight EXCEPT ![c] = (next # <<>>)]
      /\ inFlightMessageIds' = [inFlightMessageIds EXCEPT ![c] = IdSet(next)]
      /\ clock' = clock
      /\ next \in Seq(Message)
      /\ IdSet(next) = IdSet(pending[c])
      /\ next = <<>> <=> pending[c] = <<>>
      /\ RecordAll(IdSet(batch[t]), TRUE)
  BY <1>1, <1>2, <1>3, CompleteProperties
<1>5. \A m \in IdSet(next) : m \in MessageIds /\ Owner[m] = c /\ ~Has(m)
  BY <1>2, <1>4, IdsProperties DEF QueueInv
<1>6. /\ \A d \in Customers : \A m \in IdSet(pending[d]) : processedAt'[m] = Never
      /\ \A u \in Tasks : u # t /\ Holds(u) =>
            \A m \in IdSet(batch[u]) : ~Has(m) => processedAt'[m] = Never
  BY <1>4, OthersUnrecorded
<1>7. /\ processedAt' \in [MessageIds -> Nat \cup {Never}]
      /\ \A m \in MessageIds :
            /\ m \in IdSet(batch[t]) /\ ~Has(m) => processedAt'[m] = clock
            /\ processedAt[m] = clock => processedAt'[m] = clock
            /\ Has(m) => processedAt'[m] \in {Never, processedAt[m]}
            /\ Has(m) /\ processedAt'[m] = Never => processedAt[m] < clock - Retention
  BY <1>1, <1>2, <1>4, RecordedRows
<1>8. /\ next = <<>> => Advance(t, events[t])
      /\ next # <<>> => Become(t, pc[t], events[t], next)
  OBVIOUS
<1>9. /\ handler[t] = "staff" => Staffed(events[t])
      /\ handler[t] = "staff" /\ pc[t] = "handle" => pending[c] = <<>>
  BY DEF IInv, TaskInv
<1>10. TaskInv(t) /\ BatchMemory(t)
  BY DEF IInv
<1>11. \A u \in Tasks : u # t /\ Holds(u) => CustomerOf(u) \in Customers /\ CustomerOf(u) # c
  BY Holder DEF IInv, OneHandlerPerCustomer
<1>12. pc[t] \in {"handle", "flush"}
  BY DEF Holds
<1> HIDE DEF next, c
<1>13. /\ pending'[c] = <<>>
       /\ inFlight'[c] = (next # <<>>)
       /\ inFlightMessageIds'[c] = IdSet(next)
       /\ \A d \in Customers : d # c => /\ pending'[d] = pending[d]
                                        /\ inFlight'[d] = inFlight[d]
                                        /\ inFlightMessageIds'[d] = inFlightMessageIds[d]
  BY <1>1, <1>2, <1>4
<1>14. /\ TaskTypeOK'
       /\ OthersKept(t)
       /\ BatchInv(t)' /\ TaskInv(t)' /\ BatchMemory(t)'
       /\ Holds(t)' => CustomerOf(t)' = c
  <2>1. CASE next = <<>>
    <3>1. /\ TaskTypeOK'
          /\ OthersKept(t)
          /\ pc'[t] \in {"idle", "admit"}
          /\ pc'[t] = "admit" => events'[t] # <<>>
          /\ events'[t] = events[t]
          /\ handler'[t] \in {"none", handler[t]}
      BY <1>1, <1>8, <2>1, AdvanceProperties
    <3>2. handler'[t] = "staff" => Staffed(events'[t])
      BY <1>9, <3>1
    <3> QED
      BY <3>1, <3>2, Resting
  <2>2. CASE next # <<>>
    <3>1. /\ TaskTypeOK'
          /\ OthersKept(t)
          /\ pc'[t] = pc[t] /\ events'[t] = events[t] /\ batch'[t] = next
          /\ handler'[t] = handler[t]
      BY <1>1, <1>4, <1>8, <1>12, <2>2, BecomeProperties
    <3>2. CustomerOf(t)' = c
      <4>1. next[1] \in Message /\ next[1].messageId \in IdSet(next)
        BY <1>4, <2>2, LenProperties DEF IdSet
      <4> QED
        BY <1>5, <3>1, <4>1 DEF CustomerOf, Sender
    <3>3. BatchInv(t)'
      BY <1>13, <2>2, <3>1, <3>2 DEF BatchInv
    <3>4. TaskInv(t)'
      BY <1>4, <1>9, <1>10, <1>12, <2>2, <3>1 DEF TaskInv
    <3>5. BatchMemory(t)'
      BY <1>2, <1>4, <1>6, <3>1 DEF BatchMemory, Has
    <3> QED
      BY <3>1, <3>2, <3>3, <3>4, <3>5
  <2> QED
    BY <2>1, <2>2
<1>15. TypeOK'
  <2>1. completedAt' \in [MessageIds -> Nat \cup {Never}]
    BY <1>1, <1>3 DEF StoreTypeOK
  <2> QED
    BY <1>1, <1>4, <1>7, <1>14, <2>1 DEF IInv, TypeOK, TaskTypeOK, StoreTypeOK
<1>16. OneMover'
  BY <1>14, MoverStep
<1>17. OneHandlerPerCustomer'
  BY <1>11, <1>14, HandlerStep DEF IInv
<1>18. ASSUME NEW u \in Tasks PROVE BatchInv(u)' /\ TaskInv(u)' /\ BatchMemory(u)'
  <2>1. CASE u = t
    BY <1>14, <2>1
  <2>2. CASE u # t
    BY <1>6, <1>11, <1>13, <1>14, <2>2, Bystander
  <2> QED
    BY <2>1, <2>2
<1>19. ASSUME NEW d \in Customers PROVE QueueInv(d)'
  <2>1. CASE d = c
    <3>1. IdSet(<<>>) = {}
      BY DEF IdSet
    <3> QED
      BY <1>5, <1>13, <2>1, <3>1 DEF QueueInv
  <2>2. CASE d # c
    BY <1>6, <1>13, <2>2, QueueUntouched DEF IInv
  <2> QED
    BY <2>1, <2>2
<1>20. TableMemory'
  <2> SUFFICES ASSUME NEW m \in MessageIds,
                      completedAt'[m] # Never, clock - completedAt'[m] <= Retention
               PROVE  processedAt'[m] = completedAt'[m]
    BY <1>4 DEF TableMemory
  <2>1. CASE m \in IdSet(batch[t])
    <3>1. completedAt'[m] = clock
      BY <1>3, <2>1
    <3>2. ~Has(m) \/ processedAt[m] = clock
      BY <1>10, <2>1 DEF BatchMemory
    <3> QED
      BY <1>7, <2>1, <3>1, <3>2
  <2>2. CASE m \notin IdSet(batch[t])
    <3>1. completedAt'[m] = completedAt[m] /\ completedAt[m] \in Nat
      BY <1>1, <1>3, <2>2
    <3>2. processedAt[m] = completedAt[m] /\ Has(m)
      BY <3>1 DEF IInv, TableMemory, Has
    <3> QED
      BY <1>1, <1>7, <3>1, <3>2, RetentionAssumption DEF StoreTypeOK
  <2> QED
    BY <2>1, <2>2
<1> QED
  BY <1>15, <1>16, <1>17, <1>18, <1>19, <1>20 DEF IInv

\* complete() throws: the rows it has written belong to the batch, which is
\* completed again at once or, the second time, given up.
LEMMA ThrowsInv ==
    ASSUME IInv, NEW t \in Tasks, Holds(t), MayRun(t),
           CompleteThrows(CustomerOf(t), batch[t]),
           \/ Become(t, "flush", events[t], batch[t])
           \/ Abort(t),
           UNCHANGED <<now, completedAt>>
    PROVE  IInv'
<1> DEFINE c == CustomerOf(t)
<1>1. /\ TaskTypeOK
      /\ QueueTypeOK /\ StoreTypeOK
      /\ events[t] \in Seq(Message)
      /\ recentlyProcessed \in [Customers -> Seq(MessageIds)]
      /\ completedAt \in [MessageIds -> Nat \cup {Never}]
  BY DEF IInv, TypeOK, TaskTypeOK, QueueTypeOK
<1>2. /\ c \in Customers
      /\ batch[t] \in Seq(Message)
      /\ batch[t] # <<>>
      /\ inFlight[c]
      /\ inFlightMessageIds[c] = IdSet(batch[t])
      /\ IdSet(batch[t]) \subseteq MessageIds
      /\ TaskInv(t) /\ BatchMemory(t)
  BY Holder DEF IInv
<1>3. /\ recentlyProcessed' =
            [recentlyProcessed EXCEPT ![c] = Trim(recentlyProcessed[c] \o Ids(batch[t]))]
      /\ UNCHANGED <<inFlight, inFlightMessageIds, pending, clock, now, completedAt>>
  BY DEF CompleteThrows, PushRecent
<1>4. PICK n \in 0..Len(batch[t]), purged \in BOOLEAN :
         RecordAll(IdSet(SubSeq(batch[t], 1, n)), purged)
  <2>1. PICK n \in 0..Len(batch[t]) :
           \/ RecordAll(IdSet(SubSeq(batch[t], 1, n)), n > 0)
           \/ RecordAll(IdSet(SubSeq(batch[t], 1, n)), n > 1)
    BY DEF CompleteThrows
  <2>2. (n > 0) \in BOOLEAN /\ (n > 1) \in BOOLEAN
    OBVIOUS
  <2> QED
    BY <2>1, <2>2
<1> DEFINE ids == IdSet(SubSeq(batch[t], 1, n))
<1>5. ids \in SUBSET IdSet(batch[t])
  BY <1>2, PrefixIds
<1>6. RecordAll(ids, purged)
  BY <1>4
<1>7. \A u \in Tasks : u # t /\ Holds(u) => CustomerOf(u) # c
  BY DEF IInv, OneHandlerPerCustomer
<1> HIDE DEF ids, c
<1>8. /\ \A d \in Customers : \A m \in IdSet(pending[d]) : processedAt'[m] = Never
      /\ \A u \in Tasks : u # t /\ Holds(u) =>
            \A m \in IdSet(batch[u]) : ~Has(m) => processedAt'[m] = Never
  BY <1>5, <1>6, OthersUnrecorded
<1>9. /\ processedAt' \in [MessageIds -> Nat \cup {Never}]
      /\ \A m \in MessageIds :
            /\ m \in ids /\ ~Has(m) => processedAt'[m] = clock
            /\ processedAt[m] = clock => processedAt'[m] = clock
            /\ m \notin ids /\ ~Has(m) => processedAt'[m] = Never
            /\ Has(m) => processedAt'[m] \in {Never, processedAt[m]}
            /\ Has(m) /\ processedAt'[m] = Never => processedAt[m] < clock - Retention
  BY <1>1, <1>2, <1>5, <1>6, RecordedRows
<1>10. /\ TaskTypeOK'
       /\ OthersKept(t)
       /\ BatchInv(t)' /\ TaskInv(t)' /\ BatchMemory(t)'
       /\ Holds(t)' => CustomerOf(t)' = c
  <2>1. CASE Abort(t)
    <3>1. <<>> \in Seq(Message) /\ Staffed(<<>>)
      BY EmptySeq DEF Staffed
    <3>2. /\ TaskTypeOK'
          /\ OthersKept(t)
          /\ pc'[t] \in {"idle", "admit"}
          /\ pc'[t] = "admit" => events'[t] # <<>>
          /\ events'[t] = <<>>
      BY <1>1, <2>1, <3>1, AdvanceProperties
    <3> QED
      BY <3>1, <3>2, Resting
  <2>2. CASE Become(t, "flush", events[t], batch[t])
    <3>1. /\ TaskTypeOK'
          /\ OthersKept(t)
          /\ pc'[t] = "flush" /\ events'[t] = events[t] /\ batch'[t] = batch[t]
          /\ handler'[t] = handler[t]
      BY <1>1, <1>2, <2>2, BecomeProperties
    <3>2. CustomerOf(t)' = c
      BY <3>1 DEF c, CustomerOf, Sender
    <3>3. BatchInv(t)'
      BY <1>2, <1>3, <3>1, <3>2 DEF BatchInv
    <3>4. TaskInv(t)'
      BY <1>2, <3>1 DEF TaskInv
    <3>5. BatchMemory(t)'
      <4> SUFFICES ASSUME NEW m \in IdSet(batch[t]), processedAt'[m] # Never
                   PROVE  processedAt'[m] = clock
        BY <1>3, <3>1 DEF BatchMemory, Has
      <4>1. m \in MessageIds /\ (Has(m) => processedAt[m] = clock)
        BY <1>2 DEF BatchMemory
      <4> QED
        BY <1>9, <4>1
    <3> QED
      BY <3>1, <3>2, <3>3, <3>4, <3>5
  <2> QED
    BY <2>1, <2>2
<1>11. TypeOK'
  <2>1. /\ Trim(recentlyProcessed[c] \o Ids(batch[t])) \in Seq(MessageIds)
        /\ Len(Trim(recentlyProcessed[c] \o Ids(batch[t]))) <= MaxRecentlyProcessed
    BY <1>1, <1>2, PushProperties
  <2>2. \A d \in Customers : Len(recentlyProcessed'[d]) <= MaxRecentlyProcessed
    BY <1>1, <1>3, <2>1 DEF IInv, TypeOK, QueueTypeOK
  <2> QED
    BY <1>1, <1>2, <1>3, <1>9, <1>10, <2>1, <2>2
    DEF IInv, TypeOK, TaskTypeOK, QueueTypeOK, StoreTypeOK
<1>12. OneMover'
  BY <1>10, MoverStep
<1>13. OneHandlerPerCustomer'
  BY <1>7, <1>10, HandlerStep DEF IInv
<1>14. ASSUME NEW u \in Tasks PROVE BatchInv(u)' /\ TaskInv(u)' /\ BatchMemory(u)'
  <2>1. CASE u = t
    BY <1>10, <2>1
  <2>2. CASE u # t
    BY <1>3, <1>8, <1>10, <2>2, Bystander
  <2> QED
    BY <2>1, <2>2
<1>15. ASSUME NEW d \in Customers PROVE QueueInv(d)'
  BY <1>3, <1>8, QueueUntouched DEF IInv
<1>16. TableMemory'
  <2> SUFFICES ASSUME NEW m \in MessageIds,
                      completedAt[m] # Never, clock - completedAt[m] <= Retention
               PROVE  processedAt'[m] = completedAt[m]
    BY <1>3 DEF TableMemory
  <2>1. processedAt[m] = completedAt[m] /\ Has(m) /\ completedAt[m] \in Nat
    BY <1>1 DEF IInv, TableMemory, Has
  <2> QED
    BY <1>1, <1>9, <2>1, RetentionAssumption DEF StoreTypeOK
<1> QED
  BY <1>11, <1>12, <1>13, <1>14, <1>15, <1>16 DEF IInv

\* The handler rejects: its batch is kept, to be completed unhandled.
LEMMA RejectsInv ==
    ASSUME IInv, NEW t \in Tasks, HandlerRejects(t)
    PROVE  IInv'
<1>1. /\ pc[t] = "handle" /\ handler[t] = "agent" /\ Quiet
      /\ Become(t, "flush", events[t], batch[t])
      /\ UNCHANGED <<inFlight, inFlightMessageIds, pending, recentlyProcessed,
                     processedAt, clock, now, completedAt>>
  BY DEF HandlerRejects, queueVars, storeVars
<1>2. TaskTypeOK /\ events[t] \in Seq(Message) /\ batch[t] \in Seq(Message)
  BY DEF IInv, TypeOK, TaskTypeOK
<1>3. /\ TaskTypeOK'
      /\ OthersKept(t)
      /\ pc'[t] = "flush" /\ events'[t] = events[t] /\ batch'[t] = batch[t]
      /\ handler'[t] = handler[t]
  BY <1>1, <1>2, BecomeProperties
<1>4. MayRun(t) /\ Holds(t)
  BY <1>1 DEF Quiet, MayRun, Holds
<1>5. CustomerOf(t)' = CustomerOf(t)
  BY <1>3 DEF CustomerOf, Sender
<1>6. BatchInv(t) /\ TaskInv(t) /\ BatchMemory(t)
  BY DEF IInv
<1>7. BatchInv(t)' /\ TaskInv(t)' /\ BatchMemory(t)'
  <2>1. BatchInv(t)'
    BY <1>1, <1>3, <1>4, <1>5, <1>6 DEF BatchInv
  <2>2. TaskInv(t)'
    BY <1>1, <1>3, <1>6 DEF TaskInv
  <2>3. BatchMemory(t)'
    BY <1>1, <1>3, <1>4, <1>6 DEF BatchMemory, Has
  <2> QED
    BY <2>1, <2>2, <2>3
<1>8. TypeOK'
  BY <1>1, <1>3 DEF IInv, TypeOK, TaskTypeOK, QueueTypeOK, StoreTypeOK
<1>9. OneMover'
  BY <1>3, <1>4, MoverStep
<1>10. OneHandlerPerCustomer'
  BY <1>3, <1>4, <1>5, HandlerStep DEF IInv, OneHandlerPerCustomer
<1>11. ASSUME NEW u \in Tasks PROVE BatchInv(u)' /\ TaskInv(u)' /\ BatchMemory(u)'
  <2>1. CASE u = t
    BY <1>7, <2>1
  <2>2. CASE u # t
    BY <1>1, <1>3, <1>4, <2>2, Bystander DEF Has
  <2> QED
    BY <2>1, <2>2
<1>12. ASSUME NEW c \in Customers PROVE QueueInv(c)'
  BY <1>1 DEF IInv, QueueInv, Has
<1>13. TableMemory'
  BY <1>1 DEF IInv, TableMemory
<1> QED
  BY <1>8, <1>9, <1>10, <1>11, <1>12, <1>13 DEF IInv

-----------------------------------------------------------------------------
LEMMA InitInv == Init => IInv
<1> SUFFICES ASSUME Init PROVE IInv
  OBVIOUS
<1>1. \A t \in Tasks : pc[t] = "idle" /\ handler[t] = "none"
  BY DEF Init
<1>2. \A c \in Customers : pending[c] = <<>> /\ inFlightMessageIds[c] = {}
  BY DEF Init, EmptyQueues
<1>3. \A m \in MessageIds : completedAt[m] = Never
  BY DEF Init
<1>4. IdSet(<<>>) = {} /\ <<>> \in Seq(Message) /\ <<>> \in Seq(MessageIds)
  BY EmptySeq DEF IdSet
<1>5. TypeOK
  BY <1>4, EmptyFits DEF Init, EmptyQueues, StoreInit, TypeOK, QueueTypeOK, StoreTypeOK
<1>6. OneMover /\ OneHandlerPerCustomer
  BY <1>1 DEF OneMover, OneHandlerPerCustomer, Synchronous, Holds
<1>7. \A c \in Customers : QueueInv(c)
  BY <1>2, <1>4 DEF QueueInv
<1>8. \A t \in Tasks : BatchInv(t) /\ TaskInv(t) /\ BatchMemory(t)
  BY <1>1 DEF BatchInv, TaskInv, BatchMemory, Holds
<1>9. TableMemory
  BY <1>3 DEF TableMemory
<1> QED
  BY <1>5, <1>6, <1>7, <1>8, <1>9 DEF IInv

\* A crash leaves the table, and no batch that could disagree with it.
LEMMA CrashInv == IInv /\ Crash => IInv'
<1> SUFFICES ASSUME IInv, Crash PROVE IInv'
  OBVIOUS
<1>1. \A t \in Tasks : pc'[t] = "idle" /\ handler'[t] = "none"
  BY DEF Crash
<1>2. \A c \in Customers : pending'[c] = <<>> /\ inFlightMessageIds'[c] = {}
  BY DEF Crash, LoseQueues
<1>3. UNCHANGED <<processedAt, clock, now, completedAt>>
  BY DEF Crash, storeVars
<1>4. IdSet(<<>>) = {} /\ <<>> \in Seq(Message) /\ <<>> \in Seq(MessageIds)
  BY EmptySeq DEF IdSet
<1>5. TypeOK'
  BY <1>3, <1>4, EmptyFits DEF IInv, Crash, LoseQueues, TypeOK, QueueTypeOK, StoreTypeOK
<1>6. OneMover' /\ OneHandlerPerCustomer'
  BY <1>1 DEF OneMover, OneHandlerPerCustomer, Synchronous, Holds
<1>7. \A c \in Customers : QueueInv(c)'
  BY <1>2, <1>4 DEF QueueInv
<1>8. \A t \in Tasks : BatchInv(t)' /\ TaskInv(t)' /\ BatchMemory(t)'
  BY <1>1 DEF BatchInv, TaskInv, BatchMemory, Holds
<1>9. TableMemory'
  BY <1>3 DEF IInv, TableMemory
<1> QED
  BY <1>5, <1>6, <1>7, <1>8, <1>9 DEF IInv

\* Time passes only between pieces of synchronous code, when no batch has been
\* recorded in part.
LEMMA TimeInv == IInv /\ (ClockTicks \/ HoursTurn \/ UNCHANGED vars) => IInv'
<1> SUFFICES ASSUME IInv, ClockTicks \/ HoursTurn \/ UNCHANGED vars PROVE IInv'
  OBVIOUS
<1>1. UNCHANGED <<inFlight, inFlightMessageIds, pending, recentlyProcessed,
                  processedAt, pc, events, handler, batch, completedAt>>
  BY DEF ClockTicks, HoursTurn, vars, queueVars, storeVars, taskVars
<1>2. clock' = clock \/ (clock' = clock + 1 /\ Quiet)
  BY DEF ClockTicks, HoursTurn, vars, storeVars
<1>3. now' \in Moments
  BY DEF ClockTicks, HoursTurn, vars, IInv, TypeOK
<1>4. clock \in Nat /\ completedAt \in [MessageIds -> Nat \cup {Never}]
  BY DEF IInv, TypeOK, StoreTypeOK
<1>5. TypeOK'
  BY <1>1, <1>2, <1>3 DEF IInv, TypeOK, QueueTypeOK, StoreTypeOK
<1>6. OneMover' /\ OneHandlerPerCustomer'
  <2>1. OneMover'
    BY <1>1 DEF IInv, OneMover, Synchronous
  <2>2. OneHandlerPerCustomer'
    BY <1>1 DEF IInv, OneHandlerPerCustomer, Holds, CustomerOf, Sender
  <2> QED
    BY <2>1, <2>2
<1>7. \A c \in Customers : QueueInv(c)'
  BY <1>1 DEF IInv, QueueInv, Has
<1>8. ASSUME NEW t \in Tasks PROVE BatchInv(t)' /\ TaskInv(t)' /\ BatchMemory(t)'
  <2>1. BatchInv(t) /\ TaskInv(t) /\ BatchMemory(t)
    BY DEF IInv
  <2>2. BatchInv(t)'
    BY <1>1, <2>1 DEF BatchInv, Holds, CustomerOf, Sender
  <2>3. TaskInv(t)'
    BY <1>1, <2>1 DEF TaskInv, Staffed, CustomerOf, Sender
  <2>4. pc[t] = "flush" => clock' = clock
    BY <1>2 DEF Quiet, Synchronous
  <2>5. BatchMemory(t)'
    BY <1>1, <2>1, <2>4 DEF BatchMemory, Holds, Has
  <2> QED
    BY <2>2, <2>3, <2>5
<1>9. TableMemory'
  <2> SUFFICES ASSUME NEW m \in MessageIds,
                      completedAt[m] # Never, clock' - completedAt[m] <= Retention
               PROVE  processedAt[m] = completedAt[m]
    BY <1>1 DEF TableMemory
  <2>1. completedAt[m] \in Nat
    BY <1>4
  <2>2. clock - completedAt[m] <= Retention
    BY <1>2, <1>4, <2>1, RetentionAssumption
  <2> QED
    BY <2>2 DEF IInv, TableMemory
<1> QED
  BY <1>5, <1>6, <1>7, <1>8, <1>9 DEF IInv

\* A task is staff's only if its messages arrived while staff were there: the
\* handler is chosen at the moment they arrive.
LEMMA ReceiveInv ==
    ASSUME IInv, NEW t \in Tasks, NEW update \in Updates, Receive(t, update)
    PROVE  IInv'
<1>1. /\ pc[t] = "idle" /\ Quiet
      /\ \A i \in DOMAIN update : update[i].payload.staffed = StaffAtDesk(now)
      /\ pc' = [pc EXCEPT ![t] = "admit"]
      /\ events' = [events EXCEPT ![t] = update]
      /\ handler' = [handler EXCEPT ![t] = ChooseHandler(update)]
      /\ UNCHANGED <<inFlight, inFlightMessageIds, pending, recentlyProcessed,
                     processedAt, clock, batch, now, completedAt>>
  BY DEF Receive, queueVars, storeVars
<1>2. update \in Seq(Message) /\ update # <<>>
  BY DispatchAssumption
<1>3. /\ TaskTypeOK
      /\ now \in Nat
      /\ ChooseHandler(update) \in {"agent", "staff", "redirect"}
  BY DispatchAssumption DEF IInv, TypeOK, TaskTypeOK, ChooseHandler
<1>4. ChooseHandler(update) = "staff" => Staffed(update)
  <2> SUFFICES ASSUME ChooseHandler(update) = "staff" PROVE Staffed(update)
    OBVIOUS
  <2>1. isWithinWorkingHours(now)
    BY DEF ChooseHandler
  <2>2. StaffAtDesk(now)
    BY <1>3, <2>1, HoursAreKept
  <2> QED
    BY <1>1, <2>2 DEF Staffed
<1>5. TaskTypeOK' /\ OthersKept(t)
  BY <1>1, <1>2, <1>3 DEF TaskTypeOK, OthersKept
<1>6. /\ pc'[t] = "admit" /\ events'[t] = update
      /\ handler'[t] = ChooseHandler(update)
  BY <1>1, <1>3 DEF TaskTypeOK
<1>7. MayRun(t)
  BY <1>1 DEF Quiet, MayRun
<1>8. BatchInv(t)' /\ TaskInv(t)' /\ BatchMemory(t)' /\ ~Holds(t)'
  BY <1>2, <1>4, <1>6, Resting
<1>9. TypeOK'
  BY <1>1, <1>5 DEF IInv, TypeOK, TaskTypeOK, QueueTypeOK, StoreTypeOK
<1>10. OneMover'
  BY <1>5, <1>7, MoverStep
<1>11. OneHandlerPerCustomer'
  BY <1>5, <1>8, HandlerStep DEF IInv
<1>12. ASSUME NEW u \in Tasks PROVE BatchInv(u)' /\ TaskInv(u)' /\ BatchMemory(u)'
  <2>1. CASE u = t
    BY <1>8, <2>1
  <2>2. CASE u # t
    BY <1>1, <1>5, <1>7, <2>2, Bystander DEF Has
  <2> QED
    BY <2>1, <2>2
<1>13. ASSUME NEW c \in Customers PROVE QueueInv(c)'
  BY <1>1 DEF IInv, QueueInv, Has
<1>14. TableMemory'
  BY <1>1 DEF IInv, TableMemory
<1> QED
  BY <1>9, <1>10, <1>11, <1>12, <1>13, <1>14 DEF IInv

-----------------------------------------------------------------------------
\* The event AdmitNext takes and what it leaves.
LEMMA AdmitEvent ==
    ASSUME IInv, NEW t \in Tasks, pc[t] = "admit"
    PROVE  /\ Head(events[t]) \in Message
           /\ Tail(events[t]) \in Seq(Message)
           /\ handler[t] = "staff" => /\ Staffed(Tail(events[t]))
                                      /\ Head(events[t]).payload.staffed
<1>1. events[t] \in Seq(Message) /\ TaskInv(t)
  BY DEF IInv, TypeOK
<1>2. events[t] # <<>>
  BY <1>1 DEF TaskInv
<1> QED
  BY <1>1, <1>2, TailProperties DEF TaskInv

\* The invariant is inductive: one case for every outcome of every action.
LEMMA NextInv == IInv /\ [Next]_vars => IInv'
<1> SUFFICES ASSUME IInv, [Next]_vars PROVE IInv'
  OBVIOUS
<1>1. ASSUME NEW t \in Tasks, AdmitNext(t) PROVE IInv'
  <2> DEFINE message == Head(events[t])
             rest == Tail(events[t])
  <2>1. /\ pc[t] = "admit" /\ MayRun(t)
        /\ \/ AdmitDuplicate(message) /\ Advance(t, rest)
           \/ AdmitQueued(message) /\ Advance(t, rest)
           \/ AdmitProcess(message) /\ Become(t, "handle", rest, FirstBatch(message))
           \/ "read" \in StoreFaults /\ AdmitThrows(message) /\ Abort(t)
        /\ UNCHANGED <<now, completedAt>>
    BY <1>1 DEF AdmitNext
  <2>2. /\ message \in Message
        /\ rest \in Seq(Message)
        /\ handler[t] = "staff" => Staffed(rest) /\ message.payload.staffed
    BY <2>1, AdmitEvent
  <2> HIDE DEF message, rest
  <2>3. CASE AdmitDuplicate(message) /\ Advance(t, rest)
    BY <2>1, <2>2, <2>3, DroppedInv DEF AdmitDuplicate
  <2>4. CASE AdmitQueued(message) /\ Advance(t, rest)
    BY <2>1, <2>2, <2>4, QueuedInv
  <2>5. CASE AdmitProcess(message) /\ Become(t, "handle", rest, FirstBatch(message))
    BY <2>1, <2>2, <2>5, ProcessInv
  <2>6. CASE AdmitThrows(message) /\ Abort(t)
    <3>1. <<>> \in Seq(Message) /\ Staffed(<<>>)
      BY EmptySeq DEF Staffed
    <3> QED
      BY <2>1, <2>6, <3>1, DroppedInv DEF AdmitThrows
  <2> QED
    BY <2>1, <2>3, <2>4, <2>5, <2>6
<1>2. ASSUME NEW t \in Tasks, HandlerResolves(t) PROVE IInv'
  <2>1. Holds(t) /\ pc[t] = "handle" /\ MayRun(t)
    BY <1>2 DEF HandlerResolves, Holds
  <2>2. CASE /\ CompleteBatch(t)
             /\ IF NextBatch(CustomerOf(t)) = <<>>
                THEN Advance(t, events[t])
                ELSE Become(t, "handle", events[t], NextBatch(CustomerOf(t)))
    BY <1>2, <2>1, <2>2, CompleteInv DEF HandlerResolves
  <2>3. CASE CompleteThrows(CustomerOf(t), batch[t]) /\ Become(t, "flush", events[t], batch[t])
                /\ UNCHANGED completedAt
    BY <1>2, <2>1, <2>3, ThrowsInv DEF HandlerResolves
  <2> QED
    BY <1>2, <2>2, <2>3 DEF HandlerResolves
<1>3. ASSUME NEW t \in Tasks, DrainStuck(t) PROVE IInv'
  <2>1. Holds(t) /\ pc[t] = "flush" /\ MayRun(t)
    BY <1>3 DEF DrainStuck, Holds
  <2>2. CASE /\ CompleteBatch(t)
             /\ IF NextBatch(CustomerOf(t)) = <<>>
                THEN Advance(t, events[t])
                ELSE Become(t, "flush", events[t], NextBatch(CustomerOf(t)))
    BY <1>3, <2>1, <2>2, CompleteInv DEF DrainStuck
  <2>3. CASE CompleteThrows(CustomerOf(t), batch[t]) /\ Abort(t) /\ UNCHANGED completedAt
    BY <1>3, <2>1, <2>3, ThrowsInv DEF DrainStuck
  <2> QED
    BY <1>3, <2>2, <2>3 DEF DrainStuck
<1>4. ASSUME NEW t \in Tasks, HandlerRejects(t) PROVE IInv'
  BY <1>4, RejectsInv
<1>5. ASSUME NEW t \in Tasks, NEW update \in Updates, Receive(t, update) PROVE IInv'
  BY <1>5, ReceiveInv
<1>6. CASE Crash
  BY <1>6, CrashInv
<1>7. CASE ClockTicks \/ HoursTurn \/ UNCHANGED vars
  BY <1>7, TimeInv
<1> QED
  BY <1>1, <1>2, <1>3, <1>4, <1>5, <1>6, <1>7 DEF Next, Step

\* The inductive invariant holds of every reachable state.
THEOREM Invariance == Spec => []IInv
<1>1. Init => IInv
  BY InitInv
<1>2. IInv /\ [Next]_vars => IInv'
  BY NextInv
<1> QED
  BY <1>1, <1>2, PTL DEF Spec

\* Queues, tables, tasks and their batches keep their types.
THEOREM TypeCorrect == Spec => []TypeOK
<1>1. IInv => TypeOK
  BY DEF IInv
<1> QED
  BY <1>1, Invariance, PTL

\* handleParsedUpdate never has two handlers at work for one customer, however
\* updates, handlers, store failures and crashes interleave.
THEOREM HandlersAreApart == Spec => []OneHandlerPerCustomer
<1>1. IInv => OneHandlerPerCustomer
  BY DEF IInv
<1> QED
  BY <1>1, Invariance, PTL

\* The staff hand-off swallows no message that arrived outside working hours:
\* it is chosen when its update arrives and awaits nothing, so that no later
\* message can join its batch.
THEOREM OffHoursAreTheAgents == Spec => []OffHoursMessageReachesAgent
<1>1. IInv => OffHoursMessageReachesAgent
  BY DEF IInv, TaskInv, Staffed, OffHoursMessageReachesAgent
<1> QED
  BY <1>1, Invariance, PTL

-----------------------------------------------------------------------------
\* What a step of a task does to the queues and to its own batch, once the
\* bookkeeping of its update is set aside: it drops or queues a message while
\* it has no batch, starts on the batch of an idle customer, completes its
\* batch and goes on with the next or lets go, or keeps or gives up its batch
\* while the queues stay as they are.
Drops(t) == ~Holds(t) /\ ~Holds(t)' /\ UNCHANGED <<queueVars, storeVars, completedAt>>

Queues(t, message) ==
    /\ ~Holds(t) /\ ~Holds(t)'
    /\ AdmitQueued(message)
    /\ UNCHANGED completedAt

Starts(t, message) ==
    /\ ~Holds(t) /\ Holds(t)'
    /\ AdmitProcess(message)
    /\ batch'[t] = FirstBatch(message)
    /\ UNCHANGED completedAt

GoesOn(t) ==
    /\ Holds(t) /\ CompleteBatch(t)
    /\ IF NextBatch(CustomerOf(t)) = <<>>
       THEN ~Holds(t)' /\ batch'[t] = <<>>
       ELSE pc'[t] = pc[t] /\ batch'[t] = NextBatch(CustomerOf(t))

Fails(t) ==
    /\ Holds(t) /\ Holds(t)' /\ batch'[t] = batch[t]
    /\ UNCHANGED <<queueVars, storeVars, completedAt>>

Throws(t) ==
    /\ "write" \in StoreFaults
    /\ Holds(t) /\ batch'[t] \in {batch[t], <<>>}
    /\ CompleteThrows(CustomerOf(t), batch[t])
    /\ UNCHANGED completedAt

Kinds(t) ==
    \/ Drops(t) /\ batch'[t] = <<>>
    \/ \E message \in Message : Queues(t, message) /\ batch'[t] = <<>>
    \/ \E message \in Message : Starts(t, message)
    \/ GoesOn(t) \/ Fails(t) \/ Throws(t)

\* Every step of a task is of one of these kinds.
LEMMA StepKinds ==
    ASSUME IInv, NEW t \in Tasks, Step(t)
    PROVE  OthersKept(t) /\ Kinds(t)
<1>1. /\ TaskTypeOK
      /\ events[t] \in Seq(Message) /\ batch[t] \in Seq(Message)
      /\ <<>> \in Seq(Message)
      /\ \A c \in Customers : pending[c] \in Seq(Message)
  BY EmptySeq DEF IInv, TypeOK, TaskTypeOK, QueueTypeOK
<1>2. ASSUME NEW rest \in Seq(Message), Advance(t, rest) \/ Abort(t)
      PROVE  OthersKept(t) /\ ~Holds(t)' /\ batch'[t] = <<>>
  <2>1. CASE Advance(t, rest)
    BY <1>1, <2>1, BecomeProperties DEF Advance, Holds
  <2>2. CASE Abort(t)
    BY <1>1, <2>2, BecomeProperties DEF Abort, Holds
  <2> QED
    BY <1>2, <2>1, <2>2
<1>3. CASE AdmitNext(t)
  <2> DEFINE message == Head(events[t])
             rest == Tail(events[t])
  <2>1. /\ pc[t] = "admit"
        /\ \/ AdmitDuplicate(message) /\ Advance(t, rest)
           \/ AdmitQueued(message) /\ Advance(t, rest)
           \/ AdmitProcess(message) /\ Become(t, "handle", rest, FirstBatch(message))
           \/ "read" \in StoreFaults /\ AdmitThrows(message) /\ Abort(t)
        /\ UNCHANGED <<now, completedAt>>
    BY <1>3 DEF AdmitNext
  <2>2. message \in Message /\ rest \in Seq(Message) /\ ~Holds(t)
    BY <2>1, AdmitEvent DEF Holds
  <2> HIDE DEF message, rest
  <2>3. CASE AdmitDuplicate(message) /\ Advance(t, rest)
    BY <1>2, <2>1, <2>2, <2>3 DEF AdmitDuplicate, Kinds, Drops
  <2>4. CASE AdmitQueued(message) /\ Advance(t, rest)
    BY <1>2, <2>1, <2>2, <2>4 DEF Kinds, Queues
  <2>5. CASE AdmitProcess(message) /\ Become(t, "handle", rest, FirstBatch(message))
    <3>1. FirstBatch(message) \in Seq(Message)
      BY <2>2, <2>5, FirstBatchProperties DEF AdmitProcess
    <3>2. OthersKept(t) /\ pc'[t] = "handle" /\ batch'[t] = FirstBatch(message)
      BY <1>1, <2>2, <2>5, <3>1, BecomeProperties
    <3> QED
      BY <2>1, <2>2, <2>5, <3>2 DEF Kinds, Starts, Holds
  <2>6. CASE AdmitThrows(message) /\ Abort(t)
    BY <1>2, <2>1, <2>2, <2>6 DEF AdmitThrows, Kinds, Drops
  <2> QED
    BY <2>1, <2>3, <2>4, <2>5, <2>6
<1>4. ASSUME Holds(t), CompleteBatch(t),
             IF NextBatch(CustomerOf(t)) = <<>>
             THEN Advance(t, events[t])
             ELSE Become(t, pc[t], events[t], NextBatch(CustomerOf(t)))
      PROVE  OthersKept(t) /\ Kinds(t)
  <2>1. CASE NextBatch(CustomerOf(t)) = <<>>
    BY <1>1, <1>2, <1>4, <2>1 DEF Kinds, GoesOn
  <2>2. CASE NextBatch(CustomerOf(t)) # <<>>
    <3>1. NextBatch(CustomerOf(t)) \in Seq(Message)
      BY <1>1, <1>4, Holder, SortPermutes DEF NextBatch
    <3>2. pc[t] \in {"idle", "admit", "handle", "flush"}
      BY <1>1 DEF TaskTypeOK
    <3>3. /\ OthersKept(t)
          /\ pc'[t] = pc[t] /\ batch'[t] = NextBatch(CustomerOf(t))
      BY <1>1, <1>4, <2>2, <3>1, <3>2, BecomeProperties
    <3> QED
      BY <1>4, <2>2, <3>3 DEF Kinds, GoesOn
  <2> QED
    BY <2>1, <2>2
<1>5. ASSUME Become(t, "flush", events[t], batch[t])
      PROVE  OthersKept(t) /\ Holds(t)' /\ batch'[t] = batch[t]
  BY <1>1, <1>5, BecomeProperties DEF Holds
<1>6. ASSUME "write" \in StoreFaults, Holds(t), CompleteThrows(CustomerOf(t), batch[t]),
             Become(t, "flush", events[t], batch[t]) \/ Abort(t),
             UNCHANGED completedAt
      PROVE  OthersKept(t) /\ Kinds(t)
  <2>1. OthersKept(t) /\ batch'[t] \in {batch[t], <<>>}
    BY <1>1, <1>2, <1>5, <1>6
  <2> QED
    BY <1>6, <2>1 DEF Kinds, Throws
<1>7. CASE HandlerResolves(t)
  <2>1. Holds(t) /\ pc[t] = "handle"
    BY <1>7 DEF HandlerResolves, Holds
  <2>2. CASE /\ CompleteBatch(t)
             /\ IF NextBatch(CustomerOf(t)) = <<>>
                THEN Advance(t, events[t])
                ELSE Become(t, "handle", events[t], NextBatch(CustomerOf(t)))
    BY <1>4, <2>1, <2>2
  <2>3. CASE /\ "write" \in StoreFaults
             /\ CompleteThrows(CustomerOf(t), batch[t])
             /\ Become(t, "flush", events[t], batch[t])
             /\ UNCHANGED completedAt
    BY <1>6, <2>1, <2>3
  <2> QED
    BY <1>7, <2>2, <2>3 DEF HandlerResolves
<1>8. CASE DrainStuck(t)
  <2>1. Holds(t) /\ pc[t] = "flush"
    BY <1>8 DEF DrainStuck, Holds
  <2>2. CASE /\ CompleteBatch(t)
             /\ IF NextBatch(CustomerOf(t)) = <<>>
                THEN Advance(t, events[t])
                ELSE Become(t, "flush", events[t], NextBatch(CustomerOf(t)))
    BY <1>4, <2>1, <2>2
  <2>3. CASE /\ "write" \in StoreFaults
             /\ CompleteThrows(CustomerOf(t), batch[t])
             /\ Abort(t)
             /\ UNCHANGED completedAt
    BY <1>6, <2>1, <2>3
  <2> QED
    BY <1>8, <2>2, <2>3 DEF DrainStuck
<1>9. CASE HandlerRejects(t)
  BY <1>5, <1>9 DEF HandlerRejects, Holds, Kinds, Fails
<1> QED
  BY <1>3, <1>7, <1>8, <1>9 DEF Step

\* What each kind of step takes out of the queues, and what it puts into the
\* batch of the task.
LEMMA KindEffects ==
    ASSUME IInv, NEW t \in Tasks, Kinds(t)
    PROVE  /\ \A c \in Customers : \A m \in IdSet(pending[c]) \ IdSet(pending'[c]) :
                 m \in IdSet(batch'[t]) /\ Holds(t) /\ CustomerOf(t) = c /\ pc'[t] = pc[t]
           /\ batch'[t] # batch[t] =>
                 \A m \in IdSet(batch'[t]) : m \in MessageIds /\ ~Has(m)
<1>1. /\ pending \in [Customers -> Seq(Message)]
      /\ QueueTypeOK /\ StoreTypeOK
      /\ \A c \in Customers : QueueInv(c)
      /\ IdSet(<<>>) = {}
  BY DEF IInv, TypeOK, QueueTypeOK, IdSet
<1>2. CASE Drops(t) /\ batch'[t] = <<>>
  BY <1>1, <1>2 DEF Drops, queueVars
<1>3. ASSUME NEW message \in Message, Queues(t, message), batch'[t] = <<>>
      PROVE  /\ \A c \in Customers : IdSet(pending[c]) \subseteq IdSet(pending'[c])
             /\ IdSet(batch'[t]) = {}
  <2> DEFINE c == Owner[message.messageId]
             put == Put(pending[c], message)
  <2>1. c \in Customers /\ pending' = [pending EXCEPT ![c] = put]
    BY <1>3, DebouncerAssumption DEF Message, Queues, AdmitQueued
  <2>2. IdSet(put) = IdSet(pending[c]) \cup {message.messageId}
    BY <1>1, <2>1, PutProperties
  <2> HIDE DEF c, put
  <2>3. \A d \in Customers : pending'[d] = IF d = c THEN put ELSE pending[d]
    BY <1>1, <2>1
  <2> QED
    BY <1>1, <1>3, <2>2, <2>3
<1>4. ASSUME NEW message \in Message, Starts(t, message)
      PROVE  /\ \A c \in Customers : pending'[c] = pending[c]
             /\ IdSet(batch'[t]) = {message.messageId}
             /\ message.messageId \in MessageIds /\ ~Has(message.messageId)
  <2>1. /\ ~inFlight[Owner[message.messageId]] /\ ~Has(message.messageId)
        /\ pending' = [pending EXCEPT ![Owner[message.messageId]] = <<>>]
    BY <1>4 DEF Starts, AdmitProcess, IsDuplicate, Drain
  <2>2. /\ Owner[message.messageId] \in Customers
        /\ message.messageId \in MessageIds
        /\ pending[Owner[message.messageId]] = <<>>
        /\ IdSet(FirstBatch(message)) = {message.messageId}
    BY <2>1, FirstBatchProperties
  <2> QED
    BY <1>1, <1>4, <2>1, <2>2 DEF Starts
<1>5. CASE GoesOn(t)
  <2> DEFINE c == CustomerOf(t)
             next == NextBatch(CustomerOf(t))
  <2>1. c \in Customers /\ batch[t] \in Seq(Message) /\ Holds(t) /\ Complete(c, batch[t])
    BY <1>5, Holder DEF GoesOn, CompleteBatch
  <2>2. /\ pending' = [pending EXCEPT ![c] = <<>>]
        /\ IdSet(next) = IdSet(pending[c])
        /\ next = <<>> <=> pending[c] = <<>>
    BY <1>1, <2>1, CompleteProperties
  <2>3. IF next = <<>>
        THEN batch'[t] = <<>>
        ELSE pc'[t] = pc[t] /\ batch'[t] = next
    BY <1>5 DEF GoesOn
  <2> HIDE DEF next
  <2>4. \A m \in IdSet(next) : m \in MessageIds /\ ~Has(m)
    BY <1>1, <2>1, <2>2, IdsProperties DEF QueueInv
  <2>5. \A d \in Customers : pending'[d] = IF d = c THEN <<>> ELSE pending[d]
    BY <1>1, <2>2
  <2>6. ASSUME NEW d \in Customers, NEW m \in IdSet(pending[d]) \ IdSet(pending'[d])
        PROVE  d = c /\ m \in IdSet(batch'[t]) /\ pc'[t] = pc[t]
    BY <1>1, <2>2, <2>3, <2>5, <2>6
  <2>7. \A m \in IdSet(batch'[t]) : m \in MessageIds /\ ~Has(m)
    BY <1>1, <2>3, <2>4
  <2> QED
    BY <2>1, <2>6, <2>7
<1>6. CASE Fails(t)
  BY <1>6 DEF Fails, queueVars
<1>7. CASE Throws(t)
  <2>1. UNCHANGED pending /\ (batch'[t] # batch[t] => batch'[t] = <<>>)
    BY <1>7 DEF Throws, CompleteThrows
  <2> QED
    BY <1>1, <2>1
<1> QED
  BY <1>2, <1>3, <1>4, <1>5, <1>6, <1>7 DEF Kinds

\* A message leaves its queue only into the batch of the task that completes
\* the batch before it, whatever the store and the handlers do.
THEOREM QueueIsEmptiedByItsTask == Spec => LeavesQueueOnlyForATask
<1> DEFINE Leaves == \A c \in Customers : \A m \in IdSet(pending[c]) \ IdSet(pending'[c]) :
                        \E t \in Tasks : /\ m \in IdSet(batch'[t])
                                         /\ Holds(t) /\ CustomerOf(t) = c
                                         /\ pc'[t] = pc[t]
<1>1. IInv /\ [Next]_vars => [Crash \/ Leaves]_vars
  <2> SUFFICES ASSUME IInv, Next, ~Crash PROVE Leaves
    OBVIOUS
  <2>1. ASSUME NEW t \in Tasks, Step(t) PROVE Leaves
    BY <2>1, StepKinds, KindEffects
  <2>2. ASSUME NEW t \in Tasks, NEW update \in Updates, Receive(t, update) PROVE Leaves
    BY <2>2 DEF Receive, queueVars
  <2>3. CASE ClockTicks \/ HoursTurn
    BY <2>3 DEF ClockTicks, HoursTurn, queueVars
  <2> QED
    BY <2>1, <2>2, <2>3 DEF Next
<1> QED
  BY <1>1, Invariance, PTL DEF Spec, LeavesQueueOnlyForATask

\* A message complete() was told of is given to no handler again within the
\* retention period: neither a restart, nor a purge, nor a write of the store
\* that fails makes the program forget it.
THEOREM HandledOnce == Spec => NeverHandledAgain
<1> DEFINE Once == \A t \in Tasks : batch'[t] # batch[t] =>
                      \A m \in IdSet(batch'[t]) :
                         completedAt[m] = Never \/ clock - completedAt[m] > Retention
<1>1. IInv /\ [Next]_vars => [Once]_vars
  <2> SUFFICES ASSUME IInv, Next PROVE Once
    OBVIOUS
  <2>1. ASSUME NEW m \in MessageIds, ~Has(m)
        PROVE  completedAt[m] = Never \/ clock - completedAt[m] > Retention
    <3>1. clock \in Nat /\ completedAt[m] \in Nat \cup {Never}
      BY DEF IInv, TypeOK, StoreTypeOK
    <3>2. completedAt[m] # Never /\ clock - completedAt[m] <= Retention
             => processedAt[m] = completedAt[m]
      BY DEF IInv, TableMemory
    <3> QED
      BY <2>1, <3>1, <3>2, RetentionAssumption DEF Has
  <2>2. ASSUME NEW t \in Tasks, Step(t) PROVE Once
    <3>1. OthersKept(t) /\ Kinds(t)
      BY <2>2, StepKinds
    <3>2. batch'[t] # batch[t] => \A m \in IdSet(batch'[t]) : m \in MessageIds /\ ~Has(m)
      BY <3>1, KindEffects
    <3> QED
      BY <2>1, <3>1, <3>2 DEF OthersKept
  <2>3. ASSUME NEW t \in Tasks, NEW update \in Updates, Receive(t, update) PROVE Once
    BY <2>3 DEF Receive
  <2>4. CASE Crash
    <3>1. \A t \in Tasks : batch'[t] = <<>>
      BY <2>4 DEF Crash
    <3>2. IdSet(<<>>) = {}
      BY DEF IdSet
    <3> QED
      BY <3>1, <3>2
  <2>5. CASE ClockTicks \/ HoursTurn
    BY <2>5 DEF ClockTicks, HoursTurn, taskVars
  <2> QED
    BY <2>2, <2>3, <2>4, <2>5 DEF Next
<1> QED
  BY <1>1, Invariance, PTL DEF Spec, NeverHandledAgain

-----------------------------------------------------------------------------
\* The store's INSERT and DELETE never fail.
ReliableWrites == "write" \notin StoreFaults

\* The flag of a queue has a task behind it as long as the only task that could
\* give it up keeps it or clears it.
LEMMA CallerStep ==
    ASSUME QueueHasACaller, NEW t \in Tasks, OthersKept(t),
           \A c \in Customers : inFlight'[c] =>
              \/ Holds(t)' /\ CustomerOf(t)' = c
              \/ inFlight[c] /\ ~(Holds(t) /\ CustomerOf(t) = c)
    PROVE  QueueHasACaller'
<1> SUFFICES ASSUME NEW c \in Customers, inFlight'[c],
                    ~(Holds(t)' /\ CustomerOf(t)' = c)
             PROVE  \E u \in Tasks : Holds(u)' /\ CustomerOf(u)' = c
  BY DEF QueueHasACaller
<1>1. PICK u \in Tasks : Holds(u) /\ CustomerOf(u) = c
  BY DEF QueueHasACaller
<1>2. u # t
  BY <1>1
<1>3. (Holds(u)' <=> Holds(u)) /\ CustomerOf(u)' = CustomerOf(u)
  BY <1>2 DEF OthersKept, Holds, CustomerOf, Sender
<1> QED
  BY <1>1, <1>3

\* The customer of a task that starts on a batch, goes on or fails.
LEMMA CustomerKept ==
    ASSUME IInv, NEW t \in Tasks
    PROVE  /\ \A message \in Message : Starts(t, message) =>
                 CustomerOf(t)' = Owner[message.messageId]
           /\ GoesOn(t) /\ Holds(t)' => CustomerOf(t)' = CustomerOf(t)
           /\ GoesOn(t) => (Holds(t)' <=> NextBatch(CustomerOf(t)) # <<>>)
           /\ Fails(t) => CustomerOf(t)' = CustomerOf(t)
<1>1. ASSUME NEW message \in Message, Starts(t, message)
      PROVE  CustomerOf(t)' = Owner[message.messageId]
  <2>1. Sender(FirstBatch(message)[1]) = Owner[message.messageId]
    BY <1>1, FirstBatchProperties DEF Starts, AdmitProcess
  <2> QED
    BY <1>1, <2>1 DEF Starts, CustomerOf, Sender
<1>2. ASSUME GoesOn(t)
      PROVE  /\ Holds(t)' <=> NextBatch(CustomerOf(t)) # <<>>
             /\ Holds(t)' => CustomerOf(t)' = CustomerOf(t)
  <2> DEFINE next == NextBatch(CustomerOf(t))
  <2>1. /\ Holds(t)
        /\ IF next = <<>> THEN ~Holds(t)' ELSE pc'[t] = pc[t] /\ batch'[t] = next
    BY <1>2 DEF GoesOn
  <2>2. CustomerOf(t) \in Customers
    BY <2>1, Holder
  <2>3. pending[CustomerOf(t)] \in Seq(Message) /\ QueueInv(CustomerOf(t))
    BY <2>2 DEF IInv, TypeOK, QueueTypeOK
  <2>4. next \in Seq(Message) /\ IdSet(next) = IdSet(pending[CustomerOf(t)])
    BY <2>3, SortPermutes, SortKeepsIds DEF NextBatch
  <2> HIDE DEF next
  <2>5. Holds(t)' <=> next # <<>>
    BY <2>1 DEF Holds
  <2>6. ASSUME next # <<>> PROVE CustomerOf(t)' = CustomerOf(t)
    <3>1. next[1].messageId \in IdSet(next)
      BY <2>4, <2>6, LenProperties DEF IdSet
    <3>2. Owner[next[1].messageId] = CustomerOf(t)
      BY <2>3, <2>4, <3>1 DEF QueueInv
    <3>3. batch'[t] = next
      BY <2>1, <2>6
    <3> QED
      BY <3>2, <3>3 DEF CustomerOf, Sender
  <2> QED
    BY <2>5, <2>6 DEF next
<1>3. ASSUME Fails(t) PROVE CustomerOf(t)' = CustomerOf(t)
  BY <1>3 DEF Fails, CustomerOf, Sender
<1> QED
  BY <1>1, <1>2, <1>3

\* "drainStuck guarantees this customer's queue always returns to a clean, idle
\* state": so it does, if the writes of the store it depends on do not fail.
THEOREM CallersArePresent ==
    ASSUME ReliableWrites
    PROVE  Spec => []QueueHasACaller
<1>1. Init => QueueHasACaller
  BY DEF Init, EmptyQueues, QueueHasACaller
<1>2. IInv /\ QueueHasACaller /\ [Next]_vars => QueueHasACaller'
  <2> SUFFICES ASSUME IInv, QueueHasACaller, [Next]_vars PROVE QueueHasACaller'
    OBVIOUS
  <2>1. ASSUME NEW t \in Tasks, Step(t) PROVE QueueHasACaller'
    <3>1. OthersKept(t) /\ Kinds(t)
      BY <2>1, StepKinds
    <3>2. inFlight \in [Customers -> BOOLEAN]
      BY DEF IInv, TypeOK, QueueTypeOK
    <3>3. CASE Drops(t)
      BY <3>1, <3>3, CallerStep DEF Drops, queueVars
    <3>4. ASSUME NEW message \in Message, Queues(t, message) PROVE QueueHasACaller'
      BY <3>1, <3>4, CallerStep DEF Queues, AdmitQueued
    <3>5. ASSUME NEW message \in Message, Starts(t, message) PROVE QueueHasACaller'
      <4>1. ~Holds(t) /\ Holds(t)' /\ CustomerOf(t)' = Owner[message.messageId]
        BY <3>5, CustomerKept DEF Starts
      <4>2. inFlight' = [inFlight EXCEPT ![Owner[message.messageId]] = TRUE]
        BY <3>5 DEF Starts, AdmitProcess, Drain
      <4>3. \A c \in Customers : c # Owner[message.messageId] => inFlight'[c] = inFlight[c]
        BY <3>2, <4>2
      <4> QED
        BY <3>1, <4>1, <4>3, CallerStep
    <3>6. CASE GoesOn(t)
      <4> DEFINE c == CustomerOf(t)
      <4>1. c \in Customers /\ batch[t] \in Seq(Message) /\ Complete(c, batch[t])
        BY <3>6, Holder DEF GoesOn, CompleteBatch
      <4>2. inFlight' = [inFlight EXCEPT ![c] = (NextBatch(c) # <<>>)]
        BY <4>1, CompleteProperties DEF IInv, TypeOK
      <4>3. /\ Holds(t)' => CustomerOf(t)' = c
            /\ Holds(t)' <=> NextBatch(c) # <<>>
        BY <3>6, CustomerKept
      <4> HIDE DEF c
      <4>4. \A d \in Customers : inFlight'[d] = IF d = c THEN NextBatch(c) # <<>> ELSE inFlight[d]
        BY <3>2, <4>1, <4>2
      <4>5. \A d \in Customers : inFlight'[d] =>
               \/ Holds(t)' /\ CustomerOf(t)' = d
               \/ inFlight[d] /\ d # c
        BY <4>3, <4>4
      <4> QED
        BY <3>1, <4>5, CallerStep DEF c
    <3>7. CASE Fails(t)
      <4>1. Holds(t)' /\ CustomerOf(t)' = CustomerOf(t) /\ UNCHANGED inFlight
        BY <3>7, CustomerKept DEF Fails, queueVars
      <4> QED
        BY <3>1, <4>1, CallerStep
    <3> QED
      BY <3>1, <3>3, <3>4, <3>5, <3>6, <3>7 DEF Kinds, Throws, ReliableWrites
  <2>2. ASSUME NEW t \in Tasks, NEW update \in Updates, Receive(t, update)
        PROVE  QueueHasACaller'
    <3>1. /\ pc[t] = "idle" /\ pc' = [pc EXCEPT ![t] = "admit"]
          /\ inFlight' = inFlight /\ batch' = batch
      BY <2>2 DEF Receive, queueVars
    <3>2. \A u \in Tasks : Holds(u) => Holds(u)' /\ CustomerOf(u)' = CustomerOf(u)
      BY <3>1 DEF IInv, TypeOK, Holds, CustomerOf, Sender
    <3> QED
      BY <3>1, <3>2 DEF QueueHasACaller
  <2>3. CASE Crash
    BY <2>3 DEF Crash, LoseQueues, QueueHasACaller
  <2>4. CASE ClockTicks \/ HoursTurn \/ UNCHANGED vars
    BY <2>4 DEF ClockTicks, HoursTurn, vars, queueVars, taskVars, QueueHasACaller,
                Holds, CustomerOf, Sender
  <2> QED
    BY <2>1, <2>2, <2>3, <2>4 DEF Next
<1> QED
  BY <1>1, <1>2, Invariance, PTL DEF Spec

-----------------------------------------------------------------------------
\* The batch the protocol sees a customer's caller hold is that of the one task
\* that works for the customer, if there is one.
LEMMA HandedIs ==
    OneHandlerPerCustomer =>
       /\ \A t \in Tasks : Holds(t) => Handed(CustomerOf(t)) = batch[t]
       /\ \A c \in Customers :
             (\A t \in Tasks : ~(Holds(t) /\ CustomerOf(t) = c)) => Handed(c) = <<>>
<1> SUFFICES ASSUME OneHandlerPerCustomer
             PROVE  /\ \A t \in Tasks : Holds(t) => Handed(CustomerOf(t)) = batch[t]
                    /\ \A c \in Customers :
                          (\A t \in Tasks : ~(Holds(t) /\ CustomerOf(t) = c)) => Handed(c) = <<>>
  OBVIOUS
<1>1. ASSUME NEW t \in Tasks, Holds(t) PROVE Handed(CustomerOf(t)) = batch[t]
  <2> DEFINE callers == {u \in Tasks : Holds(u) /\ CustomerOf(u) = CustomerOf(t)}
  <2>1. callers = {t}
    BY <1>1 DEF OneHandlerPerCustomer
  <2>2. (CHOOSE u \in callers : TRUE) = t
    BY <2>1
  <2>3. Handed(CustomerOf(t)) = IF callers = {} THEN <<>> ELSE batch[CHOOSE u \in callers : TRUE]
    BY DEF Handed
  <2> QED
    BY <2>1, <2>2, <2>3
<1>2. ASSUME NEW c \in Customers, \A t \in Tasks : ~(Holds(t) /\ CustomerOf(t) = c)
      PROVE  Handed(c) = <<>>
  BY <1>2 DEF Handed
<1> QED
  BY <1>1, <1>2

LEMMA HandedWillBe ==
    OneHandlerPerCustomer' =>
       /\ \A t \in Tasks : Holds(t)' => Handed(CustomerOf(t))' = batch'[t]
       /\ \A c \in Customers :
             (\A t \in Tasks : ~(Holds(t)' /\ CustomerOf(t)' = c)) => Handed(c)' = <<>>
<1> SUFFICES ASSUME OneHandlerPerCustomer'
             PROVE  /\ \A t \in Tasks : Holds(t)' => Handed(CustomerOf(t))' = batch'[t]
                    /\ \A c \in Customers :
                          (\A t \in Tasks : ~(Holds(t)' /\ CustomerOf(t)' = c))
                             => Handed(c)' = <<>>
  OBVIOUS
<1>1. ASSUME NEW t \in Tasks, Holds(t)' PROVE Handed(CustomerOf(t))' = batch'[t]
  <2> DEFINE callers == {u \in Tasks : Holds(u)' /\ CustomerOf(u)' = CustomerOf(t)'}
  <2>1. callers = {t}
    BY <1>1 DEF OneHandlerPerCustomer
  <2>2. (CHOOSE u \in callers : TRUE) = t
    BY <2>1
  <2>3. Handed(CustomerOf(t))' =
           IF callers = {} THEN <<>> ELSE batch'[CHOOSE u \in callers : TRUE]
    BY DEF Handed
  <2> QED
    BY <2>1, <2>2, <2>3
<1>2. ASSUME NEW c \in Customers, \A t \in Tasks : ~(Holds(t)' /\ CustomerOf(t)' = c)
      PROVE  Handed(c)' = <<>>
  BY <1>2 DEF Handed
<1> QED
  BY <1>1, <1>2

\* What is handed to a customer whose task, if any, keeps its batch.
LEMMA HandedKept ==
    ASSUME OneHandlerPerCustomer, OneHandlerPerCustomer', NEW c \in Customers,
           \A u \in Tasks : /\ Holds(u)' /\ CustomerOf(u)' = c <=> Holds(u) /\ CustomerOf(u) = c
                            /\ Holds(u) /\ CustomerOf(u) = c => batch'[u] = batch[u]
    PROVE  Handed(c)' = Handed(c)
<1>1. CASE \E u \in Tasks : Holds(u) /\ CustomerOf(u) = c
  <2>1. PICK u \in Tasks : Holds(u) /\ CustomerOf(u) = c
    BY <1>1
  <2>2. Holds(u)' /\ CustomerOf(u)' = c /\ batch'[u] = batch[u]
    BY <2>1
  <2>3. Handed(c) = batch[u]
    BY <2>1, HandedIs
  <2>4. Handed(CustomerOf(u))' = batch'[u]
    BY <2>2, HandedWillBe
  <2>5. Handed(c)' = Handed(CustomerOf(u))'
    BY <2>2 DEF Handed
  <2> QED
    BY <2>2, <2>3, <2>4, <2>5
<1>2. CASE \A u \in Tasks : ~(Holds(u) /\ CustomerOf(u) = c)
  BY <1>2, HandedIs, HandedWillBe
<1> QED
  BY <1>1, <1>2

\* A step of one task changes what is handed to its own customer only.
LEMMA HandedStep ==
    ASSUME OneHandlerPerCustomer, OneHandlerPerCustomer',
           NEW t \in Tasks, OthersKept(t), NEW c \in Customers,
           Holds(t) => CustomerOf(t) = c,
           Holds(t)' => CustomerOf(t)' = c
    PROVE  /\ \A d \in Customers : d # c => Handed(d)' = Handed(d)
           /\ Holds(t)' => Handed(c)' = batch'[t]
           /\ Holds(t) /\ ~Holds(t)' => Handed(c)' = <<>>
           /\ ~Holds(t) /\ ~Holds(t)' => Handed(c)' = Handed(c)
<1>1. ASSUME NEW u \in Tasks, u # t
      PROVE  /\ Holds(u)' <=> Holds(u)
             /\ CustomerOf(u)' = CustomerOf(u) /\ batch'[u] = batch[u]
  BY <1>1 DEF OthersKept, Holds, CustomerOf, Sender
<1>2. ASSUME NEW d \in Customers, ~(Holds(t) /\ CustomerOf(t) = d),
             ~(Holds(t)' /\ CustomerOf(t)' = d)
      PROVE  Handed(d)' = Handed(d)
  <2>1. \A u \in Tasks : /\ Holds(u)' /\ CustomerOf(u)' = d <=> Holds(u) /\ CustomerOf(u) = d
                         /\ Holds(u) /\ CustomerOf(u) = d => batch'[u] = batch[u]
    BY <1>1, <1>2
  <2> QED
    BY <2>1, HandedKept
<1>3. ASSUME Holds(t)' PROVE Handed(c)' = batch'[t]
  <2>1. Handed(c)' = Handed(CustomerOf(t))'
    BY <1>3 DEF Handed
  <2> QED
    BY <1>3, <2>1, HandedWillBe
<1>4. ASSUME Holds(t), ~Holds(t)' PROVE Handed(c)' = <<>>
  <2>1. \A u \in Tasks : ~(Holds(u)' /\ CustomerOf(u)' = c)
    BY <1>1, <1>4 DEF OneHandlerPerCustomer
  <2> QED
    BY <2>1, HandedWillBe
<1> QED
  BY <1>2, <1>3, <1>4

LEMMA SameSort ==
    \A queue : Protocol!SortBySequence(queue) = SortBySequence(queue)
<1>1. \A S : Protocol!Cardinality(S) = Cardinality(S)
  BY DEF Protocol!Cardinality, Cardinality
<1>2. \A queue, j : Protocol!Rank(queue, j) = Rank(queue, j)
  BY <1>1 DEF Protocol!Rank, Rank, Protocol!Precedes, Precedes
<1> DEFINE theirs(queue, k) == CHOOSE j \in DOMAIN queue : Protocol!Rank(queue, j) = k
           ours(queue, k) == CHOOSE j \in DOMAIN queue : Rank(queue, j) = k
<1>3. ASSUME NEW queue, NEW k PROVE theirs(queue, k) = ours(queue, k)
  BY <1>2, Zenon
<1>4. \A queue : /\ Protocol!SortBySequence(queue) = [k \in DOMAIN queue |-> queue[theirs(queue, k)]]
                 /\ SortBySequence(queue) = [k \in DOMAIN queue |-> queue[ours(queue, k)]]
  BY DEF Protocol!SortBySequence, SortBySequence
<1> HIDE DEF theirs, ours
<1> QED
  BY <1>3, <1>4

\* The protocol's own copies of the debouncer's calls.
LEMMA SameCalls ==
    /\ \A message \in Message :
          /\ Protocol!AdmitQueued(message) <=> AdmitQueued(message)
          /\ Protocol!AdmitProcess(message) <=> AdmitProcess(message)
          /\ Protocol!FirstBatch(message) = FirstBatch(message)
    /\ Protocol!Message = Message
<1>1. Protocol!Message = Message
  BY DEF Protocol!Message, Message
<1>2. \A queue : Protocol!IdSet(queue) = IdSet(queue)
  BY DEF Protocol!IdSet, IdSet
<1>3. \A queue : Protocol!SortBySequence(queue) = SortBySequence(queue)
  BY SameSort
<1>4. \A queue, message : Protocol!Put(queue, message) = Put(queue, message)
  BY <1>2 DEF Protocol!Put, Put
<1>5. \A m : Protocol!IsDuplicate(m) <=> IsDuplicate(m)
  BY DEF Protocol!IsDuplicate, IsDuplicate, Protocol!InMemory, InMemory,
         Protocol!Has, Has, Protocol!Never, Never, Protocol!ToSet, ToSet
<1>6. \A message \in Message : Protocol!AdmitQueued(message) <=> AdmitQueued(message)
  BY <1>4, <1>5 DEF Protocol!AdmitQueued, AdmitQueued, Protocol!storeVars, storeVars
<1>7. \A message \in Message : Protocol!AdmitProcess(message) <=> AdmitProcess(message)
  BY <1>2, <1>3, <1>4, <1>5 DEF Protocol!AdmitProcess, AdmitProcess,
     Protocol!Drain, Drain, Protocol!storeVars, storeVars
<1>8. \A message \in Message : Protocol!FirstBatch(message) = FirstBatch(message)
  BY <1>3, <1>4 DEF Protocol!FirstBatch, FirstBatch
<1> QED
  BY <1>1, <1>6, <1>7, <1>8

LEMMA SameComplete ==
    /\ \A c, done : Protocol!Complete(c, done) <=> Complete(c, done)
    /\ \A c : Protocol!NextBatch(c) = NextBatch(c)
<1>1. \A queue : Protocol!IdSet(queue) = IdSet(queue)
  BY DEF Protocol!IdSet, IdSet
<1>2. \A queue : Protocol!SortBySequence(queue) = SortBySequence(queue)
  BY SameSort
<1>3. \A ids : Protocol!RecordAll(ids, TRUE) <=> RecordAll(ids, TRUE)
  BY DEF Protocol!RecordAll, RecordAll, Protocol!Has, Has, Protocol!Expired, Expired,
         Protocol!Never, Never
<1>4. \A c, done : Protocol!PushRecent(c, done) <=> PushRecent(c, done)
  BY DEF Protocol!PushRecent, PushRecent, Protocol!Trim, Trim, Protocol!Ids, Ids
<1>5. \A c, done : Protocol!Complete(c, done) <=> Complete(c, done)
  BY <1>1, <1>2, <1>3, <1>4 DEF Protocol!Complete, Complete, Protocol!Drain, Drain
<1>6. \A c : Protocol!NextBatch(c) = NextBatch(c)
  BY <1>2 DEF Protocol!NextBatch, NextBatch
<1> QED
  BY <1>5, <1>6

\* The initial state is the protocol's.
LEMMA InitRefines == Init => Protocol!Init
<1> SUFFICES ASSUME Init PROVE Protocol!Init
  OBVIOUS
<1>1. \A t \in Tasks : ~Holds(t)
  BY DEF Init, Holds
<1>2. \A c \in Customers : Handed(c) = <<>>
  BY <1>1 DEF Handed
<1>3. [c \in Customers |-> Handed(c)] = [c \in Customers |-> <<>>]
  BY <1>2
<1> QED
  BY <1>3 DEF Init, Protocol!Init, EmptyQueues, Protocol!EmptyQueues,
     StoreInit, Protocol!StoreInit, Never, Protocol!Never

\* A step that changes neither the queues nor what is handed out.
LEMMA Stutters ==
    ASSUME UNCHANGED <<queueVars, storeVars, completedAt>>,
           \A c \in Customers : Handed(c)' = Handed(c)
    PROVE  UNCHANGED Protocol!protocolVars
<1>1. [c \in Customers |-> Handed(c)'] = [c \in Customers |-> Handed(c)]
  BY DEF Handed
<1> QED
  BY <1>1 DEF Protocol!protocolVars, Protocol!queueVars, Protocol!storeVars,
     queueVars, storeVars

\* Every step of a task is a call of the protocol or invisible to it.
LEMMA StepRefines ==
    ASSUME ReliableWrites, IInv, IInv', NEW t \in Tasks, Step(t)
    PROVE  [Protocol!Next]_Protocol!protocolVars
<1>1. /\ OthersKept(t) /\ Kinds(t)
      /\ OneHandlerPerCustomer /\ OneHandlerPerCustomer'
  BY StepKinds DEF IInv
<1>2. ASSUME ~Holds(t), ~Holds(t)' PROVE \A c \in Customers : Handed(c)' = Handed(c)
  BY <1>1, <1>2, HandedStep
<1>3. CASE Drops(t)
  <2>1. UNCHANGED Protocol!protocolVars
    BY <1>2, <1>3, Stutters DEF Drops
  <2> QED
    BY <2>1
<1>4. ASSUME NEW message \in Message, Queues(t, message)
      PROVE  Protocol!Next
  <2>1. \A c \in Customers : Handed(c)' = Handed(c)
    BY <1>2, <1>4 DEF Queues
  <2>2. [c \in Customers |-> Handed(c)'] = [c \in Customers |-> Handed(c)]
    BY <2>1
  <2>3. Protocol!AdmitQueued(message) /\ message \in Protocol!Message
    BY <1>4, SameCalls DEF Queues
  <2>4. completedAt' = completedAt
    BY <1>4 DEF Queues
  <2>5. Protocol!Admit(message)
    BY <2>2, <2>3, <2>4 DEF Protocol!Admit
  <2> QED
    BY <2>3, <2>5 DEF Protocol!Next
<1>5. ASSUME NEW message \in Message, Starts(t, message)
      PROVE  Protocol!Next
  <2> DEFINE c == Owner[message.messageId]
  <2>1. /\ ~Holds(t) /\ Holds(t)' /\ CustomerOf(t)' = c
        /\ batch'[t] = FirstBatch(message)
        /\ completedAt' = completedAt
    BY <1>5, CustomerKept DEF Starts
  <2>2. c \in Customers
    BY DebouncerAssumption DEF Message
  <2>3. Protocol!AdmitProcess(message) /\ message \in Protocol!Message
    BY <1>5, SameCalls DEF Starts
  <2>4. Protocol!FirstBatch(message) = FirstBatch(message)
    BY SameCalls
  <2> HIDE DEF c
  <2>5. Handed(c)' = FirstBatch(message) /\ \A d \in Customers : d # c => Handed(d)' = Handed(d)
    BY <1>1, <2>1, <2>2, HandedStep
  <2>6. [d \in Customers |-> Handed(d)']
           = [[d \in Customers |-> Handed(d)] EXCEPT ![c] = FirstBatch(message)]
    BY <2>5
  <2>7. Protocol!Admit(message)
    BY <2>1, <2>3, <2>4, <2>6 DEF Protocol!Admit, c
  <2> QED
    BY <2>3, <2>7 DEF Protocol!Next
<1>6. CASE GoesOn(t)
  <2>0. PICK c \in Customers : CustomerOf(t) = c
    BY <1>6, Holder DEF GoesOn
  <2> DEFINE next == NextBatch(c)
  <2>1. /\ batch[t] \in Seq(Message) /\ batch[t] # <<>>
        /\ Holds(t) /\ Complete(c, batch[t])
        /\ completedAt' = [m \in MessageIds |->
                             IF m \in IdSet(batch[t]) THEN clock ELSE completedAt[m]]
    BY <1>6, <2>0, Holder DEF GoesOn, CompleteBatch
  <2>2. /\ Holds(t)' => CustomerOf(t)' = c
        /\ Holds(t)' <=> next # <<>>
        /\ next # <<>> => batch'[t] = next
    BY <1>6, <2>0, CustomerKept DEF GoesOn
  <2>3. Protocol!Complete(c, batch[t]) /\ Protocol!NextBatch(c) = next
    BY <2>1, SameComplete
  <2>4. \A queue : Protocol!IdSet(queue) = IdSet(queue)
    BY DEF Protocol!IdSet, IdSet
  <2>5. Handed(c) = batch[t]
    BY <1>1, <2>0, <2>1, HandedIs
  <2> HIDE DEF next
  <2>6. Handed(c)' = next /\ \A d \in Customers : d # c => Handed(d)' = Handed(d)
    <3>1. /\ \A d \in Customers : d # c => Handed(d)' = Handed(d)
          /\ Holds(t)' => Handed(c)' = batch'[t]
          /\ Holds(t) /\ ~Holds(t)' => Handed(c)' = <<>>
      BY <1>1, <2>0, <2>2, HandedStep
    <3> QED
      BY <2>1, <2>2, <3>1
  <2>7. [d \in Customers |-> Handed(d)'] = [[d \in Customers |-> Handed(d)] EXCEPT ![c] = next]
    BY <2>6
  <2>8. [d \in Customers |-> Handed(d)][c] = batch[t]
    BY <2>1, <2>5
  <2>9. Protocol!CompleteBatch(c)
    BY <2>1, <2>3, <2>4, <2>7, <2>8 DEF Protocol!CompleteBatch
  <2> QED
    BY <2>1, <2>9 DEF Protocol!Next
<1>7. CASE Fails(t)
  <2>1. /\ Holds(t) /\ Holds(t)' /\ CustomerOf(t)' = CustomerOf(t)
        /\ batch'[t] = batch[t] /\ CustomerOf(t) \in Customers
    BY <1>7, CustomerKept, Holder DEF Fails
  <2>2. PICK c \in Customers : CustomerOf(t) = c
    BY <2>1
  <2>3. Handed(c) = batch[t]
    BY <1>1, <2>1, <2>2, HandedIs
  <2>4. /\ \A d \in Customers : d # c => Handed(d)' = Handed(d)
        /\ Handed(c)' = batch'[t]
    BY <1>1, <2>1, <2>2, HandedStep
  <2>5. \A d \in Customers : Handed(d)' = Handed(d)
    BY <2>1, <2>3, <2>4
  <2>6. UNCHANGED Protocol!protocolVars
    BY <1>7, <2>5, Stutters DEF Fails
  <2> QED
    BY <2>6
<1> QED
  BY <1>1, <1>3, <1>4, <1>5, <1>6, <1>7 DEF Kinds, Throws, ReliableWrites

\* composition.ts uses the debouncer as its header comment prescribes: the
\* tasks together are the one caller of DebouncerProtocol, while the writes of
\* the store succeed.
THEOREM DispatchFollowsProtocol ==
    ASSUME ReliableWrites
    PROVE  Spec => FollowsProtocol
<1>1. Init => Protocol!Init
  BY InitRefines
<1>2. IInv /\ IInv' /\ [Next]_vars => [Protocol!Next]_Protocol!protocolVars
  <2> SUFFICES ASSUME IInv, IInv', [Next]_vars
               PROVE  [Protocol!Next]_Protocol!protocolVars
    OBVIOUS
  <2>1. ASSUME NEW t \in Tasks, Step(t)
        PROVE  [Protocol!Next]_Protocol!protocolVars
    BY <2>1, StepRefines
  <2>2. ASSUME NEW t \in Tasks, NEW update \in Updates, Receive(t, update)
        PROVE  [Protocol!Next]_Protocol!protocolVars
    <3>1. /\ pc[t] = "idle" /\ pc' = [pc EXCEPT ![t] = "admit"]
          /\ batch' = batch
          /\ UNCHANGED <<queueVars, storeVars, completedAt>>
      BY <2>2 DEF Receive
    <3>2. \A u \in Tasks : (Holds(u)' <=> Holds(u)) /\ CustomerOf(u)' = CustomerOf(u)
      BY <3>1 DEF IInv, TypeOK, Holds, CustomerOf, Sender
    <3>3. OneHandlerPerCustomer /\ OneHandlerPerCustomer'
      BY DEF IInv
    <3>4. \A c \in Customers : Handed(c)' = Handed(c)
      BY <3>1, <3>2, <3>3, HandedKept
    <3>5. UNCHANGED Protocol!protocolVars
      BY <3>1, <3>4, Stutters
    <3> QED
      BY <3>5
  <2>3. CASE Crash
    <3>1. \A u \in Tasks : ~Holds(u)'
      BY <2>3 DEF Crash, Holds
    <3>2. \A c \in Customers : Handed(c)' = <<>>
      BY <3>1 DEF Handed
    <3>3. [c \in Customers |-> Handed(c)'] = [c \in Customers |-> <<>>]
      BY <3>2
    <3>4. Protocol!Restart
      BY <2>3, <3>3 DEF Crash, Protocol!Restart, LoseQueues, Protocol!LoseQueues,
         storeVars, Protocol!storeVars
    <3> QED
      BY <3>4 DEF Protocol!Next
  <2>4. CASE ClockTicks \/ HoursTurn \/ UNCHANGED vars
    <3>1. /\ pc' = pc /\ batch' = batch
          /\ UNCHANGED <<queueVars, processedAt, completedAt>>
      BY <2>4 DEF ClockTicks, HoursTurn, vars, taskVars, storeVars
    <3>2. \A c \in Customers : Handed(c)' = Handed(c)
      BY <3>1 DEF Handed, Holds, CustomerOf, Sender
    <3>3. CASE ClockTicks
      <4>1. [c \in Customers |-> Handed(c)'] = [c \in Customers |-> Handed(c)]
        BY <3>2
      <4>2. Protocol!Tick
        BY <3>1, <3>3, <4>1 DEF ClockTicks, Protocol!Tick, queueVars, Protocol!queueVars
      <4> QED
        BY <4>2 DEF Protocol!Next
    <3>4. CASE HoursTurn \/ UNCHANGED vars
      <4>1. UNCHANGED <<queueVars, storeVars, completedAt>>
        BY <3>4 DEF HoursTurn, vars
      <4>2. UNCHANGED Protocol!protocolVars
        BY <3>2, <4>1, Stutters
      <4> QED
        BY <4>2
    <3> QED
      BY <2>4, <3>3, <3>4
  <2> QED
    BY <2>1, <2>2, <2>3, <2>4 DEF Next
<1> QED
  BY <1>1, <1>2, Invariance, PTL DEF Spec, FollowsProtocol, Protocol!Spec
===============================================================================

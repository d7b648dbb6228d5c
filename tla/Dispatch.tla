------------------------------- MODULE Dispatch -------------------------------
(***************************************************************************)
(* composition.ts: what runs between a webhook and the message handlers.   *)
(* A task is one call of handleIncomingTelegramUpdate or                   *)
(* handleIncomingInstagramUpdate, started after the webhook has been       *)
(* acknowledged.  Tasks interleave where they await a handler and nowhere  *)
(* else: the program is single threaded, so a task that has more           *)
(* synchronous work to do is the only one that moves.                      *)
(*                                                                         *)
(* Events of a kind the parsers do not support change nothing and are left *)
(* out of the updates.                                                     *)
(***************************************************************************)
EXTENDS MessageDebouncer, WorkingHours

CONSTANTS Tasks,             \* bound on the calls under way at once
          TelegramCustomers, \* the others write on Instagram
          Updates,           \* the deliveries a webhook can make: sequences of
                             \* messages, for Telegram of length one
          StoreFaults,       \* which calls of the persisted store can throw
          Moments,           \* of the wall clock, for the working hours
          MaxClock           \* bound on the clock

\* A payload carries, besides the edit of the message, whether it arrived
\* while staff were at their desks: history the program does not keep.
ASSUME DispatchAssumption ==
    /\ TelegramCustomers \subseteq Customers
    /\ Payloads \subseteq [edit : Nat, staffed : BOOLEAN]
    /\ \A update \in Updates : update \in Seq(Message) /\ update # <<>>
    /\ StoreFaults \subseteq {"read", "write"}
    /\ Moments \subseteq Nat /\ Moments # {}
    /\ MaxClock \in Nat

VARIABLES pc,           \* where each task is
          events,       \* the messages of its update not yet admitted
          handler,      \* the handler chosen when the update came in
          batch,        \* currentBatch of drainBatches
          now,          \* the moment the wall clock shows
          completedAt   \* history: when complete() last returned for a message

taskVars == <<pc, events, handler, batch>>
vars == <<queueVars, storeVars, taskVars, now, completedAt>>

TypeOK ==
    /\ QueueTypeOK
    /\ StoreTypeOK
    /\ pc \in [Tasks -> {"idle", "admit", "handle", "flush"}]
    /\ events \in [Tasks -> Seq(Message)]
    /\ handler \in [Tasks -> {"none", "agent", "staff", "redirect"}]
    /\ batch \in [Tasks -> Seq(Message)]
    /\ now \in Moments
    /\ completedAt \in [MessageIds -> Nat \cup {Never}]

Init ==
    /\ EmptyQueues
    /\ StoreInit
    /\ pc = [t \in Tasks |-> "idle"]
    /\ events = [t \in Tasks |-> <<>>]
    /\ handler = [t \in Tasks |-> "none"]
    /\ batch = [t \in Tasks |-> <<>>]
    /\ now \in Moments
    /\ completedAt = [m \in MessageIds |-> Never]

-----------------------------------------------------------------------------
Sender(message) == Owner[message.messageId]

Holds(t) == pc[t] \in {"handle", "flush"}

CustomerOf(t) == Sender(batch[t][1])

\* Mutant of Synchronous: a staff hand-off that awaits something.
SynchronousButStaff(t) == pc[t] \in {"admit", "flush"}

\* A task in the middle of synchronous code.  The staff hand-off awaits
\* nothing, so it counts as synchronous.
Synchronous(t) ==
    \/ pc[t] \in {"admit", "flush"}
    \/ pc[t] = "handle" /\ handler[t] = "staff"

MayRun(t) == \A u \in Tasks \ {t} : ~Synchronous(u)

Quiet == \A t \in Tasks : ~Synchronous(t)

Become(t, where, rest, work) ==
    /\ pc' = [pc EXCEPT ![t] = where]
    /\ events' = [events EXCEPT ![t] = rest]
    /\ batch' = [batch EXCEPT ![t] = work]
    /\ handler' = [handler EXCEPT ![t] = IF where = "idle" THEN "none" ELSE @]

\* drainBatches has returned, or was not needed: the next event of the
\* update, if there is one.
Advance(t, rest) ==
    Become(t, IF rest = <<>> THEN "idle" ELSE "admit", rest, <<>>)

\* An exception leaves the call: it is logged and the rest of the update is
\* lost with it.
Abort(t) == Become(t, "idle", <<>>, <<>>)

ChooseHandler(update) ==
    IF Sender(update[1]) \notin TelegramCustomers THEN "redirect"
    ELSE IF isWithinWorkingHours(now) THEN "staff" ELSE "agent"

-----------------------------------------------------------------------------
\* The webhook has answered 200 and starts the call.
Receive(t, update) ==
    /\ pc[t] = "idle"
    /\ Quiet
    /\ \A i \in DOMAIN update : update[i].payload.staffed = StaffAtDesk(now)
    /\ pc' = [pc EXCEPT ![t] = "admit"]
    /\ events' = [events EXCEPT ![t] = update]
    /\ handler' = [handler EXCEPT ![t] = ChooseHandler(update)]
    /\ UNCHANGED <<queueVars, storeVars, batch, now, completedAt>>

\* handleParsedUpdate up to the call of the handler.
AdmitNext(t) ==
    LET message == Head(events[t])
        rest == Tail(events[t])
    IN
    /\ pc[t] = "admit"
    /\ MayRun(t)
    /\ \/ AdmitDuplicate(message) /\ Advance(t, rest)
       \/ AdmitQueued(message) /\ Advance(t, rest)
       \/ AdmitProcess(message) /\ Become(t, "handle", rest, FirstBatch(message))
       \/ "read" \in StoreFaults /\ AdmitThrows(message) /\ Abort(t)
    /\ UNCHANGED <<now, completedAt>>

\* complete() returns for the batch of t.
CompleteBatch(t) ==
    /\ Complete(CustomerOf(t), batch[t])
    /\ completedAt' = [m \in MessageIds |->
                         IF m \in IdSet(batch[t]) THEN clock ELSE completedAt[m]]

\* handleMessages resolves and complete() is called.  If complete() throws,
\* the catch block turns to drainStuck.
HandlerResolves(t) ==
    LET next == NextBatch(CustomerOf(t)) IN
    /\ pc[t] = "handle"
    /\ MayRun(t)
    /\ \/ /\ CompleteBatch(t)
          /\ IF next = <<>>
             THEN Advance(t, events[t])
             ELSE Become(t, "handle", events[t], next)
       \/ /\ "write" \in StoreFaults
          /\ CompleteThrows(CustomerOf(t), batch[t])
          /\ Become(t, "flush", events[t], batch[t])
          /\ UNCHANGED completedAt
    /\ UNCHANGED now

\* Mutant of HandlerRejects: the catch block only logs.
RejectsWithoutDrain(t) ==
    /\ pc[t] = "handle"
    /\ handler[t] = "agent"
    /\ Quiet
    /\ Advance(t, events[t])
    /\ UNCHANGED <<queueVars, storeVars, now, completedAt>>

\* handleMessages rejects.  Only the conversation engine can: the redirect
\* catches what its calls throw, the staff hand-off calls nothing.
HandlerRejects(t) ==
    /\ pc[t] = "handle"
    /\ handler[t] = "agent"
    /\ Quiet
    /\ Become(t, "flush", events[t], batch[t])
    /\ UNCHANGED <<queueVars, storeVars, now, completedAt>>

\* Mutant of DrainStuck: it completes the failed batch and stops.
DrainStuckOnce(t) ==
    /\ pc[t] = "flush"
    /\ MayRun(t)
    /\ CompleteBatch(t)
    /\ Advance(t, events[t])
    /\ UNCHANGED now

\* One complete() of drainStuck: the batches still queued are completed, not
\* handled.  A second exception is not caught.
DrainStuck(t) ==
    LET next == NextBatch(CustomerOf(t)) IN
    /\ pc[t] = "flush"
    /\ MayRun(t)
    /\ \/ /\ CompleteBatch(t)
          /\ IF next = <<>>
             THEN Advance(t, events[t])
             ELSE Become(t, "flush", events[t], next)
       \/ /\ "write" \in StoreFaults
          /\ CompleteThrows(CustomerOf(t), batch[t])
          /\ Abort(t)
          /\ UNCHANGED completedAt
    /\ UNCHANGED now

\* The process dies and starts again, with the database it left.
Crash ==
    /\ LoseQueues
    /\ pc' = [t \in Tasks |-> "idle"]
    /\ events' = [t \in Tasks |-> <<>>]
    /\ handler' = [t \in Tasks |-> "none"]
    /\ batch' = [t \in Tasks |-> <<>>]
    /\ UNCHANGED <<storeVars, now, completedAt>>

ClockTicks ==
    /\ Quiet
    /\ clock < MaxClock
    /\ clock' = clock + 1
    /\ UNCHANGED <<queueVars, processedAt, taskVars, now, completedAt>>

\* The wall clock shows a later moment.
HoursTurn ==
    /\ Quiet
    /\ now' \in {moment \in Moments : moment > now}
    /\ UNCHANGED <<queueVars, storeVars, taskVars, completedAt>>

Step(t) == AdmitNext(t) \/ HandlerResolves(t) \/ HandlerRejects(t) \/ DrainStuck(t)

Next ==
    \/ \E t \in Tasks : Step(t) \/ \E update \in Updates : Receive(t, update)
    \/ Crash
    \/ ClockTicks
    \/ HoursTurn

Spec == Init /\ [][Next]_vars

\* A call that is under way goes on.  Synchronous code runs to its end.  A
\* handler settles because what it awaits is a bounded number of attempts of a
\* request the HTTP client gives up by itself, and its continuation runs although
\* other tasks keep interrupting the wait: the event loop serves callbacks in
\* turn, hence the strong fairness.  Nothing is assumed of customers, clock or
\* crashes.
FairSpec ==
    /\ Spec
    /\ \A t \in Tasks :
          /\ WF_vars(AdmitNext(t) \/ DrainStuck(t))
          /\ SF_vars(HandlerResolves(t) \/ HandlerRejects(t))

-----------------------------------------------------------------------------
\* Two handlers never work on the same customer at once, so one's reads and
\* writes of the conversation state cannot interleave with another's.
OneHandlerPerCustomer ==
    \A t, u \in Tasks : Holds(t) /\ Holds(u) /\ t # u => CustomerOf(t) # CustomerOf(u)

\* "drainStuck guarantees this customer's queue always returns to a clean,
\* idle state no matter what happens above": a queue marked in flight has a
\* task that is going to complete it.
QueueHasACaller ==
    \A c \in Customers : inFlight[c] => \E t \in Tasks : Holds(t) /\ CustomerOf(t) = c

\* Whatever the agent should answer reaches the agent: no message that arrived
\* outside working hours is swallowed by the staff hand-off.
OffHoursMessageReachesAgent ==
    \A t \in Tasks : pc[t] = "handle" /\ handler[t] = "staff" =>
       \A i \in DOMAIN batch[t] : batch[t][i].payload.staffed

\* "This decision is made fresh on every update": the agent handles no
\* message that arrived while staff were there to answer it.
StaffHoursAreLeftToStaff ==
    \A t \in Tasks : pc[t] = "handle" /\ handler[t] = "agent" =>
       \A i \in DOMAIN batch[t] : ~batch[t][i].payload.staffed

\* A message leaves its queue into the batch of a task of its own customer,
\* and without being handled only when that task's handler has failed.
\* Nothing but a crash makes it disappear.
LeavesQueueOnlyForATask ==
    [][Crash \/ \A c \in Customers : \A m \in IdSet(pending[c]) \ IdSet(pending'[c]) :
         \E t \in Tasks : /\ m \in IdSet(batch'[t])
                          /\ Holds(t) /\ CustomerOf(t) = c
                          /\ pc'[t] = pc[t]]_vars

\* A message that complete() has been told of is not given to a handler again
\* while the table must remember it, whatever the store, the handlers and
\* crashes did in between.
NeverHandledAgain ==
    [][\A t \in Tasks : batch'[t] # batch[t] =>
         \A m \in IdSet(batch'[t]) :
            completedAt[m] = Never \/ clock - completedAt[m] > Retention]_vars

\* The batch a customer's caller holds, for the protocol.
Handed(c) ==
    LET callers == {t \in Tasks : Holds(t) /\ CustomerOf(t) = c} IN
    IF callers = {} THEN <<>> ELSE batch[CHOOSE t \in callers : TRUE]

Protocol == INSTANCE DebouncerProtocol WITH
    handed       <- [c \in Customers |-> Handed(c)],
    StoreMayFail <- FALSE

\* The tasks together are the caller the debouncer's header comment asks for,
\* as long as no write to the store fails.
FollowsProtocol == Protocol!Spec

\* A message the debouncer accepted does not stay in the queue or in flight:
\* its batch ends, however long the stream of messages around it is.
AcceptedMessageSettles ==
    \A m \in MessageIds :
       m \in IdSet(pending[Owner[m]]) \cup inFlightMessageIds[Owner[m]]
          ~> m \notin IdSet(pending[Owner[m]]) \cup inFlightMessageIds[Owner[m]]
===============================================================================

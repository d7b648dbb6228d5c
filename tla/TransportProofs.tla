----------------------------- MODULE TransportProofs ---------------------------
(***************************************************************************)
(* Proofs about Transport for any number of attempts, any delays, any      *)
(* texts and limits, and any waits that a server asks for.                 *)
(*                                                                         *)
(* IInv is the invariant of one call; Accounted and Whole, which rest on   *)
(* it, are about what the customer has received.  What a reply is made of  *)
(* is reasoned about without its state: ReplyText cuts every text into     *)
(* Parts of it.                                                            *)
(***************************************************************************)
EXTENDS Transport, FlattenProofs, FiniteSetTheorems

\* Chunk k has reached the customer.
Got(k) == \E j \in DOMAIN received : received[j].chunk = k

\* Only an operation whose platform has a sender makes requests, only a reply
\* pauses, and only a file is fetched.
Underway ==
    /\ pc \in {"request", "backoff", "pause", "fetch"} => operation.client \in Clients
    /\ pc = "pause" => operation.kind = "reply"
    /\ pc = "fetch" => operation.kind = "file"
    /\ pc = "backoff" => attempt < MaxAttempts

\* Nothing is sent, and so nothing received, before its predecessor was
\* received; and the sender pauses only behind a chunk that was received.
InOrder ==
    /\ ReadFromTheBeginning
    /\ \A r \in inTransit : r.chunk > 1 => Got(r.chunk - 1)
    /\ pc = "pause" => Got(chunk)
    /\ operation.kind = "reply" /\ pc \in {"request", "backoff"} /\ chunk > 1 => Got(chunk - 1)

\* How long the retries of the current call have waited so far.
Waited ==
    /\ operation.client = "gemini" =>
          waited <= (IF pc = "backoff" THEN attempt ELSE attempt - 1) * MaxRetryDelay
    /\ operation.client = "telegram" => waited >= asked

IInv == TypeOK /\ Underway /\ InOrder /\ Waited

-----------------------------------------------------------------------------
\* What each client can return for a response, as far as waiting goes: Telegram
\* passes on the wait that was asked for, and Gemini's is capped.
LEMMA AttemptProperties ==
    ASSUME NEW client \in Clients, NEW a \in Answers
    PROVE  LET result == AttemptApiCall(client, a) IN
           /\ result.outcome \in {"success", "failure", "thrown"}
           /\ result.retryAfter \in Nat \cup {NoWait}
           /\ client = "telegram" /\ result.outcome = "failure" => result.retryAfter = a.wait
           /\ client = "gemini" /\ result.retryAfter # NoWait => result.retryAfter <= MaxRetryDelay
<1>1. a.wait \in Nat \cup {NoWait} /\ (a.status = "none" => a.wait = NoWait)
  BY HttpCallAssumption DEF Answers
<1>2. CASE client = "telegram"
  BY <1>1, <1>2 DEF AttemptApiCall, TelegramAttempt, Success, Thrown, Failure, NetworkError
<1>3. CASE client = "instagram"
  BY <1>1, <1>3 DEF AttemptApiCall, InstagramAttempt, Success, Thrown, Failure, NetworkError
<1>4. CASE client = "gemini"
  <2>1. /\ ParseRetryDelay(a.wait) \in Nat \cup {NoWait}
        /\ ParseRetryDelay(a.wait) # NoWait => ParseRetryDelay(a.wait) <= MaxRetryDelay
    BY <1>1, HttpCallAssumption DEF ParseRetryDelay
  <2> QED
    BY <2>1, <1>4 DEF AttemptApiCall, GeminiAttempt, Success, Thrown, Failure, NetworkError
<1> QED
  BY <1>2, <1>3, <1>4 DEF Clients

\* The sleep before the next attempt is a number, the wait that Telegram asked
\* for at least, and Gemini's cap at most.
LEMMA DelayProperties ==
    ASSUME NEW client \in Clients, NEW a \in Answers, NEW n \in 1..MaxAttempts,
           GoesOn(AttemptApiCall(client, a), n)
    PROVE  LET delay == Delay(AttemptApiCall(client, a), n)
           IN /\ delay \in Nat
              /\ client = "telegram" /\ a.wait # NoWait => delay = a.wait
              /\ client = "gemini" => delay <= MaxRetryDelay
<1> DEFINE result == AttemptApiCall(client, a)
<1>1. n \in 1..(MaxAttempts - 1) /\ result.outcome = "failure"
  BY HttpCallAssumption DEF GoesOn
<1>2. ComputeBackoff(n) \in 0..MaxRetryDelay
  BY <1>1, HttpCallAssumption DEF ComputeBackoff
<1>3. a.wait \in Nat \cup {NoWait}
  BY HttpCallAssumption DEF Answers
<1> QED
  BY <1>1, <1>2, <1>3, AttemptProperties, HttpCallAssumption DEF Delay

\* One more wait of at most m, after n of them.
LEMMA OneMoreWait ==
    ASSUME NEW n \in Nat \ {0}, NEW m \in Nat, NEW w \in Nat, NEW d \in Nat,
           w <= (n - 1) * m, d <= m
    PROVE  w + d <= n * m
<1>1. n * m = (n - 1) * m + m
  OBVIOUS
<1>2. (n - 1) * m \in Nat
  OBVIOUS
<1> QED
  BY <1>1, <1>2

-----------------------------------------------------------------------------
LEMMA InitCorrect == Init => IInv
<1> SUFFICES ASSUME Init PROVE IInv
  OBVIOUS
<1>1. TypeOK
  BY HttpCallAssumption, TransportAssumption DEF Init, TypeOK
<1>2. Underway /\ InOrder
  BY DEF Init, Underway, InOrder, ReadFromTheBeginning
<1>3. Waited
  BY HttpCallAssumption DEF Init, Waited
<1> QED
  BY <1>1, <1>2, <1>3 DEF IInv

LEMMA BeginCorrect == IInv /\ Begin => IInv'
<1> SUFFICES ASSUME IInv, Begin PROVE IInv'
  OBVIOUS
<1> USE DEF IInv
<1>1. CASE Routed /\ Call(1)
  <2>1. TypeOK'
    BY <1>1, HttpCallAssumption DEF TypeOK, Call, Send, Request, Requests
  <2>2. Underway'
    BY <1>1, TransportAssumption DEF TypeOK, Underway, Operations, Clients, Routed, Call, Send
  <2>3. InOrder'
    BY <1>1 DEF TypeOK, InOrder, ReadFromTheBeginning, Got, Call, Send, Request
  <2>4. Waited'
    BY <1>1, HttpCallAssumption DEF Waited, Call, Send
  <2> QED
    BY <2>1, <2>2, <2>3, <2>4
<1>2. CASE ~Routed /\ Reject /\ UNCHANGED <<inTransit, received, lost>>
  <2>1. TypeOK'
    BY <1>2 DEF TypeOK, Reject, Settle
  <2>2. Underway' /\ InOrder'
    BY <1>2 DEF Underway, InOrder, ReadFromTheBeginning, Got, Reject, Settle
  <2>3. Waited'
    BY <1>2 DEF Begin, Waited, Reject, Settle
  <2> QED
    BY <2>1, <2>2, <2>3
<1> QED
  BY <1>1, <1>2 DEF Begin

LEMMA ServeCorrect == \A r \in inTransit : IInv /\ Serve(r) => IInv'
<1> SUFFICES ASSUME NEW r \in inTransit, IInv, Serve(r) PROVE IInv'
  OBVIOUS
<1> USE DEF IInv
<1>1. /\ received' = Append(received, r)
      /\ received \in Seq(Requests)
      /\ r \in Requests
      /\ inTransit' = inTransit \ {r}
      /\ UNCHANGED <<localVars, lost, asked, waited>>
  BY DEF Serve, TypeOK
<1>2. /\ DOMAIN received = 1..Len(received)
      /\ DOMAIN received' = 1..(Len(received) + 1)
      /\ Len(received) \in Nat
      /\ received'[Len(received) + 1] = r
      /\ \A j \in DOMAIN received : received'[j] = received[j]
  BY <1>1
<1>3. TypeOK'
  BY <1>1 DEF TypeOK, localVars
<1>4. \A k : Got(k) => Got(k)'
  BY <1>2 DEF Got
<1>5. ReadFromTheBeginning'
  <2> SUFFICES ASSUME NEW k \in DOMAIN received', received'[k].chunk > 1
               PROVE  \E j \in 1..(k - 1) : received'[j].chunk = received'[k].chunk - 1
    BY DEF ReadFromTheBeginning
  <2>1. CASE k \in DOMAIN received
    BY <1>2, <2>1 DEF InOrder, ReadFromTheBeginning
  <2>2. CASE k = Len(received) + 1
    BY <1>2, <2>2 DEF InOrder, Got
  <2> QED
    BY <1>2, <2>1, <2>2
<1>6. InOrder'
  BY <1>1, <1>4, <1>5 DEF InOrder, localVars
<1>7. Underway' /\ Waited'
  BY <1>1 DEF Underway, Waited, localVars
<1> QED
  BY <1>3, <1>6, <1>7

\* A settled operation waits for nothing.
LEMMA SettleCorrect ==
    ASSUME TypeOK, Underway, Waited, pc # "backoff",
           NEW how \in {"resolved", "rejected"}, NEW size \in FileSizes \cup {NoSize},
           Settle(how, size)
    PROVE  /\ pc' = "done"
           /\ operation' \in Operations /\ chunk' \in Nat \ {0} /\ attempt' \in 1..MaxAttempts
           /\ verdict' \in {"none", "resolved", "rejected"}
           /\ file' \in FileSizes \cup {NoSize}
           /\ asked' \in Nat /\ waited' \in Nat
           /\ Underway' /\ Waited'
BY DEF TypeOK, Underway, Waited, Settle

LEMMA RetryCorrect == IInv /\ Retry => IInv'
<1> SUFFICES ASSUME IInv, Retry PROVE IInv'
  OBVIOUS
<1> USE DEF IInv
<1>1. attempt + 1 \in 1..MaxAttempts
  BY HttpCallAssumption DEF Retry, TypeOK, Underway
<1>2. TypeOK'
  BY <1>1, HttpCallAssumption DEF TypeOK, Retry, Send, Request, Requests
<1>3. Underway'
  BY DEF Underway, Retry, Send
<1>4. InOrder'
  BY DEF TypeOK, InOrder, ReadFromTheBeginning, Got, Retry, Send, Request
<1>5. Waited'
  BY <1>1 DEF TypeOK, Waited, Retry, Send
<1> QED
  BY <1>2, <1>3, <1>4, <1>5

LEMMA NextChunkCorrect == IInv /\ NextChunk => IInv'
<1> SUFFICES ASSUME IInv, NextChunk PROVE IInv'
  OBVIOUS
<1> USE DEF IInv
<1>1. TypeOK'
  BY HttpCallAssumption DEF TypeOK, NextChunk, Call, Send, Request, Requests
<1>2. Underway'
  BY DEF Underway, NextChunk, Call, Send
<1>3. InOrder'
  BY DEF TypeOK, InOrder, ReadFromTheBeginning, Got, NextChunk, Call, Send, Request
<1>4. Waited'
  BY HttpCallAssumption DEF Waited, NextChunk, Call, Send
<1> QED
  BY <1>1, <1>2, <1>3, <1>4

LEMMA FetchedCorrect == IInv /\ Fetched => IInv'
<1> SUFFICES ASSUME IInv, Fetched PROVE IInv'
  OBVIOUS
<1> USE DEF IInv
<1>1. PICK how \in {"resolved", "rejected"}, size \in FileSizes \cup {NoSize} : Settle(how, size)
  BY DEF Fetched, Reject
<1>2. pc = "fetch" /\ UNCHANGED <<inTransit, received, lost, operation>>
  BY <1>1 DEF Fetched, Settle
<1>3. TypeOK' /\ Underway' /\ Waited'
  BY <1>1, <1>2, SettleCorrect DEF TypeOK
<1>4. InOrder'
  BY <1>1, <1>2 DEF InOrder, ReadFromTheBeginning, Got, Settle
<1> QED
  BY <1>3, <1>4

\* What the client takes for a success was received by the customer.
LEMMA AcknowledgedIsReceived ==
    ASSUME Underway, NEW a \in Answers, Answered(a), operation.kind = "reply",
           AttemptApiCall(operation.client, a).outcome = "success"
    PROVE  Got(chunk)
<1>1. operation.client \in Clients /\ AnswerAgrees(a)
  BY DEF Answered, Underway
<1>2. a.status = "ok"
  BY <1>1 DEF AttemptApiCall, TelegramAttempt, InstagramAttempt, GeminiAttempt,
              Thrown, Failure, NetworkError, Clients, Answers, Statuses
<1>3. PICK j \in DOMAIN received : received[j] = Request(chunk, attempt)
  BY <1>1, <1>2 DEF AnswerAgrees, Pending, Range
<1> QED
  BY <1>3 DEF Got, Request

\* A response: the operation goes on after a success, or after a wait, or it
\* settles.
LEMMA AnsweredCorrect == \A a \in Answers : IInv /\ Answered(a) => IInv'
<1> SUFFICES ASSUME NEW a \in Answers, IInv, Answered(a) PROVE IInv'
  OBVIOUS
<1> USE DEF IInv
<1> DEFINE result == AttemptApiCall(operation.client, a)
<1>1. /\ pc = "request"
      /\ operation.kind = "reply" => AnswerAgrees(a)
      /\ inTransit' \subseteq inTransit
      /\ lost' \in Nat
      /\ received' = received
      /\ operation.client \in Clients
      /\ attempt \in 1..MaxAttempts
  BY DEF Answered, TypeOK, Underway
<1>2. \A k : Got(k)' <=> Got(k)
  BY <1>1 DEF Got
<1>3. ReadFromTheBeginning'
  BY <1>1 DEF InOrder, ReadFromTheBeginning
<1>4. \A r \in inTransit' : r.chunk > 1 => Got(r.chunk - 1)'
  BY <1>1, <1>2 DEF InOrder
<1>5. CASE result.outcome = "success" /\ Succeeded
  <2>1. CASE pc' = "pause" /\ Stay /\ operation.kind = "reply"
    <3>1. Got(chunk)
      BY <1>5, <2>1, AcknowledgedIsReceived
    <3>2. TypeOK'
      BY <1>1, <2>1 DEF TypeOK, Stay
    <3>3. Underway'
      BY <1>1, <2>1 DEF Underway, Stay
    <3>4. InOrder'
      BY <1>2, <1>3, <1>4, <2>1, <3>1 DEF InOrder, Stay
    <3>5. Waited'
      BY <1>1, <2>1 DEF Waited, Stay
    <3> QED
      BY <3>2, <3>3, <3>4, <3>5
  <2>2. CASE pc' = "fetch" /\ Stay /\ operation.kind = "file"
    <3>1. TypeOK'
      BY <1>1, <2>2 DEF TypeOK, Stay
    <3>2. Underway' /\ Waited'
      BY <1>1, <2>2 DEF Underway, Waited, Stay
    <3>3. InOrder'
      BY <1>2, <1>3, <1>4, <2>2 DEF InOrder, Stay
    <3> QED
      BY <3>1, <3>2, <3>3
  <2>3. CASE \E how \in {"resolved", "rejected"} : Settle(how, NoSize)
    <3>1. TypeOK' /\ Underway' /\ Waited'
      BY <1>1, <2>3, SettleCorrect DEF TypeOK
    <3>2. InOrder'
      BY <1>2, <1>3, <1>4, <2>3 DEF InOrder, Settle
    <3> QED
      BY <3>1, <3>2
  <2> QED
    BY <1>5, <2>1, <2>2, <2>3 DEF Succeeded, Resolve, Reject
<1>6. CASE /\ GoesOn(result, attempt)
           /\ pc' = "backoff"
           /\ asked' = asked + (IF a.wait = NoWait THEN 0 ELSE a.wait)
           /\ waited' = waited + Delay(result, attempt)
           /\ UNCHANGED <<operation, chunk, attempt, verdict, file>>
  <2>1. /\ Delay(result, attempt) \in Nat
        /\ operation.client = "telegram" /\ a.wait # NoWait => Delay(result, attempt) = a.wait
        /\ operation.client = "gemini" => Delay(result, attempt) <= MaxRetryDelay
    BY <1>1, <1>6, DelayProperties
  <2>2. a.wait \in Nat \cup {NoWait}
    BY HttpCallAssumption DEF Answers
  <2>3. attempt < MaxAttempts
    BY <1>6 DEF GoesOn
  <2>4. TypeOK'
    BY <1>1, <1>6, <2>1, <2>2 DEF TypeOK
  <2>5. Underway'
    BY <1>1, <1>6, <2>3 DEF Underway
  <2>6. InOrder'
    BY <1>1, <1>2, <1>3, <1>4, <1>6 DEF InOrder
  <2>7. operation.client = "gemini" => waited' <= attempt * MaxRetryDelay
    <3>1. waited \in Nat /\ attempt \in Nat \ {0} /\ MaxRetryDelay \in Nat
      BY <1>1, HttpCallAssumption DEF TypeOK
    <3> QED
      BY <1>1, <1>6, <2>1, <3>1, OneMoreWait DEF Waited
  <2>8. operation.client = "telegram" => waited' >= asked'
    BY <1>6, <2>1, <2>2 DEF TypeOK, Waited
  <2>9. Waited'
    BY <1>6, <2>7, <2>8 DEF Waited
  <2> QED
    BY <2>4, <2>5, <2>6, <2>9
<1>7. CASE Reject
  <2>1. TypeOK' /\ Underway' /\ Waited'
    BY <1>1, <1>7, SettleCorrect DEF TypeOK, Reject
  <2>2. InOrder'
    BY <1>2, <1>3, <1>4, <1>7 DEF InOrder, Reject, Settle
  <2> QED
    BY <2>1, <2>2
<1> QED
  BY <1>5, <1>6, <1>7 DEF Answered

LEMMA StutterCorrect == IInv /\ UNCHANGED vars => IInv'
BY DEF IInv, TypeOK, Underway, InOrder, ReadFromTheBeginning, Got, Waited, vars, localVars

THEOREM Invariance == Spec => []IInv
<1>1. IInv /\ [Next]_vars => IInv'
  BY BeginCorrect, AnsweredCorrect, RetryCorrect, NextChunkCorrect, FetchedCorrect, ServeCorrect,
     StutterCorrect DEF Next, Step
<1> QED
  BY <1>1, InitCorrect, PTL DEF Spec

-----------------------------------------------------------------------------
\* Types of the variables, among them that no call is attempted more than
\* MaxAttempts times.
THEOREM TypeCorrect == Spec => []TypeOK
BY Invariance, PTL DEF IInv

\* Whatever is lost, repeated or late, a customer reads a reply from its
\* beginning.
THEOREM ReadInOrder == Spec => []ReadFromTheBeginning
BY Invariance, PTL DEF IInv, InOrder

\* Telegram is never asked again before its waits are over.
THEOREM WaitsObserved == Spec => []WaitsAsAsked
<1>1. IInv => WaitsAsAsked
  BY DEF IInv, Waited, WaitsAsAsked
<1> QED
  BY <1>1, Invariance, PTL

\* The model is never waited for longer than the cap allows, whatever Gemini
\* asks for.
THEOREM ModelWaitBounded == Spec => []ModelWaitIsBounded
<1>1. IInv => ModelWaitIsBounded
  <2> SUFFICES ASSUME IInv, operation.client = "gemini"
               PROVE  waited <= (MaxAttempts - 1) * MaxRetryDelay
    BY DEF ModelWaitIsBounded
  <2>1. PICK n \in 0..(MaxAttempts - 1) : waited <= n * MaxRetryDelay
    <3>1. CASE pc = "backoff"
      BY <3>1, HttpCallAssumption DEF IInv, TypeOK, Underway, Waited
    <3>2. CASE pc # "backoff"
      BY <3>2, HttpCallAssumption DEF IInv, TypeOK, Waited
    <3> QED
      BY <3>1, <3>2
  <2>2. n * MaxRetryDelay <= (MaxAttempts - 1) * MaxRetryDelay
    BY <2>1, HttpCallAssumption
  <2> QED
    BY <2>1, <2>2, HttpCallAssumption DEF IInv, TypeOK
<1> QED
  BY <1>1, Invariance, PTL

-----------------------------------------------------------------------------
\* The second invariant, for the chunks that are received twice.  Every attempt
\* is a request of its own, on its way or received, but never both.
Arrived == {received[k] : k \in DOMAIN received}

Sent == inTransit \cup Arrived

Apart ==
    /\ \A j, k \in DOMAIN received : received[j] = received[k] => j = k
    /\ inTransit \cap Arrived = {}
    /\ operation.kind # "reply" \/ pc = "start" => Sent = {}
    /\ \A r \in Sent : r.chunk < chunk \/ (r.chunk = chunk /\ r.attempt <= attempt)

\* L holds the requests whose answers were lost.  Of the others there is no
\* more than one for each chunk, and none at all for a chunk that has to be
\* sent again.
Excused(L) ==
    /\ IsFiniteSet(L)
    /\ Cardinality(L) <= lost
    /\ \A r, q \in Sent \ L : r.chunk = q.chunk => r = q
    /\ pc = "request" => \A r \in Sent \ L : r.chunk = chunk => r = Pending
    /\ pc = "backoff" => \A r \in Sent \ L : r.chunk # chunk

Accounted == Apart /\ \E L : Excused(L)

LEMMA SentAreRequests == TypeOK => Sent \subseteq Requests
<1> SUFFICES ASSUME TypeOK PROVE Arrived \subseteq Requests
  BY DEF TypeOK, Sent
<1>1. \A k \in DOMAIN received : received[k] \in Requests
  BY DEF TypeOK
<1> QED
  BY <1>1 DEF Arrived

LEMMA InitAccounted == Init => Accounted
<1> SUFFICES ASSUME Init PROVE Accounted
  OBVIOUS
<1>1. DOMAIN received = {} /\ Arrived = {} /\ Sent = {}
  BY DEF Init, Arrived, Sent
<1>2. Apart
  BY <1>1 DEF Apart
<1>3. IsFiniteSet({}) /\ Cardinality({}) = 0
  BY FS_EmptySet
<1>4. Excused({})
  BY <1>1, <1>3 DEF Excused, Init
<1> QED
  BY <1>2, <1>4 DEF Accounted

\* A request that was not made before, for the next chunk or for one whose
\* earlier requests are all excused.
LEMMA SendAccounted ==
    ASSUME TypeOK, Accounted, NEW k \in Nat \ {0}, NEW n \in 1..MaxAttempts, Send(k, n),
           \A r \in Sent : r.chunk < k \/ (r.chunk = k /\ r.attempt < n),
           \A L : Excused(L) => \A r \in Sent \ L : r.chunk # k
    PROVE  Accounted'
<1> DEFINE new == Request(k, n)
<1>1. /\ pc' = "request" /\ chunk' = k /\ attempt' = n /\ lost' = lost
      /\ operation' = operation /\ received' = received
      /\ Pending' = new
  BY DEF Send, Pending, Request
<1>2. Arrived' = Arrived
  BY <1>1 DEF Arrived
<1>3. new.chunk = k /\ new.attempt = n
  BY DEF Request
<1>4. new \notin Sent
  BY <1>3
<1>5. CASE operation.kind = "reply"
  <2>1. inTransit' = inTransit \cup {new} /\ Sent' = Sent \cup {new}
    BY <1>2, <1>5 DEF Send, Sent
  <2> HIDE DEF new
  <2>2. Apart'
    <3>1. inTransit' \cap Arrived' = {}
      BY <1>2, <1>4, <2>1 DEF Accounted, Apart, Sent
    <3>2. \A r \in Sent' : r.chunk < chunk' \/ (r.chunk = chunk' /\ r.attempt <= attempt')
      <4> SUFFICES ASSUME NEW r \in Sent'
                   PROVE  r.chunk < k \/ (r.chunk = k /\ r.attempt <= n)
        BY <1>1
      <4>1. CASE r = new
        BY <1>3, <4>1
      <4>2. CASE r \in Sent
        <5>1. r.attempt \in Nat
          BY <4>2, SentAreRequests DEF Requests
        <5> QED
          BY <4>2, <5>1
      <4> QED
        BY <2>1, <4>1, <4>2
    <3> QED
      BY <1>1, <1>5, <3>1, <3>2 DEF Accounted, Apart
  <2>3. PICK L : Excused(L)
    BY DEF Accounted
  <2>4. Excused(L)'
    <3>1. \A r \in Sent' \ L : r.chunk = k => r = new
      BY <2>1, <2>3
    <3>2. \A r, q \in Sent' \ L : r.chunk = q.chunk => r = q
      BY <1>3, <2>1, <2>3, <3>1 DEF Excused
    <3> QED
      BY <1>1, <2>3, <3>1, <3>2 DEF Excused
  <2> QED
    BY <2>2, <2>4 DEF Accounted
<1>6. CASE operation.kind # "reply"
  <2>1. inTransit' = inTransit /\ Sent' = Sent /\ Sent = {}
    BY <1>2, <1>6 DEF Send, Sent, Accounted, Apart
  <2>2. Apart'
    BY <1>1, <1>2, <1>6, <2>1 DEF Accounted, Apart
  <2>3. PICK L : Excused(L)
    BY DEF Accounted
  <2>4. Excused(L)'
    BY <1>1, <2>1, <2>3 DEF Excused
  <2> QED
    BY <2>2, <2>4 DEF Accounted
<1> QED
  BY <1>5, <1>6

\* Delivery takes a request out of transit.
LEMMA ServeAccounted ==
    ASSUME TypeOK, Accounted, NEW r \in inTransit, Serve(r)
    PROVE  Accounted'
<1>1. /\ received' = Append(received, r)
      /\ received \in Seq(Requests)
      /\ inTransit' = inTransit \ {r}
      /\ UNCHANGED <<localVars, lost>>
  BY DEF Serve, TypeOK
<1>2. /\ Len(received) \in Nat
      /\ DOMAIN received = 1..Len(received)
      /\ DOMAIN received' = DOMAIN received \cup {Len(received) + 1}
      /\ Len(received) + 1 \notin DOMAIN received
      /\ received'[Len(received) + 1] = r
      /\ \A j \in DOMAIN received : received'[j] = received[j]
  BY <1>1
<1>3. Arrived' = Arrived \cup {r}
  BY <1>2 DEF Arrived
<1>4. r \notin Arrived
  BY DEF Accounted, Apart
<1>5. Sent' = Sent
  BY <1>1, <1>3 DEF Sent
<1>6. Apart'
  <2>1. \A j, k \in DOMAIN received' : received'[j] = received'[k] => j = k
    BY <1>2, <1>4 DEF Arrived, Accounted, Apart
  <2>2. inTransit' \cap Arrived' = {}
    BY <1>1, <1>3 DEF Accounted, Apart
  <2> QED
    BY <1>1, <1>5, <2>1, <2>2 DEF Accounted, Apart, localVars
<1>7. PICK L : Excused(L)
  BY DEF Accounted
<1>8. Excused(L)'
  BY <1>1, <1>5, <1>7 DEF Excused, Pending, Request, localVars
<1> QED
  BY <1>6, <1>8 DEF Accounted

\* A step that waits for nothing, and neither makes nor serves a request.
LEMMA IdleAccounted ==
    ASSUME Accounted, UNCHANGED <<operation, chunk, attempt, lost, received, inTransit>>,
           pc' \in {"request", "backoff", "start"} => pc' = pc
    PROVE  Accounted'
<1>1. Arrived' = Arrived /\ Sent' = Sent /\ Pending' = Pending
  BY DEF Arrived, Sent, Pending, Request
<1>2. Apart'
  BY <1>1 DEF Accounted, Apart
<1>3. PICK L : Excused(L)
  BY DEF Accounted
<1>4. Excused(L)'
  BY <1>1, <1>3 DEF Excused
<1> QED
  BY <1>2, <1>4 DEF Accounted

\* A response.  A request that is repeated was refused, so that it never
\* arrives, or its answer was lost.
LEMMA AnsweredAccounted ==
    ASSUME TypeOK, Underway, Accounted, NEW a \in Answers, Answered(a)
    PROVE  Accounted'
<1> DEFINE result == AttemptApiCall(operation.client, a)
<1>1. /\ pc = "request" /\ pc' # "request" /\ pc' # "start"
      /\ operation.kind = "reply" => AnswerAgrees(a)
      /\ inTransit' = IF a.status = "none" THEN inTransit ELSE inTransit \ {Pending}
      /\ lost' = IF operation.kind = "reply" /\ a.status \in {"none", "broken"} THEN lost + 1
                 ELSE lost
      /\ received' = received /\ operation' = operation
      /\ chunk' = chunk /\ attempt' = attempt
  BY DEF Answered, Succeeded, Stay, Resolve, Reject, Settle
<1>2. pc' = "backoff" => GoesOn(result, attempt)
  BY DEF Answered, Succeeded, Stay, Resolve, Reject, Settle
<1>3. Arrived' = Arrived
  BY <1>1 DEF Arrived
<1>4. inTransit' \subseteq inTransit /\ Sent' \subseteq Sent
  BY <1>1, <1>3 DEF Sent
<1>5. Apart'
  BY <1>1, <1>3, <1>4 DEF Accounted, Apart
<1>6. PICK L : Excused(L)
  BY DEF Accounted
<1>7. CASE operation.kind # "reply"
  <2>1. Sent' = {}
    BY <1>4, <1>7 DEF Accounted, Apart
  <2>2. Excused(L)'
    BY <1>1, <1>6, <1>7, <2>1 DEF Excused
  <2> QED
    BY <1>5, <2>2 DEF Accounted
<1>8. CASE operation.kind = "reply" /\ a.status \in {"none", "broken"}
  <2>0. PICK M : M = L \cup {Pending}
    OBVIOUS
  <2>1. IsFiniteSet(M) /\ Cardinality(M) <= Cardinality(L) + 1 /\ Cardinality(L) \in Nat
    <3>1. IsFiniteSet(L) /\ Cardinality(L) \in Nat
      BY <1>6, FS_CardinalityType DEF Excused
    <3>2. IsFiniteSet(M) /\ Cardinality(M) \in {Cardinality(L), Cardinality(L) + 1}
      BY <2>0, <3>1, FS_AddElement
    <3> QED
      BY <3>1, <3>2
  <2>2. Cardinality(M) \in Nat
    BY <2>1, FS_CardinalityType
  <2>3. Cardinality(M) <= lost'
    BY <1>1, <1>6, <1>8, <2>1, <2>2 DEF Excused, TypeOK
  <2>4. \A r \in Sent' \ M : r \in Sent \ L /\ r.chunk # chunk
    BY <2>0, <1>1, <1>4, <1>6 DEF Excused
  <2>5. \A r, q \in Sent' \ M : r.chunk = q.chunk => r = q
    BY <1>6, <2>4 DEF Excused
  <2>6. Excused(M)'
    <3>1. pc' = "backoff" => \A r \in Sent' \ M : r.chunk # chunk'
      BY <1>1, <2>4
    <3> QED
      BY <1>1, <2>1, <2>3, <2>5, <3>1 DEF Excused
  <2> QED
    BY <1>5, <2>6 DEF Accounted
<1>9. CASE operation.kind = "reply" /\ a.status \notin {"none", "broken"}
  <2>1. lost' = lost
    BY <1>1, <1>9
  <2>2. ASSUME pc' = "backoff" PROVE Pending \notin Sent'
    <3>1. a.status \in {"limited", "refused"}
      BY <1>1, <1>2, <1>9, <2>2 DEF GoesOn, AttemptApiCall, TelegramAttempt, InstagramAttempt,
         GeminiAttempt, Success, Thrown, Failure, NetworkError, Answers, Statuses, Underway, Clients
    <3>2. Pending \in inTransit /\ inTransit' = inTransit \ {Pending}
      BY <1>1, <1>9, <3>1 DEF AnswerAgrees
    <3> QED
      BY <1>3, <3>2 DEF Sent, Accounted, Apart
  <2>3. \A r \in Sent' \ L : r \in Sent \ L
    BY <1>4
  <2>4. Excused(L)'
    BY <1>1, <1>6, <2>1, <2>2, <2>3 DEF Excused
  <2> QED
    BY <1>5, <2>4 DEF Accounted
<1> QED
  BY <1>7, <1>8, <1>9

LEMMA StepAccounted == IInv /\ Accounted /\ [Next]_vars => Accounted'
<1> SUFFICES ASSUME IInv, Accounted, [Next]_vars PROVE Accounted'
  OBVIOUS
<1> USE DEF IInv
<1>1. CASE Begin
  <2>1. CASE Call(1)
    <3>1. Sent = {}
      BY <1>1 DEF Begin, Accounted, Apart
    <3>2. Send(1, 1)
      BY <2>1 DEF Call
    <3> QED
      BY <3>1, <3>2, SendAccounted, HttpCallAssumption
  <2>2. CASE Reject /\ UNCHANGED <<inTransit, received, lost>>
    BY <2>2, IdleAccounted DEF Reject, Settle
  <2> QED
    BY <1>1, <2>1, <2>2 DEF Begin
<1>2. CASE \E a \in Answers : Answered(a)
  BY <1>2, AnsweredAccounted
<1>3. CASE Retry
  <2>1. /\ pc = "backoff"
        /\ Send(chunk, attempt + 1)
        /\ chunk \in Nat \ {0}
        /\ attempt \in Nat
        /\ attempt + 1 \in 1..MaxAttempts
    BY <1>3, HttpCallAssumption DEF Retry, Underway, TypeOK
  <2>2. \A r \in Sent : r.chunk < chunk \/ (r.chunk = chunk /\ r.attempt < attempt + 1)
    <3> SUFFICES ASSUME NEW r \in Sent
                 PROVE  r.chunk < chunk \/ (r.chunk = chunk /\ r.attempt < attempt + 1)
      OBVIOUS
    <3>1. r.attempt \in Nat
      BY SentAreRequests DEF Requests
    <3>2. r.chunk < chunk \/ (r.chunk = chunk /\ r.attempt <= attempt)
      BY DEF Accounted, Apart
    <3> QED
      BY <2>1, <3>1, <3>2
  <2>3. \A L : Excused(L) => \A r \in Sent \ L : r.chunk # chunk
    BY <2>1 DEF Excused
  <2> QED
    BY <2>1, <2>2, <2>3, SendAccounted
<1>4. CASE NextChunk
  <2>1. Send(chunk + 1, 1) /\ chunk \in Nat \ {0} /\ chunk + 1 \in Nat \ {0}
    BY <1>4 DEF NextChunk, Call, TypeOK
  <2>2. \A r \in Sent : r.chunk < chunk + 1
    <3> SUFFICES ASSUME NEW r \in Sent PROVE r.chunk < chunk + 1
      OBVIOUS
    <3>1. r.chunk \in Nat
      BY SentAreRequests DEF Requests
    <3>2. r.chunk < chunk \/ r.chunk = chunk
      BY DEF Accounted, Apart
    <3> QED
      BY <2>1, <3>1, <3>2
  <2>3. \A r \in Sent : r.chunk # chunk + 1
    BY <2>1, <2>2
  <2> QED
    BY <2>1, <2>2, <2>3, SendAccounted, HttpCallAssumption
<1>5. CASE Fetched
  BY <1>5, IdleAccounted DEF Fetched, Reject, Settle
<1>6. CASE \E r \in inTransit : Serve(r)
  BY <1>6, ServeAccounted
<1>7. CASE UNCHANGED vars
  BY <1>7, IdleAccounted DEF vars, localVars
<1> QED
  BY <1>1, <1>2, <1>3, <1>4, <1>5, <1>6, <1>7 DEF Next, Step

\* Requests that differ in their chunks, but for those in L, are no more than
\* the chunks and L together.
LEMMA CountedByChunk ==
    ASSUME NEW s \in Seq(Requests), \A j, k \in DOMAIN s : s[j] = s[k] => j = k,
           NEW L, IsFiniteSet(L),
           \A j, k \in DOMAIN s : s[j] \notin L /\ s[k] \notin L /\ s[j].chunk = s[k].chunk => j = k
    PROVE  /\ Cardinality({s[k].chunk : k \in DOMAIN s}) \in Nat
           /\ Len(s) <= Cardinality({s[k].chunk : k \in DOMAIN s}) + Cardinality(L)
<1> DEFINE D == DOMAIN s
           A == {k \in D : s[k] \in L}
           B == {k \in D : s[k] \notin L}
           chunks == {s[k].chunk : k \in D}
<1>1. Len(s) \in Nat /\ D = 1..Len(s)
  OBVIOUS
<1>2. IsFiniteSet(D) /\ Cardinality(D) = Len(s)
  <2>1. \A n \in Nat : IsFiniteSet(1..n) /\ Cardinality(1..n) = n
    BY FS_Interval
  <2> QED
    BY <1>1, <2>1
<1>3. IsFiniteSet(A) /\ IsFiniteSet(B) /\ Cardinality(A) \in Nat /\ Cardinality(B) \in Nat
  <2>1. A \subseteq D /\ B \subseteq D
    OBVIOUS
  <2>2. IsFiniteSet(A) /\ IsFiniteSet(B)
    BY <1>2, <2>1, FS_Subset
  <2> QED
    BY <2>2, FS_CardinalityType
<1>4. IsFiniteSet(chunks) /\ Cardinality(chunks) \in Nat
  <2> DEFINE f == [k \in D |-> s[k].chunk]
  <2>1. f \in Surjection(D, chunks)
    BY DEF Surjection
  <2> QED
    BY <1>2, <2>1, FS_Surjection, FS_CardinalityType
<1>5. Cardinality(A) <= Cardinality(L)
  <2> DEFINE f == [k \in A |-> s[k]]
  <2>1. f \in Injection(A, L)
    <3>1. f \in [A -> L]
      OBVIOUS
    <3>2. \A j, k \in A : f[j] = f[k] => j = k
      OBVIOUS
    <3> HIDE DEF f, A
    <3> QED
      BY <3>1, <3>2 DEF Injection, IsInjective
  <2> QED
    BY <2>1, FS_Injection
<1>6. Cardinality(B) <= Cardinality(chunks)
  <2> DEFINE f == [k \in B |-> s[k].chunk]
  <2>1. f \in Injection(B, chunks)
    <3>1. f \in [B -> chunks]
      OBVIOUS
    <3>2. \A j, k \in B : f[j] = f[k] => j = k
      OBVIOUS
    <3> HIDE DEF f, B, chunks
    <3> QED
      BY <3>1, <3>2 DEF Injection, IsInjective
  <2> HIDE DEF f, B, chunks
  <2> QED
    BY <1>4, <2>1, FS_Injection
<1>7. Cardinality(D) <= Cardinality(A) + Cardinality(B)
  <2>1. D = A \cup B /\ A \cap B = {} /\ IsFiniteSet(A \cap B)
    BY FS_EmptySet
  <2>2. Cardinality(A \cup B) = Cardinality(A) + Cardinality(B) - Cardinality(A \cap B)
    BY <1>3, FS_Union
  <2>3. Cardinality(A \cap B) = 0
    BY <2>1, FS_EmptySet
  <2> QED
    BY <1>3, <2>1, <2>2, <2>3
<1>8. Cardinality(L) \in Nat
  BY FS_CardinalityType
<1> HIDE DEF A, B, chunks, D
<1>9. Len(s) <= Cardinality(chunks) + Cardinality(L)
  BY <1>1, <1>2, <1>3, <1>4, <1>5, <1>6, <1>7, <1>8
<1> QED
  BY <1>4, <1>9 DEF chunks, D

\* Requests for one chunk differ in their attempts.
LEMMA CountedByAttempt ==
    ASSUME NEW s \in Seq(Requests), \A j, k \in DOMAIN s : s[j] = s[k] => j = k, NEW c
    PROVE  Cardinality({k \in DOMAIN s : s[k].chunk = c}) <= MaxAttempts
<1> DEFINE K == {k \in DOMAIN s : s[k].chunk = c}
           f == [k \in K |-> s[k].attempt]
<1>1. f \in Injection(K, 1..MaxAttempts)
  <2>1. \A k \in K : s[k] \in Requests
    OBVIOUS
  <2>2. f \in [K -> 1..MaxAttempts]
    BY <2>1 DEF Requests
  <2>3. ASSUME NEW j \in K, NEW k \in K, f[j] = f[k] PROVE j = k
    <3>1. s[j].chunk = s[k].chunk /\ s[j].attempt = s[k].attempt
      BY <2>3
    <3>2. s[j] = s[k]
      <4> DEFINE q == s[j]
                 r == s[k]
      <4>1. q \in Requests /\ r \in Requests
        BY <2>1
      <4>2. q.chunk = r.chunk /\ q.attempt = r.attempt
        BY <3>1
      <4> HIDE DEF q, r
      <4>3. /\ q = [chunk |-> q.chunk, attempt |-> q.attempt]
            /\ r = [chunk |-> r.chunk, attempt |-> r.attempt]
        BY <4>1 DEF Requests
      <4>4. q = r
        BY <4>2, <4>3
      <4> QED
        BY <4>4 DEF q, r
    <3> QED
      BY <3>2
  <2>4. \A j, k \in K : f[j] = f[k] => j = k
    BY <2>3
  <2> HIDE DEF f, K
  <2> QED
    BY <2>2, <2>4 DEF Injection, IsInjective
<1>2. IsFiniteSet(1..MaxAttempts) /\ Cardinality(1..MaxAttempts) = MaxAttempts
  BY FS_Interval, HttpCallAssumption
<1> HIDE DEF f, K
<1>3. Cardinality(K) <= MaxAttempts
  BY <1>1, <1>2, FS_Injection
<1> QED
  BY <1>3 DEF K

\* Chunks are received again only for answers that were lost, and never more
\* often than callWithRetry makes attempts, however late the requests arrive.
THEOREM RepeatsAreAccountedFor == Spec => []DuplicatesAreAccountedFor
<1>1. IInv /\ Accounted => DuplicatesAreAccountedFor
  <2> SUFFICES ASSUME IInv, Accounted PROVE DuplicatesAreAccountedFor
    OBVIOUS
  <2> DEFINE chunks == {received[k].chunk : k \in DOMAIN received}
  <2>1. /\ received \in Seq(Requests)
        /\ lost \in Nat
        /\ \A j, k \in DOMAIN received : received[j] = received[k] => j = k
    BY DEF IInv, TypeOK, Accounted, Apart
  <2>2. PICK L : Excused(L)
    BY DEF Accounted
  <2>3. \A j, k \in DOMAIN received :
           received[j] \notin L /\ received[k] \notin L /\ received[j].chunk = received[k].chunk
              => j = k
    <3> SUFFICES ASSUME NEW j \in DOMAIN received, NEW k \in DOMAIN received,
                        received[j] \notin L, received[k] \notin L,
                        received[j].chunk = received[k].chunk
                 PROVE  j = k
      OBVIOUS
    <3>1. received[j] \in Sent \ L /\ received[k] \in Sent \ L
      BY DEF Sent, Arrived
    <3>2. received[j] = received[k]
      BY <2>2, <3>1 DEF Excused
    <3> QED
      BY <2>1, <3>2
  <2>4. /\ Cardinality(chunks) \in Nat
        /\ Len(received) <= Cardinality(chunks) + Cardinality(L)
    BY <2>1, <2>2, <2>3, CountedByChunk DEF Excused
  <2>5. Cardinality(L) <= lost /\ Cardinality(L) \in Nat
    BY <2>2, FS_CardinalityType DEF Excused
  <2>6. Len(received) \in Nat
    BY <2>1
  <2> HIDE DEF chunks
  <2>7. Len(received) <= Cardinality(chunks) + lost
    BY <2>1, <2>4, <2>5, <2>6
  <2>8. \A c : Cardinality({k \in DOMAIN received : received[k].chunk = c}) <= MaxAttempts
    BY <2>1, CountedByAttempt
  <2> QED
    BY <2>7, <2>8 DEF DuplicatesAreAccountedFor, chunks
<1>2. Spec => []Accounted
  BY Invariance, InitAccounted, StepAccounted, PTL DEF Spec
<1> QED
  BY <1>1, <1>2, Invariance, PTL

-----------------------------------------------------------------------------
\* The text of a reply.  As a character is its position in the text, a sequence
\* keeps the order of the text if its characters increase.
Orderly(s) == \A i, j \in DOMAIN s : i < j /\ s[i] # Gap /\ s[j] # Gap => s[i] < s[j]

\* The sequences in parts hold the characters of text, each part those behind
\* the parts in front of it.
Parts(parts, text) ==
    /\ parts \in Seq(Seq(Nat))
    /\ \A k \in DOMAIN parts : Orderly(parts[k]) /\ Characters(parts[k]) \subseteq Characters(text)
    /\ \A k, l \in DOMAIN parts : k < l =>
          \A x \in Characters(parts[k]), y \in Characters(parts[l]) : x < y
    /\ \A x \in Characters(text) : \E k \in DOMAIN parts : x \in Characters(parts[k])

LEMMA CharactersAre ==
    ASSUME NEW s, NEW x
    PROVE  x \in Characters(s) <=> x # Gap /\ \E i \in DOMAIN s : s[i] = x
BY DEF Characters

\* Parts, one behind the other, are the text.
LEMMA PartsMakeUp ==
    ASSUME NEW text, NEW parts, Parts(parts, text)
    PROVE  /\ Characters(FlattenSeq(parts)) = Characters(text)
           /\ Orderly(FlattenSeq(parts))
<1> DEFINE s == FlattenSeq(parts)
           n == Len(parts)
<1>1. Laid(s, parts, n) /\ DOMAIN parts = 1..n
  BY FlattenProperties DEF Parts
<1> HIDE DEF s, n
<1>2. ASSUME NEW x \in Characters(s) PROVE x \in Characters(text)
  <2>1. PICK i \in DOMAIN s : s[i] = x /\ x # Gap
    BY <1>2, CharactersAre
  <2>2. PICK k \in 1..n : \E p \in DOMAIN parts[k] : s[i] = parts[k][p]
    BY <1>1 DEF Laid
  <2>3. PICK p \in DOMAIN parts[k] : s[i] = parts[k][p]
    BY <2>2
  <2>4. x \in Characters(parts[k])
    BY <2>1, <2>3, CharactersAre
  <2> QED
    BY <1>1, <2>4 DEF Parts
<1>3. ASSUME NEW x \in Characters(text) PROVE x \in Characters(s)
  <2>1. PICK k \in 1..n : x \in Characters(parts[k])
    BY <1>1 DEF Parts
  <2>2. PICK p \in DOMAIN parts[k] : parts[k][p] = x /\ x # Gap
    BY <2>1, CharactersAre
  <2>3. PICK i \in DOMAIN s : s[i] = parts[k][p]
    BY <1>1 DEF Laid
  <2> QED
    BY <2>2, <2>3, CharactersAre
<1>4. ASSUME NEW i \in DOMAIN s, NEW j \in DOMAIN s, i < j, s[i] # Gap, s[j] # Gap
      PROVE  s[i] < s[j]
  <2>1. PICK k \in 1..n, l \in 1..n : \E p \in DOMAIN parts[k], q \in DOMAIN parts[l] :
                /\ s[i] = parts[k][p] /\ s[j] = parts[l][q]
                /\ k < l \/ (k = l /\ p < q)
    BY <1>1, <1>4 DEF Laid
  <2>2. PICK p \in DOMAIN parts[k], q \in DOMAIN parts[l] :
                /\ s[i] = parts[k][p] /\ s[j] = parts[l][q]
                /\ k < l \/ (k = l /\ p < q)
    BY <2>1
  <2>3. s[i] \in Characters(parts[k]) /\ s[j] \in Characters(parts[l])
    BY <1>4, <2>2, CharactersAre
  <2>4. CASE k < l
    BY <1>1, <2>3, <2>4 DEF Parts
  <2>5. CASE k = l /\ p < q
    <3>1. Orderly(parts[k])
      BY <1>1 DEF Parts
    <3> QED
      BY <1>4, <2>2, <2>5, <3>1 DEF Orderly
  <2> QED
    BY <2>2, <2>4, <2>5
<1> QED
  BY <1>2, <1>3, <1>4 DEF Orderly, s

\* Parts of parts are parts.
LEMMA PartsOfParts ==
    ASSUME NEW text, NEW parts, Parts(parts, text),
           NEW pieces \in Seq(Seq(Seq(Nat))), DOMAIN pieces = DOMAIN parts,
           \A k \in DOMAIN parts : Parts(pieces[k], parts[k])
    PROVE  Parts(FlattenSeq(pieces), text)
<1> DEFINE s == FlattenSeq(pieces)
           n == Len(pieces)
<1>1. s \in Seq(Seq(Nat)) /\ Laid(s, pieces, n) /\ DOMAIN pieces = 1..n /\ DOMAIN parts = 1..n
  BY FlattenProperties
<1> HIDE DEF s, n
<1>2. ASSUME NEW i \in DOMAIN s PROVE Orderly(s[i]) /\ Characters(s[i]) \subseteq Characters(text)
  <2>1. PICK k \in 1..n : \E p \in DOMAIN pieces[k] : s[i] = pieces[k][p]
    BY <1>1 DEF Laid
  <2>2. PICK p \in DOMAIN pieces[k] : s[i] = pieces[k][p]
    BY <2>1
  <2>3. Parts(pieces[k], parts[k]) /\ Characters(parts[k]) \subseteq Characters(text)
    BY <1>1 DEF Parts
  <2> QED
    BY <2>2, <2>3 DEF Parts
<1>3. ASSUME NEW i \in DOMAIN s, NEW j \in DOMAIN s, i < j,
             NEW x \in Characters(s[i]), NEW y \in Characters(s[j])
      PROVE  x < y
  <2>1. PICK k \in 1..n, l \in 1..n : \E p \in DOMAIN pieces[k], q \in DOMAIN pieces[l] :
                /\ s[i] = pieces[k][p] /\ s[j] = pieces[l][q]
                /\ k < l \/ (k = l /\ p < q)
    BY <1>1, <1>3 DEF Laid
  <2>2. PICK p \in DOMAIN pieces[k], q \in DOMAIN pieces[l] :
                /\ s[i] = pieces[k][p] /\ s[j] = pieces[l][q]
                /\ k < l \/ (k = l /\ p < q)
    BY <2>1
  <2>3. Parts(pieces[k], parts[k]) /\ Parts(pieces[l], parts[l])
    BY <1>1
  <2>4. CASE k < l
    <3>1. x \in Characters(parts[k]) /\ y \in Characters(parts[l])
      BY <1>3, <2>2, <2>3 DEF Parts
    <3> QED
      BY <1>1, <2>4, <3>1 DEF Parts
  <2>5. CASE k = l /\ p < q
    BY <1>3, <2>2, <2>3, <2>5 DEF Parts
  <2> QED
    BY <2>2, <2>4, <2>5
<1>4. ASSUME NEW x \in Characters(text) PROVE \E i \in DOMAIN s : x \in Characters(s[i])
  <2>1. PICK k \in 1..n : x \in Characters(parts[k])
    BY <1>1 DEF Parts
  <2>2. Parts(pieces[k], parts[k])
    BY <1>1
  <2>3. PICK p \in DOMAIN pieces[k] : x \in Characters(pieces[k][p])
    BY <2>1, <2>2 DEF Parts
  <2>4. PICK i \in DOMAIN s : s[i] = pieces[k][p]
    BY <1>1 DEF Laid
  <2> QED
    BY <2>3, <2>4
<1>5. Parts(s, text)
  BY <1>1, <1>2, <1>3, <1>4 DEF Parts
<1> QED
  BY <1>5 DEF s

LEMMA SmallerOf ==
    ASSUME NEW a \in Int, NEW b \in Int
    PROVE  Min({a, b}) = IF a <= b THEN a ELSE b
BY DEF Min

\* What SubSeq takes from a text, behind position a and up to b.
LEMMA Taken ==
    ASSUME NEW text \in Seq(Nat), NEW a \in Nat, NEW b \in Nat, b <= Len(text)
    PROVE  LET s == SubSeq(text, a + 1, b) IN
           /\ s \in Seq(Nat)
           /\ Len(s) = IF a < b THEN b - a ELSE 0
           /\ \A p \in DOMAIN s :
                 p \in Nat /\ a + p \in a + 1..b /\ a + p \in DOMAIN text /\ s[p] = text[a + p]
           /\ \A i \in a + 1..b : i - a \in DOMAIN s /\ s[i - a] = text[i]
<1> DEFINE n == Len(text)
           s == SubSeq(text, a + 1, b)
<1>1. n \in Nat /\ DOMAIN text = 1..n
  OBVIOUS
<1>2. CASE a < b
  <2>1. s \in Seq(Nat) /\ Len(s) = b - a
    BY <1>1, <1>2
  <2>2. DOMAIN s = 1..b - a
    BY <2>1
  <2>3. \A p \in 1..b - a : s[p] = text[a + p]
    BY <1>1, <1>2
  <2> HIDE DEF s
  <2>4. ASSUME NEW p \in DOMAIN s
        PROVE  p \in Nat /\ a + p \in a + 1..b /\ a + p \in DOMAIN text /\ s[p] = text[a + p]
    <3>1. p \in Nat /\ a + p \in a + 1..b /\ a + p \in 1..n
      BY <1>1, <1>2, <2>2
    <3> QED
      BY <1>1, <2>2, <2>3, <3>1
  <2>5. ASSUME NEW i \in a + 1..b PROVE i - a \in DOMAIN s /\ s[i - a] = text[i]
    <3> DEFINE p == i - a
    <3>1. p \in 1..b - a /\ a + p = i
      BY <1>1
    <3> HIDE DEF p
    <3>2. p \in DOMAIN s /\ s[p] = text[i]
      BY <2>2, <2>3, <3>1
    <3> QED
      BY <3>2 DEF p
  <2> QED
    BY <1>2, <2>1, <2>4, <2>5 DEF s
<1>3. CASE ~(a < b)
  <2>1. s = << >> /\ a + 1..b = {}
    BY <1>1, <1>3
  <2> HIDE DEF s
  <2>2. s \in Seq(Nat) /\ Len(s) = 0 /\ DOMAIN s = {}
    BY <2>1
  <2> QED
    BY <1>3, <2>1, <2>2 DEF s
<1> QED
  BY <1>2, <1>3

\* A position of a text, in terms of the slice it is in.
LEMMA InWhichSlice ==
    ASSUME NEW i \in Nat, NEW n \in Nat, i < n, NEW limit \in Nat \ {0}
    PROVE  LET k == i \div limit IN
           /\ k \in Nat
           /\ k * limit \in Nat
           /\ k * limit <= i
           /\ i < k * limit + limit
           /\ k + 1 <= (n + limit - 1) \div limit
<1> DEFINE k == i \div limit
           m == (n + limit - 1) \div limit
<1>1. k \in Nat /\ i = limit * k + (i % limit) /\ i % limit \in 0..limit - 1
  OBVIOUS
<1>2. /\ n + limit - 1 \in Nat
      /\ m \in Nat /\ n + limit - 1 = limit * m + ((n + limit - 1) % limit)
      /\ (n + limit - 1) % limit \in 0..limit - 1
  OBVIOUS
<1> HIDE DEF k, m
<1>3. limit * k = k * limit /\ k * limit \in Nat
  BY <1>1
<1>4. limit * m \in Nat /\ limit * m >= n
  BY <1>2
<1>5. k < m
  <2> SUFFICES ASSUME m <= k PROVE FALSE
    BY <1>1, <1>2
  <2>1. PICK d \in Nat : k = m + d
    BY <1>1, <1>2
  <2>2. limit * k = limit * m + limit * d /\ limit * d \in Nat
    BY <1>2, <2>1
  <2> QED
    BY <1>1, <1>3, <1>4, <2>2
<1> QED
  BY <1>1, <1>2, <1>3, <1>5 DEF k, m

\* Later slices begin behind the end of earlier ones.
LEMMA SlicesApart ==
    ASSUME NEW k \in Nat \ {0}, NEW l \in Nat, k < l, NEW limit \in Nat
    PROVE  k * limit \in Nat /\ (l - 1) * limit \in Nat /\ k * limit <= (l - 1) * limit
<1>1. PICK d \in Nat : l - 1 = k + d
  OBVIOUS
<1>2. (k + d) * limit = k * limit + d * limit /\ k * limit \in Nat /\ d * limit \in Nat
  OBVIOUS
<1> QED
  BY <1>1, <1>2

\* Slices are parts that are no longer than the limit.
LEMMA SlicesProperties ==
    ASSUME NEW text \in Seq(Nat), Orderly(text), NEW limit \in Nat \ {0}
    PROVE  /\ Parts(Slices(text, limit), text)
           /\ \A k \in DOMAIN Slices(text, limit) : Len(Slices(text, limit)[k]) <= limit
<1> DEFINE n == Len(text)
<1>1. n \in Nat /\ DOMAIN text = 1..n
  OBVIOUS
<1>2. CASE n <= limit
  <2> DEFINE parts == <<text>>
  <2>1. Slices(text, limit) = parts
    BY <1>2 DEF Slices
  <2>2. parts \in Seq(Seq(Nat)) /\ DOMAIN parts = {1} /\ parts[1] = text
    OBVIOUS
  <2> HIDE DEF parts
  <2>3. Parts(parts, text)
    BY <2>2 DEF Parts
  <2> QED
    BY <1>2, <2>1, <2>2, <2>3
<1>3. CASE n > limit
  <2> DEFINE m == (n + limit - 1) \div limit
             lo(k) == (k - 1) * limit + 1
             hi(k) == Min({k * limit, n})
             slice(k) == SubSeq(text, lo(k), hi(k))
             parts == [k \in 1..m |-> slice(k)]
  <2>1. Slices(text, limit) = parts
    BY <1>1, <1>3 DEF Slices
  <2>2. m \in Nat
    BY <1>1
  <2> HIDE DEF m
  <2>3. ASSUME NEW k \in 1..m
        PROVE  /\ (k - 1) * limit \in Nat
               /\ k * limit = (k - 1) * limit + limit
               /\ k * limit \in Nat
               /\ lo(k) \in Nat \ {0}
               /\ hi(k) \in Nat
               /\ hi(k) <= n
               /\ hi(k) <= k * limit
               /\ \A i \in Nat : i <= n /\ i <= k * limit => i <= hi(k)
    <3>1. (k - 1) * limit \in Nat /\ k * limit = (k - 1) * limit + limit
      BY <2>2
    <3>2. k * limit \in Nat
      BY <3>1
    <3>3. hi(k) = IF k * limit <= n THEN k * limit ELSE n
      BY <1>1, <3>2, SmallerOf
    <3> DEFINE a == (k - 1) * limit
               b == k * limit
    <3>4. a \in Nat /\ b = a + limit /\ b \in Nat /\ lo(k) = a + 1
      BY <3>1, <3>2
    <3>5. hi(k) = IF b <= n THEN b ELSE n
      BY <3>3
    <3> HIDE DEF a, b, lo, hi
    <3>6. /\ lo(k) \in Nat \ {0} /\ hi(k) \in Nat /\ hi(k) <= n /\ hi(k) <= b
          /\ \A i \in Nat : i <= n /\ i <= b => i <= hi(k)
      BY <1>1, <3>4, <3>5
    <3> QED
      BY <3>4, <3>6 DEF a, b
  <2>4. ASSUME NEW k \in 1..m
        PROVE  /\ slice(k) \in Seq(Nat)
               /\ Len(slice(k)) <= limit
               /\ \A p \in DOMAIN slice(k) :
                     /\ p \in Nat
                     /\ (k - 1) * limit + p \in lo(k)..hi(k)
                     /\ (k - 1) * limit + p \in DOMAIN text
                     /\ slice(k)[p] = text[(k - 1) * limit + p]
               /\ \A i \in lo(k)..hi(k) :
                     /\ i - (k - 1) * limit \in DOMAIN slice(k)
                     /\ slice(k)[i - (k - 1) * limit] = text[i]
    <3> DEFINE a == (k - 1) * limit
               b == hi(k)
    <3>1. a \in Nat /\ b \in Nat /\ b <= n /\ b <= a + limit
      <4>1. a \in Nat /\ b \in Nat /\ b <= n /\ b <= k * limit /\ k * limit = a + limit
        BY <2>3
      <4> HIDE DEF a, b
      <4> QED
        BY <4>1
    <3>2. lo(k) = a + 1 /\ slice(k) = SubSeq(text, a + 1, b)
      OBVIOUS
    <3> DEFINE s == SubSeq(text, a + 1, b)
    <3> HIDE DEF a, b
    <3>3. /\ s \in Seq(Nat)
          /\ Len(s) = IF a < b THEN b - a ELSE 0
          /\ \A p \in DOMAIN s :
                p \in Nat /\ a + p \in a + 1..b /\ a + p \in DOMAIN text /\ s[p] = text[a + p]
          /\ \A i \in a + 1..b : i - a \in DOMAIN s /\ s[i - a] = text[i]
      BY <3>1, Taken
    <3> HIDE DEF s
    <3>4. Len(s) <= limit
      BY <3>1, <3>3
    <3> HIDE DEF slice, lo, hi
    <3>5. slice(k) = s
      BY <3>2 DEF s
    <3> QED
      BY <3>2, <3>3, <3>4, <3>5 DEF a, b
  <2>5. /\ parts \in Seq(Seq(Nat)) /\ DOMAIN parts = 1..m
        /\ \A k \in 1..m : parts[k] = slice(k)
    <3> HIDE DEF slice
    <3>1. parts \in [1..m -> Seq(Nat)]
      BY <2>4
    <3> QED
      BY <2>2, <3>1
  <2> HIDE DEF parts, slice
  <2>6. ASSUME NEW k \in 1..m, NEW x \in Characters(parts[k])
        PROVE  \E i \in lo(k)..hi(k) : i \in DOMAIN text /\ x = text[i] /\ x # Gap
    <3>1. PICK p \in DOMAIN slice(k) : slice(k)[p] = x /\ x # Gap
      BY <2>5, <2>6, CharactersAre
    <3> QED
      BY <2>4, <3>1
  <2>7. ASSUME NEW k \in 1..m PROVE Orderly(parts[k]) /\ Characters(parts[k]) \subseteq Characters(text)
    <3>1. ASSUME NEW p \in DOMAIN slice(k), NEW q \in DOMAIN slice(k), p < q,
                 slice(k)[p] # Gap, slice(k)[q] # Gap
          PROVE  slice(k)[p] < slice(k)[q]
      <4>1. p \in Nat /\ q \in Nat /\ (k - 1) * limit \in Nat
        BY <2>3, <2>4
      <4>2. (k - 1) * limit + p < (k - 1) * limit + q
        BY <3>1, <4>1
      <4> QED
        BY <2>4, <3>1, <4>2 DEF Orderly
    <3>2. ASSUME NEW x \in Characters(parts[k]) PROVE x \in Characters(text)
      <4>1. PICK i \in lo(k)..hi(k) : i \in DOMAIN text /\ x = text[i] /\ x # Gap
        BY <2>6
      <4> QED
        BY <4>1, CharactersAre
    <3> QED
      BY <2>5, <3>1, <3>2 DEF Orderly
  <2>8. ASSUME NEW k \in 1..m, NEW l \in 1..m, k < l,
               NEW x \in Characters(parts[k]), NEW y \in Characters(parts[l])
        PROVE  x < y
    <3>1. PICK i \in lo(k)..hi(k) : i \in DOMAIN text /\ x = text[i] /\ x # Gap
      BY <2>6
    <3>2. PICK j \in lo(l)..hi(l) : j \in DOMAIN text /\ y = text[j] /\ y # Gap
      BY <2>6
    <3>3. k * limit <= (l - 1) * limit /\ k * limit \in Nat /\ (l - 1) * limit \in Nat
      BY <2>2, <2>8, SlicesApart
    <3> DEFINE b == k * limit
               c == (l - 1) * limit
    <3>4. /\ b \in Nat /\ c \in Nat /\ b <= c
          /\ hi(k) \in Nat /\ hi(k) <= b /\ lo(l) = c + 1 /\ lo(k) \in Nat /\ hi(l) \in Nat
      BY <2>3, <3>3
    <3> HIDE DEF b, c, lo, hi
    <3>5. i < j
      BY <3>1, <3>2, <3>4
    <3> QED
      BY <3>1, <3>2, <3>5 DEF Orderly
  <2>9. ASSUME NEW x \in Characters(text) PROVE \E k \in 1..m : x \in Characters(parts[k])
    <3>1. PICK i \in DOMAIN text : text[i] = x /\ x # Gap
      BY CharactersAre
    <3> DEFINE k == (i - 1) \div limit
    <3>2. i - 1 \in Nat /\ i - 1 < n /\ i <= n /\ i \in Nat
      BY <1>1
    <3>3. /\ k \in Nat /\ k * limit \in Nat /\ k * limit <= i - 1 /\ i - 1 < k * limit + limit
          /\ k + 1 <= m
      BY <1>1, <3>2, InWhichSlice DEF m
    <3> HIDE DEF k
    <3>4. k + 1 \in 1..m /\ k + 1 - 1 = k
      BY <2>2, <3>3
    <3> DEFINE l == k + 1
    <3> HIDE DEF l
    <3>5. l \in 1..m /\ (l - 1) * limit = k * limit
      <4>1. l - 1 = k /\ l \in 1..m
        BY <3>3, <3>4 DEF l
      <4> QED
        BY <4>1
    <3>6. i \in lo(l)..hi(l)
      <4>1. l * limit = k * limit + limit
        BY <2>3, <3>5
      <4>2. lo(l) = k * limit + 1
        BY <3>5
      <4>3. i <= l * limit
        BY <3>2, <3>3, <4>1
      <4>4. i <= hi(l) /\ hi(l) \in Nat
        BY <2>3, <3>2, <3>5, <4>3
      <4> QED
        BY <3>2, <3>3, <4>2, <4>4
    <3>7. x \in Characters(slice(l))
      BY <2>4, <3>1, <3>5, <3>6, CharactersAre
    <3> QED
      BY <2>5, <3>5, <3>7
  <2>10. Parts(parts, text)
    BY <2>5, <2>7, <2>8, <2>9 DEF Parts
  <2>11. \A k \in DOMAIN parts : Len(parts[k]) <= limit
    BY <2>4, <2>5
  <2> QED
    BY <2>1, <2>10, <2>11
<1> QED
  BY <1>1, <1>2, <1>3

LEMMA LeastAndGreatest ==
    ASSUME NEW n \in Nat, NEW S, S \subseteq 1..n, S # {}
    PROVE  /\ Min(S) \in S /\ \A x \in S : Min(S) <= x
           /\ Max(S) \in S /\ \A x \in S : Max(S) >= x
<1>1. \E x \in S : \A y \in S : x =< y
  <2>1. S \subseteq Nat
    OBVIOUS
  <2>2. PICK x \in S : \A y \in S : ~(<<y, x>> \in OpToRel(<, Nat))
    BY <2>1, WFMin, NatLessThanWellFounded, Zenon
  <2>3. \A y \in S : ~(y < x)
    BY <2>1, <2>2 DEF OpToRel
  <2> QED
    BY <2>1, <2>3
<1>2. \E x \in S : \A y \in S : x >= y
  <2> DEFINE T == {n - x : x \in S}
  <2>1. T \subseteq Nat /\ T # {}
    <3>1. \A x \in S : n - x \in Nat
      OBVIOUS
    <3> QED
      BY <3>1
  <2> HIDE DEF T
  <2>2. PICK t \in T : \A u \in T : ~(<<u, t>> \in OpToRel(<, Nat))
    BY <2>1, WFMin, NatLessThanWellFounded, Zenon
  <2>3. \A u \in T : ~(u < t)
    BY <2>1, <2>2 DEF OpToRel
  <2>4. PICK x \in S : t = n - x
    BY DEF T
  <2>5. ASSUME NEW y \in S PROVE x >= y
    <3>1. n - y \in T /\ x \in Int /\ y \in Int
      BY DEF T
    <3>2. ~(n - y < t)
      BY <2>3, <3>1
    <3> QED
      BY <2>4, <3>1, <3>2
  <2> QED
    BY <2>5
<1> QED
  BY <1>1, <1>2 DEF Min, Max

\* The paragraphs are numbered from one, along the text, without leaving out a
\* number.
LEMMA ParagraphProperties ==
    ASSUME NEW text \in Seq(Nat)
    PROVE  /\ \A i \in Nat : Paragraph(text, i) \in Nat
           /\ \A i, j \in Nat : i <= j => Paragraph(text, i) <= Paragraph(text, j)
           /\ \A i \in DOMAIN text : text[i] # Gap => Paragraph(text, i) >= 1
           /\ \A i \in 0..Len(text) : \A k \in 1..Paragraph(text, i) :
                 \E j \in 1..i : text[j] # Gap /\ Paragraph(text, j) = k
<1> DEFINE Starts(i) == {j \in 1..i : text[j] # Gap /\ (j > 1 => text[j - 1] = Gap)}
           P(i) == Paragraph(text, i)
<1>1. \A i : P(i) = Cardinality(Starts(i))
  BY DEF Paragraph
<1>2. ASSUME NEW i \in Nat PROVE IsFiniteSet(Starts(i)) /\ P(i) \in Nat
  <2>1. IsFiniteSet(1..i) /\ Starts(i) \in SUBSET (1..i)
    BY FS_Interval
  <2>2. IsFiniteSet(Starts(i))
    BY <2>1, FS_Subset
  <2> QED
    BY <1>1, <2>2, FS_CardinalityType
<1>3. ASSUME NEW i \in Nat, NEW j \in Nat, i <= j PROVE P(i) <= P(j)
  <2>1. Starts(i) \in SUBSET Starts(j)
    BY <1>3
  <2> HIDE DEF Starts
  <2> QED
    BY <1>1, <1>2, <2>1, FS_Subset
<1>4. ASSUME NEW i \in DOMAIN text, text[i] # Gap PROVE P(i) >= 1
  <2> DEFINE T == {j \in 1..i : text[j] # Gap}
  <2>1. i \in Nat /\ i \in T /\ T \subseteq 1..i
    BY <1>4
  <2> HIDE DEF T
  <2>2. Min(T) \in T /\ \A x \in T : Min(T) <= x
    BY <2>1, LeastAndGreatest
  <2> DEFINE m == Min(T)
  <2> HIDE DEF m
  <2>3. m \in T /\ \A x \in T : m <= x
    BY <2>2 DEF m
  <2>4. m \in 1..i /\ text[m] # Gap
    BY <2>3 DEF T
  <2>5. m > 1 => m - 1 \in 1..i /\ ~(m <= m - 1)
    BY <2>1, <2>4
  <2>6. m > 1 => text[m - 1] = Gap
    BY <2>3, <2>5 DEF T
  <2>7. Starts(i) # {}
    BY <2>4, <2>6
  <2> HIDE DEF Starts
  <2>8. P(i) # 0
    BY <1>1, <1>2, <2>1, <2>7, FS_EmptySet
  <2>9. P(i) \in Nat
    BY <1>2, <2>1
  <2> HIDE DEF P
  <2> QED
    BY <2>8, <2>9
<1>5. ASSUME NEW i \in Nat
      PROVE  \/ P(i + 1) = P(i)
             \/ P(i + 1) = P(i) + 1 /\ text[i + 1] # Gap
  <2> DEFINE starts == text[i + 1] # Gap /\ (i + 1 > 1 => text[i + 1 - 1] = Gap)
  <2>1. 1..i + 1 = (1..i) \cup {i + 1} /\ i + 1 \notin 1..i
    OBVIOUS
  <2>2. CASE starts
    <3>1. Starts(i + 1) = Starts(i) \cup {i + 1} /\ i + 1 \notin Starts(i)
      BY <2>1, <2>2
    <3> HIDE DEF Starts
    <3>2. Cardinality(Starts(i + 1)) = Cardinality(Starts(i)) + 1
      BY <1>2, <3>1, FS_AddElement
    <3> QED
      BY <1>1, <2>2, <3>2
  <2>3. CASE ~starts
    <3>1. Starts(i + 1) = Starts(i)
      BY <2>1, <2>3
    <3> HIDE DEF Starts
    <3> QED
      BY <1>1, <3>1
  <2> QED
    BY <2>2, <2>3
<1>6. P(0) = 0
  <2>1. Starts(0) = {}
    OBVIOUS
  <2> HIDE DEF Starts
  <2> QED
    BY <1>1, <2>1, FS_EmptySet
<1> HIDE DEF P, Starts
<1> DEFINE Met(i) == \A k \in 1..P(i) : \E j \in 1..i : text[j] # Gap /\ P(j) = k
           M == {i \in Nat : Met(i)}
<1>7. 0 \in M
  BY <1>6
<1>8. ASSUME NEW i \in Nat, i \in M PROVE i + 1 \in M
  <2> SUFFICES ASSUME NEW k \in 1..P(i + 1)
               PROVE  \E j \in 1..i + 1 : text[j] # Gap /\ P(j) = k
    OBVIOUS
  <2>1. P(i) \in Nat /\ P(i + 1) \in Nat
    BY <1>2
  <2>2. CASE k \in 1..P(i)
    <3>1. PICK j \in 1..i : text[j] # Gap /\ P(j) = k
      BY <1>8, <2>2
    <3>2. j \in 1..i + 1
      OBVIOUS
    <3> QED
      BY <3>1, <3>2
  <2>3. CASE k \notin 1..P(i)
    <3>1. P(i + 1) = P(i) + 1 /\ text[i + 1] # Gap /\ k = P(i + 1)
      BY <1>5, <2>1, <2>3
    <3>2. i + 1 \in 1..i + 1
      OBVIOUS
    <3> QED
      BY <3>1, <3>2
  <2> QED
    BY <2>2, <2>3
<1>9. Nat \subseteq M
  <2> HIDE DEF M
  <2>1. \A i \in Nat : i \in M => i + 1 \in M
    BY <1>8
  <2> QED
    BY <1>7, <2>1, SetInduction
<1>10. \A i \in 0..Len(text) : Met(i)
  BY <1>9
<1>11. \A i \in Nat : P(i) \in Nat
  BY <1>2
<1>12. \A i, j \in Nat : i <= j => P(i) <= P(j)
  BY <1>3
<1>13. \A i \in DOMAIN text : text[i] # Gap => P(i) >= 1
  BY <1>4
<1> QED
  BY <1>10, <1>11, <1>12, <1>13 DEF P

\* A text is in order.
LEMMA TextsAreOrderly ==
    ASSUME NEW text \in Seq(Nat), IsText(text)
    PROVE  /\ Orderly(text)
           /\ \A x : x \in Characters(text) <=> x \in DOMAIN text /\ text[x] = x
<1>1. \A i \in DOMAIN text : i \in Nat \ {0} /\ text[i] \in {i, Gap}
  <2>1. DOMAIN text = 1..Len(text) /\ Len(text) \in Nat
    OBVIOUS
  <2>2. \A i \in DOMAIN text : text[i] \in {i, Gap}
    BY DEF IsText
  <2> QED
    BY <2>1, <2>2
<1>2. Gap = 0
  BY DEF Gap
<1>3. ASSUME NEW x \in Characters(text) PROVE x \in DOMAIN text /\ text[x] = x
  <2>1. PICK i \in DOMAIN text : text[i] = x /\ x # Gap
    BY <1>3, CharactersAre
  <2> QED
    BY <1>1, <2>1
<1>4. ASSUME NEW x \in DOMAIN text, text[x] = x PROVE x \in Characters(text)
  BY <1>1, <1>2, <1>4, CharactersAre
<1>5. Orderly(text)
  BY <1>1 DEF Orderly
<1> QED
  BY <1>3, <1>4, <1>5

\* The bubbles are parts of the text.
LEMMA BubblesAreParts ==
    ASSUME NEW text \in Seq(Nat), IsText(text)
    PROVE  Parts(SplitIntoMessages(text), text)
<1> DEFINE n == Len(text)
           P(i) == Paragraph(text, i)
           Q(i) == Min({P(i), MaxSegments})
           m == Q(n)
           B(k) == Bubble(text, k)
<1>1. n \in Nat /\ DOMAIN text = 1..n
  OBVIOUS
<1>2. CASE Characters(text) = {}
  <2> DEFINE parts == <<text>>
  <2>1. SplitIntoMessages(text) = parts
    BY <1>2 DEF SplitIntoMessages
  <2>2. parts \in Seq(Seq(Nat)) /\ DOMAIN parts = {1} /\ parts[1] = text
    OBVIOUS
  <2>3. Orderly(text)
    BY TextsAreOrderly
  <2> HIDE DEF parts
  <2> QED
    BY <2>1, <2>2, <2>3 DEF Parts
<1>3. CASE Characters(text) # {}
  <2>1. /\ \A i \in Nat : P(i) \in Nat
        /\ \A i, j \in Nat : i <= j => P(i) <= P(j)
        /\ \A i \in DOMAIN text : text[i] # Gap => P(i) >= 1
        /\ \A i \in 0..n : \A k \in 1..P(i) : \E j \in 1..i : text[j] # Gap /\ P(j) = k
    BY ParagraphProperties
  <2>2. MaxSegments \in Nat \ {0}
    BY ReplyTextAssumption
  <2>3. ASSUME NEW i \in Nat PROVE Q(i) = IF P(i) <= MaxSegments THEN P(i) ELSE MaxSegments
    <3>1. P(i) \in Int /\ MaxSegments \in Int
      BY <2>1, <2>2
    <3> HIDE DEF P
    <3> QED
      BY <3>1, SmallerOf
  <2>4. /\ \A i \in Nat : Q(i) \in Nat
        /\ \A i, j \in Nat : i <= j => Q(i) <= Q(j)
        /\ \A i \in DOMAIN text : text[i] # Gap => Q(i) >= 1
    <3> HIDE DEF P, Q
    <3>1. ASSUME NEW i \in Nat, NEW j \in Nat, i <= j PROVE Q(i) \in Nat /\ Q(i) <= Q(j)
      <4>1. P(i) \in Nat /\ P(j) \in Nat /\ P(i) <= P(j)
        BY <2>1, <3>1
      <4>2. /\ Q(i) = IF P(i) <= MaxSegments THEN P(i) ELSE MaxSegments
            /\ Q(j) = IF P(j) <= MaxSegments THEN P(j) ELSE MaxSegments
        BY <2>3
      <4> QED
        BY <2>2, <4>1, <4>2
    <3>2. ASSUME NEW i \in DOMAIN text, text[i] # Gap PROVE Q(i) >= 1
      <4>1. i \in Nat /\ P(i) \in Nat /\ P(i) >= 1
        BY <1>1, <2>1, <3>2
      <4>2. Q(i) = IF P(i) <= MaxSegments THEN P(i) ELSE MaxSegments
        BY <2>3, <4>1
      <4> QED
        BY <2>2, <4>1, <4>2
    <3>3. \A i \in Nat : Q(i) \in Nat
      BY <3>1
    <3> QED
      BY <3>1, <3>2, <3>3
  <2>5. \A x : x \in Characters(text) <=> x \in 1..n /\ text[x] = x
    BY <1>1, TextsAreOrderly
  <2>6. \A k : B(k) = {x \in Characters(text) : Q(x) = k}
    BY DEF Bubble
  <2>7. \A i \in 1..n : text[i] # Gap => text[i] = i
    BY <1>1 DEF IsText
  <2>8. m \in Nat
    BY <1>1, <2>4
  <2>9. ASSUME NEW k \in 1..m PROVE B(k) \subseteq 1..n /\ B(k) # {}
    <3>1. B(k) \subseteq 1..n
      BY <2>5, <2>6
    <3>2. k \in 1..P(n) /\ k <= MaxSegments
      <4>1. P(n) \in Nat /\ m = IF P(n) <= MaxSegments THEN P(n) ELSE MaxSegments
        BY <1>1, <2>1, <2>3
      <4> HIDE DEF P, m
      <4> QED
        BY <2>2, <4>1
    <3>3. PICK j \in 1..n : text[j] # Gap /\ P(j) = k
      <4>1. n \in 0..n
        BY <1>1
      <4> HIDE DEF P
      <4> QED
        BY <2>1, <3>2, <4>1
    <3>4. Q(j) = k
      BY <2>3, <3>2, <3>3
    <3>5. j \in Characters(text)
      BY <2>5, <2>7, <3>3
    <3> QED
      BY <2>6, <3>1, <3>4, <3>5
  <2> DEFINE lo(k) == Min(B(k))
             hi(k) == Max(B(k))
             bubble(k) == SubSeq(text, lo(k), hi(k))
             parts == [k \in 1..m |-> bubble(k)]
  <2>10. SplitIntoMessages(text) = parts
    BY <1>3 DEF SplitIntoMessages
  <2> HIDE DEF P, Q, m, B
  <2>11. ASSUME NEW k \in 1..m
         PROVE  /\ lo(k) \in B(k) /\ hi(k) \in B(k)
                /\ \A x \in B(k) : lo(k) <= x /\ x <= hi(k)
                /\ lo(k) \in 1..n /\ hi(k) \in 1..n
    <3>1. /\ lo(k) \in B(k) /\ hi(k) \in B(k)
          /\ \A x \in B(k) : lo(k) <= x /\ hi(k) >= x
      BY <1>1, <2>9, LeastAndGreatest
    <3> HIDE DEF lo, hi
    <3>2. lo(k) \in 1..n /\ hi(k) \in 1..n
      BY <2>9, <3>1
    <3>3. \A x \in B(k) : x <= hi(k)
      BY <2>9, <3>1, <3>2
    <3> QED
      BY <3>1, <3>2, <3>3
  <2> HIDE DEF lo, hi
  <2>12. ASSUME NEW k \in 1..m
         PROVE  /\ bubble(k) \in Seq(Nat)
                /\ \A p \in DOMAIN bubble(k) :
                      /\ p \in Nat
                      /\ lo(k) + p - 1 \in lo(k)..hi(k)
                      /\ bubble(k)[p] = text[lo(k) + p - 1]
                /\ \A i \in lo(k)..hi(k) :
                      /\ i - lo(k) + 1 \in DOMAIN bubble(k)
                      /\ bubble(k)[i - lo(k) + 1] = text[i]
    <3> DEFINE a == lo(k) - 1
               b == hi(k)
               s == SubSeq(text, a + 1, b)
    <3>1. lo(k) \in 1..n /\ hi(k) \in 1..n
      BY <2>11
    <3>2. a \in Nat /\ b \in Nat /\ b <= n /\ lo(k) = a + 1
      BY <1>1, <3>1
    <3>3. bubble(k) = s
      BY <3>2
    <3> HIDE DEF a, b
    <3>4. /\ s \in Seq(Nat)
          /\ \A p \in DOMAIN s :
                p \in Nat /\ a + p \in a + 1..b /\ a + p \in DOMAIN text /\ s[p] = text[a + p]
          /\ \A i \in a + 1..b : i - a \in DOMAIN s /\ s[i - a] = text[i]
      BY <3>2, Taken
    <3> HIDE DEF s, bubble
    <3>5. \A p \in Nat : lo(k) + p - 1 = a + p
      BY <3>2
    <3>6. \A i \in lo(k)..b : i - lo(k) + 1 = i - a
      BY <3>2
    <3> QED
      BY <3>2, <3>3, <3>4, <3>5, <3>6 DEF b
  <2>13. /\ parts \in Seq(Seq(Nat)) /\ DOMAIN parts = 1..m
         /\ \A k \in 1..m : parts[k] = bubble(k)
    <3> HIDE DEF bubble
    <3>1. parts \in [1..m -> Seq(Nat)]
      BY <2>12
    <3> QED
      BY <2>8, <3>1
  <2> HIDE DEF parts, bubble
  <2>14. ASSUME NEW k \in 1..m PROVE Characters(parts[k]) = B(k)
    <3>1. ASSUME NEW x \in Characters(parts[k]) PROVE x \in B(k)
      <4>1. PICK p \in DOMAIN bubble(k) : bubble(k)[p] = x /\ x # Gap
        BY <2>13, <3>1, CharactersAre
      <4> DEFINE i == lo(k) + p - 1
      <4>2. i \in lo(k)..hi(k) /\ text[i] = x
        BY <2>12, <4>1
      <4> HIDE DEF i
      <4>3. lo(k) \in 1..n /\ hi(k) \in 1..n
        BY <2>11
      <4>4. i \in 1..n /\ lo(k) <= i /\ i <= hi(k) /\ i \in Nat /\ lo(k) \in Nat /\ hi(k) \in Nat
        BY <1>1, <4>2, <4>3
      <4>5. x = i
        BY <2>7, <4>1, <4>2, <4>4
      <4>6. Q(lo(k)) = k /\ Q(hi(k)) = k
        BY <2>6, <2>11
      <4>7. Q(i) = k
        <5>1. Q(lo(k)) <= Q(i) /\ Q(i) <= Q(hi(k)) /\ Q(i) \in Nat
          BY <2>4, <4>4
        <5> QED
          BY <2>8, <4>6, <5>1
      <4>8. i \in Characters(text)
        BY <2>5, <4>2, <4>4, <4>5
      <4> QED
        BY <2>6, <4>5, <4>7, <4>8
    <3>2. ASSUME NEW x \in B(k) PROVE x \in Characters(parts[k])
      <4>1. x \in Characters(text) /\ x \in 1..n /\ text[x] = x
        BY <2>5, <2>6, <3>2
      <4>2. lo(k) <= x /\ x <= hi(k) /\ lo(k) \in 1..n /\ hi(k) \in 1..n
        BY <2>11, <3>2
      <4>3. x \in lo(k)..hi(k)
        BY <1>1, <4>1, <4>2
      <4>4. x - lo(k) + 1 \in DOMAIN bubble(k) /\ bubble(k)[x - lo(k) + 1] = x
        BY <2>12, <4>1, <4>3
      <4>5. x # Gap
        BY <1>1, <4>1 DEF Gap
      <4> QED
        BY <2>13, <4>4, <4>5, CharactersAre
    <3> QED
      BY <3>1, <3>2
  <2>15. ASSUME NEW k \in 1..m PROVE Orderly(parts[k])
    <3> SUFFICES ASSUME NEW p \in DOMAIN bubble(k), NEW q \in DOMAIN bubble(k), p < q,
                        bubble(k)[p] # Gap, bubble(k)[q] # Gap
                 PROVE  bubble(k)[p] < bubble(k)[q]
      BY <2>13 DEF Orderly
    <3>1. /\ p \in Nat /\ q \in Nat
          /\ lo(k) + p - 1 \in lo(k)..hi(k) /\ bubble(k)[p] = text[lo(k) + p - 1]
          /\ lo(k) + q - 1 \in lo(k)..hi(k) /\ bubble(k)[q] = text[lo(k) + q - 1]
      BY <2>12
    <3>2. lo(k) \in 1..n /\ hi(k) \in 1..n
      BY <2>11
    <3>3. lo(k) + p - 1 \in 1..n /\ lo(k) + q - 1 \in 1..n /\ lo(k) + p - 1 < lo(k) + q - 1
      BY <1>1, <3>1, <3>2
    <3> QED
      BY <2>7, <3>1, <3>3
  <2>16. ASSUME NEW k \in 1..m, NEW l \in 1..m, k < l, NEW x \in B(k), NEW y \in B(l)
         PROVE  x < y
    <3>1. x \in 1..n /\ y \in 1..n /\ Q(x) = k /\ Q(y) = l
      BY <2>6, <2>9
    <3>2. ~(y <= x)
      <4> SUFFICES ASSUME y <= x PROVE FALSE
        OBVIOUS
      <4>1. l <= k
        BY <1>1, <2>4, <3>1
      <4> QED
        BY <2>8, <2>16, <4>1
    <3> QED
      BY <1>1, <3>1, <3>2
  <2>17. ASSUME NEW x \in Characters(text) PROVE \E k \in 1..m : x \in B(k)
    <3>1. x \in 1..n /\ text[x] = x /\ x # Gap
      BY <1>1, <2>5 DEF Gap
    <3>2. Q(x) \in Nat /\ Q(x) >= 1 /\ Q(x) <= Q(n)
      <4>1. x \in Nat /\ n \in Nat /\ x <= n
        BY <1>1, <3>1
      <4> QED
        BY <1>1, <2>4, <3>1, <4>1
    <3>3. Q(x) \in 1..m
      BY <2>8, <3>2 DEF m
    <3> QED
      BY <2>6, <3>3
  <2>18. Parts(parts, text)
    <3>1. \A k \in DOMAIN parts : Characters(parts[k]) = B(k) /\ B(k) \subseteq Characters(text)
      BY <2>6, <2>13, <2>14
    <3>2. \A k, l \in DOMAIN parts : k < l =>
             \A x \in Characters(parts[k]), y \in Characters(parts[l]) : x < y
      BY <2>13, <2>16, <3>1
    <3>3. \A x \in Characters(text) : \E k \in DOMAIN parts : x \in Characters(parts[k])
      BY <2>13, <2>17, <3>1
    <3>4. \A k \in DOMAIN parts :
             Orderly(parts[k]) /\ Characters(parts[k]) \subseteq Characters(text)
      BY <2>13, <2>15, <3>1
    <3> QED
      BY <2>13, <3>2, <3>3, <3>4 DEF Parts
  <2> QED
    BY <2>10, <2>18
<1> QED
  BY <1>2, <1>3

\* Every reply is cut into parts of its text that are not too long.
LEMMA ChunksAreParts ==
    ASSUME TypeOK, operation.kind = "reply"
    PROVE  /\ Parts(Chunks, operation.text)
           /\ \A k \in DOMAIN Chunks :
                 Len(Chunks[k]) <= IF operation.client = "telegram" THEN TelegramLimit
                                   ELSE InstagramLimit
<1> DEFINE text == operation.text
<1>1. text \in Seq(Nat) /\ IsText(text) /\ Orderly(text)
  <2>1. text \in Texts
    BY DEF TypeOK, Operations
  <2> QED
    BY <2>1, TransportAssumption, TextsAreOrderly
<1>2. TelegramLimit \in Nat \ {0} /\ InstagramLimit \in Nat \ {0}
  BY ReplyTextAssumption
<1> HIDE DEF text
<1>3. CASE operation.client # "telegram"
  <2>1. Chunks = Slices(text, InstagramLimit)
    BY <1>3 DEF Chunks, SplitForInstagramLimit, text
  <2>2. /\ Parts(Slices(text, InstagramLimit), text)
        /\ \A k \in DOMAIN Slices(text, InstagramLimit) :
              Len(Slices(text, InstagramLimit)[k]) <= InstagramLimit
    BY <1>1, <1>2, SlicesProperties
  <2> QED
    BY <1>3, <2>1, <2>2 DEF text
<1>4. CASE operation.client = "telegram"
  <2> DEFINE bubbles == SplitIntoMessages(text)
             pieces == [k \in DOMAIN bubbles |-> Slices(bubbles[k], TelegramLimit)]
             flat == FlattenSeq(pieces)
  <2>1. Chunks = flat
    BY <1>4 DEF Chunks, SplitForTelegramLimit, text
  <2>2. Parts(bubbles, text)
    BY <1>1, BubblesAreParts
  <2> HIDE DEF bubbles
  <2>3. ASSUME NEW k \in DOMAIN bubbles
        PROVE  /\ Parts(pieces[k], bubbles[k])
               /\ \A p \in DOMAIN pieces[k] : Len(pieces[k][p]) <= TelegramLimit
    <3>1. bubbles[k] \in Seq(Nat) /\ Orderly(bubbles[k])
      BY <2>2 DEF Parts
    <3>2. pieces[k] = Slices(bubbles[k], TelegramLimit)
      OBVIOUS
    <3> HIDE DEF pieces
    <3> QED
      BY <1>2, <3>1, <3>2, SlicesProperties
  <2>4. pieces \in Seq(Seq(Seq(Nat))) /\ DOMAIN pieces = DOMAIN bubbles
    <3>1. DOMAIN bubbles = 1..Len(bubbles) /\ Len(bubbles) \in Nat
      BY <2>2 DEF Parts
    <3>2. \A k \in DOMAIN bubbles : pieces[k] \in Seq(Seq(Nat))
      BY <2>3 DEF Parts
    <3>3. DOMAIN pieces = DOMAIN bubbles /\ pieces = [k \in DOMAIN bubbles |-> pieces[k]]
      OBVIOUS
    <3> HIDE DEF pieces
    <3>4. pieces \in [1..Len(bubbles) -> Seq(Seq(Nat))]
      BY <3>1, <3>2, <3>3
    <3> QED
      BY <3>1, <3>3, <3>4
  <2> HIDE DEF pieces
  <2>5. flat \in Seq(Seq(Nat)) /\ Laid(flat, pieces, Len(pieces))
    BY <2>4, FlattenProperties
  <2>6. Parts(flat, text)
    BY <2>2, <2>3, <2>4, PartsOfParts
  <2> HIDE DEF flat
  <2>7. ASSUME NEW i \in DOMAIN flat PROVE Len(flat[i]) <= TelegramLimit
    <3>1. PICK k \in 1..Len(pieces) : \E p \in DOMAIN pieces[k] : flat[i] = pieces[k][p]
      BY <2>5 DEF Laid
    <3>2. k \in DOMAIN bubbles
      BY <2>4
    <3> QED
      BY <2>3, <3>1, <3>2
  <2> QED
    BY <1>4, <2>1, <2>6, <2>7 DEF text
<1> QED
  BY <1>3, <1>4

\* What has been received when the sender gets on, and when it is done.
Whole ==
    /\ verdict # "none" => pc = "done"
    /\ operation.kind = "reply" => \A k \in 1..(chunk - 1) : Got(k)
    /\ verdict = "resolved" /\ operation.kind = "reply" => chunk = Len(Chunks) /\ Got(chunk)

LEMMA StepWhole == IInv /\ Whole /\ [Next]_vars => Whole'
<1> SUFFICES ASSUME IInv, Whole, [Next]_vars PROVE Whole'
  OBVIOUS
<1>1. \A k : Got(k) => Got(k)'
  <2>1. CASE received' = received
    BY <2>1 DEF Got
  <2>2. CASE \E r \in inTransit : Serve(r)
    <3>1. PICK r : received' = Append(received, r)
      BY <2>2 DEF Serve
    <3>2. received \in Seq(Requests)
      BY DEF IInv, TypeOK
    <3>3. DOMAIN received \subseteq DOMAIN received' /\ \A j \in DOMAIN received : received'[j] = received[j]
      BY <3>1, <3>2
    <3> QED
      BY <3>3 DEF Got
  <2>3. Step \/ UNCHANGED vars => received' = received
    BY DEF Step, Begin, Call, Send, Answered, Retry, NextChunk, Fetched, vars
  <2> QED
    BY <2>1, <2>2, <2>3 DEF Next
<1>2. operation' = operation
  BY DEF Next, Step, Begin, Call, Send, Answered, Succeeded, Stay, Resolve, Reject, Settle, Retry,
         NextChunk, Fetched, Serve, vars, localVars
<1>3. Chunks' = Chunks
  BY <1>2 DEF Chunks
<1>4. chunk \in Nat \ {0}
  BY DEF IInv, TypeOK
<1>5. CASE pc' = pc /\ chunk' = chunk /\ verdict' = verdict
  BY <1>1, <1>2, <1>3, <1>5 DEF Whole
<1>6. CASE pc # "done" /\ chunk' = chunk /\ (verdict' = verdict \/ (verdict' = "rejected" /\ pc' = "done"))
  <2>1. verdict = "none"
    BY <1>6 DEF Whole
  <2> QED
    BY <1>1, <1>2, <1>6, <2>1 DEF Whole
<1>7. CASE operation.kind # "reply" /\ pc # "done" /\ verdict' # "none" /\ pc' = "done"
  BY <1>2, <1>7 DEF Whole
<1>8. CASE operation.kind # "reply" /\ pc # "done" /\ verdict' = verdict
  BY <1>2, <1>8 DEF Whole
<1>9. CASE Begin
  <2>1. CASE Call(1)
    BY <1>4, <1>9, <2>1 DEF Begin, Call, Send, Whole
  <2>2. CASE Reject
    BY <1>6, <1>9, <2>2 DEF Begin, Reject, Settle
  <2> QED
    BY <1>9, <2>1, <2>2 DEF Begin
<1>10. ASSUME NEW a \in Answers, Answered(a) PROVE Whole'
  <2> DEFINE result == AttemptApiCall(operation.client, a)
  <2>1. pc = "request"
    BY <1>10 DEF Answered
  <2>2. CASE result.outcome = "success" /\ operation.kind = "reply" /\ chunk = Len(Chunks) /\ Resolve
    <3>1. Got(chunk)
      BY <1>10, <2>2, AcknowledgedIsReceived DEF IInv
    <3>2. chunk' = chunk /\ pc' = "done"
      BY <2>2 DEF Resolve, Settle
    <3> QED
      BY <1>1, <1>2, <1>3, <2>2, <3>1, <3>2 DEF Whole
  <2>3. CASE operation.kind # "reply" /\ (Resolve \/ Reject)
    BY <1>7, <2>1, <2>3 DEF Resolve, Reject, Settle
  <2>4. CASE Stay
    BY <1>6, <2>1, <2>4 DEF Stay
  <2>5. CASE Reject
    BY <1>6, <2>1, <2>5 DEF Reject, Settle
  <2>6. CASE UNCHANGED <<operation, chunk, attempt, verdict, file>>
    BY <1>6, <2>1, <2>6
  <2> QED
    BY <1>10, <2>2, <2>3, <2>4, <2>5, <2>6 DEF Answered, Succeeded
<1>11. CASE Retry
  BY <1>6, <1>11 DEF Retry, Send
<1>12. CASE NextChunk
  <2>1. /\ pc = "pause" /\ chunk' = chunk + 1 /\ verdict' = verdict /\ verdict = "none"
    BY <1>12 DEF NextChunk, Call, Send, Whole
  <2>2. Got(chunk)
    BY <2>1 DEF IInv, InOrder
  <2>3. \A k \in 1..(chunk' - 1) : k = chunk \/ k \in 1..(chunk - 1)
    BY <1>4, <2>1
  <2> QED
    BY <1>1, <1>2, <2>1, <2>2, <2>3 DEF Whole
<1>13. CASE Fetched
  BY <1>7, <1>13 DEF Fetched, Reject, Settle, IInv, Underway
<1>14. CASE \E r \in inTransit : Serve(r)
  BY <1>5, <1>14 DEF Serve, localVars
<1>15. CASE UNCHANGED vars
  BY <1>5, <1>15 DEF vars, localVars
<1> QED
  BY <1>9, <1>10, <1>11, <1>12, <1>13, <1>14, <1>15 DEF Next, Step

\* A reply that was sent has been received from its first character to its last,
\* whatever its text, the limits of the platform, and the number of bubbles.
THEOREM SentIsWhole == Spec => []ResolvedIsWhole
<1>1. Init => Whole
  BY DEF Init, Whole
<1>2. Spec => []Whole
  BY <1>1, Invariance, StepWhole, PTL DEF Spec
<1>3. IInv /\ Whole => ResolvedIsWhole
  <2> SUFFICES ASSUME IInv, Whole, verdict = "resolved", operation.kind = "reply"
               PROVE  LET sent == FlattenSeq(Chunks) IN
                      /\ \A k \in DOMAIN Chunks :
                            /\ Got(k)
                            /\ Len(Chunks[k]) <= IF operation.client = "telegram" THEN TelegramLimit
                                                 ELSE InstagramLimit
                      /\ Characters(sent) = Characters(operation.text)
                      /\ Orderly(sent)
    BY DEF ResolvedIsWhole, Got, Orderly
  <2>1. /\ Parts(Chunks, operation.text)
        /\ \A k \in DOMAIN Chunks :
              Len(Chunks[k]) <= IF operation.client = "telegram" THEN TelegramLimit
                                ELSE InstagramLimit
    BY ChunksAreParts DEF IInv
  <2>2. DOMAIN Chunks = 1..Len(Chunks) /\ Len(Chunks) \in Nat
    BY <2>1 DEF Parts
  <2>3. \A k \in DOMAIN Chunks : Got(k)
    BY <2>2 DEF Whole
  <2> QED
    BY <2>1, <2>3, PartsMakeUp
<1> QED
  BY <1>2, <1>3, Invariance, PTL
===============================================================================

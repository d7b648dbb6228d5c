-------------------------------- MODULE Transport ------------------------------
(***************************************************************************)
(* One operation over HTTP: sendReply of a text, downloadFile of a         *)
(* customer's file, or generateReply.  Operations share no state, so one   *)
(* stands for all.  A request can reach the platform although its sender   *)
(* was told nothing, or long after its sender gave it up, so a request is  *)
(* served by an action of its own.                                         *)
(***************************************************************************)
EXTENDS HttpCall, ReplyText, FiniteSets

CONSTANTS Texts,       \* the texts that can be sent
          Registered,  \* the platforms that have a sender
          FileSizes,   \* the sizes a file can have
          MaxFileSize, \* MAX_DOWNLOADABLE_FILE_BYTES
          NoSize       \* getFile names no size

ASSUME TransportAssumption ==
    /\ \A text \in Texts : text \in Seq(Nat) /\ IsText(text)
    /\ Registered \subseteq {"telegram", "instagram"}
    /\ FileSizes \subseteq Nat
    /\ MaxFileSize \in Nat
    /\ NoSize \notin Nat

Operations == [kind : {"reply"}, client : {"telegram", "instagram", "other"}, text : Texts]
                 \cup [kind : {"file"}, client : {"telegram"}, text : {<<>>}]
                 \cup [kind : {"model"}, client : {"gemini"}, text : {<<>>}]

VARIABLES operation, \* what is to be done
          pc,        \* what it awaits
          chunk,     \* the index of sendReply into its chunks
          attempt,   \* attemptNumber of callWithRetry
          verdict,   \* whether its promise was resolved or rejected
          file       \* the size of the file that downloadFile returned

VARIABLES inTransit, \* the requests to send a chunk that the platform may yet serve
          received   \* the chunks the customer has received

\* History the program does not keep.
VARIABLES lost,      \* how many requests to send a chunk got no answer, or a 5xx
          asked,     \* the waits the server of the current call asked for
          waited     \* and the waits since that call began

localVars == <<operation, pc, chunk, attempt, verdict, file>>
vars == <<localVars, inTransit, received, lost, asked, waited>>

\* The engine splits a text into bubbles; the redirect handler, on Instagram,
\* has one.
Chunks ==
    IF operation.client = "telegram"
    THEN LET bubbles == SplitIntoMessages(operation.text)
         IN FlattenSeq([k \in DOMAIN bubbles |-> SplitForTelegramLimit(bubbles[k])])
    ELSE SplitForInstagramLimit(operation.text)

Request(k, n) == [chunk |-> k, attempt |-> n]

Requests == [chunk : Nat \ {0}, attempt : 1..MaxAttempts]

TypeOK ==
    /\ operation \in Operations
    /\ pc \in {"start", "request", "backoff", "pause", "fetch", "done"}
    /\ chunk \in Nat \ {0}
    /\ attempt \in 1..MaxAttempts
    /\ verdict \in {"none", "resolved", "rejected"}
    /\ file \in FileSizes \cup {NoSize}
    /\ inTransit \subseteq Requests
    /\ received \in Seq(Requests)
    /\ lost \in Nat
    /\ asked \in Nat
    /\ waited \in Nat

Init ==
    /\ operation \in Operations
    /\ pc = "start"
    /\ chunk = 1
    /\ attempt = 1
    /\ verdict = "none"
    /\ file = NoSize
    /\ inTransit = {}
    /\ received = <<>>
    /\ lost = 0
    /\ asked = 0
    /\ waited = 0

-----------------------------------------------------------------------------
\* fetch is called for the n-th time for chunk k.  Reading twice makes no
\* difference, so only texts are in transit.
Send(k, n) ==
    /\ pc' = "request"
    /\ chunk' = k
    /\ attempt' = n
    /\ inTransit' = IF operation.kind = "reply" THEN inTransit \cup {Request(k, n)} ELSE inTransit
    /\ UNCHANGED <<operation, verdict, file, received, lost>>

\* callWithRetry begins.
Call(k) ==
    /\ Send(k, 1)
    /\ asked' = 0
    /\ waited' = 0

\* The promise of the operation resolves, or it rejects.
Settle(how, size) ==
    /\ pc' = "done"
    /\ verdict' = how
    /\ file' = size
    /\ UNCHANGED <<operation, chunk, attempt, asked, waited>>

Resolve == Settle("resolved", NoSize)
Reject == Settle("rejected", NoSize)

\* PlatformRoutingMessageSender finds the sender of the customer's platform.
Routed == operation.kind = "reply" => operation.client \in Registered

Begin ==
    /\ pc = "start"
    /\ \/ Routed /\ Call(1)
       \/ ~Routed /\ Reject /\ UNCHANGED <<inTransit, received, lost>>

Pending == Request(chunk, attempt)

\* The platform delivers a chunk it got, though never one without a character.
Serve(r) ==
    /\ r \in inTransit
    /\ Characters(Chunks[r.chunk]) # {}
    /\ inTransit' = inTransit \ {r}
    /\ received' = Append(received, r)
    /\ UNCHANGED <<localVars, lost, asked, waited>>

\* A chunk is acknowledged after it was delivered, and refused instead of being
\* delivered; nothing can be said of it if no answer came.
AnswerAgrees(a) ==
    /\ a.status = "ok" => Pending \in Range(received)
    /\ a.status \in {"limited", "refused"} => Pending \in inTransit

\* What getFile may say of a file that is then fetched.
FileFound(size) == size # NoSize => size <= MaxFileSize

Stay == UNCHANGED <<operation, chunk, attempt, verdict, file, asked, waited>>

\* What the operation does with a successful call.
Succeeded ==
    \/ /\ operation.kind = "reply" /\ chunk < Len(Chunks)
       /\ pc' = "pause"
       /\ Stay
    \/ /\ operation.kind = "reply" /\ chunk = Len(Chunks)
       /\ Resolve
    \/ /\ operation.kind = "model"
       /\ Resolve \/ Reject             \* "Gemini returned no usable text"
    \/ /\ operation.kind = "file"
       /\ \/ \E size \in FileSizes \cup {NoSize} : FileFound(size) /\ pc' = "fetch" /\ Stay
          \/ Reject                     \* too large, or without a path

\* The response to the request under way, or the exception of fetch.
Answered(a) ==
    LET result == AttemptApiCall(operation.client, a) IN
    /\ pc = "request"
    /\ operation.kind = "reply" => AnswerAgrees(a)
    /\ inTransit' = IF a.status = "none" THEN inTransit ELSE inTransit \ {Pending}
    /\ lost' = IF operation.kind = "reply" /\ a.status \in {"none", "broken"} THEN lost + 1
               ELSE lost
    /\ UNCHANGED received
    /\ \/ result.outcome = "success" /\ Succeeded
       \/ /\ GoesOn(result, attempt)
          /\ pc' = "backoff"
          /\ asked' = asked + (IF a.wait = NoWait THEN 0 ELSE a.wait)
          /\ waited' = waited + Delay(result, attempt)
          /\ UNCHANGED <<operation, chunk, attempt, verdict, file>>
       \/ result.outcome # "success" /\ ~GoesOn(result, attempt) /\ Reject

\* The sleep of callWithRetry is over.
Retry ==
    /\ pc = "backoff"
    /\ Send(chunk, attempt + 1)
    /\ UNCHANGED <<asked, waited>>

\* Mutant of NextChunk: the sender does not wait for the answer.
NextChunkEarly ==
    /\ pc \in {"pause", "backoff"}
    /\ chunk < Len(Chunks)
    /\ Call(chunk + 1)

\* The sleep of sendReply between two chunks is over.
NextChunk ==
    /\ pc = "pause"
    /\ Call(chunk + 1)

\* Mutant of Fetched: a failed download is begun again, without a limit.
FetchRetries ==
    /\ pc = "fetch"
    /\ \/ /\ \E size \in FileSizes : size <= MaxFileSize /\ Settle("resolved", size)
          /\ UNCHANGED <<inTransit, received, lost>>
       \/ Call(1)

\* The content is asked for once; whatever its size was said to be, it is
\* measured.
Fetched ==
    /\ pc = "fetch"
    /\ \/ \E size \in FileSizes : size <= MaxFileSize /\ Settle("resolved", size)
       \/ Reject
    /\ UNCHANGED <<inTransit, received, lost>>

Step == Begin \/ (\E a \in Answers : Answered(a)) \/ Retry \/ NextChunk \/ Fetched

Next == Step \/ \E r \in inTransit : Serve(r)

Spec == Init /\ [][Next]_vars

\* A sleep ends, and the HTTP client gives up a request by itself.
FairSpec == Spec /\ WF_vars(Step)

-----------------------------------------------------------------------------
\* However often requests are repeated, and however late they arrive, a
\* customer reads a reply from its beginning: a chunk is never received before
\* the one in front of it.
ReadFromTheBeginning ==
    \A k \in DOMAIN received :
       received[k].chunk > 1 => \E j \in 1..(k - 1) : received[j].chunk = received[k].chunk - 1

\* "Fold the tail into the last message rather than drop it": when sendReply
\* resolves, the customer has the whole text, in chunks that are in the order
\* of the text and hold no more than the platform takes.
ResolvedIsWhole ==
    LET sent == FlattenSeq(Chunks) IN
    verdict = "resolved" /\ operation.kind = "reply" =>
       /\ \A k \in DOMAIN Chunks :
             /\ \E j \in DOMAIN received : received[j].chunk = k
             /\ Len(Chunks[k]) <= IF operation.client = "telegram" THEN TelegramLimit
                                  ELSE InstagramLimit
       /\ Characters(sent) = Characters(operation.text)
       /\ \A i, j \in DOMAIN sent :
             i < j /\ sent[i] # Gap /\ sent[j] # Gap => sent[i] < sent[j]

\* A customer gets the same chunk again only if its answer was lost or the
\* platform was in trouble, and never more than MaxAttempts times.
DuplicatesAreAccountedFor ==
    LET chunks == {received[k].chunk : k \in DOMAIN received} IN
    /\ Len(received) <= Cardinality(chunks) + lost
    /\ \A c \in chunks :
          Cardinality({k \in DOMAIN received : received[k].chunk = c}) <= MaxAttempts

\* A request to Telegram is not repeated before all the waits that were asked
\* for are over.  Instagram names none, and the model's are capped.
WaitsAsAsked ==
    pc = "request" /\ operation.client = "telegram" => waited >= asked

\* "Turning one customer's turn into a multi-minute hang": the waits for the
\* model are bounded, whatever Gemini asks for.
ModelWaitIsBounded ==
    operation.client = "gemini" => waited <= (MaxAttempts - 1) * MaxRetryDelay

\* Every operation resolves or rejects.
EveryOperationSettles == pc = "start" ~> pc = "done"
===============================================================================

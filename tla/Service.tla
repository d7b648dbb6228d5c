------------------------------- MODULE Service -------------------------------
(***************************************************************************)
(* The life of the process: index.ts with startup/validateStartup.ts and    *)
(* lifecycle/shutdown.ts around the request handlers, and the work that     *)
(* goes on behind a request that has been answered.                         *)
(*                                                                          *)
(* Clients open connections, send bodies in pieces, stop half way and go    *)
(* away as they like.  A connection carries one request after another; each *)
(* exchange is counted here with the connection it came over.  A Telegram   *)
(* message that was handed over is Dispatch's, not followed further here.   *)
(***************************************************************************)
EXTENDS Configuration, Webhook, InstagramRedirect

CONSTANTS Environments,  \* the environments the process can be started in
          Damages,       \* the sets of parts that may be out of order then
          Requests,      \* what clients send
          MaxSignals,    \* bound on the signals the operator sends
          Null

Telegram == INSTANCE TelegramUpdate
Instagram == INSTANCE InstagramEvent WITH NoValue <- Null

\* The start-up checks, by name and in order; the last one is made only when
\* Instagram is configured.
StartupChecks ==
    <<"knowledge base loads", "system prompt loads", "database is queryable",
      "Telegram bot token is valid", "LLM provider is reachable",
      "Instagram page access token is valid">>

\* What else can be out of order: the database file, the port, and the file
\* behind the privacy policy, which nothing depends on.
Parts == Range(StartupChecks) \cup {"open database", "port", "privacy policy"}

ASSUME ServiceAssumption ==
    /\ Environments \subseteq Environment
    /\ Damages \subseteq SUBSET Parts
    /\ MaxSignals \in Nat

\* What Telegram sends: one message at most, with a text or a caption.
IsUpdate(update) ==
    LET present == Range(Telegram!MessageFields) \cap DOMAIN update
        Words(field) == {"text", "caption"} \cap DOMAIN update[field]
    IN /\ \A field, other \in present : field = other
       /\ \A field \in present :
             /\ \A words, other \in Words(field) : words = other
             /\ \A words \in Words(field) : update[field][words] # Null

\* What Instagram sends: lists of entries and of events, and no text of blanks.
IsDelivery(body) ==
    /\ body \in Seq(Range(body))
    /\ \A entry \in Range(body) : "messaging" \in DOMAIN entry =>
          /\ entry["messaging"] \in Seq(Range(entry["messaging"]))
          /\ \A event \in Range(entry["messaging"]) : "message" \in DOMAIN event =>
                Instagram!Text(event["message"]) \in (SUBSET {"word", "emoji", "blank"}) \ {{"blank"}}

\* A delivery of Instagram is known by its signature.  Telegram's secret token
\* is optional, so whoever sends an update is taken to send one of this shape.
ASSUME RequestsAssumption ==
    /\ Null \notin Range(Telegram!MessageFields)
    /\ \A r \in Requests : r.method = "POST" /\ r.body # Garbage =>
          /\ r.path = "telegram" => IsUpdate(r.body)
          /\ r.path = "instagram" /\ r.credential = [key |-> AppSecret, over |-> r.body] =>
                IsDelivery(r.body)

VARIABLES env, broken,  \* fixed before the process starts
          life,         \* how far main() has come
          checksRun,    \* how many start-up checks have been made
          failures,     \* the parts found out of order, as reported
          exitCode,
          db,
          signals,      \* how many SIGINT and SIGTERM have come in
          timer,        \* forceExitTimer
          server,
          connection,   \* of each exchange
          exchange      \* what Webhook keeps of it

startVars == <<env, broken, life, checksRun, failures>>
endVars == <<exitCode, signals, timer>>
webVars == <<connection, exchange>>
vars == <<startVars, endVars, db, server, webVars, redirectVars>>

Init ==
    /\ env \in Environments
    /\ broken \in Damages
    /\ life = "config"
    /\ checksRun = 0
    /\ failures = {}
    /\ exitCode = "none"
    /\ db = "none"
    /\ signals = 0
    /\ timer = "off"
    /\ server = "none"
    /\ connection = [x \in Exchanges |-> "unused"]
    /\ exchange = [x \in Exchanges |-> Null]
    /\ RedirectInit

config == loadConfig(env)

Exit(code) ==
    /\ life' = "exited"
    /\ exitCode' = code

\* deps.close: it may throw, and whoever calls it goes on all the same.
CloseDatabase == db' \in {"closed", "close failed"}

-----------------------------------------------------------------------------
(* main(), up to the server. *)

\* buildDependencies: the database is opened, the rest only wired.
openDatabase ==
    IF "open database" \in broken
    THEN /\ Exit("1")
         /\ failures' = {"open database"}
         /\ UNCHANGED db
    ELSE /\ life' = "checks"
         /\ db' = "open"
         /\ UNCHANGED <<failures, exitCode>>

LoadConfiguration ==
    /\ life = "config"
    /\ IF problems(env) # {}
       THEN /\ Exit("1")
            /\ failures' = problems(env)
            /\ UNCHANGED db
       ELSE openDatabase
    /\ UNCHANGED <<env, broken, checksRun, signals, timer, server, webVars, redirectVars>>

ChecksToRun == IF config.instagram THEN Len(StartupChecks) ELSE Len(StartupChecks) - 1

\* Mutant of RunCheck: the first failure ends the checks.
RunCheckUntilFailure ==
    /\ life = "checks"
    /\ checksRun < ChecksToRun
    /\ failures = {}
    /\ failures' = {StartupChecks[checksRun + 1]} \cap broken
    /\ checksRun' = IF failures' = {} THEN checksRun + 1 ELSE ChecksToRun
    /\ UNCHANGED <<env, broken, life, endVars, db, server, webVars, redirectVars>>

\* runStartupChecks, one check.
RunCheck ==
    /\ life = "checks"
    /\ checksRun < ChecksToRun
    /\ checksRun' = checksRun + 1
    /\ failures' = failures \cup ({StartupChecks[checksRun + 1]} \cap broken)
    /\ UNCHANGED <<env, broken, life, endVars, db, server, webVars, redirectVars>>

\* A check failed: the database is closed again and main() rejects, with this
\* error or with that of the closing.
ChecksFailed ==
    /\ life = "checks"
    /\ checksRun = ChecksToRun
    /\ failures # {}
    /\ Exit("1")
    /\ CloseDatabase
    /\ UNCHANGED <<env, broken, checksRun, failures, signals, timer, server, webVars, redirectVars>>

\* The signal handlers are installed and the server listens; a port that is
\* taken is an exception nothing catches.
Listen ==
    /\ life = "checks"
    /\ checksRun = ChecksToRun
    /\ failures = {}
    /\ IF "port" \in broken
       THEN /\ Exit("1")
            /\ failures' = {"port"}
            /\ UNCHANGED server
       ELSE /\ life' = "up"
            /\ server' = "listening"
            /\ UNCHANGED <<failures, exitCode>>
    /\ UNCHANGED <<env, broken, checksRun, signals, timer, db, webVars, redirectVars>>

\* schedulePeriodicHealthCheck: the checks are made again, with any result,
\* that is logged.  One failed check stands for all.
HealthCheck ==
    /\ life = "up"
    /\ config.rechecks
    /\ \E failed \in {{}, {StartupChecks[4]}} : failures' = failed
    /\ UNCHANGED <<env, broken, life, checksRun, endVars, db, server, webVars, redirectVars>>

-----------------------------------------------------------------------------
(* Requests.  A connection that is idle has had its last answer. *)

Open(x) == connection[x] \in {"active", "idle"}

\* A request comes in over a new connection or over one that is kept.
Connect(x) ==
    /\ life = "up"
    /\ connection[x] = "unused"
    /\ \/ /\ server = "listening"
          /\ connection' = [connection EXCEPT ![x] = "active"]
       \/ \E y \in Exchanges :
             /\ connection[y] = "idle"
             /\ connection' = [connection EXCEPT ![x] = "active", ![y] = "closed"]

Arrive(x, r) ==
    /\ Connect(x)
    /\ IsUrl(r)
    /\ exchange' = [exchange EXCEPT ![x] =
                      OnRequest(NewExchange(r), config, "privacy policy" \notin broken)]
    /\ UNCHANGED <<startVars, endVars, db, server, redirectVars>>

\* new URL throws in the listener itself, where nothing catches it: the process
\* ends, with this request and every other one it had open.
ArriveUnreadable(x, r) ==
    /\ Connect(x)
    /\ ~IsUrl(r)
    /\ exchange' = [exchange EXCEPT ![x] = NewExchange(r)]
    /\ Exit("1")
    /\ UNCHANGED <<env, broken, checksRun, failures, signals, timer, db, server, redirectVars>>

\* A piece of the body.  One that is too large destroys the connection; whether
\* pieces that had already come in still reach the handler is left open.
Data(x) ==
    /\ life = "up"
    /\ connection[x] # "unused"
    /\ exchange[x].reading
    /\ exchange[x].received < exchange[x].request.size
    /\ connection[x] = "active" \/ exchange[x].rejectedForSize
    /\ exchange' = [exchange EXCEPT ![x] = OnData(@)]
    /\ connection' = [connection EXCEPT ![x] =
                        IF exchange'[x].rejectedForSize THEN "closed" ELSE @]
    /\ UNCHANGED <<startVars, endVars, db, server, redirectVars>>

\* The messages of a delivery, in the order they came in; its other events are
\* only logged.
Messages(body) ==
    LET results == Instagram!parseInstagramWebhookEvent(body)
    IN FlattenSeq([i \in DOMAIN results |->
          IF results[i].kind = "message" THEN <<results[i].message>> ELSE <<>>])

\* The body is whole: it is answered, and then its work begins.
End(x) ==
    /\ life = "up"
    /\ connection[x] # "unused"
    /\ exchange[x].reading
    /\ \/ connection[x] = "active" /\ exchange[x].received = exchange[x].request.size
       \/ exchange[x].rejectedForSize
    /\ exchange' = [exchange EXCEPT ![x] = OnEnd(@)]
    /\ connection' = [connection EXCEPT ![x] = IF @ = "active" THEN "idle" ELSE @]
    /\ IF exchange'[x].handed # <<>> /\ exchange[x].request.path = "instagram"
       THEN TakeUp(x, Messages(exchange[x].request.body)) /\ UNCHANGED notes
       ELSE UNCHANGED redirectVars
    /\ UNCHANGED <<startVars, endVars, db, server>>

\* What was answered without reading its body is over when the client has sent it.
Discard(x) ==
    /\ life = "up"
    /\ connection[x] = "active"
    /\ ~exchange[x].reading
    /\ connection' = [connection EXCEPT ![x] = "idle"]
    /\ UNCHANGED <<startVars, endVars, db, server, exchange, redirectVars>>

\* The client goes away, or an idle connection is given up.
Disconnect(x) ==
    /\ life = "up"
    /\ Open(x)
    /\ connection' = [connection EXCEPT ![x] = "closed"]
    /\ exchange' = [exchange EXCEPT ![x].reading = FALSE]
    /\ UNCHANGED <<startVars, endVars, db, server, redirectVars>>

\* The call behind an exchange goes on.
Work(x) ==
    /\ life = "up"
    /\ SendRedirect(x) \/ describeInstagramCustomer(x) \/ notifyManagerOfInstagramLead(x)
    /\ UNCHANGED <<startVars, endVars, db, server, webVars>>

-----------------------------------------------------------------------------
(* The end. *)

\* Before the handlers are installed a signal kills the process.  The kernel
\* drops it if the process is the first of its container: then nothing changes.
KilledEarly ==
    /\ life \in {"config", "checks"}
    /\ signals < MaxSignals
    /\ signals' = signals + 1
    /\ Exit("killed")
    /\ UNCHANGED <<env, broken, checksRun, failures, timer, db, server, webVars, redirectVars>>

\* Mutant of BeginShutdown: nothing limits the wait for the clients.
BeginShutdownUntimed ==
    /\ life = "up"
    /\ signals = 0
    /\ signals < MaxSignals
    /\ signals' = 1
    /\ server' = "closing"
    /\ connection' = [x \in Exchanges |-> IF connection[x] = "idle" THEN "closed" ELSE connection[x]]
    /\ UNCHANGED <<startVars, exitCode, timer, db, exchange, redirectVars>>

\* shutdown(): the timer is set and server.close() called, which closes what
\* is idle and waits for the rest.
BeginShutdown ==
    /\ life = "up"
    /\ signals = 0
    /\ signals < MaxSignals
    /\ signals' = 1
    /\ timer' = "set"
    /\ server' = "closing"
    /\ connection' = [x \in Exchanges |-> IF connection[x] = "idle" THEN "closed" ELSE connection[x]]
    /\ UNCHANGED <<startVars, exitCode, db, exchange, redirectVars>>

SecondSignal ==
    /\ life = "up"
    /\ signals > 0
    /\ signals < MaxSignals
    /\ signals' = signals + 1
    /\ Exit("1")
    /\ UNCHANGED <<env, broken, checksRun, failures, timer, db, server, webVars, redirectVars>>

TimerFires ==
    /\ life = "up"
    /\ timer = "set"
    /\ timer' = "fired"
    /\ Exit("1")
    /\ UNCHANGED <<env, broken, checksRun, failures, signals, db, server, webVars, redirectVars>>

\* Mutant of FinishShutdown: the callback of server.close() is not waited for.
FinishWithoutWaiting ==
    /\ life = "up"
    /\ server = "closing"
    /\ server' = "closed"
    /\ db' = "closed"
    /\ timer' = "off"
    /\ Exit("0")
    /\ UNCHANGED <<env, broken, checksRun, failures, signals, webVars, redirectVars>>

\* The last connection is gone.  Between the callback of server.close() and the
\* exit no other code of the program runs.  An error of either closing is logged;
\* that of server.close() says that the server was not running, which it was.
FinishShutdown ==
    /\ life = "up"
    /\ server = "closing"
    /\ \A x \in Exchanges : ~Open(x)
    /\ server' = "closed"
    /\ CloseDatabase
    /\ timer' = "off"
    /\ Exit("0")
    /\ UNCHANGED <<env, broken, checksRun, failures, signals, webVars, redirectVars>>

Start == LoadConfiguration \/ RunCheck \/ ChecksFailed \/ Listen

Serve(x) ==
    \/ \E r \in Requests : Arrive(x, r)
    \/ Data(x) \/ End(x) \/ Discard(x) \/ Disconnect(x)

Next ==
    \/ Start
    \/ HealthCheck
    \/ \E x \in Exchanges : Serve(x) \/ Work(x)
    \/ \E x \in Exchanges, r \in Requests : ArriveUnreadable(x, r)
    \/ KilledEarly \/ BeginShutdown \/ SecondSignal \/ TimerFires \/ FinishShutdown

Spec == Init /\ [][Next]_vars

\* The timer fires, and what a call awaits comes to an end: a bounded number of
\* attempts of requests the HTTP client gives up by itself.  Clients owe nothing.
FairSpec ==
    /\ Spec
    /\ WF_vars(TimerFires)
    /\ \A x \in Exchanges : WF_vars(Work(x))

-----------------------------------------------------------------------------
Used(x) == connection[x] # "unused"

\* A request nobody answers, because reading its target ended the process.
EndedProcess(x) ==
    /\ Used(x) /\ ~IsUrl(exchange[x].request)
    /\ life = "exited"

\* No exchange is answered twice, which would throw.  While its client stays, it
\* waits for its body or has been answered, unless its target ended the process.
AnsweredOnce ==
    \A x \in Exchanges : Used(x) =>
       /\ Len(exchange[x].answers) <= 1
       /\ Open(x) /\ ~exchange[x].reading =>
             Len(exchange[x].answers) = 1 \/ EndedProcess(x)

\* What is handed over came whole, within the limit and with the proof of its
\* origin that the configuration asks for, and its sender was told so before.
OnlyGenuineUpdatesAreHandled ==
    \A x \in Exchanges : Used(x) /\ exchange[x].handed # <<>> =>
       LET r == exchange[x].request IN
       /\ exchange[x].answers = <<200>>
       /\ exchange[x].handed = <<r.body>>
       /\ r.method = "POST" /\ r.body # Garbage
       /\ exchange[x].received = r.size /\ r.size <= MaxBodySize
       /\ \/ r.path = "telegram" /\ (config.secretToken => r.credential = SecretToken)
          \/ /\ r.path = "instagram" /\ config.instagram
             /\ r.credential = [key |-> AppSecret, over |-> r.body]

\* A person wrote it to us: words, a picture or a smile, but not the tap on a
\* story, and not what we wrote ourselves.
WrittenByCustomer(message) ==
    /\ "is_echo" \notin DOMAIN message
    /\ \/ "attachments" \in DOMAIN message
       \/ /\ "text" \in DOMAIN message
          /\ \/ "word" \in message["text"]
             \/ "emoji" \in message["text"] /\ "story" \notin DOMAIN message

OnlyCustomersAreRedirected ==
    \A lead \in leads : \E x \in Exchanges :
       /\ Used(x) /\ exchange[x].handed # <<>>
       /\ \E entry \in Range(exchange[x].request.body) :
             /\ "messaging" \in DOMAIN entry
             /\ \E event \in Range(entry["messaging"]) :
                   /\ "message" \in DOMAIN event
                   /\ lead = <<event["sender"], event["message"]["mid"]>>
                   /\ WrittenByCustomer(event["message"])

\* Words typed next to a picture are words all the same, in a chat of any kind
\* and in an edit.
WordsAreKept ==
    \A x \in Exchanges :
       Used(x) /\ exchange[x].handed # <<>> /\ exchange[x].request.path = "telegram" =>
          LET update == exchange[x].request.body IN
          \A field \in Range(Telegram!MessageFields) \cap DOMAIN update :
          \A words \in {"text", "caption"} \cap DOMAIN update[field] :
             LET result == Telegram!parseUpdate(update) IN
             /\ result.kind = "message"
             /\ result.message.payload.text = update[field][words]

\* What stands between the network and the handlers: one answer for each request
\* but the one that ends the process, no update that is forged, cut off or too
\* large, none on Instagram that is an echo of the bot's own reply or a mere
\* reaction, and on Telegram none that loses its words.
WebhookContract ==
    /\ AnsweredOnce
    /\ OnlyGenuineUpdatesAreHandled
    /\ OnlyCustomersAreRedirected
    /\ WordsAreKept

NeededParts == Range(SubSeq(StartupChecks, 1, ChecksToRun))

\* "A failure never leaves the process half-listening", and "failures are
\* reported together": nobody is answered by a process that lacks anything it
\* needs, and one that gives up names everything that is wrong at the stage it
\* has reached and nothing else.  Before it gives up on its checks it closes the
\* database, or has tried to; on a port that is taken it does not.
StartIsAllOrNothing ==
    /\ server # "none" =>
          /\ \A s \in Required : env[s] # Unset
          /\ \A s, t \in InstagramSettings : env[s] = env[t]
          /\ broken \cap (NeededParts \cup {"open database", "port"}) = {}
    /\ exitCode = "1" /\ server = "none" =>
          /\ failures # {}
          /\ CASE problems(env) # {}         -> IsExactDiagnosis(env, failures)
               [] "open database" \in failures -> "open database" \in broken
               [] "port" \in failures          -> broken \cap NeededParts = {}
               [] OTHER -> failures = broken \cap NeededParts /\ db # "open"

\* The code the process exits with says how it ended.  After a 0 no client is
\* left waiting, and the database was closed or the closing of it has failed; a
\* process that had come up exits with a 1 only when it was asked twice, waited
\* in vain or was sent a request whose target cannot be read.
ExitCodeTellsTheTruth ==
    /\ exitCode = "0" =>
          /\ signals = 1
          /\ server = "closed" /\ db # "open" /\ timer # "set"
          /\ \A x \in Exchanges : ~Open(x)
    /\ exitCode = "1" /\ server # "none" =>
          signals >= 2 \/ timer = "fired" \/ \E x \in Exchanges : EndedProcess(x)

\* "The operator needs a way out": after a signal the process ends, whatever
\* the clients and the requests under way do.
SignalEndsProcess == signals > 0 ~> life = "exited"

\* Staff get a note, or an attempt at one, of every lead, whatever becomes of
\* the reply and of the profile, unless the process ends.
LeadReachesStaff == []<>(leads \subseteq notes \/ life = "exited")
===============================================================================

----------------------------- MODULE ServiceProofs -----------------------------
(***************************************************************************)
(* Proofs about Service: how the process starts and ends, what becomes of  *)
(* every request, and what of its body gets through to the handlers, for   *)
(* any environment, any damage, any requests the platforms may send, any   *)
(* number of clients and of signals.                                       *)
(*                                                                         *)
(* The three invariants are LifeInv, ExchangeInv and RedirectInv.  The     *)
(* parsers come first: what they are made of is data, and is reasoned      *)
(* about by induction over the length of a sequence.                       *)
(***************************************************************************)
EXTENDS Service, FlattenProofs

LEMMA SameFlatten ==
    ASSUME NEW ss PROVE Instagram!FlattenSeq(ss) = FlattenSeq(ss)
BY DEF Instagram!FlattenSeq, FlattenSeq

\* The events of a delivery.
Events(body) ==
    UNION {IF "messaging" \in DOMAIN entry THEN Range(entry["messaging"]) ELSE {} :
             entry \in Range(body)}

LEMMA RangeOfSequence ==
    ASSUME NEW S, NEW s \in Seq(S)
    PROVE  /\ Range(s) \subseteq S
           /\ s \in Seq(Range(s))
<1>1. Range(s) \subseteq S
  BY DEF Range
<1>2. s \in [1..Len(s) -> Range(s)] /\ Len(s) \in Nat
  BY DEF Range
<1> QED
  BY <1>1, <1>2

\* A list made from another one, element by element.
LEMMA Mapped ==
    ASSUME NEW S, NEW n \in Nat, NEW f, f = [i \in 1..n |-> f[i]], \A i \in 1..n : f[i] \in S
    PROVE  f \in Seq(S) /\ Len(f) = n
<1>1. f \in [1..n -> S]
  OBVIOUS
<1> QED
  BY <1>1

LEMMA ParsedEvents ==
    ASSUME NEW body, IsDelivery(body)
    PROVE  /\ Instagram!parseInstagramWebhookEvent(body) \in Seq({Instagram!parseMessagingEvent(event) : event \in Events(body)})
<1> DEFINE lists == [i \in DOMAIN body |->
                       IF "messaging" \in DOMAIN body[i] THEN body[i]["messaging"] ELSE <<>>]
           events == Instagram!FlattenSeq(lists)
           parsed == [i \in DOMAIN events |-> Instagram!parseMessagingEvent(events[i])]
<1>1. body \in Seq(Range(body)) /\ Len(body) \in Nat /\ DOMAIN body = 1..Len(body)
  BY DEF IsDelivery
<1>2. ASSUME NEW i \in 1..Len(body) PROVE lists[i] \in Seq(Events(body))
  <2>1. body[i] \in Range(body) /\ i \in DOMAIN body
    BY <1>1
  <2>2. CASE "messaging" \in DOMAIN body[i]
    <3> DEFINE list == body[i]["messaging"]
    <3>1. list \in Seq(Range(list))
      BY <2>1, <2>2 DEF IsDelivery
    <3>2. Range(list) \subseteq Events(body)
      BY <2>1, <2>2 DEF Events
    <3> HIDE DEF list
    <3>3. list \in Seq(Events(body))
      BY <3>1, <3>2
    <3> QED
      BY <3>3, <2>1, <2>2 DEF list
  <2>3. CASE "messaging" \notin DOMAIN body[i]
    BY <2>1, <2>3
  <2> QED
    BY <2>2, <2>3
<1>3. lists \in Seq(Seq(Events(body)))
  <2>1. lists = [i \in 1..Len(body) |-> lists[i]]
    BY <1>1
  <2> HIDE DEF lists
  <2> QED
    BY <1>1, <1>2, <2>1, Mapped
<1>4. events \in Seq(Events(body))
  <2> HIDE DEF lists
  <2> QED
    BY <1>3, FlattenProperties, SameFlatten
<1>5. Instagram!parseInstagramWebhookEvent(body) = parsed
  BY DEF Instagram!parseInstagramWebhookEvent
<1> HIDE DEF lists, events
<1>6. Len(events) \in Nat /\ DOMAIN events = 1..Len(events)
      /\ \A i \in 1..Len(events) : events[i] \in Events(body)
  BY <1>4
<1> DEFINE Results == {Instagram!parseMessagingEvent(event) : event \in Events(body)}
<1>7. \A i \in 1..Len(events) : parsed[i] \in Results
  BY <1>6
<1>8. parsed = [i \in 1..Len(events) |-> parsed[i]]
  BY <1>6
<1> HIDE DEF parsed, Results
<1>9. parsed \in Seq(Results)
  BY <1>6, <1>7, <1>8, Mapped
<1> QED
  BY <1>5, <1>9 DEF Results

\* Whether a customer wrote the message of an event.
Wrote(event, id) ==
    /\ "message" \in DOMAIN event
    /\ id = <<event["sender"], event["message"]["mid"]>>
    /\ WrittenByCustomer(event["message"])

LEMMA ParsedMessage ==
    ASSUME NEW body, IsDelivery(body), NEW event \in Events(body),
           Instagram!parseMessagingEvent(event).kind = "message"
    PROVE  Wrote(event, Instagram!parseMessagingEvent(event).message.messageId)
<1> DEFINE message == event["message"]
           result == Instagram!parseMessagingEvent(event)
<1>1. \A type : Instagram!Unsupported(type).kind # "message"
  BY DEF Instagram!Unsupported
<1>2. /\ "message" \in DOMAIN event
      /\ "is_echo" \notin DOMAIN message
      /\ ~Instagram!isContentless(message)
      /\ ~Instagram!isBareStoryReaction(message)
  BY <1>1 DEF Instagram!parseMessagingEvent
<1>3. result = [kind |-> "message", message |-> Instagram!toInboundMessage(event)]
  BY <1>2 DEF Instagram!parseMessagingEvent
<1>4. result.message.messageId = <<event["sender"], message["mid"]>>
  BY <1>3 DEF Instagram!toInboundMessage
<1>5. Instagram!Text(message) \in (SUBSET {"word", "emoji", "blank"}) \ {{"blank"}}
  BY <1>2 DEF IsDelivery, Events
<1>6. WrittenByCustomer(message)
  <2>1. CASE "attachments" \in DOMAIN message
    BY <1>2, <2>1 DEF WrittenByCustomer
  <2>2. CASE "attachments" \notin DOMAIN message
    <3>1. Instagram!Text(message) # {}
      BY <1>2, <2>2 DEF Instagram!isContentless, Instagram!Attachments
    <3>2. "text" \in DOMAIN message /\ Instagram!Text(message) = message["text"]
      BY <3>1 DEF Instagram!Text
    <3>3. "word" \in message["text"] \/ "emoji" \in message["text"]
      <4> SUFFICES ASSUME message["text"] \subseteq {"blank"} PROVE FALSE
        BY <1>5, <3>2
      <4>1. message["text"] = {"blank"}
        BY <3>1, <3>2
      <4> QED
        BY <1>5, <3>2, <4>1
    <3>4. CASE "word" \in message["text"]
      BY <1>2, <3>2, <3>4 DEF WrittenByCustomer
    <3>5. CASE "word" \notin message["text"]
      <4>1. message["text"] \cap {"emoji", "word"} = {"emoji"}
        BY <3>3, <3>5
      <4>2. "story" \notin DOMAIN message
        BY <1>2, <3>2, <4>1 DEF Instagram!isBareStoryReaction, Instagram!isEmojiOnly
      <4> QED
        BY <1>2, <3>2, <3>3, <3>5, <4>2 DEF WrittenByCustomer
    <3> QED
      BY <3>4, <3>5
  <2> QED
    BY <2>1, <2>2
<1> QED
  BY <1>2, <1>4, <1>6 DEF Wrote

\* Whatever the parser makes of a delivery, only what a customer wrote is passed on.
LEMMA ParsedMessages ==
    ASSUME NEW body, IsDelivery(body)
    PROVE  /\ Messages(body) \in Seq(Range(Messages(body)))
           /\ \A m \in Range(Messages(body)) :
                 \E event \in Events(body) : Wrote(event, m.messageId)
<1> DEFINE results == Instagram!parseInstagramWebhookEvent(body)
           Results == {Instagram!parseMessagingEvent(event) : event \in Events(body)}
           Passed == {result.message : result \in {r \in Results : r.kind = "message"}}
           lists == [i \in DOMAIN results |->
                       IF results[i].kind = "message" THEN <<results[i].message>> ELSE <<>>]
<1>1. results \in Seq(Results)
  BY ParsedEvents
<1>2. Messages(body) = FlattenSeq(lists)
  BY DEF Messages
<1>3. lists \in Seq(Seq(Passed))
  <2> HIDE DEF results, Results
  <2>1. /\ Len(results) \in Nat /\ DOMAIN results = 1..Len(results)
        /\ \A i \in 1..Len(results) : results[i] \in Results
    BY <1>1
  <2>2. ASSUME NEW i \in 1..Len(results) PROVE lists[i] \in Seq(Passed)
    <3>1. CASE results[i].kind = "message"
      <4>1. results[i].message \in Passed
        BY <2>1, <3>1
      <4>2. lists[i] = <<results[i].message>>
        BY <2>1, <3>1
      <4> HIDE DEF lists, Passed
      <4> QED
        BY <4>1, <4>2
    <3>2. CASE results[i].kind # "message"
      BY <2>1, <3>2
    <3> QED
      BY <3>1, <3>2
  <2>3. lists = [i \in 1..Len(results) |-> lists[i]]
    BY <2>1
  <2> HIDE DEF lists, Passed
  <2> QED
    BY <2>1, <2>2, <2>3, Mapped
<1>4. Messages(body) \in Seq(Passed)
  <2> HIDE DEF lists, Passed
  <2> QED
    BY <1>2, <1>3, FlattenProperties
<1>5. ASSUME NEW m \in Passed
      PROVE  \E event \in Events(body) : Wrote(event, m.messageId)
  <2>1. PICK event \in Events(body) :
           /\ Instagram!parseMessagingEvent(event).kind = "message"
           /\ m = Instagram!parseMessagingEvent(event).message
    OBVIOUS
  <2> QED
    BY <2>1, ParsedMessage
<1> HIDE DEF Passed
<1> QED
  BY <1>4, <1>5, RangeOfSequence

\* The words of a Telegram message, wherever they are.
LEMMA WordsAreRead ==
    ASSUME NEW update, IsUpdate(update),
           NEW field \in Range(Telegram!MessageFields) \cap DOMAIN update,
           NEW words \in {"text", "caption"} \cap DOMAIN update[field]
    PROVE  /\ Telegram!parseUpdate(update).kind = "message"
           /\ Telegram!parseUpdate(update).message.payload.text = update[field][words]
<1> DEFINE message == update[field]
           fields == [i \in DOMAIN Telegram!MessageFields |->
                        IF Telegram!MessageFields[i] \in DOMAIN update
                        THEN Telegram!MessageFields[i] ELSE Null]
           found == Telegram!FirstOf(fields)
<1>1. PICK k \in 1..4 : field = Telegram!MessageFields[k]
  BY DEF Telegram!MessageFields, Range
<1>2. \A i \in 1..4 : fields[i] = IF i = k THEN field ELSE Null
  <2> SUFFICES ASSUME NEW i \in 1..4 PROVE fields[i] = IF i = k THEN field ELSE Null
    OBVIOUS
  <2>1. i \in DOMAIN Telegram!MessageFields /\ Telegram!MessageFields[i] \in Range(Telegram!MessageFields)
    BY DEF Telegram!MessageFields, Range
  <2>2. CASE i = k
    BY <1>1, <2>1, <2>2
  <2>3. CASE i # k
    <3>1. Telegram!MessageFields[i] # field
      BY <1>1, <2>3 DEF Telegram!MessageFields
    <3>2. Telegram!MessageFields[i] \notin DOMAIN update
      BY <3>1, <2>1 DEF IsUpdate
    <3> QED
      BY <2>1, <2>3, <3>2
  <2> QED
    BY <2>2, <2>3
<1>3. field # Null
  BY RequestsAssumption
<1>4. found = field
  <2>1. DOMAIN fields = 1..4
    BY DEF Telegram!MessageFields
  <2> HIDE DEF fields
  <2>2. {i \in DOMAIN fields : fields[i] # Null} = {k}
    BY <1>2, <1>3, <2>1
  <2>3. (CHOOSE i \in {k} : \A j \in {k} : i <= j) = k
    OBVIOUS
  <2> QED
    BY <1>2, <2>2, <2>3 DEF Telegram!FirstOf
<1>5. Telegram!parseUpdate(update) =
        [kind |-> "message",
         message |-> Telegram!toInboundMessage(message, Telegram!IsEdit(field))]
  <2> HIDE DEF fields
  <2> QED
    BY <1>3, <1>4 DEF Telegram!parseUpdate, fields
<1>6. Telegram!toInboundMessage(message, Telegram!IsEdit(field)).payload.text
        = Telegram!extractText(message)
  BY DEF Telegram!toInboundMessage
<1>7. Telegram!extractText(message) = message[words]
  <2> DEFINE texts == <<Telegram!Read(message, "text"), Telegram!Read(message, "caption"),
                        Telegram!extractStructuredText(message)>>
  <2>1. message[words] # Null /\ \A other \in {"text", "caption"} \cap DOMAIN message : other = words
    BY DEF IsUpdate
  <2>2. PICK n \in 1..2 : /\ texts[n] = message[words]
                          /\ n = 2 => texts[1] = Null
    <3>1. CASE words = "text"
      BY <3>1 DEF Telegram!Read
    <3>2. CASE words = "caption"
      BY <2>1, <3>2 DEF Telegram!Read
    <3> QED
      BY <3>1, <3>2
  <2>3. DOMAIN texts = 1..3 /\ Telegram!extractText(message) = Telegram!FirstOf(texts)
    BY DEF Telegram!extractText
  <2> HIDE DEF texts
  <2> DEFINE there == {i \in DOMAIN texts : texts[i] # Null}
             first == CHOOSE i \in there : \A j \in there : i <= j
  <2>4. n \in there /\ \A j \in there : n <= j
    BY <2>1, <2>2, <2>3
  <2>5. first \in there /\ \A j \in there : first <= j
    <3> HIDE DEF there
    <3> QED
      BY <2>4
  <2>6. first = n
    <3>1. first \in 1..3
      BY <2>3, <2>5
    <3> HIDE DEF first, there
    <3> QED
      BY <2>4, <2>5, <3>1
  <2>7. Telegram!FirstOf(texts) = texts[first]
    BY <2>4 DEF Telegram!FirstOf
  <2> QED
    BY <2>2, <2>3, <2>6, <2>7
<1> QED
  BY <1>5, <1>6, <1>7

-----------------------------------------------------------------------------
(* The configuration. *)

\* What is fixed before the process starts.
LEMMA Problems ==
    ASSUME NEW e, NEW s
    PROVE  s \in problems(e) <=>
              \/ s \in Required /\ e[s] = Unset
              \/ s = "PORT" /\ e[s] \in {Zero, Malformed}
              \/ s = "TOKEN_HEALTH_CHECK_INTERVAL_MS" /\ e[s] = Malformed
              \/ /\ s \in InstagramSettings /\ e[s] = Unset
                 /\ \E t \in InstagramSettings : e[t] # Unset
<1> DEFINE missing == {t \in InstagramSettings : e[t] = Unset}
<1>1. s \in parseInstagramConfig(e) <=> s \in missing /\ missing # InstagramSettings
  BY DEF parseInstagramConfig
<1>2. missing # InstagramSettings <=> \E t \in InstagramSettings : e[t] # Unset
  OBVIOUS
<1> QED
  BY <1>1, <1>2 DEF problems, requireNonEmptyString, parsePort, parseTokenHealthCheckIntervalMs

LEMMA SettingsDiffer ==
    /\ "PORT" \notin Required \cup InstagramSettings
    /\ "TOKEN_HEALTH_CHECK_INTERVAL_MS" \notin Required \cup InstagramSettings
    /\ Required \cap InstagramSettings = {}
    /\ "PORT" # "TOKEN_HEALTH_CHECK_INTERVAL_MS"
    /\ Required \cup InstagramSettings \cup {"PORT", "TOKEN_HEALTH_CHECK_INTERVAL_MS"} \subseteq Settings
    /\ \E s, t \in InstagramSettings : s # t
    /\ Given \notin {Unset, Zero, Malformed} /\ Unset \notin {Zero, Malformed} /\ Zero # Malformed
BY DEF Required, InstagramSettings, Settings, Optional, Unset, Given, Zero, Malformed

\* Whatever the environment, correcting exactly what is reported makes it good.
THEOREM DiagnosisIsExact ==
    \A e \in Environment : IsExactDiagnosis(e, problems(e))
<1> SUFFICES ASSUME NEW e \in Environment PROVE IsExactDiagnosis(e, problems(e))
  OBVIOUS
<1> DEFINE reported == problems(e)
           Fixed(f) == Repaired(e, f)
<1>1. \A f : \A t \in Settings : Fixed(f)[t] = IF t \in f THEN Given ELSE e[t]
  BY DEF Repaired
<1>2. problems(Fixed(reported)) = {}
  <2> SUFFICES ASSUME NEW s \in problems(Fixed(reported)) PROVE FALSE
    OBVIOUS
  <2>1. s \in Settings
    BY Problems, SettingsDiffer
  <2>2. Fixed(reported)[s] # Given
    BY Problems, SettingsDiffer
  <2>3. s \notin reported /\ Fixed(reported)[s] = e[s]
    BY <1>1, <2>1, <2>2
  <2>4. s \in InstagramSettings /\ e[s] = Unset
    BY <2>3, Problems, SettingsDiffer
  <2>5. PICK t \in InstagramSettings : Fixed(reported)[t] # Unset
    BY <2>4, Problems, SettingsDiffer
  <2>6. \A u \in InstagramSettings : e[u] = Unset
    BY <2>3, <2>4, Problems
  <2>7. t \notin reported /\ t \in Settings
    BY <2>6, Problems, SettingsDiffer
  <2> QED
    BY <1>1, <2>5, <2>6, <2>7
<1>3. ASSUME NEW s \in reported PROVE problems(Fixed(reported \ {s})) # {}
  <2> DEFINE f == reported \ {s}
  <2>1. s \in Settings /\ s \notin f /\ Fixed(f)[s] = e[s]
    BY <1>1, Problems, SettingsDiffer
  <2>2. CASE s \notin InstagramSettings
    <3>1. s \in problems(Fixed(f))
      BY <2>1, <2>2, Problems
    <3> QED
      BY <3>1
  <2>3. CASE s \in InstagramSettings
    <3>1. e[s] = Unset
      BY <2>3, Problems, SettingsDiffer
    <3>2. PICK t \in InstagramSettings : e[t] # Unset
      BY <2>3, Problems, SettingsDiffer
    <3>3. Fixed(f)[t] # Unset
      BY <1>1, <3>2, SettingsDiffer
    <3>4. s \in problems(Fixed(f))
      BY <2>1, <2>3, <3>1, <3>3, Problems
    <3> QED
      BY <3>4
  <2> QED
    BY <2>2, <2>3
<1> QED
  BY <1>2, <1>3 DEF IsExactDiagnosis

LEMMA WithoutProblems ==
    ASSUME NEW e \in Environment, problems(e) = {}
    PROVE  /\ \A s \in Required : e[s] # Unset
           /\ \A s, t \in InstagramSettings : e[s] = e[t]
<1>1. \A s \in Required : e[s] # Unset
  BY Problems
<1>2. \A s \in InstagramSettings : e[s] \in {Unset, Given}
  BY DEF Environment, InstagramSettings, Settings
<1>3. \A s, t \in InstagramSettings : ~(e[s] = Unset /\ e[t] # Unset)
  BY Problems
<1> QED
  BY <1>1, <1>2, <1>3

-----------------------------------------------------------------------------
(* The life of the process. *)

LifeOK ==
    /\ env \in Environment
    /\ broken \in SUBSET Parts
    /\ signals \in Nat
    /\ checksRun \in 0..ChecksToRun
    /\ life \in {"config", "checks", "up", "exited"}
    /\ exitCode = "none" <=> life # "exited"

\* Nothing the process needs is missing or out of order.
Sound ==
    /\ problems(env) = {}
    /\ broken \cap (NeededParts \cup {"open database", "port"}) = {}

BeforeUp ==
    /\ life \in {"config", "checks"} => server = "none" /\ signals = 0 /\ timer = "off"
    /\ life = "config" => failures = {} /\ checksRun = 0

Checking ==
    life = "checks" =>
       /\ problems(env) = {}
       /\ "open database" \notin broken
       /\ failures = broken \cap {StartupChecks[i] : i \in 1..checksRun}

Up ==
    life = "up" =>
       \/ server = "listening" /\ signals = 0 /\ timer = "off"
       \/ server = "closing" /\ signals = 1 /\ timer = "set"

WebDomains == DOMAIN exchange = Exchanges /\ DOMAIN connection = Exchanges

LifeInv ==
    /\ LifeOK /\ WebDomains /\ BeforeUp /\ Checking /\ Up
    /\ server # "none" => Sound
    /\ StartIsAllOrNothing
    /\ ExitCodeTellsTheTruth


lifeVars == <<startVars, endVars, db, server>>

LEMMA SixChecks ==
    /\ DOMAIN StartupChecks = 1..6 /\ Len(StartupChecks) = 6
    /\ StartupChecks \in Seq(Range(StartupChecks))
    /\ {"open database", "port"} \cap Range(StartupChecks) = {}
    /\ {"open database", "port"} \cap Settings = {}
    /\ "open database" # "port"
<1>1. /\ DOMAIN StartupChecks = 1..6 /\ Len(StartupChecks) = 6
      /\ StartupChecks = [i \in 1..6 |-> StartupChecks[i]]
  BY DEF StartupChecks
<1>2. \A i \in 1..6 : StartupChecks[i] \in Range(StartupChecks)
  BY <1>1 DEF Range
<1>3. StartupChecks \in Seq(Range(StartupChecks))
  BY <1>1, <1>2, Mapped
<1>4. \A i \in 1..6 : StartupChecks[i] # "open database" /\ StartupChecks[i] # "port"
  <2>1. StartupChecks[1] # "open database" /\ StartupChecks[1] # "port"
    BY DEF StartupChecks
  <2>2. StartupChecks[2] # "open database" /\ StartupChecks[2] # "port"
    BY DEF StartupChecks
  <2>3. StartupChecks[3] # "open database" /\ StartupChecks[3] # "port"
    BY DEF StartupChecks
  <2>4. StartupChecks[4] # "open database" /\ StartupChecks[4] # "port"
    BY DEF StartupChecks
  <2>5. StartupChecks[5] # "open database" /\ StartupChecks[5] # "port"
    BY DEF StartupChecks
  <2>6. StartupChecks[6] # "open database" /\ StartupChecks[6] # "port"
    BY DEF StartupChecks
  <2>7. \A i \in 1..6 : i = 1 \/ i = 2 \/ i = 3 \/ i = 4 \/ i = 5 \/ i = 6
    OBVIOUS
  <2> QED
    BY <2>1, <2>2, <2>3, <2>4, <2>5, <2>6, <2>7
<1>5. {"open database", "port"} \cap Range(StartupChecks) = {}
  BY <1>1, <1>4 DEF Range
<1>6. {"open database", "port"} \cap Settings = {} /\ "open database" # "port"
  BY DEF Settings, Required, InstagramSettings, Optional
<1> QED
  BY <1>1, <1>3, <1>5, <1>6

LEMMA FiveOrSix == ChecksToRun \in Nat /\ 0 <= ChecksToRun /\ ChecksToRun <= 6
<1>1. Len(StartupChecks) = 6
  BY DEF StartupChecks
<1>2. ChecksToRun = 5 \/ ChecksToRun = 6
  BY <1>1 DEF ChecksToRun
<1> DEFINE n == ChecksToRun
<1>3. n = 5 \/ n = 6
  BY <1>2
<1> HIDE DEF n
<1>4. n \in Nat /\ 0 <= n /\ n <= 6
  BY <1>3
<1> QED
  BY <1>4 DEF n

LEMMA PartsNeeded ==
    /\ NeededParts = {StartupChecks[i] : i \in 1..ChecksToRun}
    /\ {"open database", "port"} \cap NeededParts = {}
<1> DEFINE n == ChecksToRun
           s == StartupChecks
           part == SubSeq(s, 1, n)
<1>1. n \in Nat /\ n \in 0..Len(s) /\ s \in Seq(Range(s)) /\ DOMAIN s = 1..Len(s)
  <2>1. /\ s \in Seq(Range(s)) /\ Len(s) = 6 /\ DOMAIN s = 1..6
        /\ n \in Nat /\ 0 <= n /\ n <= 6
    BY SixChecks, FiveOrSix
  <2> HIDE DEF n, s
  <2> QED
    BY <2>1
<1> HIDE DEF n, s
<1>2. Len(part) = n /\ DOMAIN part = 1..n /\ \A i \in 1..n : part[i] = s[i]
  BY <1>1
<1>3. Range(part) = {s[i] : i \in 1..n}
  <2> HIDE DEF part
  <2> QED
    BY <1>1, <1>2 DEF Range
<1>4. NeededParts = {s[i] : i \in 1..n}
  BY <1>3 DEF NeededParts, n, s
<1>5. {s[i] : i \in 1..n} \subseteq Range(s)
  BY <1>1 DEF Range
<1>6. {"open database", "port"} \cap NeededParts = {}
  BY <1>4, <1>5, SixChecks DEF s
<1> QED
  BY <1>4, <1>6 DEF n, s

LEMMA LifeInit == Init => LifeInv
<1> SUFFICES ASSUME Init PROVE LifeInv
  OBVIOUS
<1>1. LifeOK
  <2>1. env \in Environment /\ broken \in SUBSET Parts
    BY ServiceAssumption DEF Init
  <2>2. signals = 0 /\ checksRun = 0
    BY DEF Init
  <2>3. life = "config" /\ exitCode = "none"
    BY DEF Init
  <2>4. 0 \in 0..ChecksToRun
    BY FiveOrSix
  <2> QED
    BY <2>1, <2>2, <2>3, <2>4 DEF LifeOK
<1>2. WebDomains /\ BeforeUp /\ Checking /\ Up
  BY DEF Init, WebDomains, BeforeUp, Checking, Up
<1>3. StartIsAllOrNothing
  BY DEF Init, StartIsAllOrNothing
<1>4. ExitCodeTellsTheTruth
  BY DEF Init, ExitCodeTellsTheTruth
<1> QED
  BY <1>1, <1>2, <1>3, <1>4 DEF Init, LifeInv

\* What the process was started with stays as it is.
LEMMA SurroundingsStay ==
    ASSUME [Next]_vars
    PROVE  /\ UNCHANGED <<env, broken>>
           /\ ChecksToRun' = ChecksToRun /\ NeededParts' = NeededParts
           /\ Sound' <=> Sound
<1>1. UNCHANGED <<env, broken>>
  <2>1. CASE Start
    BY <2>1 DEF Start, LoadConfiguration, RunCheck, ChecksFailed, Listen
  <2>2. CASE HealthCheck
    BY <2>2 DEF HealthCheck
  <2>3. ASSUME NEW x \in Exchanges, Serve(x) \/ Work(x) PROVE UNCHANGED <<env, broken>>
    BY <2>3 DEF Serve, Arrive, Data, End, Discard, Disconnect, Work, startVars
  <2>4. CASE KilledEarly \/ SecondSignal \/ TimerFires \/ FinishShutdown
             \/ \E x \in Exchanges, r \in Requests : ArriveUnreadable(x, r)
    BY <2>4 DEF KilledEarly, SecondSignal, TimerFires, FinishShutdown, ArriveUnreadable
  <2>5. CASE BeginShutdown
    BY <2>5 DEF BeginShutdown, startVars
  <2>6. CASE UNCHANGED vars
    BY <2>6 DEF vars, startVars
  <2> QED
    BY <2>1, <2>2, <2>3, <2>4, <2>5, <2>6 DEF Next
<1>2. ChecksToRun' = ChecksToRun
  BY <1>1 DEF ChecksToRun, config
<1>3. NeededParts' = NeededParts
  BY <1>2 DEF NeededParts
<1>4. Sound' <=> Sound
  BY <1>1, <1>3 DEF Sound
<1> QED
  BY <1>1, <1>2, <1>3, <1>4

LEMMA DomainsStay == WebDomains /\ [Next]_vars => WebDomains'
<1> SUFFICES ASSUME WebDomains, [Next]_vars PROVE WebDomains'
  OBVIOUS
<1>1. ASSUME NEW x \in Exchanges, NEW r \in Requests, Arrive(x, r) \/ ArriveUnreadable(x, r)
      PROVE  WebDomains'
  BY <1>1 DEF Arrive, ArriveUnreadable, Connect, WebDomains
<1>2. ASSUME NEW x \in Exchanges, Data(x) \/ End(x) \/ Discard(x) \/ Disconnect(x)
      PROVE  WebDomains'
  BY <1>2 DEF Data, End, Discard, Disconnect, WebDomains
<1>3. CASE BeginShutdown
  BY <1>3 DEF BeginShutdown, WebDomains
<1>4. ASSUME UNCHANGED webVars PROVE WebDomains'
  BY <1>4 DEF WebDomains, webVars
<1>5. CASE Start \/ HealthCheck \/ KilledEarly \/ SecondSignal \/ TimerFires \/ FinishShutdown
           \/ UNCHANGED vars
  BY <1>4, <1>5 DEF Start, LoadConfiguration, RunCheck, ChecksFailed, Listen, HealthCheck,
                    KilledEarly, SecondSignal, TimerFires, FinishShutdown, vars
<1>6. ASSUME NEW x \in Exchanges, Work(x) PROVE WebDomains'
  BY <1>4, <1>6 DEF Work
<1> QED
  BY <1>1, <1>2, <1>3, <1>5, <1>6 DEF Next, Serve

\* Requests and the work behind them are dealt with while the process is up,
\* and do not change its life.
LEMMA ServingIsHarmless ==
    ASSUME NEW x \in Exchanges, Serve(x) \/ Work(x)
    PROVE  life = "up" /\ UNCHANGED lifeVars
BY DEF Serve, Arrive, Connect, Data, End, Discard, Disconnect, Work, lifeVars, startVars, endVars


\* What StartIsAllOrNothing asks of a process that gives up, stage by stage.
LEMMA GivesUp ==
    ASSUME NEW e \in Environment, NEW found, NEW damage, NEW needed, NEW database,
           {"open database", "port"} \cap needed = {},
           problems(e) = {},
           \/ found = {"open database"} /\ "open database" \in damage
           \/ found = {"port"} /\ damage \cap needed = {}
           \/ found = damage \cap needed /\ found # {} /\ database # "open"
    PROVE  /\ found # {}
           /\ CASE problems(e) # {}            -> IsExactDiagnosis(e, found)
                [] "open database" \in found -> "open database" \in damage
                [] "port" \in found          -> damage \cap needed = {}
                [] OTHER -> found = damage \cap needed /\ database # "open"
<1>1. CASE found = {"open database"} /\ "open database" \in damage
  BY <1>1, SixChecks
<1>2. CASE found = {"port"} /\ damage \cap needed = {}
  BY <1>2, SixChecks
<1>3. CASE found = damage \cap needed /\ found # {} /\ database # "open"
  BY <1>3
<1> QED
  BY <1>1, <1>2, <1>3

LEMMA LifeStep == LifeInv /\ [Next]_vars => LifeInv'
<1> SUFFICES ASSUME LifeInv, [Next]_vars PROVE LifeInv'
  OBVIOUS
<1>0. /\ UNCHANGED <<env, broken>>
      /\ ChecksToRun' = ChecksToRun /\ NeededParts' = NeededParts
      /\ Sound' <=> Sound
      /\ env \in Environment /\ problems(env)' = problems(env)
      /\ WebDomains'
  BY SurroundingsStay, DomainsStay DEF LifeInv, LifeOK
\* What is left of a step that leaves the process as far as it had come.
<1>a. ASSUME exitCode' = "none", server' # "none" => Sound',
             server = "none" => server' = "none" \/ Sound
      PROVE  StartIsAllOrNothing' /\ ExitCodeTellsTheTruth'
  <2>1. StartIsAllOrNothing'
    <3>1. CASE server' = "none"
      BY <1>a, <3>1 DEF StartIsAllOrNothing
    <3>2. CASE server' # "none"
      BY <1>0, <1>a, <3>2, WithoutProblems DEF Sound, StartIsAllOrNothing
    <3> QED
      BY <3>1, <3>2
  <2> QED
    BY <1>a, <2>1 DEF ExitCodeTellsTheTruth
\* One that ends a process that was up.
<1>b. ASSUME life = "up", life' = "exited", exitCode' # "none",
             server' \in {server, "closed"}, UNCHANGED checksRun, signals' \in Nat,
             ExitCodeTellsTheTruth'
      PROVE  LifeInv'
  <2>1. server # "none" /\ Sound
    BY <1>b DEF LifeInv, Up
  <2>2. StartIsAllOrNothing'
    BY <1>0, <1>b, <2>1, WithoutProblems DEF Sound, StartIsAllOrNothing
  <2> QED
    BY <1>0, <1>b, <2>1, <2>2 DEF LifeInv, LifeOK, BeforeUp, Checking, Up
<1>1. CASE LoadConfiguration
  <2>1. /\ life = "config" /\ server' = "none" /\ server = "none"
        /\ signals' = 0 /\ timer' = "off" /\ checksRun' = 0
        /\ exitCode = "none" /\ failures = {}
    BY <1>1 DEF LoadConfiguration, LifeInv, LifeOK, BeforeUp
  <2>2. CASE life' = "exited"
    <3>1. /\ exitCode' = "1"
          /\ \/ problems(env) # {} /\ failures' = problems(env)
             \/ /\ problems(env) = {} /\ failures' = {"open database"}
                /\ "open database" \in broken
      BY <1>1, <2>1, <2>2 DEF LoadConfiguration, openDatabase, Exit
    <3>2. StartIsAllOrNothing'
      <4>1. CASE problems(env) # {}
        <5>1. failures' = problems(env') /\ failures' # {} /\ env' \in Environment
              /\ problems(env') # {}
          BY <1>0, <3>1, <4>1
        <5>2. IsExactDiagnosis(env', failures')
          BY <5>1, DiagnosisIsExact
        <5>3. "open database" \notin failures' /\ "port" \notin failures'
          BY <5>1, Problems, SettingsDiffer, SixChecks
        <5> QED
          BY <2>1, <5>1, <5>2, <5>3 DEF StartIsAllOrNothing
      <4>2. CASE problems(env) = {}
        BY <1>0, <2>1, <3>1, <4>2, GivesUp, PartsNeeded DEF StartIsAllOrNothing
      <4> QED
        BY <4>1, <4>2
    <3> QED
      BY <1>0, <2>1, <2>2, <3>1, <3>2
         DEF LifeInv, LifeOK, BeforeUp, Checking, Up, ExitCodeTellsTheTruth
  <2>3. CASE life' # "exited"
    <3>1. /\ life' = "checks" /\ exitCode' = "none" /\ failures' = {}
          /\ problems(env) = {} /\ "open database" \notin broken
      BY <1>1, <2>1, <2>3 DEF LoadConfiguration, openDatabase, Exit
    <3>2. Checking'
      <4>1. {StartupChecks[i] : i \in 1..0} = {}
        OBVIOUS
      <4> QED
        BY <1>0, <2>1, <3>1, <4>1 DEF Checking
    <3> QED
      BY <1>0, <1>a, <2>1, <3>1, <3>2 DEF LifeInv, LifeOK, BeforeUp, Up
  <2> QED
    BY <2>2, <2>3
<1>2. CASE RunCheck
  <2>1. /\ life = "checks" /\ life' = "checks" /\ server' = "none" /\ server = "none"
        /\ exitCode' = "none" /\ signals' = 0 /\ timer' = "off"
        /\ checksRun \in Nat /\ checksRun' = checksRun + 1 /\ checksRun + 1 <= ChecksToRun
        /\ failures' = failures \cup ({StartupChecks[checksRun + 1]} \cap broken)
    BY <1>2, FiveOrSix DEF RunCheck, LifeInv, LifeOK, BeforeUp, endVars
  <2>2. Checking'
    <3>1. {StartupChecks[i] : i \in 1..checksRun + 1}
            = {StartupChecks[i] : i \in 1..checksRun} \cup {StartupChecks[checksRun + 1]}
      BY <2>1
    <3> QED
      BY <1>0, <2>1, <3>1 DEF LifeInv, Checking
  <2>3. checksRun' \in 0..ChecksToRun'
    BY <1>0, <2>1, FiveOrSix
  <2> QED
    BY <1>0, <1>a, <2>1, <2>2, <2>3 DEF LifeInv, LifeOK, BeforeUp, Up
<1>3. CASE ChecksFailed
  <2>1. /\ life' = "exited" /\ exitCode' = "1" /\ server' = "none" /\ server = "none"
        /\ signals' = 0 /\ timer' = "off" /\ db' # "open" /\ UNCHANGED <<checksRun, failures>>
        /\ failures # {} /\ failures = broken \cap NeededParts /\ problems(env) = {}
    BY <1>3, PartsNeeded DEF ChecksFailed, CloseDatabase, Exit, LifeInv, BeforeUp, Checking
  <2>2. StartIsAllOrNothing'
    BY <1>0, <2>1, GivesUp, PartsNeeded DEF StartIsAllOrNothing
  <2> QED
    BY <1>0, <2>1, <2>2 DEF LifeInv, LifeOK, BeforeUp, Checking, Up, ExitCodeTellsTheTruth
<1>4. CASE Listen
  <2>1. /\ life = "checks" /\ server = "none" /\ UNCHANGED <<checksRun, signals, timer>>
        /\ signals = 0 /\ timer = "off" /\ exitCode = "none"
        /\ problems(env) = {} /\ "open database" \notin broken /\ broken \cap NeededParts = {}
    BY <1>4, PartsNeeded DEF Listen, LifeInv, LifeOK, BeforeUp, Checking
  <2>2. CASE "port" \in broken
    <3>1. life' = "exited" /\ exitCode' = "1" /\ failures' = {"port"} /\ server' = "none"
      BY <1>4, <2>1, <2>2 DEF Listen, Exit
    <3>2. StartIsAllOrNothing'
      BY <1>0, <2>1, <3>1, GivesUp, PartsNeeded DEF StartIsAllOrNothing
    <3> QED
      BY <1>0, <2>1, <3>1, <3>2
         DEF LifeInv, LifeOK, BeforeUp, Checking, Up, ExitCodeTellsTheTruth
  <2>3. CASE "port" \notin broken
    <3>1. life' = "up" /\ exitCode' = "none" /\ server' = "listening"
      BY <1>4, <2>1, <2>3 DEF Listen
    <3>2. Sound
      BY <2>1, <2>3 DEF Sound
    <3> QED
      BY <1>0, <1>a, <2>1, <3>1, <3>2 DEF LifeInv, LifeOK, BeforeUp, Checking, Up
  <2> QED
    BY <2>2, <2>3
<1>5. CASE HealthCheck
  <2>1. life = "up" /\ UNCHANGED <<life, checksRun, exitCode, signals, timer, server>>
    BY <1>5 DEF HealthCheck, endVars
  <2> QED
    BY <1>0, <1>a, <2>1 DEF LifeInv, LifeOK, BeforeUp, Checking, Up
<1>6. ASSUME NEW x \in Exchanges, Serve(x) \/ Work(x) PROVE LifeInv'
  <2>1. life = "up" /\ UNCHANGED <<life, checksRun, exitCode, signals, timer, server>>
    BY <1>6, ServingIsHarmless DEF lifeVars, startVars, endVars
  <2> QED
    BY <1>0, <1>a, <2>1 DEF LifeInv, LifeOK, BeforeUp, Checking, Up
<1>7. CASE KilledEarly
  <2>1. /\ life \in {"config", "checks"} /\ life' = "exited" /\ exitCode' = "killed"
        /\ signals' \in Nat /\ UNCHANGED <<checksRun, server>> /\ server = "none"
    BY <1>7 DEF KilledEarly, Exit, LifeInv, LifeOK, BeforeUp
  <2>2. StartIsAllOrNothing' /\ ExitCodeTellsTheTruth'
    BY <2>1 DEF StartIsAllOrNothing, ExitCodeTellsTheTruth
  <2> QED
    BY <1>0, <2>1, <2>2 DEF LifeInv, LifeOK, BeforeUp, Checking, Up
<1>8. CASE BeginShutdown
  <2>1. /\ life = "up" /\ signals' = 1 /\ timer' = "set" /\ server' = "closing"
        /\ UNCHANGED <<life, checksRun, exitCode>> /\ Sound /\ server # "none"
    BY <1>8 DEF BeginShutdown, startVars, LifeInv, Up
  <2> QED
    BY <1>0, <1>a, <2>1 DEF LifeInv, LifeOK, BeforeUp, Checking, Up
<1>9. CASE SecondSignal
  <2>1. /\ life = "up" /\ life' = "exited" /\ exitCode' = "1"
        /\ UNCHANGED <<checksRun, server>> /\ signals' \in Nat /\ signals' >= 2
    BY <1>9 DEF SecondSignal, Exit, LifeInv, LifeOK
  <2>2. ExitCodeTellsTheTruth'
    BY <2>1 DEF ExitCodeTellsTheTruth
  <2> QED
    BY <1>b, <2>1, <2>2
<1>10. CASE TimerFires
  <2>1. /\ life = "up" /\ life' = "exited" /\ exitCode' = "1" /\ timer' = "fired"
        /\ UNCHANGED <<checksRun, server, signals>> /\ signals \in Nat
    BY <1>10 DEF TimerFires, Exit, LifeInv, LifeOK
  <2>2. ExitCodeTellsTheTruth'
    BY <2>1 DEF ExitCodeTellsTheTruth
  <2> QED
    BY <1>b, <2>1, <2>2
<1>11. CASE FinishShutdown
  <2>1. /\ life = "up" /\ life' = "exited" /\ exitCode' = "0" /\ timer' = "off"
        /\ server' = "closed" /\ db' # "open"
        /\ UNCHANGED <<checksRun, signals, connection>> /\ signals = 1
        /\ \A x \in Exchanges : ~Open(x)
    BY <1>11 DEF FinishShutdown, CloseDatabase, Exit, LifeInv, LifeOK, Up, webVars
  <2>2. ExitCodeTellsTheTruth'
    BY <2>1 DEF ExitCodeTellsTheTruth, Open
  <2> QED
    BY <1>b, <2>1, <2>2
<1>12. ASSUME NEW x \in Exchanges, NEW r \in Requests, ArriveUnreadable(x, r)
       PROVE  LifeInv'
  <2>1. /\ life = "up" /\ life' = "exited" /\ exitCode' = "1"
        /\ UNCHANGED <<checksRun, server, signals>> /\ signals \in Nat
    BY <1>12 DEF ArriveUnreadable, Connect, Exit, LifeInv, LifeOK
  <2>2. exchange'[x].request = r /\ connection'[x] # "unused"
    BY <1>12 DEF ArriveUnreadable, Connect, NewExchange, LifeInv, WebDomains
  <2>3. ExitCodeTellsTheTruth'
    <3>1. EndedProcess(x)'
      BY <1>12, <2>1, <2>2 DEF EndedProcess, Used, ArriveUnreadable
    <3> QED
      BY <2>1, <3>1 DEF ExitCodeTellsTheTruth
  <2> QED
    BY <1>b, <2>1, <2>3
<1>13. CASE UNCHANGED vars
  <2>1. /\ UNCHANGED <<life, checksRun, failures, exitCode, signals, timer, db, server>>
        /\ UNCHANGED <<connection, exchange>>
    BY <1>13 DEF vars, startVars, endVars, webVars
  <2>2. StartIsAllOrNothing'
    BY <1>0, <2>1 DEF LifeInv, StartIsAllOrNothing
  <2>3. ExitCodeTellsTheTruth'
    BY <2>1 DEF LifeInv, ExitCodeTellsTheTruth, Open, EndedProcess, Used
  <2> QED
    BY <1>0, <2>1, <2>2, <2>3 DEF LifeInv, LifeOK, BeforeUp, Checking, Up
<1> QED
  BY <1>1, <1>2, <1>3, <1>4, <1>5, <1>6, <1>7, <1>8, <1>9, <1>10, <1>11, <1>12, <1>13
     DEF Next, Start

THEOREM LifeInvariance == Spec => []LifeInv
BY LifeInit, LifeStep, PTL DEF Spec

\* The process serves only when all it needs is there, and one that gives up
\* says exactly why.
THEOREM StartsWholeOrNotAtAll == Spec => []StartIsAllOrNothing
<1>1. LifeInv => StartIsAllOrNothing
  BY DEF LifeInv
<1> QED
  BY <1>1, LifeInvariance, PTL

\* The exit code says how the process ended, however many clients it had.
THEOREM ExitCodeIsTrue == Spec => []ExitCodeTellsTheTruth
<1>1. LifeInv => ExitCodeTellsTheTruth
  BY DEF LifeInv
<1> QED
  BY <1>1, LifeInvariance, PTL

-----------------------------------------------------------------------------
(* The exchanges. *)

Bodies == {r.body : r \in Requests}

ExchangeRecord ==
    [request : Requests, reading : BOOLEAN, received : Nat, rejectedForSize : BOOLEAN,
     answers : Seq(Nat), handed : Seq(Bodies)]

\* Whose body is read: only the signature of a delivery is still to be checked.
Admitted(r, settings) ==
    /\ r.method = "POST"
    /\ \/ r.path = "telegram" /\ (settings.secretToken => r.credential = SecretToken)
       \/ r.path = "instagram" /\ settings.instagram

Genuine(e, settings) ==
    /\ Admitted(e.request, settings)
    /\ e.answers = <<200>>
    /\ e.handed = <<e.request.body>> /\ e.request.body # Garbage
    /\ e.received = e.request.size /\ e.received <= MaxBodySize
    /\ e.request.path = "instagram" =>
          e.request.credential = [key |-> AppSecret, over |-> e.request.body]

\* An exchange and what has become of its connection, at any moment.
Proper(e, c, settings) ==
    /\ e \in ExchangeRecord
    /\ e.rejectedForSize \/ e.received <= MaxBodySize
    /\ \/ /\ e.reading /\ Admitted(e.request, settings)
          /\ e.handed = <<>>
          /\ IF e.rejectedForSize THEN e.answers = <<413>> /\ c = "closed"
             ELSE e.answers = <<>> /\ c \in {"active", "closed"}
       \/ /\ ~e.reading
          /\ \/ Len(e.answers) = 1
             \/ e.answers = <<>> /\ (c = "closed" \/ ~IsUrl(e.request))
          /\ e.handed = <<>> \/ Genuine(e, settings)

ExchangeInv ==
    /\ connection \in [Exchanges -> {"unused", "active", "idle", "closed"}]
    /\ DOMAIN exchange = Exchanges
    /\ exchange = [x \in Exchanges |-> exchange[x]]
    /\ \A x \in Exchanges : Used(x) => Proper(exchange[x], connection[x], config)

\* A target that cannot be read is the last one the process was sent.
ReadableInv ==
    \A x \in Exchanges : Used(x) => IsUrl(exchange[x].request) \/ life = "exited"

LEMMA OneAnswer ==
    ASSUME NEW s PROVE Append(<<>>, s) = <<s>> /\ Len(<<s>>) = 1 /\ <<s>> # <<>>
OBVIOUS

LEMMA RequestIsProper ==
    ASSUME NEW r \in Requests, NEW settings, NEW policyIsThere \in BOOLEAN
    PROVE  Proper(OnRequest(NewExchange(r), settings, policyIsThere), "active", settings)
<1> DEFINE e == NewExchange(r)
<1>0. /\ e \in ExchangeRecord /\ e.request = r /\ ~e.reading /\ e.received = 0
      /\ ~e.rejectedForSize /\ e.answers = <<>> /\ e.handed = <<>>
  BY DEF NewExchange, ExchangeRecord
<1>a. 0 <= MaxBodySize
  BY WebhookAssumption
<1> HIDE DEF e
<1>1. ASSUME NEW s \in Nat PROVE Proper(Answer(e, s), "active", settings)
  <2>1. Answer(e, s) = [e EXCEPT !.answers = <<s>>]
    BY <1>0, OneAnswer DEF Answer
  <2>2. <<s>> \in Seq(Nat) /\ Len(<<s>>) = 1
    OBVIOUS
  <2> DEFINE a == <<s>>
  <2> HIDE DEF a
  <2>3. [e EXCEPT !.answers = a] \in ExchangeRecord
    BY <1>0, <2>2 DEF ExchangeRecord, a
  <2>4. Proper([e EXCEPT !.answers = a], "active", settings)
    BY <1>0, <1>a, <2>2, <2>3 DEF Proper, ExchangeRecord, a
  <2> QED
    BY <2>1, <2>4 DEF a
<1>2. ASSUME Admitted(r, settings) PROVE Proper(ReadBody(e), "active", settings)
  BY <1>0, <1>a, <1>2 DEF Proper, ReadBody, ExchangeRecord
<1>3. \A s \in {200, 401, 403, 404, 405, 500} : Proper(Answer(e, s), "active", settings)
  BY <1>1
<1>4. Proper(TelegramRequest(e, settings), "active", settings) \/ r.path # "telegram"
  BY <1>0, <1>2, <1>3 DEF TelegramRequest, Admitted, secretTokenMatches
<1>5. settings.instagram /\ r.path = "instagram" => Proper(InstagramRequest(e), "active", settings)
  <2>1. Proper(handleVerification(e), "active", settings)
    BY <1>3 DEF handleVerification
  <2> QED
    BY <1>0, <1>2, <1>3, <2>1 DEF InstagramRequest, Admitted
<1>6. OnRequest(e, settings, policyIsThere) \in
         {Answer(e, 200), Answer(e, 500), Answer(e, 404)}
         \cup (IF r.path = "telegram" THEN {TelegramRequest(e, settings)} ELSE {})
         \cup (IF r.path = "instagram" /\ settings.instagram THEN {InstagramRequest(e)} ELSE {})
  BY <1>0 DEF OnRequest
<1> QED
  BY <1>3, <1>4, <1>5, <1>6 DEF e

LEMMA DataIsProper ==
    ASSUME NEW e, NEW c, NEW settings, Proper(e, c, settings), e.reading,
           c = "active" \/ e.rejectedForSize
    PROVE  Proper(OnData(e), IF OnData(e).rejectedForSize THEN "closed" ELSE c, settings)
<1>1. CASE e.rejectedForSize
  BY <1>1 DEF Proper, OnData
<1>2. CASE ~e.rejectedForSize
  <2> DEFINE more == [e EXCEPT !.received = e.received + 1]
             tooMuch == [e EXCEPT !.received = e.received + 1, !.rejectedForSize = TRUE]
  <2>0. /\ e \in ExchangeRecord /\ e.received \in Nat /\ MaxBodySize \in Nat
        /\ e.answers = <<>> /\ e.handed = <<>> /\ Admitted(e.request, settings) /\ c = "active"
    BY <1>2, WebhookAssumption DEF Proper, ExchangeRecord
  <2>1. CASE e.received + 1 > MaxBodySize
    <3>1. OnData(e) = Answer(tooMuch, 413)
      BY <1>2, <2>1 DEF OnData
    <3>2. /\ tooMuch \in ExchangeRecord /\ tooMuch.rejectedForSize /\ tooMuch.reading
          /\ tooMuch.answers = <<>> /\ tooMuch.handed = <<>> /\ tooMuch.request = e.request
      <4> DEFINE n == e.received + 1
                 t == [e EXCEPT !.received = n, !.rejectedForSize = TRUE]
      <4>1. n \in Nat
        BY <2>0
      <4>2. tooMuch \in ExchangeRecord
        <5> HIDE DEF n
        <5>1. t \in ExchangeRecord
          BY <2>0, <4>1 DEF ExchangeRecord
        <5> QED
          BY <5>1 DEF n
      <4>3. tooMuch.rejectedForSize
        BY <2>0 DEF ExchangeRecord
      <4>4. tooMuch.reading = e.reading
        BY <2>0 DEF ExchangeRecord
      <4>5. tooMuch.answers = <<>> /\ tooMuch.handed = <<>> /\ tooMuch.request = e.request
        BY <2>0 DEF ExchangeRecord
      <4> QED
        BY <4>2, <4>3, <4>4, <4>5
    <3> HIDE DEF tooMuch
    <3>3. Answer(tooMuch, 413) = [tooMuch EXCEPT !.answers = <<413>>]
      BY <3>2, OneAnswer DEF Answer
    <3> DEFINE a == <<413>>
    <3>4. a \in Seq(Nat)
      OBVIOUS
    <3> HIDE DEF a
    <3>5. [tooMuch EXCEPT !.answers = a] \in ExchangeRecord
      BY <3>2, <3>4 DEF ExchangeRecord
    <3>6. Proper([tooMuch EXCEPT !.answers = a], "closed", settings)
      BY <2>0, <3>2, <3>5 DEF Proper, ExchangeRecord, a
    <3>7. [tooMuch EXCEPT !.answers = a].rejectedForSize
      BY <3>2 DEF ExchangeRecord
    <3> QED
      BY <3>1, <3>3, <3>6, <3>7 DEF a
  <2>2. CASE ~(e.received + 1 > MaxBodySize)
    <3>1. OnData(e) = more
      BY <1>2, <2>2 DEF OnData
    <3>2. more \in ExchangeRecord /\ ~more.rejectedForSize
      BY <1>2, <2>0 DEF ExchangeRecord
    <3>3. Proper(more, c, settings)
      BY <1>2, <2>0, <2>2, <3>2 DEF Proper, ExchangeRecord
    <3> QED
      BY <3>1, <3>2, <3>3
  <2> QED
    BY <2>1, <2>2
<1> QED
  BY <1>1, <1>2 DEF Proper, ExchangeRecord

\* The body is whole, or has been too large for some time.
LEMMA EndIsProper ==
    ASSUME NEW e, NEW c, NEW settings, Proper(e, c, settings), e.reading,
           \/ c = "active" /\ e.received = e.request.size
           \/ e.rejectedForSize
    PROVE  /\ Proper(OnEnd(e), IF c = "active" THEN "idle" ELSE c, settings)
           /\ OnEnd(e).request = e.request
           /\ OnEnd(e).handed # <<>> => e.request.body # Garbage /\ e.request.method = "POST"
<1> DEFINE done == [e EXCEPT !.reading = FALSE]
<1>0. /\ done \in ExchangeRecord /\ ~done.reading /\ done.request = e.request
      /\ done.rejectedForSize = e.rejectedForSize /\ done.received = e.received
      /\ done.answers = e.answers /\ done.handed = e.handed
  BY DEF Proper, ExchangeRecord
<1>1. CASE e.rejectedForSize
  <2>1. OnEnd(e) = done
    BY <1>1 DEF OnEnd
  <2>2. e.answers = <<413>> /\ e.handed = <<>> /\ c = "closed" /\ Len(<<413>>) = 1
    BY <1>1 DEF Proper
  <2> HIDE DEF done
  <2> QED
    BY <1>0, <1>1, <2>1, <2>2 DEF Proper
<1>2. CASE ~e.rejectedForSize
  <2>0. /\ c = "active" /\ e.received = e.request.size /\ e.received <= MaxBodySize
        /\ e.answers = <<>> /\ e.handed = <<>> /\ Admitted(e.request, settings)
        /\ e.request \in Requests
    BY <1>2 DEF Proper, ExchangeRecord
  <2> HIDE DEF done
  <2> DEFINE r == e.request
             Answered(s) == [done EXCEPT !.answers = <<s>>]
             Handed == [Answered(200) EXCEPT !.handed = <<r.body>>]
  <2>1. ASSUME NEW s \in Nat
        PROVE  /\ Answer(done, s) = Answered(s)
               /\ Answered(s) \in ExchangeRecord /\ ~Answered(s).reading
               /\ Answered(s).rejectedForSize = e.rejectedForSize
               /\ Answered(s).request = r /\ Answered(s).received = e.received
               /\ Answered(s).answers = <<s>> /\ Answered(s).handed = <<>>
               /\ Proper(Answered(s), "idle", settings)
    <3>1. Answer(done, s) = Answered(s)
      BY <1>0, <2>0, OneAnswer DEF Answer
    <3>2. <<s>> \in Seq(Nat) /\ Len(<<s>>) = 1
      OBVIOUS
    <3> DEFINE a == <<s>>
               answered == [done EXCEPT !.answers = a]
    <3> HIDE DEF a
    <3>3. /\ answered \in ExchangeRecord /\ ~answered.reading
          /\ answered.rejectedForSize = e.rejectedForSize
          /\ answered.request = r /\ answered.received = e.received
          /\ answered.answers = a /\ answered.handed = <<>>
      BY <1>0, <2>0, <3>2 DEF ExchangeRecord, a
    <3> HIDE DEF answered
    <3>4. Proper(answered, "idle", settings)
      BY <2>0, <3>2, <3>3 DEF Proper, a
    <3> QED
      BY <3>1, <3>3, <3>4 DEF a, answered
  <2>2. CASE r.path = "instagram" /\ ~signatureMatches(r.body, r.credential)
    <3>1. OnEnd(e) = Answer(done, 401)
      BY <1>2, <2>2 DEF OnEnd, done
    <3> HIDE DEF Answered
    <3> QED
      BY <2>0, <2>1, <3>1
  <2>3. CASE ~(r.path = "instagram" /\ ~signatureMatches(r.body, r.credential))
    <3>1. OnEnd(e) = Delivered(done)
      BY <1>2, <2>3 DEF OnEnd, done
    <3>2. CASE r.body = Garbage
      <4>1. OnEnd(e) = Answer(done, 200)
        BY <1>0, <3>1, <3>2 DEF Delivered
      <4> HIDE DEF Answered
      <4> QED
        BY <2>0, <2>1, <4>1
    <3>3. CASE r.body # Garbage
      <4>1. OnEnd(e) = HandOver(Answered(200))
        BY <1>0, <2>1, <3>1, <3>3 DEF Delivered
      <4> DEFINE w == Answered(200)
      <4>2. /\ w \in ExchangeRecord /\ ~w.reading /\ w.rejectedForSize = e.rejectedForSize
            /\ w.request = r /\ w.received = e.received /\ w.answers = <<200>> /\ w.handed = <<>>
        BY <2>1
      <4> HIDE DEF w
      <4>3. HandOver(w) = [w EXCEPT !.handed = <<r.body>>]
        BY <4>2, OneAnswer DEF HandOver
      <4>4. <<r.body>> \in Seq(Bodies)
        BY <2>0 DEF Bodies
      <4> DEFINE h == <<r.body>>
                 o == [w EXCEPT !.handed = h]
      <4> HIDE DEF h
      <4>5. /\ o \in ExchangeRecord /\ ~o.reading /\ o.rejectedForSize = e.rejectedForSize
            /\ o.request = r /\ o.received = e.received /\ o.answers = <<200>> /\ o.handed = h
        BY <4>2, <4>4 DEF ExchangeRecord, h
      <4> HIDE DEF o
      <4>6. r.path = "instagram" => r.credential = [key |-> AppSecret, over |-> r.body]
        BY <2>3 DEF signatureMatches
      <4>7. Genuine(o, settings)
        BY <2>0, <3>3, <4>5, <4>6 DEF Genuine, h
      <4>8. Proper(o, "idle", settings)
        BY <2>0, <4>5, <4>7, OneAnswer DEF Proper
      <4> QED
        BY <2>0, <3>3, <4>1, <4>3, <4>5, <4>8 DEF h, o, w, Admitted
    <3> QED
      BY <3>2, <3>3
  <2> QED
    BY <2>2, <2>3
<1> QED
  BY <1>1, <1>2

LEMMA ConnectionsGo ==
    ASSUME NEW e, NEW c, NEW settings, Proper(e, c, settings)
    PROVE  /\ Proper(e, "closed", settings)
           /\ Proper([e EXCEPT !.reading = FALSE], "closed", settings)
           /\ c = "active" /\ ~e.reading => Proper(e, "idle", settings)
<1> DEFINE left == [e EXCEPT !.reading = FALSE]
<1>1. Proper(e, "closed", settings) /\ (c = "active" /\ ~e.reading => Proper(e, "idle", settings))
  BY DEF Proper
<1>2. /\ left \in ExchangeRecord /\ ~left.reading /\ left.request = e.request
      /\ left.rejectedForSize = e.rejectedForSize /\ left.received = e.received
      /\ left.answers = e.answers /\ left.handed = e.handed
  BY DEF Proper, ExchangeRecord
<1>3. /\ left.rejectedForSize \/ left.received <= MaxBodySize
      /\ Len(left.answers) = 1 \/ left.answers = <<>>
  <2>1. Len(<<413>>) = 1
    OBVIOUS
  <2> HIDE DEF left
  <2> QED
    BY <1>2, <2>1 DEF Proper
<1>4. left.handed = <<>> \/ Genuine(left, settings)
  BY <1>2 DEF Proper, Genuine
<1> HIDE DEF left
<1>5. Proper(left, "closed", settings)
  BY <1>2, <1>3, <1>4 DEF Proper
<1> QED
  BY <1>1, <1>5 DEF left

LEMMA ExchangeStep == ExchangeInv /\ [Next]_vars => ExchangeInv'
<1> SUFFICES ASSUME ExchangeInv, [Next]_vars PROVE ExchangeInv'
  OBVIOUS
<1>0. config' = config
  BY SurroundingsStay DEF config
<1>a. /\ connection \in [Exchanges -> {"unused", "active", "idle", "closed"}]
      /\ exchange = [z \in Exchanges |-> exchange[z]] /\ DOMAIN exchange = Exchanges
      /\ \A z \in Exchanges : connection[z] # "unused" => Proper(exchange[z], connection[z], config)
  BY DEF ExchangeInv, Used
\* It is enough to look at the exchange that moves and the connection it takes over.
<1>b. ASSUME NEW x \in Exchanges, NEW e, NEW c \in {"active", "idle", "closed"},
             exchange' = [exchange EXCEPT ![x] = e],
             connection' = [connection EXCEPT ![x] = c]
                \/ \E y \in Exchanges : /\ y # x /\ connection[y] = "idle"
                                        /\ connection' = [connection EXCEPT ![x] = c, ![y] = "closed"],
             Proper(e, c, config)
      PROVE  ExchangeInv'
  <2>1. /\ connection' \in [Exchanges -> {"unused", "active", "idle", "closed"}]
        /\ exchange' = [z \in Exchanges |-> exchange'[z]] /\ DOMAIN exchange' = Exchanges
        /\ exchange'[x] = e /\ connection'[x] = c
        /\ \A z \in Exchanges \ {x} :
              /\ exchange'[z] = exchange[z]
              /\ \/ connection'[z] = connection[z]
                 \/ connection[z] # "unused" /\ connection'[z] = "closed"
    BY <1>a, <1>b
  <2>2. ASSUME NEW z \in Exchanges, connection'[z] # "unused"
        PROVE  Proper(exchange'[z], connection'[z], config)
    <3>1. CASE z = x
      BY <1>b, <2>1, <3>1
    <3>2. CASE z # x
      BY <1>a, <2>1, <2>2, <3>2, ConnectionsGo
    <3> QED
      BY <3>1, <3>2
  <2> QED
    BY <1>0, <2>1, <2>2 DEF ExchangeInv, Used
<1>1. ASSUME NEW x \in Exchanges, NEW r \in Requests, Arrive(x, r) PROVE ExchangeInv'
  <2> DEFINE e == OnRequest(NewExchange(r), config, "privacy policy" \notin broken)
  <2>1. Proper(e, "active", config)
    BY RequestIsProper
  <2>2. exchange' = [exchange EXCEPT ![x] = e] /\ connection[x] = "unused"
    BY <1>1 DEF Arrive, Connect
  <2> HIDE DEF e
  <2>3. \/ connection' = [connection EXCEPT ![x] = "active"]
        \/ \E y \in Exchanges :
              /\ y # x /\ connection[y] = "idle"
              /\ connection' = [connection EXCEPT ![x] = "active", ![y] = "closed"]
    BY <1>1, <2>2 DEF Arrive, Connect
  <2> QED
    BY <1>b, <2>1, <2>2, <2>3
<1>11. ASSUME NEW x \in Exchanges, NEW r \in Requests, ArriveUnreadable(x, r)
       PROVE  ExchangeInv'
  <2> DEFINE e == NewExchange(r)
  <2>1. Proper(e, "active", config)
    <3>1. /\ e \in ExchangeRecord /\ e.request = r /\ ~e.reading /\ e.received = 0
          /\ ~e.rejectedForSize /\ e.answers = <<>> /\ e.handed = <<>>
      BY DEF NewExchange, ExchangeRecord
    <3>2. 0 <= MaxBodySize /\ ~IsUrl(r)
      BY <1>11, WebhookAssumption DEF ArriveUnreadable
    <3> HIDE DEF e
    <3> QED
      BY <3>1, <3>2 DEF Proper
  <2>2. exchange' = [exchange EXCEPT ![x] = e] /\ connection[x] = "unused"
    BY <1>11 DEF ArriveUnreadable, Connect
  <2> HIDE DEF e
  <2>3. \/ connection' = [connection EXCEPT ![x] = "active"]
        \/ \E y \in Exchanges :
              /\ y # x /\ connection[y] = "idle"
              /\ connection' = [connection EXCEPT ![x] = "active", ![y] = "closed"]
    BY <1>11, <2>2 DEF ArriveUnreadable, Connect
  <2> QED
    BY <1>b, <2>1, <2>2, <2>3
<1>2. ASSUME NEW x \in Exchanges, Data(x) PROVE ExchangeInv'
  <2> DEFINE e == OnData(exchange[x])
             c == IF e.rejectedForSize THEN "closed" ELSE connection[x]
  <2>1. Proper(exchange[x], connection[x], config) /\ exchange[x].reading
        /\ (connection[x] = "active" \/ exchange[x].rejectedForSize)
    BY <1>2, <1>a DEF Data
  <2>2. Proper(e, c, config)
    BY <2>1, DataIsProper
  <2>3. exchange' = [exchange EXCEPT ![x] = e] /\ exchange'[x] = e
    BY <1>2, <1>a DEF Data
  <2>4. connection' = [connection EXCEPT ![x] = c]
    BY <1>2, <2>3 DEF Data
  <2>5. c \in {"active", "closed"}
    BY <2>1 DEF Proper
  <2> HIDE DEF e, c
  <2> QED
    BY <1>b, <2>2, <2>3, <2>4, <2>5
<1>3. ASSUME NEW x \in Exchanges, End(x) PROVE ExchangeInv'
  <2> DEFINE e == OnEnd(exchange[x])
             c == IF connection[x] = "active" THEN "idle" ELSE connection[x]
  <2>1. Proper(exchange[x], connection[x], config) /\ exchange[x].reading
        /\ \/ connection[x] = "active" /\ exchange[x].received = exchange[x].request.size
           \/ exchange[x].rejectedForSize
    BY <1>3, <1>a DEF End
  <2>2. Proper(e, c, config)
    BY <2>1, EndIsProper
  <2>3. exchange' = [exchange EXCEPT ![x] = e]
    BY <1>3 DEF End
  <2>4. connection' = [connection EXCEPT ![x] = c]
    BY <1>3 DEF End
  <2>5. c \in {"idle", "closed"}
    BY <2>1 DEF Proper
  <2> HIDE DEF e, c
  <2> QED
    BY <1>b, <2>2, <2>3, <2>4, <2>5
<1>4. ASSUME NEW x \in Exchanges, Discard(x) PROVE ExchangeInv'
  <2>1. /\ connection[x] = "active" /\ ~exchange[x].reading
        /\ connection' = [connection EXCEPT ![x] = "idle"]
        /\ exchange' = [exchange EXCEPT ![x] = exchange[x]]
    BY <1>4, <1>a DEF Discard
  <2>2. Proper(exchange[x], "idle", config)
    BY <1>a, <2>1, ConnectionsGo
  <2> QED
    BY <1>b, <2>1, <2>2
<1>5. ASSUME NEW x \in Exchanges, Disconnect(x) PROVE ExchangeInv'
  <2> DEFINE e == [exchange[x] EXCEPT !.reading = FALSE]
  <2>1. /\ connection[x] # "unused"
        /\ connection' = [connection EXCEPT ![x] = "closed"]
        /\ exchange' = [exchange EXCEPT ![x] = e]
    BY <1>5 DEF Disconnect, Open
  <2>2. Proper(e, "closed", config)
    BY <1>a, <2>1, ConnectionsGo
  <2> HIDE DEF e
  <2> QED
    BY <1>b, <2>1, <2>2
<1>6. CASE BeginShutdown
  <2>1. /\ exchange' = exchange
        /\ connection' \in [Exchanges -> {"unused", "active", "idle", "closed"}]
        /\ \A z \in Exchanges : \/ connection'[z] = connection[z]
                                \/ connection[z] # "unused" /\ connection'[z] = "closed"
    BY <1>6, <1>a DEF BeginShutdown
  <2>2. ASSUME NEW z \in Exchanges, connection'[z] # "unused"
        PROVE  Proper(exchange'[z], connection'[z], config)
    BY <1>a, <2>1, <2>2, ConnectionsGo
  <2> QED
    BY <1>0, <1>a, <2>1, <2>2 DEF ExchangeInv, Used
<1>7. ASSUME UNCHANGED webVars PROVE ExchangeInv'
  BY <1>0, <1>7 DEF ExchangeInv, Used, webVars
<1>8. CASE Start \/ HealthCheck \/ KilledEarly \/ SecondSignal \/ TimerFires \/ FinishShutdown
  BY <1>7, <1>8 DEF Start, LoadConfiguration, RunCheck, ChecksFailed, Listen, HealthCheck,
                    KilledEarly, SecondSignal, TimerFires, FinishShutdown
<1>9. ASSUME NEW x \in Exchanges, Work(x) PROVE ExchangeInv'
  BY <1>7, <1>9 DEF Work
<1>10. CASE UNCHANGED vars
  BY <1>7, <1>10 DEF vars
<1> QED
  BY <1>1, <1>2, <1>3, <1>4, <1>5, <1>6, <1>8, <1>9, <1>10, <1>11 DEF Next, Serve

LEMMA ExchangesBegin == Init => ExchangeInv /\ ReadableInv
BY DEF Init, ExchangeInv, ReadableInv, Used

LEMMA RequestIsKept ==
    ASSUME NEW r \in Requests, NEW settings, NEW policyIsThere
    PROVE  OnRequest(NewExchange(r), settings, policyIsThere).request = r
BY DEF OnRequest, TelegramRequest, InstagramRequest, handleVerification, NewExchange,
       Answer, ReadBody

LEMMA ReadableStep == ReadableInv /\ ExchangeInv /\ [Next]_vars => ReadableInv'
<1> SUFFICES ASSUME ReadableInv, ExchangeInv, [Next]_vars PROVE ReadableInv'
  OBVIOUS
\* It is enough that no request changes.
<1>a. ASSUME UNCHANGED life,
             \A z \in Exchanges : Used(z)' =>
                \/ Used(z) /\ exchange'[z].request = exchange[z].request
                \/ IsUrl(exchange'[z].request)
      PROVE  ReadableInv'
  BY <1>a DEF ReadableInv
<1>b. DOMAIN exchange = Exchanges /\ DOMAIN connection = Exchanges
      /\ \A z \in Exchanges : Used(z) => exchange[z] \in ExchangeRecord
  BY DEF ExchangeInv, Proper
<1>1. ASSUME NEW x \in Exchanges, NEW r \in Requests, Arrive(x, r) PROVE ReadableInv'
  <2> DEFINE e == OnRequest(NewExchange(r), config, "privacy policy" \notin broken)
  <2>1. e.request = r /\ IsUrl(r)
    BY <1>1, RequestIsKept DEF Arrive
  <2>2. exchange' = [exchange EXCEPT ![x] = e] /\ UNCHANGED life
    BY <1>1 DEF Arrive, startVars
  <2> HIDE DEF e
  <2>3. \A z \in Exchanges \ {x} : Used(z)' => Used(z)
    BY <1>1, <1>b DEF Arrive, Connect, Used
  <2> QED
    BY <1>a, <1>b, <2>1, <2>2, <2>3
<1>2. ASSUME NEW x \in Exchanges, Data(x) \/ End(x) \/ Disconnect(x) PROVE ReadableInv'
  <2> DEFINE e == exchange[x]
  <2>1. PICK o \in {OnData(e), OnEnd(e), [e EXCEPT !.reading = FALSE]} :
           exchange' = [exchange EXCEPT ![x] = o]
    BY <1>2 DEF Data, End, Disconnect
  <2>2. Used(x) /\ UNCHANGED life
    BY <1>2 DEF Data, End, Disconnect, Open, Used, startVars
  <2>3. o.request = e.request
    <3>1. e \in ExchangeRecord
      BY <1>b, <2>2
    <3> HIDE DEF e
    <3>2. OnData(e).request = e.request
      BY <3>1 DEF OnData, Answer, ExchangeRecord
    <3>3. OnEnd(e).request = e.request
      BY <3>1 DEF OnEnd, Delivered, HandOver, Answer, ExchangeRecord
    <3>4. [e EXCEPT !.reading = FALSE].request = e.request
      BY <3>1 DEF ExchangeRecord
    <3> QED
      BY <2>1, <3>2, <3>3, <3>4
  <2>4. \A z \in Exchanges \ {x} : Used(z)' => Used(z)
    BY <1>2, <1>b DEF Data, End, Disconnect, Used
  <2> HIDE DEF e
  <2>5. exchange'[x] = o /\ \A z \in Exchanges \ {x} : exchange'[z] = exchange[z]
    BY <1>b, <2>1
  <2> QED
    BY <1>a, <2>2, <2>3, <2>4, <2>5 DEF e
<1>3. ASSUME NEW x \in Exchanges, Discard(x) PROVE ReadableInv'
  <2>1. UNCHANGED <<life, exchange>> /\ \A z \in Exchanges : Used(z)' => Used(z)
    BY <1>3, <1>b DEF Discard, Used, startVars
  <2> QED
    BY <1>a, <2>1
<1>4. CASE BeginShutdown
  <2>1. UNCHANGED <<life, exchange>> /\ \A z \in Exchanges : Used(z)' => Used(z)
    BY <1>4 DEF BeginShutdown, Used, startVars
  <2> QED
    BY <1>a, <2>1
\* At the end of the process there is nothing to show.
<1>5. ASSUME life' = "exited" PROVE ReadableInv'
  BY <1>5 DEF ReadableInv
<1>6. CASE ChecksFailed \/ KilledEarly \/ SecondSignal \/ TimerFires \/ FinishShutdown
           \/ \E x \in Exchanges, r \in Requests : ArriveUnreadable(x, r)
  BY <1>5, <1>6 DEF ChecksFailed, KilledEarly, SecondSignal, TimerFires, FinishShutdown,
                    ArriveUnreadable, Exit
<1>7. ASSUME UNCHANGED webVars, life = "exited" => life' = "exited" PROVE ReadableInv'
  BY <1>7 DEF ReadableInv, Used, webVars
<1>8. CASE LoadConfiguration \/ RunCheck \/ Listen \/ HealthCheck \/ UNCHANGED vars
  BY <1>7, <1>8 DEF LoadConfiguration, RunCheck, Listen, HealthCheck, vars, startVars, webVars
<1>9. ASSUME NEW x \in Exchanges, Work(x) PROVE ReadableInv'
  BY <1>7, <1>9 DEF Work, startVars
<1> QED
  BY <1>1, <1>2, <1>3, <1>4, <1>6, <1>8, <1>9 DEF Next, Serve, Start

LEMMA ExchangesAreProper ==
    ExchangeInv /\ ReadableInv => AnsweredOnce /\ OnlyGenuineUpdatesAreHandled
<1> SUFFICES ASSUME ExchangeInv, ReadableInv
             PROVE  AnsweredOnce /\ OnlyGenuineUpdatesAreHandled
  OBVIOUS
<1>1. AnsweredOnce
  <2> SUFFICES ASSUME NEW x \in Exchanges, Used(x)
               PROVE  /\ Len(exchange[x].answers) <= 1
                      /\ Open(x) /\ ~exchange[x].reading =>
                            Len(exchange[x].answers) = 1 \/ EndedProcess(x)
    BY DEF AnsweredOnce
  <2>1. Proper(exchange[x], connection[x], config)
    BY DEF ExchangeInv
  <2>2. Len(<<413>>) = 1 /\ Len(<<>>) = 0
    OBVIOUS
  <2>3. \/ Len(exchange[x].answers) = 1
        \/ /\ exchange[x].answers = <<>>
           /\ Open(x) /\ ~exchange[x].reading => EndedProcess(x)
    BY <2>1, <2>2 DEF Proper, ReadableInv, EndedProcess, Open
  <2>4. CASE Len(exchange[x].answers) = 1
    BY <2>4
  <2>5. CASE /\ exchange[x].answers = <<>>
             /\ Open(x) /\ ~exchange[x].reading => EndedProcess(x)
    BY <2>2, <2>5
  <2> QED
    BY <2>3, <2>4, <2>5
<1>2. OnlyGenuineUpdatesAreHandled
  BY DEF ExchangeInv, Proper, Genuine, Admitted, OnlyGenuineUpdatesAreHandled
<1> QED
  BY <1>1, <1>2

-----------------------------------------------------------------------------
(* The work behind a delivery. *)

\* What the parser made of the delivery that was handed over.
Parsed(e) ==
    IF e.handed # <<>> /\ e.request.path = "instagram"
    THEN Range(Messages(e.request.body))
    ELSE {}

RedirectInv ==
    /\ stage = [x \in Exchanges |-> stage[x]] /\ work = [x \in Exchanges |-> work[x]]
    /\ \A x \in Exchanges :
          /\ ~Used(x) => stage[x] = "idle" /\ work[x] = <<>>
          /\ Used(x) => work[x] \in Seq(Parsed(exchange[x]))
          /\ stage[x] # "idle" => work[x] # <<>>
    /\ \A lead \in leads :
          \E x \in Exchanges : /\ Used(x)
                               /\ \E m \in Parsed(exchange[x]) : lead = m.messageId

LEMMA SuffixesProperties ==
    ASSUME NEW S, NEW s \in Seq(S), NEW rest \in Suffixes(s)
    PROVE  rest \in Seq(S) /\ (rest # <<>> => rest[1] \in S)
<1>1. rest \in Seq(S)
  <2>1. CASE rest = <<>>
    BY <2>1
  <2>2. CASE rest # <<>>
    <3>1. PICK l \in 1..Len(s) : rest = SubSeq(s, l, Len(s))
      BY <2>2 DEF Suffixes
    <3>2. l \in Int /\ Len(s) \in Int /\ \A i \in l..Len(s) : s[i] \in S
      BY <3>1
    <3> QED
      BY <3>1, <3>2, SubSeqProperties
  <2> QED
    BY <2>1, <2>2
<1>2. rest # <<>> => rest[1] \in S
  BY <1>1
<1> QED
  BY <1>1, <1>2

\* What was handed over stays known.
LEMMA ExchangesStay ==
    ASSUME ExchangeInv, [Next]_vars, NEW z \in Exchanges, Used(z)
    PROVE  Used(z)' /\ Parsed(exchange[z]) \subseteq Parsed(exchange'[z])
<1>0. /\ connection \in [Exchanges -> {"unused", "active", "idle", "closed"}]
      /\ exchange = [y \in Exchanges |-> exchange[y]] /\ DOMAIN exchange = Exchanges
      /\ connection[z] # "unused" /\ Proper(exchange[z], connection[z], config)
  BY DEF ExchangeInv, Used
<1>a. ASSUME connection'[z] # "unused",
             \/ exchange'[z] = exchange[z]
             \/ exchange[z].handed = <<>>
             \/ exchange'[z].handed = exchange[z].handed /\ exchange'[z].request = exchange[z].request
      PROVE  Used(z)' /\ Parsed(exchange[z]) \subseteq Parsed(exchange'[z])
  BY <1>a DEF Used, Parsed
<1>b. exchange[z].reading => exchange[z].handed = <<>>
  BY <1>0 DEF Proper
<1>1. ASSUME NEW x \in Exchanges, NEW r \in Requests, Arrive(x, r)
      PROVE  connection'[z] # "unused" /\ exchange'[z] = exchange[z]
  BY <1>0, <1>1 DEF Arrive, Connect
<1>10. ASSUME NEW x \in Exchanges, NEW r \in Requests, ArriveUnreadable(x, r)
       PROVE  connection'[z] # "unused" /\ exchange'[z] = exchange[z]
  BY <1>0, <1>10 DEF ArriveUnreadable, Connect
<1>2. ASSUME NEW x \in Exchanges, Data(x) \/ End(x)
      PROVE  connection'[z] # "unused" /\ (exchange'[z] = exchange[z] \/ exchange[z].handed = <<>>)
  BY <1>0, <1>2, <1>b DEF Data, End
<1>3. ASSUME NEW x \in Exchanges, Discard(x)
      PROVE  connection'[z] # "unused" /\ exchange'[z] = exchange[z]
  BY <1>0, <1>3 DEF Discard
<1>4. ASSUME NEW x \in Exchanges, Disconnect(x)
      PROVE  /\ connection'[z] # "unused"
             /\ exchange'[z].handed = exchange[z].handed /\ exchange'[z].request = exchange[z].request
  <2>1. exchange'[z] = exchange[z] \/ exchange'[z] = [exchange[z] EXCEPT !.reading = FALSE]
    BY <1>0, <1>4 DEF Disconnect
  <2>2. exchange[z] \in ExchangeRecord
    BY <1>0 DEF Proper
  <2> QED
    BY <1>0, <1>4, <2>1, <2>2 DEF Disconnect, ExchangeRecord
<1>5. CASE BeginShutdown
  BY <1>0, <1>5, <1>a DEF BeginShutdown
<1>6. ASSUME UNCHANGED webVars
      PROVE  connection'[z] # "unused" /\ exchange'[z] = exchange[z]
  BY <1>0, <1>6 DEF webVars
<1>7. CASE Start \/ HealthCheck \/ KilledEarly \/ SecondSignal \/ TimerFires \/ FinishShutdown
  BY <1>6, <1>7, <1>a DEF Start, LoadConfiguration, RunCheck, ChecksFailed, Listen, HealthCheck,
                    KilledEarly, SecondSignal, TimerFires, FinishShutdown
<1>8. ASSUME NEW x \in Exchanges, Work(x)
      PROVE  connection'[z] # "unused" /\ exchange'[z] = exchange[z]
  BY <1>6, <1>8 DEF Work
<1>9. CASE UNCHANGED vars
  BY <1>6, <1>9, <1>a DEF vars
<1> QED
  BY <1>1, <1>10, <1>2, <1>3, <1>4, <1>5, <1>7, <1>8, <1>9, <1>a DEF Next, Serve

LEMMA TailProperties ==
    ASSUME NEW S, NEW s \in Seq(S), s # <<>> PROVE Tail(s) \in Seq(S)
OBVIOUS

LEMMA LongerLists ==
    ASSUME NEW S, NEW T, S \subseteq T, NEW s \in Seq(S) PROVE s \in Seq(T)
OBVIOUS

\* Where nothing moves, all stays true.
LEMMA RedirectStays ==
    ASSUME RedirectInv, ExchangeInv, [Next]_vars, NEW z \in Exchanges,
           work'[z] = work[z], stage'[z] = stage[z], Used(z) => Used(z)'
    PROVE  /\ ~Used(z)' => stage'[z] = "idle" /\ work'[z] = <<>>
           /\ Used(z)' => work'[z] \in Seq(Parsed(exchange'[z]))
           /\ stage'[z] # "idle" => work'[z] # <<>>
<1>1. CASE Used(z)
  <2> DEFINE S == Parsed(exchange[z])
             T == Parsed(exchange'[z])
  <2>1. S \subseteq T
    BY <1>1, ExchangesStay
  <2>2. work[z] \in Seq(S) /\ (stage[z] # "idle" => work[z] # <<>>)
    BY <1>1 DEF RedirectInv
  <2> HIDE DEF S, T
  <2>3. work[z] \in Seq(T)
    BY <2>1, <2>2, LongerLists
  <2> QED
    BY <1>1, <2>2, <2>3 DEF T
<1>2. CASE ~Used(z)
  <2>1. work[z] = <<>> /\ stage[z] = "idle"
    BY <1>2 DEF RedirectInv
  <2>2. <<>> \in Seq(Parsed(exchange'[z]))
    OBVIOUS
  <2> QED
    BY <2>1, <2>2
<1> QED
  BY <1>1, <1>2

LEMMA LeadsStay ==
    ASSUME RedirectInv, ExchangeInv, [Next]_vars, NEW lead \in leads
    PROVE  \E z \in Exchanges : Used(z)' /\ \E m \in Parsed(exchange'[z]) : lead = m.messageId
<1>1. PICK z \in Exchanges : Used(z) /\ \E m \in Parsed(exchange[z]) : lead = m.messageId
  BY DEF RedirectInv
<1> QED
  BY <1>1, ExchangesStay

\* Taking up what is left of the messages, of which the parser made all.
LEMMA TakesUp ==
    ASSUME RedirectInv, ExchangeInv, [Next]_vars, NEW x \in Exchanges, Used(x),
           NEW messages \in Seq(Parsed(exchange'[x])), TakeUp(x, messages)
    PROVE  RedirectInv'
<1>0. \A z \in Exchanges : Used(z) => Used(z)' /\ Parsed(exchange[z]) \subseteq Parsed(exchange'[z])
  BY ExchangesStay
<1>1. PICK rest \in Suffixes(messages) :
         /\ work' = [work EXCEPT ![x] = rest]
         /\ stage' = [stage EXCEPT ![x] = IF rest = <<>> THEN "idle" ELSE "reply"]
         /\ leads' = IF rest = <<>> THEN leads ELSE leads \cup {rest[1].messageId}
  BY DEF TakeUp
<1>2. rest \in Seq(Parsed(exchange'[x])) /\ (rest # <<>> => rest[1] \in Parsed(exchange'[x]))
  BY <1>1, SuffixesProperties
<1>3. /\ stage' = [z \in Exchanges |-> stage'[z]] /\ work' = [z \in Exchanges |-> work'[z]]
      /\ \A z \in Exchanges \ {x} : work'[z] = work[z] /\ stage'[z] = stage[z]
      /\ work'[x] = rest /\ (stage'[x] # "idle" => rest # <<>>)
  BY <1>1 DEF RedirectInv
<1>4. ASSUME NEW z \in Exchanges
      PROVE  /\ ~Used(z)' => stage'[z] = "idle" /\ work'[z] = <<>>
             /\ Used(z)' => work'[z] \in Seq(Parsed(exchange'[z]))
             /\ stage'[z] # "idle" => work'[z] # <<>>
  <2>1. CASE z = x
    BY <1>0, <1>2, <1>3, <2>1
  <2>2. CASE z # x
    BY <1>0, <1>3, <2>2, RedirectStays
  <2> QED
    BY <2>1, <2>2
<1>5. ASSUME NEW lead \in leads'
      PROVE  \E z \in Exchanges : Used(z)' /\ \E m \in Parsed(exchange'[z]) : lead = m.messageId
  <2>1. CASE lead \in leads
    BY <2>1, LeadsStay
  <2>2. CASE lead \notin leads
    <3>1. rest # <<>> /\ lead = rest[1].messageId
      BY <1>1, <1>5, <2>2
    <3> QED
      BY <1>0, <1>2, <3>1
  <2> QED
    BY <2>1, <2>2
<1> QED
  BY <1>3, <1>4, <1>5 DEF RedirectInv

LEMMA RedirectBegins == Init => RedirectInv
<1> SUFFICES ASSUME Init PROVE RedirectInv
  OBVIOUS
<1>1. /\ stage = [x \in Exchanges |-> "idle"] /\ work = [x \in Exchanges |-> <<>>]
      /\ leads = {} /\ \A x \in Exchanges : ~Used(x)
  BY DEF Init, RedirectInit, Used
<1> QED
  BY <1>1 DEF RedirectInv

LEMMA RedirectStep == RedirectInv /\ ExchangeInv /\ [Next]_vars => RedirectInv'
<1> SUFFICES ASSUME RedirectInv, ExchangeInv, [Next]_vars PROVE RedirectInv'
  OBVIOUS
<1>0. \A z \in Exchanges : Used(z) => Used(z)'
  BY ExchangesStay
<1>a. ASSUME UNCHANGED <<stage, work, leads>> PROVE RedirectInv'
  <2>1. \A z \in Exchanges :
           /\ ~Used(z)' => stage'[z] = "idle" /\ work'[z] = <<>>
           /\ Used(z)' => work'[z] \in Seq(Parsed(exchange'[z]))
           /\ stage'[z] # "idle" => work'[z] # <<>>
    BY <1>0, <1>a, RedirectStays
  <2>2. \A lead \in leads :
           \E z \in Exchanges : Used(z)' /\ \E m \in Parsed(exchange'[z]) : lead = m.messageId
    BY LeadsStay
  <2> QED
    BY <1>a, <2>1, <2>2 DEF RedirectInv
<1>1. ASSUME NEW x \in Exchanges, End(x) PROVE RedirectInv'
  <2> DEFINE e == exchange[x]
  <2>1. /\ Used(x) /\ Proper(e, connection[x], config) /\ e.reading
        /\ \/ connection[x] = "active" /\ e.received = e.request.size
           \/ e.rejectedForSize
        /\ exchange'[x] = OnEnd(e)
    BY <1>1 DEF End, ExchangeInv, Used
  <2>2. CASE exchange'[x].handed # <<>> /\ e.request.path = "instagram"
    <3>1. TakeUp(x, Messages(e.request.body))
      BY <1>1, <2>2 DEF End
    <3> DEFINE done == OnEnd(e)
    <3>a. \E c : Proper(done, c, config)
      BY <2>1, EndIsProper
    <3>b. exchange'[x] = done /\ done.request = e.request /\ done.handed # <<>>
      BY <2>1, <2>2, EndIsProper
    <3> HIDE DEF done
    <3>c. Genuine(done, config)
      BY <3>a, <3>b DEF Proper
    <3>2. /\ exchange'[x].request = e.request /\ e.request \in Requests
          /\ e.request.body # Garbage /\ e.request.method = "POST"
          /\ e.request.credential = [key |-> AppSecret, over |-> e.request.body]
      BY <2>1, <2>2, <3>b, <3>c DEF Genuine, Admitted, Proper, ExchangeRecord
    <3>3. IsDelivery(e.request.body)
      BY <2>2, <3>2, RequestsAssumption
    <3>4. Parsed(exchange'[x]) = Range(Messages(e.request.body))
      BY <2>2, <3>2 DEF Parsed
    <3>5. Messages(e.request.body) \in Seq(Parsed(exchange'[x]))
      BY <3>3, <3>4, ParsedMessages
    <3> QED
      BY <2>1, <3>1, <3>5, TakesUp
  <2>3. CASE ~(exchange'[x].handed # <<>> /\ e.request.path = "instagram")
    BY <1>1, <1>a, <2>3 DEF End, redirectVars
  <2> QED
    BY <2>2, <2>3
<1>2. ASSUME NEW x \in Exchanges, Work(x) PROVE RedirectInv'
  <2>0. stage[x] # "idle" /\ UNCHANGED exchange
    BY <1>2 DEF Work, SendRedirect, describeInstagramCustomer, notifyManagerOfInstagramLead, webVars
  <2>1. Used(x) /\ work[x] # <<>> /\ work[x] \in Seq(Parsed(exchange'[x]))
    BY <2>0 DEF RedirectInv
  <2>2. CASE notifyManagerOfInstagramLead(x)
    <3>1. Tail(work[x]) \in Seq(Parsed(exchange'[x]))
      BY <2>1, TailProperties
    <3> QED
      BY <2>1, <2>2, <3>1, TakesUp DEF notifyManagerOfInstagramLead
  <2>3. CASE SendRedirect(x) \/ describeInstagramCustomer(x)
    <3>1. PICK s \in {"profile", "notify"} :
             stage' = [stage EXCEPT ![x] = s] /\ UNCHANGED <<work, leads>>
      BY <2>3 DEF SendRedirect, describeInstagramCustomer
    <3>2. /\ stage' = [z \in Exchanges |-> stage'[z]] /\ work' = [z \in Exchanges |-> work'[z]]
          /\ \A z \in Exchanges \ {x} : work'[z] = work[z] /\ stage'[z] = stage[z]
          /\ work'[x] = work[x]
      BY <3>1 DEF RedirectInv
    <3>3. ASSUME NEW z \in Exchanges
          PROVE  /\ ~Used(z)' => stage'[z] = "idle" /\ work'[z] = <<>>
                 /\ Used(z)' => work'[z] \in Seq(Parsed(exchange'[z]))
                 /\ stage'[z] # "idle" => work'[z] # <<>>
      <4>1. CASE z = x
        BY <1>0, <2>1, <3>2, <4>1
      <4>2. CASE z # x
        BY <1>0, <3>2, <4>2, RedirectStays
      <4> QED
        BY <4>1, <4>2
    <3>4. \A lead \in leads :
             \E z \in Exchanges : Used(z)' /\ \E m \in Parsed(exchange'[z]) : lead = m.messageId
      BY LeadsStay
    <3> QED
      BY <3>1, <3>2, <3>3, <3>4 DEF RedirectInv
  <2> QED
    BY <1>2, <2>2, <2>3 DEF Work
<1>3. ASSUME NEW x \in Exchanges, NEW r \in Requests, Arrive(x, r) PROVE RedirectInv'
  BY <1>3, <1>a DEF Arrive, redirectVars
<1>7. ASSUME NEW x \in Exchanges, NEW r \in Requests, ArriveUnreadable(x, r) PROVE RedirectInv'
  BY <1>7, <1>a DEF ArriveUnreadable, redirectVars
<1>4. ASSUME NEW x \in Exchanges, Data(x) \/ Discard(x) \/ Disconnect(x) PROVE RedirectInv'
  BY <1>4, <1>a DEF Data, Discard, Disconnect, redirectVars
<1>5. CASE Start \/ HealthCheck \/ KilledEarly \/ BeginShutdown \/ SecondSignal
              \/ TimerFires \/ FinishShutdown
  BY <1>5, <1>a DEF Start, LoadConfiguration, RunCheck, ChecksFailed, Listen, HealthCheck,
                    KilledEarly, BeginShutdown, SecondSignal, TimerFires, FinishShutdown, redirectVars
<1>6. CASE UNCHANGED vars
  BY <1>6, <1>a DEF vars, redirectVars
<1> QED
  BY <1>1, <1>2, <1>3, <1>4, <1>5, <1>6, <1>7 DEF Next, Serve

LEMMA LeadsAreCustomers ==
    ExchangeInv /\ RedirectInv => OnlyCustomersAreRedirected
<1> SUFFICES ASSUME ExchangeInv, RedirectInv, NEW lead \in leads
             PROVE  \E x \in Exchanges :
                       /\ Used(x) /\ exchange[x].handed # <<>>
                       /\ \E entry \in Range(exchange[x].request.body) :
                             /\ "messaging" \in DOMAIN entry
                             /\ \E event \in Range(entry["messaging"]) :
                                   /\ "message" \in DOMAIN event
                                   /\ lead = <<event["sender"], event["message"]["mid"]>>
                                   /\ WrittenByCustomer(event["message"])
  BY DEF OnlyCustomersAreRedirected
<1>1. PICK x \in Exchanges : Used(x) /\ \E m \in Parsed(exchange[x]) : lead = m.messageId
  BY DEF RedirectInv
<1> DEFINE r == exchange[x].request
<1>2. PICK m \in Range(Messages(r.body)) : lead = m.messageId
  BY <1>1 DEF Parsed
<1>3. exchange[x].handed # <<>> /\ r.path = "instagram"
  BY <1>1 DEF Parsed
<1>4. /\ r \in Requests /\ r.method = "POST" /\ r.body # Garbage
      /\ r.credential = [key |-> AppSecret, over |-> r.body]
  BY <1>1, <1>3 DEF ExchangeInv, Proper, Genuine, Admitted, ExchangeRecord
<1>5. PICK event \in Events(r.body) : Wrote(event, lead)
  <2>1. IsDelivery(r.body)
    BY <1>3, <1>4, RequestsAssumption
  <2> QED
    BY <1>2, <2>1, ParsedMessages
<1>6. PICK entry \in Range(r.body) : "messaging" \in DOMAIN entry /\ event \in Range(entry["messaging"])
  BY DEF Events
<1> QED
  BY <1>1, <1>3, <1>5, <1>6 DEF Wrote

LEMMA WordsAreKnown == ExchangeInv => WordsAreKept
<1> SUFFICES ASSUME ExchangeInv, NEW x \in Exchanges,
                    Used(x), exchange[x].handed # <<>>, exchange[x].request.path = "telegram"
             PROVE  LET update == exchange[x].request.body IN
                    \A field \in Range(Telegram!MessageFields) \cap DOMAIN update :
                    \A words \in {"text", "caption"} \cap DOMAIN update[field] :
                       LET result == Telegram!parseUpdate(update) IN
                       /\ result.kind = "message"
                       /\ result.message.payload.text = update[field][words]
  BY DEF WordsAreKept
<1> DEFINE r == exchange[x].request
<1>1. r \in Requests /\ r.method = "POST" /\ r.body # Garbage
  BY DEF ExchangeInv, Proper, Genuine, Admitted, ExchangeRecord
<1>2. IsUpdate(r.body)
  BY <1>1, RequestsAssumption
<1> QED
  BY <1>2, WordsAreRead

\* Every request is answered once, but the one whose target ends the process, and
\* only what is whole, genuine and written by a customer gets through, with its
\* words, for any requests and any number of clients that stop and go away as
\* they like.
THEOREM WebhooksKeepTheirContract == Spec => []WebhookContract
<1> DEFINE Inv == ExchangeInv /\ ReadableInv /\ RedirectInv
<1>1. Init => Inv
  BY ExchangesBegin, RedirectBegins
<1>2. Inv /\ [Next]_vars => Inv'
  BY ExchangeStep, ReadableStep, RedirectStep
<1>3. Inv => WebhookContract
  BY ExchangesAreProper, LeadsAreCustomers, WordsAreKnown DEF WebhookContract
<1> HIDE DEF Inv
<1> QED
  BY <1>1, <1>2, <1>3, PTL DEF Spec
====

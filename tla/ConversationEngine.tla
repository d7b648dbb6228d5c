-------------------------- MODULE ConversationEngine --------------------------
(***************************************************************************)
(* handleMessages of ConversationEngine.ts for one customer: one batch at  *)
(* a time, which is what Dispatch guarantees, and one action for the code  *)
(* between two awaits.  Everything the call awaits can fail, and the       *)
(* process can die in between.                                             *)
(*                                                                         *)
(* A batch is what its texts, files and cards amount to.  A card is a      *)
(* shared contact or location: its text is a sign and digits, no words.    *)
(* Of a text only the origin is modelled.                                  *)
(***************************************************************************)
EXTENDS ConversationStore, KnowledgeLoader, HallucinationGuardrail

CONSTANTS Batches,          \* the batches the debouncer can hand over
          KnowledgeBase,    \* the text of each of the Contents of the knowledge base
          Replies,          \* the replies the model can give
          DefaultLanguage,  \* what detectLanguage returns for a text without words
          MaxHistoryTurns,  \* MAX_HISTORY_TURNS
          MaxAttachments,   \* MAX_ATTACHMENTS_PER_TURN
          Faults,           \* the calls that can fail
          MaxClock          \* bound on the clock

Batch == [text : {"none", "card", "words", "b2b"}, language : Languages,
          media : Nat, phone : BOOLEAN, location : BOOLEAN]

\* What generateReply returns: "escalate" says that [ESCALATE] is at its end.
\* What the program cannot see are the knowledge bases by which every price in
\* the text is "right", and those which back it as far as the program can read
\* what the price is for.
Reply == [truncated : BOOLEAN, escalate : BOOLEAN, language : Languages,
          text : {r.text : r \in Replies}, right : SUBSET Contents, backedBy : SUBSET Contents]

\* The calls whose failure makes a difference: that of the forwarding makes none.
Calls == {"recordContact", "get", "sendTyping", "downloadMedia", "getKnowledgeBaseText",
          "getSystemPromptText", "generateReply", "sendReply", "notifyManager", "save"}

ASSUME EngineAssumption ==
    /\ Batches \subseteq Batch /\ Batches # {}
    /\ \A b \in Batches : b.phone \/ b.location => b.text # "none"
    /\ Replies \subseteq Reply
    /\ DefaultLanguage \in Languages
    /\ MaxHistoryTurns \in Nat /\ MaxHistoryTurns % 2 = 0
    /\ MaxAttachments \in Nat \ {0}
    /\ Faults \subseteq Calls
    /\ MaxClock \in Nat

VARIABLES pc,    \* the call handleMessages awaits, "idle" between batches
          turn   \* its local variables

\* History the program does not keep.
VARIABLES calls,    \* how many batches have been started
          heard,    \* the batches whose reply reached the customer whole
          owed,     \* the customer of the last batch was told that a human takes over,
                    \* and the notification is still "owed" or was "lost"; else "no"
          crashed,  \* has a crash cut the last batch short?
          told      \* what the customer has told in the saved turns

historyVars == <<calls, heard, owed, crashed, told>>
vars == <<rowVars, loaderVars, clock, pc, turn, historyVars>>

\* What the customer is answered: a fallback message, or what the model said.
Answers == [kind : {"mediaFallback", "mediaUnreadable", "unverifiedNumber", "b2bEscalation",
                    "technicalHiccup", "model"},
            checked : BOOLEAN, inVain : BOOLEAN]

Fallback(name) == [kind |-> name, checked |-> TRUE, inVain |-> FALSE]

Reasons == {"none", "state_store_unavailable", "b2b_signal_detected", "media_unreadable",
            "llm_unavailable", "truncated_reply", "unverified_numbers_in_reply",
            "llm_judged_escalation"}

Locals == [batch : Batches, now : Nat, language : Languages,
           state : ConversationState \cup {NoRow}, phone : Source, location : Source,
           attached : 0..MaxAttachments, knowledge : Contents, answer : Answers, reason : Reasons]

\* Before the first batch and between batches there are no locals.
NoTurn == [batch |-> CHOOSE b \in Batches : TRUE, now |-> 0, language |-> DefaultLanguage,
           state |-> NoRow, phone |-> 0, location |-> 0, attached |-> 0,
           knowledge |-> CHOOSE k \in Contents : TRUE, answer |-> Fallback("technicalHiccup"), reason |-> "none"]

Nothing == [at |-> -Ttl, phone |-> 0, location |-> 0, language |-> "none"]

TypeOK ==
    /\ RowsTypeOK
    /\ LoaderTypeOK
    /\ pc \in {"idle", "recordContact", "get", "mediaTyping", "downloadMedia", "typing",
               "generateReply", "sendReply", "notify", "forward", "save"}
    /\ turn \in Locals
    /\ calls \in 0..MaxCalls
    /\ heard \subseteq 1..MaxCalls
    /\ owed \in {"no", "owed", "lost"}
    /\ crashed \in BOOLEAN
    /\ told \in [at : Int, phone : Source, location : Source, language : Languages \cup {"none"}]

Init ==
    /\ RowsInit
    /\ LoaderInit
    /\ pc = "idle"
    /\ turn = NoTurn
    /\ calls = 0
    /\ heard = {}
    /\ owed = "no"
    /\ crashed = FALSE
    /\ told = Nothing

-----------------------------------------------------------------------------
HasText(b) == b.text # "none"

\* Only Telegram messages reach the engine, and there files can be read.
CanReadMedia(b) == b.media > 0

DetectLanguage(b) == IF b.text \in {"words", "b2b"} THEN b.language ELSE DefaultLanguage

\* Locals change, the await changes, and nothing else does.
Await(where, locals) ==
    /\ pc' = where
    /\ turn' = locals
    /\ UNCHANGED <<rowVars, loaderVars, clock, historyVars>>

\* handleMessages resolves or rejects.
End ==
    /\ pc' = "idle"
    /\ turn' = NoTurn
    /\ UNCHANGED <<rowVars, clock>>

\* The exception is not caught: handleMessages rejects.
Reject == End /\ UNCHANGED <<loaderVars, historyVars>>

Answer(locals, name, why) ==
    Await("sendReply", [locals EXCEPT !.answer = Fallback(name), !.reason = why])

\* What the call starts with, up to recordContact.
Start(b) ==
    /\ pc = "idle"
    /\ calls < MaxCalls
    /\ calls' = calls + 1
    /\ owed' = "no"
    /\ crashed' = FALSE
    /\ pc' = "recordContact"
    /\ turn' = [NoTurn EXCEPT !.batch = b, !.now = clock, !.language = DetectLanguage(b),
                              !.phone = IF b.phone THEN calls + 1 ELSE 0,
                              !.location = IF b.location THEN calls + 1 ELSE 0]
    /\ UNCHANGED <<rowVars, loaderVars, clock, heard, told>>

\* Mutant of RecordContactFails: the engine goes on without a contact.
RecordContactIgnored ==
    /\ pc = "recordContact"
    /\ "recordContact" \in Faults
    /\ Await("get", turn)

RecordContactFails ==
    /\ pc = "recordContact"
    /\ "recordContact" \in Faults
    /\ Answer(turn, "technicalHiccup", "state_store_unavailable")

\* A batch with nothing to read is answered at once.
ContactRecorded ==
    /\ pc = "recordContact"
    /\ RecordContact(turn.now)
    /\ IF HasText(turn.batch) \/ CanReadMedia(turn.batch)
       THEN pc' = "get" /\ UNCHANGED turn
       ELSE /\ pc' = "sendReply"
            /\ turn' = [turn EXCEPT !.answer = Fallback("mediaFallback")]
    /\ UNCHANGED <<conversation, loaderVars, clock, historyVars>>

GetFails ==
    /\ pc = "get"
    /\ "get" \in Faults
    /\ Answer(turn, "technicalHiccup", "state_store_unavailable")

\* The branch once the files are there, or one of them is not.
Decide(locals, mediaFailed) ==
    \/ /\ locals.batch.text = "b2b"
       /\ Answer(locals, "b2bEscalation", "b2b_signal_detected")
    \/ /\ locals.batch.text # "b2b"
       /\ mediaFailed
       /\ Answer(locals, "mediaUnreadable", "media_unreadable")
    \/ /\ locals.batch.text # "b2b"
       /\ ~mediaFailed
       /\ Await("typing", locals)

\* Mutant of Recall: the order draft of this batch only.
RecallHistoryOnly(row) ==
    [turn EXCEPT !.state = row,
                 !.language = IF HasText(turn.batch) \/ row = NoRow THEN @ ELSE row.language]

\* What the stored state adds to the locals.
Recall(row) ==
    IF row = NoRow THEN turn
    ELSE [turn EXCEPT !.state = row,
                      !.language = IF HasText(turn.batch) THEN @ ELSE row.language,
                      !.phone = IF turn.batch.phone THEN @ ELSE row.phone,
                      !.location = IF turn.batch.location THEN @ ELSE row.location]

StateRead ==
    /\ pc = "get"
    /\ IF CanReadMedia(turn.batch)
       THEN Await("mediaTyping", Recall(Live(turn.now)))
       ELSE Decide(Recall(Live(turn.now)), FALSE)

MediaTyping ==
    /\ pc = "mediaTyping"
    /\ \/ Await("downloadMedia", turn)
       \/ "sendTyping" \in Faults /\ Reject

\* Mutant of DownloadFails: the file is asked for again, without a limit.
DownloadRetries ==
    /\ pc = "downloadMedia"
    /\ "downloadMedia" \in Faults
    /\ Await("mediaTyping", turn)

\* One file is enough to give up the batch.
DownloadFails ==
    /\ pc = "downloadMedia"
    /\ "downloadMedia" \in Faults
    /\ Decide(turn, TRUE)

\* Mutant of Downloaded: one file more than the limit.
DownloadedOneMore ==
    LET locals == [turn EXCEPT !.attached = @ + 1] IN
    /\ pc = "downloadMedia"
    /\ IF locals.attached <= MaxAttachments /\ locals.attached < turn.batch.media
       THEN Await("downloadMedia", locals)
       ELSE Decide(locals, FALSE)

Downloaded ==
    LET locals == [turn EXCEPT !.attached = @ + 1] IN
    /\ pc = "downloadMedia"
    /\ IF locals.attached < MaxAttachments /\ locals.attached < turn.batch.media
       THEN Await("downloadMedia", locals)
       ELSE Decide(locals, FALSE)

\* The knowledge base and then the prompt are read synchronously, outside any
\* try.  Only what is not cached can fail to be read.
Typing ==
    /\ pc = "typing"
    /\ \/ /\ cache' = loadKnowledgeBase(clock)
          /\ UNCHANGED files
          /\ \/ /\ pc' = "generateReply"
                /\ turn' = [turn EXCEPT !.knowledge = cache'.text]
                /\ UNCHANGED <<rowVars, clock>>
             \/ "getSystemPromptText" \in Faults /\ End
          /\ UNCHANGED historyVars
       \/ "getKnowledgeBaseText" \in Faults /\ ~CacheHit(clock) /\ Reject
       \/ "sendTyping" \in Faults /\ Reject

GenerateFails ==
    /\ pc = "generateReply"
    /\ "generateReply" \in Faults
    /\ Answer([turn EXCEPT !.knowledge = NoTurn.knowledge], "technicalHiccup", "llm_unavailable")

Said(r) == [kind |-> "model", checked |-> ~r.truncated /\ turn.knowledge \in r.backedBy,
            inVain |-> FALSE]

\* The replies with the verdict on their text: of the text nothing else matters
\* to the engine, and it depends on nothing that changes.
Checked(r) ==
    [truncated |-> r.truncated, escalate |-> r.escalate, language |-> r.language,
     right |-> r.right, backedBy |-> r.backedBy,
     safe |-> {k \in Contents : checkForUnverifiedNumbers(r.text, KnowledgeBase[k])}]
CheckedReplies == {Checked(r) : r \in Replies}

Verified(r) == turn.knowledge \in r.safe

Withhold(locals, r) ==
    LET answer == [Fallback("unverifiedNumber") EXCEPT !.inVain = turn.knowledge \in r.right] IN
    Await("sendReply", [locals EXCEPT !.answer = answer, !.reason = "unverified_numbers_in_reply"])

\* Mutant of Judge: the model's own escalation is looked at first.
JudgeMarkerFirst(locals, r) ==
    \/ /\ r.escalate
       /\ Await("sendReply", [locals EXCEPT !.answer = Said(r), !.reason = "llm_judged_escalation"])
    \/ /\ ~r.escalate /\ r.truncated
       /\ Answer(locals, "technicalHiccup", "truncated_reply")
    \/ /\ ~r.escalate /\ ~r.truncated /\ ~Verified(r)
       /\ Withhold(locals, r)
    \/ /\ ~r.escalate /\ ~r.truncated /\ Verified(r)
       /\ Await("sendReply", [locals EXCEPT !.answer = Said(r)])

\* What becomes of the model's reply.
Judge(locals, r) ==
    \/ /\ r.truncated
       /\ Answer(locals, "technicalHiccup", "truncated_reply")
    \/ /\ ~r.truncated /\ ~Verified(r)
       /\ Withhold(locals, r)
    \/ /\ ~r.truncated /\ Verified(r)
       /\ Await("sendReply", [locals EXCEPT !.answer = Said(r),
                                            !.reason = IF r.escalate THEN "llm_judged_escalation"
                                                       ELSE "none"])

Generated(r) ==
    /\ pc = "generateReply"
    /\ Judge([turn EXCEPT !.language = IF HasText(turn.batch) THEN @ ELSE r.language,
                          !.knowledge = NoTurn.knowledge], r)

\* Where a call that is not going to save its turn ends.
EndsHere == turn.answer.kind = "mediaFallback" \/ turn.reason = "state_store_unavailable"

\* Mutant of Replied: it returns from the store failure before the manager is
\* notified.
RepliedAndGone ==
    /\ pc = "sendReply"
    /\ heard' = heard \cup {calls}
    /\ owed' = IF turn.reason # "none" THEN "owed" ELSE "no"
    /\ UNCHANGED <<loaderVars, calls, crashed, told>>
    /\ IF EndsHere THEN End
       ELSE /\ pc' = IF turn.reason # "none" THEN "notify" ELSE "save"
            /\ UNCHANGED <<rowVars, clock, turn>>

\* The customer has the whole reply.
Replied ==
    /\ pc = "sendReply"
    /\ heard' = heard \cup {calls}
    /\ owed' = IF turn.reason # "none" THEN "owed" ELSE "no"
    /\ UNCHANGED <<loaderVars, calls, crashed, told>>
    /\ IF turn.reason # "none" THEN pc' = "notify" /\ UNCHANGED <<rowVars, clock, turn>>
       ELSE IF EndsHere THEN End
       ELSE pc' = "save" /\ UNCHANGED <<rowVars, clock, turn>>

\* Mutant of ReplyFails: a reply that could not be sent is only logged.
ReplyFailureIgnored ==
    /\ pc = "sendReply"
    /\ "sendReply" \in Faults
    /\ ~EndsHere
    /\ Await("save", turn)

\* One of the bubbles is not delivered.
ReplyFails ==
    /\ pc = "sendReply"
    /\ "sendReply" \in Faults
    /\ Reject

ToForward == turn.batch.media > 0 \/ turn.location # 0

AfterNotification ==
    IF EndsHere THEN End ELSE pc' = "save" /\ UNCHANGED <<rowVars, clock, turn>>

\* The notification was sent, or it failed, which is logged and changes nothing.
Notify ==
    /\ pc = "notify"
    /\ \/ owed' = "no"
       \/ "notifyManager" \in Faults /\ owed' = "lost"
    /\ UNCHANGED <<loaderVars, calls, heard, crashed, told>>
    /\ IF ToForward THEN pc' = "forward" /\ UNCHANGED <<rowVars, clock, turn>>
       ELSE AfterNotification

\* Its failure is only logged, too.
Forward ==
    /\ pc = "forward"
    /\ AfterNotification
    /\ UNCHANGED <<loaderVars, historyVars>>

\* The newest MaxHistoryTurns of the turns so far and the two new ones; the
\* mutant keeps one less.
LastTurns(turns, bound) ==
    SubSeq(turns, IF Len(turns) > bound THEN Len(turns) - bound + 1 ELSE 1, Len(turns))

Extended ==
    LET said(role, checked) ==
          [role |-> role, call |-> calls, at |-> turn.now, checked |-> checked]
    IN (IF turn.state = NoRow THEN <<>> ELSE turn.state.history)
          \o <<said("user", TRUE), said("assistant", turn.answer.checked)>>

NewHistoryOffByOne == LastTurns(Extended, MaxHistoryTurns - 1)

NewHistory == LastTurns(Extended, MaxHistoryTurns)

\* What the customer has told once this turn is saved, by what was said in the
\* saved turns of a conversation without a silence of Ttl: the last card of each
\* kind, and the language of the last words or of the model's answer to a batch
\* without any text.
ToldNow ==
    LET earlier == IF told.at + Ttl > turn.now THEN told ELSE Nothing IN
    [at       |-> turn.now,
     phone    |-> IF turn.batch.phone THEN calls ELSE earlier.phone,
     location |-> IF turn.batch.location THEN calls ELSE earlier.location,
     language |-> IF \/ turn.batch.text \in {"words", "b2b"}
                     \/ turn.batch.text = "none"
                           /\ turn.reason \notin {"llm_unavailable", "media_unreadable"}
                  THEN turn.language ELSE earlier.language]

\* save(), whose failure is caught: the whole turn is forgotten.
SaveTurn ==
    /\ pc = "save"
    /\ pc' = "idle"
    /\ turn' = NoTurn
    /\ \/ /\ Save([history |-> NewHistory, language |-> turn.language, phone |-> turn.phone,
                   location |-> turn.location, escalated |-> turn.reason # "none",
                   expiresAt |-> 0], turn.now)
          /\ told' = ToldNow
       \/ "save" \in Faults /\ UNCHANGED <<conversation, told>>
    /\ UNCHANGED <<identity, loaderVars, clock, calls, heard, owed, crashed>>

\* The process dies in the middle of the call, and is started again.
Crash ==
    /\ pc # "idle"
    /\ End
    /\ LoadAtStart(clock)
    /\ crashed' = TRUE
    /\ UNCHANGED <<calls, heard, owed, told>>

Tick ==
    /\ clock < MaxClock
    /\ clock' = clock + 1
    /\ UNCHANGED <<rowVars, loaderVars, pc, turn, historyVars>>

\* The staff change the price list.
ListChanges ==
    /\ Edit(clock)
    /\ UNCHANGED <<rowVars, clock, pc, turn, historyVars>>

Step ==
    \/ RecordContactFails \/ ContactRecorded
    \/ GetFails \/ StateRead
    \/ MediaTyping \/ DownloadFails \/ Downloaded
    \/ Typing \/ GenerateFails \/ \E r \in CheckedReplies : Generated(r)
    \/ Replied \/ ReplyFails
    \/ Notify \/ Forward \/ SaveTurn

Next == Step \/ (\E b \in Batches : Start(b)) \/ Crash \/ Tick \/ ListChanges

Spec == Init /\ [][Next]_vars

\* Every call the engine awaits settles: the transports bound their attempts, the
\* HTTP client gives up a request by itself, and the database is synchronous.
FairSpec == Spec /\ WF_vars(Step)

-----------------------------------------------------------------------------
\* Neither the customer nor the history ever gets a reply that was cut off, nor a
\* price that the list the model was given does not have for what the program
\* reads of the reply: the product and the packing, where both are written as in
\* the list; the product alone, in any packing, where the unit is "gr"; any price
\* of the list, or the end of one, where the product's name is not the list's.
OnlyCheckedTextIsSaid ==
    /\ pc \in {"sendReply", "notify", "forward", "save"} => turn.answer.checked
    /\ conversation # NoRow => \A i \in DOMAIN conversation.history :
                                  conversation.history[i].checked

\* "False escalations cost too": a complete reply in which every price is right
\* is not withheld, however its products and packings are written.
HonestQuoteIsSaid == pc = "sendReply" => ~turn.answer.inVain

\* "An edited price still takes effect within about a minute": no turn is given
\* a list that was replaced CacheTtl ago, whatever was cached when.
EditTakesEffect ==
    [][pc = "typing" /\ pc' = "generateReply" =>
          turn'.knowledge = files.text \/ clock - files.since < CacheTtl]_vars

\* The stored history is the end of the conversation as the customer has seen
\* it: whole exchanges in order, never more than the bound, and no answer the
\* customer did not get, whatever failed or crashed in between.
HistoryIsWhatWasSaid ==
    conversation # NoRow =>
       LET turns == conversation.history IN
       /\ Len(turns) <= MaxHistoryTurns
       /\ \A i \in DOMAIN turns :
             /\ turns[i].role = IF i % 2 = 1 THEN "user" ELSE "assistant"
             /\ turns[i].call \in heard
             /\ i > 1 => IF i % 2 = 0 THEN turns[i].call = turns[i - 1].call
                         ELSE turns[i].call > turns[i - 1].call

\* "Short enough that this never becomes long-term memory": what the model is
\* told of the past holds no silence of Ttl or longer.
NoColdContext ==
    pc = "generateReply" /\ turn.state # NoRow =>
       LET turns == turn.state.history IN
       \A i \in DOMAIN turns :
          (IF i = Len(turns) THEN turn.now ELSE turns[i + 1].at) - turns[i].at < Ttl

\* "Fail closed": there is no conversation with a customer whose contact was
\* not recorded first, in the same turn.
ContactPrecedesConversation ==
    conversation # NoRow =>
       /\ identity # NoRow
       /\ identity.firstSeen <= conversation.expiresAt - Ttl
       /\ conversation.expiresAt - Ttl <= identity.lastSeen

\* A batch is over, other than by a crash.
Over == pc = "idle" /\ calls > 0 /\ ~crashed

\* A customer who has been told that a human takes over is not forgotten: the
\* call does not end before the manager was notified, or the one attempt at it
\* failed, of which only the log tells.
PromiseIsKept == Over => owed # "owed"

\* "A phone shared several turns before handoff still reaches the manager",
\* and so does the location: the hand-off carries the latest of each that the
\* customer shared in this turn or in a saved one of the living conversation.
HandoffIsComplete ==
    pc = "notify" /\ turn.reason # "state_store_unavailable" =>
       turn.phone = ToldNow.phone /\ turn.location = ToldNow.location

\* Every batch that is started comes to an end.
EveryCallEnds == pc # "idle" ~> pc = "idle"

\* "The customer always gets a reply, never silence": a batch that is over has
\* been answered.
NeverSilence == Over => calls \in heard

\* "A later message with no text of its own still gets its fallbacks in the
\* right" language.
FallbackInTheirLanguage ==
    pc = "sendReply" /\ turn.batch.text = "none" /\ turn.reason = "llm_unavailable"
       /\ told.at + Ttl > turn.now /\ told.language # "none"
       => turn.language = told.language
===============================================================================

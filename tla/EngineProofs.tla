----------------------------- MODULE EngineProofs ------------------------------
(***************************************************************************)
(* Proofs about ConversationEngine for any batches, replies, price lists,  *)
(* lives of rows and caches, and any calls that fail: the types, then what *)
(* it remembers of a customer and for how long, the cached price list and  *)
(* the promise that a human takes over.                                    *)
(***************************************************************************)
EXTENDS ConversationEngine, SequenceTheorems, TLAPS

Awaits == {"recordContact", "get", "mediaTyping", "downloadMedia", "typing", "generateReply",
           "sendReply", "notify", "forward", "save"}

\* The types of what the program does not keep.
GhostsTyped ==
    /\ calls \in 0..MaxCalls
    /\ heard \subseteq 1..MaxCalls
    /\ owed \in {"no", "owed", "lost"}
    /\ crashed \in BOOLEAN
    /\ told \in [at : Int, phone : Source, location : Source, language : Languages \cup {"none"}]

\* What the types of the locals depend on: a call has a number, and while files
\* are downloaded there is room for one more.
Counted ==
    /\ pc # "idle" => calls > 0
    /\ pc \in {"recordContact", "get", "mediaTyping", "downloadMedia"} =>
          turn.attached < MaxAttachments

Typed ==
    /\ RowsTypeOK
    /\ LoaderTypeOK
    /\ pc \in Awaits \cup {"idle"}
    /\ turn \in Locals
    /\ GhostsTyped
    /\ Counted

-----------------------------------------------------------------------------
LEMMA NoTurnTyped == NoTurn \in Locals /\ NoTurn.attached = 0 /\ NoTurn.reason = "none"
<1>1. /\ (CHOOSE b \in Batches : TRUE) \in Batches
      /\ (CHOOSE k \in Contents : TRUE) \in Contents
      /\ DefaultLanguage \in Languages /\ 0 \in Source /\ 0 \in 0..MaxAttachments
  BY EngineAssumption, LoaderAssumption, StoreAssumption DEF Source
<1>2. Fallback("technicalHiccup") \in Answers
  BY DEF Fallback, Answers
<1> QED
  BY <1>1, <1>2 DEF NoTurn, Locals, Reasons

LEMMA InitTyped == Init => Typed
<1> SUFFICES ASSUME Init PROVE Typed
  OBVIOUS
<1>1. RowsTypeOK /\ LoaderTypeOK
  BY LoaderAssumption DEF Init, RowsInit, LoaderInit, Load, RowsTypeOK, LoaderTypeOK
<1>2. GhostsTyped
  <2>1. -Ttl \in Int /\ 0 \in Source /\ 0 \in 0..MaxCalls
    BY StoreAssumption DEF Source
  <2>2. Nothing \in [at : Int, phone : Source, location : Source, language : Languages \cup {"none"}]
    BY <2>1 DEF Nothing
  <2> QED
    BY <2>1, <2>2 DEF Init, GhostsTyped
<1>3. turn \in Locals /\ Counted /\ pc = "idle"
  BY NoTurnTyped DEF Init, Counted
<1> QED
  BY <1>1, <1>2, <1>3 DEF Typed

\* A call that goes on to another await keeps the types if its locals have one.
LEMMA AwaitTyped ==
    ASSUME Typed, pc # "idle", NEW locals \in Locals,
           NEW where \in {"get", "mediaTyping", "downloadMedia", "typing", "sendReply"},
           where \in {"get", "mediaTyping", "downloadMedia"} => locals.attached < MaxAttachments,
           Await(where, locals)
    PROVE  Typed'
BY DEF Typed, Await, rowVars, loaderVars, historyVars, RowsTypeOK, LoaderTypeOK, GhostsTyped,
       Counted, Awaits

\* So does the end of a call, with whatever history.
LEMMA EndTyped ==
    ASSUME Typed, End, LoaderTypeOK', GhostsTyped'
    PROVE  Typed'
BY NoTurnTyped DEF Typed, End, rowVars, RowsTypeOK, Counted

LEMMA RejectTyped ==
    ASSUME Typed, Reject
    PROVE  Typed'
BY EndTyped DEF Typed, Reject, loaderVars, historyVars, LoaderTypeOK, GhostsTyped

LEMMA AnswerTyped ==
    ASSUME Typed, pc # "idle", NEW locals \in Locals, NEW why \in Reasons,
           NEW name \in {"mediaFallback", "mediaUnreadable", "b2bEscalation", "technicalHiccup"},
           Answer(locals, name, why)
    PROVE  Typed'
<1>1. [locals EXCEPT !.answer = Fallback(name), !.reason = why] \in Locals
  BY DEF Locals, Fallback, Answers
<1> QED
  BY <1>1, AwaitTyped DEF Answer

LEMMA DecideTyped ==
    ASSUME Typed, pc # "idle", NEW locals \in Locals, NEW failed \in BOOLEAN,
           Decide(locals, failed)
    PROVE  Typed'
BY AnswerTyped, AwaitTyped DEF Decide, Reasons

-----------------------------------------------------------------------------
(* One lemma for each action that does more than one of these. *)

LEMMA StartTyped ==
    ASSUME Typed, NEW b \in Batches, Start(b)
    PROVE  Typed'
<1>1. /\ b.language \in Languages /\ DetectLanguage(b) \in Languages
  BY EngineAssumption DEF Batch, DetectLanguage
<1>2. calls + 1 \in 1..MaxCalls /\ calls + 1 \in Source /\ 0 \in Source
  BY StoreAssumption DEF Typed, GhostsTyped, Start, Source
<1>3. turn' \in Locals /\ turn'.attached = 0
  <2> DEFINE phone == IF b.phone THEN calls + 1 ELSE 0
             location == IF b.location THEN calls + 1 ELSE 0
  <2>1. clock \in Nat /\ phone \in Source /\ location \in Source
    BY <1>2 DEF Typed, RowsTypeOK
  <2>2. turn' = [NoTurn EXCEPT !.batch = b, !.now = clock, !.language = DetectLanguage(b),
                               !.phone = phone, !.location = location]
    BY DEF Start
  <2> HIDE DEF phone, location
  <2> QED
    BY <1>1, <2>1, <2>2, NoTurnTyped DEF Locals
<1>4. GhostsTyped'
  <2>1. calls' \in 0..MaxCalls
    BY <1>2, StoreAssumption DEF Start
  <2>2. told' = told /\ heard' = heard /\ owed' \in {"no", "owed", "lost"} /\ crashed' \in BOOLEAN
    BY DEF Start
  <2> QED
    BY <2>1, <2>2 DEF Typed, GhostsTyped
<1>6. Counted'
  BY <1>2, <1>3, EngineAssumption DEF Typed, Start, GhostsTyped, Counted
<1>5. RowsTypeOK' /\ LoaderTypeOK' /\ pc' \in Awaits
  BY DEF Typed, Start, rowVars, loaderVars, RowsTypeOK, LoaderTypeOK, Awaits
<1> QED
  BY <1>3, <1>4, <1>5, <1>6 DEF Typed

LEMMA ContactRecordedTyped ==
    ASSUME Typed, ContactRecorded
    PROVE  Typed'
<1>1. turn.now \in Nat
  BY DEF Typed, Locals
<1>2. identity' \in CustomerIdentity \cup {NoRow}
  <2>1. CASE identity = NoRow
    BY <1>1, <2>1 DEF ContactRecorded, RecordContact, CustomerIdentity
  <2>2. CASE identity # NoRow
    BY <1>1, <2>2 DEF ContactRecorded, RecordContact, CustomerIdentity, Typed, RowsTypeOK
  <2> QED
    BY <2>1, <2>2
<1>3. [turn EXCEPT !.answer = Fallback("mediaFallback")] \in Locals
  BY DEF Typed, Locals, Fallback, Answers
<1>4. turn' \in Locals /\ pc' \in {"get", "sendReply"}
  BY <1>3 DEF Typed, ContactRecorded
<1> QED
  BY <1>2, <1>4 DEF Typed, ContactRecorded, RowsTypeOK, loaderVars, historyVars, LoaderTypeOK,
       GhostsTyped, Counted, Awaits

LEMMA RecallTyped ==
    ASSUME Typed, NEW row \in ConversationState \cup {NoRow}
    PROVE  Recall(row) \in Locals /\ Recall(row).attached = turn.attached
<1>1. CASE row = NoRow
  BY <1>1 DEF Typed, Recall
<1>2. CASE row # NoRow
  <2>1. row \in ConversationState
    BY <1>2
  <2>2. row.language \in Languages /\ row.phone \in Source /\ row.location \in Source
    BY <2>1 DEF ConversationState
  <2> QED
    BY <1>2, <2>1, <2>2 DEF Typed, Recall, Locals
<1> QED
  BY <1>1, <1>2

LEMMA StateReadTyped ==
    ASSUME Typed, StateRead
    PROVE  Typed'
<1> DEFINE locals == Recall(Live(turn.now))
<1>1. locals \in Locals /\ locals.attached = turn.attached
  BY RecallTyped DEF Typed, RowsTypeOK, Live
<1>2. pc # "idle" /\ locals.attached < MaxAttachments
  BY <1>1 DEF StateRead, Typed, Counted
<1> HIDE DEF locals
<1>3. Await("mediaTyping", locals) \/ Decide(locals, FALSE)
  BY DEF StateRead, locals
<1> QED
  BY <1>1, <1>2, <1>3, AwaitTyped, DecideTyped

LEMMA DownloadTyped ==
    ASSUME Typed, MediaTyping \/ DownloadFails \/ Downloaded
    PROVE  Typed'
<1>1. turn \in Locals /\ turn.attached \in 0..MaxAttachments /\ MaxAttachments \in Nat
  BY EngineAssumption DEF Typed, Locals
<1>2. CASE MediaTyping
  BY <1>1, <1>2, AwaitTyped, RejectTyped DEF MediaTyping, Typed, Counted
<1>3. CASE DownloadFails
  BY <1>1, <1>3, DecideTyped DEF DownloadFails
<1>4. CASE Downloaded
  <2> DEFINE locals == [turn EXCEPT !.attached = @ + 1]
  <2>1. turn.attached < MaxAttachments /\ pc # "idle"
    BY <1>4 DEF Downloaded, Typed, Counted
  <2>2. locals \in Locals
    BY <1>1, <2>1 DEF Locals
  <2>3. \/ locals.attached < MaxAttachments /\ Await("downloadMedia", locals)
        \/ Decide(locals, FALSE)
    BY <1>4 DEF Downloaded
  <2> HIDE DEF locals
  <2> QED
    BY <2>1, <2>2, <2>3, AwaitTyped, DecideTyped
<1> QED
  BY <1>2, <1>3, <1>4

LEMMA LoaderTyped ==
    ASSUME Typed
    PROVE  /\ Load(clock) \in [text : Contents, loadedAt : Nat]
           /\ loadKnowledgeBase(clock) \in [text : Contents, loadedAt : Nat]
BY DEF Typed, LoaderTypeOK, RowsTypeOK, Load, loadKnowledgeBase

LEMMA TypingTyped ==
    ASSUME Typed, Typing
    PROVE  Typed'
<1>1. CASE Reject
  BY <1>1, RejectTyped
<1>2. CASE ~Reject
  <2>1. LoaderTypeOK' /\ cache'.text \in Contents
    BY <1>2, LoaderTyped DEF Typing, Typed, LoaderTypeOK
  <2>2. GhostsTyped'
    BY <1>2 DEF Typing, Typed, historyVars, GhostsTyped
  <2>3. CASE End
    BY <2>1, <2>2, <2>3, EndTyped
  <2>4. CASE pc' = "generateReply" /\ turn' = [turn EXCEPT !.knowledge = cache'.text]
             /\ UNCHANGED <<rowVars, clock>> /\ calls' = calls /\ pc # "idle"
    <3>1. turn' \in Locals
      BY <2>1, <2>4 DEF Typed, Locals
    <3> QED
      BY <2>1, <2>2, <2>4, <3>1 DEF Typed, rowVars, RowsTypeOK, Counted, Awaits
  <2> QED
    BY <1>2, <2>3, <2>4 DEF Typing, historyVars
<1> QED
  BY <1>1, <1>2

LEMMA GenerateFailsTyped ==
    ASSUME Typed, GenerateFails
    PROVE  Typed'
<1>1. [turn EXCEPT !.knowledge = NoTurn.knowledge] \in Locals
  BY NoTurnTyped DEF Typed, Locals
<1> QED
  BY <1>1, AnswerTyped DEF GenerateFails, Reasons

LEMMA GeneratedTyped ==
    ASSUME Typed, NEW r \in CheckedReplies, Generated(r)
    PROVE  Typed'
<1> DEFINE locals == [turn EXCEPT !.language = IF HasText(turn.batch) THEN @ ELSE r.language,
                                  !.knowledge = NoTurn.knowledge]
<1>1. r.language \in Languages /\ r.truncated \in BOOLEAN
  BY EngineAssumption DEF CheckedReplies, Checked, Reply
<1>2. locals \in Locals /\ pc # "idle"
  BY <1>1, NoTurnTyped DEF Typed, Locals, Generated
<1>3. \A answer \in Answers, why \in Reasons :
         [locals EXCEPT !.answer = answer, !.reason = why] \in Locals
      /\ [locals EXCEPT !.answer = answer] \in Locals
  BY <1>2 DEF Locals
<1>4. /\ Said(r) \in Answers
      /\ [Fallback("unverifiedNumber") EXCEPT !.inVain = turn.knowledge \in r.right] \in Answers
  <2>1. /\ (turn.knowledge \in r.right) \in BOOLEAN
        /\ (~r.truncated /\ turn.knowledge \in r.backedBy) \in BOOLEAN
    OBVIOUS
  <2>2. \A checked \in BOOLEAN, inVain \in BOOLEAN :
           /\ [kind |-> "model", checked |-> checked, inVain |-> FALSE] \in Answers
           /\ [Fallback("unverifiedNumber") EXCEPT !.inVain = inVain] \in Answers
    BY DEF Answers, Fallback
  <2> QED
    BY <2>1, <2>2, Zenon DEF Said
<1>5. Judge(locals, r)
  BY DEF Generated
<1> HIDE DEF locals
<1>6. CASE Answer(locals, "technicalHiccup", "truncated_reply")
  BY <1>2, <1>6, AnswerTyped DEF Reasons
<1>7. CASE Withhold(locals, r)
  BY <1>2, <1>3, <1>4, <1>7, AwaitTyped DEF Withhold, Reasons
<1>8. CASE Await("sendReply", [locals EXCEPT !.answer = Said(r),
                                             !.reason = IF r.escalate THEN "llm_judged_escalation"
                                                        ELSE "none"])
  BY <1>2, <1>3, <1>4, <1>8, AwaitTyped DEF Reasons
<1> QED
  BY <1>5, <1>6, <1>7, <1>8 DEF Judge

LEMMA RepliedTyped ==
    ASSUME Typed, Replied
    PROVE  Typed'
<1>1. LoaderTypeOK'
  BY DEF Typed, Replied, loaderVars, LoaderTypeOK
<1>2. GhostsTyped'
  <2>1. calls \in 1..MaxCalls
    BY StoreAssumption DEF Typed, GhostsTyped, Counted, Replied
  <2>2. heard' \subseteq 1..MaxCalls /\ owed' \in {"no", "owed", "lost"}
    BY <2>1 DEF Typed, GhostsTyped, Replied
  <2> QED
    BY <2>2 DEF Typed, GhostsTyped, Replied
<1>3. CASE End
  BY <1>1, <1>2, <1>3, EndTyped
<1>4. CASE pc' \in {"notify", "save"} /\ UNCHANGED <<rowVars, clock, turn>>
  BY <1>1, <1>2, <1>4 DEF Typed, Replied, rowVars, RowsTypeOK, Counted, Awaits
<1> QED
  BY <1>3, <1>4 DEF Replied

LEMMA NotificationTyped ==
    ASSUME Typed, Notify \/ Forward
    PROVE  Typed'
<1>1. LoaderTypeOK' /\ GhostsTyped'
  BY DEF Typed, Notify, Forward, loaderVars, historyVars, LoaderTypeOK, GhostsTyped
<1>2. pc # "idle" /\ calls' = calls
  BY DEF Notify, Forward, historyVars
<1>3. CASE End
  BY <1>1, <1>3, EndTyped
<1>4. CASE pc' \in {"forward", "save"} /\ UNCHANGED <<rowVars, clock, turn>>
  BY <1>1, <1>2, <1>4 DEF Typed, rowVars, RowsTypeOK, Counted, Awaits
<1> QED
  BY <1>3, <1>4 DEF Notify, Forward, AfterNotification

LEMMA ExtendedTyped ==
    ASSUME Typed, pc # "idle"
    PROVE  Extended \in Seq(Turn)
<1>1. calls \in 1..MaxCalls
  BY StoreAssumption DEF Typed, GhostsTyped, Counted
<1>2. turn.now \in Nat /\ turn.answer.checked \in BOOLEAN
  BY DEF Typed, Locals, Answers
<1>3. /\ [role |-> "user", call |-> calls, at |-> turn.now, checked |-> TRUE] \in Turn
      /\ [role |-> "assistant", call |-> calls, at |-> turn.now, checked |-> turn.answer.checked] \in Turn
  BY <1>1, <1>2 DEF Turn
<1> DEFINE earlier == IF turn.state = NoRow THEN <<>> ELSE turn.state.history
           exchange == <<[role |-> "user", call |-> calls, at |-> turn.now, checked |-> TRUE],
                         [role |-> "assistant", call |-> calls, at |-> turn.now,
                          checked |-> turn.answer.checked]>>
<1>4. earlier \in Seq(Turn)
  BY DEF Typed, Locals, ConversationState
<1>5. exchange \in Seq(Turn)
  BY <1>3
<1>6. Extended = earlier \o exchange
  BY DEF Extended
<1> HIDE DEF earlier, exchange
<1> QED
  BY <1>4, <1>5, <1>6

\* What is saved is a sequence of turns, however many of them are kept.
LEMMA NewHistoryTyped ==
    ASSUME Typed, pc # "idle"
    PROVE  NewHistory \in Seq(Turn)
<1>1. ASSUME NEW turns \in Seq(Turn) PROVE LastTurns(turns, MaxHistoryTurns) \in Seq(Turn)
  BY EngineAssumption, SubSeqProperties DEF LastTurns
<1> QED
  BY <1>1, ExtendedTyped DEF NewHistory

LEMMA ToldNowTyped ==
    ASSUME Typed, pc # "idle"
    PROVE  ToldNow \in [at : Int, phone : Source, location : Source,
                         language : Languages \cup {"none"}]
<1>1. calls \in Source /\ turn.now \in Int /\ turn.language \in Languages
  BY DEF Typed, GhostsTyped, Locals, Source
<1> DEFINE earlier == IF told.at + Ttl > turn.now THEN told ELSE Nothing
           Told == [at : Int, phone : Source, location : Source, language : Languages \cup {"none"}]
<1>2. Nothing \in Told
  BY StoreAssumption DEF Nothing, Source
<1>3. earlier \in Told
  BY <1>2 DEF Typed, GhostsTyped
<1>4. /\ earlier.phone \in Source /\ earlier.location \in Source
      /\ earlier.language \in Languages \cup {"none"}
  BY <1>3
<1> HIDE DEF earlier
<1> QED
  BY <1>1, <1>4 DEF ToldNow, earlier

LEMMA SavedTyped ==
    ASSUME Typed, pc # "idle"
    PROVE  [[history |-> NewHistory, language |-> turn.language, phone |-> turn.phone,
             location |-> turn.location, escalated |-> turn.reason # "none", expiresAt |-> 0]
            EXCEPT !.expiresAt = turn.now + Ttl] \in ConversationState
<1>1. NewHistory \in Seq(Turn) /\ turn.now + Ttl \in Nat
  BY NewHistoryTyped, StoreAssumption DEF Typed, Locals
<1>2. ASSUME NEW escalated \in BOOLEAN
      PROVE  [[history |-> NewHistory, language |-> turn.language, phone |-> turn.phone,
               location |-> turn.location, escalated |-> escalated, expiresAt |-> 0]
              EXCEPT !.expiresAt = turn.now + Ttl] \in ConversationState
  BY <1>1 DEF ConversationState, Typed, Locals
<1> QED
  BY <1>2

LEMMA SaveTurnTyped ==
    ASSUME Typed, SaveTurn
    PROVE  Typed'
<1>2. conversation' \in ConversationState \cup {NoRow}
  <2>1. CASE UNCHANGED conversation
    BY <2>1 DEF Typed, RowsTypeOK
  <2> QED
    BY <2>1, SavedTyped DEF SaveTurn, Save
<1>3. told' = told \/ told' = ToldNow
  BY DEF SaveTurn
<1>4. GhostsTyped'
  BY <1>3, ToldNowTyped DEF Typed, SaveTurn, GhostsTyped
<1> QED
  BY <1>2, <1>4, NoTurnTyped DEF Typed, SaveTurn, RowsTypeOK, loaderVars, LoaderTypeOK, Counted

LEMMA EnvironmentTyped ==
    ASSUME Typed, Crash \/ Tick \/ ListChanges \/ UNCHANGED vars
    PROVE  Typed'
<1>1. CASE Crash
  <2>1. LoaderTypeOK'
    BY <1>1, LoaderTyped DEF Crash, LoadAtStart, Typed, LoaderTypeOK
  <2>2. GhostsTyped'
    BY <1>1 DEF Crash, Typed, GhostsTyped
  <2> QED
    BY <1>1, <2>1, <2>2, EndTyped DEF Crash
<1>2. CASE Tick \/ UNCHANGED vars
  <2>1. clock' \in Nat /\ UNCHANGED <<rowVars, loaderVars, pc, turn, historyVars>>
    BY <1>2 DEF Tick, vars, Typed, RowsTypeOK
  <2> QED
    BY <2>1 DEF Typed, rowVars, loaderVars, historyVars, RowsTypeOK, LoaderTypeOK, GhostsTyped,
                Counted
<1>3. CASE ListChanges
  BY <1>3 DEF ListChanges, Edit, Typed, rowVars, historyVars, RowsTypeOK, LoaderTypeOK,
              GhostsTyped, Counted
<1> QED
  BY <1>1, <1>2, <1>3

LEMMA NextTyped == Typed /\ [Next]_vars => Typed'
<1> SUFFICES ASSUME Typed, [Next]_vars PROVE Typed'
  OBVIOUS
<1>1. CASE RecordContactFails \/ GetFails
  BY <1>1, AnswerTyped DEF RecordContactFails, GetFails, Typed, Reasons
<1>2. CASE ReplyFails
  BY <1>2, RejectTyped DEF ReplyFails
<1>3. CASE Crash \/ Tick \/ ListChanges \/ UNCHANGED vars
  BY <1>3, EnvironmentTyped
<1> QED
  BY <1>1, <1>2, <1>3, StartTyped, ContactRecordedTyped, StateReadTyped, DownloadTyped, TypingTyped,
     GenerateFailsTyped, GeneratedTyped, RepliedTyped, NotificationTyped, SaveTurnTyped
     DEF Next, Step

\* Whatever the batches, the replies, the lives of rows and caches and the calls
\* that fail, the rows of the customer, the cached price list and the locals of
\* handleMessages keep their types: in particular what is saved is a sequence of
\* turns, and no turn is given more files than MAX_ATTACHMENTS_PER_TURN.
THEOREM TypeCorrect == Spec => []TypeOK
<1>1. Typed => TypeOK
  BY DEF Typed, TypeOK, GhostsTyped, Awaits
<1> QED
  BY InitTyped, NextTyped, <1>1, PTL DEF Spec

-----------------------------------------------------------------------------
(* What a step does to what the engine remembers: a proof of an invariant    *)
(* has one step for each of the kinds of step below.                         *)

Reading == {"mediaTyping", "downloadMedia", "typing", "generateReply"}

\* The locals that are settled once the stored state has been read.
Settled == <<turn.batch, turn.now, turn.state, turn.phone, turn.location>>

StoreFails ==
    /\ pc \in {"recordContact", "get"}
    /\ pc' = "sendReply"
    /\ turn'.reason = "state_store_unavailable"
    /\ UNCHANGED <<Settled, rowVars, clock, historyVars>>

Recalled ==
    LET row == Live(turn.now) IN
    /\ pc = "get"
    /\ pc' \in Reading \cup {"sendReply"}
    /\ turn'.batch = turn.batch /\ turn'.now = turn.now
    /\ turn'.state = IF row = NoRow THEN turn.state ELSE row
    /\ turn'.phone = IF row = NoRow \/ turn.batch.phone THEN turn.phone ELSE row.phone
    /\ turn'.location = IF row = NoRow \/ turn.batch.location THEN turn.location ELSE row.location
    /\ UNCHANGED <<rowVars, clock, historyVars>>

GoesOn ==
    /\ pc \in Reading
    /\ pc' \in Reading \cup {"sendReply"}
    /\ UNCHANGED <<Settled, rowVars, clock, historyVars>>

\* An exception, or a crash.
BreaksOff ==
    /\ pc # "idle"
    /\ End
    /\ crashed \/ pc = "notify" => crashed'
    /\ UNCHANGED <<calls, heard, owed, told>>

Quiet ==
    /\ clock' >= clock
    /\ UNCHANGED <<pc, turn, rowVars, historyVars>>

Reduced ==
    \/ \E b \in Batches : Start(b)
    \/ ContactRecorded \/ StoreFails \/ Recalled \/ GoesOn
    \/ Replied \/ Notify \/ Forward \/ SaveTurn
    \/ BreaksOff \/ Quiet

LEMMA RejectReduced ==
    ASSUME Reject, pc \notin {"idle", "notify"}
    PROVE  BreaksOff
BY DEF Reject, BreaksOff, historyVars

LEMMA AwaitReduced ==
    ASSUME pc \in Reading, NEW locals, NEW where \in Reading \cup {"sendReply"},
           <<locals.batch, locals.now, locals.state, locals.phone, locals.location>> = Settled,
           Await(where, locals)
    PROVE  GoesOn
BY DEF Await, GoesOn, Settled

LEMMA AnswerReduced ==
    ASSUME pc \in Reading, NEW locals \in Locals, NEW name, NEW why,
           <<locals.batch, locals.now, locals.state, locals.phone, locals.location>> = Settled,
           Answer(locals, name, why)
    PROVE  GoesOn
<1> DEFINE answered == [locals EXCEPT !.answer = Fallback(name), !.reason = why]
<1>1. <<answered.batch, answered.now, answered.state, answered.phone, answered.location>> = Settled
  BY DEF Locals
<1>2. Await("sendReply", answered)
  BY DEF Answer
<1> HIDE DEF answered
<1> QED
  BY <1>1, <1>2, AwaitReduced

LEMMA DecideReduced ==
    ASSUME pc \in Reading, NEW locals \in Locals, NEW failed \in BOOLEAN,
           <<locals.batch, locals.now, locals.state, locals.phone, locals.location>> = Settled,
           Decide(locals, failed)
    PROVE  GoesOn
BY AnswerReduced, AwaitReduced DEF Decide, Reading

LEMMA StoreFailsReduced ==
    ASSUME Typed, RecordContactFails \/ GetFails
    PROVE  StoreFails
<1> DEFINE answered == [turn EXCEPT !.answer = Fallback("technicalHiccup"),
                                    !.reason = "state_store_unavailable"]
<1>1. /\ answered.batch = turn.batch /\ answered.now = turn.now /\ answered.state = turn.state
      /\ answered.phone = turn.phone /\ answered.location = turn.location
      /\ answered.reason = "state_store_unavailable"
  BY DEF Typed, Locals
<1>2. Await("sendReply", answered) /\ pc \in {"recordContact", "get"}
  BY DEF RecordContactFails, GetFails, Answer
<1> HIDE DEF answered
<1> QED
  BY <1>1, <1>2 DEF StoreFails, Settled, Await

LEMMA StateReadReduced ==
    ASSUME Typed, StateRead
    PROVE  Recalled
<1> DEFINE row == Live(turn.now)
           locals == Recall(row)
           Like(t) == /\ t.batch = turn.batch /\ t.now = turn.now
                      /\ t.state = IF row = NoRow THEN turn.state ELSE row
                      /\ t.phone = IF row = NoRow \/ turn.batch.phone THEN turn.phone ELSE row.phone
                      /\ t.location = IF row = NoRow \/ turn.batch.location THEN turn.location
                                      ELSE row.location
<1>1. locals \in Locals
  BY RecallTyped DEF Typed, RowsTypeOK, Live
<1>2. Like(locals)
  BY DEF Recall, Typed, Locals
<1>3. \A name, why : Like([locals EXCEPT !.answer = Fallback(name), !.reason = why])
  BY <1>1, <1>2 DEF Locals
<1>4. pc = "get" /\ (Await("mediaTyping", locals) \/ Decide(locals, FALSE))
  BY DEF StateRead
<1> HIDE DEF locals, Like
<1>5. \E t, where : Like(t) /\ where \in Reading \cup {"sendReply"} /\ Await(where, t)
  BY <1>2, <1>3, <1>4 DEF Decide, Answer, Reading
<1>6. PICK t, where : Like(t) /\ where \in Reading \cup {"sendReply"} /\ Await(where, t)
  BY <1>5
<1> QED
  BY <1>4, <1>6 DEF Recalled, Like, Await

LEMMA DownloadReduced ==
    ASSUME Typed, MediaTyping \/ DownloadFails \/ Downloaded
    PROVE  GoesOn \/ BreaksOff
<1>1. turn \in Locals /\ pc \in Reading /\ pc # "notify" /\ pc # "idle"
  BY DEF Typed, MediaTyping, DownloadFails, Downloaded, Reading
<1>2. CASE MediaTyping
  BY <1>1, <1>2, AwaitReduced, RejectReduced DEF MediaTyping, Reading, Settled
<1>3. CASE DownloadFails
  BY <1>1, <1>3, DecideReduced DEF DownloadFails, Settled
<1>4. CASE Downloaded
  <2> DEFINE locals == [turn EXCEPT !.attached = @ + 1]
  <2>1. <<locals.batch, locals.now, locals.state, locals.phone, locals.location>> = Settled
    BY <1>1 DEF Locals, Settled
  <2>2. locals \in Locals
    <3>1. turn.attached + 1 \in 0..MaxAttachments
      BY <1>1, <1>4, EngineAssumption DEF Typed, Counted, Downloaded, Locals
    <3> QED
      BY <1>1, <3>1 DEF Locals
  <2>3. Await("downloadMedia", locals) \/ Decide(locals, FALSE)
    BY <1>4 DEF Downloaded
  <2> HIDE DEF locals
  <2> QED
    BY <1>1, <2>1, <2>2, <2>3, AwaitReduced, DecideReduced DEF Reading
<1> QED
  BY <1>2, <1>3, <1>4

LEMMA TypingReduced ==
    ASSUME Typed, Typing
    PROVE  GoesOn \/ BreaksOff
<1>1. CASE Reject
  BY <1>1, RejectReduced DEF Typing
<1>2. CASE End /\ UNCHANGED historyVars
  BY <1>2 DEF Typing, BreaksOff, historyVars
<1>3. CASE pc' = "generateReply" /\ turn' = [turn EXCEPT !.knowledge = cache'.text]
           /\ UNCHANGED <<rowVars, clock>> /\ UNCHANGED historyVars
  <2>1. UNCHANGED Settled
    BY <1>3 DEF Typed, Locals, Settled
  <2> QED
    BY <1>3, <2>1 DEF Typing, GoesOn, Reading
<1> QED
  BY <1>1, <1>2, <1>3 DEF Typing

LEMMA GenerateReduced ==
    ASSUME Typed, GenerateFails \/ \E r \in CheckedReplies : Generated(r)
    PROVE  GoesOn
<1>1. pc \in Reading
  BY DEF GenerateFails, Generated, Reading
<1>2. CASE GenerateFails
  <2> DEFINE locals == [turn EXCEPT !.knowledge = NoTurn.knowledge]
  <2>1. locals \in Locals
    BY NoTurnTyped DEF Typed, Locals
  <2>2. <<locals.batch, locals.now, locals.state, locals.phone, locals.location>> = Settled
    BY DEF Typed, Locals, Settled
  <2>3. Answer(locals, "technicalHiccup", "llm_unavailable")
    BY <1>2 DEF GenerateFails
  <2> HIDE DEF locals
  <2> QED
    BY <1>1, <2>1, <2>2, <2>3, AnswerReduced
<1>3. ASSUME NEW r \in CheckedReplies, Generated(r) PROVE GoesOn
  <2> DEFINE locals == [turn EXCEPT !.language = IF HasText(turn.batch) THEN @ ELSE r.language,
                                    !.knowledge = NoTurn.knowledge]
             Like(t) == <<t.batch, t.now, t.state, t.phone, t.location>> = Settled
  <2>1. r.language \in Languages
    BY EngineAssumption DEF CheckedReplies, Checked, Reply
  <2>2. locals \in Locals /\ Like(locals)
    BY <2>1, NoTurnTyped DEF Typed, Locals, Settled
  <2>3. \A answer, why : /\ Like([locals EXCEPT !.answer = answer, !.reason = why])
                         /\ Like([locals EXCEPT !.answer = answer])
    BY <2>2 DEF Locals
  <2>4. Judge(locals, r)
    BY <1>3 DEF Generated
  <2> HIDE DEF locals, Like
  <2>5. \E t : Like(t) /\ Await("sendReply", t)
    BY <2>3, <2>4 DEF Judge, Answer, Withhold
  <2> QED
    BY <1>1, <2>5, AwaitReduced DEF Like
<1> QED
  BY <1>2, <1>3

\* What save() leaves: the row as it was, or this turn's.
LEMMA SaveReduced ==
    ASSUME Typed, SaveTurn
    PROVE  \/ UNCHANGED <<conversation, told>>
           \/ /\ conversation' # NoRow
              /\ conversation'.history = NewHistory
              /\ conversation'.phone = turn.phone
              /\ conversation'.location = turn.location
              /\ conversation'.expiresAt = turn.now + Ttl
              /\ told' = ToldNow
<1> DEFINE row == [history |-> NewHistory, language |-> turn.language, phone |-> turn.phone,
                   location |-> turn.location, escalated |-> turn.reason # "none", expiresAt |-> 0]
<1>1. CASE UNCHANGED <<conversation, told>>
  BY <1>1
<1>2. CASE Save(row, turn.now) /\ told' = ToldNow
  <2>1. conversation' = [row EXCEPT !.expiresAt = turn.now + Ttl]
    BY <1>2 DEF Save
  <2>2. conversation' # NoRow
    BY <2>1, SavedTyped, StoreAssumption DEF SaveTurn
  <2> QED
    BY <1>2, <2>1, <2>2
<1> QED
  BY <1>1, <1>2 DEF SaveTurn

LEMMA NextReduced == Typed /\ [Next]_vars => Reduced
<1> SUFFICES ASSUME Typed, [Next]_vars PROVE Reduced
  OBVIOUS
<1>1. CASE ReplyFails
  BY <1>1, RejectReduced DEF ReplyFails, Reduced
<1>2. CASE Crash
  BY <1>2 DEF Crash, BreaksOff, Reduced
<1>3. CASE Tick \/ ListChanges \/ UNCHANGED vars
  <2>1. clock' >= clock
    BY <1>3 DEF Tick, ListChanges, vars, Typed, RowsTypeOK
  <2> QED
    BY <1>3, <2>1 DEF Tick, ListChanges, vars, Quiet, Reduced
<1> QED
  BY <1>1, <1>2, <1>3, StoreFailsReduced, StateReadReduced, DownloadReduced, TypingReduced,
     GenerateReduced DEF Next, Step, Reduced

-----------------------------------------------------------------------------
(* The price list.  What is cached is what is on disk, or was read before it *)
(* was last edited.                                                          *)

Fresh ==
    /\ files.since <= clock
    /\ cache.loadedAt <= clock
    /\ cache.text = files.text \/ cache.loadedAt <= files.since

LEMMA FreshInvariant == Typed /\ Fresh /\ [Next]_vars => Fresh'
<1> SUFFICES ASSUME Typed, Fresh, [Next]_vars PROVE Fresh'
  OBVIOUS
<1>1. files.since \in Nat /\ cache.loadedAt \in Nat /\ clock \in Nat
  BY DEF Typed, LoaderTypeOK, RowsTypeOK
<1>2. CASE UNCHANGED loaderVars /\ clock' >= clock /\ clock' \in Nat
  BY <1>1, <1>2 DEF Fresh, loaderVars
<1>3. CASE UNCHANGED <<files, clock>> /\ cache' \in {Load(clock), loadKnowledgeBase(clock)}
  BY <1>1, <1>3 DEF Fresh, Load, loadKnowledgeBase
<1>4. CASE ListChanges
  BY <1>1, <1>4 DEF Fresh, ListChanges, Edit
<1>5. CASE Crash
  BY <1>3, <1>5 DEF Crash, End, LoadAtStart
<1>6. CASE Typing
  BY <1>1, <1>2, <1>3, <1>6 DEF Typing, End, Reject
<1>7. CASE Tick \/ UNCHANGED vars
  <2>1. UNCHANGED loaderVars /\ clock' \in {clock, clock + 1}
    BY <1>7 DEF Tick, vars
  <2> QED
    BY <1>1, <1>2, <2>1
<1>8. CASE UNCHANGED <<loaderVars, clock>>
  BY <1>1, <1>2, <1>8
<1>9. ASSUME NEW where, NEW locals, Await(where, locals) \/ Reject
      PROVE  UNCHANGED <<loaderVars, clock>>
  BY <1>9 DEF Await, Reject, End
<1>10. CASE Replied \/ Notify \/ Forward \/ SaveTurn \/ \E b \in Batches : Start(b)
  <2>1. UNCHANGED <<loaderVars, clock>>
    BY <1>10 DEF Replied, Notify, Forward, SaveTurn, Start, AfterNotification, End
  <2> QED
    BY <2>1, <1>8
<1>11. CASE \/ RecordContactFails \/ ContactRecorded \/ GetFails \/ MediaTyping \/ ReplyFails
            \/ GenerateFails
  <2>1. UNCHANGED <<loaderVars, clock>>
    BY <1>9, <1>11 DEF RecordContactFails, ContactRecorded, GetFails, MediaTyping, ReplyFails,
       GenerateFails, Answer
  <2> QED
    BY <2>1, <1>8
<1>12. CASE StateRead \/ DownloadFails \/ Downloaded \/ \E r \in CheckedReplies : Generated(r)
  <2>1. ASSUME NEW locals, NEW failed, Decide(locals, failed) PROVE UNCHANGED <<loaderVars, clock>>
    BY <1>9, <2>1 DEF Decide, Answer
  <2>2. ASSUME NEW locals, NEW r, Judge(locals, r) PROVE UNCHANGED <<loaderVars, clock>>
    BY <1>9, <2>2 DEF Judge, Answer, Withhold
  <2>3. UNCHANGED <<loaderVars, clock>>
    BY <1>9, <1>12, <2>1, <2>2 DEF StateRead, DownloadFails, Downloaded, Generated
  <2> QED
    BY <2>3, <1>8
<1> QED
  BY <1>4, <1>5, <1>6, <1>7, <1>10, <1>11, <1>12 DEF Next, Step

\* "An edited price still takes effect within about a minute", whatever the
\* sizes of the lists, the life of the cache and the time between two turns, and
\* whatever was cached when the list was edited or the process restarted.
THEOREM EditsTakeEffect == Spec => EditTakesEffect
<1> DEFINE Given == pc = "typing" /\ pc' = "generateReply" =>
                      turn'.knowledge = files.text \/ clock - files.since < CacheTtl
<1>1. Init => Typed /\ Fresh
  BY InitTyped DEF Init, RowsInit, LoaderInit, Load, Fresh
<1>2. Typed /\ Fresh /\ [Next]_vars => Typed' /\ Fresh'
  BY NextTyped, FreshInvariant
<1>3. Typed /\ Fresh /\ [Next]_vars => Given
  <2> SUFFICES ASSUME Typed, Fresh, [Next]_vars, pc = "typing", pc' = "generateReply"
               PROVE  turn'.knowledge = files.text \/ clock - files.since < CacheTtl
    OBVIOUS
  <2>1. cache' = loadKnowledgeBase(clock) /\ turn' = [turn EXCEPT !.knowledge = cache'.text]
    BY DEF Next, Step, vars, Tick, ListChanges, Start, Crash, End, Typing, Reject,
       RecordContactFails, ContactRecorded, GetFails, StateRead, MediaTyping, DownloadFails,
       Downloaded, GenerateFails, Generated, Replied, ReplyFails, Notify, Forward, SaveTurn
  <2>2. turn'.knowledge = cache'.text
    BY <2>1 DEF Typed, Locals
  <2> QED
    BY <2>1, <2>2, LoaderAssumption
    DEF Typed, LoaderTypeOK, RowsTypeOK, Fresh, loadKnowledgeBase, Load, CacheHit
<1>4. Typed /\ Fresh /\ [Next]_vars => [Given]_vars
  BY <1>3
<1> QED
  BY <1>1, <1>2, <1>4, PTL DEF Spec, EditTakesEffect

-----------------------------------------------------------------------------
(* The promise. *)

Promised == owed = "owed" => pc = "notify" \/ crashed

\* Whatever fails in between, a call that told the customer that a human takes
\* over does not end, other than by a crash, before the manager was notified or
\* the one attempt at it has failed.
THEOREM PromisesAreKept == Spec => []PromiseIsKept
<1>1. Init => Typed /\ Promised
  BY InitTyped DEF Init, Promised
<1>2. Typed /\ Promised /\ [Next]_vars => Typed' /\ Promised'
  <2> SUFFICES ASSUME Typed, Promised, Reduced PROVE Promised'
    BY NextTyped, NextReduced
  <2>1. CASE \/ ContactRecorded \/ StoreFails \/ Recalled \/ GoesOn \/ SaveTurn \/ Quiet
             \/ \E b \in Batches : Start(b)
    BY <2>1 DEF Promised, ContactRecorded, StoreFails, Recalled, GoesOn, SaveTurn, Quiet, Start,
       Reading, historyVars
  <2>2. CASE Replied
    <3>1. CASE turn.reason # "none"
      BY <2>2, <3>1 DEF Promised, Replied
    <3>2. CASE turn.reason = "none"
      BY <2>2, <3>2 DEF Promised, Replied
    <3> QED
      BY <3>1, <3>2
  <2>3. CASE Notify \/ Forward
    BY <2>3 DEF Promised, Notify, Forward, historyVars
  <2>4. CASE BreaksOff
    BY <2>4 DEF Promised, BreaksOff
  <2> QED
    BY <2>1, <2>2, <2>3, <2>4 DEF Reduced
<1>3. Promised => PromiseIsKept
  BY DEF Promised, PromiseIsKept, Over
<1> QED
  BY <1>1, <1>2, <1>3, PTL DEF Spec

-----------------------------------------------------------------------------
(* The contact. *)

KnownAt(time) ==
    identity # NoRow /\ identity.firstSeen <= time /\ time <= identity.lastSeen

Contacted ==
    /\ turn.now <= clock
    /\ identity # NoRow => identity.firstSeen <= identity.lastSeen /\ identity.lastSeen <= clock
    /\ pc = "recordContact" /\ identity # NoRow => identity.lastSeen <= turn.now
    /\ pc \in Reading \cup {"get", "save"} => KnownAt(turn.now)
    /\ pc \in {"sendReply", "notify", "forward"} =>
          turn.reason = "state_store_unavailable" \/ KnownAt(turn.now)
    /\ conversation # NoRow => KnownAt(conversation.expiresAt - Ttl)

LEMMA ContactedInvariant == Typed /\ Contacted /\ Typed' /\ Reduced => Contacted'
<1> SUFFICES ASSUME Typed, Contacted, Typed', Reduced PROVE Contacted'
  OBVIOUS
<1>1. /\ clock \in Nat /\ turn.now \in Nat /\ Ttl \in Nat
      /\ identity # NoRow => identity.firstSeen \in Nat /\ identity.lastSeen \in Nat
      /\ conversation # NoRow => conversation.expiresAt \in Nat
      /\ clock' \in Nat
  BY StoreAssumption DEF Typed, RowsTypeOK, Locals, CustomerIdentity, ConversationState
<1>2. CASE \E b \in Batches : Start(b)
  <2>1. turn'.now = clock /\ pc' = "recordContact" /\ UNCHANGED <<rowVars, clock>>
    BY <1>2, NoTurnTyped DEF Start, Locals
  <2> QED
    BY <1>1, <2>1 DEF Contacted, KnownAt, rowVars, Reading
<1>3. CASE ContactRecorded
  <2>1. turn'.now = turn.now /\ pc' \in {"get", "sendReply"}
    BY <1>3 DEF ContactRecorded, Typed, Locals
  <2>2. CASE identity = NoRow
    <3>1. identity' = [firstSeen |-> turn.now, lastSeen |-> turn.now, returning |-> FALSE]
      BY <1>3, <2>2 DEF ContactRecorded, RecordContact
    <3>2. identity' # NoRow
      <4>1. identity' \in CustomerIdentity
        BY <1>1, <3>1 DEF CustomerIdentity
      <4> QED
        BY <4>1, StoreAssumption
    <3> QED
      BY <1>1, <1>3, <2>1, <2>2, <3>1, <3>2 DEF ContactRecorded, Contacted, KnownAt, Reading
  <2>3. CASE identity # NoRow
    <3>1. identity' = [identity EXCEPT !.lastSeen = turn.now, !.returning = TRUE]
      BY <1>3, <2>3 DEF ContactRecorded, RecordContact
    <3>2. /\ identity'.firstSeen = identity.firstSeen /\ identity'.lastSeen = turn.now
          /\ identity' # NoRow
      BY <1>1, <2>3, <3>1, StoreAssumption DEF CustomerIdentity, Typed, RowsTypeOK
    <3> QED
      BY <1>1, <1>3, <2>1, <2>3, <3>2 DEF ContactRecorded, Contacted, KnownAt, Reading
  <2> QED
    BY <2>2, <2>3
<1>4. CASE StoreFails
  BY <1>1, <1>4 DEF StoreFails, Settled, rowVars, Contacted, KnownAt, Reading
<1>5. CASE Recalled \/ GoesOn
  <2>1. UNCHANGED <<rowVars, clock>> /\ turn'.now = turn.now /\ pc \in Reading \cup {"get"}
        /\ pc' \in Reading \cup {"sendReply"}
    BY <1>5 DEF Recalled, GoesOn, Settled
  <2> QED
    BY <1>1, <2>1 DEF Contacted, KnownAt, rowVars, Reading
<1>6. CASE End
  <2>1. turn'.now = 0 /\ pc' = "idle" /\ UNCHANGED <<rowVars, clock>>
    BY <1>6 DEF End, NoTurn
  <2> QED
    BY <1>1, <2>1 DEF Contacted, KnownAt, rowVars, Reading
<1>7. CASE /\ UNCHANGED <<rowVars, clock, turn>>
           /\ \/ pc = "sendReply" /\ pc' = "notify"
              \/ pc = "notify" /\ pc' = "forward"
              \/ pc \in {"sendReply", "notify", "forward"} /\ pc' = "save" /\ ~EndsHere
  BY <1>1, <1>7 DEF Contacted, KnownAt, rowVars, Reading, EndsHere
<1>8. CASE Replied \/ Notify \/ Forward
  BY <1>6, <1>7, <1>8 DEF Replied, Notify, Forward, AfterNotification
<1>9. CASE SaveTurn
  <2>1. turn'.now = 0 /\ pc' = "idle" /\ UNCHANGED <<identity, clock>>
    BY <1>9 DEF SaveTurn, NoTurn
  <2>2. UNCHANGED conversation \/ conversation'.expiresAt = turn.now + Ttl
    BY <1>9 DEF SaveTurn, Save
  <2>3. KnownAt(turn.now)
    BY <1>9 DEF SaveTurn, Contacted
  <2> QED
    BY <1>1, <2>1, <2>2, <2>3 DEF Contacted, KnownAt, Reading
<1>10. CASE Quiet
  BY <1>1, <1>10 DEF Quiet, rowVars, Contacted, KnownAt
<1> QED
  BY <1>2, <1>3, <1>4, <1>5, <1>6, <1>8, <1>9, <1>10 DEF Reduced, BreaksOff

\* "Fail closed": whatever fails, and however the clock goes on between two
\* awaits, no conversation is stored of a customer whose contact was not
\* recorded first, in the same turn.
THEOREM ContactComesFirst == Spec => []ContactPrecedesConversation
<1>1. Init => Typed /\ Contacted
  BY InitTyped DEF Init, RowsInit, NoTurn, Contacted, KnownAt, Reading
<1>2. Typed /\ Contacted /\ [Next]_vars => Typed' /\ Contacted'
  BY NextTyped, NextReduced, ContactedInvariant
<1>3. Contacted => ContactPrecedesConversation
  BY DEF Contacted, KnownAt, ContactPrecedesConversation
<1> QED
  BY <1>1, <1>2, <1>3, PTL DEF Spec

-----------------------------------------------------------------------------
(* The cards of the customer.  Once the stored state has been read, the locals *)
(* hold what the customer told last; what is saved is what was told.           *)

LastCards ==
    LET earlier == IF told.at + Ttl > turn.now THEN told ELSE Nothing IN
    /\ turn.phone = IF turn.batch.phone THEN calls ELSE earlier.phone
    /\ turn.location = IF turn.batch.location THEN calls ELSE earlier.location

OwnCards ==
    /\ turn.phone = IF turn.batch.phone THEN calls ELSE 0
    /\ turn.location = IF turn.batch.location THEN calls ELSE 0

Remembered ==
    /\ IF conversation = NoRow THEN told = Nothing
       ELSE /\ told.at = conversation.expiresAt - Ttl
            /\ told.phone = conversation.phone
            /\ told.location = conversation.location
    /\ pc \in {"recordContact", "get"} => OwnCards /\ turn.reason = "none"
    /\ pc \in Reading \cup {"save"} => LastCards
    /\ pc \in {"notify", "forward"} => turn.reason = "state_store_unavailable" \/ LastCards
    /\ pc = "sendReply" => \/ turn.reason = "state_store_unavailable"
                           \/ turn.answer.kind = "mediaFallback" /\ turn.reason = "none"
                           \/ LastCards

LEMMA RememberedInvariant == Typed /\ Remembered /\ Typed' /\ Reduced => Remembered'
<1> SUFFICES ASSUME Typed, Remembered, Typed', Reduced PROVE Remembered'
  OBVIOUS
<1>1. CASE \E b \in Batches : Start(b)
  <2>1. PICK b \in Batches : Start(b)
    BY <1>1
  <2>2. /\ turn'.batch = b /\ turn'.reason = "none"
        /\ turn'.phone = IF b.phone THEN calls' ELSE 0
        /\ turn'.location = IF b.location THEN calls' ELSE 0
    BY <2>1, NoTurnTyped DEF Start, Locals
  <2> QED
    BY <2>1, <2>2 DEF Start, rowVars, Remembered, OwnCards, Reading
<1>2. CASE ContactRecorded
  <2>1. CASE pc' = "get" /\ UNCHANGED turn
    BY <1>2, <2>1 DEF ContactRecorded, historyVars, Remembered, OwnCards, Reading
  <2>2. CASE pc' = "sendReply" /\ turn' = [turn EXCEPT !.answer = Fallback("mediaFallback")]
    <3>1. turn'.answer.kind = "mediaFallback" /\ turn'.reason = turn.reason
      BY <2>2 DEF Typed, Locals, Fallback
    <3> QED
      BY <1>2, <2>2, <3>1 DEF ContactRecorded, historyVars, Remembered, Reading
  <2> QED
    BY <1>2, <2>1, <2>2 DEF ContactRecorded
<1>3. CASE StoreFails
  BY <1>3 DEF StoreFails, Settled, rowVars, historyVars, Remembered, Reading
<1>4. CASE Recalled
  <2> DEFINE row == Live(turn.now)
             earlier == IF told.at + Ttl > turn.now THEN told ELSE Nothing
  <2>1. OwnCards /\ calls' = calls /\ told' = told /\ conversation' = conversation
    BY <1>4 DEF Recalled, Remembered, historyVars, rowVars
  <2>2. /\ turn'.batch = turn.batch /\ turn'.now = turn.now
        /\ turn'.phone = IF row = NoRow \/ turn.batch.phone THEN turn.phone ELSE row.phone
        /\ turn'.location = IF row = NoRow \/ turn.batch.location THEN turn.location ELSE row.location
        /\ pc' \in Reading \cup {"sendReply"}
    BY <1>4 DEF Recalled
  <2>3. IF row = NoRow THEN earlier.phone = 0 /\ earlier.location = 0
        ELSE earlier.phone = row.phone /\ earlier.location = row.location
    <3>1. /\ turn.now \in Nat /\ Ttl \in Nat
          /\ conversation # NoRow => conversation.expiresAt \in Nat
      BY StoreAssumption DEF Typed, RowsTypeOK, Locals, ConversationState
    <3>2. CASE conversation = NoRow
      BY <3>1, <3>2 DEF Live, Remembered, Nothing
    <3>3. CASE conversation # NoRow /\ conversation.expiresAt > turn.now
      BY <3>1, <3>3 DEF Live, Remembered
    <3>4. CASE conversation # NoRow /\ ~(conversation.expiresAt > turn.now)
      BY <3>1, <3>4 DEF Live, Remembered, Nothing
    <3> QED
      BY <3>2, <3>3, <3>4
  <2> HIDE DEF row, earlier
  <2>4. /\ turn'.phone = IF turn.batch.phone THEN calls ELSE earlier.phone
        /\ turn'.location = IF turn.batch.location THEN calls ELSE earlier.location
    BY <2>1, <2>2, <2>3 DEF OwnCards
  <2>5. LastCards'
    BY <2>1, <2>2, <2>4 DEF LastCards, earlier
  <2> QED
    BY <2>1, <2>2, <2>5 DEF Remembered, Reading
<1>5. CASE GoesOn
  <2>1. LastCards /\ LastCards'
    BY <1>5 DEF GoesOn, Remembered, LastCards, Settled, historyVars
  <2> QED
    BY <1>5, <2>1 DEF GoesOn, Remembered, rowVars, historyVars, Reading
<1>6. CASE End /\ UNCHANGED told
  BY <1>6 DEF End, Remembered, rowVars, Reading
<1>7. CASE /\ UNCHANGED <<rowVars, turn, calls, told>>
           /\ \/ pc = "sendReply" /\ pc' = "notify" /\ turn.reason # "none"
              \/ pc = "notify" /\ pc' = "forward"
              \/ pc \in {"sendReply", "notify", "forward"} /\ pc' = "save" /\ ~EndsHere
  BY <1>7 DEF Remembered, rowVars, LastCards, Reading, EndsHere
<1>8. CASE Replied \/ Notify \/ Forward
  BY <1>6, <1>7, <1>8 DEF Replied, Notify, Forward, AfterNotification, historyVars
<1>9. CASE SaveTurn
  <2>1. CASE UNCHANGED <<conversation, told>>
    BY <1>9, <2>1 DEF SaveTurn, Remembered, Reading
  <2>2. CASE told' = ToldNow /\ conversation' # NoRow
             /\ conversation'.phone = turn.phone /\ conversation'.location = turn.location
             /\ conversation'.expiresAt = turn.now + Ttl
    <3>1. LastCards /\ turn.now \in Nat /\ Ttl \in Nat
      BY <1>9, StoreAssumption DEF SaveTurn, Remembered, Typed, Locals
    <3>2. told'.at = turn.now /\ told'.phone = turn.phone /\ told'.location = turn.location
      BY <2>2, <3>1 DEF ToldNow, LastCards
    <3> QED
      BY <1>9, <2>2, <3>1, <3>2 DEF SaveTurn, Remembered, Reading
  <2> QED
    BY <1>9, <2>1, <2>2, SaveReduced
<1>10. CASE Quiet
  BY <1>10 DEF Quiet, rowVars, historyVars, Remembered, OwnCards, LastCards
<1> QED
  BY <1>1, <1>2, <1>3, <1>4, <1>5, <1>6, <1>8, <1>9, <1>10 DEF Reduced, BreaksOff

\* "A phone shared several turns before handoff still reaches the manager":
\* whatever the batches and the times between them, and whichever saves failed,
\* the hand-off carries the latest phone and the latest location the customer
\* shared in this turn or in a saved one of the living conversation.
THEOREM HandoffsAreComplete == Spec => []HandoffIsComplete
<1>1. Init => Typed /\ Remembered
  BY InitTyped DEF Init, RowsInit, Remembered, Reading
<1>2. Typed /\ Remembered /\ [Next]_vars => Typed' /\ Remembered'
  BY NextTyped, NextReduced, RememberedInvariant
<1>3. Remembered => HandoffIsComplete
  BY DEF Remembered, HandoffIsComplete, LastCards, ToldNow
<1> QED
  BY <1>1, <1>2, <1>3, PTL DEF Spec


-----------------------------------------------------------------------------
(* The history: what it says was said, in that order and without a silence *)
(* of Ttl, for any bound on its length that is even.                        *)

\* Whole exchanges, each later than the one before, and no silence of Ttl.
Exchanges(turns) ==
    /\ Len(turns) % 2 = 0
    /\ \A i \in 1..Len(turns) :
          /\ turns[i].role = IF i % 2 = 1 THEN "user" ELSE "assistant"
          /\ i > 1 => /\ turns[i].at - turns[i - 1].at < Ttl
                      /\ IF i % 2 = 0 THEN turns[i].call = turns[i - 1].call
                         ELSE turns[i].call > turns[i - 1].call

LEMMA EvenSum ==
    ASSUME NEW m \in Nat, NEW k \in Nat, m % 2 = 0
    PROVE  (m + k) % 2 = k % 2
OBVIOUS

LEMMA EvenDifference ==
    ASSUME NEW m \in Nat, NEW k \in Nat, m % 2 = 0, k % 2 = 0, k <= m
    PROVE  (m - k) % 2 = 0
OBVIOUS

LEMMA Suffix ==
    ASSUME NEW S, NEW s \in Seq(S), NEW m \in 0..Len(s),
           NEW suffix, suffix = SubSeq(s, m + 1, Len(s))
    PROVE  /\ suffix \in Seq(S)
           /\ Len(suffix) = Len(s) - m
           /\ \A i \in 1..Len(s) - m : suffix[i] = s[m + i]
<1> DEFINE k == m + 1
           n == Len(s)
<1>1. k \in Int /\ n \in Int /\ m \in Nat /\ k = m + 1 /\ m <= n
  OBVIOUS
<1>2. \A i \in k..n : s[i] \in S
  OBVIOUS
<1>3. suffix = SubSeq(s, k, n)
  OBVIOUS
<1> HIDE DEF k, n
<1>4. suffix \in Seq(S)
  BY <1>1, <1>2, <1>3, SubSeqProperties
<1>5. Len(suffix) = IF k <= n THEN n - k + 1 ELSE 0
  BY <1>1, <1>2, <1>3, SubSeqProperties
<1>6. \A i \in 1..n - k + 1 : suffix[i] = s[k + i - 1]
  BY <1>1, <1>2, <1>3, SubSeqProperties
<1>7. n - k + 1 = n - m /\ \A i \in 1..n - m : k + i - 1 = m + i
  BY <1>1
<1>8. Len(suffix) = n - m
  BY <1>1, <1>5
<1>9. ASSUME NEW i \in 1..n - m PROVE suffix[i] = s[m + i]
  <2>1. i \in 1..n - k + 1 /\ k + i - 1 = m + i
    BY <1>7
  <2> QED
    BY <1>6, <2>1
<1> QED
  BY <1>4, <1>8, <1>9 DEF n

\* An exchange that can come next.
Follows(turns, said, answered) ==
    /\ said.role = "user" /\ answered.role = "assistant"
    /\ answered.call = said.call /\ answered.at = said.at
    /\ Len(turns) > 0 => /\ turns[Len(turns)].call < said.call
                         /\ said.at - turns[Len(turns)].at < Ttl

\* One more exchange keeps them so.
LEMMA ExtendedExchanges ==
    ASSUME NEW turns \in Seq(Turn), NEW said \in Turn, NEW answered \in Turn,
           Exchanges(turns), Follows(turns, said, answered),
           NEW longer, longer = turns \o <<said, answered>>
    PROVE  /\ longer \in Seq(Turn)
           /\ Len(longer) = Len(turns) + 2
           /\ \A i \in 1..Len(turns) : longer[i] = turns[i]
           /\ longer[Len(turns) + 1] = said
           /\ longer[Len(turns) + 2] = answered
           /\ Exchanges(longer)
<1> DEFINE n == Len(turns)
<1>1. n \in Nat /\ n % 2 = 0
  BY DEF Exchanges
<1>2. /\ <<said, answered>> \in Seq(Turn) /\ Len(<<said, answered>>) = 2
      /\ <<said, answered>>[1] = said /\ <<said, answered>>[2] = answered
  OBVIOUS
<1>3. /\ longer \in Seq(Turn) /\ Len(longer) = n + 2
      /\ \A i \in 1..n : longer[i] = turns[i]
      /\ longer[n + 1] = said /\ longer[n + 2] = answered
  BY <1>1, <1>2, ConcatProperties
<1> HIDE DEF n
<1>4. Len(longer) % 2 = 0 /\ (n + 1) % 2 = 1 /\ (n + 2) % 2 = 0
  <2>1. (n + 1) % 2 = 1 % 2 /\ (n + 2) % 2 = 2 % 2
    BY <1>1, EvenSum
  <2> QED
    BY <1>3, <2>1
<1>5. ASSUME NEW i \in 1..Len(longer)
      PROVE  /\ longer[i].role = IF i % 2 = 1 THEN "user" ELSE "assistant"
             /\ i > 1 => /\ longer[i].at - longer[i - 1].at < Ttl
                         /\ IF i % 2 = 0 THEN longer[i].call = longer[i - 1].call
                            ELSE longer[i].call > longer[i - 1].call
  <2>1. CASE i \in 1..n
    <3>1. longer[i] = turns[i] /\ (i > 1 => longer[i - 1] = turns[i - 1])
      BY <1>1, <1>3, <2>1
    <3> QED
      BY <2>1, <3>1 DEF Exchanges, n
  <2>2. CASE i = n + 1
    <3>1. longer[i] = said /\ i % 2 = 1
      BY <1>3, <1>4, <2>2
    <3>2. i > 1 => i - 1 = n /\ n \in 1..n /\ longer[i - 1] = turns[n] /\ n > 0
      BY <1>1, <1>3, <2>2
    <3>3. i > 1 => turns[n] \in Turn
      BY <1>1, <3>2 DEF n
    <3> QED
      BY <3>1, <3>2, <3>3 DEF n, Turn, Follows
  <2>3. CASE i = n + 2
    <3>1. i - 1 = n + 1 /\ i % 2 = 0
      BY <1>1, <1>4, <2>3
    <3>3. longer[i] = answered /\ longer[i - 1] = said
      BY <1>3, <2>3, <3>1
    <3>2. said.at - said.at < Ttl
      BY StoreAssumption DEF Turn
    <3> QED
      BY <3>1, <3>2, <3>3 DEF Follows
  <2> QED
    BY <1>1, <1>3, <2>1, <2>2, <2>3
<1> QED
  BY <1>1, <1>3, <1>4, <1>5 DEF Exchanges, n

\* So does dropping the oldest, because the bound is even.
LEMMA LastExchanges ==
    ASSUME NEW turns \in Seq(Turn), Exchanges(turns),
           NEW last, last = LastTurns(turns, MaxHistoryTurns)
    PROVE  /\ Exchanges(last)
           /\ Len(last) <= MaxHistoryTurns
           /\ \A i \in 1..Len(last) : \E j \in 1..Len(turns) : last[i] = turns[j]
           /\ Len(last) > 0 => last[Len(last)] = turns[Len(turns)]
<1> DEFINE n == Len(turns)
           dropped == IF n > MaxHistoryTurns THEN n - MaxHistoryTurns ELSE 0
<1>1. /\ n \in Nat /\ n % 2 = 0
      /\ MaxHistoryTurns \in Nat /\ MaxHistoryTurns % 2 = 0
  BY EngineAssumption DEF Exchanges
<1>2. dropped \in 0..n /\ dropped % 2 = 0 /\ n - dropped <= MaxHistoryTurns
  <2>1. CASE n > MaxHistoryTurns
    BY <1>1, <2>1, EvenDifference
  <2>2. CASE ~(n > MaxHistoryTurns)
    BY <1>1, <2>2
  <2> QED
    BY <2>1, <2>2
<1>3. last = SubSeq(turns, dropped + 1, n)
  BY <1>1 DEF LastTurns
<1> HIDE DEF n, dropped
<1>5. /\ last \in Seq(Turn)
      /\ Len(last) = n - dropped
      /\ \A i \in 1..n - dropped : last[i] = turns[dropped + i]
  BY <1>2, <1>3, Suffix DEF n
<1>6. Len(last) % 2 = 0
  BY <1>1, <1>2, <1>5, EvenDifference
<1>7. ASSUME NEW i \in 1..Len(last)
      PROVE  dropped + i \in 1..n /\ last[i] = turns[dropped + i]
  BY <1>1, <1>2, <1>5
<1>8. ASSUME NEW i \in 1..Len(last)
      PROVE  /\ last[i].role = IF i % 2 = 1 THEN "user" ELSE "assistant"
             /\ i > 1 => /\ last[i].at - last[i - 1].at < Ttl
                         /\ IF i % 2 = 0 THEN last[i].call = last[i - 1].call
                            ELSE last[i].call > last[i - 1].call
  <2>1. PICK j \in 1..n : j = dropped + i
    BY <1>7
  <2>2. last[i] = turns[j] /\ dropped \in Nat /\ i \in Nat
    BY <1>1, <1>2, <1>5, <1>7, <2>1
  <2>3. j % 2 = i % 2
    BY <1>2, <2>1, <2>2, EvenSum
  <2>4. i > 1 => i - 1 \in 1..n - dropped /\ dropped + (i - 1) = j - 1 /\ j > 1
    BY <1>1, <1>2, <1>5, <2>1
  <2>5. i > 1 => last[i - 1] = turns[j - 1]
    BY <1>5, <2>4
  <2>6. /\ turns[j].role = IF j % 2 = 1 THEN "user" ELSE "assistant"
        /\ j > 1 => /\ turns[j].at - turns[j - 1].at < Ttl
                    /\ IF j % 2 = 0 THEN turns[j].call = turns[j - 1].call
                       ELSE turns[j].call > turns[j - 1].call
    BY DEF Exchanges, n
  <2> QED
    BY <2>2, <2>3, <2>4, <2>5, <2>6
<1>9. Len(last) > 0 => last[Len(last)] = turns[n]
  <2>1. Len(last) > 0 => Len(last) \in 1..n - dropped /\ dropped + Len(last) = n
    BY <1>1, <1>2, <1>5
  <2> QED
    BY <1>5, <2>1
<1>10. \A i \in 1..Len(last) : \E j \in 1..n : last[i] = turns[j]
  BY <1>7
<1> QED
  BY <1>2, <1>5, <1>6, <1>8, <1>9, <1>10 DEF Exchanges, n

-----------------------------------------------------------------------------
(* What is stored was said, and what is told of the past is what is stored. *)

\* Turns of these calls, none of them later than this one, the last at this time.
TrueHistory(turns, among, number, time) ==
    /\ Exchanges(turns)
    /\ Len(turns) <= MaxHistoryTurns
    /\ \A i \in 1..Len(turns) : turns[i].call \in among /\ turns[i].call <= number
    /\ Len(turns) > 0 => turns[Len(turns)].at = time

Faithful ==
    /\ conversation # NoRow =>
          TrueHistory(conversation.history, heard, IF pc = "idle" THEN calls ELSE calls - 1,
                      conversation.expiresAt - Ttl)
    /\ pc \in {"recordContact", "get"} => turn.state = NoRow
    /\ pc \in Awaits /\ turn.state # NoRow =>
          turn.state = conversation /\ conversation.expiresAt > turn.now
    /\ pc \in {"notify", "forward", "save"} => calls \in heard

LEMMA TurnsTyped ==
    ASSUME NEW turns \in Seq(Turn), NEW i \in 1..Len(turns)
    PROVE  turns[i].call \in 1..MaxCalls /\ turns[i].call \in Nat /\ turns[i].at \in Nat
<1>1. turns[i] \in Turn
  OBVIOUS
<1> QED
  BY <1>1, StoreAssumption DEF Turn

\* More calls, and more that was heard, change nothing.
LEMMA StillSaid ==
    ASSUME NEW turns \in Seq(Turn), NEW number \in Int, NEW later \in Int, number <= later,
           NEW time, NEW among, NEW more, among \subseteq more,
           TrueHistory(turns, among, number, time)
    PROVE  TrueHistory(turns, more, later, time)
<1>1. \A i \in 1..Len(turns) : turns[i].call \in Int
  BY TurnsTyped
<1>2. \A i \in 1..Len(turns) : turns[i].call \in more /\ turns[i].call <= later
  BY <1>1 DEF TrueHistory
<1> QED
  BY <1>2 DEF TrueHistory

\* The history that is saved.
LEMMA SavedIsSaid ==
    ASSUME Typed, Faithful, pc = "save"
    PROVE  TrueHistory(NewHistory, heard, calls, turn.now)
<1> DEFINE earlier == IF turn.state = NoRow THEN <<>> ELSE turn.state.history
           asked == [role |-> "user", call |-> calls, at |-> turn.now, checked |-> TRUE]
           reply == [role |-> "assistant", call |-> calls, at |-> turn.now,
                        checked |-> turn.answer.checked]
<1>1. /\ calls \in 1..MaxCalls /\ turn.now \in Nat /\ turn.answer.checked \in BOOLEAN
      /\ calls \in heard /\ MaxCalls \in Nat /\ Ttl \in Nat
  BY StoreAssumption DEF Typed, GhostsTyped, Counted, Locals, Answers, Faithful
<1>2. asked \in Turn /\ reply \in Turn
  BY <1>1 DEF Turn
<1>3. /\ asked.role = "user" /\ reply.role = "assistant"
      /\ asked.call = calls /\ reply.call = calls
      /\ asked.at = turn.now /\ reply.at = turn.now
  OBVIOUS
<1>4. /\ earlier \in Seq(Turn)
      /\ Exchanges(earlier)
      /\ \A i \in 1..Len(earlier) : earlier[i].call \in heard /\ earlier[i].call <= calls - 1
      /\ Len(earlier) > 0 => turn.now - earlier[Len(earlier)].at < Ttl
  <2>1. CASE turn.state = NoRow
    BY <2>1 DEF Exchanges
  <2>2. CASE turn.state # NoRow
    <3>1. /\ turn.state = conversation /\ conversation.expiresAt > turn.now /\ conversation # NoRow
          /\ TrueHistory(conversation.history, heard, calls - 1, conversation.expiresAt - Ttl)
      BY <2>2 DEF Faithful, Awaits
    <3>2. conversation.history \in Seq(Turn) /\ conversation.expiresAt \in Nat
      BY <3>1 DEF Typed, RowsTypeOK, ConversationState
    <3>3. earlier = conversation.history
      BY <2>2, <3>1
    <3> HIDE DEF earlier
    <3> QED
      BY <1>1, <3>1, <3>2, <3>3 DEF TrueHistory
  <2> QED
    BY <2>1, <2>2
<1>5. Extended = earlier \o <<asked, reply>>
  BY DEF Extended
<1> HIDE DEF earlier, asked, reply
<1>6. Follows(earlier, asked, reply)
  <2>1. Len(earlier) > 0 => Len(earlier) \in 1..Len(earlier)
    BY <1>4
  <2>2. Len(earlier) > 0 => earlier[Len(earlier)].call \in Nat
    BY <1>4, <2>1, TurnsTyped
  <2> QED
    BY <1>1, <1>3, <1>4, <2>1, <2>2 DEF Follows
<1>7. /\ Extended \in Seq(Turn)
      /\ Len(Extended) = Len(earlier) + 2
      /\ \A i \in 1..Len(earlier) : Extended[i] = earlier[i]
      /\ Extended[Len(earlier) + 1] = asked
      /\ Extended[Len(earlier) + 2] = reply
      /\ Exchanges(Extended)
  <2>1. earlier \in Seq(Turn) /\ Exchanges(earlier)
    BY <1>4
  <2>2. Extended \in Seq(Turn) /\ Exchanges(Extended)
    BY <1>2, <1>5, <1>6, <2>1, ExtendedExchanges
  <2>3. Len(Extended) = Len(earlier) + 2
    BY <1>2, <1>5, <1>6, <2>1, ExtendedExchanges
  <2>4. \A i \in 1..Len(earlier) : Extended[i] = earlier[i]
    BY <1>2, <1>5, <1>6, <2>1, ExtendedExchanges
  <2>5. Extended[Len(earlier) + 1] = asked /\ Extended[Len(earlier) + 2] = reply
    BY <1>2, <1>5, <1>6, <2>1, ExtendedExchanges
  <2> QED
    BY <2>2, <2>3, <2>4, <2>5
<1>8. \A i \in 1..Len(Extended) : Extended[i].call \in heard /\ Extended[i].call <= calls
  <2> SUFFICES ASSUME NEW i \in 1..Len(Extended)
               PROVE  Extended[i].call \in heard /\ Extended[i].call <= calls
    OBVIOUS
  <2>1. CASE i \in 1..Len(earlier)
    <3>1. Extended[i] = earlier[i] /\ earlier[i].call \in heard /\ earlier[i].call <= calls - 1
      BY <1>4, <1>7, <2>1
    <3>2. Extended[i].call \in Nat
      BY <1>7, TurnsTyped
    <3> QED
      BY <1>1, <3>1, <3>2
  <2>2. CASE i = Len(earlier) + 1 \/ i = Len(earlier) + 2
    BY <1>1, <1>3, <1>7, <2>2
  <2> QED
    BY <1>4, <1>7, <2>1, <2>2
<1>9. /\ Exchanges(NewHistory)
      /\ Len(NewHistory) <= MaxHistoryTurns
      /\ \A i \in 1..Len(NewHistory) : \E j \in 1..Len(Extended) : NewHistory[i] = Extended[j]
      /\ Len(NewHistory) > 0 => NewHistory[Len(NewHistory)] = Extended[Len(Extended)]
  BY <1>7, LastExchanges DEF NewHistory
<1>10. Extended[Len(Extended)] = reply
  BY <1>7
<1> QED
  BY <1>3, <1>8, <1>9, <1>10 DEF TrueHistory

LEMMA FaithfulInvariant == Typed /\ Faithful /\ Typed' /\ Reduced => Faithful'
<1> SUFFICES ASSUME Typed, Faithful, Typed', Reduced PROVE Faithful'
  OBVIOUS
<1>1. /\ calls \in Nat /\ calls' \in Nat /\ turn.now \in Nat /\ Ttl \in Nat
      /\ conversation # NoRow => conversation.history \in Seq(Turn)
      /\ pc \in Awaits \cup {"idle"}
  BY StoreAssumption DEF Typed, GhostsTyped, Locals, RowsTypeOK, ConversationState
<1>2. ASSUME UNCHANGED conversation, heard \subseteq heard', conversation # NoRow,
             \/ calls' = calls /\ (pc = "idle" => pc' = "idle")
             \/ calls' = calls + 1 /\ pc = "idle" /\ pc' # "idle"
      PROVE  TrueHistory(conversation'.history, heard', IF pc' = "idle" THEN calls' ELSE calls' - 1,
                         conversation'.expiresAt - Ttl)
  <2> DEFINE before == IF pc = "idle" THEN calls ELSE calls - 1
             after == IF pc' = "idle" THEN calls' ELSE calls' - 1
             time == conversation.expiresAt - Ttl
             turns == conversation.history
  <2>1. before \in Int /\ after \in Int /\ before <= after
    <3>1. CASE pc = "idle" /\ pc' = "idle" /\ calls' = calls
      BY <1>1, <3>1
    <3>2. CASE pc = "idle" /\ pc' # "idle" /\ calls' = calls + 1
      BY <1>1, <3>2
    <3>3. CASE pc # "idle" /\ calls' = calls
      BY <1>1, <3>3
    <3> QED
      BY <1>2, <3>1, <3>2, <3>3
  <2>2. TrueHistory(turns, heard, before, time)
    BY <1>2 DEF Faithful
  <2>3. turns \in Seq(Turn)
    BY <1>1, <1>2
  <2> HIDE DEF before, after, time, turns
  <2>4. TrueHistory(turns, heard', after, time)
    BY <1>2, <2>1, <2>2, <2>3, StillSaid
  <2> QED
    BY <1>2, <2>4 DEF after, time, turns
<1>3. CASE \E b \in Batches : Start(b)
  <2>1. /\ UNCHANGED <<conversation, heard>> /\ calls' = calls + 1 /\ pc = "idle"
        /\ pc' = "recordContact" /\ turn'.state = NoRow
    BY <1>3, NoTurnTyped DEF Start, rowVars, Locals, NoTurn
  <2> QED
    BY <1>2, <2>1 DEF Faithful
<1>4. CASE ContactRecorded
  <2>1. /\ UNCHANGED <<conversation, heard, calls>> /\ pc = "recordContact"
        /\ pc' \in {"get", "sendReply"} /\ turn'.state = turn.state
    BY <1>4 DEF ContactRecorded, historyVars, Typed, Locals
  <2> QED
    BY <1>2, <2>1 DEF Faithful
<1>5. CASE StoreFails
  <2>1. /\ UNCHANGED <<conversation, heard, calls>> /\ pc \in {"recordContact", "get"}
        /\ pc' = "sendReply" /\ turn'.state = turn.state
    BY <1>5 DEF StoreFails, Settled, rowVars, historyVars
  <2> QED
    BY <1>2, <2>1 DEF Faithful
<1>6. CASE Recalled
  <2>1. /\ UNCHANGED <<conversation, heard, calls>> /\ pc = "get" /\ turn.state = NoRow
        /\ pc' \in Reading \cup {"sendReply"} /\ turn'.now = turn.now
        /\ turn'.state = Live(turn.now)
    BY <1>6 DEF Recalled, rowVars, historyVars, Faithful
  <2>2. turn'.state # NoRow => turn'.state = conversation' /\ conversation'.expiresAt > turn'.now
    BY <2>1 DEF Live
  <2> QED
    BY <1>2, <2>1, <2>2 DEF Faithful, Reading
<1>7. CASE GoesOn
  <2>1. /\ UNCHANGED <<conversation, heard, calls>> /\ pc \in Reading
        /\ pc' \in Reading \cup {"sendReply"} /\ turn'.now = turn.now /\ turn'.state = turn.state
    BY <1>7 DEF GoesOn, Settled, rowVars, historyVars
  <2> QED
    BY <1>2, <2>1 DEF Faithful, Reading, Awaits
<1>8. CASE End /\ pc # "idle" /\ heard \subseteq heard' /\ calls' = calls
  <2>1. UNCHANGED conversation /\ pc' = "idle"
    BY <1>8 DEF End, rowVars
  <2> QED
    BY <1>2, <1>8, <2>1 DEF Faithful, Awaits
<1>9. CASE /\ UNCHANGED <<rowVars, turn>> /\ heard \subseteq heard' /\ calls' = calls
           /\ pc \in {"sendReply", "notify", "forward"} /\ pc' \in {"notify", "forward", "save"}
           /\ calls \in heard'
  <2>1. UNCHANGED conversation
    BY <1>9 DEF rowVars
  <2> QED
    BY <1>2, <1>9, <2>1 DEF Faithful, Awaits
<1>10. CASE Replied
  <2>1. calls \in heard' /\ heard \subseteq heard' /\ calls' = calls
    BY <1>10 DEF Replied
  <2> QED
    BY <1>8, <1>9, <1>10, <2>1 DEF Replied
<1>11. CASE Notify \/ Forward
  <2>1. calls \in heard /\ heard' = heard /\ calls' = calls
    BY <1>11 DEF Notify, Forward, historyVars, Faithful
  <2> QED
    BY <1>8, <1>9, <1>11, <2>1 DEF Notify, Forward, AfterNotification
<1>12. CASE SaveTurn
  <2>1. pc = "save" /\ pc' = "idle" /\ UNCHANGED <<calls, heard>>
    BY <1>12 DEF SaveTurn
  <2>2. CASE UNCHANGED conversation
    BY <1>2, <2>1, <2>2 DEF Faithful, Awaits
  <2>3. CASE conversation' # NoRow /\ conversation'.history = NewHistory
             /\ conversation'.expiresAt = turn.now + Ttl
    <3>1. conversation'.expiresAt - Ttl = turn.now
      BY <1>1, <2>3
    <3>2. TrueHistory(NewHistory, heard, calls, turn.now)
      BY <2>1, SavedIsSaid
    <3> QED
      BY <2>1, <2>3, <3>1, <3>2 DEF Faithful, Awaits
  <2> QED
    BY <1>12, <2>2, <2>3, SaveReduced
<1>13. CASE BreaksOff
  BY <1>8, <1>13 DEF BreaksOff
<1>14. CASE Quiet
  <2>1. UNCHANGED <<conversation, heard, calls, pc, turn>>
    BY <1>14 DEF Quiet, rowVars, historyVars
  <2> QED
    BY <1>2, <2>1 DEF Faithful
<1> QED
  BY <1>3, <1>4, <1>5, <1>6, <1>7, <1>10, <1>11, <1>12, <1>13, <1>14 DEF Reduced

LEMMA FaithfulAlways == Spec => [](Typed /\ Faithful)
<1>1. Init => Typed /\ Faithful
  BY InitTyped DEF Init, RowsInit, NoTurn, Faithful, Awaits
<1>2. Typed /\ Faithful /\ [Next]_vars => Typed' /\ Faithful'
  BY NextTyped, NextReduced, FaithfulInvariant
<1> QED
  BY <1>1, <1>2, PTL DEF Spec

\* For any even bound, and whatever is saved, fails or crashes: the stored
\* history is whole exchanges in order, no longer than the bound, of calls whose
\* reply the customer has seen.
THEOREM HistoriesAreWhatWasSaid == Spec => []HistoryIsWhatWasSaid
<1>1. Typed /\ Faithful => HistoryIsWhatWasSaid
  <2> SUFFICES ASSUME Typed, Faithful, conversation # NoRow
               PROVE  LET turns == conversation.history IN
                      /\ Len(turns) <= MaxHistoryTurns
                      /\ \A i \in DOMAIN turns :
                            /\ turns[i].role = IF i % 2 = 1 THEN "user" ELSE "assistant"
                            /\ turns[i].call \in heard
                            /\ i > 1 => IF i % 2 = 0 THEN turns[i].call = turns[i - 1].call
                                        ELSE turns[i].call > turns[i - 1].call
    BY DEF HistoryIsWhatWasSaid
  <2> DEFINE turns == conversation.history
  <2>1. turns \in Seq(Turn)
    BY DEF Typed, RowsTypeOK, ConversationState
  <2>2. DOMAIN turns = 1..Len(turns)
    BY <2>1
  <2>3. PICK number, time : TrueHistory(turns, heard, number, time)
    BY DEF Faithful
  <2> HIDE DEF turns
  <2>4. /\ Len(turns) <= MaxHistoryTurns
        /\ \A i \in 1..Len(turns) :
              /\ turns[i].role = IF i % 2 = 1 THEN "user" ELSE "assistant"
              /\ turns[i].call \in heard
              /\ i > 1 => IF i % 2 = 0 THEN turns[i].call = turns[i - 1].call
                          ELSE turns[i].call > turns[i - 1].call
    BY <2>3 DEF TrueHistory, Exchanges
  <2> QED
    BY <2>2, <2>4 DEF turns
<1> QED
  BY FaithfulAlways, <1>1, PTL

\* "Short enough that this never becomes long-term memory": whenever the model is
\* asked, what it is told of the past has no silence of Ttl in it or after it,
\* however long the awaits take and whichever turns were not saved.
THEOREM NoContextIsCold == Spec => []NoColdContext
<1>1. Typed /\ Faithful => NoColdContext
  <2> SUFFICES ASSUME Typed, Faithful, pc = "generateReply", turn.state # NoRow,
                      NEW i \in DOMAIN turn.state.history
               PROVE  (IF i = Len(turn.state.history) THEN turn.now
                       ELSE turn.state.history[i + 1].at) - turn.state.history[i].at < Ttl
    BY DEF NoColdContext
  <2> DEFINE turns == turn.state.history
  <2>1. /\ turn.state = conversation /\ conversation # NoRow
        /\ conversation.expiresAt > turn.now
        /\ TrueHistory(turns, heard, calls - 1, conversation.expiresAt - Ttl)
    BY DEF Faithful, Awaits
  <2>2. /\ turns \in Seq(Turn) /\ conversation.expiresAt \in Nat /\ turn.now \in Nat
        /\ Ttl \in Nat
    BY <2>1, StoreAssumption DEF Typed, RowsTypeOK, ConversationState, Locals
  <2>3. i \in 1..Len(turns) /\ Len(turns) \in Nat
    BY <2>2
  <2> HIDE DEF turns
  <2>4. CASE i = Len(turns)
    <3>1. turns[i].at = conversation.expiresAt - Ttl
      BY <2>1, <2>3, <2>4 DEF TrueHistory
    <3> QED
      BY <2>1, <2>2, <2>4, <3>1 DEF turns
  <2>5. CASE i # Len(turns)
    <3>1. i + 1 \in 1..Len(turns) /\ i + 1 > 1 /\ (i + 1) - 1 = i
      BY <2>3, <2>5
    <3>2. turns[i + 1].at - turns[(i + 1) - 1].at < Ttl
      BY <2>1, <3>1 DEF TrueHistory, Exchanges
    <3> QED
      BY <2>5, <3>1, <3>2 DEF turns
  <2> QED
    BY <2>4, <2>5
<1> QED
  BY FaithfulAlways, <1>1, PTL
================================================================================

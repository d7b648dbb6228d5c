---------------------------- MODULE InstagramEvent ----------------------------
(***************************************************************************)
(* adapters/instagram/parseWebhookEvent.ts.  Objects are functions on the   *)
(* fields that were sent.  Of a text the parser asks only whether it is     *)
(* more than emoji: a text is a set of the kinds of characters in it.       *)
(***************************************************************************)
EXTENDS Naturals, SequencesExt

CONSTANT NoValue  \* what a field that was not sent reads as

KnownUnsupportedEventTypes == {"read", "reaction", "postback"}

KnownMediaTypes == {"image", "audio", "video", "file", "story_mention", "share"}

Text(message) == IF "text" \in DOMAIN message THEN message["text"] ELSE {}

Attachments(message) ==
    IF "attachments" \in DOMAIN message THEN message["attachments"] ELSE <<>>

isContentless(message) == Text(message) = {} /\ Attachments(message) = <<>>

\* Emoji and their joiners are removed, then blanks are trimmed.
isEmojiOnly(text) == text \cap {"emoji", "word"} = {"emoji"}

\* reply_to.story: the message points at a story of ours.
isBareStoryReaction(message) == "story" \in DOMAIN message /\ isEmojiOnly(Text(message))

detectMediaType(message) ==
    LET attachments == Attachments(message) IN
    CASE attachments = <<>> -> NoValue
      [] attachments # <<>> /\ attachments[1] \in KnownMediaTypes \cup {NoValue} -> attachments[1]
      [] OTHER -> "other"

toInboundMessage(event) ==
    LET message == event["message"] IN
    [customerId |-> <<"instagram", event["sender"]>>,
     messageId  |-> <<event["sender"], message["mid"]>>,
     sequence   |-> event["timestamp"],
     payload    |-> [text |-> Text(message), mediaType |-> detectMediaType(message)]]

Unsupported(updateType) == [kind |-> "unsupported", updateType |-> updateType]

\* Mutant of parseMessagingEvent: an echo is read like any other message.
ParseEchoesToo(event) ==
    IF "message" \notin DOMAIN event THEN Unsupported("unknown")
    ELSE IF isContentless(event["message"]) THEN Unsupported("contentless_message")
    ELSE IF isBareStoryReaction(event["message"]) THEN Unsupported("story_reaction")
    ELSE [kind |-> "message", message |-> toInboundMessage(event)]

parseMessagingEvent(event) ==
    LET known == KnownUnsupportedEventTypes \cap DOMAIN event IN
    IF "message" \in DOMAIN event
    THEN IF "is_echo" \in DOMAIN event["message"] THEN Unsupported("message_echo")
         ELSE IF isContentless(event["message"]) THEN Unsupported("contentless_message")
         ELSE IF isBareStoryReaction(event["message"]) THEN Unsupported("story_reaction")
         ELSE [kind |-> "message", message |-> toInboundMessage(event)]
    ELSE Unsupported(IF known = {} THEN "unknown" ELSE CHOOSE t \in known : TRUE)

\* Every event of every entry, in order; an entry without events has none.
parseInstagramWebhookEvent(payload) ==
    LET events == FlattenSeq([i \in DOMAIN payload |->
                    IF "messaging" \in DOMAIN payload[i] THEN payload[i]["messaging"] ELSE <<>>])
    IN [i \in DOMAIN events |-> parseMessagingEvent(events[i])]
===============================================================================

---------------------------- MODULE TelegramUpdate ----------------------------
(***************************************************************************)
(* adapters/telegram/parseUpdate.ts.  An update, a message in it, its       *)
(* sender and a file are functions on the fields that were sent; a text is  *)
(* what was typed, a number or a place.                                     *)
(***************************************************************************)
EXTENDS Naturals, Sequences

CONSTANT Null  \* what a field that was not sent reads as

Read(object, field) == IF field \in DOMAIN object THEN object[field] ELSE Null

\* The first of some values that is there.
FirstOf(values) ==
    LET there == {i \in DOMAIN values : values[i] # Null} IN
    IF there = {} THEN Null
    ELSE values[CHOOSE i \in there : \A j \in there : i <= j]

KnownUnsupportedUpdateTypes ==
    {"channel_post", "edited_channel_post", "callback_query", "inline_query",
     "my_chat_member", "chat_member", "business_connection", "deleted_business_messages"}

\* In the order they are looked for.
MediaTypes ==
    <<"photo", "voice", "video_note", "video", "sticker", "location", "contact", "document">>

FileFields == <<"photo", "voice", "video_note", "video", "document">>

DefaultMimeType(mediaType) ==
    CASE mediaType = "photo"      -> "image/jpeg"
      [] mediaType = "voice"      -> "audio/ogg"
      [] mediaType = "video_note" -> "video/mp4"
      [] OTHER                    -> Null

detectMediaType(message) ==
    FirstOf([i \in DOMAIN MediaTypes |->
               IF MediaTypes[i] \in DOMAIN message THEN MediaTypes[i] ELSE Null])

\* A photo comes in several sizes, the largest last.
FileIn(message, field) ==
    LET sizes == Read(message, "photo") IN
    IF field # "photo" THEN Read(message, field)
    ELSE IF sizes = Null \/ sizes = <<>> THEN Null ELSE sizes[Len(sizes)]

detectMedia(message) ==
    LET file == FirstOf([i \in DOMAIN FileFields |-> FileIn(message, FileFields[i])])
        mediaType == detectMediaType(message)
    IN IF file = Null \/ mediaType = Null
       THEN [mediaType |-> mediaType, fileId |-> Null, mimeType |-> Null]
       ELSE [mediaType |-> mediaType,
             fileId    |-> file["file_id"],
             mimeType  |-> FirstOf(<<Read(file, "mime_type"), DefaultMimeType(mediaType)>>)]

extractStructuredText(message) ==
    CASE "contact" \in DOMAIN message -> [phone |-> message["contact"]]
      [] "contact" \notin DOMAIN message /\ "location" \in DOMAIN message ->
            [place |-> message["location"]]
      [] OTHER -> Null

extractText(message) ==
    FirstOf(<<Read(message, "text"), Read(message, "caption"), extractStructuredText(message)>>)

\* A handle makes a link, a name alone does not.
describeSender(from) ==
    CASE "username" \in DOMAIN from -> [name |-> from["username"], link |-> from["username"]]
      [] "username" \notin DOMAIN from /\ {"first_name", "last_name"} \cap DOMAIN from # {} ->
            [name |-> <<Read(from, "first_name"), Read(from, "last_name")>>, link |-> Null]
      [] OTHER -> [name |-> Null, link |-> Null]

toInboundMessage(message, isEdited) ==
    LET media == detectMedia(message)
        sender == describeSender(IF "from" \in DOMAIN message THEN message["from"] ELSE <<>>)
    IN [customerId |-> <<"telegram", message["chat"]>>,
        messageId  |-> <<message["chat"], message["message_id"]>>,
        sequence   |-> message["message_id"],
        payload    |->
          [text                 |-> extractText(message),
           mediaType            |-> media.mediaType,
           mediaFileId          |-> media.fileId,
           mediaMimeType        |-> media.mimeType,
           isEdited             |-> isEdited,
           timestamp            |-> IF isEdited
                                    THEN FirstOf(<<Read(message, "edit_date"), message["date"]>>)
                                    ELSE message["date"],
           senderDisplayName    |-> sender.name,
           senderProfileUrl     |-> sender.link,
           sharedPhoneNumber    |-> Read(message, "contact"),
           sharedLocation       |-> Read(message, "location"),
           businessConnectionId |-> Read(message, "business_connection_id")]]

\* Where a message can be, and whether it is an edit there.
MessageFields ==
    <<"message", "edited_message", "business_message", "edited_business_message">>

IsEdit(field) == field \in {"edited_message", "edited_business_message"}

Unsupported(updateType) == [kind |-> "unsupported", updateType |-> updateType]

\* An update is of one type, so which known one is found first is no matter.
\* What was received as an update that is no object at all makes it throw, and
\* is left out.
parseUpdate(update) ==
    LET field == FirstOf([i \in DOMAIN MessageFields |->
                   IF MessageFields[i] \in DOMAIN update THEN MessageFields[i] ELSE Null])
        known == KnownUnsupportedUpdateTypes \cap DOMAIN update
    IN IF field # Null
       THEN [kind |-> "message", message |-> toInboundMessage(update[field], IsEdit(field))]
       ELSE Unsupported(IF known = {} THEN "unknown" ELSE CHOOSE t \in known : TRUE)
===============================================================================

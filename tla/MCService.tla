------------------------------ MODULE MCService ------------------------------
(***************************************************************************)
(* A small instance of Service: two requests of every kind that is treated  *)
(* differently, two signals, and every way to start that is.                *)
(***************************************************************************)
EXTENDS Service

CONSTANTS token, appSecret, otherKey, chat, customer,  \* values in requests
          mid1, mid2, mid3

Complete == [s \in Settings |-> Given]

With(environment, settings, value) ==
    [s \in Settings |-> IF s \in settings THEN value ELSE environment[s]]

TelegramOnly == With(Complete, InstagramSettings, Unset)

MCEnvironments ==
    {Complete,
     TelegramOnly,
     With(Complete, {"TELEGRAM_WEBHOOK_SECRET_TOKEN", "TOKEN_HEALTH_CHECK_INTERVAL_MS"}, Unset),
     With(Complete, {"TOKEN_HEALTH_CHECK_INTERVAL_MS"}, Zero),
     With(Complete, {"INSTAGRAM_APP_SECRET", "INSTAGRAM_PAGE_ID"}, Unset),
     With(Complete, {"PORT"}, Zero),
     With(With(Complete, {"PORT", "TOKEN_HEALTH_CHECK_INTERVAL_MS"}, Malformed),
          {"GEMINI_API_KEY"}, Unset),
     With(With(TelegramOnly, Required, Unset), {"INSTAGRAM_VERIFY_TOKEN"}, Given)}

\* Everything in order, and every one and every two of the parts out of order.
MCDamages == {{p, q} : p, q \in Parts} \cup {{}}

TelegramUpdate(field) ==
    field :> [chat |-> chat, message_id |-> 1, date |-> 1, caption |-> "words",
              photo |-> <<[file_id |-> "small"], [file_id |-> "large"]>>]

Event(message) == [sender |-> customer, timestamp |-> 1, message |-> message]

Words == Event([mid |-> mid1, text |-> {"word", "blank"}])
Echo == Event([mid |-> mid2, text |-> {"word"}, is_echo |-> TRUE])
Smile == Event([mid |-> mid2, text |-> {"emoji"}, story |-> TRUE])
Nothing == Event([mid |-> mid2])
Picture == Event([mid |-> mid3, attachments |-> <<"image">>])
Seen == [sender |-> customer, timestamp |-> 1, read |-> TRUE]

\* An entry may be of another kind and have no messaging events.
Delivery == <<[messaging |-> <<Words, Echo>>], [time |-> 1], [messaging |-> <<Smile, Picture>>]>>
Reactions == <<[messaging |-> <<Seen, Nothing>>]>>

Request(path, method, credential, size, body) ==
    [path |-> path, method |-> method, credential |-> credential,
     size |-> size, body |-> body, handshake |-> method = "GET"]

SignedWith(key, body) == [key |-> key, over |-> body]

MCRequests ==
    {Request("no URL", "GET", Absent, 0, Garbage),
     Request("health", "GET", Absent, 0, Garbage),
     Request("privacy", "GET", Absent, 0, Garbage),
     Request("telegram", "GET", Absent, 0, Garbage),
     Request("telegram", "POST", Absent, 1, TelegramUpdate("message")),
     Request("telegram", "POST", otherKey, 3, TelegramUpdate("message")),
     Request("telegram", "POST", token, 1, TelegramUpdate("edited_business_message")),
     Request("telegram", "POST", token, 0, Garbage),
     Request("telegram", "POST", token, 3, TelegramUpdate("message")),
     Request("instagram", "GET", token, 0, Garbage),
     Request("instagram", "GET", otherKey, 0, Garbage),
     Request("instagram", "DELETE", Absent, 0, Garbage),
     Request("instagram", "POST", SignedWith(appSecret, Delivery), 1, Delivery),
     Request("instagram", "POST", SignedWith(appSecret, Delivery), 3, Delivery),
     Request("instagram", "POST", SignedWith(appSecret, Reactions), 1, Reactions),
     Request("instagram", "POST", SignedWith(appSecret, Reactions), 1, Delivery),
     Request("instagram", "POST", SignedWith(otherKey, Delivery), 1, Delivery),
     Request("instagram", "POST", Absent, 1, Delivery),
     Request("instagram", "POST", SignedWith(appSecret, Garbage), 1, Garbage)}
==============================================================================

------------------------------- MODULE Webhook -------------------------------
(***************************************************************************)
(* The request handlers of index.ts and of the two webhookRouter.ts, as     *)
(* what each of their callbacks makes of an exchange: the request came in,  *)
(* a piece of its body did, its end did.                                    *)
(*                                                                          *)
(* A body is counted in pieces; only its whole is ever looked at.  A        *)
(* signature is the key it was made with and the body it was made over.     *)
(***************************************************************************)
EXTENDS Naturals, Sequences

CONSTANTS MaxBodySize,  \* MAX_BODY_SIZE_BYTES, in pieces
          SecretToken,  \* the values configured with the platforms
          AppSecret,
          VerifyToken,
          Absent,       \* what a header or parameter that was not sent reads as
          Garbage       \* a body that is not JSON

ASSUME WebhookAssumption ==
    /\ MaxBodySize \in Nat
    /\ Absent \notin {SecretToken, AppSecret, VerifyToken}

NewExchange(r) ==
    [request |-> r, reading |-> FALSE, received |-> 0, rejectedForSize |-> FALSE,
     answers |-> <<>>, handed |-> <<>>]

Answer(x, status) == [x EXCEPT !.answers = Append(@, status)]

\* The callbacks for "data" and "end" are installed.
ReadBody(x) == [x EXCEPT !.reading = TRUE]

\* onUpdate and onEvent: the body goes on to composition.ts.
HandOver(x) == [x EXCEPT !.handed = Append(@, x.request.body)]

\* timingSafeEqual, behind a comparison of the lengths: equality.
secretTokenMatches(provided) == provided # Absent /\ provided = SecretToken

verifyTokenMatches(provided) == provided # Absent /\ provided = VerifyToken

signatureMatches(body, header) ==
    header # Absent /\ header = [key |-> AppSecret, over |-> body]

-----------------------------------------------------------------------------
TelegramRequest(x, config) ==
    IF x.request.method # "POST" THEN Answer(x, 405)
    ELSE IF config.secretToken /\ ~secretTokenMatches(x.request.credential)
         THEN Answer(x, 401)
         ELSE ReadBody(x)

handleVerification(x) ==
    IF x.request.handshake /\ verifyTokenMatches(x.request.credential)
    THEN Answer(x, 200)
    ELSE Answer(x, 403)

InstagramRequest(x) ==
    CASE x.request.method = "GET"  -> handleVerification(x)
      [] x.request.method = "POST" -> ReadBody(x)
      [] OTHER                     -> Answer(x, 405)

\* Whether new URL can read the target of a request; it throws if not.
IsUrl(r) == r.path # "no URL"

\* createRequestHandler, from there.  policyIsThere: the file the page is read from.
OnRequest(x, config, policyIsThere) ==
    CASE x.request.path = "health"    -> Answer(x, 200)
      [] x.request.path = "privacy"   -> Answer(x, IF policyIsThere THEN 200 ELSE 500)
      [] x.request.path = "telegram"  -> TelegramRequest(x, config)
      [] x.request.path = "instagram" /\ config.instagram -> InstagramRequest(x)
      [] OTHER                        -> Answer(x, 404)

OnData(x) ==
    LET receivedBytes == x.received + 1 IN
    IF x.rejectedForSize THEN x
    ELSE IF receivedBytes > MaxBodySize
         THEN Answer([x EXCEPT !.received = receivedBytes, !.rejectedForSize = TRUE], 413)
         ELSE [x EXCEPT !.received = receivedBytes]

\* The end of a delivery whose sender is known.
Delivered(x) ==
    IF x.request.body = Garbage THEN Answer(x, 200) ELSE HandOver(Answer(x, 200))

OnEnd(x) ==
    LET done == [x EXCEPT !.reading = FALSE] IN
    IF x.rejectedForSize THEN done
    ELSE IF /\ x.request.path = "instagram"
            /\ ~signatureMatches(x.request.body, x.request.credential)
         THEN Answer(done, 401)
         ELSE Delivered(done)
===============================================================================

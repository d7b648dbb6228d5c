---------------------------- MODULE Configuration ----------------------------
(***************************************************************************)
(* config/config.ts: from the environment to the configuration, or to the  *)
(* list of everything that is wrong with it.  A setting is unset (or       *)
(* blank), a good value, the number zero or something that is no number.   *)
(* The warning about a missing secret token is only logged and left out.   *)
(***************************************************************************)
EXTENDS Naturals

Unset == "unset"
Given == "given"
Zero == "zero"
Malformed == "malformed"

Required == {"TELEGRAM_BOT_TOKEN", "MANAGER_NOTIFICATION_CHAT_ID", "GEMINI_API_KEY"}

InstagramSettings ==
    {"INSTAGRAM_PAGE_ACCESS_TOKEN", "INSTAGRAM_APP_SECRET",
     "INSTAGRAM_VERIFY_TOKEN", "INSTAGRAM_PAGE_ID"}

\* The settings that can be left out one by one.  Those that only name a file,
\* a model or a host behave like the secret token and are not listed.
Optional == {"TELEGRAM_WEBHOOK_SECRET_TOKEN", "PORT", "TOKEN_HEALTH_CHECK_INTERVAL_MS"}

Settings == Required \cup InstagramSettings \cup Optional

\* A blank string is unset; any other value of a required setting will do.
Environment ==
    {env \in [Settings -> {Unset, Given, Zero, Malformed}] :
        \A s \in Settings \ {"PORT", "TOKEN_HEALTH_CHECK_INTERVAL_MS"} :
           env[s] \in {Unset, Given}}

requireNonEmptyString(env) == {s \in Required : env[s] = Unset}

parsePort(env) == {s \in {"PORT"} : env[s] \in {Zero, Malformed}}

parseTokenHealthCheckIntervalMs(env) ==
    {s \in {"TOKEN_HEALTH_CHECK_INTERVAL_MS"} : env[s] = Malformed}

parseInstagramConfig(env) ==
    LET missing == {s \in InstagramSettings : env[s] = Unset} IN
    IF missing = InstagramSettings THEN {} ELSE missing

problems(env) ==
    requireNonEmptyString(env) \cup parsePort(env)
       \cup parseTokenHealthCheckIntervalMs(env) \cup parseInstagramConfig(env)

\* What the rest of the program reads of an environment without problems.
loadConfig(env) ==
    [secretToken |-> env["TELEGRAM_WEBHOOK_SECRET_TOKEN"] = Given,
     instagram   |-> \A s \in InstagramSettings : env[s] = Given,
     rechecks    |-> env["TOKEN_HEALTH_CHECK_INTERVAL_MS"] # Zero]

-----------------------------------------------------------------------------
\* What an operator needs of the list of problems: giving a good value to what
\* is on it makes the environment acceptable, and nothing on it can be skipped.
Repaired(env, fixed) == [s \in Settings |-> IF s \in fixed THEN Given ELSE env[s]]

IsExactDiagnosis(env, reported) ==
    /\ problems(Repaired(env, reported)) = {}
    /\ \A s \in reported : problems(Repaired(env, reported \ {s})) # {}
===============================================================================

------------------------------ MODULE Settings ------------------------------
(***************************************************************************)
(* From the environment to the running parts: internal/config/config.go    *)
(* reads and checks the environment variables, and the constructors that   *)
(* internal/app/build.go calls check what they are given once more.        *)
(*                                                                         *)
(* A variable's text is one of a few words that stand for the classes its  *)
(* parser tells apart: not set, empty, blank, a number ("0": not positive, *)
(* "5": positive; durations likewise), the name of a choice, a well-formed *)
(* value of the variable's own kind ("valid"), too short a secret, or      *)
(* anything else ("junk").                                                 *)
(***************************************************************************)
EXTENDS Integers

Unset == "unset"
Blank == " "
Texts == {Unset, "", Blank, "junk", "0", "5", "short", "valid",
          "all", "web", "worker", "log", "smtp", "text", "json"}

\* The variables, by the function that reads them.  The rate limits are read
\* alike for every policy; one stands for all.
Booleans == {"APP_COOKIE_SECURE", "AUTH_EMAIL_CHANGE_NOTICE_ENABLED", "EMAIL_LOG_BODY"}
OptionalNumbers == {"AUTH_PASSWORD_MIN_LENGTH", "RATE_LIMIT_MAX_REQUESTS",
                    "RATE_LIMIT_WINDOW"}
Durations == {"JOBS_CLEANUP_INTERVAL", "JOBS_CLEANUP_TOKEN_RETENTION",
              "JOBS_CLEANUP_SENT_EMAIL_RETENTION", "JOBS_CLEANUP_FAILED_EMAIL_RETENTION"}
Secrets == {"SECRET_KEY_BASE", "AUTH_TOTP_KEY", "AUTH_PASSWORD_PEPPER"}
SMTPVariables == {"SMTP_HOST", "SMTP_PORT", "SMTP_TLS", "SMTP_USERNAME", "SMTP_PASSWORD"}
Variables == Booleans \cup OptionalNumbers \cup Durations \cup Secrets \cup SMTPVariables
    \cup {"APP_PROCESS", "LOG_FORMAT", "EMAIL_PROVIDER", "APP_BASE_URL", "EMAIL_FROM",
          "TRUSTED_PROXY_IPS", "AUTH_PASSKEY_RP_ID"}

Processes == {"all", "web", "worker"}
Providers == {"log", "smtp"}

-----------------------------------------------------------------------------
(* internal/config: an environment is a function from the variables to     *)
(* their texts.                                                            *)

\* The process's own variables win over those of the file .env, even if empty.
LoadDotEnv(env, file) ==
    [v \in Variables |-> IF env[v] = Unset THEN file[v] ELSE env[v]]

Getenv(env, v) == IF env[v] = Unset THEN "" ELSE env[v]
TrimSpace(text) == IF text = Blank THEN "" ELSE text

\* strconv.Atoi and time.ParseDuration; what they reject counts as not positive,
\* which every caller rejects too.
Number(text) == IF text = "5" THEN 5 ELSE 0

envOrDefault(text, fallback) == IF text = "" THEN fallback ELSE text
envBool(text) == text \in {"", "0", "valid"}
envIntOptionalPositive(text) == text = "" \/ Number(text) > 0
envDurationOrDefault(text, fallback) ==
    IF TrimSpace(text) = "" THEN fallback ELSE Number(text)
envURL(text) == envOrDefault(text, "valid") = "valid"
envEmailAddress(text) == envOrDefault(text, "valid") = "valid"
envTrustedProxies(text) == TrimSpace(text) \in {"", "valid"}

\* envEmailProvider, envProcess and envLogFormat: the name, to be one of a few.
envName(text, fallback) == TrimSpace(envOrDefault(text, fallback))

processFromOverrideOrEnv(override, env) ==
    IF override # "" THEN override ELSE envName(Getenv(env, "APP_PROCESS"), "all")

\* Mutant: zero is a duration like any other.
ZeroAccepted(d) == d >= 0

\* value <= 0 is an error
PositiveDuration(d) == d > 0

\* The Config FromEnvWithProcess returns when it accepts the environment.
ConfigOf(override, env) ==
    LET smtp == envName(Getenv(env, "EMAIL_PROVIDER"), "log") = "smtp"
        ifSMTP(v, none) == IF smtp THEN v ELSE none
        duration(v) == envDurationOrDefault(Getenv(env, v), 5)
    IN  [process |-> processFromOverrideOrEnv(override, env),
         provider |-> envName(Getenv(env, "EMAIL_PROVIDER"), "log"),
         durations |-> [v \in Durations |-> duration(v)],
         secrets |-> [v \in Secrets |-> TrimSpace(Getenv(env, v))],
         rpid |-> TrimSpace(Getenv(env, "AUTH_PASSKEY_RP_ID")),
         from |-> envOrDefault(Getenv(env, "EMAIL_FROM"), "valid"),
         proxies |-> TrimSpace(Getenv(env, "TRUSTED_PROXY_IPS")),
         host |-> ifSMTP(TrimSpace(Getenv(env, "SMTP_HOST")), ""),
         port |-> ifSMTP(Number(Getenv(env, "SMTP_PORT")), 0),
         username |-> ifSMTP(TrimSpace(Getenv(env, "SMTP_USERNAME")), ""),
         password |-> ifSMTP(Getenv(env, "SMTP_PASSWORD"), "")]

\* The SMTP settings are read, and checked, only for the provider smtp.
SMTPAccepted(env, cfg) ==
    /\ cfg.host # ""
    /\ cfg.port > 0
    /\ envBool(Getenv(env, "SMTP_TLS"))
    /\ (cfg.username = "") <=> (cfg.password = "")

\* FromEnvWithProcess returns no error.
FromEnvWithProcess(override, env) ==
    LET cfg == ConfigOf(override, env) IN
    /\ cfg.process \in Processes
    /\ envName(Getenv(env, "LOG_FORMAT"), "text") \in {"text", "json"}
    /\ \A v \in Booleans : envBool(Getenv(env, v))
    /\ \A v \in OptionalNumbers : envIntOptionalPositive(Getenv(env, v))
    /\ envURL(Getenv(env, "APP_BASE_URL"))
    /\ envEmailAddress(Getenv(env, "EMAIL_FROM"))
    /\ cfg.provider \in Providers
    /\ \A v \in Durations : PositiveDuration(cfg.durations[v])
    /\ envTrustedProxies(Getenv(env, "TRUSTED_PROXY_IPS"))
    /\ cfg.provider = "smtp" => SMTPAccepted(env, cfg)

-----------------------------------------------------------------------------
(* The checks of internal/app/build.go and of the constructors it calls.   *)

\* A secret is set and has the minimal length.
validateSecurityConfig(cfg) == \A v \in Secrets : cfg.secrets[v] = "valid"

\* NewSMTPSender; the log sender takes anything.
newEmailSender(cfg) ==
    \/ cfg.provider = "log"
    \/ /\ cfg.provider = "smtp"
       /\ cfg.host # "" /\ cfg.port > 0
       /\ (TrimSpace(cfg.username) = "") <=> (cfg.password = "")
       /\ cfg.from = "valid"

NewCleanupJob(cfg) ==
    \A v \in Durations \ {"JOBS_CLEANUP_INTERVAL"} : cfg.durations[v] > 0

\* NewRunner; the email job's interval is a constant.
validateJob(cfg) == cfg.durations["JOBS_CLEANUP_INTERVAL"] > 0

parseTrustedProxies(cfg) == cfg.proxies \in {"", "valid"}

\* Everything buildRuntime can refuse, but for the WebAuthn library's view of the
\* relying party.  server.New's errors are left out: the cross-origin protection takes
\* the origin of every APP_BASE_URL that envURL accepts, and the templates are
\* embedded in the binary.
buildRuntime(cfg) ==
    /\ newEmailSender(cfg)
    /\ NewCleanupJob(cfg)
    /\ validateJob(cfg)
    /\ parseTrustedProxies(cfg)

=============================================================================

---------------------------- MODULE MCLifecycle -----------------------------
(***************************************************************************)
(* A small instance of Lifecycle for TLC: two complete environments, each  *)
(* with at most one variable given another text, and a file .env with at   *)
(* most one variable.                                                      *)
(***************************************************************************)
EXTENDS Lifecycle

CONSTANTS q1, q2

MCRequests == {q1, q2}

NothingSet == [v \in Variables |-> Unset]
LogSettings == [v \in Variables |-> IF v \in Secrets THEN "valid" ELSE Unset]
SMTPSettings ==
    [v \in Variables |->
        CASE v \in Secrets \cup {"SMTP_HOST", "SMTP_USERNAME", "SMTP_PASSWORD"} -> "valid"
          [] v = "SMTP_PORT" -> "5"
          [] v = "EMAIL_PROVIDER" -> "smtp"
          [] OTHER -> Unset]

\* For each variable the texts its parser tells apart.
TextsFor(v) ==
    CASE v = "APP_PROCESS" -> {"", Blank, "junk", "web", "worker"}
      [] v \in Secrets -> {Unset, "short"}
      [] v \in SMTPVariables -> {Unset, Blank, "junk", "0"}
      [] v = "EMAIL_PROVIDER" -> {Unset, Blank, "log", "smtp"}
      [] v \in Durations \cup OptionalNumbers -> {Blank, "0", "5"}
      [] OTHER -> {Blank, "junk", "valid"}

OneChanged(env) ==
    {env} \cup UNION {{[env EXCEPT ![v] = text] : text \in TextsFor(v)} : v \in Variables}

MCEnvironments == OneChanged(LogSettings) \cup OneChanged(SMTPSettings)
MCFiles == {NothingSet, [NothingSet EXCEPT !["APP_PROCESS"] = "worker"],
            [NothingSet EXCEPT !["JOBS_CLEANUP_INTERVAL"] = "0"]}

=============================================================================

----------------------------- MODULE Lifecycle ------------------------------
(***************************************************************************)
(* The life of a process: cmd/app/main.go from its arguments to its exit   *)
(* status, with the HTTP server's goroutine, the two loops of the job      *)
(* runner (internal/jobs) and the request handlers, which share the one    *)
(* connection of the database pool (internal/platform/sqlite).             *)
(*                                                                         *)
(* What the jobs and handlers do to the tables is in the other modules;    *)
(* here a statement is a use of the connection that succeeds or fails.     *)
(* net/http, database/sql and net/smtp are modelled from their use.        *)
(***************************************************************************)
EXTENDS Settings, Sequences

CONSTANTS
    Commands,       \* command lines, of AllCommands
    Environments,   \* what the process's environment may be
    Files,          \* what the file .env may say
    Requests,       \* HTTP requests that can be in progress together
    BatchSize       \* Processor.batchSize

AllCommands == {"", "all", "serve", "worker", "migrate up", "migrate", "other"}

ASSUME LifecycleAssumption ==
    /\ Commands \subseteq AllCommands
    /\ Environments \subseteq [Variables -> Texts]
    /\ Files \subseteq [Variables -> Texts]
    /\ BatchSize \in Nat \ {0}

VARIABLES
    main,        \* where the main goroutine is
    override,    \* the process override of the command line, until it is used
    cfg,         \* the Config, until Build has used it
    process,     \* cfg.Process
    provider,    \* cfg.EmailProvider
    db,          \* the database handle
    conn,        \* who holds the pool's connection for longer than a statement
    signalled,   \* ctx is cancelled
    jobsStopped, \* stopJobs was called
    server,      \* where the goroutine in ListenAndServe is
    errs,        \* what the channel errs holds
    err,         \* the error run will return, "" when there is none
    requests,    \* requests[r] : where the handler of request r is
    jobs,        \* jobs[j] : where the loop of job j is
    gaveUp       \* history: Shutdown returned before the handlers did

vars == <<main, override, cfg, process, provider, db, conn, signalled, jobsStopped,
          server, errs, err, requests, jobs, gaveUp>>
settings == <<override, cfg, process, provider>>
serverVars == <<server, errs>>
stopVars == <<signalled, jobsStopped>>

-----------------------------------------------------------------------------
Nobody == "nobody"

ASSUME NobodyAssumption == Nobody \notin Requests

NoConfig == [process |-> ""]
Jobs == {"email-outbox", "database-cleanup"}

\* The statements of CleanupJob.Run, in their order.
CleanupStatements == <<"DeleteExpiredSessions", "PrunePasswordResetTokens",
    "PruneEmailVerificationTokens", "PruneEmailChangeTokens",
    "PruneSentEmailOutboxRows", "PruneFailedEmailOutboxRows">>

\* n counts: the statement of a cleanup, the emails left of a batch.
Loop == [at : {"off", "run", "delete", "claim", "send", "talk", "hung", "mark",
               "failed", "finished", "wait", "ended"},
         n : 0..6 \cup 0..BatchSize]
At(where) == [at |-> where, n |-> 0]

Active(r) == requests[r] # "none"
InTransaction(r) == requests[r] = "query"
Running == {"select", "shutdown", "draining", "stop", "wait"}
Exited == main = "exited"

\* The jobs' context: ctx, or in runAll one derived from it.
Cancelled == signalled \/ jobsStopped

\* The shape of the state; the connection is held by whoever is in a transaction,
\* and the database is open whenever main waits for its parts.
TypeOK ==
    /\ main \in Running \cup {"args", "config", "migrate", "build", "run", "close",
                           "exit", "exited"}
    /\ override \in Processes \cup {""} /\ gaveUp \in BOOLEAN
    /\ process \in Processes \cup {""} /\ provider \in Providers \cup {""}
    /\ db \in {"none", "open", "closed"} /\ (main \in Running => db = "open")
    /\ conn \in Requests \cup {Nobody}
    /\ \A r \in Requests : InTransaction(r) <=> conn = r
    /\ signalled \in BOOLEAN /\ jobsStopped \in BOOLEAN
    /\ server \in {"off", "starting", "serving", "returned"}
    /\ errs \in {"empty", "failed"}
    /\ err \in {"", "args", "config", "migrate", "secrets", "database", "webauthn",
                "build", "serve", "shutdown"}
    /\ requests \in [Requests -> {"none", "begin", "query"}]
    /\ jobs \in [Jobs -> Loop]

Init ==
    /\ main = "args" /\ override = "" /\ gaveUp = FALSE
    /\ cfg = NoConfig /\ process = "" /\ provider = ""
    /\ db = "none" /\ conn = Nobody
    /\ signalled = FALSE /\ jobsStopped = FALSE
    /\ server = "off" /\ errs = "empty" /\ err = ""
    /\ requests = [r \in Requests |-> "none"]
    /\ jobs = [j \in Jobs |-> At("off")]

-----------------------------------------------------------------------------
(* Starting up.                                                            *)

\* parseCLIArgs and parseMigrateArgs; without a command APP_PROCESS decides.
parseCLIArgs ==
    /\ main = "args"
    /\ \E command \in Commands :
          /\ override' = CASE command = "all" -> "all"
                           [] command = "serve" -> "web"
                           [] command = "worker" -> "worker"
                           [] OTHER -> ""
          /\ CASE command = "migrate up" -> main' = "migrate" /\ err' = ""
               [] command \in {"migrate", "other"} -> main' = "exit" /\ err' = "args"
               [] OTHER -> main' = "config" /\ err' = ""
    /\ UNCHANGED <<cfg, process, provider, db, conn, stopVars, serverVars, requests,
                   jobs, gaveUp>>

\* run reads the file and the environment; a malformed file is refused like
\* malformed settings.
LoadConfig ==
    /\ main = "config"
    /\ \E env \in Environments, file \in Files :
          LET e == LoadDotEnv(env, file) IN
          IF FromEnvWithProcess(override, e)
          THEN main' = "build" /\ cfg' = ConfigOf(override, e) /\ err' = err
          ELSE main' = "exit" /\ cfg' = cfg /\ err' = "config"
    /\ override' = ""
    /\ UNCHANGED <<process, provider, db, conn, stopVars, serverVars, requests, jobs,
                   gaveUp>>

\* runMigrate; goose opens and closes a handle of its own.
runMigrate ==
    /\ main = "migrate"
    /\ \E env \in Environments, file \in Files :
          err' \in IF FromEnvWithProcess("all", LoadDotEnv(env, file))
                   THEN {"", "migrate"} ELSE {"config"}
    /\ main' = "exit"
    /\ UNCHANGED <<settings, db, conn, stopVars, serverVars, requests, jobs, gaveUp>>

\* Build: the settings end up in its parts, but for the two main goes on to use.
\* Whatever fails, the handle is closed.
Build ==
    /\ main = "build"
    /\ cfg' = NoConfig
    /\ \/ /\ ~validateSecurityConfig(cfg)
          /\ main' = "exit" /\ err' = "secrets"
          /\ UNCHANGED <<process, provider, db>>
       \/ /\ validateSecurityConfig(cfg)
          /\ main' = "exit" /\ err' = "database"
          /\ UNCHANGED <<process, provider, db>>
       \/ /\ validateSecurityConfig(cfg)
          /\ main' = "exit" /\ db' = "closed"
          /\ err' = IF buildRuntime(cfg) THEN "webauthn" ELSE "build"
          /\ UNCHANGED <<process, provider>>
       \/ /\ validateSecurityConfig(cfg) /\ buildRuntime(cfg)
          /\ main' = "run" /\ db' = "open" /\ process' = cfg.process
          /\ provider' = cfg.provider
          /\ err' = err
    /\ UNCHANGED <<override, conn, stopVars, serverVars, requests, jobs, gaveUp>>

\* runAll and runWeb start the server's goroutine, runAll and runWorker the jobs;
\* both jobs run at start.
Run ==
    /\ main = "run"
    /\ main' = IF process = "worker" THEN "wait" ELSE "select"
    /\ server' = IF process = "worker" THEN "off" ELSE "starting"
    /\ jobs' = IF process = "web" THEN jobs ELSE [j \in Jobs |-> At("run")]
    /\ UNCHANGED <<settings, db, conn, stopVars, errs, err, requests, gaveUp>>

(* Interrupt or SIGTERM; a second one changes nothing, the handler stays.   *)

Signal ==
    /\ main \in Running /\ ~signalled
    /\ signalled' = TRUE
    /\ UNCHANGED <<main, settings, db, conn, jobsStopped, serverVars, err, requests,
                   jobs, gaveUp>>

-----------------------------------------------------------------------------
(* The HTTP server: net/http's ListenAndServe in a goroutine, a handler in  *)
(* one of its own for each request.                                        *)

\* The address may be in use.
Listen ==
    /\ server = "starting"
    /\ \/ server' = "serving" /\ errs' = errs
       \/ server' = "returned" /\ errs' = "failed"
    /\ UNCHANGED <<main, settings, db, conn, stopVars, err, requests, jobs, gaveUp>>

\* Accept fails and Serve returns.
AcceptFails ==
    /\ server = "serving"
    /\ server' = "returned" /\ errs' = "failed"
    /\ UNCHANGED <<main, settings, db, conn, stopVars, err, requests, jobs, gaveUp>>

Accept(r) ==
    /\ server = "serving"
    /\ requests[r] = "none"
    /\ requests' = [requests EXCEPT ![r] = "begin"]
    /\ UNCHANGED <<main, settings, db, conn, stopVars, serverVars, err, jobs, gaveUp>>

\* withTx: BeginTx takes the connection for the transaction.
BeginTx(r) ==
    /\ requests[r] = "begin"
    /\ db = "open" /\ conn = Nobody
    /\ conn' = r
    /\ requests' = [requests EXCEPT ![r] = "query"]
    /\ UNCHANGED <<main, settings, db, stopVars, serverVars, err, jobs, gaveUp>>

\* Mutant: the closure uses the pool instead of the transaction.
ConnectionForQuery(r) == conn = Nobody

\* queries.WithTx(tx): the closure's statements run on the transaction's connection.
ConnectionOfTx(r) == conn = r

\* Mutant: no deferred Rollback.
ConnectionKept == conn

\* Commit, or the deferred Rollback, returns the connection.
Released == Nobody

\* The closure's statements, Commit or after a failure Rollback, and the answer.
EndTx(r) ==
    /\ requests[r] = "query"
    /\ ConnectionOfTx(r)
    /\ conn' = Released
    /\ requests' = [requests EXCEPT ![r] = "none"]
    /\ UNCHANGED <<main, settings, db, stopVars, serverVars, err, jobs, gaveUp>>

\* The handler answers without the transaction: it needs none, the database is
\* closed, or the client went away (and the request's context with it).
AnswerWithoutTx(r) ==
    /\ requests[r] = "begin"
    /\ requests' = [requests EXCEPT ![r] = "none"]
    /\ UNCHANGED <<main, settings, db, conn, stopVars, serverVars, err, jobs, gaveUp>>

-----------------------------------------------------------------------------
(* The jobs' loops (internal/jobs/runner.go).                              *)

SetJob(j, loop) ==
    /\ jobs' = [jobs EXCEPT ![j] = loop]
    /\ UNCHANGED <<main, settings, db, conn, stopVars, serverVars, err, requests, gaveUp>>

\* A statement outside a transaction: it waits for the connection, and fails at
\* once under a cancelled context.
StatementRuns == db = "open" /\ conn = Nobody /\ ~Cancelled
StatementFails == Cancelled \/ StatementRuns

Start(j) ==
    /\ jobs[j].at = "run"
    /\ SetJob(j, IF j = "email-outbox" THEN At("claim")
                                       ELSE [at |-> "delete", n |-> 1])

\* Mutant: any error ends the loop.
EndsAfter(failed) == failed

\* runJobOnce returns false: the run failed and the context is cancelled.
JobStops(failed) == failed /\ Cancelled

runJobOnceReturns(j) ==
    /\ jobs[j].at \in {"failed", "finished"}
    /\ SetJob(j, At(IF JobStops(jobs[j].at = "failed") THEN "ended" ELSE "wait"))

\* The ticker; select may pick it although the context is cancelled as well.
Tick(j) ==
    /\ jobs[j].at = "wait"
    /\ SetJob(j, At("run"))

Done(j) ==
    /\ jobs[j].at = "wait" /\ Cancelled
    /\ SetJob(j, At("ended"))

(* CleanupJob.Run: six deletions, up to the first that fails.              *)

DeleteRows ==
    LET j == "database-cleanup" IN
    /\ jobs[j].at = "delete"
    /\ \/ /\ StatementRuns
          /\ SetJob(j, IF jobs[j].n < Len(CleanupStatements)
                       THEN [jobs[j] EXCEPT !.n = @ + 1] ELSE At("finished"))
       \/ StatementFails /\ SetJob(j, At("failed"))

(* Processor.ProcessPending over the sender.                               *)

ClaimPending ==
    LET j == "email-outbox" IN
    /\ jobs[j].at = "claim"
    /\ \/ /\ StatementRuns
          /\ \E n \in 0..BatchSize :
                SetJob(j, IF n = 0 THEN At("finished") ELSE [at |-> "send", n |-> n])
       \/ StatementFails /\ SetJob(j, At("failed"))

\* Send up to the dialled connection: the log sender is done, a cancelled context
\* or a failed dial is an error, and both are then marked.
Send ==
    LET j == "email-outbox" IN
    /\ jobs[j].at = "send"
    /\ \/ SetJob(j, [jobs[j] EXCEPT !.at = "mark"])
       \/ /\ provider = "smtp" /\ ~Cancelled
          /\ SetJob(j, [jobs[j] EXCEPT !.at = "talk"])

\* The SMTP conversation ends, well or not.
TalkEnds ==
    LET j == "email-outbox" IN
    /\ jobs[j].at = "talk"
    /\ SetJob(j, [jobs[j] EXCEPT !.at = "mark"])

\* The mail server stops answering.  The dial had a timeout and the context; the
\* conversation has neither.
MailServerHangs ==
    LET j == "email-outbox" IN
    /\ jobs[j].at = "talk"
    /\ SetJob(j, [jobs[j] EXCEPT !.at = "hung"])

\* It answers after all, or the connection breaks.
HangEnds ==
    LET j == "email-outbox" IN
    /\ jobs[j].at = "hung"
    /\ SetJob(j, [jobs[j] EXCEPT !.at = "mark"])

Mark ==
    LET j == "email-outbox" IN
    /\ jobs[j].at = "mark"
    /\ \/ /\ StatementRuns
          /\ SetJob(j, IF jobs[j].n > 1 THEN [at |-> "send", n |-> jobs[j].n - 1]
                                        ELSE At("finished"))
       \/ StatementFails /\ SetJob(j, At("failed"))

-----------------------------------------------------------------------------
(* Stopping: runAll, runWeb and runWorker after their parts were started.  *)

\* case <-ctx.Done()
SelectDone ==
    /\ main = "select" /\ signalled
    /\ main' = "shutdown"
    /\ UNCHANGED <<settings, db, conn, stopVars, serverVars, err, requests, jobs, gaveUp>>

\* case err := <-errs; runWeb returns it at once, runAll shuts down first.
SelectErr ==
    /\ main = "select" /\ errs # "empty"
    /\ errs' = "empty"
    /\ err' = "serve"
    /\ main' = IF process = "web" THEN "close" ELSE "shutdown"
    /\ UNCHANGED <<settings, db, conn, stopVars, server, requests, jobs, gaveUp>>

\* httpServer.Shutdown closes the listener and waits for the handlers.  All that
\* ListenAndServe can do from here on is to return ErrServerClosed, into a channel
\* with room for it that nobody reads any more.
Shutdown ==
    /\ main = "shutdown"
    /\ server' = "returned"
    /\ main' = "draining"
    /\ UNCHANGED <<settings, db, conn, stopVars, errs, err, requests, jobs, gaveUp>>

\* Mutant: an error of Shutdown takes the place of an earlier one, or of none.
LastErr(e) == e

\* if err != nil && firstErr == nil
firstErr(e) == IF err = "" THEN e ELSE err

AfterShutdown == IF process = "web" THEN "close" ELSE "stop"

ShutdownReturns ==
    /\ main = "draining"
    /\ \/ (\A r \in Requests : ~Active(r)) /\ err' = firstErr("") /\ gaveUp' = FALSE
       \/ (\E r \in Requests : Active(r)) /\ err' = firstErr("shutdown") /\ gaveUp' = TRUE
    /\ main' = AfterShutdown
    /\ UNCHANGED <<settings, db, conn, stopVars, serverVars, requests, jobs>>

\* Mutant: the jobs are waited for without being stopped.
JobsLeftRunning == UNCHANGED jobsStopped

CancelJobs == jobsStopped' = TRUE

stopJobs ==
    /\ main = "stop"
    /\ CancelJobs
    /\ main' = "wait"
    /\ UNCHANGED <<settings, db, conn, signalled, serverVars, err, requests, jobs, gaveUp>>

\* Mutant: run returns without waiting.
NotWaited == TRUE

\* Runner.Run: <-ctx.Done(), then wg.Wait()
JobsDone == Cancelled /\ \A j \in Jobs : jobs[j].at = "ended"

\* <-jobsDone in runAll, the return of Runner.Run in runWorker.
WaitForJobs ==
    /\ main = "wait"
    /\ JobsDone
    /\ main' = "close"
    /\ UNCHANGED <<settings, db, conn, stopVars, serverVars, err, requests, jobs, gaveUp>>

\* The deferred runtime.Close of run.
Close ==
    /\ main = "close"
    /\ db' = "closed"
    /\ main' = "exit"
    /\ UNCHANGED <<settings, conn, stopVars, serverVars, err, requests, jobs, gaveUp>>

\* main returns, or os.Exit(1) if run returned an error; the goroutines are gone,
\* whatever they were doing.
Exit ==
    /\ main = "exit"
    /\ main' = "exited"
    /\ conn' = Nobody /\ server' = "off" /\ errs' = "empty"
    /\ requests' = [r \in Requests |-> "none"]
    /\ jobs' = [j \in Jobs |-> At("off")]
    /\ UNCHANGED <<settings, db, stopVars, err, gaveUp>>

\* The process is gone.
Gone == Exited /\ UNCHANGED vars

-----------------------------------------------------------------------------

StartUp == parseCLIArgs \/ LoadConfig \/ runMigrate \/ Build \/ Run

ShutDown ==
    \/ SelectDone \/ SelectErr \/ Shutdown \/ ShutdownReturns \/ stopJobs
    \/ WaitForJobs \/ Close \/ Exit

LoopStep(j) == Start(j) \/ runJobOnceReturns(j) \/ Tick(j) \/ Done(j)

EmailStatement == ClaimPending \/ Mark
EmailStep == Send \/ TalkEnds

Next ==
    \/ StartUp \/ Signal \/ ShutDown
    \/ Listen \/ AcceptFails
    \/ \E r \in Requests : Accept(r) \/ BeginTx(r) \/ EndTx(r) \/ AnswerWithoutTx(r)
    \/ \E j \in Jobs : LoopStep(j)
    \/ DeleteRows \/ EmailStatement \/ EmailStep
    \/ MailServerHangs \/ HangEnds
    \/ Gone

\* The goroutines run.  The pool hands a returned connection to one of those that
\* wait for it, none of them for ever passed over: strong fairness.  Clients,
\* signals and failures need not come; a mail server that hangs may do so for good.
Fairness ==
    /\ WF_vars(StartUp) /\ WF_vars(ShutDown) /\ WF_vars(Listen)
    /\ \A r \in Requests :
          /\ SF_vars(BeginTx(r)) /\ WF_vars(EndTx(r))
          /\ WF_vars(db = "closed" /\ AnswerWithoutTx(r))
    /\ \A j \in Jobs : WF_vars(LoopStep(j))
    /\ SF_vars(DeleteRows) /\ SF_vars(EmailStatement) /\ WF_vars(EmailStep)

Spec == Init /\ [][Next]_vars /\ Fairness

-----------------------------------------------------------------------------
(* Correctness.                                                            *)

Hung == jobs["email-outbox"].at = "hung"
StopAsked == signalled \/ errs = "failed"
Stopping == Cancelled \/ errs # "empty" \/ main \notin Running

\* Once it is signalled, or its listener has failed, the process exits, in every
\* mode: the handlers are waited for only so long, and no job keeps the process
\* alive ("a startup error (e.g. port already in use) would hang on jobsDone",
\* runAll), but for a mail server that never answers in mid-conversation.
ExitsWhenStopped == StopAsked ~> (Exited \/ []Hung)

\* A request that was accepted is answered (or the process exits): handlers that
\* wait for the pool's only connection all get it, whatever the jobs do.
RequestsAreAnswered ==
    \A r \in Requests : Active(r) ~> (~Active(r) \/ Exited)

\* Until the process is stopped each job runs again and again, after failed runs
\* too, and the cleanup while the email job hangs.
JobsGoOn ==
    \A j \in Jobs :
        jobs[j].at # "off" ~>
            (Stopping \/ jobs[j].at \in {"failed", "finished", "hung"})

\* The database is closed when nobody uses it any more: the loops have ended, and
\* handlers are left only if Shutdown gave up on them or, in runWeb, the listener
\* failed.  It is closed by every exit.
DatabaseOutlivesItsUsers ==
    /\ db = "closed" =>
        /\ \A j \in Jobs : jobs[j].at \in {"off", "ended"}
        /\ (\E r \in Requests : Active(r)) =>
              gaveUp \/ (process = "web" /\ err = "serve")
    /\ Exited => db # "open"

\* The exit status is what a supervisor restarts by: without an error the process
\* was told to stop or was a migration, and the settings config accepts are never
\* refused by the parts that are built from them.
ExitTellsWhy ==
    /\ Exited /\ err = "" => signalled \/ process = ""
    /\ err # "build"

=============================================================================

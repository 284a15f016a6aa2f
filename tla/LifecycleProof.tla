--------------------------- MODULE LifecycleProof ---------------------------
(***************************************************************************)
(* Proofs about Lifecycle and Settings, for any command lines,             *)
(* environments and files .env, any number of requests in progress and any *)
(* size of a batch of emails.                                              *)
(***************************************************************************)
EXTENDS Lifecycle, TLAPS

-----------------------------------------------------------------------------
(* The settings.                                                           *)

\* Settings that config accepts are refused by none of the parts built from them,
\* and name a process and an email provider there is, whatever the command line,
\* the environment and the file say.
THEOREM AcceptedSettingsBuild ==
    ASSUME NEW named \in Processes \cup {""}, NEW env \in [Variables -> Texts],
           FromEnvWithProcess(named, env)
    PROVE  /\ buildRuntime(ConfigOf(named, env))
           /\ ConfigOf(named, env).process \in Processes
           /\ ConfigOf(named, env).provider \in Providers
  <1> DEFINE c == ConfigOf(named, env)
  <1>1. c.process \in Processes /\ c.provider \in Providers
    BY DEF FromEnvWithProcess
  <1>2. \A v \in Durations : c.durations[v] > 0
    BY DEF FromEnvWithProcess, PositiveDuration
  <1>3. NewCleanupJob(c) /\ validateJob(c)
    BY <1>2 DEF NewCleanupJob, validateJob, Durations
  <1>4. parseTrustedProxies(c)
    BY DEF FromEnvWithProcess, envTrustedProxies, ConfigOf, parseTrustedProxies
  <1>5. c.from = "valid"
    BY DEF FromEnvWithProcess, envEmailAddress, ConfigOf
  <1>6. CASE c.provider = "smtp"
    <2>1. c.host # "" /\ c.port > 0 /\ ((c.username = "") <=> (c.password = ""))
      BY <1>6 DEF FromEnvWithProcess, SMTPAccepted
    <2>2. TrimSpace(c.username) = c.username
      BY DEF ConfigOf, TrimSpace, Blank
    <2>3. newEmailSender(c)
      BY <1>5, <1>6, <2>1, <2>2 DEF newEmailSender
    <2> QED
      BY <1>1, <1>3, <1>4, <2>3 DEF buildRuntime
  <1>7. CASE c.provider = "log"
    BY <1>1, <1>3, <1>4, <1>7 DEF buildRuntime, newEmailSender
  <1> QED
    BY <1>1, <1>6, <1>7 DEF Providers

-----------------------------------------------------------------------------
(* The inductive invariant.  What TypeOK and the properties leave out is   *)
(* what main relies on at each point: what has been started, what has been *)
(* stopped, and why.                                                       *)

Starting == {"args", "config", "migrate", "build", "run"}
AfterServer == {"draining", "stop", "wait", "close", "exit", "exited"}

\* TypeOK in parts: the shapes of the variables, and who holds the connection.
MainShapes ==
    /\ main \in Running \cup {"args", "config", "migrate", "build", "run", "close",
                           "exit", "exited"}
    /\ db \in {"none", "open", "closed"} /\ (main \in Running => db = "open")

PartShapes ==
    /\ override \in Processes \cup {""} /\ gaveUp \in BOOLEAN
    /\ process \in Processes \cup {""} /\ provider \in Providers \cup {""}
    /\ signalled \in BOOLEAN /\ jobsStopped \in BOOLEAN
    /\ server \in {"off", "starting", "serving", "returned"}
    /\ errs \in {"empty", "failed"}
    /\ err \in {"", "args", "config", "migrate", "secrets", "database", "webauthn",
                "build", "serve", "shutdown"}
    /\ jobs \in [Jobs -> Loop]

Shapes == MainShapes /\ PartShapes

ConnectionHeld ==
    /\ requests \in [Requests -> {"none", "begin", "query"}]
    /\ conn \in Requests \cup {Nobody}
    /\ \A r \in Requests : InTransaction(r) <=> conn = r

\* Until its parts run, a process has none; the database is opened last.
NothingStarted ==
    main \in Starting =>
       /\ server = "off" /\ errs = "empty" /\ err = ""
       /\ \A r \in Requests : requests[r] = "none"
       /\ \A j \in Jobs : jobs[j].at = "off"
       /\ main # "run" => db = "none" /\ process = ""
       /\ main = "run" => db = "open"

\* Build gets settings that config accepted.
SettingsAccepted ==
    main = "build" => /\ buildRuntime(cfg)
                      /\ cfg.process \in Processes /\ cfg.provider \in Providers

\* Close is the only way from an open database to an exit.
DatabaseClosed ==
    /\ main = "close" => db = "open"
    /\ db = "closed" => main \in {"exit", "exited"}
    /\ main \in {"exit", "exited"} => db # "open"

\* The server has returned when it fails and when main is past its shutdown: no
\* request is accepted any more.
ServerReturned ==
    /\ errs = "failed" => server = "returned"
    /\ main \in AfterServer => server \in {"off", "returned"}

\* The loops have ended before the database is closed, and runWeb has none.
LoopsEnded ==
    /\ process = "web" => \A j \in Jobs : jobs[j].at = "off"
    /\ main \in {"close", "exit", "exited"} =>
          \A j \in Jobs : jobs[j].at \in {"off", "ended"}

\* Handlers that are left are left for a reason.
HandlersLeft ==
    main \in {"stop", "wait", "close", "exit", "exited"}
       /\ (\E r \in Requests : Active(r))
       => gaveUp \/ (process = "web" /\ err = "serve")

\* Main goes on from its select, and stops the jobs, for a signal or an error.
StoppedForAReason ==
    /\ jobsStopped => signalled \/ err # ""
    /\ main \in {"shutdown", "draining", "stop", "close"} => signalled \/ err # ""
    /\ main \in {"exit", "exited"} => signalled \/ err # "" \/ process = ""

LifeInv ==
    /\ Shapes /\ ConnectionHeld /\ NothingStarted /\ SettingsAccepted /\ DatabaseClosed
    /\ ServerReturned /\ LoopsEnded /\ HandlersLeft /\ StoppedForAReason /\ err # "build"

-----------------------------------------------------------------------------
(* The steps.                                                              *)

\* The connection stays where it is.
LEMMA ConnectionStays ==
    ASSUME ConnectionHeld, requests' = requests, conn' = conn
    PROVE  ConnectionHeld'
  BY DEF ConnectionHeld, InTransaction

\* Main stays where it is and the parts are somewhere.
LEMMA ShapesStay ==
    ASSUME Shapes, jobs' \in [Jobs -> Loop], errs' \in {"empty", "failed"},
           server' \in {"off", "starting", "serving", "returned"},
           UNCHANGED <<main, override, process, provider, db, signalled, jobsStopped, err,
                       gaveUp>>
    PROVE  Shapes'
  <1>1. MainShapes'
    BY DEF Shapes, MainShapes
  <1>2. PartShapes'
    BY DEF Shapes, PartShapes
  <1> QED
    BY <1>1, <1>2 DEF Shapes

\* Nothing runs.
LEMMA InitLife == Init => LifeInv
  <1> SUFFICES ASSUME Init PROVE LifeInv
    OBVIOUS
  <1>1. At("off") \in Loop /\ At("off").at = "off"
    BY DEF At, Loop
  <1>2. Shapes /\ ConnectionHeld
    BY <1>1, NobodyAssumption DEF Init, Shapes, MainShapes, PartShapes, ConnectionHeld, InTransaction, Running
  <1> QED
    BY <1>1, <1>2
    DEF Init, LifeInv, NothingStarted, SettingsAccepted, DatabaseClosed, ServerReturned,
        AfterServer, LoopsEnded, HandlersLeft, StoppedForAReason

\* Only a loop that runs takes a step, and then the database is open, main waits
\* and the process is one with jobs.
LEMMA JobStep ==
    ASSUME LifeInv, NEW j \in Jobs, NEW loop \in Loop, jobs[j].at \notin {"off", "ended"},
           SetJob(j, loop)
    PROVE  LifeInv'
  <1> USE DEF SetJob, settings, stopVars, serverVars
  <1>1. jobs' \in [Jobs -> Loop]
    BY DEF LifeInv, Shapes, MainShapes, PartShapes
  <1>2. /\ main \notin Starting /\ main \notin {"close", "exit", "exited"}
        /\ process # "web"
    BY DEF LifeInv, NothingStarted, LoopsEnded
  <1>3. Shapes' /\ ConnectionHeld'
    <2>1. Shapes'
      BY <1>1, ShapesStay DEF LifeInv, Shapes, PartShapes
    <2>2. ConnectionHeld'
      BY <1>1, ConnectionStays DEF LifeInv
    <2> QED
      BY <2>1, <2>2
  <1>4. NothingStarted' /\ LoopsEnded'
    BY <1>2 DEF NothingStarted, LoopsEnded
  <1>5. SettingsAccepted' /\ DatabaseClosed' /\ ServerReturned' /\ StoppedForAReason'
    BY DEF LifeInv, SettingsAccepted, DatabaseClosed, ServerReturned, StoppedForAReason
  <1>6. HandlersLeft' /\ err' # "build"
    BY DEF LifeInv, HandlersLeft, Active
  <1> QED
    BY <1>3, <1>4, <1>5, <1>6 DEF LifeInv

\* The steps of the runner.
LEMMA LoopSteps ==
    ASSUME LifeInv, NEW j \in Jobs, LoopStep(j)
    PROVE  LifeInv'
  <1>1. /\ At("claim") \in Loop /\ [at |-> "delete", n |-> 1] \in Loop
        /\ At("ended") \in Loop /\ At("wait") \in Loop /\ At("run") \in Loop
    BY DEF At, Loop
  <1>2. PICK loop \in Loop : SetJob(j, loop)
    BY <1>1 DEF LoopStep, Start, runJobOnceReturns, Tick, Done
  <1>3. jobs[j].at \notin {"off", "ended"}
    BY DEF LoopStep, Start, runJobOnceReturns, Tick, Done
  <1> QED
    BY <1>2, <1>3, JobStep

\* A cleanup's deletion.
LEMMA DeleteSteps ==
    ASSUME LifeInv, DeleteRows
    PROVE  LifeInv'
  <1> DEFINE j == "database-cleanup"
  <1>1. j \in Jobs /\ jobs[j] \in Loop /\ jobs[j].at = "delete"
    BY DEF Jobs, LifeInv, Shapes, MainShapes, PartShapes, DeleteRows
  <1>2. At("finished") \in Loop /\ At("failed") \in Loop
    BY DEF At, Loop
  <1>3. Len(CleanupStatements) = 6
    BY DEF CleanupStatements
  <1>4. jobs[j].n < 6 => [jobs[j] EXCEPT !.n = @ + 1] \in Loop
    BY <1>1, LifecycleAssumption DEF Loop
  <1>5. PICK loop \in Loop : SetJob(j, loop)
    BY <1>2, <1>3, <1>4 DEF DeleteRows
  <1> QED
    BY <1>1, <1>5, JobStep

\* The steps of the email job.
LEMMA EmailSteps ==
    ASSUME LifeInv, EmailStatement \/ EmailStep \/ MailServerHangs \/ HangEnds
    PROVE  LifeInv'
  <1> DEFINE j == "email-outbox"
  <1>1. j \in Jobs /\ jobs[j] \in Loop
    BY DEF Jobs, LifeInv, Shapes, MainShapes, PartShapes
  <1>2. jobs[j].at \in {"claim", "send", "talk", "hung", "mark"}
    BY DEF EmailStatement, ClaimPending, Mark, EmailStep, Send, TalkEnds, MailServerHangs,
           HangEnds
  <1>3. At("finished") \in Loop /\ At("failed") \in Loop
    BY DEF At, Loop
  <1>4. /\ [jobs[j] EXCEPT !.at = "mark"] \in Loop /\ [jobs[j] EXCEPT !.at = "talk"] \in Loop
        /\ [jobs[j] EXCEPT !.at = "hung"] \in Loop
    BY <1>1 DEF Loop
  <1>5. \A n \in 0..BatchSize : [at |-> "send", n |-> n] \in Loop
    BY DEF Loop
  <1>6. jobs[j].n > 1 => [at |-> "send", n |-> jobs[j].n - 1] \in Loop
    BY <1>1, LifecycleAssumption DEF Loop
  <1>7. PICK loop \in Loop : SetJob(j, loop)
    <2>1. CASE ClaimPending
      BY <2>1, <1>3, <1>5 DEF ClaimPending
    <2>2. CASE Mark
      BY <2>2, <1>3, <1>6 DEF Mark
    <2>3. CASE Send \/ TalkEnds \/ MailServerHangs \/ HangEnds
      BY <2>3, <1>4 DEF Send, TalkEnds, MailServerHangs, HangEnds
    <2> QED
      BY <2>1, <2>2, <2>3 DEF EmailStatement, EmailStep
  <1> QED
    BY <1>1, <1>2, <1>7, JobStep

\* From the arguments to the parts that run.
LEMMA StartUpSteps ==
    ASSUME LifeInv, StartUp
    PROVE  LifeInv'
  <1> USE DEF settings, stopVars, serverVars, LifeInv, NothingStarted, Starting
  <1>1. CASE parseCLIArgs
    <2>1. /\ main' \in {"migrate", "exit", "config"} /\ err' \in {"", "args"}
          /\ (main' = "exit" <=> err' = "args") /\ override' \in Processes \cup {""}
      BY <1>1 DEF parseCLIArgs, Processes
    <2>2. /\ main = "args" /\ db = "none"
          /\ UNCHANGED <<cfg, process, provider, db, conn, signalled, jobsStopped, server,
                         errs, requests, jobs, gaveUp>>
      BY <1>1 DEF parseCLIArgs
    <2>3. Shapes' /\ ConnectionHeld'
      <3>1. Shapes'
        BY <2>1, <2>2 DEF Running, Shapes, MainShapes, PartShapes
      <3>2. ConnectionHeld'
        BY <2>1, <2>2, ConnectionStays DEF LifeInv, Running
      <3> QED
        BY <3>1, <3>2
    <2>4. NothingStarted' /\ SettingsAccepted'
      BY <2>1, <2>2 DEF SettingsAccepted
    <2>5. DatabaseClosed' /\ ServerReturned' /\ LoopsEnded'
      BY <2>1, <2>2 DEF DatabaseClosed, ServerReturned, LoopsEnded, AfterServer
    <2>6. HandlersLeft' /\ StoppedForAReason' /\ err' # "build"
      BY <2>1, <2>2 DEF HandlersLeft, StoppedForAReason, Active
    <2> QED
      BY <2>3, <2>4, <2>5, <2>6
  <1>2. CASE LoadConfig
    <2>1. PICK env \in Environments, file \in Files :
             LET e == LoadDotEnv(env, file) IN
             IF FromEnvWithProcess(override, e)
             THEN main' = "build" /\ cfg' = ConfigOf(override, e) /\ err' = err
             ELSE main' = "exit" /\ cfg' = cfg /\ err' = "config"
      BY <1>2 DEF LoadConfig
    <2> DEFINE e == LoadDotEnv(env, file)
    <2>2. e \in [Variables -> Texts] /\ override \in Processes \cup {""}
      BY LifecycleAssumption DEF LoadDotEnv, Shapes, MainShapes, PartShapes
    <2>3. /\ main' \in {"build", "exit"} /\ err' \in {"", "config"}
          /\ (main' = "exit" <=> err' = "config")
      BY <1>2, <2>1 DEF LoadConfig
    <2>4. SettingsAccepted'
      BY <2>1, <2>2, <2>3, AcceptedSettingsBuild DEF SettingsAccepted
    <2>5. /\ main = "config" /\ db = "none" /\ override' = ""
          /\ UNCHANGED <<process, provider, db, conn, signalled, jobsStopped, server, errs,
                         requests, jobs, gaveUp>>
      BY <1>2 DEF LoadConfig
    <2>6. Shapes' /\ ConnectionHeld'
      <3>1. Shapes'
        BY <2>3, <2>5 DEF Running, Shapes, MainShapes, PartShapes
      <3>2. ConnectionHeld'
        BY <2>3, <2>5, ConnectionStays DEF LifeInv, Running
      <3> QED
        BY <3>1, <3>2
    <2>7. NothingStarted'
      BY <2>3, <2>5
    <2>8. DatabaseClosed' /\ ServerReturned' /\ LoopsEnded'
      BY <2>3, <2>5 DEF DatabaseClosed, ServerReturned, LoopsEnded, AfterServer
    <2>9. HandlersLeft' /\ StoppedForAReason' /\ err' # "build"
      BY <2>3, <2>5 DEF HandlersLeft, StoppedForAReason, Active
    <2> QED
      BY <2>4, <2>6, <2>7, <2>8, <2>9
  <1>3. CASE runMigrate
    <2>1. /\ main = "migrate" /\ main' = "exit" /\ err' \in {"", "migrate", "config"}
          /\ db = "none" /\ process = ""
          /\ UNCHANGED <<override, cfg, process, provider, db, conn, signalled, jobsStopped,
                         server, errs, requests, jobs, gaveUp>>
      BY <1>3 DEF runMigrate
    <2>2. Shapes' /\ ConnectionHeld'
      <3>1. Shapes'
        BY <2>1 DEF Running, Shapes, MainShapes, PartShapes
      <3>2. ConnectionHeld'
        BY <2>1, ConnectionStays DEF LifeInv, Running
      <3> QED
        BY <3>1, <3>2
    <2>3. NothingStarted' /\ SettingsAccepted'
      BY <2>1 DEF SettingsAccepted
    <2>4. DatabaseClosed' /\ ServerReturned' /\ LoopsEnded'
      BY <2>1 DEF DatabaseClosed, ServerReturned, LoopsEnded, AfterServer
    <2>5. HandlersLeft' /\ StoppedForAReason' /\ err' # "build"
      BY <2>1 DEF HandlersLeft, StoppedForAReason, Active
    <2> QED
      BY <2>2, <2>3, <2>4, <2>5
  <1>4. CASE Build
    <2>1. /\ main = "build" /\ db = "none" /\ buildRuntime(cfg) /\ err = ""
          /\ cfg.process \in Processes /\ cfg.provider \in Providers
      BY <1>4 DEF Build, SettingsAccepted
    <2>2. \/ /\ main' = "exit" /\ err' \in {"secrets", "database", "webauthn"}
             /\ db' \in {"none", "closed"} /\ UNCHANGED <<process, provider>>
          \/ /\ main' = "run" /\ db' = "open" /\ err' = ""
             /\ process' \in Processes /\ provider' \in Providers
      BY <1>4, <2>1 DEF Build
    <2>3. UNCHANGED <<override, conn, signalled, jobsStopped, server, errs, requests, jobs,
                      gaveUp>>
      BY <1>4 DEF Build
    <2>4. Shapes' /\ ConnectionHeld'
      <3>1. Shapes'
        BY <2>1, <2>2, <2>3 DEF Running, Shapes, MainShapes, PartShapes
      <3>2. ConnectionHeld'
        BY <2>1, <2>2, <2>3, ConnectionStays DEF LifeInv, Running
      <3> QED
        BY <3>1, <3>2
    <2>5. NothingStarted' /\ SettingsAccepted'
      BY <2>1, <2>2, <2>3 DEF SettingsAccepted
    <2>6. DatabaseClosed' /\ ServerReturned' /\ LoopsEnded'
      BY <2>1, <2>2, <2>3 DEF DatabaseClosed, ServerReturned, LoopsEnded, AfterServer
    <2>7. HandlersLeft' /\ StoppedForAReason' /\ err' # "build"
      BY <2>1, <2>2, <2>3 DEF HandlersLeft, StoppedForAReason, Active
    <2> QED
      BY <2>4, <2>5, <2>6, <2>7
  <1>5. CASE Run
    <2>1. /\ main = "run" /\ db = "open"
          /\ \/ main' = "wait" /\ server' = "off"
             \/ main' = "select" /\ server' = "starting"
          /\ UNCHANGED <<override, cfg, process, provider, db, conn, signalled, jobsStopped,
                         errs, err, requests, gaveUp>>
      BY <1>5 DEF Run
    <2>2. At("run") \in Loop
      <3> HIDE DEF LifeInv
      <3> QED
        BY DEF At, Loop
    <2>3. jobs' \in [Jobs -> Loop] /\ (process = "web" => jobs' = jobs)
      BY <1>5, <2>2 DEF Run, Shapes, MainShapes, PartShapes
    <2>4. Shapes' /\ ConnectionHeld'
      <3>1. Shapes'
        BY <2>1, <2>3 DEF Running, Shapes, MainShapes, PartShapes
      <3>2. ConnectionHeld'
        BY <2>1, <2>3, ConnectionStays DEF LifeInv, Running
      <3> QED
        BY <3>1, <3>2
    <2>5. NothingStarted' /\ SettingsAccepted'
      BY <2>1 DEF SettingsAccepted
    <2>6. DatabaseClosed' /\ ServerReturned'
      BY <2>1 DEF DatabaseClosed, ServerReturned, AfterServer
    <2>7. LoopsEnded'
      BY <2>1, <2>3 DEF LoopsEnded
    <2>8. HandlersLeft' /\ StoppedForAReason' /\ err' # "build"
      BY <2>1 DEF HandlersLeft, StoppedForAReason, Active
    <2> QED
      BY <2>4, <2>5, <2>6, <2>7, <2>8
  <1> QED
    BY <1>1, <1>2, <1>3, <1>4, <1>5 DEF StartUp

\* A signal is a reason to stop.
LEMMA SignalStep ==
    ASSUME LifeInv, Signal
    PROVE  LifeInv'
  <1>1. Shapes' /\ ConnectionHeld'
    <2>1. Shapes'
      BY DEF Signal, LifeInv, Shapes, MainShapes, PartShapes, settings, serverVars
    <2>2. ConnectionHeld'
      BY ConnectionStays DEF LifeInv, Signal
    <2> QED
      BY <2>1, <2>2
  <1> QED
    BY <1>1
    DEF Signal, LifeInv, NothingStarted, SettingsAccepted, DatabaseClosed, ServerReturned, LoopsEnded, HandlersLeft, Active,
         StoppedForAReason, settings, serverVars

\* The server listens, or fails.
LEMMA ServerSteps ==
    ASSUME LifeInv, Listen \/ AcceptFails
    PROVE  LifeInv'
  <1>1. /\ server \in {"starting", "serving"}
        /\ \/ server' = "serving" /\ errs' = errs
           \/ server' = "returned" /\ errs' = "failed"
        /\ UNCHANGED <<main, override, cfg, process, provider, db, conn, signalled,
                       jobsStopped, err, requests, jobs, gaveUp>>
    BY DEF Listen, AcceptFails, settings, stopVars
  <1>2. main \notin Starting /\ main \notin AfterServer
    BY <1>1 DEF LifeInv, NothingStarted, ServerReturned
  <1>3. Shapes' /\ ConnectionHeld'
    <2>1. Shapes'
      BY <1>1, ShapesStay DEF LifeInv, Shapes, PartShapes
    <2>2. ConnectionHeld'
      BY <1>1, ConnectionStays DEF LifeInv
    <2> QED
      BY <2>1, <2>2
  <1>4. NothingStarted' /\ SettingsAccepted' /\ DatabaseClosed'
    BY <1>1, <1>2 DEF LifeInv, NothingStarted, SettingsAccepted, DatabaseClosed
  <1>5. ServerReturned' /\ LoopsEnded'
    BY <1>1, <1>2 DEF LifeInv, ServerReturned, LoopsEnded
  <1>6. HandlersLeft' /\ StoppedForAReason' /\ err' # "build"
    BY <1>1 DEF LifeInv, HandlersLeft, Active, StoppedForAReason
  <1> QED
    BY <1>3, <1>4, <1>5, <1>6 DEF LifeInv

\* A request is accepted only while main waits in its select or has just left it;
\* its handler takes and returns the connection.
LEMMA RequestSteps ==
    ASSUME LifeInv, NEW r \in Requests,
           Accept(r) \/ BeginTx(r) \/ EndTx(r) \/ AnswerWithoutTx(r)
    PROVE  LifeInv'
  <1> USE DEF settings, stopVars, serverVars
  <1>1. UNCHANGED <<main, override, cfg, process, provider, db, signalled, jobsStopped,
                    server, errs, err, jobs, gaveUp>>
    BY DEF Accept, BeginTx, EndTx, AnswerWithoutTx
  <1>2. ConnectionHeld'
    <2> USE DEF LifeInv, ConnectionHeld, InTransaction
    <2>1. CASE Accept(r)
      BY <2>1, <1>1 DEF Accept
    <2>2. CASE BeginTx(r)
      BY <2>2, <1>1, NobodyAssumption DEF BeginTx
    <2>3. CASE EndTx(r)
      BY <2>3, <1>1, NobodyAssumption DEF EndTx, ConnectionOfTx, Released
    <2>4. CASE AnswerWithoutTx(r)
      BY <2>4, <1>1 DEF AnswerWithoutTx
    <2> QED
      BY <2>1, <2>2, <2>3, <2>4
  <1>7. Shapes'
    BY <1>1, ShapesStay DEF LifeInv, Shapes, PartShapes
  <1>3. main \notin Starting
    <2>1. CASE Accept(r)
      BY <2>1 DEF LifeInv, NothingStarted, Accept
    <2>2. CASE requests[r] # "none"
      BY <2>2 DEF LifeInv, NothingStarted
    <2> QED
      BY <2>1, <2>2 DEF BeginTx, EndTx, AnswerWithoutTx
  <1>4. NothingStarted' /\ SettingsAccepted' /\ DatabaseClosed'
    BY <1>1, <1>3 DEF LifeInv, NothingStarted, SettingsAccepted, DatabaseClosed
  <1>5. ServerReturned' /\ LoopsEnded' /\ StoppedForAReason' /\ err' # "build"
    BY <1>1 DEF LifeInv, ServerReturned, LoopsEnded, StoppedForAReason
  <1>6. HandlersLeft'
    <2>1. CASE Accept(r)
      BY <2>1, <1>1 DEF LifeInv, ServerReturned, AfterServer, HandlersLeft, Accept
    <2>2. CASE requests[r] # "none"
      <3>1. \A q \in Requests : Active(q)' => Active(q)
        BY <2>2, <1>1 DEF LifeInv, ConnectionHeld, Active, Accept, BeginTx, EndTx, AnswerWithoutTx
      <3> QED
        BY <3>1, <1>1 DEF LifeInv, HandlersLeft
    <2> QED
      BY <2>1, <2>2 DEF BeginTx, EndTx, AnswerWithoutTx
  <1> QED
    BY <1>2, <1>4, <1>5, <1>6, <1>7 DEF LifeInv

\* From the select to the exit.
LEMMA ShutDownSteps ==
    ASSUME LifeInv, ShutDown
    PROVE  LifeInv'
  <1> USE DEF settings, stopVars, serverVars, LifeInv, Running, Starting, AfterServer
  <1>1. CASE SelectDone
    <2>1. Shapes' /\ ConnectionHeld'
      <3>1. Shapes'
        BY <1>1 DEF SelectDone, Shapes, MainShapes, PartShapes
      <3>2. ConnectionHeld'
        BY <1>1, ConnectionStays DEF LifeInv, SelectDone
      <3> QED
        BY <3>1, <3>2
    <2> QED
      BY <1>1, <2>1
      DEF SelectDone, NothingStarted, SettingsAccepted, DatabaseClosed, ServerReturned,
          LoopsEnded, HandlersLeft, StoppedForAReason
  <1>2. CASE SelectErr
    <2>1. Shapes' /\ ConnectionHeld'
      <3>1. Shapes'
        BY <1>2 DEF SelectErr, Shapes, MainShapes, PartShapes
      <3>2. ConnectionHeld'
        BY <1>2, ConnectionStays DEF LifeInv, SelectErr
      <3> QED
        BY <3>1, <3>2
    <2>2. server = "returned" /\ db = "open"
      BY <1>2 DEF SelectErr, Shapes, MainShapes, PartShapes, ServerReturned
    <2>3. NothingStarted' /\ SettingsAccepted' /\ DatabaseClosed' /\ ServerReturned'
      BY <1>2, <2>2 DEF SelectErr, NothingStarted, SettingsAccepted, DatabaseClosed,
                        ServerReturned
    <2>4. LoopsEnded' /\ HandlersLeft' /\ StoppedForAReason' /\ err' # "build"
      BY <1>2 DEF SelectErr, LoopsEnded, HandlersLeft, StoppedForAReason
    <2> QED
      BY <2>1, <2>3, <2>4
  <1>3. CASE Shutdown
    <2>1. Shapes' /\ ConnectionHeld'
      <3>1. Shapes'
        BY <1>3 DEF Shutdown, Shapes, MainShapes, PartShapes
      <3>2. ConnectionHeld'
        BY <1>3, ConnectionStays DEF LifeInv, Shutdown
      <3> QED
        BY <3>1, <3>2
    <2> QED
      BY <1>3, <2>1
      DEF Shutdown, NothingStarted, SettingsAccepted, DatabaseClosed, ServerReturned,
          LoopsEnded, HandlersLeft, StoppedForAReason
  <1>4. CASE ShutdownReturns
    <2>1. /\ main = "draining" /\ db = "open" /\ server \in {"off", "returned"}
          /\ main' = IF process = "web" THEN "close" ELSE "stop"
          /\ UNCHANGED <<override, cfg, process, provider, db, conn, signalled, jobsStopped,
                         server, errs, requests, jobs>>
      BY <1>4 DEF ShutdownReturns, AfterShutdown, Shapes, MainShapes, PartShapes, ServerReturned
    <2>2. /\ err' \in {err, "shutdown"} /\ (err # "" => err' # "")
          /\ gaveUp' \in BOOLEAN /\ (~gaveUp' => \A r \in Requests : ~Active(r))
      BY <1>4 DEF ShutdownReturns, firstErr
    <2>3. Shapes' /\ ConnectionHeld'
      <3>1. Shapes'
        BY <2>1, <2>2 DEF Shapes, MainShapes, PartShapes
      <3>2. ConnectionHeld'
        BY <2>1, <2>2, ConnectionStays DEF LifeInv
      <3> QED
        BY <3>1, <3>2
    <2>4. NothingStarted' /\ SettingsAccepted' /\ DatabaseClosed' /\ ServerReturned'
      BY <2>1 DEF NothingStarted, SettingsAccepted, DatabaseClosed, ServerReturned
    <2>5. LoopsEnded' /\ StoppedForAReason' /\ err' # "build"
      BY <2>1, <2>2 DEF LoopsEnded, StoppedForAReason
    <2>6. HandlersLeft'
      BY <2>1, <2>2 DEF HandlersLeft, Active
    <2> QED
      BY <2>3, <2>4, <2>5, <2>6
  <1>5. CASE stopJobs
    <2>1. Shapes' /\ ConnectionHeld'
      <3>1. Shapes'
        BY <1>5 DEF stopJobs, CancelJobs, Shapes, MainShapes, PartShapes
      <3>2. ConnectionHeld'
        BY <1>5, ConnectionStays DEF LifeInv, stopJobs, CancelJobs
      <3> QED
        BY <3>1, <3>2
    <2>2. HandlersLeft'
      BY <1>5 DEF stopJobs, HandlersLeft, Active
    <2>3. StoppedForAReason' /\ LoopsEnded' /\ err' # "build"
      BY <1>5 DEF stopJobs, StoppedForAReason, LoopsEnded
    <2> QED
      BY <1>5, <2>1, <2>2, <2>3
      DEF stopJobs, NothingStarted, SettingsAccepted, DatabaseClosed, ServerReturned
  <1>6. CASE WaitForJobs
    <2>1. Shapes' /\ ConnectionHeld' /\ db = "open"
      <3>1. MainShapes' /\ db = "open"
        BY <1>6 DEF WaitForJobs, Shapes, MainShapes
      <3>2. PartShapes'
        BY <1>6 DEF WaitForJobs, Shapes, PartShapes
      <3>3. ConnectionHeld'
        BY <1>6, ConnectionStays DEF LifeInv, WaitForJobs
      <3> QED
        BY <3>1, <3>2, <3>3 DEF Shapes
    <2>2. HandlersLeft'
      BY <1>6 DEF WaitForJobs, HandlersLeft, Active
    <2>3. LoopsEnded' /\ StoppedForAReason' /\ err' # "build"
      BY <1>6 DEF WaitForJobs, JobsDone, Cancelled, LoopsEnded, StoppedForAReason
    <2> QED
      BY <1>6, <2>1, <2>2, <2>3
      DEF WaitForJobs, NothingStarted, SettingsAccepted, DatabaseClosed, ServerReturned
  <1>7. CASE Close
    <2>1. Shapes' /\ ConnectionHeld'
      <3>1. MainShapes'
        BY <1>7 DEF Close, MainShapes
      <3>2. PartShapes'
        BY <1>7 DEF Close, Shapes, PartShapes
      <3>3. ConnectionHeld'
        BY <1>7, ConnectionStays DEF LifeInv, Close
      <3> QED
        BY <3>1, <3>2, <3>3 DEF Shapes
    <2>2. HandlersLeft'
      BY <1>7 DEF Close, HandlersLeft, Active
    <2> QED
      BY <1>7, <2>1, <2>2
      DEF Close, NothingStarted, SettingsAccepted, DatabaseClosed, ServerReturned,
          LoopsEnded, StoppedForAReason
  <1>8. CASE Exit
    <2>1. At("off") \in Loop /\ At("off").at = "off"
      BY DEF At, Loop
    <2>2. /\ jobs' \in [Jobs -> Loop] /\ \A j \in Jobs : jobs'[j].at = "off"
          /\ \A r \in Requests : requests'[r] = "none"
          /\ requests' \in [Requests -> {"none", "begin", "query"}]
      BY <1>8, <2>1 DEF Exit
    <2>3. Shapes' /\ ConnectionHeld'
      <3>1. Shapes'
        BY <1>8, <2>2 DEF Exit, Shapes, MainShapes, PartShapes
      <3>2. ConnectionHeld'
        BY <1>8, <2>2, NobodyAssumption DEF Exit, ConnectionHeld, InTransaction
      <3> QED
        BY <3>1, <3>2
    <2>4. HandlersLeft' /\ LoopsEnded'
      BY <1>8, <2>2 DEF Exit, HandlersLeft, Active, LoopsEnded
    <2> QED
      BY <1>8, <2>3, <2>4
      DEF Exit, NothingStarted, SettingsAccepted, DatabaseClosed, ServerReturned,
          StoppedForAReason
  <1> QED
    BY <1>1, <1>2, <1>3, <1>4, <1>5, <1>6, <1>7, <1>8 DEF ShutDown

\* Every step keeps the invariant.
LEMMA NextLife == LifeInv /\ [Next]_vars => LifeInv'
  <1> SUFFICES ASSUME LifeInv, [Next]_vars PROVE LifeInv'
    OBVIOUS
  <1>1. CASE UNCHANGED vars
    <2>1. Shapes' /\ ConnectionHeld'
      BY <1>1, ConnectionStays, ShapesStay DEF vars, LifeInv, Shapes, PartShapes
    <2> QED
      BY <1>1, <2>1
      DEF vars, LifeInv, NothingStarted, SettingsAccepted, DatabaseClosed, ServerReturned, LoopsEnded, HandlersLeft, Active,
                StoppedForAReason
  <1>2. CASE Next
    BY <1>1, <1>2, StartUpSteps, SignalStep, ShutDownSteps, ServerSteps, RequestSteps,
       LoopSteps, DeleteSteps, EmailSteps
    DEF Next, Gone
  <1> QED
    BY <1>1, <1>2

\* Reachable states have the invariant, with fairness or without.
LEMMA LifeHolds == Spec => []LifeInv
  BY InitLife, NextLife, PTL DEF Spec

\* The variables keep their types; the pool's connection is held by whoever is in a
\* transaction, and main waits for its parts only while the database is open.
THEOREM TypeCorrect == Spec => []TypeOK
  <1>1. LifeInv => TypeOK
    BY DEF LifeInv, Shapes, MainShapes, PartShapes, ConnectionHeld, TypeOK
  <1> QED
    BY <1>1, LifeHolds, PTL

\* However startup, signals, failures and the ends of jobs and handlers come between
\* each other, run closes the database when the loops have ended and no handler is
\* left that Shutdown did not give up on, and never exits without closing it.
THEOREM DatabaseOutlives == Spec => []DatabaseOutlivesItsUsers
  <1>1. LifeInv => DatabaseOutlivesItsUsers
    BY DEF LifeInv, DatabaseClosed, LoopsEnded, HandlersLeft, DatabaseOutlivesItsUsers, Exited
  <1> QED
    BY <1>1, LifeHolds, PTL

\* For any environment: without an error the process was told to stop or was a
\* migration, and no settings that config accepts are refused in Build.
THEOREM ExitDoesTellWhy == Spec => []ExitTellsWhy
  <1>1. LifeInv => ExitTellsWhy
    BY DEF LifeInv, StoppedForAReason, ExitTellsWhy, Exited
  <1> QED
    BY <1>1, LifeHolds, PTL

=============================================================================

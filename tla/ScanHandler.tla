------------------------------ MODULE ScanHandler ------------------------------
(***************************************************************************)
(* The scan handler of cmd/scanner-webhook/main.go over both backends: the     *)
(* process loads its configuration and validates the backends it names, or     *)
(* does not start; a call of the handler creates the backend for its request   *)
(* anew, validating it again, runs Scan and returns what came of it.          *)
(*                                                                         *)
(* The module follows one call.  Between the start and the call the CLI        *)
(* scanner may disappear from the machine.                                    *)
(***************************************************************************)
EXTENDS Config, CLIScan, RegistryScan

CONSTANTS Files,      \* the configuration files the process may be given
          Requests    \* the requests: registry, a host, and name, the RegistryName

ASSUME HandlerAssumption ==
    /\ \A r \in Requests : DOMAIN r = {"registry", "name"}
    /\ \A f \in Files :
          /\ DOMAIN f = {"registries", "scanner", "token", "timeout", "rs", "server", "env"}
          /\ Len(f.registries) \in Nat /\ DOMAIN f.registries = 1 .. Len(f.registries)

VARIABLES
    file,        \* the configuration file
    request,     \* the request of the call
    cliFound,    \* the CLI scanner is on this machine
    handler,     \* where the process and its call are
    backend,     \* the backend of the call
    result       \* what became of the call

handlerVars == <<file, request, handler, backend, result>>
cliOnly == <<scanVars, processVars, waiter>>
registryOnly == <<config, answerVars, pollVars, reply, job, errors>>
allVars == <<handlerVars, cliFound, cliOnly, registryOnly, contextVars>>

cfg == Loaded(file)

\* What a scan by the API sees of the configuration: a poll interval that is not set
\* cannot be parsed either.
RegistryView(c, name) ==
    [present |-> c.rs.present, interval |-> Or(c.rs.interval, Unparsable),
     timeout |-> GetTimeout(c, name)]

HandlerInit ==
    /\ file \in Files /\ request \in Requests /\ cliFound \in BOOLEAN
    /\ handler = "starting" /\ backend = "none" /\ result = "none"
    /\ CLIInit /\ RegistryInit
    /\ config = RegistryView(cfg, request.name)

--------------------------------------------------------------------------------

\* Mutant of ValidateScannerConfig: the overrides of the registries are not validated.
ValidateGlobalOnly == NewScannerBackend(cfg, "", cliFound) # "none"

\* validateScannerConfig: the global backend and every override.
ValidateScannerConfig ==
    /\ NewScannerBackend(cfg, "", cliFound) # "none"
    /\ \A i \in DOMAIN cfg.registries :
           LET r == cfg.registries[i]
           IN r.scanner # Unset => NewScannerBackend(cfg, r.name, cliFound) # "none"

\* main up to the worker pool: it goes on, or logger.Fatal ends the process.
StartUp ==
    /\ handler = "starting"
    /\ handler' = IF Validate(cfg) /\ ValidateScannerConfig THEN "serving" ELSE "refused"
    /\ UNCHANGED <<file, request, cliFound, backend, result, cliOnly, registryOnly, contextVars>>

\* A worker calls the handler, which creates the backend by the request's Registry.
CallHandler ==
    /\ handler = "serving"
    /\ backend' = NewScannerBackend(cfg, request.registry, cliFound)
    /\ result' = "running"
    /\ handler' = "scanning"
    /\ UNCHANGED <<file, request, cliFound, cliOnly, registryOnly, contextVars>>

\* The CLI scanner has no time out to run with if getTimeout fails.
ScanByCLI ==
    /\ handler = "scanning" /\ backend = "cli"
    /\ CLIStep
    /\ GetTimeout(cfg, request.name) = Unparsable => cli' # "waiting"
    /\ UNCHANGED <<handlerVars, cliFound, registryOnly>>

ScanByAPI ==
    /\ handler = "scanning" /\ backend = "registry"
    /\ RegistryStep
    /\ UNCHANGED <<handlerVars, cliFound, cliOnly>>

\* The error of the backend, of Scan, or none.
ScanError ==
    CASE backend = "none" -> TRUE
      [] backend = "cli" -> failed
      [] backend = "registry" -> outcome = "failed"

ScanIsOver ==
    CASE backend = "none" -> TRUE
      [] backend = "cli" -> cli = "returned"
      [] backend = "registry" -> api = "returned"

Returns(value) ==
    /\ handler = "scanning" /\ ScanIsOver
    /\ handler' = "returned"
    /\ result' = value
    /\ UNCHANGED <<file, request, cliFound, backend, cliOnly, registryOnly, contextVars>>

HandlerReturns ==
    Returns(CASE outcome = "panicked" -> "panicked"
              [] ScanError -> "failed"
              [] OTHER -> "completed")

HandlerStep == CallHandler \/ ScanByCLI \/ ScanByAPI \/ HandlerReturns

CLIDisappears ==
    /\ cliFound
    /\ cliFound' = FALSE
    /\ UNCHANGED <<handlerVars, cliOnly, registryOnly, contextVars>>

ScannerMoves ==
    /\ OutsideStep
    /\ UNCHANGED <<handlerVars, cliFound, registryOnly>>

ServerMoves ==
    /\ ServerStep \/ Ticks
    /\ UNCHANGED <<handlerVars, cliFound, cliOnly>>

\* The timeout of the backend that waits.
TimesOut ==
    /\ \/ backend = "cli" /\ CLITimesOut /\ UNCHANGED registryOnly
       \/ backend = "registry" /\ PollingTimesOut /\ UNCHANGED cliOnly
    /\ UNCHANGED <<handlerVars, cliFound>>

\* The ten minutes of the call are over or the pool cancels; after the call processScan
\* cancels.
CallContextDone ==
    /\ handler \in {"scanning", "returned"}
    /\ ContextDone
    /\ UNCHANGED <<handlerVars, cliFound, cliOnly, registryOnly>>

HandlerNext ==
    \/ StartUp \/ HandlerStep \/ CLIDisappears
    \/ ScannerMoves \/ ServerMoves \/ TimesOut \/ CallContextDone

HandlerSpec == HandlerInit /\ [][HandlerNext]_allVars

\* The goroutine of the worker runs and the timeout of the configuration passes; the
\* kernel ends a process that was killed and the goroutine that waits for it runs.
FairHandlerSpec ==
    /\ HandlerSpec
    /\ WF_allVars(HandlerStep)
    /\ WF_allVars(TimesOut)
    /\ WF_allVars(WindUp /\ UNCHANGED <<handlerVars, cliFound, registryOnly>>)

--------------------------------------------------------------------------------
(* Correctness *)

HandlerTypeOK ==
    /\ file \in Files /\ request \in Requests /\ cliFound \in BOOLEAN
    /\ handler \in {"starting", "refused", "serving", "scanning", "returned"}
    /\ backend \in {"none"} \cup ScannerTypes
    /\ result = "none" <=> handler \in {"starting", "refused", "serving"}
    /\ result = "running" <=> handler = "scanning"

\* One call runs one backend: the other has neither a process nor a job.
OneBackendRuns ==
    /\ backend # "cli" => cli = "new" /\ process = "none"
    /\ backend # "registry" => api = "new" /\ job = "none"

\* What the start has validated is enough for every request: the backend cannot be
\* created only if the CLI scanner has disappeared since.
StartupValidates ==
    handler \in {"scanning", "returned"} /\ backend = "none" => ~cliFound

\* The types and invariants of both backends and of the handler, that a call runs one of
\* them, and that the validation at the start is enough.
HandlerInv ==
    CLIInv /\ RegistryInv /\ HandlerTypeOK /\ OneBackendRuns /\ StartupValidates

\* A handler that returns nil has scanned: the CLI came to its own end with a code of 0
\* to 9 and its output was read whole, or the job at the server has completed.  The pool
\* counts the request as done and nobody looks at it again.
NilMeansScanned ==
    result = "completed" =>
        \/ process = "ended" /\ code \in 0 .. 9 /\ whole
        \/ job = "completed"

\* The handler keeps the promise processScan relies on, also if the scanner hangs and the
\* server is silent: its call ends, once.
PromisedOf == INSTANCE HandlerPromise
KeepsPromise == PromisedOf!Promise

\* A call leaves nothing behind: when it has ended, the scanner it started ends too, and
\* so does the goroutine that waits for it.
NothingStaysBehind ==
    handler = "scanning" ~>
        result # "running" /\ waiter # "waiting" /\ process \in {"none", "ended"}

\* docs/CONFIGURATION.md: a token may be given as a mounted secret, "${FILE:name}"; the
\* process then starts if it starts with the token in the file.
SecretFilesWork ==
    handler = "refused" /\ file.token = FileRef =>
        LET plain == Loaded([file EXCEPT !.token = "secret"])
        IN ~Validate(plain) \/ NewScannerBackend(plain, "", cliFound) = "none"

\* docs/CONFIGURATION.md: the scanner type of a registry is the one its images are
\* scanned with.
OverrideIsUsed ==
    backend # "none" =>
        \A i \in DOMAIN cfg.registries :
            LET r == cfg.registries[i]
            IN r.name = request.name /\ r.scanner # Unset => backend = r.scanner
================================================================================

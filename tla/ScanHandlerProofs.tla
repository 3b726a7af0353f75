--------------------------- MODULE ScanHandlerProofs ---------------------------
(***************************************************************************)
(* Proofs about one call of the scan handler, for any configuration file,     *)
(* request and exit code of the scanner.  Each backend has an inductive        *)
(* invariant of its own, which its own steps keep and which a step of the      *)
(* other, or of the context, does not disturb; the invariant of the handler    *)
(* puts them together with what the start of the process has validated.       *)
(***************************************************************************)
EXTENDS ScanHandler, TLAPS

--------------------------------------------------------------------------------
(* The scan by CLI *)

\* The waiter speaks for a process that is over and has been read to the end, and what
\* Scan takes for the word of the scanner came from the waiter.
CLISafe ==
    /\ CLIInv /\ SuccessIsWhole
    /\ cli = "new" => process = "none" /\ waiter = "none"
    /\ waiter \in {"nil", "exit", "timeout"} => process = "ended" /\ ~copying
    /\ waiter = "nil" => code = 0
    /\ got \in {"nil", "exit"} => process = "ended" /\ whole
    /\ got = "nil" => code = 0

LEMMA CLIStarts == CLIInit => CLISafe
BY CLIAssumption
   DEF CLIInit, ContextInit, CLISafe, CLIInv, CLITypeOK, ContextTypeOK, ErrorMatchesStatus,
       NoScannerLeft, SuccessIsWhole, CLIPhases, Errors, Statuses

\* A step that leaves the scan by CLI alone may change the context.
LEMMA CLILeftAlone ==
  ASSUME CLISafe, ContextTypeOK', UNCHANGED cliOnly
  PROVE  CLISafe'
BY DEF CLISafe, CLIInv, CLITypeOK, ErrorMatchesStatus, NoScannerLeft, SuccessIsWhole,
       cliOnly, scanVars, captureVars, resultVars, processVars

\* Scan keeps the invariant: only what the waiter sent becomes a success.
LEMMA CLIStepSafe == CLISafe /\ CLIStep => CLISafe'
<1> SUFFICES ASSUME CLISafe, CLIStep
             PROVE  CLISafe'
  OBVIOUS
<1> USE CLIAssumption
    DEF CLISafe, CLIInv, CLITypeOK, ContextTypeOK, ErrorMatchesStatus, NoScannerLeft,
        SuccessIsWhole, CLIPhases, Errors, Statuses, processVars, captureVars, resultVars,
        contextVars, Killed
<1>1. CASE StartFails
  BY <1>1 DEF StartFails
<1>2. CASE StartSucceeds
  BY <1>2 DEF StartSucceeds
<1>3. CASE WaitReceived
  BY <1>3 DEF WaitReceived, Capture
<1>4. CASE TimeoutKills
  BY <1>4 DEF TimeoutKills, Capture
<1>5. ASSUME NEW s \in {"success", "failed", "timeout"}, NEW f \in BOOLEAN,
             f <=> s # "success", s = "success" => process = "ended" /\ code \in 0 .. 9 /\ whole,
             Return(s, f, IF s = "timeout" THEN 0 ELSE 1)
      PROVE  CLISafe'
  <2> USE DEF Return
  <2>1. status = "running" /\ counted = 0
    BY <1>5
  <2>2. status' = s /\ failed' = f /\ counted' = IF s = "timeout" THEN 0 ELSE 1
    BY <1>5, <2>1
  <2>3. QED
    BY <1>5, <2>2
<1>6. CASE ReturnResult
  <2>1. got # "nil" /\ FoundVulnerabilities => code \in 0 .. 9 /\ process = "ended" /\ whole
    BY DEF FoundVulnerabilities, ExitCode
  <2>2. got = "nil" => code \in 0 .. 9 /\ process = "ended" /\ whole
    OBVIOUS
  <2> QED
    BY <1>5, <1>6, <2>1, <2>2 DEF ReturnResult
<1>7. QED
  BY <1>1, <1>2, <1>3, <1>4, <1>6 DEF CLIStep

\* The process, its output and the waiter keep it.
LEMMA OutsideStepSafe == CLISafe /\ OutsideStep => CLISafe'
<1> SUFFICES ASSUME CLISafe, OutsideStep
             PROVE  CLISafe'
  OBVIOUS
<1> USE CLIAssumption
    DEF CLISafe, CLIInv, CLITypeOK, ContextTypeOK, ErrorMatchesStatus, NoScannerLeft,
        SuccessIsWhole, CLIPhases, Errors, Statuses, processVars, scanVars, captureVars,
        resultVars, contextVars, Killed
<1>1. CASE ProcessExits
  <2>1. process' = "ended" /\ code' \in ExitCodes /\ ontime' \in BOOLEAN /\ process = "running"
    BY <1>1 DEF ProcessExits, Expired
  <2>2. QED
    BY <1>1, <2>1 DEF ProcessExits
<1>2. CASE ContextKills
  BY <1>2 DEF ContextKills
<1>3. CASE ProcessDies
  BY <1>3 DEF ProcessDies
<1>4. CASE OutputEnds
  <2>1. /\ process = "ended" /\ copying' \in BOOLEAN /\ ~copying'
        /\ UNCHANGED <<cli, got, whole, status, failed, counted, code, process, ontime, waiter,
                       ctx, timedOut>>
    BY <1>4 DEF OutputEnds
  <2>2. QED
    BY <2>1
<1>5. CASE WaiterSends
  BY <1>5 DEF WaiterSends, WaitResults
<1>6. QED
  BY <1>1, <1>2, <1>3, <1>4, <1>5 DEF OutsideStep, WindUp

--------------------------------------------------------------------------------
(* The scan by the API *)

\* The client believes what the server has said, which stays true of a job that is
\* completed, and a poll that goes out too late gets no answer.
RegistrySafe ==
    /\ RegistryInv /\ SuccessMeansCompleted
    /\ reply = "completed" => job = "completed"
    /\ api \notin {"new", "returned"} => config.present
    /\ latePolls > 0 => api = "returned" \/ (api = "fetching" /\ reply = "none" /\ Expired)

LEMMA RegistryStarts == RegistryInit => RegistrySafe
<1> SUFFICES ASSUME RegistryInit
             PROVE  RegistrySafe
  OBVIOUS
<1> USE DEF RegistryInit, ContextInit
<1>1. RegistryTypeOK
  <2>1. polls \in 0 .. MaxPolls
    BY RegistryAssumption
  <2>2. QED
    BY <2>1
     DEF RegistryTypeOK, ContextTypeOK, RegistryPhases, Outcomes, Reasons, JobStates
<1>2. QED
  BY <1>1 DEF RegistrySafe, RegistryInv, SuccessMeansCompleted, MetricsMatchOutcome,
     PollingStopsAtTimeout

\* A step that leaves the scan by the API alone may change the context, but revives none.
LEMMA RegistryLeftAlone ==
  ASSUME RegistrySafe, ContextTypeOK', Expired => Expired', UNCHANGED registryOnly
  PROVE  RegistrySafe'
BY DEF RegistrySafe, RegistryInv, RegistryTypeOK, SuccessMeansCompleted, MetricsMatchOutcome,
       PollingStopsAtTimeout, registryOnly, answerVars, pollVars

\* Scan keeps the invariant.
LEMMA RegistryStepSafe == RegistrySafe /\ RegistryStep => RegistrySafe'
<1> SUFFICES ASSUME RegistrySafe, RegistryStep
             PROVE  RegistrySafe'
  OBVIOUS
<1> USE RegistryAssumption
    DEF RegistrySafe, RegistryInv, RegistryTypeOK, ContextTypeOK, SuccessMeansCompleted,
        MetricsMatchOutcome, PollingStopsAtTimeout, RegistryPhases, Outcomes, Reasons,
        JobStates, pollVars, answerVars, contextVars, Goes, Fail, Expired
<1>1. CASE ScanStarts
  BY <1>1 DEF ScanStarts
<1>2. CASE InitiateSucceeds
  BY <1>2 DEF InitiateSucceeds
<1>3. CASE InitiateFails
  BY <1>3 DEF InitiateFails
<1>4. CASE PollingStarts
  <2>0. outcome = "none" /\ reason = "none" /\ recorded = {} /\ latePolls = 0 /\ config.present
    BY <1>4 DEF PollingStarts
  <2>1. CASE config.timeout = "unparsable"
    BY <1>4, <2>0, <2>1 DEF PollingStarts
  <2>2. CASE config.timeout # "unparsable" /\ config.interval = "nonpositive"
    <3>1. timedOut' \in BOOLEAN /\ api' = "returned" /\ outcome' = "panicked"
      BY <1>4, <2>2 DEF PollingStarts
    <3>2. QED
      BY <1>4, <2>0, <2>2, <3>1 DEF PollingStarts
  <2>3. CASE config.timeout # "unparsable" /\ config.interval # "nonpositive"
    <3>1. timedOut' \in BOOLEAN /\ api' = "select" /\ UNCHANGED outcome
      BY <1>4, <2>3 DEF PollingStarts
    <3>2. QED
      BY <1>4, <2>0, <2>3, <3>1 DEF PollingStarts
  <2>4. QED
    BY <2>1, <2>2, <2>3
<1>5. CASE SelectTimeout
  BY <1>5 DEF SelectTimeout
<1>6. CASE SelectTick
  <2>1. latePolls = 0 /\ latePolls' \in {0, 1} /\ (latePolls' = 1 => Expired)
    BY <1>6 DEF SelectTick
  <2>2. /\ api = "select" /\ api' = "fetching" /\ reply' = "none"
        /\ polls' \in 0 .. MaxPolls
        /\ UNCHANGED <<config, outcome, reason, recorded, job, errors, ctx, timedOut>>
    BY <1>6 DEF SelectTick
  <2>3. tick' \in BOOLEAN
    BY <1>6 DEF SelectTick
  <2>4. QED
    BY <2>1, <2>2, <2>3
<1>7. CASE GetFails
  BY <1>7 DEF GetFails
<1>8. CASE GetAnswers
  BY <1>8 DEF GetAnswers
<1>9. QED
  BY <1>1, <1>2, <1>3, <1>4, <1>5, <1>6, <1>7, <1>8 DEF RegistryStep

\* The server, the ticker and the timeout of the polling keep it.
LEMMA ServerSafe ==
  RegistrySafe /\ (ServerStep \/ Ticks \/ PollingTimesOut) => RegistrySafe'
<1> SUFFICES ASSUME RegistrySafe, ServerStep \/ Ticks \/ PollingTimesOut
             PROVE  RegistrySafe'
  OBVIOUS
<1> USE DEF RegistrySafe, RegistryInv, RegistryTypeOK, ContextTypeOK, SuccessMeansCompleted,
        MetricsMatchOutcome, PollingStopsAtTimeout, RegistryPhases, Outcomes, Reasons,
        JobStates, JobEnds, pollVars, answerVars, contextVars, Expired
<1>1. CASE JobCreated
  BY <1>1 DEF JobCreated
<1>2. CASE JobMoves
  BY <1>2 DEF JobMoves
<1>3. CASE ServerReplies
  BY <1>3 DEF ServerReplies
<1>4. CASE Ticks
  BY <1>4 DEF Ticks
<1>5. CASE PollingTimesOut
  BY <1>5 DEF PollingTimesOut, TimeoutPasses
<1>6. QED
  BY <1>1, <1>2, <1>3, <1>4, <1>5 DEF ServerStep

--------------------------------------------------------------------------------
(* What the start of the process has validated *)

\* Loading a file changes the values in it, not where its registries are.
LEMMA RegistriesAreIndexed == file \in Files => DOMAIN cfg.registries \subseteq Nat \ {0}
<1> SUFFICES ASSUME file \in Files
             PROVE  DOMAIN cfg.registries \subseteq Nat \ {0}
  OBVIOUS
<1>1. /\ "registries" \in DOMAIN file
      /\ Len(file.registries) \in Nat /\ DOMAIN file.registries = 1 .. Len(file.registries)
  BY HandlerAssumption
<1>2. DOMAIN Expand(file).registries = DOMAIN file.registries
  BY <1>1 DEF Expand
<1>3. cfg.registries = Expand(file).registries
  BY DEF cfg, Loaded, ApplyDefaults
<1>4. QED
  BY <1>1, <1>2, <1>3

\* In a valid configuration a name finds one registry, if any, and the empty name none.
LEMMA NamesAreUnique ==
  ASSUME NEW c, Validate(c), DOMAIN c.registries \subseteq Nat \ {0}, NEW name
  PROVE  /\ Named(c, Unset) = {}
         /\ Named(c, name) # {} => /\ Min(Named(c, name)) \in DOMAIN c.registries
                                  /\ c.registries[Min(Named(c, name))].name = name
<1>1. Named(c, Unset) = {}
  BY DEF Validate, Named
<1>2. ASSUME NEW i \in Named(c, name)
      PROVE  Named(c, name) = {i}
  <2>1. ASSUME NEW j \in Named(c, name), j < i
        PROVE  FALSE
    BY <2>1 DEF Validate, Named
  <2>2. ASSUME NEW j \in Named(c, name), i < j
        PROVE  FALSE
    BY <2>2 DEF Validate, Named
  <2>3. QED
    BY <2>1, <2>2 DEF Named
<1>3. ASSUME NEW i \in Named(c, name)
      PROVE  Min(Named(c, name)) = i
  <2>1. i \in Nat
    BY DEF Named
  <2>2. QED
    BY <1>2, <2>1 DEF Min
<1>4. QED
  BY <1>1, <1>3 DEF Named

\* The backends that were created at the start can be created for every request: the one
\* of its registry is the global one or that of an override.
LEMMA ValidatedIsEnough ==
  ASSUME file \in Files, Validate(cfg), ValidateScannerConfig, NEW name
  PROVE  NewScannerBackend(cfg, name, cliFound) # "none"
<1> USE DEF NewScannerBackend
<1>0. /\ Named(cfg, Unset) = {}
      /\ Named(cfg, name) # {} => /\ Min(Named(cfg, name)) \in DOMAIN cfg.registries
                                 /\ cfg.registries[Min(Named(cfg, name))].name = name
  BY RegistriesAreIndexed, NamesAreUnique
<1>1. NewScannerBackend(cfg, Unset, cliFound) # "none"
  BY DEF ValidateScannerConfig, Unset
<1>2. DetermineScannerType(cfg, Unset) = Or(Unset, Or(cfg.scanner, "cli"))
  BY <1>0 DEF DetermineScannerType
<1>3. CASE DetermineScannerType(cfg, name) = DetermineScannerType(cfg, Unset)
  BY <1>1, <1>3
<1>4. CASE /\ Named(cfg, name) # {}
           /\ cfg.registries[Min(Named(cfg, name))].scanner # Unset
  BY <1>0, <1>4 DEF ValidateScannerConfig
<1>5. QED
  BY <1>2, <1>3, <1>4 DEF DetermineScannerType

--------------------------------------------------------------------------------
(* The call *)

\* Before the call there is no backend, and what was validated at the start holds until
\* the CLI scanner disappears.
HandlerSafe ==
    /\ CLISafe /\ RegistrySafe
    /\ HandlerTypeOK /\ OneBackendRuns /\ StartupValidates /\ NilMeansScanned
    /\ handler \in {"starting", "refused", "serving"} => backend = "none"
    /\ handler \in {"serving", "scanning", "returned"} =>
          Validate(cfg) /\ (cliFound => ValidateScannerConfig)

LEMMA HandlerStarts == HandlerInit => HandlerSafe
<1> SUFFICES ASSUME HandlerInit
             PROVE  HandlerSafe
  OBVIOUS
<1>1. CLISafe /\ RegistrySafe
  BY CLIStarts, RegistryStarts DEF HandlerInit
<1>2. /\ handler = "starting" /\ backend = "none" /\ result = "none"
      /\ file \in Files /\ request \in Requests /\ cliFound \in BOOLEAN
      /\ cli = "new" /\ process = "none" /\ api = "new" /\ job = "none"
  BY DEF HandlerInit, CLIInit, RegistryInit
<1>3. QED
  BY <1>1, <1>2
     DEF HandlerSafe, HandlerTypeOK, OneBackendRuns, StartupValidates, NilMeansScanned

\* Both backends keep their invariants through every step of the handler.
LEMMA BackendsSafe ==
  CLISafe /\ RegistrySafe /\ [HandlerNext]_allVars => CLISafe' /\ RegistrySafe'
<1> SUFFICES ASSUME CLISafe, RegistrySafe, [HandlerNext]_allVars
             PROVE  CLISafe' /\ RegistrySafe'
  OBVIOUS
<1>0. ContextTypeOK
  BY DEF CLISafe, CLIInv, CLITypeOK
<1>1. ASSUME UNCHANGED <<cliOnly, registryOnly, contextVars>>
      PROVE  CLISafe' /\ RegistrySafe'
  <2>1. ContextTypeOK' /\ (Expired => Expired')
    BY <1>0, <1>1 DEF ContextTypeOK, Expired, contextVars
  <2>2. QED
    BY <1>1, <2>1, CLILeftAlone, RegistryLeftAlone
<1>2. ASSUME CLIStep \/ OutsideStep, UNCHANGED registryOnly
      PROVE  CLISafe' /\ RegistrySafe'
  <2>1. UNCHANGED contextVars
    BY <1>2 DEF CLIStep, StartFails, StartSucceeds, WaitReceived, TimeoutKills, Capture,
       ReturnResult, Return, OutsideStep, WindUp, ProcessExits, ContextKills, ProcessDies,
       OutputEnds, WaiterSends
  <2>2. ContextTypeOK' /\ (Expired => Expired')
    BY <1>0, <2>1 DEF ContextTypeOK, Expired, contextVars
  <2>3. QED
    BY <1>2, <2>2, CLIStepSafe, OutsideStepSafe, RegistryLeftAlone
<1>3. ASSUME RegistryStep \/ ServerStep \/ Ticks \/ PollingTimesOut, UNCHANGED cliOnly
      PROVE  CLISafe' /\ RegistrySafe'
  <2>1. RegistrySafe'
    BY <1>3, RegistryStepSafe, ServerSafe
  <2>2. ContextTypeOK'
    BY <2>1 DEF RegistrySafe, RegistryInv, RegistryTypeOK
  <2>3. QED
    BY <1>3, <2>1, <2>2, CLILeftAlone
<1>4. ASSUME TimeoutPasses \/ ContextDone, UNCHANGED <<cliOnly, registryOnly>>
      PROVE  CLISafe' /\ RegistrySafe'
  <2>1. ContextTypeOK' /\ (Expired => Expired')
    BY <1>0, <1>4 DEF ContextTypeOK, Expired, TimeoutPasses, ContextDone
  <2>2. QED
    BY <1>4, <2>1, CLILeftAlone, RegistryLeftAlone
<1>5. CASE TimesOut
  <2>1. \/ TimeoutPasses /\ UNCHANGED <<cliOnly, registryOnly>>
        \/ PollingTimesOut /\ UNCHANGED cliOnly
    BY <1>5 DEF TimesOut, CLITimesOut, cliOnly
  <2>2. QED
    BY <2>1, <1>3, <1>4
<1>6. QED
  BY <1>1, <1>2, <1>3, <1>4, <1>5
     DEF HandlerNext, HandlerStep, StartUp, CallHandler, ScanByCLI, ScanByAPI, HandlerReturns,
         Returns, CLIDisappears, ScannerMoves, ServerMoves, CallContextDone, allVars

\* What the environment of a call does leaves the call alone, starts no backend and takes
\* back nothing that a scan has been judged by.
LEMMA EnvironmentSafe ==
  ASSUME HandlerSafe, CLISafe', RegistrySafe', UNCHANGED handlerVars,
         \/ CLIDisappears \/ ScannerMoves \/ ServerMoves \/ TimesOut \/ CallContextDone
         \/ UNCHANGED allVars
  PROVE  HandlerSafe'
<1> USE DEF HandlerSafe, handlerVars
<1>0. UNCHANGED <<file, request, handler, backend, result, cfg>>
  BY DEF cfg
<1>1. cliFound' = FALSE \/ cliFound' = cliFound
  BY DEF CLIDisappears, ScannerMoves, ServerMoves, TimesOut, CallContextDone, allVars
<1>2. HandlerTypeOK' /\ StartupValidates'
  <2>1. CASE cliFound' = FALSE
    BY <1>0, <2>1 DEF HandlerTypeOK, StartupValidates
  <2>2. CASE cliFound' = cliFound
    BY <1>0, <2>2 DEF HandlerTypeOK, StartupValidates
  <2>3. QED
    BY <1>1, <2>1, <2>2
<1>3. /\ cli = "new" /\ process = "none" => UNCHANGED <<cli, process>>
      /\ process = "ended" => UNCHANGED <<process, code, whole>>
  BY DEF CLIDisappears, ScannerMoves, ServerMoves, TimesOut, CallContextDone, allVars, cliOnly,
     scanVars, captureVars, processVars, OutsideStep, WindUp, ProcessExits, ProcessDies,
     ContextKills, OutputEnds, WaiterSends, CLITimesOut
<1>4. /\ api = "new" /\ job = "none" => UNCHANGED <<api, job>>
      /\ job = "completed" => UNCHANGED job
  BY DEF CLIDisappears, ScannerMoves, ServerMoves, TimesOut, CallContextDone, allVars,
     registryOnly, answerVars, ServerStep, JobCreated, JobMoves, ServerReplies, Ticks,
     PollingTimesOut
<1>5. OneBackendRuns'
  BY <1>0, <1>3, <1>4 DEF OneBackendRuns
<1>6. NilMeansScanned'
  BY <1>0, <1>3, <1>4 DEF NilMeansScanned
<1>7. (handler \in {"serving", "scanning", "returned"} =>
          Validate(cfg) /\ (cliFound => ValidateScannerConfig))'
  BY <1>0, <1>1 DEF ValidateScannerConfig
<1>8. QED
  BY <1>0, <1>2, <1>5, <1>6, <1>7

\* The process starts only with a configuration that it has validated.
LEMMA StartUpSafe == HandlerSafe /\ StartUp /\ CLISafe' /\ RegistrySafe' => HandlerSafe'
<1> SUFFICES ASSUME HandlerSafe, StartUp, CLISafe', RegistrySafe'
             PROVE  HandlerSafe'
  OBVIOUS
<1> USE DEF HandlerSafe
<1>1. /\ handler = "starting" /\ handler' \in {"serving", "refused"}
      /\ handler' = "serving" => Validate(cfg) /\ ValidateScannerConfig
      /\ UNCHANGED <<file, request, cliFound, backend, result, cli, process, api, job, cfg>>
  BY DEF StartUp, cliOnly, registryOnly, scanVars, processVars, answerVars, cfg
<1>2. HandlerTypeOK' /\ OneBackendRuns' /\ StartupValidates' /\ NilMeansScanned'
  BY <1>1 DEF HandlerTypeOK, OneBackendRuns, StartupValidates, NilMeansScanned
<1>3. handler' = "serving" => (Validate(cfg) /\ ValidateScannerConfig)'
  BY <1>1 DEF ValidateScannerConfig
<1>4. QED
  BY <1>1, <1>2, <1>3

\* The backend of the request can be created, unless the CLI scanner has disappeared.
LEMMA CallSafe == HandlerSafe /\ CallHandler /\ CLISafe' /\ RegistrySafe' => HandlerSafe'
<1> SUFFICES ASSUME HandlerSafe, CallHandler, CLISafe', RegistrySafe'
             PROVE  HandlerSafe'
  OBVIOUS
<1> USE DEF HandlerSafe
<1>1. /\ handler = "serving" /\ handler' = "scanning" /\ result' = "running" /\ backend = "none"
      /\ backend' = NewScannerBackend(cfg, request.registry, cliFound)
      /\ UNCHANGED <<file, request, cliFound, cli, process, api, job, cfg>>
  BY DEF CallHandler, cliOnly, registryOnly, scanVars, processVars, answerVars, cfg
<1>2. backend' \in {"none"} \cup ScannerTypes
  BY <1>1 DEF NewScannerBackend, BackendValid, ScannerTypes
<1>3. cliFound => backend' # "none"
  BY <1>1, ValidatedIsEnough DEF HandlerTypeOK
<1>4. HandlerTypeOK' /\ OneBackendRuns' /\ StartupValidates' /\ NilMeansScanned'
  BY <1>1, <1>2, <1>3 DEF HandlerTypeOK, OneBackendRuns, StartupValidates, NilMeansScanned
<1>5. (Validate(cfg) /\ (cliFound => ValidateScannerConfig))'
  BY <1>1 DEF ValidateScannerConfig
<1>6. QED
  BY <1>1, <1>4, <1>5

\* A backend that scans is the one of the call.
LEMMA ScanSafe ==
  HandlerSafe /\ (ScanByCLI \/ ScanByAPI) /\ CLISafe' /\ RegistrySafe' => HandlerSafe'
<1> SUFFICES ASSUME HandlerSafe, ScanByCLI \/ ScanByAPI, CLISafe', RegistrySafe'
             PROVE  HandlerSafe'
  OBVIOUS
<1> USE DEF HandlerSafe
<1>1. /\ handler = "scanning" /\ result = "running" /\ cliFound' = cliFound
      /\ UNCHANGED <<file, request, handler, backend, result, cfg>>
      /\ backend \in {"cli", "registry"}
      /\ backend = "cli" => UNCHANGED <<api, job>>
      /\ backend = "registry" => UNCHANGED <<cli, process>>
  BY DEF ScanByCLI, ScanByAPI, handlerVars, cliOnly, registryOnly, scanVars, processVars,
     answerVars, cfg, HandlerTypeOK
<1>2. HandlerTypeOK' /\ OneBackendRuns' /\ StartupValidates' /\ NilMeansScanned'
  BY <1>1 DEF HandlerTypeOK, OneBackendRuns, StartupValidates, NilMeansScanned
<1>3. (Validate(cfg) /\ (cliFound => ValidateScannerConfig))'
  BY <1>1 DEF ValidateScannerConfig
<1>4. QED
  BY <1>1, <1>2, <1>3

\* The handler returns nil for a success of its backend only.
LEMMA ReturnSafe == HandlerSafe /\ HandlerReturns /\ CLISafe' /\ RegistrySafe' => HandlerSafe'
<1> SUFFICES ASSUME HandlerSafe, HandlerReturns, CLISafe', RegistrySafe'
             PROVE  HandlerSafe'
  OBVIOUS
<1> USE DEF HandlerSafe
<1>1. /\ handler = "scanning" /\ handler' = "returned" /\ ScanIsOver
      /\ result' \in {"completed", "failed", "panicked"}
      /\ result' = "completed" => outcome # "panicked" /\ ~ScanError
      /\ UNCHANGED <<file, request, cliFound, backend, cli, process, code, whole, api, job, cfg>>
  BY DEF HandlerReturns, Returns, cliOnly, registryOnly, scanVars, captureVars, processVars,
     answerVars, cfg
<1>2. result' = "completed" =>
          \/ process = "ended" /\ code \in 0 .. 9 /\ whole
          \/ job = "completed"
  <2>1. CASE backend = "none"
    BY <1>1, <2>1 DEF ScanError
  <2>2. CASE backend = "cli"
    BY <1>1, <2>2
       DEF ScanError, ScanIsOver, CLISafe, CLIInv, ErrorMatchesStatus, SuccessIsWhole
  <2>3. CASE backend = "registry"
    BY <1>1, <2>3
       DEF ScanError, ScanIsOver, RegistrySafe, RegistryInv, RegistryTypeOK, Outcomes,
           SuccessMeansCompleted
  <2>4. QED
    BY <2>1, <2>2, <2>3 DEF HandlerTypeOK, ScannerTypes
<1>3. HandlerTypeOK' /\ OneBackendRuns' /\ StartupValidates' /\ NilMeansScanned'
  BY <1>1, <1>2 DEF HandlerTypeOK, OneBackendRuns, StartupValidates, NilMeansScanned
<1>4. (Validate(cfg) /\ (cliFound => ValidateScannerConfig))'
  BY <1>1 DEF ValidateScannerConfig
<1>5. QED
  BY <1>1, <1>3, <1>4

\* The invariant of a call is inductive.
THEOREM CallIsSafe == HandlerSpec => []HandlerSafe
<1>1. HandlerSafe /\ [HandlerNext]_allVars => HandlerSafe'
  <2> SUFFICES ASSUME HandlerSafe, [HandlerNext]_allVars
               PROVE  HandlerSafe'
    OBVIOUS
  <2>1. CLISafe' /\ RegistrySafe'
    BY BackendsSafe DEF HandlerSafe
  <2>2. CASE CLIDisappears \/ ScannerMoves \/ ServerMoves \/ TimesOut \/ CallContextDone
             \/ UNCHANGED allVars
    <3>1. UNCHANGED handlerVars
      BY <2>2 DEF CLIDisappears, ScannerMoves, ServerMoves, TimesOut, CallContextDone, allVars
    <3>2. QED
      BY <2>1, <2>2, <3>1, EnvironmentSafe
  <2>3. CASE StartUp \/ HandlerStep
    BY <2>1, <2>3, StartUpSafe, CallSafe, ScanSafe, ReturnSafe DEF HandlerStep
  <2>4. QED
    BY <2>2, <2>3 DEF HandlerNext
<1>2. QED
  BY HandlerStarts, <1>1, PTL DEF HandlerSpec

\* Whatever the file, the request and the way the scanner or the server behave: both
\* backends keep their invariants, one of them runs, and what the start has validated is
\* enough to create it.
THEOREM HandlerInvariant == HandlerSpec => []HandlerInv
<1>1. HandlerSafe => HandlerInv
  BY DEF HandlerSafe, HandlerInv, CLISafe, RegistrySafe
<1>2. QED
  BY <1>1, CallIsSafe, PTL

\* A handler that returns nil has scanned: the pool may take the request for done.
THEOREM NilIsAScan == HandlerSpec => []NilMeansScanned
<1>1. HandlerSafe => NilMeansScanned
  BY DEF HandlerSafe
<1>2. QED
  BY <1>1, CallIsSafe, PTL

\* Every step of the handler is a step of the promise, or none: it is called once and ends
\* once, with nil, an error or a panic.
THEOREM HandlerKeepsPromise == HandlerSpec => PromisedOf!PromiseSpec
<1>1. HandlerInit => PromisedOf!PromiseInit
  BY DEF HandlerInit, PromisedOf!PromiseInit
<1>2. HandlerSafe /\ [HandlerNext]_allVars => [PromisedOf!PromiseNext]_result
  <2> SUFFICES ASSUME HandlerSafe, [HandlerNext]_allVars
               PROVE  [PromisedOf!PromiseNext]_result
    OBVIOUS
  <2>1. CASE CallHandler
    BY <2>1 DEF CallHandler, HandlerSafe, HandlerTypeOK, PromisedOf!PromiseNext, PromisedOf!Called
  <2>2. CASE HandlerReturns
    BY <2>2 DEF HandlerReturns, Returns, HandlerSafe, HandlerTypeOK, PromisedOf!PromiseNext,
       PromisedOf!Ends
  <2>3. CASE UNCHANGED result
    BY <2>3
  <2>4. QED
    BY <2>1, <2>2, <2>3
       DEF HandlerNext, HandlerStep, StartUp, ScanByCLI, ScanByAPI, CLIDisappears, ScannerMoves,
           ServerMoves, TimesOut, CallContextDone, allVars, handlerVars
<1>3. QED
  BY <1>1, <1>2, CallIsSafe, PTL DEF HandlerSpec, PromisedOf!PromiseSpec
================================================================================

------------------------------- MODULE Startup -------------------------------
(***************************************************************************)
(* Start and shutdown of the process: cmd/main.go, pkg/signals, the        *)
(* constructors of the dispatcher and of the plugins, the OCI client and   *)
(* its configuration, and the first use of the client by the workers.      *)
(* What is read from outside (files, environment, services) is chosen at   *)
(* the step that reads it.                                                 *)
(***************************************************************************)
EXTENDS Naturals, FiniteSets, ClientConfig

CONSTANTS
    Workers,      \* goroutines that work on claims
    Types,        \* values of PROVISIONER_TYPE: "", "block", "fss", "other"
    None,
    Faults,       \* steps of main, by their pc, that may fail
    Hangs,        \* steps of main that may wait for a service without end
    MaxSignals    \* SIGINT or SIGTERM sent to the process

\* The steps of main in their order, a wait without end, the end of the process.
Steps == {"parse", "signals", "kube", "env", "config", "client", "region", "plugin",
          "start", "ready", "run", "hung", "exited"}

\* Exit codes, with the step that ended the process.
Exits == {0, 1, 2, 130} \X Steps

ASSUME StartupAssumption ==
    /\ Types \subseteq {"", "block", "fss", "other"}
    /\ None \notin {"", "top", "auth", "meta", "torn"} \cup Exits \cup Configs
    /\ Hangs \subseteq {"kube", "client", "region"}
    /\ MaxSignals \in Nat

VARIABLES
    pc,           \* main: the step that comes next
    exit,         \* exit code and the step that ended the process
    handler,      \* goroutine of the signal handler: "none", "first", "second"
    signals,      \* signals in the channel of the handler
    sent,         \* signals sent
    stop,         \* is the stop channel closed?
    type,         \* PROVISIONER_TYPE, "" replaced by its default
    cfg,          \* the configuration file
    comp,         \* cfg.CompartmentOCID as it is in memory
    metadata,     \* compartment in the metadata the client holds, None for nil
    transports,   \* transport of each OCI client
    proxyEnv,     \* OCI_PROXY and TRUSTED_CA_CERT_PATH
    informer,     \* node informer: "none", "registered", "started", "synced"
    factory,      \* go sharedInformerFactory.Start: "none", "spawned", "done"
    worker,       \* where each worker is in CompartmentOCID
    got           \* what it returned

mainVars   == <<type, cfg, metadata, transports, proxyEnv>>
signalVars == <<handler, signals, sent, stop>>
workerVars == <<worker, got>>
vars == <<pc, exit, mainVars, signalVars, comp, informer, factory, workerVars>>

Init ==
    /\ pc = "parse" /\ exit = None
    /\ handler = "none" /\ signals = 0 /\ sent = 0 /\ stop = FALSE
    /\ type = None /\ cfg = None /\ comp = "" /\ metadata = None
    /\ transports = [c \in {} |-> ""] /\ proxyEnv = None
    /\ informer = "none" /\ factory = "none"
    /\ worker = [w \in Workers |-> "idle"] /\ got = [w \in Workers |-> None]

Exit(code) == pc' = "exited" /\ exit' = <<code, pc>>

\* A step of main either goes on or ends the process with an error.
Goto(p) == pc' = p /\ UNCHANGED exit

\* Mutant: the error is recorded and main goes on.
FatalLogged == pc \in Faults /\ exit' = <<1, pc>> /\ UNCHANGED pc

Fatal == pc \in Faults /\ Exit(1)

-----------------------------------------------------------------------------
(* main *)

\* The log flags and those of the API server.
ParseFlags ==
    /\ pc = "parse"
    /\ Goto("signals") \/ (pc \in Faults /\ Exit(2))
    /\ UNCHANGED <<mainVars, signalVars, comp, informer, factory, workerVars>>

SetupSignalHandler ==
    /\ pc = "signals" /\ Goto("kube")
    /\ handler' = "first"
    /\ UNCHANGED <<mainVars, signals, sent, stop, comp, informer, factory, workerVars>>

\* The client of the API server and its version.
KubeClient ==
    /\ pc = "kube"
    /\ Goto("env") \/ Fatal
    /\ UNCHANGED <<mainVars, signalVars, comp, informer, factory, workerVars>>

\* NODE_NAME must be set and the minimum size must parse.
ReadEnv ==
    /\ pc = "env"
    /\ Goto("config") \/ Fatal
    /\ \E t \in Types : type' = IF t = "" THEN "block" ELSE t
    /\ UNCHANGED <<cfg, metadata, transports, proxyEnv, signalVars, comp, informer,
                   factory, workerVars>>

\* LoadConfig: a file that cannot be opened or parsed is fatal, a YAML null sets
\* the configuration to nil and Complete panics.
LoadConfig ==
    /\ pc = "config"
    /\ \/ \E c \in Configs :
            /\ cfg' = c /\ comp' = Complete(c).compartment
            /\ Goto("client")
       \/ Fatal /\ UNCHANGED <<cfg, comp>>
       \/ pc \in Faults /\ Exit(2) /\ UNCHANGED <<cfg, comp>>
    /\ UNCHANGED <<type, metadata, transports, proxyEnv, signalVars, informer,
                   factory, workerVars>>

Clients == {"blockStorage", "fileStorage", "virtualNetwork", "identity"}
Customized == {"blockStorage", "identity"}

\* What Get returns: metadata, with a compartment or without, or an error.
MetadataAnswers == {"meta", "", None}

\* FromConfig: the provider, the clients with their transports, the metadata.
\* An error of the metadata service is only logged.
FromConfig ==
    /\ pc = "client"
    /\ \E env \in TransportEnvs, m \in MetadataAnswers :
         LET failed == \/ newConfigurationProvider(cfg) = "invalid"
                       \/ configureCustomTransport(env) = {}
         IN
         /\ proxyEnv' = env
         /\ \/ failed /\ Exit(1) /\ UNCHANGED <<transports, metadata>>
            \/ ~failed /\ Fatal /\ UNCHANGED <<transports, metadata>>
            \/ /\ ~failed /\ Goto("region")
               /\ transports' = [c \in Clients |->
                    IF c \in Customized THEN CHOOSE t \in configureCustomTransport(env) : TRUE
                    ELSE [proxy |-> "", ca |-> ""]]
               /\ metadata' = m
    /\ UNCHANGED <<type, cfg, signalVars, comp, informer, factory, workerVars>>

\* The region comes from OCI_SHORT_REGION or from a second request for metadata.
Region ==
    /\ pc = "region"
    /\ Goto("plugin") \/ Fatal
    /\ UNCHANGED <<mainVars, signalVars, comp, informer, factory, workerVars>>

\* Mutant: the plugin does not ask for the compartment.
NewPluginLazy ==
    /\ pc = "plugin"
    /\ IF type = "other" THEN Exit(1) /\ UNCHANGED informer
       ELSE Goto("start") /\ informer' = "registered"
    /\ UNCHANGED <<mainVars, signalVars, comp, factory, workerVars>>

\* Mutant: the compartment is looked for and not kept.
NewPluginUnset ==
    /\ pc = "plugin"
    /\ IF type = "other" \/ (comp = "" /\ metadata = None) THEN Exit(1) /\ UNCHANGED informer
       ELSE Goto("start") /\ informer' = "registered"
    /\ UNCHANGED <<mainVars, signalVars, comp, factory, workerVars>>

\* Mutant: the node informer is not asked for before the factory starts.
NewPluginUnregistered ==
    /\ pc = "plugin"
    /\ IF type = "other" \/ (comp = "" /\ metadata = None) THEN Exit(1) /\ UNCHANGED comp
       ELSE Goto("start") /\ comp' = IF comp = "" THEN metadata ELSE comp
    /\ UNCHANGED <<mainVars, signalVars, informer, factory, workerVars>>

\* Both plugins log the compartment when they are made, which sets it from the
\* metadata if it is empty; without metadata that is fatal.  The lister registers
\* the node informer with the factory.
NewPlugin ==
    /\ pc = "plugin"
    /\ IF type = "other" \/ (comp = "" /\ metadata = None)
       THEN Exit(1) /\ UNCHANGED <<comp, informer>>
       ELSE /\ Goto("start")
            /\ comp' = IF comp = "" THEN metadata ELSE comp
            /\ informer' = "registered"
    /\ UNCHANGED <<mainVars, signalVars, factory, workerVars>>

SpawnStart ==
    /\ pc = "start" /\ Goto("ready")
    /\ factory' = "spawned"
    /\ UNCHANGED <<mainVars, signalVars, comp, informer, workerVars>>

\* Ready polls until the informer is synced or the stop channel is closed.
Ready ==
    /\ pc = "ready"
    /\ \/ informer = "synced" /\ Goto("run")
       \/ stop /\ Exit(1)
    /\ UNCHANGED <<mainVars, signalVars, comp, informer, factory, workerVars>>

\* pc.Run returns when the stop channel is closed, and main with it: workers end
\* where they are.
RunReturns ==
    /\ pc = "run" /\ stop /\ Exit(0)
    /\ UNCHANGED <<mainVars, signalVars, comp, informer, factory, workerVars>>

\* A request without a timeout is not answered.
Hang ==
    /\ pc \in Hangs /\ Goto("hung")
    /\ UNCHANGED <<mainVars, signalVars, comp, informer, factory, workerVars>>

Main ==
    \/ ParseFlags \/ SetupSignalHandler \/ KubeClient \/ ReadEnv \/ LoadConfig
    \/ FromConfig \/ Region \/ NewPlugin \/ SpawnStart \/ Ready \/ RunReturns

-----------------------------------------------------------------------------
(* Signals *)

\* Mutant: room for one signal.
BufferOne == 1

\* Capacity of the channel; a signal that finds it full is dropped.
Buffer == 2

\* Without a handler a signal ends the process.
Signal ==
    /\ pc # "exited" /\ sent < MaxSignals
    /\ sent' = sent + 1
    /\ IF handler = "none"
       THEN pc' = "exited" /\ exit' = <<130, pc>> /\ UNCHANGED signals
       ELSE /\ signals' = IF signals < Buffer THEN signals + 1 ELSE signals
            /\ UNCHANGED <<pc, exit>>
    /\ UNCHANGED <<mainVars, handler, stop, comp, informer, factory, workerVars>>

\* The first signal closes the stop channel, the second ends the process.
HandleSignal ==
    /\ pc # "exited" /\ handler # "none" /\ signals > 0
    /\ signals' = signals - 1
    /\ handler' = "second"
    /\ IF handler = "first" THEN stop' = TRUE /\ UNCHANGED <<pc, exit>>
       ELSE Exit(1) /\ UNCHANGED stop
    /\ UNCHANGED <<mainVars, sent, comp, informer, factory, workerVars>>

-----------------------------------------------------------------------------
(* Informer and workers *)

\* Start runs the informers that are registered by then.
FactoryStarts ==
    /\ pc # "exited" /\ factory = "spawned"
    /\ factory' = "done"
    /\ informer' = IF informer = "registered" THEN "started" ELSE informer
    /\ UNCHANGED <<pc, exit, mainVars, signalVars, comp, workerVars>>

InformerSyncs ==
    /\ pc # "exited" /\ informer = "started"
    /\ informer' = "synced"
    /\ UNCHANGED <<pc, exit, mainVars, signalVars, comp, factory, workerVars>>

\* CompartmentOCID without synchronisation: a string that is being written may be
\* taken for empty, or read in part.
CompartmentOCID(w) ==
    /\ pc = "run" /\ worker[w] = "idle"
    /\ \/ /\ comp # ""
          /\ got' = [got EXCEPT ![w] = comp]
          /\ worker' = [worker EXCEPT ![w] = "done"]
          /\ UNCHANGED <<pc, exit, comp>>
       \/ /\ comp \in {"", "torn"}
          /\ IF metadata = None THEN Exit(1) /\ UNCHANGED <<comp, worker>>
             ELSE /\ comp' = IF metadata = "" THEN "" ELSE "torn"
                  /\ worker' = [worker EXCEPT ![w] = "writing"]
                  /\ UNCHANGED <<pc, exit>>
          /\ UNCHANGED got
    /\ UNCHANGED <<mainVars, signalVars, informer, factory>>

CompartmentWritten(w) ==
    /\ pc = "run" /\ worker[w] = "writing"
    /\ comp' = metadata
    /\ got' = [got EXCEPT ![w] = metadata]
    /\ worker' = [worker EXCEPT ![w] = "done"]
    /\ UNCHANGED <<pc, exit, mainVars, signalVars, informer, factory>>

\* The next claim.
WorkOn(w) ==
    /\ pc = "run" /\ worker[w] = "done"
    /\ worker' = [worker EXCEPT ![w] = "idle"]
    /\ UNCHANGED <<pc, exit, mainVars, signalVars, comp, informer, factory, got>>

Next ==
    \/ Main \/ Hang \/ Signal \/ HandleSignal \/ FactoryStarts \/ InformerSyncs
    \/ \E w \in Workers : CompartmentOCID(w) \/ CompartmentWritten(w) \/ WorkOn(w)

Spec == Init /\ [][Next]_vars

\* The goroutines run, and requests that do not hang are answered.  Nobody has to
\* send a signal.
Fairness ==
    /\ WF_vars(Main) /\ WF_vars(HandleSignal)
    /\ WF_vars(FactoryStarts) /\ WF_vars(InformerSyncs)

FairSpec == Spec /\ Fairness

-----------------------------------------------------------------------------
(* Properties *)

Compartments == {"", "top", "auth", "meta", "torn"}

TypeOK ==
    /\ pc \in Steps /\ exit \in Exits \cup {None}
    /\ exit = None <=> pc # "exited"
    /\ handler \in {"none", "first", "second"} /\ stop \in BOOLEAN
    /\ signals \in 0..2 /\ sent \in 0..MaxSignals
    /\ type \in (Types \ {""}) \cup {"block", None}
    /\ cfg \in Configs \cup {None}
    /\ comp \in Compartments /\ metadata \in {"", "meta", None}
    /\ informer \in {"none", "registered", "started", "synced"}
    /\ factory \in {"none", "spawned", "done"}
    /\ worker \in [Workers -> {"idle", "writing", "done"}]
    /\ got \in [Workers -> Compartments \cup {None}]

\* Workers see one whole compartment, though CompartmentOCID (client.go:116) writes
\* it without synchronisation: the one at the top level of the file before the
\* deprecated one, and the one of the metadata only when the file has none.
OneCompartment ==
    \A w \in Workers : got[w] # None =>
        got[w] = IF cfg.compartment # "" THEN cfg.compartment
                 ELSE IF cfg.authCompartment # "" THEN cfg.authCompartment
                 ELSE metadata

\* Once workers run only signals end the process, not the Fatal of CompartmentOCID
\* (client.go:119) in a worker that is in the middle of a Provision.  Panics of workers
\* are not modelled.
OnlySignalsEnd ==
    pc = "exited" /\ exit[2] = "run" =>
        (exit[1] = 0 /\ sent >= 1) \/ (exit[1] = 1 /\ sent >= 2)

\* Workers run with one way to authenticate, with the node cache filled, and, for
\* block volumes, with every client behind the proxy and the roots of the
\* environment; all that after the checks of FromConfig and Ready.  The clients of file
\* storage have neither proxy nor roots (client.go:153).
RunsConfigured ==
    pc = "run" =>
        /\ cfg.auth = IF cfg.useInstancePrincipals THEN {} ELSE AuthFields
        /\ informer = "synced" /\ type # "other"
        /\ type = "block" => \A c \in {"blockStorage", "identity"} : transports[c] = proxyEnv

\* The process gets to run its workers or ends: Ready does not wait for an informer
\* that was not started (main.go:147: "so we don't deadlock waiting for caches to
\* sync").
StartsOrEnds == <>(pc \in {"run", "hung", "exited"})

\* The comment of SetupSignalHandler (signal.go:26): one signal stops the process,
\* unless main waits for a service, and a second one always does.  No signal is
\* lost when two come before the handler has looked.
SignalsEnd ==
    /\ sent >= 1 ~> pc \in {"hung", "exited"}
    /\ sent >= 2 ~> pc = "exited"
=============================================================================

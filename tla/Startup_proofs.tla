--------------------------- MODULE Startup_proofs ---------------------------
(***************************************************************************)
(* Safety of start and shutdown for any number of workers and signals, and *)
(* for every set of steps that fail or hang.                               *)
(***************************************************************************)
EXTENDS Startup, TLAPS

\* The compartment that the workers are to see.
Expected ==
    IF cfg.compartment # "" THEN cfg.compartment
    ELSE IF cfg.authCompartment # "" THEN cfg.authCompartment
    ELSE metadata

Checked == {"region", "plugin", "start", "ready", "run"}
Equipped == {"start", "ready", "run"}

\* What main has found out when it comes to a step.
MainInv ==
    /\ pc \in {"client", "region", "plugin"} =>
         cfg \in Configs /\ comp = Complete(cfg).compartment
    /\ pc \in Checked => /\ cfg \in Configs
                         /\ cfg.auth = IF cfg.useInstancePrincipals THEN {} ELSE AuthFields
                         /\ \A c \in Customized : transports[c] = proxyEnv
    /\ pc \in Equipped => comp = Expected /\ comp # None /\ type # "other"
    /\ pc = "run" => informer = "synced"

\* Workers only work once main has come to Run, and write what is there already.
WorkerInv ==
    \A w \in Workers :
        /\ pc \notin {"run", "exited"} => worker[w] = "idle" /\ got[w] = None
        /\ worker[w] = "writing" /\ pc = "run" => metadata = Expected
        /\ got[w] # None => got[w] = Expected

\* The types of what signals and exits touch.
SignalType ==
    /\ pc \in Steps /\ exit \in Exits \cup {None}
    /\ exit = None <=> pc # "exited"
    /\ handler \in {"none", "first", "second"} /\ stop \in BOOLEAN
    /\ signals \in 0..2 /\ sent \in 0..MaxSignals

\* Each signal is in the channel, was handled, or was dropped.
SignalInv ==
    /\ handler = "none" => pc \in {"parse", "signals", "exited"}
    /\ pc \in {"parse", "signals"} => handler = "none"
    /\ handler # "second" => signals <= sent
    /\ handler = "second" => signals + 1 <= sent
    /\ stop => handler = "second"
    /\ OnlySignalsEnd

\* A step that is not about a signal: main stays, goes on, or ends, and once workers
\* run it ends only because the stop channel is closed.
Quiet ==
    /\ UNCHANGED <<signals, sent, stop>>
    /\ handler' = handler \/ (pc = "signals" /\ handler' = "first")
    /\ \/ UNCHANGED <<pc, exit, handler>>
       \/ /\ pc # "exited" /\ pc' \in Steps \ {"parse", "exited"} /\ UNCHANGED exit
          /\ pc = "parse" <=> pc' = "signals"
          /\ pc = "signals" => handler' = "first"
       \/ pc \notin {"run", "exited"} /\ (Exit(1) \/ Exit(2))
       \/ pc = "run" /\ stop /\ Exit(0)

\* The part of TypeOK that is not about signals.
DataType ==
    /\ type \in (Types \ {""}) \cup {"block", None}
    /\ cfg \in Configs \cup {None}
    /\ comp \in Compartments /\ metadata \in {"", "meta", None}
    /\ informer \in {"none", "registered", "started", "synced"}
    /\ factory \in {"none", "spawned", "done"}
    /\ worker \in [Workers -> {"idle", "writing", "done"}]
    /\ got \in [Workers -> Compartments \cup {None}]

-----------------------------------------------------------------------------
\* What the provers need of the constants where they do arithmetic.
LEMMA Bounded == MaxSignals \in Nat /\ None \notin Exits
  BY StartupAssumption

\* An exit is its code and the step that ended the process.
LEMMA ExitIs ==
    ASSUME NEW code \in {0, 1, 2, 130}, pc \in Steps, Exit(code)
    PROVE  pc' = "exited" /\ exit' \in Exits /\ exit'[1] = code /\ exit'[2] = pc
  BY DEF Exit, Exits

\* The compartment of the file, or of its deprecated field.
LEMMA CompleteIs ==
    ASSUME NEW c \in Configs
    PROVE  /\ Complete(c).compartment = IF c.compartment # "" THEN c.compartment
                                        ELSE c.authCompartment
           /\ Complete(c).compartment \in {"", "top", "auth"}
  BY DEF Complete, Configs

\* A worker that reads the compartment finds it set, or sets it to what it is, the
\* empty one of the metadata.
LEMMA CompartmentStays ==
    ASSUME MainInv, DataType, NEW w \in Workers, CompartmentOCID(w)
    PROVE  /\ UNCHANGED <<pc, exit, comp>> /\ comp = Expected
           /\ \/ /\ got' = [got EXCEPT ![w] = comp]
                 /\ worker' = [worker EXCEPT ![w] = "done"]
              \/ /\ comp = metadata /\ UNCHANGED got
                 /\ worker' = [worker EXCEPT ![w] = "writing"]
<1>1. pc = "run" /\ comp = Expected /\ comp # None /\ cfg \in Configs
  BY DEF MainInv, CompartmentOCID, Equipped, Checked
<1>2. cfg.compartment \in {"", "top"} /\ cfg.authCompartment \in {"", "auth"}
  BY <1>1 DEF Configs
<1>3. comp # "torn" /\ (comp = "" => metadata = "")
  BY <1>1, <1>2, StartupAssumption DEF Expected, DataType
<1> QED
  BY <1>1, <1>3, StartupAssumption DEF CompartmentOCID

\* Every step keeps the types, given what main knows where it is.
LEMMA NextType ==
    ASSUME DataType, MainInv, WorkerInv, [Next]_vars PROVE DataType'
<1> USE StartupAssumption
<1> USE DEF DataType, mainVars, workerVars
<1>1. CASE ParseFlags
  BY <1>1 DEF ParseFlags
<1>2. CASE SetupSignalHandler
  BY <1>2 DEF SetupSignalHandler
<1>3. CASE KubeClient
  BY <1>3 DEF KubeClient
<1>4. CASE ReadEnv
  BY <1>4 DEF ReadEnv
<1>5. CASE LoadConfig
  <2>1. cfg' \in Configs \cup {None} /\ comp' \in Compartments
    <3>1. CASE UNCHANGED <<cfg, comp>>
      BY <3>1
    <3>2. ASSUME NEW c \in Configs, cfg' = c, comp' = Complete(c).compartment
          PROVE  cfg' \in Configs \cup {None} /\ comp' \in Compartments
      <4>1. comp' \in {"", "top", "auth"}
        BY <3>2, CompleteIs
      <4> QED
        BY <3>2, <4>1 DEF Compartments
    <3> QED
      BY <1>5, <3>1, <3>2 DEF LoadConfig
  <2>2. UNCHANGED <<type, metadata, informer, factory, worker, got>>
    BY <1>5 DEF LoadConfig
  <2> QED
    BY <2>1, <2>2
<1>6. CASE FromConfig
  BY <1>6 DEF FromConfig, MetadataAnswers
<1>7. CASE Region
  BY <1>7 DEF Region
<1>8. CASE NewPlugin
  BY <1>8 DEF NewPlugin, Compartments
<1>9. CASE SpawnStart
  BY <1>9 DEF SpawnStart
<1>10. CASE Ready
  BY <1>10 DEF Ready
<1>11. CASE RunReturns
  BY <1>11 DEF RunReturns
<1>12. CASE Hang
  BY <1>12 DEF Hang
<1>13. CASE Signal
  BY <1>13 DEF Signal, Buffer
<1>14. CASE HandleSignal
  BY <1>14 DEF HandleSignal
<1>15. CASE FactoryStarts
  BY <1>15 DEF FactoryStarts
<1>16. CASE InformerSyncs
  BY <1>16 DEF InformerSyncs
<1>17. ASSUME NEW w \in Workers, CompartmentOCID(w)
       PROVE  DataType'
  <2>1. /\ comp = Expected /\ UNCHANGED <<pc, comp>>
        /\ \/ /\ got' = [got EXCEPT ![w] = comp]
              /\ worker' = [worker EXCEPT ![w] = "done"]
           \/ /\ comp = metadata /\ UNCHANGED got
              /\ worker' = [worker EXCEPT ![w] = "writing"]
    BY <1>17, CompartmentStays
  <2>2. UNCHANGED <<type, cfg, metadata, transports, proxyEnv, informer, factory>>
    BY <1>17 DEF CompartmentOCID
  <2> QED
    BY <2>1, <2>2
<1>18. ASSUME NEW w \in Workers, CompartmentWritten(w)
       PROVE  DataType'
  BY <1>18 DEF CompartmentWritten, MainInv, WorkerInv, Equipped, Compartments
<1>19. ASSUME NEW w \in Workers, WorkOn(w)
       PROVE  DataType'
  BY <1>19 DEF WorkOn
<1>20. CASE UNCHANGED vars
  BY <1>20 DEF vars
<1> QED
  BY <1>1, <1>2, <1>3, <1>4, <1>5, <1>6, <1>7, <1>8, <1>9, <1>10, <1>11, <1>12,
      <1>13, <1>14, <1>15, <1>16, <1>17, <1>18, <1>19, <1>20 DEF Next, Main

\* Main comes to a step only with what the steps before it have checked and set.
LEMMA NextMain ==
    ASSUME DataType, MainInv, WorkerInv, [Next]_vars PROVE MainInv'
<1> USE StartupAssumption
<1> USE DEF MainInv, Checked, Equipped, Expected, mainVars, signalVars, workerVars,
    Goto, Exit, Fatal
<1>1. CASE ParseFlags
  BY <1>1 DEF ParseFlags
<1>2. CASE SetupSignalHandler
  BY <1>2 DEF SetupSignalHandler
<1>3. CASE KubeClient
  BY <1>3 DEF KubeClient
<1>4. CASE ReadEnv
  BY <1>4 DEF ReadEnv
<1>5. CASE LoadConfig
  BY <1>5 DEF LoadConfig
<1>6. CASE FromConfig
  BY <1>6 DEF FromConfig, newConfigurationProvider, validateAuthConfig, Configs,
      configureCustomTransport, Clients, Customized
<1>7. CASE Region
  BY <1>7 DEF Region
<1>8. CASE NewPlugin
  BY <1>8 DEF NewPlugin, Complete, Configs, DataType
<1>9. CASE SpawnStart
  BY <1>9 DEF SpawnStart
<1>10. CASE Ready
  BY <1>10 DEF Ready
<1>11. CASE RunReturns
  BY <1>11 DEF RunReturns
<1>12. CASE Hang
  BY <1>12 DEF Hang
<1>13. CASE Signal
  BY <1>13 DEF Signal, Buffer
<1>14. CASE HandleSignal
  BY <1>14 DEF HandleSignal
<1>15. CASE FactoryStarts
  BY <1>15 DEF FactoryStarts
<1>16. CASE InformerSyncs
  BY <1>16 DEF InformerSyncs
<1>17. ASSUME NEW w \in Workers, CompartmentOCID(w)
       PROVE  MainInv'
  BY <1>17, CompartmentStays DEF CompartmentOCID
<1>18. ASSUME NEW w \in Workers, CompartmentWritten(w)
       PROVE  MainInv'
  BY <1>18 DEF CompartmentWritten, WorkerInv, DataType
<1>19. ASSUME NEW w \in Workers, WorkOn(w)
       PROVE  MainInv'
  BY <1>19 DEF WorkOn
<1>20. CASE UNCHANGED vars
  BY <1>20 DEF vars
<1> QED
  BY <1>1, <1>2, <1>3, <1>4, <1>5, <1>6, <1>7, <1>8, <1>9, <1>10, <1>11, <1>12,
      <1>13, <1>14, <1>15, <1>16, <1>17, <1>18, <1>19, <1>20 DEF Next, Main

\* Workers get the compartment that is expected.
LEMMA NextWorker ==
    ASSUME DataType, MainInv, WorkerInv, [Next]_vars PROVE WorkerInv'
<1> USE StartupAssumption
<1> USE DEF WorkerInv, Expected, mainVars, signalVars, workerVars, Goto, Exit, Fatal
<1>1. CASE ParseFlags
  BY <1>1 DEF ParseFlags
<1>2. CASE SetupSignalHandler
  BY <1>2 DEF SetupSignalHandler
<1>3. CASE KubeClient
  BY <1>3 DEF KubeClient
<1>4. CASE ReadEnv
  BY <1>4 DEF ReadEnv
<1>5. CASE LoadConfig
  BY <1>5 DEF LoadConfig
<1>6. CASE FromConfig
  BY <1>6 DEF FromConfig
<1>7. CASE Region
  BY <1>7 DEF Region
<1>8. CASE NewPlugin
  BY <1>8 DEF NewPlugin
<1>9. CASE SpawnStart
  BY <1>9 DEF SpawnStart
<1>10. CASE Ready
  BY <1>10 DEF Ready
<1>11. CASE RunReturns
  BY <1>11 DEF RunReturns
<1>12. CASE Hang
  BY <1>12 DEF Hang
<1>13. CASE Signal
  BY <1>13 DEF Signal, Buffer
<1>14. CASE HandleSignal
  BY <1>14 DEF HandleSignal
<1>15. CASE FactoryStarts
  BY <1>15 DEF FactoryStarts
<1>16. CASE InformerSyncs
  BY <1>16 DEF InformerSyncs
<1>17. ASSUME NEW w \in Workers, CompartmentOCID(w)
       PROVE  WorkerInv'
  <2>1. /\ comp = Expected /\ UNCHANGED <<pc, comp>>
        /\ \/ /\ got' = [got EXCEPT ![w] = comp]
              /\ worker' = [worker EXCEPT ![w] = "done"]
           \/ /\ comp = metadata /\ UNCHANGED got
              /\ worker' = [worker EXCEPT ![w] = "writing"]
    BY <1>17, CompartmentStays
  <2>2. UNCHANGED <<type, cfg, metadata, transports, proxyEnv, informer, factory>>
    BY <1>17 DEF CompartmentOCID
  <2>3. pc = "run"
    BY <1>17 DEF CompartmentOCID
  <2>4. Expected' = Expected
    BY <2>2
  <2> HIDE DEF Expected
  <2> SUFFICES ASSUME NEW v \in Workers
               PROVE  /\ worker'[v] = "writing" => metadata' = Expected'
                      /\ got'[v] # None => got'[v] = Expected'
    BY <2>1, <2>3
  <2> QED
    BY <2>1, <2>2, <2>3, <2>4 DEF DataType
<1>18. ASSUME NEW w \in Workers, CompartmentWritten(w)
       PROVE  WorkerInv'
  BY <1>18 DEF CompartmentWritten, MainInv, DataType, Equipped
<1>19. ASSUME NEW w \in Workers, WorkOn(w)
       PROVE  WorkerInv'
  BY <1>19 DEF WorkOn, DataType
<1>20. CASE UNCHANGED vars
  BY <1>20 DEF vars
<1> QED
  BY <1>1, <1>2, <1>3, <1>4, <1>5, <1>6, <1>7, <1>8, <1>9, <1>10, <1>11, <1>12,
      <1>13, <1>14, <1>15, <1>16, <1>17, <1>18, <1>19, <1>20 DEF Next, Main

\* Only the two actions of signals are about signals.
LEMMA NextQuiet ==
    ASSUME DataType, MainInv, [Next]_vars PROVE Signal \/ HandleSignal \/ Quiet
<1> USE StartupAssumption
<1> USE DEF Quiet, Goto, Fatal, Steps, signalVars
<1>1. CASE ParseFlags
  BY <1>1 DEF ParseFlags
<1>2. CASE SetupSignalHandler
  BY <1>2 DEF SetupSignalHandler
<1>3. CASE KubeClient
  BY <1>3 DEF KubeClient
<1>4. CASE ReadEnv
  BY <1>4 DEF ReadEnv
<1>5. CASE LoadConfig
  BY <1>5 DEF LoadConfig
<1>6. CASE FromConfig
  BY <1>6 DEF FromConfig
<1>7. CASE Region
  BY <1>7 DEF Region
<1>8. CASE NewPlugin
  BY <1>8 DEF NewPlugin
<1>9. CASE SpawnStart
  BY <1>9 DEF SpawnStart
<1>10. CASE Ready
  BY <1>10 DEF Ready
<1>11. CASE RunReturns
  BY <1>11 DEF RunReturns
<1>12. CASE Hang
  BY <1>12 DEF Hang
<1>13. CASE FactoryStarts
  BY <1>13 DEF FactoryStarts
<1>14. CASE InformerSyncs
  BY <1>14 DEF InformerSyncs
<1>15. ASSUME NEW w \in Workers, CompartmentOCID(w) PROVE Quiet
  BY <1>15, CompartmentStays DEF CompartmentOCID
<1>16. ASSUME NEW w \in Workers, CompartmentWritten(w) PROVE Quiet
  BY <1>16 DEF CompartmentWritten
<1>17. ASSUME NEW w \in Workers, WorkOn(w) PROVE Quiet
  BY <1>17 DEF WorkOn
<1>18. CASE UNCHANGED vars
  BY <1>18 DEF vars
<1> QED
  BY <1>1, <1>2, <1>3, <1>4, <1>5, <1>6, <1>7, <1>8, <1>9, <1>10, <1>11, <1>12,
    <1>13, <1>14, <1>15, <1>16, <1>17, <1>18 DEF Next, Main, workerVars

\* No signal is counted twice, and only signals end the process once workers run.
LEMMA NextSignal ==
    ASSUME SignalType, SignalInv, Signal \/ HandleSignal \/ Quiet
    PROVE  SignalType' /\ SignalInv'
<1> USE Bounded
<1> USE DEF SignalType, SignalInv, OnlySignalsEnd
<1>1. CASE Signal
  <2>1. UNCHANGED <<handler, stop>> /\ sent' = sent + 1 /\ sent' \in 0..MaxSignals
    BY <1>1 DEF Signal
  <2>2. CASE handler = "none"
    <3>1. pc' = "exited" /\ exit' = <<130, pc>> /\ UNCHANGED signals
      BY <1>1, <2>2 DEF Signal
    <3>2. exit' \in Exits /\ exit'[2] = pc
      BY <3>1 DEF Exits
    <3>3. pc # "run"
      BY <2>2
    <3> QED
      BY <2>1, <2>2, <3>1, <3>2, <3>3 DEF Steps
  <2>3. CASE handler # "none"
    <3>1. UNCHANGED <<pc, exit>> /\ (signals' = signals \/ (signals < 2 /\ signals' = signals + 1))
      BY <1>1, <2>3 DEF Signal, Buffer
    <3> QED
      BY <2>1, <2>3, <3>1
  <2> QED
    BY <2>2, <2>3
<1>2. CASE HandleSignal
  <2>1. handler' = "second" /\ sent' = sent /\ signals' = signals - 1 /\ signals' \in 0..2
    BY <1>2 DEF HandleSignal
  <2>2. CASE handler = "first"
    <3>1. stop' = TRUE /\ UNCHANGED <<pc, exit>>
      BY <1>2, <2>2 DEF HandleSignal
    <3> QED
      BY <2>1, <2>2, <3>1
  <2>3. CASE handler # "first"
    <3>1. Exit(1) /\ UNCHANGED stop /\ handler = "second" /\ signals > 0
      BY <1>2, <2>3 DEF HandleSignal
    <3>2. pc' = "exited" /\ exit' \in Exits /\ exit'[1] = 1 /\ exit'[2] = pc
      BY <3>1, ExitIs
    <3> QED
      BY <2>1, <3>1, <3>2 DEF Steps
  <2> QED
    BY <2>2, <2>3
<1>3. CASE Quiet
  <2>1. UNCHANGED <<signals, sent, stop>> /\ handler' \in {"none", "first", "second"}
    BY <1>3 DEF Quiet
  <2>2. /\ handler' # "second" => signals' <= sent'
        /\ handler' = "second" => signals' + 1 <= sent'
        /\ stop' => handler' = "second"
    BY <1>3 DEF Quiet
  <2>3. CASE UNCHANGED <<pc, exit, handler>>
    <3>1. /\ handler' = "none" => pc' \in {"parse", "signals", "exited"}
          /\ pc' \in {"parse", "signals"} => handler' = "none"
      BY <1>3, <2>3 DEF Quiet
    <3> QED
      BY <2>1, <2>2, <2>3, <3>1
  <2>4. CASE /\ pc # "exited" /\ pc' \in Steps \ {"parse", "exited"} /\ UNCHANGED exit
             /\ pc = "parse" <=> pc' = "signals"
             /\ pc = "signals" => handler' = "first"
    <3>1. /\ handler' = "none" => pc' \in {"parse", "signals", "exited"}
          /\ pc' \in {"parse", "signals"} => handler' = "none"
      BY <1>3, <2>4 DEF Quiet
    <3> QED
      BY <2>1, <2>2, <2>4, <3>1
  <2>5. CASE pc \notin {"run", "exited"} /\ (Exit(1) \/ Exit(2))
    <3>1. pc' = "exited" /\ exit' \in Exits /\ exit'[2] = pc
      BY <2>5, ExitIs
    <3> QED
      BY <2>1, <2>2, <2>5, <3>1 DEF Steps
  <2>6. CASE pc = "run" /\ stop /\ Exit(0)
    <3>1. pc' = "exited" /\ exit' \in Exits /\ exit'[1] = 0
      BY <2>6, ExitIs
    <3>2. sent' >= 1
      BY <2>1, <2>6
    <3> QED
      BY <2>1, <2>2, <3>1, <3>2 DEF Steps
  <2> QED
    BY <1>3, <2>3, <2>4, <2>5, <2>6 DEF Quiet
<1> QED
  BY <1>1, <1>2, <1>3

-----------------------------------------------------------------------------
Inv == DataType /\ MainInv /\ WorkerInv /\ SignalType /\ SignalInv

\* The process starts in the invariant.
LEMMA InitInv == Init => Inv
<1> SUFFICES ASSUME Init PROVE Inv
  OBVIOUS
<1>1. DataType
  BY StartupAssumption DEF Init, DataType, Compartments
<1>2. MainInv
  BY DEF Init, MainInv, Checked, Equipped
<1>3. WorkerInv
  BY DEF Init, WorkerInv
<1>4. /\ pc = "parse" /\ exit = None /\ handler = "none" /\ stop = FALSE
      /\ signals = 0 /\ sent = 0
  BY DEF Init
<1>5. SignalType /\ SignalInv
  <2>1. pc \in Steps /\ exit \in Exits \cup {None} /\ (exit = None <=> pc # "exited")
    BY <1>4 DEF Steps
  <2>2. signals \in 0..2 /\ sent \in 0..MaxSignals
    BY <1>4, Bounded
  <2>3. handler \in {"none", "first", "second"} /\ stop \in BOOLEAN
    BY <1>4
  <2>4. SignalInv
    BY <1>4 DEF SignalInv, OnlySignalsEnd
  <2> QED
    BY <2>1, <2>2, <2>3, <2>4 DEF SignalType
<1> QED
  BY <1>1, <1>2, <1>3, <1>5 DEF Inv

\* Each step of the process keeps the invariant.
LEMMA InvInductive == Spec => []Inv
<1>1. ASSUME Inv, [Next]_vars PROVE Inv'
  BY <1>1, NextType, NextMain, NextWorker, NextQuiet, NextSignal DEF Inv
<1> QED
  BY InitInv, <1>1, PTL DEF Spec

\* Type correctness of the process.
THEOREM TypeCorrect == Spec => []TypeOK
<1>1. Inv => TypeOK
  BY DEF Inv, DataType, SignalType, TypeOK
<1> QED
  BY InvInductive, <1>1, PTL

\* However many workers call CompartmentOCID (client.go:116) at once, every one of
\* them gets the one compartment of the file, or that of the metadata.
THEOREM CompartmentIsOne == Spec => []OneCompartment
<1>1. Inv => OneCompartment
  BY DEF Inv, WorkerInv, OneCompartment, Expected
<1> QED
  BY InvInductive, <1>1, PTL

\* Once workers run the process ends with code 0 after one signal or with code 1
\* after two; no worker meets the Fatal of CompartmentOCID (client.go:119).
THEOREM SignalsOnly == Spec => []OnlySignalsEnd
<1>1. Inv => OnlySignalsEnd
  BY DEF Inv, SignalInv
<1> QED
  BY InvInductive, <1>1, PTL

\* Workers run only after FromConfig and Ready have checked what they rely on.
THEOREM ConfiguredBeforeRun == Spec => []RunsConfigured
<1>1. Inv => RunsConfigured
  BY DEF Inv, MainInv, RunsConfigured, Checked, Equipped, Customized
<1> QED
  BY InvInductive, <1>1, PTL
=============================================================================
